--------------------------- MODULE RunLifecycleProofs ---------------------------
(***************************************************************************)
(* The repository follows the queue, for every number of runs, runners and *)
(* requests in flight, with crashes of the server and of the runners.      *)
(***************************************************************************)
EXTENDS RunLifecycle, FiniteSetTheorems, TLAPS

USE RunLifecycleAssumption

(* The sets that TypeOK is made of. *)
USE DEF Queue!Phase, Queue!Live, Queue!Final, RunStatus, Outcome, Final,
        RunnerState, HandlerState, Await

(* What a handler knows when it comes back from an await, and that what it   *)
(* knows stays true while other handlers run.                                *)
HandlersKnow ==
  \A h \in Handler :
    /\ handler[h].at \notin {"idle", "grant"} => handler[h].run \in Run
    /\ handler[h].at \in {"completeLookup", "completeJob", "saveResult", "markFinal",
                          "importLookup", "importSave", "importMark"}
         => handler[h].status \in Outcome
    /\ handler[h].at = "enqueue" =>
         /\ phase[handler[h].run] = "new"
         /\ status[handler[h].run] # "none"
    /\ handler[h].at \in {"saveResult", "markFinal"} =>
         phase[handler[h].run] = handler[h].status
    /\ handler[h].at = "markCancelled" => phase[handler[h].run] = "cancelled"
    /\ handler[h].at \in {"importLookup", "importSave", "importMark"} => Imports
    /\ handler[h].open => handler[h].for \in Runner

(* A run is posted once, and its job is not in the queue before that.        *)
PostedOnce ==
  /\ \A r \in Run : status[r] = "none" => phase[r] = "new"
  /\ \A g, h \in Handler :
       /\ handler[g].at = "enqueue"
       /\ handler[h].at = "enqueue"
       /\ handler[g].run = handler[h].run
       => g = h

RunnersKnow ==
  \A w \in Runner : runner[w].at \in {"executing", "reporting"} => runner[w].run \in Run

(* RepositoryFollowsQueue alone is not inductive: a handler between queue    *)
(* and repository must know that the job has not changed since.              *)
IInv == TypeOK /\ HandlersKnow /\ PostedOnce /\ RunnersKnow /\ RepositoryFollowsQueue

(* Nothing is posted, queued or in flight when the system starts. *)
LEMMA InitInv == Init => IInv
<1> SUFFICES ASSUME Init PROVE IInv
  OBVIOUS
<1> USE DEF Init, Queue!Init
<1>1. TypeOK
  BY DEF TypeOK, Idle
<1>2. HandlersKnow
  BY DEF HandlersKnow, Idle
<1>3. PostedOnce /\ RunnersKnow
  BY DEF PostedOnce, RunnersKnow, Idle
<1>4. RepositoryFollowsQueue
  BY DEF RepositoryFollowsQueue
<1> QED
  BY <1>1, <1>2, <1>3, <1>4 DEF IInv

(* A handler that replies or goes on is a handler still. *)
LEMMA ReplyTyped ==
  ASSUME handler \in [Handler -> HandlerState], NEW h \in Handler, Reply(h)
  PROVE  handler' \in [Handler -> HandlerState]
BY DEF Reply, Idle

LEMMA ProceedTyped ==
  ASSUME handler \in [Handler -> HandlerState], NEW h \in Handler,
         NEW step \in Await, Proceed(h, step)
  PROVE  handler' \in [Handler -> HandlerState]
BY DEF Proceed

(* POST /runs stores a run that no handler has enqueued. *)
LEMMA PostRunInv ==
  ASSUME IInv, NEW h \in Handler, NEW r \in Run, PostRun(h, r)
  PROVE  IInv'
<1> USE DEF IInv, PostRun, Receive, queueVars, repository
<1>1. TypeOK'
  BY DEF TypeOK, HandlersKnow, RunnersKnow, Idle
<1>2. HandlersKnow'
  BY DEF TypeOK, HandlersKnow, PostedOnce, RunnersKnow, Idle
<1>3. PostedOnce'
  BY SMTT(30) DEF TypeOK, HandlersKnow, PostedOnce, Idle
<1>4. RunnersKnow'
  BY DEF TypeOK, HandlersKnow, RunnersKnow
<1>5. RepositoryFollowsQueue'
  BY DEF TypeOK, HandlersKnow, PostedOnce, RepositoryFollowsQueue
<1> QED
  BY <1>1, <1>2, <1>3, <1>4, <1>5

(* The one handler that posted the run submits its job. *)
LEMMA EnqueueJobInv ==
  ASSUME IInv, NEW h \in Handler, EnqueueJob(h)
  PROVE  IInv'
<1> USE DEF IInv, EnqueueJob, Reply, Queue!Submit, queueVars, repository
<1>1. TypeOK'
  BY DEF TypeOK, HandlersKnow, RunnersKnow, Idle
<1>2. HandlersKnow'
  BY DEF TypeOK, HandlersKnow, PostedOnce, RunnersKnow, Idle
<1>3. PostedOnce'
  BY SMTT(30) DEF TypeOK, HandlersKnow, PostedOnce, Idle
<1>4. RunnersKnow'
  BY DEF TypeOK, HandlersKnow, RunnersKnow
<1>5. RepositoryFollowsQueue'
  BY DEF TypeOK, HandlersKnow, PostedOnce, RepositoryFollowsQueue
<1> QED
  BY <1>1, <1>2, <1>3, <1>4, <1>5

(* A handler that fails leaves what it did before. *)
LEMMA HandlerThrowsInv ==
  ASSUME IInv, NEW h \in Handler, HandlerThrows(h)
  PROVE  IInv'
<1> USE DEF IInv, HandlerThrows, Reply, Tell, Dead, queueVars, repository
<1>1. TypeOK'
  BY DEF TypeOK, HandlersKnow, RunnersKnow, Idle
<1>2. HandlersKnow'
  BY DEF TypeOK, HandlersKnow, PostedOnce, RunnersKnow, Idle
<1>3. PostedOnce'
  BY SMTT(30) DEF TypeOK, HandlersKnow, PostedOnce, Idle
<1>4. RunnersKnow'
  BY DEF TypeOK, HandlersKnow, RunnersKnow
<1>5. RepositoryFollowsQueue'
  BY DEF TypeOK, HandlersKnow, PostedOnce, RepositoryFollowsQueue
<1> QED
  BY <1>1, <1>2, <1>3, <1>4, <1>5

(* A lease request knows nothing of a run yet. *)
LEMMA PostLeaseInv ==
  ASSUME IInv, NEW h \in Handler, NEW w \in Runner, PostLease(h, w)
  PROVE  IInv'
<1> USE DEF IInv, PostLease, Receive, Polling, queueVars, repository
<1>1. TypeOK'
  BY DEF TypeOK, HandlersKnow, RunnersKnow, Idle
<1>2. HandlersKnow'
  BY DEF TypeOK, HandlersKnow, PostedOnce, RunnersKnow, Idle
<1>3. PostedOnce'
  BY SMTT(30) DEF TypeOK, HandlersKnow, PostedOnce, Idle
<1>4. RunnersKnow'
  BY DEF TypeOK, HandlersKnow, RunnersKnow
<1>5. RepositoryFollowsQueue'
  BY DEF TypeOK, HandlersKnow, PostedOnce, RepositoryFollowsQueue
<1> QED
  BY <1>1, <1>2, <1>3, <1>4, <1>5

(* The sweep moves jobs that are held, the grant one that waits or was held: *)
(* no job that has ended. *)
LEMMA GrantInv ==
  ASSUME IInv, NEW h \in Handler, Grant(h)
  PROVE  IInv'
<1> USE DEF IInv, queueVars, repository
<1> DEFINE w == handler[h].for
<1>1. PICK S \in SUBSET Queue!JobsIn("leased") :
        /\ reclaims' = reclaims + Cardinality(S)
        /\ reclaims' <= MaxReclaims
        /\ \/ \E r \in Run :
                /\ Queue!ReclaimAndGrant(S, r, handler[h].for)
                /\ handler' = [handler EXCEPT ![h].at = "markRunning", ![h].run = r]
                /\ UNCHANGED runner
           \/ /\ Queue!JobsIn("queued") \cup S = {}
              /\ UNCHANGED queueVars
              /\ Reply(h)
              /\ Tell(h, Polling)
  BY DEF Grant
<1>2. handler[h].at = "grant" /\ UNCHANGED repository
  BY DEF Grant
<1>3. S \subseteq Run /\ \A r \in S : phase[r] = "leased"
  BY DEF Queue!JobsIn
<1>4. reclaims' \in 0 .. MaxReclaims
  BY <1>1, <1>3, FS_Subset, FS_CardinalityType DEF TypeOK
<1>5. CASE \E r \in Run :
             /\ Queue!ReclaimAndGrant(S, r, handler[h].for)
             /\ handler' = [handler EXCEPT ![h].at = "markRunning", ![h].run = r]
             /\ UNCHANGED runner
  <2>1. PICK r \in Run :
          /\ Queue!ReclaimAndGrant(S, r, handler[h].for)
          /\ handler' = [handler EXCEPT ![h].at = "markRunning", ![h].run = r]
          /\ UNCHANGED runner
    BY <1>5
  <2>2. /\ phase[r] \in {"queued", "leased"}
        /\ w \in Runner
        /\ phase' = [i \in Run |-> IF i = r THEN "leased"
                                  ELSE IF i \in S THEN "queued" ELSE phase[i]]
        /\ holder' = [i \in Run |-> IF i = r THEN w
                                   ELSE IF i \in S THEN None ELSE holder[i]]
    BY <1>3, <2>1 DEF Queue!ReclaimAndGrant, Queue!JobsIn
  <2>a. handler' \in [Handler -> HandlerState]
    <3> SUFFICES ASSUME NEW g \in Handler PROVE handler'[g] \in HandlerState
      BY <2>1 DEF TypeOK
    <3>1. CASE g = h
      <4>1. handler'[g] = [handler[g] EXCEPT !.at = "markRunning", !.run = r]
        BY <2>1, <3>1 DEF TypeOK
      <4>2. handler[g] \in HandlerState
        BY DEF TypeOK
      <4> QED
        BY <4>1, <4>2
    <3>2. CASE g # h
      BY <2>1, <3>2 DEF TypeOK
    <3> QED
      BY <3>1, <3>2
  <2>b. phase' \in [Run -> Queue!Phase] /\ holder' \in [Run -> Runner \cup {None}]
    BY <2>2 DEF TypeOK
  <2>3. TypeOK'
    BY <1>2, <1>4, <2>1, <2>a, <2>b DEF TypeOK
  <2>4. HandlersKnow'
    BY <1>2, <1>3, <2>1, <2>2 DEF TypeOK, HandlersKnow
  <2>5. PostedOnce'
    BY <1>2, <1>3, <2>1, <2>2 DEF TypeOK, PostedOnce
  <2>6. RunnersKnow'
    BY <2>1 DEF RunnersKnow
  <2>7. RepositoryFollowsQueue'
    BY <1>2, <1>3, <2>2 DEF TypeOK, RepositoryFollowsQueue
  <2> QED
    BY <2>3, <2>4, <2>5, <2>6, <2>7
<1>6. CASE UNCHANGED queueVars /\ Reply(h) /\ Tell(h, Polling)
  <2> USE <1>2, <1>6 DEF Reply, Tell, Polling
  <2>1. TypeOK'
    BY <1>4 DEF TypeOK, HandlersKnow, Idle
  <2>2. HandlersKnow' /\ PostedOnce'
    BY DEF TypeOK, HandlersKnow, PostedOnce, Idle
  <2>3. RunnersKnow' /\ RepositoryFollowsQueue'
    BY DEF TypeOK, HandlersKnow, RunnersKnow, RepositoryFollowsQueue
  <2> QED
    BY <2>1, <2>2, <2>3
<1> QED
  BY <1>1, <1>5, <1>6

(* The unconditional update only ever removes a last status. *)
LEMMA MarkRunningInv ==
  ASSUME IInv, NEW h \in Handler, MarkRunning(h)
  PROVE  IInv'
<1> USE DEF IInv, MarkRunning, Reply, Tell, Executing, queueVars, repository
<1>1. TypeOK'
  BY DEF TypeOK, HandlersKnow, RunnersKnow, Idle
<1>2. HandlersKnow'
  BY DEF TypeOK, HandlersKnow, PostedOnce, RunnersKnow, Idle
<1>3. PostedOnce'
  BY SMTT(30) DEF TypeOK, HandlersKnow, PostedOnce, Idle
<1>4. RunnersKnow'
  BY DEF TypeOK, HandlersKnow, RunnersKnow
<1>5. RepositoryFollowsQueue'
  BY DEF TypeOK, HandlersKnow, PostedOnce, RepositoryFollowsQueue
<1> QED
  BY <1>1, <1>2, <1>3, <1>4, <1>5

(* A cancellation may name any run. *)
LEMMA PostCancelInv ==
  ASSUME IInv, NEW h \in Handler, NEW r \in Run, PostCancel(h, r)
  PROVE  IInv'
<1> USE DEF IInv, PostCancel, Receive, queueVars, repository
<1>1. TypeOK'
  BY DEF TypeOK, HandlersKnow, RunnersKnow, Idle
<1>2. HandlersKnow'
  BY DEF TypeOK, HandlersKnow, PostedOnce, RunnersKnow, Idle
<1>3. PostedOnce'
  BY SMTT(30) DEF TypeOK, HandlersKnow, PostedOnce, Idle
<1>4. RunnersKnow'
  BY DEF TypeOK, HandlersKnow, RunnersKnow
<1>5. RepositoryFollowsQueue'
  BY DEF TypeOK, HandlersKnow, PostedOnce, RepositoryFollowsQueue
<1> QED
  BY <1>1, <1>2, <1>3, <1>4, <1>5

(* The lookup changes nothing. *)
LEMMA CancelLookupInv ==
  ASSUME IInv, NEW h \in Handler, CancelLookup(h)
  PROVE  IInv'
<1> USE DEF IInv, CancelLookup, Reply, Proceed, queueVars, repository
<1>a. /\ phase' \in [Run -> Queue!Phase]
      /\ holder' \in [Run -> Runner \cup {None}]
  BY DEF TypeOK, HandlersKnow
<1>b. /\ status' \in [Run -> RunStatus]
      /\ result' \in [Run -> Outcome \cup {None}]
  BY DEF TypeOK, HandlersKnow
<1>c. runner' \in [Runner -> RunnerState]
  BY DEF TypeOK, HandlersKnow
<1>d. handler' \in [Handler -> HandlerState]
  <2>1. Reply(h) \/ Proceed(h, "cancelJob")
    BY DEF CancelLookup
  <2>2. "cancelJob" \in Await
    OBVIOUS
  <2> QED
    BY ReplyTyped, ProceedTyped, <2>1, <2>2 DEF TypeOK
<1>1. TypeOK'
  BY <1>a, <1>b, <1>c, <1>d DEF TypeOK
<1>2. HandlersKnow'
  BY SMTT(30) DEF TypeOK, HandlersKnow, PostedOnce, RunnersKnow, Idle
<1>3. PostedOnce'
  BY SMTT(30) DEF TypeOK, HandlersKnow, PostedOnce, Idle
<1>4. RunnersKnow'
  BY DEF TypeOK, HandlersKnow, RunnersKnow
<1>5. RepositoryFollowsQueue'
  BY DEF TypeOK, HandlersKnow, PostedOnce, RepositoryFollowsQueue
<1> QED
  BY <1>1, <1>2, <1>3, <1>4, <1>5

(* Only a withdrawn job lets the handler mark the run. *)
LEMMA CancelJobInv ==
  ASSUME IInv, NEW h \in Handler, CancelJob(h)
  PROVE  IInv'
<1> USE DEF IInv, CancelJob, Reply, Proceed, Queue!Withdraw, queueVars, repository
<1>a. /\ phase' \in [Run -> Queue!Phase]
      /\ holder' \in [Run -> Runner \cup {None}]
  BY SMTT(30) DEF TypeOK, HandlersKnow
<1>b. /\ status' \in [Run -> RunStatus]
      /\ result' \in [Run -> Outcome \cup {None}]
  BY DEF TypeOK, HandlersKnow
<1>c. runner' \in [Runner -> RunnerState]
  BY DEF TypeOK, HandlersKnow
<1>d. handler' \in [Handler -> HandlerState]
  <2>1. Reply(h) \/ Proceed(h, "markCancelled")
    BY DEF CancelJob
  <2>2. "markCancelled" \in Await
    OBVIOUS
  <2> QED
    BY ReplyTyped, ProceedTyped, <2>1, <2>2 DEF TypeOK
<1>1. TypeOK'
  BY <1>a, <1>b, <1>c, <1>d DEF TypeOK
<1>2. HandlersKnow'
  BY DEF TypeOK, HandlersKnow, PostedOnce, RunnersKnow, Idle
<1>3. PostedOnce'
  BY SMTT(30) DEF TypeOK, HandlersKnow, PostedOnce, Idle
<1>4. RunnersKnow'
  BY DEF TypeOK, HandlersKnow, RunnersKnow
<1>5. RepositoryFollowsQueue'
  BY DEF TypeOK, HandlersKnow, PostedOnce, RepositoryFollowsQueue
<1> QED
  BY <1>1, <1>2, <1>3, <1>4, <1>5

(* The job is cancelled already when the run is marked. *)
LEMMA MarkCancelledInv ==
  ASSUME IInv, NEW h \in Handler, MarkCancelled(h)
  PROVE  IInv'
<1> USE DEF IInv, MarkCancelled, Reply, queueVars, repository
<1>1. TypeOK'
  BY DEF TypeOK, HandlersKnow, RunnersKnow, Idle
<1>2. HandlersKnow'
  BY DEF TypeOK, HandlersKnow, PostedOnce, RunnersKnow, Idle
<1>3. PostedOnce'
  BY SMTT(30) DEF TypeOK, HandlersKnow, PostedOnce, Idle
<1>4. RunnersKnow'
  BY DEF TypeOK, HandlersKnow, RunnersKnow
<1>5. RepositoryFollowsQueue'
  BY DEF TypeOK, HandlersKnow, PostedOnce, RepositoryFollowsQueue
<1> QED
  BY <1>1, <1>2, <1>3, <1>4, <1>5

(* The report's status has been validated. *)
LEMMA PostCompleteInv ==
  ASSUME IInv, NEW h \in Handler, NEW w \in Runner, NEW outcome \in Outcome, PostComplete(h, w, outcome)
  PROVE  IInv'
<1> USE DEF IInv, PostComplete, Receive, queueVars, repository
<1>1. TypeOK'
  BY DEF TypeOK, HandlersKnow, RunnersKnow, Idle
<1>2. HandlersKnow'
  BY DEF TypeOK, HandlersKnow, PostedOnce, RunnersKnow, Idle
<1>3. PostedOnce'
  BY SMTT(30) DEF TypeOK, HandlersKnow, PostedOnce, Idle
<1>4. RunnersKnow'
  BY DEF TypeOK, HandlersKnow, RunnersKnow
<1>5. RepositoryFollowsQueue'
  BY DEF TypeOK, HandlersKnow, PostedOnce, RepositoryFollowsQueue
<1> QED
  BY <1>1, <1>2, <1>3, <1>4, <1>5

(* The lookup changes nothing. *)
LEMMA CompleteLookupInv ==
  ASSUME IInv, NEW h \in Handler, CompleteLookup(h)
  PROVE  IInv'
<1> USE DEF IInv, CompleteLookup, Reply, Proceed, Tell, Dead, queueVars, repository
<1>a. /\ phase' \in [Run -> Queue!Phase]
      /\ holder' \in [Run -> Runner \cup {None}]
  BY DEF TypeOK, HandlersKnow
<1>b. /\ status' \in [Run -> RunStatus]
      /\ result' \in [Run -> Outcome \cup {None}]
  BY DEF TypeOK, HandlersKnow
<1>c. runner' \in [Runner -> RunnerState]
  BY DEF TypeOK, HandlersKnow
<1>d. handler' \in [Handler -> HandlerState]
  <2>1. Reply(h) \/ Proceed(h, "completeJob")
    BY DEF CompleteLookup
  <2>2. "completeJob" \in Await
    OBVIOUS
  <2> QED
    BY ReplyTyped, ProceedTyped, <2>1, <2>2 DEF TypeOK
<1>1. TypeOK'
  BY <1>a, <1>b, <1>c, <1>d DEF TypeOK
<1>2. HandlersKnow'
  BY DEF TypeOK, HandlersKnow, PostedOnce, RunnersKnow, Idle
<1>3. PostedOnce'
  BY SMTT(30) DEF TypeOK, HandlersKnow, PostedOnce, Idle
<1>4. RunnersKnow'
  BY SMTT(30) DEF TypeOK, HandlersKnow, RunnersKnow
<1>5. RepositoryFollowsQueue'
  BY DEF TypeOK, HandlersKnow, PostedOnce, RepositoryFollowsQueue
<1> QED
  BY <1>1, <1>2, <1>3, <1>4, <1>5

(* Only a finished job lets the handler store the result. *)
LEMMA CompleteJobInv ==
  ASSUME IInv, NEW h \in Handler, CompleteJob(h)
  PROVE  IInv'
<1> USE DEF IInv, CompleteJob, Reply, Proceed, Tell, Dead, Queue!Finish, queueVars, repository
<1>a. /\ phase' \in [Run -> Queue!Phase]
      /\ holder' \in [Run -> Runner \cup {None}]
  BY DEF TypeOK, HandlersKnow
<1>b. /\ status' \in [Run -> RunStatus]
      /\ result' \in [Run -> Outcome \cup {None}]
  BY DEF TypeOK, HandlersKnow
<1>c. runner' \in [Runner -> RunnerState]
  BY DEF TypeOK, HandlersKnow
<1>d. handler' \in [Handler -> HandlerState]
  <2>1. Reply(h) \/ Proceed(h, "saveResult") \/ Proceed(h, "markFinal")
    BY DEF CompleteJob
  <2>2. "saveResult" \in Await /\ "markFinal" \in Await
    OBVIOUS
  <2> QED
    BY ReplyTyped, ProceedTyped, <2>1, <2>2 DEF TypeOK
<1>1. TypeOK'
  BY <1>a, <1>b, <1>c, <1>d DEF TypeOK
<1>2. HandlersKnow'
  <2>1. CASE Queue!Finish(handler[h].run, handler[h].status) /\ Proceed(h, "saveResult")
    BY <2>1 DEF TypeOK, HandlersKnow
  <2>2. CASE Queue!Finish(handler[h].run, handler[h].status) /\ Proceed(h, "markFinal")
    BY <2>2 DEF TypeOK, HandlersKnow
  <2>3. CASE UNCHANGED queueVars /\ Reply(h)
    BY <2>3 DEF TypeOK, HandlersKnow, Idle
  <2> QED
    BY <2>1, <2>2, <2>3
<1>3. PostedOnce'
  BY SMTT(30) DEF TypeOK, HandlersKnow, PostedOnce, Idle
<1>4. RunnersKnow'
  BY DEF TypeOK, HandlersKnow, RunnersKnow
<1>5. RepositoryFollowsQueue'
  BY DEF TypeOK, HandlersKnow, PostedOnce, RepositoryFollowsQueue
<1> QED
  BY <1>1, <1>2, <1>3, <1>4, <1>5

(* The job has the result's status already. *)
LEMMA SaveResultInv ==
  ASSUME IInv, NEW h \in Handler, SaveResult(h)
  PROVE  IInv'
<1> USE DEF IInv, SaveResult, Proceed, queueVars, repository
<1>1. TypeOK'
  BY SMTT(30) DEF TypeOK, HandlersKnow, RunnersKnow, Idle
<1>2. HandlersKnow'
  BY DEF TypeOK, HandlersKnow, PostedOnce, RunnersKnow, Idle
<1>3. PostedOnce'
  BY SMTT(30) DEF TypeOK, HandlersKnow, PostedOnce, Idle
<1>4. RunnersKnow'
  BY DEF TypeOK, HandlersKnow, RunnersKnow
<1>5. RepositoryFollowsQueue'
  BY DEF TypeOK, HandlersKnow, PostedOnce, RepositoryFollowsQueue
<1> QED
  BY <1>1, <1>2, <1>3, <1>4, <1>5

(* The job has the run's new status already. *)
LEMMA MarkFinalInv ==
  ASSUME IInv, NEW h \in Handler, MarkFinal(h)
  PROVE  IInv'
<1> USE DEF IInv, MarkFinal, Reply, Tell, Polling, queueVars, repository
<1>a. /\ phase' \in [Run -> Queue!Phase]
      /\ holder' \in [Run -> Runner \cup {None}]
  BY DEF TypeOK, HandlersKnow
<1>b. /\ status' \in [Run -> RunStatus]
      /\ result' \in [Run -> Outcome \cup {None}]
  BY DEF TypeOK, HandlersKnow
<1>c. runner' \in [Runner -> RunnerState]
  BY DEF TypeOK, HandlersKnow
<1>d. handler' \in [Handler -> HandlerState]
  BY DEF TypeOK, Idle
<1>1. TypeOK'
  BY <1>a, <1>b, <1>c, <1>d DEF TypeOK
<1>2. HandlersKnow'
  BY DEF TypeOK, HandlersKnow, PostedOnce, RunnersKnow, Idle
<1>3. PostedOnce'
  BY SMTT(30) DEF TypeOK, HandlersKnow, PostedOnce, Idle
<1>4. RunnersKnow'
  BY DEF TypeOK, HandlersKnow, RunnersKnow
<1>5. RepositoryFollowsQueue'
  BY DEF TypeOK, HandlersKnow, PostedOnce, RepositoryFollowsQueue
<1> QED
  BY <1>1, <1>2, <1>3, <1>4, <1>5

(* Imports come only from clients that import. *)
LEMMA PostImportInv ==
  ASSUME IInv, NEW h \in Handler, NEW r \in Run, NEW outcome \in Outcome, PostImport(h, r, outcome)
  PROVE  IInv'
<1> USE DEF IInv, PostImport, Receive, queueVars, repository
<1>1. TypeOK'
  BY DEF TypeOK, HandlersKnow, RunnersKnow, Idle
<1>2. HandlersKnow'
  BY DEF TypeOK, HandlersKnow, PostedOnce, RunnersKnow, Idle
<1>3. PostedOnce'
  BY SMTT(30) DEF TypeOK, HandlersKnow, PostedOnce, Idle
<1>4. RunnersKnow'
  BY DEF TypeOK, HandlersKnow, RunnersKnow
<1>5. RepositoryFollowsQueue'
  BY DEF TypeOK, HandlersKnow, PostedOnce, RepositoryFollowsQueue
<1> QED
  BY <1>1, <1>2, <1>3, <1>4, <1>5

(* The lookup changes nothing. *)
LEMMA ImportLookupInv ==
  ASSUME IInv, NEW h \in Handler, ImportLookup(h)
  PROVE  IInv'
<1> USE DEF IInv, ImportLookup, Reply, Proceed, queueVars, repository
<1>a. /\ phase' \in [Run -> Queue!Phase]
      /\ holder' \in [Run -> Runner \cup {None}]
  BY DEF TypeOK, HandlersKnow
<1>b. /\ status' \in [Run -> RunStatus]
      /\ result' \in [Run -> Outcome \cup {None}]
  BY DEF TypeOK, HandlersKnow
<1>c. runner' \in [Runner -> RunnerState]
  BY DEF TypeOK, HandlersKnow
<1>d. handler' \in [Handler -> HandlerState]
  <2>1. Reply(h) \/ Proceed(h, "importSave")
    BY DEF ImportLookup
  <2>2. "importSave" \in Await
    OBVIOUS
  <2> QED
    BY ReplyTyped, ProceedTyped, <2>1, <2>2 DEF TypeOK
<1>1. TypeOK'
  BY <1>a, <1>b, <1>c, <1>d DEF TypeOK
<1>2. HandlersKnow'
  BY SMTT(30) DEF TypeOK, HandlersKnow, PostedOnce, RunnersKnow, Idle
<1>3. PostedOnce'
  BY SMTT(30) DEF TypeOK, HandlersKnow, PostedOnce, Idle
<1>4. RunnersKnow'
  BY DEF TypeOK, HandlersKnow, RunnersKnow
<1>5. RepositoryFollowsQueue'
  BY DEF TypeOK, HandlersKnow, PostedOnce, RepositoryFollowsQueue
<1> QED
  BY <1>1, <1>2, <1>3, <1>4, <1>5

(* With imports the repository is not bound to the queue. *)
LEMMA ImportSaveInv ==
  ASSUME IInv, NEW h \in Handler, ImportSave(h)
  PROVE  IInv'
<1> USE DEF IInv, ImportSave, Proceed, queueVars, repository
<1>a. /\ phase' \in [Run -> Queue!Phase]
      /\ holder' \in [Run -> Runner \cup {None}]
  BY DEF TypeOK, HandlersKnow
<1>b. /\ status' \in [Run -> RunStatus]
      /\ result' \in [Run -> Outcome \cup {None}]
  BY DEF TypeOK, HandlersKnow
<1>c. runner' \in [Runner -> RunnerState]
  BY DEF TypeOK, HandlersKnow
<1>d. handler' \in [Handler -> HandlerState]
  BY DEF TypeOK, Idle
<1>1. TypeOK'
  BY <1>a, <1>b, <1>c, <1>d DEF TypeOK
<1>2. HandlersKnow'
  BY DEF TypeOK, HandlersKnow, PostedOnce, RunnersKnow, Idle
<1>3. PostedOnce'
  BY SMTT(30) DEF TypeOK, HandlersKnow, PostedOnce, Idle
<1>4. RunnersKnow'
  BY DEF TypeOK, HandlersKnow, RunnersKnow
<1>5. RepositoryFollowsQueue'
  BY DEF TypeOK, HandlersKnow, PostedOnce, RepositoryFollowsQueue
<1> QED
  BY <1>1, <1>2, <1>3, <1>4, <1>5

(* With imports the repository is not bound to the queue. *)
LEMMA ImportMarkInv ==
  ASSUME IInv, NEW h \in Handler, ImportMark(h)
  PROVE  IInv'
<1> USE DEF IInv, ImportMark, Reply, queueVars, repository
<1>a. /\ phase' \in [Run -> Queue!Phase]
      /\ holder' \in [Run -> Runner \cup {None}]
  BY DEF TypeOK, HandlersKnow
<1>b. /\ status' \in [Run -> RunStatus]
      /\ result' \in [Run -> Outcome \cup {None}]
  BY DEF TypeOK, HandlersKnow
<1>c. runner' \in [Runner -> RunnerState]
  BY DEF TypeOK, HandlersKnow
<1>d. handler' \in [Handler -> HandlerState]
  BY DEF TypeOK, Idle
<1>1. TypeOK'
  BY <1>a, <1>b, <1>c, <1>d DEF TypeOK
<1>2. HandlersKnow'
  BY DEF TypeOK, HandlersKnow, PostedOnce, RunnersKnow, Idle
<1>3. PostedOnce'
  BY SMTT(30) DEF TypeOK, HandlersKnow, PostedOnce, Idle
<1>4. RunnersKnow'
  BY DEF TypeOK, HandlersKnow, RunnersKnow
<1>5. RepositoryFollowsQueue'
  BY DEF TypeOK, HandlersKnow, PostedOnce, RepositoryFollowsQueue
<1> QED
  BY <1>1, <1>2, <1>3, <1>4, <1>5

(* A handler outlives the runner it works for. *)
LEMMA RunnerDiesInv ==
  ASSUME IInv, NEW w \in Runner, RunnerDies(w)
  PROVE  IInv'
<1> USE DEF IInv, RunnerDies, Dead, queueVars, repository
<1>a. /\ phase' \in [Run -> Queue!Phase]
      /\ holder' \in [Run -> Runner \cup {None}]
  BY DEF TypeOK, HandlersKnow
<1>b. /\ status' \in [Run -> RunStatus]
      /\ result' \in [Run -> Outcome \cup {None}]
  BY DEF TypeOK, HandlersKnow
<1>c. runner' \in [Runner -> RunnerState]
  BY DEF TypeOK, HandlersKnow
<1>d. handler' \in [Handler -> HandlerState]
  <2> SUFFICES ASSUME NEW h \in Handler
               PROVE  handler'[h] \in HandlerState
    OBVIOUS
  <2>1. handler[h] \in HandlerState
    BY DEF TypeOK
  <2>2. [handler[h] EXCEPT !.open = FALSE] \in HandlerState
    BY <2>1, Zenon
  <2> QED
    BY <2>1, <2>2
<1>1. TypeOK'
  BY <1>a, <1>b, <1>c, <1>d DEF TypeOK
<1>2. HandlersKnow'
  BY DEF TypeOK, HandlersKnow, PostedOnce, RunnersKnow, Idle
<1>3. PostedOnce'
  BY SMTT(30) DEF TypeOK, HandlersKnow, PostedOnce, Idle
<1>4. RunnersKnow'
  BY DEF TypeOK, HandlersKnow, RunnersKnow
<1>5. RepositoryFollowsQueue'
  BY DEF TypeOK, HandlersKnow, PostedOnce, RepositoryFollowsQueue
<1> QED
  BY <1>1, <1>2, <1>3, <1>4, <1>5

(* A runner that starts again holds nothing. *)
LEMMA RunnerRestartsInv ==
  ASSUME IInv, NEW w \in Runner, RunnerRestarts(w)
  PROVE  IInv'
<1> USE DEF IInv, RunnerRestarts, Dead, Polling, queueVars, repository
<1>1. TypeOK'
  BY DEF TypeOK, HandlersKnow, RunnersKnow, Idle
<1>2. HandlersKnow'
  BY DEF TypeOK, HandlersKnow, PostedOnce, RunnersKnow, Idle
<1>3. PostedOnce'
  BY SMTT(30) DEF TypeOK, HandlersKnow, PostedOnce, Idle
<1>4. RunnersKnow'
  BY DEF TypeOK, HandlersKnow, RunnersKnow
<1>5. RepositoryFollowsQueue'
  BY DEF TypeOK, HandlersKnow, PostedOnce, RepositoryFollowsQueue
<1> QED
  BY <1>1, <1>2, <1>3, <1>4, <1>5

(* A crash drops every handler and changes nothing else. *)
LEMMA ServerCrashInv ==
  ASSUME IInv, ServerCrash
  PROVE  IInv'
<1> USE DEF IInv, ServerCrash, Dead, queueVars, repository
<1>1. TypeOK'
  BY DEF TypeOK, HandlersKnow, RunnersKnow, Idle
<1>2. HandlersKnow'
  BY DEF TypeOK, HandlersKnow, PostedOnce, RunnersKnow, Idle
<1>3. PostedOnce'
  BY SMTT(30) DEF TypeOK, HandlersKnow, PostedOnce, Idle
<1>4. RunnersKnow'
  BY DEF TypeOK, HandlersKnow, RunnersKnow
<1>5. RepositoryFollowsQueue'
  BY DEF TypeOK, HandlersKnow, PostedOnce, RepositoryFollowsQueue
<1> QED
  BY <1>1, <1>2, <1>3, <1>4, <1>5

(* Every action of the system keeps the inductive invariant. *)
THEOREM StepInv == IInv /\ [Next]_vars => IInv'
<1> SUFFICES ASSUME IInv, [Next]_vars PROVE IInv'
  OBVIOUS
<1>1. CASE Clients
  BY <1>1, PostRunInv, PostCancelInv, PostImportInv DEF Clients
<1>2. ASSUME NEW h \in Handler, Work(h) PROVE IInv'
  BY <1>2, EnqueueJobInv, GrantInv, MarkRunningInv, CancelLookupInv, CancelJobInv,
     MarkCancelledInv, CompleteLookupInv, CompleteJobInv, SaveResultInv, MarkFinalInv,
     ImportLookupInv, ImportSaveInv, ImportMarkInv DEF Work
<1>3. ASSUME NEW w \in Runner, Loop(w) PROVE IInv'
  BY <1>3, PostLeaseInv, PostCompleteInv, RunnerRestartsInv DEF Loop
<1>4. CASE Faults
  BY <1>4, HandlerThrowsInv, RunnerDiesInv, ServerCrashInv DEF Faults
<1>5. CASE UNCHANGED vars
  BY <1>5 DEF vars, queueVars, repository, IInv, TypeOK, HandlersKnow, PostedOnce,
              RunnersKnow, RepositoryFollowsQueue
<1> QED
  BY <1>1, <1>2, <1>3, <1>4, <1>5 DEF Next

(* The inductive invariant holds in every reachable state. *)
THEOREM Invariance == Spec => []IInv
BY InitInv, StepInv, PTL DEF Spec

(* Every variable keeps its type; in particular a stored result and a last   *)
(* status are always those of a validated Result Protocol body.              *)
THEOREM Typing == Spec => []TypeOK
<1>1. IInv => TypeOK
  BY DEF IInv
<1> QED
  BY Invariance, <1>1, PTL

(* The stored status and result of a run are those of its job, whatever      *)
(* handlers overlap and wherever the server or a runner stops.               *)
THEOREM RepositoryIsFaithful == Spec => []RepositoryFollowsQueue
<1>1. IInv => RepositoryFollowsQueue
  BY DEF IInv
<1> QED
  BY Invariance, <1>1, PTL

(* The handlers change the repository and the queue in separate steps. *)
LEMMA SeparateAwaits == [Next]_vars => phase' = phase \/ status' = status
BY DEF Next, Clients, Work, Loop, Faults, vars, queueVars, repository,
       PostRun, PostCancel, PostImport, EnqueueJob, Grant, MarkRunning,
       CancelLookup, CancelJob, MarkCancelled, CompleteLookup, CompleteJob,
       SaveResult, MarkFinal, ImportLookup, ImportSave, ImportMark, PostLease,
       PostComplete, RunnerRestarts, HandlerThrows, RunnerDies, ServerCrash

(* Only a grant puts a handler before updateRun("running"), and the queue    *)
(* grants no job that has ended.                                             *)
LEMMA GrantStartsNoEndedRun ==
  ASSUME IInv, ~Imports, NEW h \in Handler, Grant(h),
         NEW r \in Run, status[r] \in Final, ~Starting(r)
  PROVE  status'[r] \in Final /\ ~Starting(r)'
<1>1. status' = status
  BY DEF Grant, repository
<1>2. phase[r] \in Final
  BY DEF IInv, RepositoryFollowsQueue
<1>3. ASSUME NEW g \in Handler, handler'[g].at = "markRunning", handler'[g].run = r
      PROVE  FALSE
  <2>1. g = h
    BY <1>3 DEF Grant, Reply, Starting, IInv, TypeOK
  <2>2. PICK S \in SUBSET Queue!JobsIn("leased"), k \in Run :
          /\ Queue!ReclaimAndGrant(S, k, handler[h].for)
          /\ handler' = [handler EXCEPT ![h].at = "markRunning", ![h].run = k]
    BY <1>3, <2>1, SMTT(30) DEF Grant, Reply, Idle, IInv, TypeOK
  <2>3. k = r
    BY <1>3, <2>1, <2>2 DEF IInv, TypeOK
  <2>4. phase[r] \in {"queued", "leased"}
    BY <2>2, <2>3 DEF Queue!ReclaimAndGrant, Queue!JobsIn
  <2> QED
    BY <1>2, <2>4
<1> QED
  BY <1>1, <1>3 DEF Starting

(* What neither stores a status nor puts a handler before that await. *)
StartsNothing ==
  /\ status' = status
  /\ \A g \in Handler : handler'[g].at = "markRunning" => handler'[g] = handler[g]

LEMMA StartsNothingKeepsLastStatus ==
  ASSUME StartsNothing, NEW r \in Run, status[r] \in Final, ~Starting(r)
  PROVE  status'[r] \in Final /\ ~Starting(r)'
BY DEF StartsNothing, Starting

(* A handler that replies, or goes on to another await, starts nothing. *)
LEMMA GoingOnStartsNothing ==
  ASSUME handler \in [Handler -> HandlerState], NEW h \in Handler,
         \/ Reply(h)
         \/ \E step \in Await \ {"markRunning"} : Proceed(h, step),
         status' = status
  PROVE  StartsNothing
BY DEF StartsNothing, Reply, Proceed, Idle

(* The handlers that write or proceed, other than to "running". *)
LEMMA WorkKeepsLastStatus ==
  ASSUME IInv, ~Imports, NEW h \in Handler, Work(h),
         NEW r \in Run, status[r] \in Final, ~Starting(r)
  PROVE  status'[r] \in Final /\ ~Starting(r)'
<1>1. CASE EnqueueJob(h) \/ CancelLookup(h) \/ CancelJob(h) \/ CompleteLookup(h)
           \/ CompleteJob(h) \/ SaveResult(h)
  <2>1. status' = status
    BY <1>1 DEF EnqueueJob, CancelLookup, CancelJob, CompleteLookup, CompleteJob,
                SaveResult, repository
  <2>2. Reply(h) \/ \E step \in Await \ {"markRunning"} : Proceed(h, step)
    BY <1>1 DEF EnqueueJob, CancelLookup, CancelJob, CompleteLookup, CompleteJob,
                SaveResult
  <2>3. StartsNothing
    BY <2>1, <2>2, GoingOnStartsNothing DEF IInv, TypeOK
  <2> QED
    BY <2>3, StartsNothingKeepsLastStatus
<1>2. CASE Grant(h)
  BY <1>2, GrantStartsNoEndedRun
<1>3. CASE MarkRunning(h)
  BY <1>3 DEF MarkRunning, Starting, IInv, TypeOK, Reply, Idle
<1>4. CASE MarkCancelled(h)
  BY <1>4 DEF MarkCancelled, Starting, IInv, TypeOK, Reply, Idle
<1>5. CASE MarkFinal(h)
  BY <1>5 DEF MarkFinal, Starting, IInv, TypeOK, HandlersKnow, Reply, Idle
<1>6. CASE ImportLookup(h) \/ ImportSave(h) \/ ImportMark(h)
  BY <1>6 DEF ImportLookup, ImportSave, ImportMark, IInv, HandlersKnow
<1> QED
  BY <1>1, <1>2, <1>3, <1>4, <1>5, <1>6 DEF Work

(* Requests that arrive, runners and faults. *)
LEMMA OthersKeepLastStatus ==
  ASSUME IInv, Clients \/ (\E w \in Runner : Loop(w)) \/ Faults,
         NEW r \in Run, status[r] \in Final, ~Starting(r)
  PROVE  status'[r] \in Final /\ ~Starting(r)'
<1> USE DEF IInv, TypeOK, StartsNothing, Receive, Reply, Idle, repository
<1>1. ASSUME NEW h \in Handler, NEW q \in Run, PostRun(h, q)
      PROVE  status'[r] \in Final /\ ~Starting(r)'
  BY <1>1 DEF PostRun, Starting
<1>2. ASSUME NEW h \in Handler, NEW q \in Run,
             PostCancel(h, q) \/ \E outcome \in Outcome : PostImport(h, q, outcome)
      PROVE  StartsNothing
  <2>1. CASE PostCancel(h, q)
    BY <2>1 DEF PostCancel
  <2>2. ASSUME NEW outcome \in Outcome, PostImport(h, q, outcome)
        PROVE  StartsNothing
    BY <2>2 DEF PostImport
  <2> QED
    BY <1>2, <2>1, <2>2
<1>3. ASSUME NEW w \in Runner, Loop(w)
      PROVE  StartsNothing
  <2>1. CASE \E h \in Handler : PostLease(h, w)
    BY <2>1 DEF PostLease
  <2>2. CASE \E h \in Handler, outcome \in Outcome : PostComplete(h, w, outcome)
    BY <2>2 DEF PostComplete
  <2>3. CASE RunnerRestarts(w)
    BY <2>3 DEF RunnerRestarts
  <2> QED
    BY <1>3, <2>1, <2>2, <2>3 DEF Loop
<1>4. ASSUME Faults
      PROVE  StartsNothing \/ \E w \in Runner : RunnerDies(w)
  BY <1>4 DEF Faults, HandlerThrows, ServerCrash
<1>5. ASSUME NEW w \in Runner, RunnerDies(w)
      PROVE  status'[r] \in Final /\ ~Starting(r)'
  BY <1>5 DEF RunnerDies, Starting
<1> HIDE DEF StartsNothing
<1> QED
  BY <1>1, <1>2, <1>3, <1>4, <1>5, StartsNothingKeepsLastStatus DEF Clients

(* Without imports no run goes from one last status to another one: both     *)
(* are the phase of its job, which a step that stores a status leaves alone. *)
(* And a run that has its last status, and that no lease handler is about to *)
(* mark as running, keeps it: its job has ended in the queue too, so no      *)
(* handler can be about to mark it later.                                    *)
THEOREM LastStatusIsUnique == Spec => OneOutcome
<1> DEFINE One == ~Imports =>
             \A r \in Run : status[r] \in Final =>
               /\ status'[r] \in Final => status'[r] = status[r]
               /\ ~Starting(r) => status'[r] \in Final /\ ~Starting(r)'
<1>1. ASSUME IInv, IInv', [Next]_vars, ~Imports, NEW r \in Run,
             status[r] \in Final, status'[r] \in Final
      PROVE  status'[r] = status[r]
  BY <1>1, SeparateAwaits DEF IInv, RepositoryFollowsQueue
<1>2. ASSUME IInv, Next, ~Imports, NEW r \in Run, status[r] \in Final, ~Starting(r)
      PROVE  status'[r] \in Final /\ ~Starting(r)'
  BY <1>2, WorkKeepsLastStatus, OthersKeepLastStatus DEF Next
<1>3. IInv /\ IInv' /\ [Next]_vars => [One]_vars
  BY <1>1, <1>2
<1> HIDE DEF One
<1>4. Spec => [][One]_vars
  BY Invariance, <1>3, PTL DEF Spec
<1> QED
  BY <1>4 DEF One, OneOutcome

===============================================================================
