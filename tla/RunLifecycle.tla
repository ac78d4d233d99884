------------------------------ MODULE RunLifecycle ------------------------------
(***************************************************************************)
(* A run from POST /runs to its last status: the server's handlers         *)
(* (src/apps/server/src/index.ts), which change the execution queue and    *)
(* then the repository in separate awaits, composed with the queue of      *)
(* JobQueue and with the runners' loop (src/apps/runner/src/index.ts).     *)
(*                                                                         *)
(* A handler is a request in flight.  Between two of its awaits any other  *)
(* handler may run; the server may stop there (ServerCrash), and so may    *)
(* the runner that waits for the answer (RunnerDies).  The queue is the    *)
(* ExecutionQueue contract, which MemoryQueue implements: when a lease     *)
(* expires is left open.  Queue and repository survive a crash, as Redis   *)
(* and PostgreSQL do.                                                      *)
(*                                                                         *)
(* Abstractions.  The job of run r is job-<r>, so both are named r.        *)
(* Tenants, payloads, time stamps and the reads that only validate are     *)
(* left out.  A runner that starts again registers under a new id; the     *)
(* contract does not tell it from the old one, as no call names it.        *)
(***************************************************************************)
EXTENDS Naturals, FiniteSets

CONSTANTS
  Run, Runner,
  Handler,         \* the requests in flight
  Imports,         \* whether clients import external results
  MaxReclaims,     \* bound: how often a lease may expire
  Failures,        \* whether crashes and queue errors happen
  None

ASSUME RunLifecycleAssumption ==
  /\ Imports \in BOOLEAN
  /\ Failures \in BOOLEAN
  /\ MaxReclaims \in Nat
  /\ IsFiniteSet(Run)
  /\ None \notin Run \cup Runner \cup {"passed", "failed", "cancelled"}

VARIABLES
  phase, holder,   \* the execution queue
  status,          \* runs.status: [Run -> RunStatus]
  result,          \* test_results: the status the stored report was sent with
  runner,          \* [Runner -> RunnerState]: where each runner's loop is
  handler,         \* [Handler -> HandlerState]
  reclaims         \* how many leases have expired

Queue == INSTANCE JobQueue WITH
  Job <- Run, CanRun <- Run \X Runner, NoRunner <- None

queueVars == <<phase, holder>>
repository == <<status, result>>
vars == <<queueVars, repository, runner, handler, reclaims>>

Outcome == {"passed", "failed"}
Final == Outcome \cup {"cancelled"}
RunStatus == {"none", "queued", "running"} \cup Final

(* A runner polls, waits for the answer to lease or complete, or executes. *)
RunnerState ==
  [at : {"polling", "leasing", "executing", "reporting", "dead"}, run : Run \cup {None}]

Idle == [at |-> "idle", run |-> None, status |-> None, for |-> None, open |-> FALSE]

Await == {"idle", "enqueue", "grant", "markRunning",
          "cancelLookup", "cancelJob", "markCancelled",
          "completeLookup", "completeJob", "saveResult", "markFinal",
          "importLookup", "importSave", "importMark"}

HandlerState ==
  [at : Await, run : Run \cup {None}, status : Outcome \cup {None},
   for : Runner \cup {None},   \* the runner that sent the request
   open : BOOLEAN]             \* whether it still waits for the answer

TypeOK ==
  /\ phase \in [Run -> Queue!Phase]
  /\ holder \in [Run -> Runner \cup {None}]
  /\ status \in [Run -> RunStatus]
  /\ result \in [Run -> Outcome \cup {None}]
  /\ runner \in [Runner -> RunnerState]
  /\ handler \in [Handler -> HandlerState]
  /\ reclaims \in 0 .. MaxReclaims

-------------------------------------------------------------------------------

Init ==
  /\ Queue!Init
  /\ status = [r \in Run |-> "none"]
  /\ result = [r \in Run |-> None]
  /\ runner = [w \in Runner |-> [at |-> "polling", run |-> None]]
  /\ handler = [h \in Handler |-> Idle]
  /\ reclaims = 0

Receive(h, request) ==
  /\ handler[h] = Idle
  /\ handler' = [handler EXCEPT ![h] = request]

Proceed(h, step) == handler' = [handler EXCEPT ![h].at = step]

Reply(h) == handler' = [handler EXCEPT ![h] = Idle]

(* The answer reaches the runner that waits for it; a runner gets an error   *)
(* as an exception that ends its process.                                    *)
Tell(h, state) ==
  runner' = IF handler[h].open THEN [runner EXCEPT ![handler[h].for] = state]
            ELSE runner

Polling == [at |-> "polling", run |-> None]
Dead == [at |-> "dead", run |-> None]
Executing(r) == [at |-> "executing", run |-> r]

-------------------------------------------------------------------------------
(* POST /runs: createRun, then enqueue. *)

PostRun(h, r) ==
  /\ status[r] = "none"
  /\ Receive(h, [Idle EXCEPT !.at = "enqueue", !.run = r])
  /\ status' = [status EXCEPT ![r] = "queued"]
  /\ UNCHANGED <<queueVars, result, runner, reclaims>>

(* The run's id is a fresh UUID, so the queue never answers "duplicate".     *)
EnqueueJob(h) ==
  /\ handler[h].at = "enqueue"
  /\ Queue!Submit(handler[h].run)
  /\ Reply(h)
  /\ UNCHANGED <<repository, runner, reclaims>>

-------------------------------------------------------------------------------
(* POST /runners/:id/lease: queue.lease, then updateRun "running". *)

PostLease(h, w) ==
  /\ runner[w] = Polling
  /\ Receive(h, [Idle EXCEPT !.at = "grant", !.for = w, !.open = TRUE])
  /\ runner' = [runner EXCEPT ![w].at = "leasing"]
  /\ UNCHANGED <<queueVars, repository, reclaims>>

(* S are the leases that have expired by now. *)
Grant(h) ==
  /\ handler[h].at = "grant"
  /\ \E S \in SUBSET Queue!JobsIn("leased") :
       /\ reclaims' = reclaims + Cardinality(S)
       /\ reclaims' <= MaxReclaims
       /\ \/ \E r \in Run :
               /\ Queue!ReclaimAndGrant(S, r, handler[h].for)
               /\ handler' = [handler EXCEPT ![h].at = "markRunning", ![h].run = r]
               /\ UNCHANGED runner
          \/ /\ Queue!JobsIn("queued") \cup S = {}
             /\ UNCHANGED queueVars
             /\ Reply(h)
             /\ Tell(h, Polling)
  /\ UNCHANGED repository

(* Mutant: the job is leased and marked, but the answer is not sent. *)
MarkRunningSilently(h) ==
  /\ handler[h].at = "markRunning"
  /\ status' = [status EXCEPT ![handler[h].run] = "running"]
  /\ Reply(h)
  /\ UNCHANGED <<queueVars, result, runner, reclaims>>

(* updateRun has no condition on the status that is there. *)
MarkRunning(h) ==
  LET r == handler[h].run
  IN /\ handler[h].at = "markRunning"
     /\ status' = [status EXCEPT ![r] = "running"]
     /\ Reply(h)
     /\ Tell(h, Executing(r))
     /\ UNCHANGED <<queueVars, result, reclaims>>

-------------------------------------------------------------------------------
(* POST /jobs/:id/cancel: getJob, queue.cancel, then updateRun "cancelled". *)

PostCancel(h, r) ==
  /\ Receive(h, [Idle EXCEPT !.at = "cancelLookup", !.run = r])
  /\ UNCHANGED <<queueVars, repository, runner, reclaims>>

CancelLookup(h) ==
  /\ handler[h].at = "cancelLookup"
  /\ IF phase[handler[h].run] = "new" THEN Reply(h) ELSE Proceed(h, "cancelJob")
  /\ UNCHANGED <<queueVars, repository, runner, reclaims>>

(* Mutant: the run is marked although the job could not be cancelled. *)
CancelJobUnchecked(h) ==
  /\ handler[h].at = "cancelJob"
  /\ \/ Queue!Withdraw(handler[h].run)
     \/ phase[handler[h].run] \notin Queue!Live /\ UNCHANGED queueVars
  /\ Proceed(h, "markCancelled")
  /\ UNCHANGED <<repository, runner, reclaims>>

CancelJob(h) ==
  /\ handler[h].at = "cancelJob"
  /\ \/ /\ Queue!Withdraw(handler[h].run)
        /\ Proceed(h, "markCancelled")
     \/ /\ phase[handler[h].run] \notin Queue!Live
        /\ UNCHANGED queueVars
        /\ Reply(h)
  /\ UNCHANGED <<repository, runner, reclaims>>

MarkCancelled(h) ==
  /\ handler[h].at = "markCancelled"
  /\ status' = [status EXCEPT ![handler[h].run] = "cancelled"]
  /\ Reply(h)
  /\ UNCHANGED <<queueVars, result, runner, reclaims>>

-------------------------------------------------------------------------------
(* POST /jobs/:id/complete: getJob, queue.complete, saveRunResult, updateRun. *)

PostComplete(h, w, outcome) ==
  /\ runner[w].at = "executing"
  /\ Receive(h, [at |-> "completeLookup", run |-> runner[w].run,
                 status |-> outcome, for |-> w, open |-> TRUE])
  /\ runner' = [runner EXCEPT ![w].at = "reporting"]
  /\ UNCHANGED <<queueVars, repository, reclaims>>

CompleteLookup(h) ==
  /\ handler[h].at = "completeLookup"
  /\ IF phase[handler[h].run] = "new"
       THEN Reply(h) /\ Tell(h, Dead)
       ELSE Proceed(h, "completeJob") /\ UNCHANGED runner
  /\ UNCHANGED <<queueVars, repository, reclaims>>

(* Mutant: what queue.complete answered is not looked at. *)
CompleteJobUnchecked(h) ==
  LET r == handler[h].run
  IN /\ handler[h].at = "completeJob"
     /\ \/ Queue!Finish(r, handler[h].status)
        \/ phase[r] # "leased" /\ UNCHANGED queueVars
     /\ Proceed(h, "saveResult")
     /\ UNCHANGED <<repository, runner, reclaims>>

(* Whoever holds the lease, the caller is not asked; without a lease, 404.   *)
(* A body without a result skips saveRunResult.                              *)
CompleteJob(h) ==
  LET r == handler[h].run
  IN /\ handler[h].at = "completeJob"
     /\ \/ /\ Queue!Finish(r, handler[h].status)
           /\ Proceed(h, "saveResult") \/ Proceed(h, "markFinal")
           /\ UNCHANGED runner
        \/ /\ phase[r] # "leased"
           /\ UNCHANGED queueVars
           /\ Reply(h)
           /\ Tell(h, Dead)
     /\ UNCHANGED <<repository, reclaims>>

SaveResult(h) ==
  /\ handler[h].at = "saveResult"
  /\ result' = [result EXCEPT ![handler[h].run] = handler[h].status]
  /\ Proceed(h, "markFinal")
  /\ UNCHANGED <<queueVars, status, runner, reclaims>>

MarkFinal(h) ==
  /\ handler[h].at = "markFinal"
  /\ status' = [status EXCEPT ![handler[h].run] = handler[h].status]
  /\ Reply(h)
  /\ Tell(h, Polling)
  /\ UNCHANGED <<queueVars, result, reclaims>>

-------------------------------------------------------------------------------
(* POST /runs/:id/results/import: getRun, saveRunResult, updateRun; the queue *)
(* is not consulted.                                                          *)

PostImport(h, r, outcome) ==
  /\ Imports
  /\ Receive(h, [Idle EXCEPT !.at = "importLookup", !.run = r, !.status = outcome])
  /\ UNCHANGED <<queueVars, repository, runner, reclaims>>

ImportLookup(h) ==
  /\ handler[h].at = "importLookup"
  /\ IF status[handler[h].run] = "none" THEN Reply(h) ELSE Proceed(h, "importSave")
  /\ UNCHANGED <<queueVars, repository, runner, reclaims>>

ImportSave(h) ==
  /\ handler[h].at = "importSave"
  /\ result' = [result EXCEPT ![handler[h].run] = handler[h].status]
  /\ Proceed(h, "importMark")
  /\ UNCHANGED <<queueVars, status, runner, reclaims>>

ImportMark(h) ==
  /\ handler[h].at = "importMark"
  /\ status' = [status EXCEPT ![handler[h].run] = handler[h].status]
  /\ Reply(h)
  /\ UNCHANGED <<queueVars, result, runner, reclaims>>

-------------------------------------------------------------------------------
(* Failures. *)

(* Queue or repository cannot be reached: the exception ends the handler     *)
(* with 500, and what it did before stays.                                   *)
HandlerThrows(h) ==
  /\ Failures
  /\ handler[h] # Idle
  /\ Reply(h)
  /\ Tell(h, Dead)
  /\ UNCHANGED <<queueVars, repository, reclaims>>

(* The runner's process ends, by an exception of the executor or of an       *)
(* upload, or from outside.  A handler that works for it finishes its work.  *)
RunnerDies(w) ==
  /\ Failures
  /\ runner[w] # Dead
  /\ runner' = [runner EXCEPT ![w] = Dead]
  /\ handler' = [h \in Handler |-> IF handler[h].for = w
                                     THEN [handler[h] EXCEPT !.open = FALSE]
                                     ELSE handler[h]]
  /\ UNCHANGED <<queueVars, repository, reclaims>>

RunnerRestarts(w) ==
  /\ runner[w] = Dead
  /\ runner' = [runner EXCEPT ![w] = Polling]
  /\ UNCHANGED <<queueVars, repository, handler, reclaims>>

(* Every request in flight is gone, and the runners waiting for one fail.    *)
ServerCrash ==
  /\ Failures
  /\ \E h \in Handler : handler[h] # Idle
  /\ handler' = [h \in Handler |-> Idle]
  /\ runner' = [w \in Runner |-> IF runner[w].at \in {"leasing", "reporting"}
                                   THEN Dead ELSE runner[w]]
  /\ UNCHANGED <<queueVars, repository, reclaims>>

-------------------------------------------------------------------------------

Clients ==
  \E h \in Handler, r \in Run :
    \/ PostRun(h, r) \/ PostCancel(h, r)
    \/ \E outcome \in Outcome : PostImport(h, r, outcome)

Work(h) ==
  \/ EnqueueJob(h) \/ Grant(h) \/ MarkRunning(h)
  \/ CancelLookup(h) \/ CancelJob(h) \/ MarkCancelled(h)
  \/ CompleteLookup(h) \/ CompleteJob(h) \/ SaveResult(h) \/ MarkFinal(h)
  \/ ImportLookup(h) \/ ImportSave(h) \/ ImportMark(h)

Loop(w) ==
  \/ \E h \in Handler : PostLease(h, w)
  \/ \E h \in Handler, outcome \in Outcome : PostComplete(h, w, outcome)
  \/ RunnerRestarts(w)

Faults ==
  \/ \E h \in Handler : HandlerThrows(h)
  \/ \E w \in Runner : RunnerDies(w)
  \/ ServerCrash

Next ==
  \/ Clients
  \/ \E h \in Handler : Work(h)
  \/ \E w \in Runner : Loop(w)
  \/ Faults

Spec == Init /\ [][Next]_vars

(* Handlers run to their end, and a runner goes on polling and reporting: an *)
(* execution ends (executeInDocker stops the container after job.timeout or  *)
(* 300 s) and a process that ended is started again (the deployment's        *)
(* restart policy).  The loop's requests are strongly fair because Handler   *)
(* bounds the requests in flight, which the server does not.                 *)
FairSpec ==
  /\ Spec
  /\ \A h \in Handler : WF_vars(Work(h))
  /\ \A w \in Runner : SF_vars(Loop(w))

-------------------------------------------------------------------------------
(* Properties. *)

(* A last status and a stored result are those of the run's job: the         *)
(* handlers write them only after the queue has settled the job so, whatever *)
(* handlers overlap and wherever the server stops.  Imported results are the *)
(* exception: they bypass the queue.                                         *)
RepositoryFollowsQueue ==
  ~Imports =>
    \A r \in Run :
      /\ status[r] \in Final => phase[r] = status[r]
      /\ result[r] # None => phase[r] = result[r]

(* A lease handler that the queue has answered and that has yet to write     *)
(* "running" to the run.                                                     *)
Starting(r) == \E h \in Handler : handler[h].at = "markRunning" /\ handler[h].run = r

(* A run has one last status: it never goes from one to another one, and a   *)
(* lease handler that the queue had answered before the run ended, and that  *)
(* writes "running" after it, is all that can undo it.  Without one, no      *)
(* request that comes later, and no late report, takes the run up again.     *)
OneOutcome ==
  [][~Imports =>
       \A r \in Run : status[r] \in Final =>
         /\ status'[r] \in Final => status'[r] = status[r]
         /\ ~Starting(r) => status'[r] \in Final /\ ~Starting(r)']_vars

(* When nothing fails, every job that waits ends: it is not lost between a   *)
(* runner that lost its lease and the next one.                              *)
JobsEnd == \A r \in Run : phase[r] = "queued" ~> phase[r] \in Final

===============================================================================
