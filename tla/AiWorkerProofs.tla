----------------------------- MODULE AiWorkerProofs -----------------------------
(***************************************************************************)
(* What holds of AiWorker for every set of jobs, daemons and requests, any *)
(* number of worker ids and any lease duration.                            *)
(***************************************************************************)
EXTENDS AiWorker, TLAPS

USE AiWorkerAssumption, NoneAssumption

Busy == Working \cup Reporting

Named(d) ==
  /\ daemon[d].job \in Job
  /\ job[daemon[d].job] # None
  /\ job[daemon[d].job].worker = daemon[d].id

(* A daemon at work, and a request on its way, name a job of their own       *)
(* worker id; the request's job is not deleted under it.                     *)
KnownJobs ==
  /\ \A d \in Daemon : daemon[d].at \in Busy => Named(d)
  /\ \A m \in sent : job[m.job] # None /\ job[m.job].worker = m.by

(* What a step of daemon d does to it when it neither starts, takes or ends  *)
(* a job, nor stops.                                                         *)
Moves(d) ==
  /\ daemon[d].at \in Busy
  /\ daemon' \in [Daemon -> DaemonState]
  /\ daemon'[d].at \in Busy
  /\ daemon'[d].id = daemon[d].id
  /\ daemon'[d].job = daemon[d].job
  /\ \A e \in Daemon : e # d => daemon'[e] = daemon[e]

LEMMA UpdateMoves ==
  ASSUME TypeOK, NEW d \in Daemon, daemon[d].at \in Busy,
         NEW e \in DaemonState, e.at \in Busy, e.id = daemon[d].id, e.job = daemon[d].job,
         daemon' = [daemon EXCEPT ![d] = e]
  PROVE  Moves(d)
  BY DEF TypeOK, Moves

LEMMA GotoMoves ==
  ASSUME TypeOK, NEW d \in Daemon, daemon[d].at \in Busy, NEW step \in Busy, Goto(d, step)
  PROVE  Moves(d)
  BY DEF TypeOK, DaemonState, Goto, Moves, Busy

(* A record of DaemonState stays one, field by field. *)
LEMMA DaemonUpdates ==
  ASSUME NEW x \in DaemonState, NEW at \in Busy, NEW status \in Final, NEW check \in Check
  PROVE  /\ [x EXCEPT !.at = at, !.status = status] \in DaemonState
         /\ [x EXCEPT !.at = at, !.done = x.done \cup {check}] \in DaemonState
         /\ [x EXCEPT !.at = at, !.status = status, !.done = x.done \cup {check}] \in DaemonState
<1> DEFINE places == {"stopped", "polling"} \cup Working \cup Reporting
           jobs == Job \cup {None}
           checks == SUBSET Check
           done == x.done \cup {check}
<1>1. DaemonState = [at : places, id : Nat, job : jobs, status : Final, done : checks]
  BY DEF DaemonState
<1>2. at \in places
  BY DEF Busy
<1>3. done \in checks
  BY <1>1
<1> HIDE DEF places, jobs, checks, done
<1>4. [x EXCEPT !.at = at, !.status = status] \in DaemonState
  BY <1>1, <1>2
<1>5. [x EXCEPT !.at = at, !.done = done] \in DaemonState
  BY <1>1, <1>2, <1>3
<1>6. [x EXCEPT !.at = at, !.status = status, !.done = done] \in DaemonState
  BY <1>1, <1>2, <1>3
<1> QED
  BY <1>4, <1>5, <1>6 DEF done

Reported(x, status) == [x EXCEPT !.at = "report", !.status = status]
Checked(x, check, at) == [x EXCEPT !.at = at, !.done = x.done \cup {check}]
CheckedLast(x, check) ==
  [x EXCEPT !.at = "report", !.status = "completed", !.done = x.done \cup {check}]

LEMMA UpdateFields ==
  ASSUME NEW x \in DaemonState, NEW at \in Busy, NEW status \in Final, NEW check \in Check
  PROVE  /\ Reported(x, status) \in DaemonState /\ Reported(x, status).at = "report"
         /\ Reported(x, status).id = x.id /\ Reported(x, status).job = x.job
         /\ Checked(x, check, at) \in DaemonState /\ Checked(x, check, at).at = at
         /\ Checked(x, check, at).id = x.id /\ Checked(x, check, at).job = x.job
         /\ CheckedLast(x, check) \in DaemonState /\ CheckedLast(x, check).at = "report"
         /\ CheckedLast(x, check).id = x.id /\ CheckedLast(x, check).job = x.job
<1>1. "report" \in Busy /\ "completed" \in Final
  BY DEF Busy, Reporting, Final
<1>2. /\ Reported(x, status) \in DaemonState
      /\ Checked(x, check, at) \in DaemonState
      /\ CheckedLast(x, check) \in DaemonState
  BY <1>1, DaemonUpdates DEF Reported, Checked, CheckedLast
<1>3. Reported(x, status).at = "report" /\ Reported(x, status).id = x.id /\ Reported(x, status).job = x.job
  BY DEF Reported, DaemonState
<1>4. Checked(x, check, at).at = at /\ Checked(x, check, at).id = x.id /\ Checked(x, check, at).job = x.job
  BY DEF Checked, DaemonState
<1>5. /\ CheckedLast(x, check).at = "report" /\ CheckedLast(x, check).id = x.id
      /\ CheckedLast(x, check).job = x.job
  BY DEF CheckedLast, DaemonState
<1> QED
  BY <1>2, <1>3, <1>4, <1>5

LEMMA ReportMoves ==
  ASSUME TypeOK, NEW d \in Daemon, daemon[d].at \in Busy, NEW status \in Final,
         ToReport(d, status)
  PROVE  Moves(d)
<1>1. daemon' = [daemon EXCEPT ![d] = Reported(daemon[d], status)]
  BY DEF ToReport, Reported
<1>2. daemon[d] \in DaemonState /\ "validate" \in Check /\ "report" \in Busy
  BY DEF TypeOK, Check, Busy, Reporting
<1> DEFINE e == Reported(daemon[d], status)
<1>3. e \in DaemonState /\ e.at = "report" /\ e.id = daemon[d].id /\ e.job = daemon[d].job
  BY <1>2, UpdateFields
<1> HIDE DEF e
<1> QED
  <2>1. daemon' = [daemon EXCEPT ![d] = e]
    BY <1>1 DEF e
  <2> QED
    BY <1>2, <1>3, <2>1, UpdateMoves

LEMMA PassedMoves ==
  ASSUME TypeOK, NEW d \in Daemon, daemon[d].at \in Busy, NEW check \in Check, NEW step \in Busy,
         Passed(d, check, step) \/ PassedLast(d, check)
  PROVE  Moves(d)
<1>1. \/ daemon' = [daemon EXCEPT ![d] = Checked(daemon[d], check, step)]
      \/ daemon' = [daemon EXCEPT ![d] = CheckedLast(daemon[d], check)]
  BY DEF Passed, PassedLast, Checked, CheckedLast
<1>2. daemon[d] \in DaemonState /\ "report" \in Busy /\ "completed" \in Final
  BY DEF TypeOK, Busy, Reporting, Final
<1> DEFINE e == Checked(daemon[d], check, step)
           f == CheckedLast(daemon[d], check)
<1>3. /\ e \in DaemonState /\ e.at = step /\ e.id = daemon[d].id /\ e.job = daemon[d].job
      /\ f \in DaemonState /\ f.at = "report" /\ f.id = daemon[d].id /\ f.job = daemon[d].job
  BY <1>2, UpdateFields
<1> HIDE DEF e, f
<1>4. daemon' = [daemon EXCEPT ![d] = e] \/ daemon' = [daemon EXCEPT ![d] = f]
  BY <1>1 DEF e, f
<1> QED
  BY <1>2, <1>3, <1>4, UpdateMoves

Inner(d) ==
  \/ Prepare(d) \/ RunAgent(d) \/ Apply(d) \/ Validate(d) \/ RunTest(d)
  \/ CreateBranch(d) \/ CommitFile(d) \/ CreatePullRequest(d)
  \/ Report(d) \/ ReportFailure(d)
  \/ daemon[d].at = "awaiting" /\ AnswerLost(d)

LEMMA InnerMoves ==
  ASSUME TypeOK, NEW d \in Daemon, Inner(d)
  PROVE  Moves(d) /\ UNCHANGED <<registered, job>>
<1> USE DEF Busy, Working, Reporting, Final, Check
<1>1. CASE Prepare(d)
  BY <1>1, GotoMoves DEF Prepare
<1>2. CASE RunAgent(d)
  BY <1>2, GotoMoves, ReportMoves DEF RunAgent
<1>3. CASE Apply(d)
  BY <1>3, GotoMoves DEF Apply
<1>4. CASE Validate(d)
  BY <1>4, PassedMoves, ReportMoves DEF Validate
<1>5. CASE RunTest(d)
  BY <1>5, PassedMoves, ReportMoves DEF RunTest
<1>6. CASE CreateBranch(d)
  BY <1>6, GotoMoves DEF CreateBranch
<1>7. CASE CommitFile(d)
  BY <1>7, GotoMoves DEF CommitFile
<1>8. CASE CreatePullRequest(d)
  BY <1>8, GotoMoves, PassedMoves DEF CreatePullRequest
<1>9. CASE Report(d) \/ ReportFailure(d)
  BY <1>9, GotoMoves DEF Report, ReportFailure
<1>10. CASE daemon[d].at = "awaiting" /\ AnswerLost(d)
  BY <1>10 DEF AnswerLost, Refused, Moves, TypeOK, DaemonState
<1> QED
  BY <1>1, <1>2, <1>3, <1>4, <1>5, <1>6, <1>7, <1>8, <1>9, <1>10 DEF Inner

LEMMA InnerSends ==
  ASSUME TypeOK, KnownJobs, NEW d \in Daemon, Inner(d)
  PROVE  \/ sent' = sent
         \/ \E m \in Complete : /\ sent' = sent \cup {m}
                                /\ m.by = daemon[d].id
                                /\ m.job = daemon[d].job
<1>1. CASE Report(d) \/ ReportFailure(d)
  <2>1. daemon[d].job \in Job
    BY <1>1 DEF Report, ReportFailure, KnownJobs, Named, Busy, Reporting
  <2>2. /\ daemon[d].status \in Final /\ daemon[d].done \in SUBSET Check
        /\ "failed" \in Final /\ daemon[d].id \in Nat
    BY DEF TypeOK, DaemonState, Final
  <2> DEFINE M(status, done, last) == [by |-> daemon[d].id, job |-> daemon[d].job,
                                       status |-> status, done |-> done, last |-> last]
             m == M(daemon[d].status, daemon[d].done, FALSE)
             f == M("failed", {}, TRUE)
  <2>3. /\ m \in Complete /\ m.by = daemon[d].id /\ m.job = daemon[d].job
        /\ f \in Complete /\ f.by = daemon[d].id /\ f.job = daemon[d].job
    BY <2>1, <2>2 DEF Complete
  <2>4. sent' = sent \cup {m} \/ sent' = sent \cup {f}
    BY <1>1 DEF Report, ReportFailure, Send
  <2> QED
    BY <2>3, <2>4
<1>2. CASE ~(Report(d) \/ ReportFailure(d))
  BY <1>2 DEF Inner, Prepare, RunAgent, Apply, Validate, RunTest, CreateBranch, CommitFile,
              CreatePullRequest, AnswerLost
<1> QED
  BY <1>1, <1>2

LEMMA InnerStores ==
  ASSUME TypeOK, KnownJobs, NEW d \in Daemon, Inner(d)
  PROVE  /\ workspace' \in [Daemon -> SUBSET Request]
         /\ branch' \in [Request -> Branch]
<1>1. daemon[d].job \in Job
  BY InnerMoves DEF KnownJobs, Named, Moves
<1>2. RequestOf[daemon[d].job] \in Request
  BY <1>1
<1>3. CASE Prepare(d)
  BY <1>2, <1>3 DEF Prepare, TypeOK
<1>4. CASE CreateBranch(d) \/ CommitFile(d) \/ CreatePullRequest(d)
  BY <1>1, <1>2, <1>4 DEF CreateBranch, CommitFile, CreatePullRequest, TypeOK, Branch
<1>5. CASE RunAgent(d) \/ Apply(d) \/ Validate(d) \/ RunTest(d) \/ Report(d)
           \/ ReportFailure(d) \/ AnswerLost(d)
  BY <1>5 DEF RunAgent, Apply, Validate, RunTest, Report, ReportFailure, AnswerLost, TypeOK
<1> QED
  BY <1>3, <1>4, <1>5 DEF Inner

(* Worker ids are given out once, so a daemon shares its id with none that   *)
(* lives, and every job is for an id given out.                              *)
Ids ==
  /\ \A d \in Daemon : daemon[d].at # "stopped" => daemon[d].id \in 1 .. registered
  /\ \A d, e \in Daemon :
       daemon[d].at # "stopped" /\ daemon[e].at # "stopped" /\ d # e
         => daemon[d].id # daemon[e].id
  /\ \A k \in Job : job[k] # None => job[k].worker \in 1 .. registered

(* While a daemon lives, the only lease under its id is the job it is at.    *)
Leases ==
  \A d \in Daemon, k \in Job :
    /\ daemon[d].at # "stopped"
    /\ job[k] # None
    /\ job[k].status = "leased"
    /\ job[k].worker = daemon[d].id
    => daemon[d].at \in Busy /\ daemon[d].job = k

Attempts ==
  \A k \in Job : job[k] # None => job[k].attempt = IF job[k].status = "queued" THEN 0 ELSE 1

(* AttemptedOnce is not inductive: a queued job must be known to have had no *)
(* attempt, so no lease may ever be swept, so a polling daemon may hold none.*)
IInv == TypeOK /\ KnownJobs /\ Ids /\ Leases /\ Attempts

LEMMA InitInv == Init => IInv
  BY DEF Init, IInv, TypeOK, KnownJobs, Ids, Leases, Attempts, Stopped, Jobless, DaemonState, Branch,
         Final, Busy, Working, Reporting

LEMMA CreateInv ==
  ASSUME IInv, NEW k \in Job, NEW w \in 1 .. registered, CreateJob(k, w)
  PROVE  IInv'
<1> DEFINE r == [worker |-> w, status |-> "queued", attempt |-> 0, left |-> 0, done |-> {}]
<1>1. r \in JobRecord /\ r # None
  BY DEF JobRecord, IInv, TypeOK
<1>2. /\ job' = [job EXCEPT ![k] = r]
      /\ UNCHANGED <<registered, daemon, workspace, branch, sent>>
  BY DEF CreateJob
<1>3. TypeOK'
  BY <1>1, <1>2 DEF IInv, TypeOK
<1>4. job[k] = None /\ \A j \in Job : job'[j] = IF j = k THEN r ELSE job[j]
  BY <1>2 DEF IInv, TypeOK, CreateJob
<1>5. KnownJobs'
  BY <1>2, <1>4 DEF IInv, TypeOK, Complete, KnownJobs, Named
<1>6. Ids'
  BY <1>2, <1>4 DEF IInv, Ids
<1>7. Leases' /\ Attempts'
  BY <1>2, <1>4 DEF IInv, Leases, Attempts
<1> QED
  BY <1>3, <1>5, <1>6, <1>7 DEF IInv

LEMMA PollingType ==
  ASSUME NEW id \in Nat
  PROVE  /\ Stopped \in DaemonState /\ Stopped.at = "stopped" /\ Stopped.done = {}
         /\ Polling(id) \in DaemonState /\ Polling(id).at = "polling"
         /\ Polling(id).id = id /\ Polling(id).done = {}
  BY DEF Stopped, Polling, Jobless, DaemonState, Final

LEMMA StartInv ==
  ASSUME IInv, NEW d \in Daemon, Start(d)
  PROVE  IInv'
<1> DEFINE e == Polling(registered + 1)
<1>1. e \in DaemonState /\ e.at = "polling" /\ e.id = registered + 1
  BY PollingType DEF IInv, TypeOK
<1>2. /\ daemon' = [daemon EXCEPT ![d] = e]
      /\ registered' = registered + 1
      /\ registered' \in 0 .. MaxWorkers
      /\ UNCHANGED <<job, workspace, branch, sent>>
  BY DEF Start, IInv, TypeOK
<1>3. TypeOK'
  BY <1>1, <1>2 DEF IInv, TypeOK
<1>4. \A c \in Daemon : daemon'[c] = IF c = d THEN e ELSE daemon[c]
  BY <1>2 DEF IInv, TypeOK
<1>5. \A c \in Daemon : daemon[c].id \in Nat
  BY DEF IInv, TypeOK, DaemonState
<1>6. registered \in Nat /\ \A n \in 1 .. registered : n # registered + 1 /\ n \in 1 .. registered'
  BY <1>2 DEF IInv, TypeOK
<1>7. KnownJobs'
  BY <1>1, <1>2, <1>4 DEF IInv, KnownJobs, Named, Busy, Working, Reporting
<1>8. Ids'
  <2>1. \A c \in Daemon : daemon'[c].at # "stopped" => daemon'[c].id \in 1 .. registered'
    BY <1>1, <1>2, <1>4, <1>6 DEF IInv, Ids
  <2>2. \A c, f \in Daemon : daemon'[c].at # "stopped" /\ daemon'[f].at # "stopped" /\ c # f
                               => daemon'[c].id # daemon'[f].id
    BY <1>1, <1>4, <1>6 DEF IInv, Ids
  <2>3. \A k \in Job : job'[k] # None => job'[k].worker \in 1 .. registered'
    BY <1>2, <1>6 DEF IInv, Ids
  <2> QED
    BY <2>1, <2>2, <2>3 DEF Ids
<1>9. Leases'
  BY <1>1, <1>2, <1>4, <1>6 DEF IInv, Leases, Ids
<1> QED
  BY <1>2, <1>3, <1>7, <1>8, <1>9 DEF IInv, Attempts

LEMMA InnerInv ==
  ASSUME IInv, NEW d \in Daemon, Inner(d)
  PROVE  IInv'
<1>1. Moves(d) /\ UNCHANGED <<registered, job>>
  BY InnerMoves DEF IInv
<1>2. \A m \in sent' : m \in sent \/ (m \in Complete /\ m.by = daemon[d].id /\ m.job = daemon[d].job)
  BY InnerSends DEF IInv
<1>3. TypeOK'
  BY <1>1, <1>2, InnerStores DEF IInv, TypeOK, Moves
<1>4. Named(d)
  BY <1>1 DEF IInv, KnownJobs, Moves
<1>5. \A e \in Daemon : daemon'[e].id = daemon[e].id /\ daemon'[e].job = daemon[e].job
  BY <1>1 DEF Moves
<1>6. \A e \in Daemon : daemon'[e].at \in Busy <=> daemon[e].at \in Busy
  BY <1>1 DEF Moves
<1>7. \A e \in Daemon : daemon'[e].at # "stopped" <=> daemon[e].at # "stopped"
  BY <1>1 DEF Moves, Busy, Working, Reporting
<1>8. KnownJobs'
  BY <1>1, <1>2, <1>4, <1>5, <1>6 DEF IInv, KnownJobs, Named
<1>9. Ids'
  BY <1>1, <1>5, <1>7 DEF IInv, Ids
<1>10. Leases'
  BY <1>1, <1>5, <1>6, <1>7 DEF IInv, Leases
<1> QED
  BY <1>1, <1>3, <1>8, <1>9, <1>10 DEF IInv, Attempts

Stops(d) ==
  /\ daemon' = [daemon EXCEPT ![d] = Stopped]
  /\ workspace' \in [Daemon -> SUBSET Request]
  /\ UNCHANGED <<registered, job, branch, sent>>

LEMMA StopInv ==
  ASSUME IInv, NEW d \in Daemon, Stops(d)
  PROVE  IInv'
<1>1. \A e \in Daemon : daemon'[e] = IF e = d THEN Stopped ELSE daemon[e]
  BY DEF Stops, IInv, TypeOK
<1>2. Stopped \in DaemonState /\ Stopped.at = "stopped" /\ Stopped.at \notin Busy
  BY PollingType DEF Busy, Working, Reporting
<1>3. TypeOK'
  BY <1>2 DEF Stops, IInv, TypeOK
<1>4. KnownJobs'
  BY <1>1, <1>2 DEF Stops, IInv, KnownJobs, Named
<1>5. Ids' /\ Leases'
  BY <1>1, <1>2 DEF Stops, IInv, Ids, Leases
<1> QED
  BY <1>3, <1>4, <1>5 DEF Stops, IInv, Attempts

LEMMA LeasedType ==
  ASSUME NEW x \in JobRecord, NEW n \in Nat, NEW t \in 0 .. LeaseDuration
  PROVE  [x EXCEPT !.status = "leased", !.attempt = n, !.left = t] \in JobRecord
<1> DEFINE status == {"queued", "leased"} \cup Final
           left == 0 .. LeaseDuration
           done == SUBSET Check
<1>1. "leased" \in status
  OBVIOUS
<1>2. /\ JobRecord = [worker : Nat, status : status, attempt : Nat, left : left, done : done]
      /\ t \in left
  BY DEF JobRecord
<1> HIDE DEF status, left, done
<1> QED
  BY <1>1, <1>2

(* The sweep of a polling daemon finds nothing, and the job it leases is new.*)
LEMMA LeaseTakes ==
  ASSUME IInv, NEW d \in Daemon, Lease(d)
  PROVE  \E k \in Job :
           /\ job[k] # None /\ job[k].worker = daemon[d].id
           /\ job[k].status = "queued" /\ job[k].attempt = 0
           /\ \A j \in Job : j # k => job'[j] = job[j]
           /\ job' \in [Job -> JobRecord \cup {None}]
           /\ job'[k] # None /\ job'[k].worker = job[k].worker
           /\ job'[k].status = "leased" /\ job'[k].attempt = 1 /\ job'[k].done = job[k].done
           /\ \/ daemon' = [daemon EXCEPT ![d] = [@ EXCEPT !.at = "prepare", !.job = k]]
              \/ daemon' = [daemon EXCEPT ![d] = Stopped]
<1> DEFINE w == daemon[d].id
<1>1. daemon[d].at = "polling"
  BY DEF Lease
<1>2. Overdue(w) = {}
  <2>1. daemon[d].at # "stopped" /\ daemon[d].at \notin Busy
    BY <1>1 DEF Busy, Working, Reporting
  <2>2. InState(w, "leased") = {}
    BY <2>1 DEF IInv, Leases, InState
  <2> QED
    BY <2>2 DEF Overdue
<1>3. PICK k \in Candidates(w) :
         /\ Take(k, Overdue(w))
         /\ \/ daemon' = [daemon EXCEPT ![d] = [@ EXCEPT !.at = "prepare", !.job = k]]
            \/ daemon' = [daemon EXCEPT ![d] = Stopped]
  BY DEF Lease
<1>4. k \in Job /\ job[k] # None /\ job[k].worker = w /\ job[k].status = "queued"
  BY <1>2, <1>3 DEF Candidates, InState
<1>5. job[k].attempt = 0
  BY <1>4 DEF IInv, Attempts
<1> DEFINE r == [job[k] EXCEPT !.status = "leased", !.attempt = @ + 1, !.left = LeaseDuration]
<1>6. job' = [j \in Job |-> IF j = k THEN r ELSE job[j]]
  BY <1>2, <1>3 DEF Take
<1>7. job[k] \in JobRecord
  BY <1>4 DEF IInv, TypeOK
<1>8. /\ r \in JobRecord /\ r.worker = job[k].worker /\ r.status = "leased" /\ r.attempt = 1
      /\ r.done = job[k].done
  <2>1. job[k].attempt + 1 = 1 /\ LeaseDuration \in 0 .. LeaseDuration
    BY <1>5
  <2>2. r \in JobRecord
    BY <1>7, <2>1, LeasedType
  <2>3. r.worker = job[k].worker /\ r.done = job[k].done
    BY <1>7 DEF JobRecord
  <2>4. r.status = "leased" /\ r.attempt = 1
    BY <1>7, <2>1 DEF JobRecord
  <2> QED
    BY <2>2, <2>3, <2>4
<1>9. job' \in [Job -> JobRecord \cup {None}] /\ r # None
  BY <1>6, <1>8 DEF IInv, TypeOK
<1> HIDE DEF r
<1>10. job'[k] = r /\ \A j \in Job : j # k => job'[j] = job[j]
  BY <1>4, <1>6
<1> QED
  BY <1>3, <1>4, <1>5, <1>8, <1>9, <1>10

Preparing(x, k) == [x EXCEPT !.at = "prepare", !.job = k]

LEMMA PreparingType ==
  ASSUME NEW x \in DaemonState, NEW k \in Job
  PROVE  /\ Preparing(x, k) \in DaemonState /\ Preparing(x, k).at = "prepare"
         /\ Preparing(x, k).id = x.id /\ Preparing(x, k).job = k
<1> DEFINE places == {"stopped", "polling"} \cup Working \cup Reporting
           jobs == Job \cup {None}
           done == SUBSET Check
<1>1. "prepare" \in places /\ k \in jobs
  BY DEF Working
<1>2. DaemonState = [at : places, id : Nat, job : jobs, status : Final, done : done]
  BY DEF DaemonState
<1> HIDE DEF places, jobs, done
<1> QED
  BY <1>1, <1>2 DEF Preparing

LEMMA LeaseInv ==
  ASSUME IInv, NEW d \in Daemon, Lease(d)
  PROVE  IInv'
<1>1. PICK k \in Job :
           /\ job[k] # None /\ job[k].worker = daemon[d].id
           /\ job[k].status = "queued" /\ job[k].attempt = 0
           /\ \A j \in Job : j # k => job'[j] = job[j]
           /\ job' \in [Job -> JobRecord \cup {None}]
           /\ job'[k] # None /\ job'[k].worker = job[k].worker
           /\ job'[k].status = "leased" /\ job'[k].attempt = 1 /\ job'[k].done = job[k].done
           /\ \/ daemon' = [daemon EXCEPT ![d] = [@ EXCEPT !.at = "prepare", !.job = k]]
              \/ daemon' = [daemon EXCEPT ![d] = Stopped]
  BY LeaseTakes
<1>2. daemon[d].at = "polling" /\ UNCHANGED <<registered, workspace, branch, sent>>
  BY DEF Lease
<1>3. PICK e \in DaemonState :
           /\ daemon' = [daemon EXCEPT ![d] = e]
           /\ \/ e.at = "prepare" /\ e.id = daemon[d].id /\ e.job = k
              \/ e.at = "stopped"
  <2>1. CASE daemon' = [daemon EXCEPT ![d] = Stopped]
    BY <2>1, PollingType
  <2>2. CASE daemon' = [daemon EXCEPT ![d] = [@ EXCEPT !.at = "prepare", !.job = k]]
    <3> DEFINE f == [daemon[d] EXCEPT !.at = "prepare", !.job = k]
    <3>1. f = Preparing(daemon[d], k)
      BY DEF Preparing
    <3>2. f \in DaemonState /\ f.at = "prepare" /\ f.id = daemon[d].id /\ f.job = k
      BY <3>1, PreparingType DEF IInv, TypeOK
    <3> QED
      BY <2>2, <3>2
  <2> QED
    BY <1>1, <2>1, <2>2
<1>4. \A c \in Daemon : daemon'[c] = IF c = d THEN e ELSE daemon[c]
  BY <1>3 DEF IInv, TypeOK
<1>5. TypeOK'
  BY <1>1, <1>2, <1>3 DEF IInv, TypeOK
<1>6. \A j \in Job : job[j] # None <=> job'[j] # None
  BY <1>1
<1>7. \A j \in Job : job'[j].worker = job[j].worker
  BY <1>1
<1>8. KnownJobs'
  <2>1. \A m \in sent' : job'[m.job] # None /\ job'[m.job].worker = m.by
    BY <1>2, <1>6, <1>7 DEF IInv, KnownJobs, TypeOK, Complete
  <2>2. \A c \in Daemon : daemon'[c].at \in Busy => Named(c)'
    BY <1>1, <1>3, <1>4, <1>6, <1>7 DEF IInv, KnownJobs, Named, Busy, Working, Reporting
  <2> QED
    BY <2>1, <2>2 DEF KnownJobs
<1>9. Ids'
  BY <1>2, <1>3, <1>4, <1>6, <1>7 DEF IInv, Ids
<1>10. Leases'
  <2> SUFFICES ASSUME NEW c \in Daemon, NEW j \in Job,
                      daemon'[c].at # "stopped", job'[j] # None,
                      job'[j].status = "leased", job'[j].worker = daemon'[c].id
               PROVE  daemon'[c].at \in Busy /\ daemon'[c].job = j
    BY DEF Leases
  <2>1. CASE j = k
    BY <1>1, <1>2, <1>3, <1>4, <2>1 DEF IInv, Ids, Busy, Working
  <2>2. CASE j # k
    BY <1>1, <1>2, <1>3, <1>4, <2>2 DEF IInv, Leases, Busy, Working, Reporting
  <2> QED
    BY <2>1, <2>2
<1>11. Attempts'
  BY <1>1 DEF IInv, Attempts
<1> QED
  BY <1>5, <1>8, <1>9, <1>10, <1>11 DEF IInv

Ended(x, status, done) == [x EXCEPT !.status = status, !.left = 0, !.done = done]

LEMMA FinishType ==
  ASSUME NEW x \in JobRecord, NEW status \in Final, NEW done \in SUBSET Check,
         NEW y, y = Ended(x, status, done)
  PROVE  /\ y \in JobRecord /\ y # None /\ y.worker = x.worker /\ y.attempt = x.attempt
         /\ y.status = status /\ y.done = done
<1> DEFINE statuses == {"queued", "leased"} \cup Final
           left == 0 .. LeaseDuration
           dones == SUBSET Check
<1>1. status \in statuses /\ 0 \in left /\ done \in dones
  OBVIOUS
<1>2. JobRecord = [worker : Nat, status : statuses, attempt : Nat, left : left, done : dones]
  BY DEF JobRecord
<1> HIDE DEF statuses, left, dones
<1>3. y \in JobRecord
  BY <1>1, <1>2 DEF Ended
<1>4. y.worker = x.worker /\ y.attempt = x.attempt /\ y.status = status /\ y.done = done
  BY <1>2 DEF Ended
<1> QED
  BY <1>3, <1>4

(* A report ends a leased job and lets its sender poll again, or is refused. *)
LEMMA HandleEnds ==
  ASSUME IInv, NEW m \in sent, HandleComplete(m)
  PROVE  LET leased == job[m.job].status = "leased" IN
         /\ m.job \in Job /\ job[m.job] # None /\ job[m.job].worker = m.by
         /\ \A j \in Job : j # m.job => job'[j] = job[j]
         /\ ~leased => job' = job
         /\ job' \in [Job -> JobRecord \cup {None}]
         /\ job'[m.job] # None /\ job'[m.job].worker = m.by
         /\ job'[m.job].attempt = job[m.job].attempt
         /\ leased => job'[m.job].status = m.status /\ job'[m.job].done = m.done
         /\ m.status \in Final
         /\ daemon' \in [Daemon -> DaemonState]
         /\ \A d \in Daemon :
              \/ daemon'[d] = daemon[d] /\ ~Waits(d, m)
              \/ leased /\ Waits(d, m) /\ daemon'[d] = Polling(m.by)
              \/ Waits(d, m) /\ daemon[d].at = "awaitingLast" /\ daemon'[d] = Stopped
              \/ Waits(d, m) /\ daemon'[d].at = "failing" /\ daemon'[d].id = daemon[d].id
                 /\ daemon'[d].job = daemon[d].job /\ daemon'[d].done = daemon[d].done
<1> DEFINE k == m.job
           leased == job[k].status = "leased"
           r == [job[k] EXCEPT !.status = m.status, !.left = 0, !.done = m.done]
<1>1. k \in Job /\ job[k] # None /\ job[k].worker = m.by /\ m.by \in Nat
      /\ m.status \in Final /\ m.done \in SUBSET Check
  BY DEF IInv, TypeOK, Complete, KnownJobs
<1>2. job[k] \in JobRecord
  BY <1>1 DEF IInv, TypeOK
<1>3. /\ r \in JobRecord /\ r # None /\ r.worker = job[k].worker /\ r.attempt = job[k].attempt
      /\ r.status = m.status /\ r.done = m.done
  <2>1. r = Ended(job[k], m.status, m.done)
    BY DEF Ended
  <2> QED
    BY <1>1, <1>2, <2>1, FinishType
<1>4. job' = IF leased THEN [job EXCEPT ![k] = r] ELSE job
  BY DEF HandleComplete
<1> HIDE DEF r
<1>5. /\ job' \in [Job -> JobRecord \cup {None}]
      /\ \A j \in Job : j # k => job'[j] = job[j]
      /\ leased => job'[k] = r
      /\ ~leased => job' = job
  BY <1>1, <1>3, <1>4 DEF IInv, TypeOK
<1>6. daemon' = [d \in Daemon |-> IF ~Waits(d, m) THEN daemon[d]
                                 ELSE IF leased THEN Polling(m.by) ELSE Refused(d)]
  BY DEF HandleComplete
<1>7. Polling(m.by) \in DaemonState
  BY <1>1, PollingType
<1>8. ASSUME NEW d \in Daemon, Waits(d, m)
      PROVE  /\ Refused(d) \in DaemonState
             /\ \/ daemon[d].at = "awaitingLast" /\ Refused(d) = Stopped
                \/ Refused(d).at = "failing" /\ Refused(d).id = daemon[d].id
                   /\ Refused(d).job = daemon[d].job /\ Refused(d).done = daemon[d].done
  <2>1. CASE daemon[d].at = "awaiting"
    <3>1. Refused(d) = [daemon[d] EXCEPT !.at = "failing"]
      BY <2>1 DEF Refused
    <3> QED
      BY <3>1 DEF IInv, TypeOK, DaemonState, Reporting
  <2>2. CASE daemon[d].at # "awaiting"
    BY <1>8, <2>2, PollingType DEF Refused, Waits
  <2> QED
    BY <2>1, <2>2
<1>9. daemon' \in [Daemon -> DaemonState]
  BY <1>6, <1>7, <1>8 DEF IInv, TypeOK
<1>10. \A d \in Daemon :
              \/ daemon'[d] = daemon[d] /\ ~Waits(d, m)
              \/ leased /\ Waits(d, m) /\ daemon'[d] = Polling(m.by)
              \/ Waits(d, m) /\ daemon[d].at = "awaitingLast" /\ daemon'[d] = Stopped
              \/ Waits(d, m) /\ daemon'[d].at = "failing" /\ daemon'[d].id = daemon[d].id
                 /\ daemon'[d].job = daemon[d].job /\ daemon'[d].done = daemon[d].done
  BY <1>6, <1>8
<1> QED
  BY <1>1, <1>3, <1>5, <1>9, <1>10

LEMMA HandleInv ==
  ASSUME IInv, NEW m \in sent, HandleComplete(m)
  PROVE  IInv'
<1> DEFINE k == m.job
           leased == job[k].status = "leased"
<1>1. /\ k \in Job /\ job[k] # None /\ job[k].worker = m.by
      /\ \A j \in Job : j # k => job'[j] = job[j]
      /\ ~leased => job' = job
      /\ job' \in [Job -> JobRecord \cup {None}]
      /\ job'[k] # None /\ job'[k].worker = m.by /\ job'[k].attempt = job[k].attempt
      /\ leased => job'[k].status = m.status
      /\ m.status \in Final
      /\ daemon' \in [Daemon -> DaemonState]
  BY HandleEnds
<1>2. \A d \in Daemon :
        \/ daemon'[d] = daemon[d] /\ ~Waits(d, m)
        \/ leased /\ Waits(d, m) /\ daemon'[d] = Polling(m.by)
        \/ Waits(d, m) /\ daemon[d].at = "awaitingLast" /\ daemon'[d] = Stopped
        \/ Waits(d, m) /\ daemon'[d].at = "failing" /\ daemon'[d].id = daemon[d].id
           /\ daemon'[d].job = daemon[d].job
  BY HandleEnds
<1>3. m.by \in Nat
  BY DEF IInv, TypeOK, Complete
<1>4. \A d \in Daemon : Waits(d, m) => daemon[d].id = m.by /\ daemon[d].job = k
                                     /\ daemon[d].at \in Busy /\ daemon[d].at # "stopped"
  BY DEF Waits, Busy, Reporting, Working
<1>5. UNCHANGED <<registered, workspace, branch>> /\ sent' \subseteq sent
  BY DEF HandleComplete
<1>6. TypeOK'
  BY <1>1, <1>5 DEF IInv, TypeOK
<1>7. \A j \in Job : (job[j] # None <=> job'[j] # None) /\ job'[j].worker = job[j].worker
  BY <1>1
<1>8. \A d \in Daemon : daemon'[d].at # "stopped"
                          => daemon[d].at # "stopped" /\ daemon'[d].id = daemon[d].id
  BY <1>2, <1>3, <1>4, PollingType
<1>9. \A d \in Daemon : daemon'[d].at \in Busy
                          => daemon[d].at \in Busy /\ daemon'[d].job = daemon[d].job
                             /\ daemon'[d].id = daemon[d].id
  BY <1>2, <1>3, <1>4, PollingType DEF Busy, Working, Reporting
<1>10. KnownJobs'
  <2>1. \A c \in sent' : job'[c.job] # None /\ job'[c.job].worker = c.by
    BY <1>5, <1>7 DEF IInv, KnownJobs, TypeOK, Complete
  <2>2. \A d \in Daemon : daemon'[d].at \in Busy => Named(d)'
    BY <1>7, <1>9 DEF IInv, KnownJobs, Named
  <2> QED
    BY <2>1, <2>2 DEF KnownJobs
<1>11. Ids'
  BY <1>5, <1>7, <1>8 DEF IInv, Ids
<1>12. Leases'
  <2> SUFFICES ASSUME NEW d \in Daemon, NEW j \in Job,
                      daemon'[d].at # "stopped", job'[j] # None,
                      job'[j].status = "leased", job'[j].worker = daemon'[d].id
               PROVE  daemon'[d].at \in Busy /\ daemon'[d].job = j
    BY DEF Leases
  <2>1. job[j].status = "leased" /\ (leased => j # k)
    BY <1>1 DEF Final
  <2>2. daemon[d].at \in Busy /\ daemon[d].job = j
    BY <1>7, <1>8, <2>1 DEF IInv, Leases
  <2>3. ~(leased /\ Waits(d, m))
    BY <1>4, <2>1, <2>2
  <2> QED
    BY <1>2, <2>2, <2>3, PollingType DEF Busy, Reporting
<1>13. Attempts'
  BY <1>1 DEF IInv, Attempts, Final
<1> QED
  BY <1>6, <1>10, <1>11, <1>12, <1>13 DEF IInv

LEMMA TickInv == IInv /\ Tick => IInv'
<1> SUFFICES ASSUME IInv, Tick PROVE IInv'
  OBVIOUS
<1>1. ASSUME NEW x \in JobRecord, x.left > 0
      PROVE  LET y == [x EXCEPT !.left = @ - 1]
             IN  y \in JobRecord /\ y.worker = x.worker /\ y.status = x.status /\ y.attempt = x.attempt
  BY <1>1 DEF JobRecord
<1>2. job' \in [Job -> JobRecord \cup {None}]
  BY <1>1 DEF Tick, IInv, TypeOK
<1>3. \A k \in Job : job[k] # None => job'[k] # None /\ job'[k].worker = job[k].worker
                       /\ job'[k].status = job[k].status /\ job'[k].attempt = job[k].attempt
  BY <1>1 DEF Tick, IInv, TypeOK
<1>4. \A k \in Job : job[k] = None => job'[k] = None
  BY DEF Tick, IInv, TypeOK
<1>5. UNCHANGED <<registered, daemon, workspace, branch, sent>>
  BY DEF Tick
<1>6. TypeOK'
  BY <1>2, <1>5 DEF IInv, TypeOK
<1>7. KnownJobs'
  BY <1>3, <1>5 DEF IInv, KnownJobs, Named, TypeOK, Complete
<1>8. Ids' /\ Leases' /\ Attempts'
  BY <1>3, <1>4, <1>5 DEF IInv, Ids, Leases, Attempts
<1> QED
  BY <1>6, <1>7, <1>8 DEF IInv

LEMMA LostInv ==
  ASSUME IInv, NEW m \in sent, RequestLost(m)
  PROVE  IInv'
  BY DEF RequestLost, IInv, TypeOK, KnownJobs, Named, Ids, Leases, Attempts

(* The steps of a daemon, by what they do to it. *)
LEMMA WorkCases ==
  ASSUME NEW d \in Daemon, Work(d)
  PROVE  Lease(d) \/ Inner(d) \/ (daemon[d].at = "awaitingLast" /\ AnswerLost(d))
  BY DEF Work, Inner, AnswerLost

LEMMA NextInv == IInv /\ [Next]_vars => IInv'
<1> SUFFICES ASSUME IInv, [Next]_vars PROVE IInv'
  OBVIOUS
<1>1. ASSUME NEW k \in Job, NEW w \in 1 .. registered, CreateJob(k, w) PROVE IInv'
  BY <1>1, CreateInv
<1>2. ASSUME NEW d \in Daemon, Start(d) PROVE IInv'
  BY <1>2, StartInv
<1>3. ASSUME NEW d \in Daemon, Work(d) PROVE IInv'
  <2>1. CASE daemon[d].at = "awaitingLast" /\ AnswerLost(d)
    <3>1. Stops(d)
      BY <2>1 DEF AnswerLost, Refused, Stops, IInv, TypeOK
    <3> QED
      BY <3>1, StopInv
  <2> QED
    BY <1>3, <2>1, WorkCases, LeaseInv, InnerInv
<1>4. ASSUME NEW d \in Daemon, Die(d) PROVE IInv'
  <2>1. Stops(d)
    BY <1>4 DEF Die, Stops, IInv, TypeOK
  <2> QED
    BY <2>1, StopInv
<1>5. ASSUME NEW m \in sent, HandleComplete(m) \/ RequestLost(m) PROVE IInv'
  BY <1>5, HandleInv, LostInv
<1>6. CASE Tick
  BY <1>6, TickInv
<1>7. CASE UNCHANGED vars
  BY <1>7 DEF vars, IInv, TypeOK, KnownJobs, Named, Ids, Leases, Attempts
<1> QED
  BY <1>1, <1>2, <1>3, <1>4, <1>5, <1>6, <1>7 DEF Next

LEMMA Inductive == Spec => []IInv
  BY InitInv, NextInv, PTL DEF Spec

(* Every variable keeps its type: a lease's time stays between zero and five *)
(* minutes, and complete never meets a job that is not there.                *)
THEOREM Typing == Spec => []TypeOK
<1>1. IInv => TypeOK
  BY DEF IInv
<1> QED
  BY <1>1, Inductive, PTL

(* No job is ever executed twice, for any number of daemons, restarts, lost  *)
(* answers and expired leases: the retry that a lease's expiry is meant for  *)
(* is out of reach of the daemon of this repository.                         *)
THEOREM OneAttempt == Spec => []AttemptedOnce
<1>1. IInv => AttemptedOnce
  BY DEF IInv, Attempts, AttemptedOnce
<1> QED
  BY <1>1, Inductive, PTL

(* What is recorded of a job that has ended never changes. *)
THEOREM Recorded == Spec => RecordedOnce
<1> DEFINE A == \A k \in Job : job[k] # None /\ job[k].status \in Final => job'[k] = job[k]
<1>1. IInv /\ [Next]_vars => A
  <2> SUFFICES ASSUME IInv, [Next]_vars, NEW k \in Job, job[k] # None, job[k].status \in Final
               PROVE  job'[k] = job[k]
    OBVIOUS
  <2>1. job[k].status \notin {"queued", "leased"}
    BY DEF Final
  <2>2. ASSUME NEW j \in Job, NEW w \in 1 .. registered, CreateJob(j, w) PROVE job'[k] = job[k]
    BY <2>2 DEF CreateJob, IInv, TypeOK
  <2>3. ASSUME NEW d \in Daemon, Start(d) \/ Die(d) PROVE job'[k] = job[k]
    BY <2>3 DEF Start, Die
  <2>4. ASSUME NEW d \in Daemon, Work(d) PROVE job'[k] = job[k]
    <3>1. CASE Lease(d)
      BY <2>1, <3>1, LeaseTakes
    <3>2. CASE Inner(d)
      BY <3>2, InnerMoves DEF IInv
    <3> QED
      BY <2>4, <3>1, <3>2, WorkCases DEF AnswerLost
  <2>5. ASSUME NEW m \in sent, HandleComplete(m) \/ RequestLost(m) PROVE job'[k] = job[k]
    BY <2>1, <2>5, HandleEnds DEF RequestLost
  <2>6. CASE Tick
    BY <2>1, <2>6 DEF Tick, IInv, TypeOK
  <2>7. CASE UNCHANGED vars
    BY <2>7 DEF vars
  <2> QED
    BY <2>2, <2>3, <2>4, <2>5, <2>6, <2>7 DEF Next
<1>2. IInv /\ [Next]_vars => [A]_vars
  BY <1>1
<1> QED
  BY <1>2, Inductive, PTL DEF Spec, RecordedOnce

-------------------------------------------------------------------------------
(* Publication. *)

(* A daemon that commits owns the branch, and one that asks for the pull     *)
(* request has committed.                                                    *)
OwnBranch(d) ==
  LET k == daemon[d].job IN
  /\ daemon[d].at \in {"commit", "pull"} => branch[RequestOf[k]].by = k
  /\ daemon[d].at = "pull" => k \in branch[RequestOf[k]].commits

(* ProposalsAreSeparate is not inductive: the three requests to GitHub are   *)
(* steps of their own, so what a daemon has done between them must be known. *)
PInv == ProposalsAreSeparate /\ \A d \in Daemon : OwnBranch(d)

LEMMA GotoFields ==
  ASSUME TypeOK, NEW d \in Daemon, NEW step, Goto(d, step)
  PROVE  /\ daemon'[d].at = step /\ daemon'[d].job = daemon[d].job
         /\ daemon'[d].done = daemon[d].done
         /\ \A e \in Daemon : e # d => daemon'[e] = daemon[e]
  BY DEF Goto, TypeOK, DaemonState

LEMMA ReportFields ==
  ASSUME TypeOK, NEW d \in Daemon, NEW status, ToReport(d, status)
  PROVE  /\ daemon'[d].at = "report" /\ daemon'[d].job = daemon[d].job
         /\ daemon'[d].done = daemon[d].done
         /\ \A e \in Daemon : e # d => daemon'[e] = daemon[e]
  BY DEF ToReport, TypeOK, DaemonState

LEMMA PassedFields ==
  ASSUME TypeOK, NEW d \in Daemon, NEW check, NEW step, Passed(d, check, step)
  PROVE  /\ daemon'[d].at = step /\ daemon'[d].job = daemon[d].job
         /\ daemon'[d].done = daemon[d].done \cup {check}
         /\ \A e \in Daemon : e # d => daemon'[e] = daemon[e]
  BY DEF Passed, TypeOK, DaemonState

LEMMA PassedLastFields ==
  ASSUME TypeOK, NEW d \in Daemon, NEW check, PassedLast(d, check)
  PROVE  /\ daemon'[d].at = "report" /\ daemon'[d].job = daemon[d].job
         /\ daemon'[d].done = daemon[d].done \cup {check}
         /\ \A e \in Daemon : e # d => daemon'[e] = daemon[e]
  BY DEF PassedLast, TypeOK, DaemonState

(* Only the three steps of the publication touch a branch or enter one of    *)
(* their own places.                                                         *)
LEMMA Elsewhere ==
  ASSUME IInv, [Next]_vars,
         \A d \in Daemon : ~(CreateBranch(d) \/ CommitFile(d) \/ CreatePullRequest(d))
  PROVE  /\ branch' = branch
         /\ \A d \in Daemon : daemon'[d].at \in {"commit", "pull"} => daemon'[d] = daemon[d]
<1> DEFINE P == \A d \in Daemon : daemon'[d].at \in {"commit", "pull"} => daemon'[d] = daemon[d]
<1>1. ASSUME NEW d \in Daemon, NEW e \in DaemonState, e.at \notin {"commit", "pull"},
             daemon' = [daemon EXCEPT ![d] = e]
      PROVE  P
  BY <1>1 DEF IInv, TypeOK
<1>2. ASSUME NEW d \in Daemon, Start(d) \/ Die(d) PROVE branch' = branch /\ P
  BY <1>1, <1>2, PollingType DEF Start, Die, IInv, TypeOK
<1>3. ASSUME NEW d \in Daemon, Lease(d) PROVE branch' = branch /\ P
  <2>1. branch' = branch
    BY <1>3 DEF Lease
  <2>2. PICK k \in Job : \/ daemon' = [daemon EXCEPT ![d] = [@ EXCEPT !.at = "prepare", !.job = k]]
                         \/ daemon' = [daemon EXCEPT ![d] = Stopped]
    BY <1>3, LeaseTakes
  <2>3. daemon[d] \in DaemonState
    BY DEF IInv, TypeOK
  <2>4. CASE daemon' = [daemon EXCEPT ![d] = [@ EXCEPT !.at = "prepare", !.job = k]]
    <3>1. daemon' = [daemon EXCEPT ![d] = Preparing(daemon[d], k)]
      BY <2>4 DEF Preparing
    <3> QED
      BY <1>1, <2>1, <2>3, <3>1, PreparingType
  <2> QED
    BY <1>1, <2>1, <2>2, <2>4, PollingType
<1>4. ASSUME NEW d \in Daemon, Inner(d) PROVE branch' = branch /\ P
  <2>0. TypeOK
    BY DEF IInv
  <2>1. CASE Prepare(d)
    BY <2>0, <2>1, GotoFields DEF Prepare
  <2>2. CASE RunAgent(d)
    BY <2>0, <2>2, GotoFields, ReportFields DEF RunAgent
  <2>3. CASE Apply(d)
    BY <2>0, <2>3, GotoFields DEF Apply
  <2>4. CASE Validate(d)
    BY <2>0, <2>4, PassedFields, ReportFields DEF Validate
  <2>5. CASE RunTest(d)
    <3>1. CASE ToReport(d, "completed")
      BY <2>0, <2>5, <3>1, ReportFields DEF RunTest
    <3>2. CASE Passed(d, "run", "branch")
      BY <2>0, <2>5, <3>2, PassedFields DEF RunTest
    <3>3. CASE PassedLast(d, "run")
      BY <2>0, <2>5, <3>3, PassedLastFields DEF RunTest
    <3> QED
      BY <2>5, <3>1, <3>2, <3>3 DEF RunTest
  <2>6. CASE Report(d) \/ ReportFailure(d)
    BY <2>0, <2>6, GotoFields DEF Report, ReportFailure
  <2>7. CASE daemon[d].at = "awaiting" /\ AnswerLost(d)
    <3>1. branch' = branch /\ Goto(d, "failing")
      BY <2>7 DEF AnswerLost, Refused, Goto
    <3> QED
      BY <2>0, <3>1, GotoFields
  <2> QED
    BY <1>4, <2>1, <2>2, <2>3, <2>4, <2>5, <2>6, <2>7 DEF Inner
<1>5. ASSUME NEW d \in Daemon, Work(d) PROVE branch' = branch /\ P
  <2>1. CASE daemon[d].at = "awaitingLast" /\ AnswerLost(d)
    BY <1>1, <2>1, PollingType DEF AnswerLost, Refused
  <2> QED
    BY <1>3, <1>4, <1>5, <2>1, WorkCases
<1>6. ASSUME NEW m \in sent, HandleComplete(m) PROVE branch' = branch /\ P
  <2>1. m.by \in Nat
    BY DEF IInv, TypeOK, Complete
  <2> QED
    BY <1>6, <2>1, HandleEnds, PollingType DEF HandleComplete
<1>7. ASSUME NEW k \in Job, NEW w \in 1 .. registered, CreateJob(k, w) PROVE branch' = branch /\ P
  BY <1>7 DEF CreateJob
<1>8. CASE Tick \/ UNCHANGED vars \/ \E m \in sent : RequestLost(m)
  BY <1>8 DEF Tick, vars, RequestLost
<1> QED
  BY <1>2, <1>5, <1>6, <1>7, <1>8 DEF Next

LEMMA PublicationInv == IInv /\ PInv /\ [Next]_vars => PInv'
<1> SUFFICES ASSUME IInv, PInv, [Next]_vars PROVE PInv'
  OBVIOUS
<1>0. TypeOK
  BY DEF IInv
<1>1. CASE \A d \in Daemon : ~(CreateBranch(d) \/ CommitFile(d) \/ CreatePullRequest(d))
  BY <1>1, Elsewhere DEF PInv, OwnBranch, ProposalsAreSeparate
<1>2. ASSUME NEW d \in Daemon, CreateBranch(d) \/ CommitFile(d) \/ CreatePullRequest(d)
      PROVE  PInv'
  <2> DEFINE k == daemon[d].job
             r == RequestOf[k]
  <2>1. k \in Job /\ r \in Request /\ k # None
    BY <1>2 DEF IInv, KnownJobs, Named, Busy, Working, CreateBranch, CommitFile, CreatePullRequest
  <2>2. \A q \in Request : q # r => branch'[q] = branch[q]
    BY <1>2, <2>1 DEF IInv, TypeOK, CreateBranch, CommitFile, CreatePullRequest
  <2>3. \A e \in Daemon : e # d => daemon'[e] = daemon[e]
    BY <1>0, <1>2, GotoFields, PassedLastFields DEF CreateBranch, CommitFile, CreatePullRequest
  <2>4. daemon'[d].job = k
    BY <1>0, <1>2, GotoFields, PassedLastFields DEF CreateBranch, CommitFile, CreatePullRequest
  <2>5. /\ branch[r].by # None => branch'[r].by = branch[r].by
        /\ branch[r].commits \subseteq branch'[r].commits
    <3>1. branch \in [Request -> Branch] /\ branch[r] \in Branch
      BY <2>1 DEF IInv, TypeOK
    <3>2. \/ branch' = branch
          \/ branch[r].by = None /\ branch' = [branch EXCEPT ![r].by = k]
          \/ branch' = [branch EXCEPT ![r].commits = @ \cup {k}]
          \/ branch' = [branch EXCEPT ![r].pulls = @ \cup {k}]
      BY <1>2 DEF CreateBranch, CommitFile, CreatePullRequest
    <3>3. CASE branch' = [branch EXCEPT ![r].commits = @ \cup {k}]
      BY <2>1, <3>1, <3>3 DEF Branch
    <3>4. CASE branch' = [branch EXCEPT ![r].pulls = @ \cup {k}]
      BY <2>1, <3>1, <3>4 DEF Branch
    <3>5. CASE branch[r].by = None /\ branch' = [branch EXCEPT ![r].by = k]
      BY <2>1, <3>1, <3>5 DEF Branch
    <3> QED
      BY <3>2, <3>3, <3>4, <3>5
  <2>0. branch \in [Request -> Branch] /\ branch[r] \in Branch
    BY <2>1 DEF IInv, TypeOK
  <2>6. \A e \in Daemon : e # d => OwnBranch(e)'
    <3> SUFFICES ASSUME NEW e \in Daemon, e # d PROVE OwnBranch(e)'
      OBVIOUS
    <3>1. daemon[e].at \in {"commit", "pull"} => daemon[e].job \in Job /\ RequestOf[daemon[e].job] \in Request
      BY DEF IInv, KnownJobs, Named, Busy, Working
    <3> QED
      BY <2>2, <2>3, <2>5, <3>1 DEF PInv, OwnBranch
  <2>7. ASSUME branch'[r].by = k, branch'[r].commits \subseteq {k}, branch'[r].pulls \subseteq branch'[r].commits
        PROVE  ProposalsAreSeparate'
    BY <2>2, <2>7 DEF PInv, ProposalsAreSeparate
  <2>8. CASE CreateBranch(d)
    <3>1. CASE branch' = branch /\ Goto(d, "failing")
      BY <1>0, <2>3, <2>6, <3>1, GotoFields DEF PInv, OwnBranch, ProposalsAreSeparate
    <3>2. CASE branch[r].by = None /\ branch' = [branch EXCEPT ![r].by = k]
      <4>1. branch[r].commits = {} /\ branch[r].pulls = {}
        <5>1. branch[r].commits \cup branch[r].pulls \subseteq {None}
          BY <2>1, <3>2 DEF PInv, ProposalsAreSeparate
        <5>2. None \notin branch[r].commits /\ None \notin branch[r].pulls
          BY <2>0 DEF Branch
        <5> QED
          BY <5>1, <5>2
      <4>2. branch'[r].by = k /\ branch'[r].commits = {} /\ branch'[r].pulls = {}
        BY <2>0, <2>1, <3>2, <4>1 DEF Branch
      <4>3. OwnBranch(d)'
        <5>1. daemon'[d].at # "pull"
          BY <1>0, <2>8, GotoFields DEF CreateBranch
        <5> QED
          BY <2>4, <4>2, <5>1 DEF OwnBranch
      <4> QED
        BY <2>6, <2>7, <4>2, <4>3 DEF PInv
    <3> QED
      BY <2>8, <3>1, <3>2 DEF CreateBranch
  <2>9. CASE CommitFile(d)
    <3>1. CASE branch' = branch /\ Goto(d, "failing")
      BY <1>0, <2>3, <2>6, <3>1, GotoFields DEF PInv, OwnBranch, ProposalsAreSeparate
    <3>2. CASE branch' = [branch EXCEPT ![r].commits = @ \cup {k}]
      <4>1. branch[r].by = k /\ branch[r].commits \subseteq {k} /\ branch[r].pulls \subseteq branch[r].commits
        BY <2>1, <2>9 DEF CommitFile, PInv, OwnBranch, ProposalsAreSeparate
      <4>2. branch'[r].by = k /\ branch'[r].commits = {k} /\ branch'[r].pulls = branch[r].pulls
        BY <2>0, <2>1, <3>2, <4>1 DEF Branch
      <4>3. OwnBranch(d)'
        BY <2>4, <4>2 DEF OwnBranch
      <4> QED
        BY <2>6, <2>7, <4>1, <4>2, <4>3 DEF PInv
    <3> QED
      BY <2>9, <3>1, <3>2 DEF CommitFile
  <2>10. CASE CreatePullRequest(d)
    <3>1. CASE branch' = branch /\ Goto(d, "failing")
      BY <1>0, <2>3, <2>6, <3>1, GotoFields DEF PInv, OwnBranch, ProposalsAreSeparate
    <3>2. CASE branch' = [branch EXCEPT ![r].pulls = @ \cup {k}]
      <4>1. branch[r].by = k /\ branch[r].commits = {k} /\ branch[r].pulls \subseteq {k}
        <5>1. branch[r].by = k /\ k \in branch[r].commits
          BY <2>10 DEF CreatePullRequest, PInv, OwnBranch
        <5>2. branch[r].commits \cup branch[r].pulls \subseteq {branch[r].by}
          BY <2>1 DEF PInv, ProposalsAreSeparate
        <5> QED
          BY <5>1, <5>2
      <4>2. branch'[r].by = k /\ branch'[r].commits = {k} /\ branch'[r].pulls = {k}
        BY <2>0, <2>1, <3>2, <4>1 DEF Branch
      <4>3. OwnBranch(d)'
        BY <2>4, <4>2 DEF OwnBranch
      <4> QED
        BY <2>6, <2>7, <4>2, <4>3 DEF PInv
    <3> QED
      BY <2>10, <3>1, <3>2 DEF CreatePullRequest
  <2> QED
    BY <1>2, <2>8, <2>9, <2>10
<1> QED
  BY <1>1, <1>2

(* No branch ever mixes the proposals of two jobs with one requestId.        *)
THEOREM SeparateProposals == Spec => []ProposalsAreSeparate
<1>1. Init => PInv
  BY DEF Init, PInv, OwnBranch, ProposalsAreSeparate, Stopped, Jobless
<1>2. PInv => ProposalsAreSeparate
  BY DEF PInv
<1> QED
  BY <1>1, <1>2, PublicationInv, Inductive, PTL DEF Spec

-------------------------------------------------------------------------------
(* What the record of a job says. *)

Backed(k, done) ==
  "publish" \in done =>
    /\ {"validate", "run"} \subseteq done
    /\ k \in Job
    /\ k \in branch[RequestOf[k]].pulls

(* What a daemon at a step of the workflow has passed so far. *)
Sound(d) ==
  /\ Backed(daemon[d].job, daemon[d].done)
  /\ daemon[d].at = "polling" => daemon[d].done = {}
  /\ daemon[d].at = "run" => "validate" \in daemon[d].done
  /\ daemon[d].at \in {"branch", "commit", "pull"} => {"validate", "run"} \subseteq daemon[d].done

(* RecordIsTrue follows a result from the workflow through its message to    *)
(* the table.                                                                *)
TInv ==
  /\ \A d \in Daemon : Sound(d)
  /\ \A m \in sent : Backed(m.job, m.done)
  /\ RecordIsTrue

(* Pull requests are not taken back. *)
LEMMA PullsStay ==
  ASSUME IInv, [Next]_vars, NEW r \in Request
  PROVE  branch[r].pulls \subseteq branch'[r].pulls
<1>1. CASE \A d \in Daemon : ~(CreateBranch(d) \/ CommitFile(d) \/ CreatePullRequest(d))
  BY <1>1, Elsewhere
<1>2. ASSUME NEW d \in Daemon, CreateBranch(d) \/ CommitFile(d) \/ CreatePullRequest(d)
      PROVE  branch[r].pulls \subseteq branch'[r].pulls
  BY <1>2 DEF IInv, TypeOK, Branch, CreateBranch, CommitFile, CreatePullRequest
<1> QED
  BY <1>1, <1>2

LEMMA BackedStays ==
  ASSUME IInv, [Next]_vars, NEW k, NEW done, Backed(k, done)
  PROVE  Backed(k, done)'
  BY PullsStay DEF Backed

LEMMA InnerSound ==
  ASSUME IInv, [Next]_vars, NEW d \in Daemon, Sound(d), Inner(d)
  PROVE  /\ Sound(d)'
         /\ \A e \in Daemon : e # d => daemon'[e] = daemon[e]
<1> DEFINE k == daemon[d].job
           done == daemon[d].done
           Others == \A e \in Daemon : e # d => daemon'[e] = daemon[e]
<1>0. TypeOK /\ k \in Job /\ RequestOf[k] \in Request
  BY InnerMoves DEF IInv, KnownJobs, Named, Moves
<1>1. \A r \in Request : branch[r].pulls \subseteq branch'[r].pulls
  BY PullsStay
<1>2. Backed(k, done) /\ daemon'[d].at # "polling"
  BY InnerMoves DEF IInv, Sound, Moves, Busy, Working, Reporting
(* A step that passes nothing. *)
<1>3. ASSUME NEW step, Goto(d, step) \/ (step = "report" /\ \E status \in Final : ToReport(d, status)),
             step = "run" => "validate" \in done,
             step \in {"branch", "commit", "pull"} => {"validate", "run"} \subseteq done
      PROVE  Sound(d)' /\ Others
  <2>1. daemon'[d].at = step /\ daemon'[d].job = k /\ daemon'[d].done = done /\ Others
    BY <1>0, <1>3, GotoFields, ReportFields
  <2> HIDE DEF k, done
  <2> QED
    BY <1>0, <1>1, <1>2, <1>3, <2>1 DEF Sound, Backed
(* A step that passes a check. *)
<1>4. ASSUME NEW check, NEW step,
             Passed(d, check, step) \/ (step = "report" /\ PassedLast(d, check)),
             step = "run" => check = "validate",
             step \in {"branch", "commit", "pull"} => check = "run" /\ "validate" \in done,
             check = "publish" => {"validate", "run"} \subseteq done /\ k \in branch'[RequestOf[k]].pulls
      PROVE  Sound(d)' /\ Others
  <2>1. daemon'[d].at = step /\ daemon'[d].job = k /\ daemon'[d].done = done \cup {check} /\ Others
    BY <1>0, <1>4, PassedFields, PassedLastFields
  <2> HIDE DEF k, done
  <2> QED
    BY <1>0, <1>1, <1>2, <1>4, <2>1 DEF Sound, Backed
<1>5. CASE Prepare(d)
  BY <1>3, <1>5 DEF Prepare
<1>6. CASE RunAgent(d)
  BY <1>3, <1>6 DEF RunAgent
<1>7. CASE Apply(d)
  BY <1>3, <1>7 DEF Apply
<1>8. CASE Validate(d)
  BY <1>3, <1>4, <1>8 DEF Validate, Final
<1>9. CASE RunTest(d)
  BY <1>3, <1>4, <1>9 DEF RunTest, Final, Sound
<1>10. CASE CreateBranch(d)
  BY <1>3, <1>10 DEF CreateBranch, Sound
<1>11. CASE CommitFile(d)
  BY <1>3, <1>11 DEF CommitFile, Sound
<1>12. CASE CreatePullRequest(d)
  <2>1. CASE Goto(d, "failing")
    BY <1>3, <2>1
  <2>2. CASE PassedLast(d, "publish") /\ branch' = [branch EXCEPT ![RequestOf[k]].pulls = @ \cup {k}]
    <3>1. k \in branch'[RequestOf[k]].pulls
      BY <1>0, <2>2 DEF TypeOK, Branch
    <3> QED
      <4>1. {"validate", "run"} \subseteq done
        BY <1>12 DEF CreatePullRequest, Sound
      <4> HIDE DEF k, done
      <4> QED
        BY <1>4, <2>2, <3>1, <4>1
  <2> QED
    BY <1>12, <2>1, <2>2 DEF CreatePullRequest
<1>13. CASE Report(d) \/ ReportFailure(d)
  BY <1>3, <1>13 DEF Report, ReportFailure
<1>14. CASE daemon[d].at = "awaiting" /\ AnswerLost(d)
  <2>1. Goto(d, "failing")
    BY <1>14 DEF AnswerLost, Refused, Goto
  <2> QED
    BY <1>3, <2>1
<1> QED
  BY <1>5, <1>6, <1>7, <1>8, <1>9, <1>10, <1>11, <1>12, <1>13, <1>14 DEF Inner

LEMMA InnerSendsBacked ==
  ASSUME IInv, TInv, [Next]_vars, NEW d \in Daemon, Inner(d), NEW m \in sent'
  PROVE  Backed(m.job, m.done)'
<1>1. CASE m \in sent
  BY <1>1, BackedStays DEF TInv
<1>2. CASE m \notin sent
  <2> DEFINE P == m.job = daemon[d].job /\ (m.done = daemon[d].done \/ m.done = {})
  <2>1. Report(d) \/ ReportFailure(d) => P
    BY <1>2 DEF Report, ReportFailure, Send
  <2>2. Report(d) \/ ReportFailure(d)
    BY <1>2 DEF Inner, Prepare, RunAgent, Apply, Validate, RunTest, CreateBranch,
                CommitFile, CreatePullRequest, AnswerLost
  <2>3. P
    BY <2>1, <2>2
  <2>4. Backed(m.job, m.done)
    BY <2>3 DEF TInv, Sound, Backed
  <2> QED
    BY <2>4, BackedStays
<1> QED
  BY <1>1, <1>2

(* A table that changes no result keeps what is said of the results.         *)
LEMMA SameResults ==
  ASSUME IInv, RecordIsTrue, [Next]_vars,
         \A k \in Job : job'[k] # None => \/ job[k] # None /\ job'[k].done = job[k].done
                                       \/ job'[k].done = {}
  PROVE  RecordIsTrue'
  BY PullsStay DEF RecordIsTrue

LEMMA TruthInv == IInv /\ TInv /\ [Next]_vars => TInv'
<1> SUFFICES ASSUME IInv, TInv, [Next]_vars PROVE TInv'
  OBVIOUS
<1> DEFINE SameJobs == \A k \in Job : job'[k] # None => \/ job[k] # None /\ job'[k].done = job[k].done
                                                      \/ job'[k].done = {}
<1>1. ASSUME NEW d \in Daemon, daemon'[d] = daemon[d] PROVE Sound(d)'
  BY <1>1, BackedStays DEF TInv, Sound
<1>2. ASSUME NEW d \in Daemon, daemon'[d].at \in {"stopped", "polling", "prepare"},
             daemon'[d].done = {}
      PROVE  Sound(d)'
  BY <1>2 DEF Sound, Backed
<1>3. ASSUME NEW d \in Daemon, \A e \in Daemon : e # d => daemon'[e] = daemon[e],
             Sound(d)', sent' \subseteq sent, SameJobs
      PROVE  TInv'
  <2>1. \A e \in Daemon : Sound(e)'
    BY <1>1, <1>3
  <2>2. \A m \in sent' : Backed(m.job, m.done)'
    BY <1>3, BackedStays DEF TInv
  <2>3. RecordIsTrue'
    BY <1>3, SameResults DEF TInv
  <2> QED
    BY <2>1, <2>2, <2>3 DEF TInv
<1>4. ASSUME UNCHANGED daemon, sent' \subseteq sent, SameJobs PROVE TInv'
  <2>1. \A e \in Daemon : Sound(e)'
    BY <1>1, <1>4
  <2>2. \A m \in sent' : Backed(m.job, m.done)'
    BY <1>4, BackedStays DEF TInv
  <2>3. RecordIsTrue'
    BY <1>4, SameResults DEF TInv
  <2> QED
    BY <2>1, <2>2, <2>3 DEF TInv
<1>5. ASSUME NEW k \in Job, NEW w \in 1 .. registered, CreateJob(k, w) PROVE TInv'
  BY <1>4, <1>5 DEF CreateJob, IInv, TypeOK
<1>6. ASSUME NEW d \in Daemon, Start(d) \/ Die(d) \/ (daemon[d].at = "awaitingLast" /\ AnswerLost(d))
      PROVE  TInv'
  <2>1. registered + 1 \in Nat
    BY DEF IInv, TypeOK
  <2>2. daemon' = [daemon EXCEPT ![d] = Stopped] \/ daemon' = [daemon EXCEPT ![d] = Polling(registered + 1)]
    BY <1>6 DEF Start, Die, AnswerLost, Refused
  <2>3. /\ daemon'[d].at \in {"stopped", "polling"} /\ daemon'[d].done = {}
        /\ \A e \in Daemon : e # d => daemon'[e] = daemon[e]
    BY <2>1, <2>2, PollingType DEF IInv, TypeOK
  <2>4. UNCHANGED <<job, sent>>
    BY <1>6 DEF Start, Die, AnswerLost
  <2> QED
    BY <1>2, <1>3, <2>3, <2>4
<1>7. ASSUME NEW d \in Daemon, Lease(d) PROVE TInv'
  <2>1. PICK k \in Job :
          /\ job[k] # None /\ job'[k].done = job[k].done
          /\ \A j \in Job : j # k => job'[j] = job[j]
          /\ \/ daemon' = [daemon EXCEPT ![d] = [@ EXCEPT !.at = "prepare", !.job = k]]
             \/ daemon' = [daemon EXCEPT ![d] = Stopped]
    BY <1>7, LeaseTakes
  <2>2. sent' = sent /\ daemon[d].at = "polling"
    BY <1>7 DEF Lease
  <2>3. SameJobs
    BY <2>1
  <2>4. \A e \in Daemon : e # d => daemon'[e] = daemon[e]
    BY <2>1 DEF IInv, TypeOK
  <2>5. CASE daemon' = [daemon EXCEPT ![d] = Stopped]
    <3>1. daemon'[d].at = "stopped" /\ daemon'[d].done = {}
      BY <2>5, PollingType DEF IInv, TypeOK
    <3> QED
      BY <1>2, <1>3, <2>2, <2>3, <2>4, <3>1
  <2>6. CASE daemon' = [daemon EXCEPT ![d] = [@ EXCEPT !.at = "prepare", !.job = k]]
    <3>1. daemon'[d].at = "prepare" /\ daemon'[d].done = daemon[d].done
      BY <2>6 DEF IInv, TypeOK, DaemonState
    <3>2. daemon[d].done = {}
      BY <2>2 DEF TInv, Sound
    <3> QED
      BY <1>2, <1>3, <2>2, <2>3, <2>4, <3>1, <3>2
  <2> QED
    BY <2>1, <2>5, <2>6
<1>8. ASSUME NEW d \in Daemon, Inner(d) PROVE TInv'
  <2>1. Sound(d)' /\ \A e \in Daemon : e # d => daemon'[e] = daemon[e]
    BY <1>8, InnerSound DEF TInv
  <2>2. \A e \in Daemon : Sound(e)'
    BY <1>1, <2>1
  <2>3. job' = job
    BY <1>8, InnerMoves DEF IInv
  <2>4. RecordIsTrue'
    BY <2>3, SameResults DEF TInv
  <2> QED
    BY <1>8, <2>2, <2>4, InnerSendsBacked DEF TInv
<1>12. ASSUME NEW d \in Daemon, Work(d) PROVE TInv'
  BY <1>6, <1>7, <1>8, <1>12, WorkCases
<1>9. ASSUME NEW m \in sent, HandleComplete(m) PROVE TInv'
  <2> DEFINE leased == job[m.job].status = "leased"
  <2>1. /\ m.job \in Job /\ job[m.job] # None
        /\ \A j \in Job : j # m.job => job'[j] = job[j]
        /\ ~leased => job' = job
        /\ leased => job'[m.job].done = m.done
        /\ \A d \in Daemon :
              \/ daemon'[d] = daemon[d]
              \/ daemon'[d] = Polling(m.by)
              \/ daemon'[d] = Stopped
              \/ Waits(d, m) /\ daemon'[d].at = "failing"
                 /\ daemon'[d].job = daemon[d].job /\ daemon'[d].done = daemon[d].done
    BY <1>9, HandleEnds
  <2>2. m.by \in Nat /\ sent' \subseteq sent
    BY <1>9 DEF IInv, TypeOK, Complete, HandleComplete
  <2>3. \A d \in Daemon : Sound(d)'
    <3> SUFFICES ASSUME NEW d \in Daemon PROVE Sound(d)'
      OBVIOUS
    <3>1. CASE daemon'[d] = daemon[d]
      BY <1>1, <3>1
    <3>2. CASE daemon'[d] = Polling(m.by) \/ daemon'[d] = Stopped
      BY <1>2, <2>2, <3>2, PollingType
    <3>3. CASE daemon'[d].at = "failing" /\ daemon'[d].job = daemon[d].job
               /\ daemon'[d].done = daemon[d].done
      <4>1. Backed(daemon[d].job, daemon[d].done)
        BY DEF TInv, Sound
      <4> QED
        BY <3>3, <4>1, PullsStay DEF Sound, Backed
    <3> QED
      BY <2>1, <3>1, <3>2, <3>3
  <2>4. \A c \in sent' : Backed(c.job, c.done)'
    BY <2>2, BackedStays DEF TInv
  <2>5. RecordIsTrue'
    <3>1. CASE ~leased
      BY <2>1, <3>1, SameResults DEF TInv
    <3>2. CASE leased
      <4>1. Backed(m.job, m.done)'
        BY BackedStays DEF TInv
      <4> QED
        BY <2>1, <3>2, <4>1, PullsStay DEF TInv, RecordIsTrue, Backed
    <3> QED
      BY <3>1, <3>2
  <2> QED
    BY <2>3, <2>4, <2>5 DEF TInv
<1>10. CASE Tick
  <2>1. SameJobs
    BY <1>10 DEF Tick, IInv, TypeOK, JobRecord
  <2> QED
    BY <1>4, <1>10, <2>1 DEF Tick
<1>11. CASE UNCHANGED vars \/ \E m \in sent : RequestLost(m)
  BY <1>4, <1>11 DEF vars, RequestLost
<1> QED
  BY <1>5, <1>6, <1>9, <1>10, <1>11, <1>12 DEF Next

(* A job recorded as published was validated and executed, and its pull      *)
(* request is there.                                                         *)
THEOREM TrueRecords == Spec => []RecordIsTrue
<1>1. Init => TInv
  BY DEF Init, TInv, Sound, Backed, RecordIsTrue, Stopped, Jobless
<1>2. TInv => RecordIsTrue
  BY DEF TInv
<1> QED
  BY <1>1, <1>2, TruthInv, Inductive, PTL DEF Spec

===============================================================================
