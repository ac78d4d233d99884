-------------------------------- MODULE AiWorker --------------------------------
(***************************************************************************)
(* AI worker jobs: the server's routes and their table                     *)
(* (src/apps/server/src/index.ts, postgres.ts), the daemon that leases and *)
(* reports them (src/apps/ai-worker/src/index.ts), and the repair it runs  *)
(* and publishes (workflow.ts, repair.ts).                                 *)
(*                                                                         *)
(* A daemon registers under a new worker id whenever it starts, and a job  *)
(* names the worker id it is for.  Each table operation is a transaction.  *)
(* The daemon's last two calls for a job, complete in the try block and    *)
(* complete in its catch block, are messages: the answer may fail to come  *)
(* while the request is still on its way.  Branches are GitHub's.          *)
(*                                                                         *)
(* Abstractions.  Jobs are numbered in the order of their creation.  Audit *)
(* events and heartbeats are left out: the one is not read here, the other *)
(* only fails as a daemon may stop anyway.  Other clients call neither     *)
(* lease nor complete.                                                     *)
(***************************************************************************)
EXTENDS Naturals

CONSTANTS
  Job,            \* the jobs that may be created
  Daemon,         \* the processes
  MaxWorkers,     \* bound: how many worker ids are registered
  RequestOf,      \* [Job -> Request]: requestId of the job's AgentRequest
  Request,
  Repair,         \* the jobs that execute the repair workflow
  Publisher,      \* the daemons that have a publisher and whose policy allows it
  LeaseDuration,  \* 5 minutes, in ticks
  None

ASSUME AiWorkerAssumption ==
  /\ Job \subseteq Nat
  /\ RequestOf \in [Job -> Request]
  /\ Repair \subseteq Job
  /\ Publisher \subseteq Daemon
  /\ MaxWorkers \in Nat
  /\ LeaseDuration \in Nat \ {0}
  /\ None \notin Job

VARIABLES
  registered,     \* the worker ids are 1 .. registered
  job,            \* ai_worker_jobs: [Job -> JobRecord or None]
  daemon,         \* [Daemon -> DaemonState]
  workspace,      \* [Daemon -> SUBSET Request]: directories under rootDirectory
  branch,         \* [Request -> Branch]: testpilot/repair/<requestId>
  sent            \* complete requests on their way

vars == <<registered, job, daemon, workspace, branch, sent>>

Final == {"completed", "failed"}
Check == {"validate", "run", "publish"}   \* the parts of a RepairWorkflowResult

JobRecord ==
  [worker : Nat, status : {"queued", "leased"} \cup Final, attempt : Nat,
   left : 0 .. LeaseDuration,    \* time until lease_expires_at
   done : SUBSET Check]          \* result: what passed

ASSUME NoneAssumption == None \notin JobRecord

Working == {"prepare", "agent", "apply", "validate", "run", "branch", "commit", "pull"}
Reporting == {"report", "awaiting", "failing", "awaitingLast"}

DaemonState ==
  [at : {"stopped", "polling"} \cup Working \cup Reporting,
   id : Nat, job : Job \cup {None}, status : Final, done : SUBSET Check]

Branch == [by : Job \cup {None}, commits : SUBSET Job, pulls : SUBSET Job]

Complete ==
  [by : Nat, job : Job, status : Final, done : SUBSET Check,
   last : BOOLEAN]               \* whether the catch block sent it

TypeOK ==
  /\ registered \in 0 .. MaxWorkers
  /\ job \in [Job -> JobRecord \cup {None}]
  /\ daemon \in [Daemon -> DaemonState]
  /\ workspace \in [Daemon -> SUBSET Request]
  /\ branch \in [Request -> Branch]
  /\ sent \subseteq Complete

Jobless(at, id) == [at |-> at, id |-> id, job |-> None, status |-> "failed", done |-> {}]

Stopped == Jobless("stopped", 0)
Polling(id) == Jobless("polling", id)

Init ==
  /\ registered = 0
  /\ job = [k \in Job |-> None]
  /\ daemon = [d \in Daemon |-> Stopped]
  /\ workspace = [d \in Daemon |-> {}]
  /\ branch = [r \in Request |-> [by |-> None, commits |-> {}, pulls |-> {}]]
  /\ sent = {}

-------------------------------------------------------------------------------
(* The table. *)

(* POST /ai-worker-jobs, for any worker that has ever registered. *)
CreateJob(k, w) ==
  /\ job[k] = None
  /\ \A j \in Job : j < k => job[j] # None
  /\ w \in 1 .. registered
  /\ job' = [job EXCEPT ![k] =
               [worker |-> w, status |-> "queued", attempt |-> 0, left |-> 0, done |-> {}]]
  /\ UNCHANGED <<registered, daemon, workspace, branch, sent>>

InState(w, status) == {k \in Job : job[k] # None /\ job[k].worker = w /\ job[k].status = status}

(* The leases of worker w whose lease_expires_at has passed. *)
Overdue(w) == {k \in InState(w, "leased") : job[k].left = 0}

(* Mutant: the worker_id of the job is not compared. *)
CandidatesOfAll(w) == UNION {InState(v, "queued") \cup Overdue(v) : v \in 1 .. registered}

Candidates(w) == InState(w, "queued") \cup Overdue(w)

Take(k, S) ==
  job' = [j \in Job |->
            IF j = k THEN [job[k] EXCEPT !.status = "leased", !.attempt = @ + 1,
                                         !.left = LeaseDuration]
            ELSE IF j \in S THEN [job[j] EXCEPT !.status = "queued"] ELSE job[j]]

Tick ==
  /\ job' = [k \in Job |-> IF job[k] # None /\ job[k].status = "leased" /\ job[k].left > 0
                             THEN [job[k] EXCEPT !.left = @ - 1] ELSE job[k]]
  /\ UNCHANGED <<registered, daemon, workspace, branch, sent>>

-------------------------------------------------------------------------------
(* The daemon. *)

Goto(d, step) == daemon' = [daemon EXCEPT ![d].at = step]

Passed(d, check, step) ==
  daemon' = [daemon EXCEPT ![d] =
               [daemon[d] EXCEPT !.at = step, !.done = daemon[d].done \cup {check}]]

PassedLast(d, check) ==
  daemon' = [daemon EXCEPT ![d] =
               [daemon[d] EXCEPT !.at = "report", !.status = "completed",
                                 !.done = daemon[d].done \cup {check}]]

(* The job is reported with the agent's own status, whatever checks failed.  *)
ToReport(d, status) ==
  daemon' = [daemon EXCEPT ![d] = [@ EXCEPT !.at = "report", !.status = status]]

Start(d) ==
  /\ daemon[d].at = "stopped"
  /\ registered < MaxWorkers
  /\ registered' = registered + 1
  /\ daemon' = [daemon EXCEPT ![d] = Polling(registered + 1)]
  /\ UNCHANGED <<job, workspace, branch, sent>>

(* The oldest job waiting is leased after the sweep; an answer that does not *)
(* come ends the daemon, outside its try block.                              *)
Lease(d) ==
  LET w == daemon[d].id IN
  /\ daemon[d].at = "polling"
  /\ \E k \in Candidates(w) :
       /\ \A j \in Candidates(w) : k <= j
       /\ Take(k, Overdue(w))
       /\ \/ daemon' = [daemon EXCEPT ![d] = [@ EXCEPT !.at = "prepare", !.job = k]]
          \/ daemon' = [daemon EXCEPT ![d] = Stopped]
  /\ UNCHANGED <<registered, workspace, branch, sent>>

(* git clone refuses the directory of an earlier attempt; clone, fetch and   *)
(* checkout may fail, as may the request's validation before them.           *)
Prepare(d) ==
  LET r == RequestOf[daemon[d].job] IN
  /\ daemon[d].at = "prepare"
  /\ \/ r \notin workspace[d] /\ Goto(d, "agent")
        /\ workspace' = [workspace EXCEPT ![d] = @ \cup {r}]
     \/ Goto(d, "failing") /\ \E dirs \in {workspace[d], workspace[d] \cup {r}} :
                                 workspace' = [workspace EXCEPT ![d] = dirs]
  /\ UNCHANGED <<registered, job, branch, sent>>

(* The agent's result; only a completed repair has a proposal to apply.      *)
RunAgent(d) ==
  /\ daemon[d].at = "agent"
  /\ \/ \E status \in Final : ToReport(d, status)
     \/ daemon[d].job \in Repair /\ Goto(d, "apply")
  /\ UNCHANGED <<registered, job, workspace, branch, sent>>

Apply(d) ==
  /\ daemon[d].at = "apply"
  /\ Goto(d, "validate") \/ Goto(d, "failing")
  /\ UNCHANGED <<registered, job, workspace, branch, sent>>

Validate(d) ==
  /\ daemon[d].at = "validate"
  /\ Passed(d, "validate", "run") \/ ToReport(d, "completed")
  /\ UNCHANGED <<registered, job, workspace, branch, sent>>

(* Mutant: a failed execution does not end the workflow. *)
RunTestUnchecked(d) ==
  /\ daemon[d].at = "run"
  /\ \/ d \notin Publisher /\ ToReport(d, "completed")
     \/ d \in Publisher /\ Goto(d, "branch")
  /\ UNCHANGED <<registered, job, workspace, branch, sent>>

RunTest(d) ==
  /\ daemon[d].at = "run"
  /\ \/ ToReport(d, "completed")
     \/ d \in Publisher /\ Passed(d, "run", "branch")
     \/ d \notin Publisher /\ PassedLast(d, "run")
  /\ UNCHANGED <<registered, job, workspace, branch, sent>>

-------------------------------------------------------------------------------
(* publishRepairProposal: three requests to GitHub, each of which may fail   *)
(* with or without its effect.                                               *)

(* Mutant: a branch that exists already is taken for this proposal's. *)
CreateBranchOrReuse(d) ==
  LET k == daemon[d].job  r == RequestOf[k] IN
  /\ daemon[d].at = "branch"
  /\ \/ /\ branch' = IF branch[r].by = None THEN [branch EXCEPT ![r].by = k] ELSE branch
        /\ Goto(d, "commit")
     \/ Goto(d, "failing") /\ UNCHANGED branch
  /\ UNCHANGED <<registered, job, workspace, sent>>

CreateBranch(d) ==
  LET k == daemon[d].job  r == RequestOf[k] IN
  /\ daemon[d].at = "branch"
  /\ \/ /\ branch[r].by = None
        /\ branch' = [branch EXCEPT ![r].by = k]
        /\ Goto(d, "commit") \/ Goto(d, "failing")
     \/ Goto(d, "failing") /\ UNCHANGED branch
  /\ UNCHANGED <<registered, job, workspace, sent>>

CommitFile(d) ==
  LET k == daemon[d].job  r == RequestOf[k] IN
  /\ daemon[d].at = "commit"
  /\ \/ /\ branch' = [branch EXCEPT ![r].commits = @ \cup {k}]
        /\ Goto(d, "pull") \/ Goto(d, "failing")
     \/ Goto(d, "failing") /\ UNCHANGED branch
  /\ UNCHANGED <<registered, job, workspace, sent>>

CreatePullRequest(d) ==
  LET k == daemon[d].job  r == RequestOf[k] IN
  /\ daemon[d].at = "pull"
  /\ \/ /\ branch' = [branch EXCEPT ![r].pulls = @ \cup {k}]
        /\ PassedLast(d, "publish") \/ Goto(d, "failing")
     \/ Goto(d, "failing") /\ UNCHANGED branch
  /\ UNCHANGED <<registered, job, workspace, sent>>

-------------------------------------------------------------------------------
(* complete, in the try block and in its catch block. *)

Send(d, status, done, last) ==
  sent' = sent \cup {[by |-> daemon[d].id, job |-> daemon[d].job,
                      status |-> status, done |-> done, last |-> last]}

Report(d) ==
  /\ daemon[d].at = "report"
  /\ Send(d, daemon[d].status, daemon[d].done, FALSE)
  /\ Goto(d, "awaiting")
  /\ UNCHANGED <<registered, job, workspace, branch>>

ReportFailure(d) ==
  /\ daemon[d].at = "failing"
  /\ Send(d, "failed", {}, TRUE)
  /\ Goto(d, "awaitingLast")
  /\ UNCHANGED <<registered, job, workspace, branch>>

(* An error answer, or none: the catch block, and after it the daemon's end. *)
Refused(d) == IF daemon[d].at = "awaiting" THEN [daemon[d] EXCEPT !.at = "failing"] ELSE Stopped

(* Mutant: a report without an answer is sent again. *)
AnswerLostResent(d) ==
  /\ daemon[d].at \in {"awaiting", "awaitingLast"}
  /\ Goto(d, IF daemon[d].at = "awaiting" THEN "report" ELSE "failing")
  /\ UNCHANGED <<registered, job, workspace, branch, sent>>

AnswerLost(d) ==
  /\ daemon[d].at \in {"awaiting", "awaitingLast"}
  /\ daemon' = [daemon EXCEPT ![d] = Refused(d)]
  /\ UNCHANGED <<registered, job, workspace, branch, sent>>

Waits(d, m) ==
  /\ daemon[d].id = m.by
  /\ daemon[d].job = m.job
  /\ daemon[d].at = IF m.last THEN "awaitingLast" ELSE "awaiting"

(* Mutant: a job that has ended is updated again. *)
HandleCompleteAlways(m) ==
  /\ sent' = sent \ {m}
  /\ job' = [job EXCEPT ![m.job] = [@ EXCEPT !.status = m.status, !.left = 0, !.done = m.done]]
  /\ daemon' = [d \in Daemon |-> IF Waits(d, m) THEN Polling(m.by) ELSE daemon[d]]
  /\ UNCHANGED <<registered, workspace, branch>>

HandleComplete(m) ==
  LET leased == job[m.job].status = "leased" IN
  /\ sent' = sent \ {m}
  /\ job' = IF leased THEN [job EXCEPT ![m.job] = [@ EXCEPT !.status = m.status, !.left = 0,
                                                            !.done = m.done]]
            ELSE job
  /\ daemon' = [d \in Daemon |-> IF ~Waits(d, m) THEN daemon[d]
                                 ELSE IF leased THEN Polling(m.by) ELSE Refused(d)]
  /\ UNCHANGED <<registered, workspace, branch>>

RequestLost(m) ==
  /\ sent' = sent \ {m}
  /\ UNCHANGED <<registered, job, daemon, workspace, branch>>

(* The process ends; the directory is the pod's, so it may be gone with it.  *)
Die(d) ==
  /\ daemon[d].at # "stopped"
  /\ daemon' = [daemon EXCEPT ![d] = Stopped]
  /\ \E dirs \in {workspace[d], {}} : workspace' = [workspace EXCEPT ![d] = dirs]
  /\ UNCHANGED <<registered, job, branch, sent>>

-------------------------------------------------------------------------------

Work(d) ==
  \/ Lease(d) \/ Prepare(d) \/ RunAgent(d) \/ Apply(d) \/ Validate(d) \/ RunTest(d)
  \/ CreateBranch(d) \/ CommitFile(d) \/ CreatePullRequest(d)
  \/ Report(d) \/ ReportFailure(d) \/ AnswerLost(d)

Next ==
  \/ \E k \in Job, w \in 1 .. registered : CreateJob(k, w)
  \/ \E d \in Daemon : Start(d) \/ Work(d) \/ Die(d)
  \/ \E m \in sent : HandleComplete(m) \/ RequestLost(m)
  \/ Tick

Spec == Init /\ [][Next]_vars

(* A daemon that lives polls every few seconds; commands and requests end,   *)
(* because runCommand has a timeout and fetch gives up.                      *)
FairSpec == Spec /\ \A d \in Daemon : WF_vars(Work(d))

-------------------------------------------------------------------------------
(* Properties. *)

(* A job is executed once at most, whatever happens to daemons and requests: *)
(* the sweep of expired leases finds nothing of a daemon that still polls,   *)
(* and nobody else polls under its id.                                       *)
AttemptedOnce == \A k \in Job : job[k] # None => job[k].attempt <= 1

(* What is recorded of a job that has ended never changes, although a report *)
(* may arrive after the one of the catch block, or the other way round.      *)
RecordedOnce ==
  [][\A k \in Job : job[k] # None /\ job[k].status \in Final => job'[k] = job[k]]_vars

(* A job recorded as published was validated and executed, and its pull      *)
(* request is there.                                                         *)
RecordIsTrue ==
  \A k \in Job :
    job[k] # None /\ "publish" \in job[k].done =>
      /\ {"validate", "run"} \subseteq job[k].done
      /\ k \in branch[RequestOf[k]].pulls

(* A branch carries the proposal of the one job that created it: two jobs    *)
(* with one requestId never mix their commits and pull requests.             *)
ProposalsAreSeparate ==
  \A r \in Request :
    /\ branch[r].commits \cup branch[r].pulls \subseteq {branch[r].by}
    /\ branch[r].pulls \subseteq branch[r].commits

(* A job whose daemon keeps running ends. *)
Serves(d, k) == daemon[d].at # "stopped" /\ job[k] # None /\ job[k].worker = daemon[d].id

JobsEnd ==
  \A d \in Daemon, k \in Job :
    Serves(d, k) ~> ~Serves(d, k) \/ job[k].status \in Final

===============================================================================
