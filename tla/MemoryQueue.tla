------------------------------ MODULE MemoryQueue ------------------------------
(***************************************************************************)
(* MemoryExecutionQueue (src/packages/queue-adapter/src/index.ts) over one *)
(* Scheduler (src/packages/scheduler/src/index.ts) per organization: the   *)
(* queue of a server that has no REDIS_URL.                                *)
(*                                                                         *)
(* Every method is async but awaits nothing, so each call is one atomic    *)
(* step of Node's event loop: one action per method.                       *)
(*                                                                         *)
(* Abstractions.  A Job is a submission: its payload never changes, only   *)
(* which Map holds it.  The schedulers of all organizations share the      *)
(* variables below, a job belonging to the scheduler of its organization.  *)
(* A lease is kept as the time it still has (expiresAt - now), which makes *)
(* a clock unnecessary: Tick lets time pass.  Array.sort is stable, so     *)
(* jobs equal in priority and createdAt leave in Map order; here any of    *)
(* them may leave first.                                                   *)
(***************************************************************************)
EXTENDS Integers, FiniteSets

CONSTANTS
  Org, Runner, Job, JobId,
  OrgOf,            \* [Job -> Org]: job.organizationId
  IdOf,             \* [Job -> JobId]: job.jobId, chosen by the client
  Priority,         \* [Job -> Int]: job.priority ?? 0
  CreatedAt,        \* [Job -> Int]: job.createdAt
  Compatible,       \* the <<job, runner>> for which isCompatible holds
  MaxConcurrency,   \* [Runner -> Int]: capabilities.maxConcurrency
  LeaseDuration,    \* leaseDurationMs, in ticks
  None              \* undefined: no organization, no lease, no record

ASSUME MemoryQueueAssumption ==
  /\ IsFiniteSet(Job)
  /\ OrgOf \in [Job -> Org]
  /\ IdOf \in [Job -> JobId]
  /\ Priority \in [Job -> Int]
  /\ CreatedAt \in [Job -> Int]
  /\ Compatible \subseteq Job \X Runner
  /\ MaxConcurrency \in [Runner -> Int]
  /\ LeaseDuration \in Nat \ {0}

ASSUME NoneAssumption ==
  /\ None \notin Org
  /\ None \notin Runner
  /\ None \notin [runner : Runner, left : 0 .. LeaseDuration]
  /\ None \notin [job : Job, status : {"queued", "passed", "failed", "cancelled"}]

VARIABLES
  runnerOrg,   \* runners, organizations: the organization of each runner
  silence,     \* time since each runner's heartbeatAt, up to LeaseDuration
  queued,      \* Scheduler.queued, of all organizations
  lease,       \* Scheduler.leases, of all organizations
  record       \* jobs: what getJob answers for an id that is not leased

vars == <<runnerOrg, silence, queued, lease, record>>

CompletionStatus == {"passed", "failed", "cancelled"}

Lease == [runner : Runner, left : 0 .. LeaseDuration]

Record == [job : Job, status : {"queued"} \cup CompletionStatus]

TypeOK ==
  /\ runnerOrg \in [Runner -> Org \cup {None}]
  /\ silence \in [Runner -> 0 .. LeaseDuration]
  /\ queued \in SUBSET Job
  /\ lease \in [Job -> Lease \cup {None}]
  /\ record \in [JobId -> Record \cup {None}]

Leased == {k \in Job : lease[k] # None}

(* The two jobs would be the same key of the same Scheduler's Maps. *)
SameKey(j, k) == OrgOf[j] = OrgOf[k] /\ IdOf[j] = IdOf[k]

(* Mutant: the sweep compares with < in the wrong unit and is a tick early. *)
ExpiredEarly(org) == {k \in Leased : OrgOf[k] = org /\ lease[k].left <= 1}

(* The leases whose expiresAt is not after now, in one organization. *)
Expired(org) == {k \in Leased : OrgOf[k] = org /\ lease[k].left = 0}

(* The leases that count against the runner's limit once S has expired. *)
HeldBeyond(r, S) == {k \in Leased \ S : lease[k].runner = r}

(* Mutant: activeLeases > limit where the code has >=. *)
LimitPlusOne(r) == IF MaxConcurrency[r] > 1 THEN MaxConcurrency[r] + 1 ELSE 2

Limit(r) == IF MaxConcurrency[r] > 1 THEN MaxConcurrency[r] ELSE 1

(* j is ahead of k in the sorted array: higher priority, then older. *)
Ahead(j, k) ==
  \/ Priority[j] > Priority[k]
  \/ Priority[j] = Priority[k] /\ CreatedAt[j] < CreatedAt[k]

(* Mutant: the capability filter is dropped. *)
CandidatesUnfiltered(r, waiting) == {k \in waiting : OrgOf[k] = runnerOrg[r]}

Candidates(r, waiting) ==
  {k \in waiting : OrgOf[k] = runnerOrg[r] /\ <<k, r>> \in Compatible}

(* Mutant: sorted by age alone. *)
FirstOldest(S) == {k \in S : \A j \in S : CreatedAt[j] >= CreatedAt[k]}

(* compatible[0] of leaseNext. *)
First(S) == {k \in S : \A j \in S : ~Ahead(j, k)}

-------------------------------------------------------------------------------

Init ==
  /\ runnerOrg = [r \in Runner |-> None]
  /\ silence = [r \in Runner |-> 0]
  /\ queued = {}
  /\ lease = [k \in Job |-> None]
  /\ record = [i \in JobId |-> None]

(* registerRunner: the id is a fresh UUID, so a runner registers once. *)
RegisterRunner(org, r) ==
  /\ runnerOrg[r] = None
  /\ runnerOrg' = [runnerOrg EXCEPT ![r] = org]
  /\ silence' = [silence EXCEPT ![r] = 0]
  /\ UNCHANGED <<queued, lease, record>>

(* heartbeat: refreshes the runner's heartbeatAt and nothing else. *)
Heartbeat(org, r) ==
  /\ runnerOrg[r] = org
  /\ silence' = [silence EXCEPT ![r] = 0]
  /\ UNCHANGED <<runnerOrg, queued, lease, record>>

(* enqueue: refused while the id waits or is held in the organization. *)
Enqueue(k) ==
  /\ \A j \in queued \cup Leased : ~SameKey(j, k)
  /\ queued' = queued \cup {k}
  /\ record' = [record EXCEPT ![IdOf[k]] = [job |-> k, status |-> "queued"]]
  /\ UNCHANGED <<runnerOrg, silence, lease>>

(* Mutant: a runner at its limit returns before the sweep. *)
LeaseJobLimitFirst(r) ==
  LET expired == Expired(runnerOrg[r])
      waiting == queued \cup expired
      offer   == Candidates(r, waiting)
  IN /\ runnerOrg[r] # None
     /\ Cardinality(HeldBeyond(r, {})) < Limit(r)
     /\ \/ /\ offer = {}
           /\ queued' = waiting
           /\ lease' = [k \in Job |-> IF k \in expired THEN None ELSE lease[k]]
        \/ \E next \in First(offer) :
             /\ queued' = waiting \ {next}
             /\ lease' = [k \in Job |->
                            IF k = next
                              THEN [runner |-> r, left |-> LeaseDuration]
                            ELSE IF k \in expired THEN None ELSE lease[k]]
     /\ UNCHANGED <<runnerOrg, silence, record>>

(* lease: expireLeases and then leaseNext in the runner's organization.  The *)
(* expired leases are requeued even when the runner then gets nothing.       *)
LeaseJob(r) ==
  LET expired == Expired(runnerOrg[r])
      waiting == queued \cup expired
      offer   == IF Cardinality(HeldBeyond(r, expired)) >= Limit(r) THEN {}
                 ELSE Candidates(r, waiting)
  IN /\ runnerOrg[r] # None
     /\ \/ /\ offer = {}
           /\ queued' = waiting
           /\ lease' = [k \in Job |-> IF k \in expired THEN None ELSE lease[k]]
        \/ \E next \in First(offer) :
             /\ queued' = waiting \ {next}
             /\ lease' = [k \in Job |->
                            IF k = next
                              THEN [runner |-> r, left |-> LeaseDuration]
                            ELSE IF k \in expired THEN None ELSE lease[k]]
     /\ UNCHANGED <<runnerOrg, silence, record>>

(* complete: whoever calls it, it ends the lease the job has now. *)
Complete(k, status) ==
  /\ k \in Leased
  /\ lease' = [lease EXCEPT ![k] = None]
  /\ record' = [record EXCEPT ![IdOf[k]] = [job |-> k, status |-> status]]
  /\ UNCHANGED <<runnerOrg, silence, queued>>

(* Mutant: a held job is recorded as cancelled but keeps its lease. *)
CancelKeepsLease(k) ==
  /\ k \in queued \cup Leased
  /\ record[IdOf[k]] # None
  /\ OrgOf[record[IdOf[k]].job] = OrgOf[k]
  /\ queued' = queued \ {k}
  /\ record' = [record EXCEPT ![IdOf[k]] = [job |-> k, status |-> "cancelled"]]
  /\ UNCHANGED <<runnerOrg, silence, lease>>

(* cancel: the organization is checked on the record, which another          *)
(* organization's job of the same id may have overwritten.                   *)
Cancel(k) ==
  /\ k \in queued \cup Leased
  /\ record[IdOf[k]] # None
  /\ OrgOf[record[IdOf[k]].job] = OrgOf[k]
  /\ queued' = queued \ {k}
  /\ lease' = IF k \in queued THEN lease ELSE [lease EXCEPT ![k] = None]
  /\ record' = [record EXCEPT ![IdOf[k]] = [job |-> k, status |-> "cancelled"]]
  /\ UNCHANGED <<runnerOrg, silence>>

(* Time passes, for the leases and for the runners' last heartbeats. *)
Tick ==
  /\ lease' = [k \in Job |->
                 IF k \in Leased /\ lease[k].left > 0
                   THEN [lease[k] EXCEPT !.left = @ - 1] ELSE lease[k]]
  /\ silence' = [r \in Runner |->
                   IF runnerOrg[r] # None /\ silence[r] < LeaseDuration
                     THEN silence[r] + 1 ELSE silence[r]]
  /\ UNCHANGED <<runnerOrg, queued, record>>

Next ==
  \/ \E org \in Org, r \in Runner : RegisterRunner(org, r) \/ Heartbeat(org, r)
  \/ \E r \in Runner : LeaseJob(r)
  \/ \E k \in Job : Enqueue(k) \/ Cancel(k)
  \/ \E k \in Job, status \in CompletionStatus : Complete(k, status)
  \/ Tick

Spec == Init /\ [][Next]_vars

(* A registered runner polls for ever (runRunnerLoop); nothing else is owed. *)
FairSpec == Spec /\ \A r \in Runner : WF_vars(LeaseJob(r))

-------------------------------------------------------------------------------
(* Properties. *)

(* No two organizations use the same job id (server-made ids are UUIDs).     *)
IdsSeparate == \A j, k \in Job : IdOf[j] = IdOf[k] => OrgOf[j] = OrgOf[k]

(* No two submissions use the same job id. *)
IdsUnique == \A j, k \in Job : IdOf[j] = IdOf[k] => j = k

(* A job is in one place at most: never waiting and held at once, and never  *)
(* beside another submission of the same id (enqueue's double lookup, and    *)
(* the moves between the two Maps in leaseNext and expireLeases).            *)
OnePlace ==
  /\ queued \cap Leased = {}
  /\ \A j, k \in queued \cup Leased : SameKey(j, k) => j = k

(* No runner ever holds more leases than its maxConcurrency, or than one if  *)
(* it registered with less.                                                  *)
ConcurrencyRespected ==
  \A r \in Runner :
    LET held == Cardinality(HeldBeyond(r, {}))
    IN  held > 1 => held <= MaxConcurrency[r]

(* The record getJob falls back on agrees with the scheduler: an accepted    *)
(* job without a final status is waiting or held (none is lost), and a job   *)
(* recorded as passed, failed or cancelled is neither.                       *)
RecordsAgree ==
  IdsSeparate =>
    \A k \in Job : k \in queued \cup Leased
                   <=> record[IdOf[k]] = [job |-> k, status |-> "queued"]

(* k gets a lease in this step, perhaps in place of one that has expired. *)
Granted(k) ==
  /\ lease'[k] # None
  /\ lease[k] # None => lease'[k].left > lease[k].left

(* A runner is given no job while one it could run, and that goes first,     *)
(* stays behind: the sweep comes before the choice, so a job whose lease has *)
(* just expired takes part in it.                                            *)
NoOvertaking ==
  [][\A k \in Job : Granted(k) =>
       \A j \in Candidates(lease'[k].runner, queued') : ~Ahead(j, k)]_vars

(* A lease ends early only by a completion or a cancellation, never by a     *)
(* requeue or by another runner's call while it still has time.              *)
LeaseHonoured ==
  [][\A k \in Leased : k \in queued' \/ Granted(k) => lease[k].left = 0]_vars

(* The refinement mapping to JobQueue. *)
PhaseOf(k) ==
  IF k \in queued THEN "queued"
  ELSE IF k \in Leased THEN "leased"
  ELSE IF record[IdOf[k]] # None /\ record[IdOf[k]].job = k THEN record[IdOf[k]].status
  ELSE "new"

HolderOf(k) == IF k \in Leased THEN lease[k].runner ELSE None

Contract == INSTANCE JobQueue WITH
  CanRun <- Compatible, NoRunner <- None,
  phase <- [k \in Job |-> PhaseOf(k)],
  holder <- [k \in Job |-> HolderOf(k)]

(* With ids that are never reused, the queue keeps the ExecutionQueue        *)
(* contract.                                                                 *)
KeepsContract == Contract!Spec

(* While a runner of the organization keeps polling, a lease that has run    *)
(* out does not stay: an abandoned job waits again, or is held anew.         *)
ExpiredIsReclaimed ==
  \A k \in Job :
    (k \in Expired(OrgOf[k]) /\ \E r \in Runner : runnerOrg[r] = OrgOf[k])
      ~> k \notin Expired(OrgOf[k])

(* docs/RUNNER_PROTOCOL.md:5 "reassignment after heartbeat loss": a lease    *)
(* passes to another runner only if its holder was silent for a whole lease. *)
ReassignedOnlyAfterHeartbeatLoss ==
  [][\A k \in Leased : Granted(k) /\ lease'[k].runner # lease[k].runner =>
       silence[lease[k].runner] = LeaseDuration]_vars

===============================================================================
