--------------------------- MODULE MemoryQueueProofs ---------------------------
(***************************************************************************)
(* What holds of MemoryQueue for every set of jobs, runners and            *)
(* organizations, every priority, limit and lease duration.                *)
(***************************************************************************)
EXTENDS MemoryQueue, FiniteSetTheorems, TLAPS

USE MemoryQueueAssumption, NoneAssumption

(* A lease of 0 ticks or more is not None, and neither is a record. *)
LEMMA LeaseIsSome ==
  ASSUME NEW r \in Runner
  PROVE  /\ [runner |-> r, left |-> LeaseDuration] \in Lease
         /\ [runner |-> r, left |-> LeaseDuration] # None
  BY DEF Lease

LEMMA RecordIsSome ==
  ASSUME NEW k \in Job, NEW status \in {"queued"} \cup CompletionStatus
  PROVE  /\ [job |-> k, status |-> status] \in Record
         /\ [job |-> k, status |-> status] # None
  BY DEF Record, CompletionStatus

(* Every variable keeps its type: in particular a lease's remaining time     *)
(* stays between zero and the lease duration of the Scheduler.               *)
THEOREM Typing == Spec => []TypeOK
<1>1. Init => TypeOK
  BY DEF Init, TypeOK
<1>2. TypeOK /\ [Next]_vars => TypeOK'
  <2> SUFFICES ASSUME TypeOK, [Next]_vars PROVE TypeOK'
    OBVIOUS
  <2> USE DEF TypeOK
  <2>1. ASSUME NEW org \in Org, NEW r \in Runner, RegisterRunner(org, r)
        PROVE TypeOK'
    BY <2>1 DEF RegisterRunner
  <2>2. ASSUME NEW org \in Org, NEW r \in Runner, Heartbeat(org, r)
        PROVE TypeOK'
    BY <2>2 DEF Heartbeat
  <2>3. ASSUME NEW r \in Runner, LeaseJob(r)
        PROVE TypeOK'
    <3> DEFINE expired == Expired(runnerOrg[r])
    <3>1. expired \in SUBSET Job
      BY DEF Expired, Leased
    <3>2. queued' \in SUBSET Job
      BY <2>3, <3>1 DEF LeaseJob
    <3>3. lease' \in [Job -> Lease \cup {None}]
      <4>1. CASE lease' = [k \in Job |-> IF k \in expired THEN None ELSE lease[k]]
        BY <4>1
      <4>2. CASE \E next \in Job :
                   lease' = [k \in Job |->
                               IF k = next THEN [runner |-> r, left |-> LeaseDuration]
                               ELSE IF k \in expired THEN None ELSE lease[k]]
        BY <4>2, LeaseIsSome
      <4>3. \A W \in SUBSET Job : First({}) = {} /\ First(Candidates(r, W)) \subseteq Job
        BY DEF First, Candidates
      <4>4. queued \cup expired \in SUBSET Job
        BY <3>1
      <4> HIDE DEF expired
      <4> QED
        BY <2>3, <4>1, <4>2, <4>3, <4>4 DEF LeaseJob, expired
    <3> QED
      BY <2>3, <3>2, <3>3 DEF LeaseJob
  <2>4. ASSUME NEW k \in Job, Enqueue(k)
        PROVE TypeOK'
    BY <2>4, RecordIsSome DEF Enqueue
  <2>5. ASSUME NEW k \in Job, Cancel(k)
        PROVE TypeOK'
    BY <2>5, RecordIsSome DEF Cancel, CompletionStatus
  <2>6. ASSUME NEW k \in Job, NEW status \in CompletionStatus, Complete(k, status)
        PROVE TypeOK'
    BY <2>6, RecordIsSome DEF Complete
  <2>7. CASE Tick
    <3>1. lease' \in [Job -> Lease \cup {None}]
      <4>1. ASSUME NEW k \in Leased, lease[k].left > 0
            PROVE  [lease[k] EXCEPT !.left = @ - 1] \in Lease
        BY <4>1 DEF Leased, Lease
      <4> QED
        BY <2>7, <4>1 DEF Tick
    <3>2. silence' \in [Runner -> 0 .. LeaseDuration]
      BY <2>7 DEF Tick
    <3> QED
      BY <2>7, <3>1, <3>2 DEF Tick
  <2>8. CASE UNCHANGED vars
    BY <2>8 DEF vars
  <2> QED
    BY <2>1, <2>2, <2>3, <2>4, <2>5, <2>6, <2>7, <2>8 DEF Next
<1> QED
  BY <1>1, <1>2, PTL DEF Spec

-------------------------------------------------------------------------------

(* What a lease call does to the two Maps: the expired leases are requeued   *)
(* and then either nothing or one waiting job is given to the runner.        *)
SweepOnly(r) ==
  LET expired == Expired(runnerOrg[r])
  IN /\ queued' = queued \cup expired
     /\ Leased' = Leased \ expired
     /\ \A k \in Leased' : lease'[k] = lease[k]

Gives(r, next) ==
  LET expired == Expired(runnerOrg[r])
      waiting == queued \cup expired
  IN /\ next \in First(Candidates(r, waiting))
     /\ Cardinality(HeldBeyond(r, expired)) < Limit(r)
     /\ queued' = waiting \ {next}
     /\ Leased' = (Leased \ expired) \cup {next}
     /\ lease'[next] = [runner |-> r, left |-> LeaseDuration]
     /\ \A k \in Leased' \ {next} : lease'[k] = lease[k]

(* The cardinalities compared by a lease call are natural numbers. *)
LEMMA HeldIsFinite ==
  ASSUME NEW r \in Runner, NEW S
  PROVE  /\ IsFiniteSet(HeldBeyond(r, S))
         /\ Cardinality(HeldBeyond(r, S)) \in Nat
         /\ Limit(r) \in Nat \ {0}
<1>1. HeldBeyond(r, S) \subseteq Job
  BY DEF HeldBeyond, Leased
<1>2. Limit(r) \in Nat \ {0}
  BY DEF Limit
<1> QED
  BY <1>1, <1>2, FS_Subset, FS_CardinalityType

LEMMA LeaseEffect ==
  ASSUME TypeOK, NEW r \in Runner, LeaseJob(r)
  PROVE  SweepOnly(r) \/ \E next \in Job : Gives(r, next)
<1> DEFINE expired == Expired(runnerOrg[r])
<1> DEFINE waiting == queued \cup expired
<1>1. waiting \subseteq Job
  BY DEF TypeOK, Expired, Leased
<1>2. CASE /\ queued' = waiting
           /\ lease' = [k \in Job |-> IF k \in expired THEN None ELSE lease[k]]
  <2>1. Leased' = Leased \ expired
    BY <1>2 DEF Leased
  <2>2. \A k \in Leased' : lease'[k] = lease[k]
    BY <1>2, <2>1 DEF Leased
  <2> QED
    BY <1>2, <2>1, <2>2 DEF SweepOnly
<1>3. ASSUME ~(Cardinality(HeldBeyond(r, expired)) >= Limit(r)),
             NEW next \in First(Candidates(r, waiting)),
             queued' = waiting \ {next},
             lease' = [k \in Job |->
                         IF k = next THEN [runner |-> r, left |-> LeaseDuration]
                         ELSE IF k \in expired THEN None ELSE lease[k]]
      PROVE  next \in Job /\ Gives(r, next)
  <2>1. next \in Job
    BY <1>1, <1>3 DEF First, Candidates
  <2>2. Leased' = (Leased \ expired) \cup {next}
    BY <1>3, <2>1, LeaseIsSome DEF Leased
  <2>3. lease'[next] = [runner |-> r, left |-> LeaseDuration]
    BY <1>3, <2>1
  <2>4. \A k \in Leased' \ {next} : lease'[k] = lease[k]
    BY <1>3, <2>2 DEF Leased
  <2>5. Cardinality(HeldBeyond(r, expired)) < Limit(r)
    BY <1>3, HeldIsFinite
  <2> QED
    BY <1>3, <2>1, <2>2, <2>3, <2>4, <2>5 DEF Gives
<1>4. CASE Cardinality(HeldBeyond(r, expired)) >= Limit(r)
  BY <1>2, <1>4 DEF LeaseJob, First
<1>5. CASE ~(Cardinality(HeldBeyond(r, expired)) >= Limit(r))
  BY <1>2, <1>3, <1>5 DEF LeaseJob
<1> QED
  BY <1>4, <1>5

-------------------------------------------------------------------------------

(* A job is never in both Maps of its Scheduler, and no two submissions of   *)
(* one id are in them together.                                              *)
THEOREM JobsAreInOnePlace == Spec => []OnePlace
<1>1. Init => OnePlace
  BY DEF Init, OnePlace, Leased
<1>2. TypeOK /\ OnePlace /\ [Next]_vars => OnePlace'
  <2> SUFFICES ASSUME TypeOK, OnePlace, [Next]_vars PROVE OnePlace'
    OBVIOUS
  <2>0. ASSUME queued' \cup Leased' \subseteq queued \cup Leased,
               queued' \cap Leased' = {}
        PROVE OnePlace'
    BY <2>0 DEF OnePlace, SameKey
  <2>1. ASSUME UNCHANGED <<queued, lease>> PROVE OnePlace'
    BY <2>1 DEF OnePlace, SameKey, Leased
  <2>2. ASSUME NEW r \in Runner, LeaseJob(r) PROVE OnePlace'
    <3>1. CASE SweepOnly(r)
      BY <2>0, <3>1 DEF SweepOnly, OnePlace, Expired
    <3>2. ASSUME NEW next \in Job, Gives(r, next) PROVE OnePlace'
      <4>1. next \in queued \cup Expired(runnerOrg[r])
        BY <3>2 DEF Gives, First, Candidates
      <4> QED
        BY <2>0, <3>2, <4>1 DEF Gives, OnePlace, Expired
    <3> QED
      BY <2>2, <3>1, <3>2, LeaseEffect
  <2>3. ASSUME NEW k \in Job, Enqueue(k) PROVE OnePlace'
    <3>1. queued' = queued \cup {k} /\ Leased' = Leased
      BY <2>3 DEF Enqueue, Leased
    <3>2. \A j \in queued \cup Leased : ~SameKey(j, k) /\ ~SameKey(k, j)
      BY <2>3 DEF Enqueue, SameKey
    <3>3. SameKey(k, k)
      BY DEF SameKey
    <3> QED
      BY <3>1, <3>2, <3>3 DEF OnePlace, SameKey
  <2>4. ASSUME NEW k \in Job, Cancel(k) PROVE OnePlace'
    <3>1. Leased' \subseteq Leased /\ queued' \subseteq queued
      BY <2>4 DEF Cancel, Leased, TypeOK
    <3> QED
      BY <2>0, <3>1 DEF OnePlace
  <2>5. ASSUME NEW k \in Job, NEW status \in CompletionStatus, Complete(k, status)
        PROVE OnePlace'
    <3>1. Leased' \subseteq Leased /\ queued' = queued
      BY <2>5 DEF Complete, Leased, TypeOK
    <3> QED
      BY <2>0, <3>1 DEF OnePlace
  <2>6. CASE Tick
    <3>1. Leased' \subseteq Leased /\ queued' = queued
      BY <2>6 DEF Tick, Leased
    <3> QED
      BY <2>0, <3>1 DEF OnePlace
  <2> QED
    BY <2>1, <2>2, <2>3, <2>4, <2>5, <2>6 DEF Next, RegisterRunner, Heartbeat, vars
<1> QED
  BY <1>1, <1>2, Typing, PTL DEF Spec

-------------------------------------------------------------------------------

(* Every runner is within the limit that lease checks. *)
WithinLimits == \A r \in Runner : Cardinality(HeldBeyond(r, {})) <= Limit(r)

(* No runner is ever over its limit: a lease call counts the leases that are *)
(* left after its own sweep and adds one only below the limit, and no other  *)
(* call adds a lease.                                                        *)
THEOREM LimitsAreRespected == Spec => []ConcurrencyRespected
<1>1. Init => WithinLimits
  <2> SUFFICES ASSUME Init, NEW r \in Runner
               PROVE  Cardinality(HeldBeyond(r, {})) <= Limit(r)
    BY DEF WithinLimits
  <2>1. HeldBeyond(r, {}) = {}
    BY DEF Init, HeldBeyond, Leased
  <2> QED
    BY <2>1, FS_EmptySet, HeldIsFinite
<1>2. TypeOK /\ WithinLimits /\ [Next]_vars => WithinLimits'
  <2> SUFFICES ASSUME TypeOK, WithinLimits, [Next]_vars, NEW r \in Runner
               PROVE  Cardinality(HeldBeyond(r, {})') <= Limit(r)
    BY DEF WithinLimits, Limit
  <2>0. ASSUME HeldBeyond(r, {})' \subseteq HeldBeyond(r, {})
        PROVE  Cardinality(HeldBeyond(r, {})') <= Limit(r)
    BY <2>0, HeldIsFinite, FS_Subset, FS_CardinalityType DEF WithinLimits
  <2>1. ASSUME UNCHANGED lease
        PROVE  Cardinality(HeldBeyond(r, {})') <= Limit(r)
    BY <2>0, <2>1 DEF HeldBeyond, Leased
  <2>2. ASSUME NEW q \in Runner, LeaseJob(q)
        PROVE  Cardinality(HeldBeyond(r, {})') <= Limit(r)
    <3> DEFINE expired == Expired(runnerOrg[q])
    <3>1. CASE SweepOnly(q)
      <4>1. HeldBeyond(r, {})' \subseteq HeldBeyond(r, {})
        BY <3>1 DEF SweepOnly, HeldBeyond
      <4> QED
        BY <2>0, <4>1
    <3>2. ASSUME NEW next \in Job, Gives(q, next), q # r
          PROVE  Cardinality(HeldBeyond(r, {})') <= Limit(r)
      <4>1. HeldBeyond(r, {})' \subseteq HeldBeyond(r, {})
        BY <3>2 DEF Gives, HeldBeyond
      <4> QED
        BY <2>0, <4>1
    <3>3. ASSUME NEW next \in Job, Gives(r, next), q = r
          PROVE  Cardinality(HeldBeyond(r, {})') <= Limit(r)
      <4>1. HeldBeyond(r, {})' \subseteq HeldBeyond(r, expired) \cup {next}
        BY <3>3 DEF Gives, HeldBeyond
      <4>2. /\ IsFiniteSet(HeldBeyond(r, expired) \cup {next})
            /\ Cardinality(HeldBeyond(r, expired) \cup {next})
                 <= Cardinality(HeldBeyond(r, expired)) + 1
        <5> HIDE DEF expired
        <5>1. /\ IsFiniteSet(HeldBeyond(r, expired))
              /\ Cardinality(HeldBeyond(r, expired)) \in Nat
          BY HeldIsFinite
        <5>2. /\ IsFiniteSet(HeldBeyond(r, expired) \cup {next})
              /\ \/ Cardinality(HeldBeyond(r, expired) \cup {next})
                      = Cardinality(HeldBeyond(r, expired))
                 \/ Cardinality(HeldBeyond(r, expired) \cup {next})
                      = Cardinality(HeldBeyond(r, expired)) + 1
          BY <5>1, FS_AddElement
        <5> QED
          BY <5>1, <5>2
      <4>3. Cardinality(HeldBeyond(r, {})')
              <= Cardinality(HeldBeyond(r, expired) \cup {next})
        BY <4>1, <4>2, FS_Subset
      <4>4. Cardinality(HeldBeyond(r, expired)) < Limit(r)
        BY <3>3 DEF Gives
      <4>5. /\ Cardinality(HeldBeyond(r, {})') \in Nat
            /\ Cardinality(HeldBeyond(r, expired) \cup {next}) \in Nat
        BY <4>1, <4>2, FS_Subset, FS_CardinalityType
      <4> QED
        BY <4>2, <4>3, <4>4, <4>5, HeldIsFinite
    <3> QED
      BY <2>2, <3>1, <3>2, <3>3, LeaseEffect
  <2>3. ASSUME NEW k \in Job, Cancel(k)
        PROVE  Cardinality(HeldBeyond(r, {})') <= Limit(r)
    <3>1. HeldBeyond(r, {})' \subseteq HeldBeyond(r, {})
      BY <2>3 DEF Cancel, HeldBeyond, Leased, TypeOK
    <3> QED
      BY <2>0, <3>1
  <2>4. ASSUME NEW k \in Job, NEW status \in CompletionStatus, Complete(k, status)
        PROVE  Cardinality(HeldBeyond(r, {})') <= Limit(r)
    <3>1. HeldBeyond(r, {})' \subseteq HeldBeyond(r, {})
      BY <2>4 DEF Complete, HeldBeyond, Leased, TypeOK
    <3> QED
      BY <2>0, <3>1
  <2>5. CASE Tick
    <3>1. \A k \in Leased' : k \in Leased /\ lease'[k].runner = lease[k].runner
      BY <2>5 DEF Tick, Leased, TypeOK, Lease
    <3>2. HeldBeyond(r, {})' \subseteq HeldBeyond(r, {})
      BY <3>1 DEF HeldBeyond
    <3> QED
      BY <2>0, <3>2
  <2> QED
    BY <2>1, <2>2, <2>3, <2>4, <2>5
    DEF Next, RegisterRunner, Heartbeat, Enqueue, vars
<1>3. WithinLimits => ConcurrencyRespected
  <2> SUFFICES ASSUME WithinLimits, NEW r \in Runner
               PROVE  \/ Cardinality(HeldBeyond(r, {})) <= 1
                      \/ Cardinality(HeldBeyond(r, {})) <= MaxConcurrency[r]
    BY HeldIsFinite DEF ConcurrencyRespected
  <2> QED
    BY DEF WithinLimits, Limit
<1> QED
  BY <1>1, <1>2, <1>3, Typing, PTL DEF Spec

-------------------------------------------------------------------------------

(* No accepted job is lost and no finished job runs: as long as two          *)
(* organizations never use the same id, the record of an id says "queued" of *)
(* exactly the jobs the schedulers still have.                               *)
THEOREM NoJobIsLost == Spec => []RecordsAgree
<1> DEFINE waits(k) == [job |-> k, status |-> "queued"]
<1>1. Init => RecordsAgree
  BY RecordIsSome DEF Init, RecordsAgree, Leased, CompletionStatus
<1>2. TypeOK /\ OnePlace /\ RecordsAgree /\ [Next]_vars => RecordsAgree'
  <2> SUFFICES ASSUME TypeOK, OnePlace, RecordsAgree, [Next]_vars, IdsSeparate,
                      NEW j \in Job
               PROVE  j \in queued' \cup Leased' <=> record'[IdOf[j]] = waits(j)
    BY DEF RecordsAgree, IdsSeparate
  <2>0. j \in queued \cup Leased <=> record[IdOf[j]] = waits(j)
    BY DEF RecordsAgree
  <2>1. ASSUME queued' \cup Leased' = queued \cup Leased, record' = record
        PROVE  j \in queued' \cup Leased' <=> record'[IdOf[j]] = waits(j)
    BY <2>0, <2>1
  <2>2. ASSUME UNCHANGED <<queued, lease, record>>
        PROVE  j \in queued' \cup Leased' <=> record'[IdOf[j]] = waits(j)
    BY <2>1, <2>2 DEF Leased
  <2>3. ASSUME NEW r \in Runner, LeaseJob(r)
        PROVE  j \in queued' \cup Leased' <=> record'[IdOf[j]] = waits(j)
    <3>1. record' = record
      BY <2>3 DEF LeaseJob
    <3>2. CASE SweepOnly(r)
      BY <2>1, <3>1, <3>2 DEF SweepOnly, Expired
    <3>3. ASSUME NEW next \in Job, Gives(r, next)
          PROVE  queued' \cup Leased' = queued \cup Leased
      <4>1. next \in queued \cup Expired(runnerOrg[r])
        BY <3>3 DEF Gives, First, Candidates
      <4> QED
        BY <3>3, <4>1 DEF Gives, Expired
    <3> QED
      BY <2>1, <2>3, <3>1, <3>2, <3>3, LeaseEffect
  <2>4. ASSUME NEW k \in Job, Enqueue(k)
        PROVE  j \in queued' \cup Leased' <=> record'[IdOf[j]] = waits(j)
    <3>1. Leased' = Leased
      BY <2>4 DEF Enqueue, Leased
    <3>2. CASE IdOf[j] = IdOf[k]
      <4>1. SameKey(j, k)
        BY <3>2 DEF SameKey, IdsSeparate
      <4>2. j \notin queued \cup Leased
        BY <2>4, <4>1 DEF Enqueue
      <4>3. record'[IdOf[j]] = waits(k)
        BY <2>4, <3>2 DEF Enqueue, TypeOK
      <4> QED
        BY <2>4, <3>1, <4>2, <4>3 DEF Enqueue
    <3>3. CASE IdOf[j] # IdOf[k]
      BY <2>0, <2>4, <3>1, <3>3 DEF Enqueue, TypeOK
    <3> QED
      BY <3>2, <3>3
  <2>5. ASSUME NEW k \in Job, NEW status \in CompletionStatus,
               k \in queued \cup Leased,
               queued' \cup Leased' = (queued \cup Leased) \ {k},
               record' = [record EXCEPT ![IdOf[k]] = [job |-> k, status |-> status]]
        PROVE  j \in queued' \cup Leased' <=> record'[IdOf[j]] = waits(j)
    <3>1. CASE IdOf[j] = IdOf[k]
      <4>1. SameKey(j, k)
        BY <3>1 DEF SameKey, IdsSeparate
      <4>2. j \in queued \cup Leased => j = k
        BY <2>5, <4>1 DEF OnePlace
      <4>3. record'[IdOf[j]].status # "queued"
        BY <2>5, <3>1 DEF TypeOK, CompletionStatus
      <4> QED
        BY <2>5, <4>2, <4>3
    <3>2. CASE IdOf[j] # IdOf[k]
      BY <2>0, <2>5, <3>2 DEF TypeOK
    <3> QED
      BY <3>1, <3>2
  <2>6. ASSUME NEW k \in Job, Cancel(k)
        PROVE  j \in queued' \cup Leased' <=> record'[IdOf[j]] = waits(j)
    <3>1. queued' \cup Leased' = (queued \cup Leased) \ {k}
      <4>1. CASE k \in queued
        BY <2>6, <4>1 DEF Cancel, Leased, OnePlace
      <4>2. CASE k \notin queued
        BY <2>6, <4>2 DEF Cancel, Leased, TypeOK
      <4> QED
        BY <4>1, <4>2
    <3> QED
      BY <2>5, <2>6, <3>1 DEF Cancel, CompletionStatus
  <2>7. ASSUME NEW k \in Job, NEW status \in CompletionStatus, Complete(k, status)
        PROVE  j \in queued' \cup Leased' <=> record'[IdOf[j]] = waits(j)
    <3>1. queued' \cup Leased' = (queued \cup Leased) \ {k}
      BY <2>7 DEF Complete, Leased, TypeOK, OnePlace
    <3> QED
      BY <2>5, <2>7, <3>1 DEF Complete
  <2>8. CASE Tick
    <3>1. queued' = queued /\ Leased' = Leased /\ record' = record
      <4>1. \A k \in Leased : [lease[k] EXCEPT !.left = @ - 1] # None
                                \/ ~(lease[k].left > 0)
        BY DEF Leased, TypeOK, Lease
      <4> QED
        BY <2>8, <4>1 DEF Tick, Leased
    <3> QED
      BY <2>1, <3>1
  <2> QED
    BY <2>2, <2>3, <2>4, <2>6, <2>7, <2>8 DEF Next, RegisterRunner, Heartbeat, vars
<1> QED
  BY <1>1, <1>2, Typing, JobsAreInOnePlace, PTL DEF Spec

-------------------------------------------------------------------------------

(* A step either leaves every lease as it is or older, or is a lease call.   *)
LEMMA GrantedByLeaseJob ==
  ASSUME TypeOK, [Next]_vars, NEW k \in Job, Granted(k)
  PROVE  \E r \in Runner : LeaseJob(r) /\ Gives(r, k)
<1>0. \A j \in Leased : lease[j].left \in Int
  BY DEF TypeOK, Leased, Lease
<1>1. ASSUME NEW r \in Runner, LeaseJob(r) PROVE Gives(r, k)
  <2>1. CASE SweepOnly(r)
    BY <1>0, <2>1 DEF SweepOnly, Granted, Leased
  <2>2. ASSUME NEW next \in Job, Gives(r, next) PROVE next = k
    BY <1>0, <2>2 DEF Gives, Granted, Leased
  <2> QED
    BY <1>1, <2>1, <2>2, LeaseEffect
<1>2. ASSUME \A j \in Leased' : j \in Leased /\ ~(lease'[j].left > lease[j].left)
      PROVE FALSE
  BY <1>2 DEF Granted, Leased
<1>3. ASSUME UNCHANGED lease PROVE FALSE
  BY <1>0, <1>2, <1>3 DEF Leased
<1>4. ASSUME NEW j \in Job, Cancel(j) PROVE FALSE
  BY <1>0, <1>2, <1>4 DEF Cancel, Leased, TypeOK
<1>5. ASSUME NEW j \in Job, NEW status \in CompletionStatus, Complete(j, status)
      PROVE FALSE
  BY <1>0, <1>2, <1>5 DEF Complete, Leased, TypeOK
<1>6. CASE Tick
  <2>1. \A j \in Leased' : j \in Leased /\ ~(lease'[j].left > lease[j].left)
    BY <1>0, <1>6 DEF Tick, Leased, TypeOK, Lease
  <2> QED
    BY <1>2, <2>1
<1> QED
  BY <1>1, <1>3, <1>4, <1>5, <1>6
  DEF Next, RegisterRunner, Heartbeat, Enqueue, vars

(* A lease that still has time is never requeued and never passed on: only   *)
(* the sweep requeues, and only a requeued or waiting job is given.          *)
THEOREM LeasesAreHonoured == Spec => LeaseHonoured
<1> DEFINE A == \A k \in Leased : k \in queued' \/ Granted(k) => lease[k].left = 0
<1>1. TypeOK /\ OnePlace /\ [Next]_vars => A
  <2> SUFFICES ASSUME TypeOK, OnePlace, [Next]_vars, NEW k \in Leased,
                      k \in queued' \/ Granted(k)
               PROVE  lease[k].left = 0
    OBVIOUS
  <2>0. k \in Job /\ k \notin queued
    BY DEF Leased, OnePlace
  <2>1. CASE Granted(k)
    <3>1. PICK r \in Runner : Gives(r, k)
      BY <2>0, <2>1, GrantedByLeaseJob
    <3> QED
      BY <2>0, <3>1 DEF Gives, First, Candidates, Expired
  <2>2. CASE k \in queued'
    <3>1. ASSUME queued' \subseteq queued PROVE FALSE
      BY <2>0, <2>2, <3>1
    <3>2. ASSUME NEW j \in Job, Enqueue(j) PROVE FALSE
      <4>1. k = j
        BY <2>0, <2>2, <3>2 DEF Enqueue
      <4> QED
        BY <3>2, <4>1 DEF Enqueue, SameKey
    <3>3. ASSUME NEW r \in Runner, LeaseJob(r) PROVE k \in Expired(runnerOrg[r])
      BY <2>0, <2>2, <3>3, LeaseEffect DEF SweepOnly, Gives
    <3> QED
      BY <3>1, <3>2, <3>3
      DEF Next, RegisterRunner, Heartbeat, Cancel, Complete, Tick, vars, Expired
  <2> QED
    BY <2>1, <2>2
<1>2. TypeOK /\ OnePlace /\ [Next]_vars => [A]_vars
  BY <1>1
<1> QED
  BY <1>2, Typing, JobsAreInOnePlace, PTL DEF Spec, LeaseHonoured

(* A lease call gives the runner the first of the jobs it could run, those   *)
(* whose lease has just expired included.                                    *)
THEOREM NoJobIsOvertaken == Spec => NoOvertaking
<1> DEFINE A == \A k \in Job : Granted(k) =>
                  \A j \in Candidates(lease'[k].runner, queued') : ~Ahead(j, k)
<1>1. TypeOK /\ [Next]_vars => A
  <2> SUFFICES ASSUME TypeOK, [Next]_vars, NEW k \in Job, Granted(k),
                      NEW j \in Candidates(lease'[k].runner, queued')
               PROVE  ~Ahead(j, k)
    OBVIOUS
  <2>1. PICK r \in Runner : Gives(r, k)
    BY GrantedByLeaseJob
  <2>2. lease'[k].runner = r
    BY <2>1 DEF Gives
  <2>3. j \in Candidates(r, queued \cup Expired(runnerOrg[r]))
    BY <2>1, <2>2 DEF Gives, Candidates
  <2> QED
    BY <2>1, <2>3 DEF Gives, First
<1>2. TypeOK /\ [Next]_vars => [A]_vars
  BY <1>1
<1> QED
  BY <1>2, Typing, PTL DEF Spec, NoOvertaking

-------------------------------------------------------------------------------

(* The refinement: every step of the queue is a step of the contract, or     *)
(* none.  It needs the invariants: the record of a job that is neither       *)
(* waiting nor held must not say "queued" (RecordsAgree), and a job must not *)
(* be waiting and held at once (OnePlace).                                   *)

LEMMA PhaseCases ==
  ASSUME TypeOK, OnePlace, RecordsAgree, IdsUnique, NEW k \in Job
  PROVE  /\ PhaseOf(k) = "queued" <=> k \in queued
         /\ PhaseOf(k) = "leased" <=> k \in Leased
         /\ k \notin queued \cup Leased => PhaseOf(k) \notin {"queued", "leased"}
<1>1. IdsSeparate
  BY DEF IdsUnique, IdsSeparate
<1>2. k \notin queued \cup Leased => record[IdOf[k]] # [job |-> k, status |-> "queued"]
  BY <1>1 DEF RecordsAgree
<1>3. ASSUME record[IdOf[k]] # None, record[IdOf[k]].job = k,
             k \notin queued \cup Leased
      PROVE  record[IdOf[k]].status \in CompletionStatus
  <2>1. record[IdOf[k]] \in Record
    BY <1>3 DEF TypeOK
  <2>2. record[IdOf[k]] = [job |-> k, status |-> record[IdOf[k]].status]
    BY <1>3, <2>1 DEF Record
  <2> QED
    BY <1>2, <1>3, <2>1, <2>2 DEF Record
<1> QED
  BY <1>3 DEF PhaseOf, OnePlace, CompletionStatus

LEMMA PhaseUnchanged ==
  ASSUME NEW k \in Job, k \in queued' <=> k \in queued, k \in Leased' <=> k \in Leased,
         record'[IdOf[k]] = record[IdOf[k]]
  PROVE  PhaseOf(k)' = PhaseOf(k)
  BY DEF PhaseOf

LEMMA HolderUnchanged ==
  ASSUME NEW k \in Job, k \in Leased' <=> k \in Leased,
         k \in Leased => lease'[k].runner = lease[k].runner
  PROVE  HolderOf(k)' = HolderOf(k)
  BY DEF HolderOf

LEMMA LeaseImplementsReclaim ==
  ASSUME TypeOK, OnePlace, RecordsAgree, IdsUnique, NEW r \in Runner, LeaseJob(r)
  PROVE  Contract!Next
<1> DEFINE S == Expired(runnerOrg[r])
<1>0. record' = record
  BY DEF LeaseJob
<1>1. S \in SUBSET Contract!JobsIn("leased")
  BY PhaseCases DEF Contract!JobsIn, Expired, Leased
<1>2. CASE SweepOnly(r)
  <2>1. \A k \in Job : PhaseOf(k)' = IF k \in S THEN "queued" ELSE PhaseOf(k)
    <3>1. ASSUME NEW k \in Job, k \notin S PROVE PhaseOf(k)' = PhaseOf(k)
      BY <1>0, <1>2, <3>1, PhaseUnchanged DEF SweepOnly
    <3> QED
      BY <1>2, <3>1 DEF SweepOnly, PhaseOf
  <2>2. \A k \in Job : HolderOf(k)' = IF k \in S THEN None ELSE HolderOf(k)
    <3>1. ASSUME NEW k \in Job, k \notin S PROVE HolderOf(k)' = HolderOf(k)
      BY <1>2, <3>1, HolderUnchanged DEF SweepOnly
    <3> QED
      BY <1>2, <3>1 DEF SweepOnly, HolderOf
  <2>3. Contract!Reclaim(S)
    BY <2>1, <2>2, Zenon DEF Contract!Reclaim
  <2> QED
    BY <1>1, <2>3 DEF Contract!Next
<1>3. ASSUME NEW next \in Job, Gives(r, next) PROVE Contract!Next
  <2>0. /\ next \in queued \cup S
        /\ <<next, r>> \in Compatible
    BY <1>3 DEF Gives, First, Candidates
  <2>1. \A k \in Job : PhaseOf(k)' = IF k = next THEN "leased"
                                     ELSE IF k \in S THEN "queued" ELSE PhaseOf(k)
    <3>1. ASSUME NEW k \in Job, k \notin S, k # next PROVE PhaseOf(k)' = PhaseOf(k)
      BY <1>0, <1>3, <3>1, PhaseUnchanged DEF Gives
    <3> QED
      BY <1>3, <3>1 DEF Gives, PhaseOf
  <2>2. \A k \in Job : HolderOf(k)' = IF k = next THEN r
                                      ELSE IF k \in S THEN None ELSE HolderOf(k)
    <3>1. ASSUME NEW k \in Job, k \notin S, k # next PROVE HolderOf(k)' = HolderOf(k)
      BY <1>3, <3>1, HolderUnchanged DEF Gives
    <3> QED
      BY <1>3, <3>1 DEF Gives, HolderOf
  <2>3. next \in Contract!JobsIn("queued") \cup S
    BY <2>0, PhaseCases DEF Contract!JobsIn
  <2>4. Contract!ReclaimAndGrant(S, next, r)
    BY <2>0, <2>1, <2>2, <2>3, Zenon DEF Contract!ReclaimAndGrant
  <2> QED
    BY <1>1, <2>4 DEF Contract!Next
<1> QED
  BY <1>2, <1>3, LeaseEffect

LEMMA EnqueueImplementsSubmit ==
  ASSUME TypeOK, OnePlace, RecordsAgree, IdsUnique, NEW k \in Job, Enqueue(k)
  PROVE  Contract!Next
<1>1. k \notin queued \cup Leased
  BY DEF Enqueue, SameKey
<1>2. queued' = queued \cup {k} /\ Leased' = Leased
  BY DEF Enqueue, Leased
<1>3. PhaseOf(k) \notin Contract!Live
  BY <1>1, PhaseCases DEF Contract!Live
<1>4. \A j \in Job : PhaseOf(j)' = IF j = k THEN "queued" ELSE PhaseOf(j)
  <2>1. ASSUME NEW j \in Job, j # k PROVE PhaseOf(j)' = PhaseOf(j)
    <3>1. record'[IdOf[j]] = record[IdOf[j]]
      BY <2>1 DEF Enqueue, TypeOK, IdsUnique
    <3> QED
      BY <1>2, <2>1, <3>1, PhaseUnchanged
  <2> QED
    BY <1>2, <2>1 DEF PhaseOf
<1>5. \A j \in Job : HolderOf(j)' = HolderOf(j)
  BY <1>2, HolderUnchanged DEF Enqueue
<1>6. Contract!Submit(k)
  BY <1>3, <1>4, <1>5, Zenon DEF Contract!Submit
<1> QED
  BY <1>6 DEF Contract!Next

(* Complete and Cancel both take one job out of the Maps and record a final  *)
(* status for it.                                                            *)
LEMMA EndingAJob ==
  ASSUME TypeOK, OnePlace, RecordsAgree, IdsUnique, NEW k \in Job,
         NEW status \in CompletionStatus,
         queued' = queued \ {k}, Leased' = Leased \ {k},
         \A j \in Leased' : lease'[j] = lease[j],
         record' = [record EXCEPT ![IdOf[k]] = [job |-> k, status |-> status]]
  PROVE  /\ \A j \in Job : PhaseOf(j)' = IF j = k THEN status ELSE PhaseOf(j)
         /\ \A j \in Job : HolderOf(j)' = IF j = k THEN None ELSE HolderOf(j)
<1>1. ASSUME NEW j \in Job, j # k
      PROVE  PhaseOf(j)' = PhaseOf(j) /\ HolderOf(j)' = HolderOf(j)
  <2>1. record'[IdOf[j]] = record[IdOf[j]]
    BY <1>1 DEF TypeOK, IdsUnique
  <2> QED
    BY <1>1, <2>1, PhaseUnchanged, HolderUnchanged
<1>2. PhaseOf(k)' = status
  <2>1. record'[IdOf[k]] = [job |-> k, status |-> status]
    BY DEF TypeOK
  <2> QED
    BY <2>1, RecordIsSome DEF PhaseOf
<1>3. HolderOf(k)' = None
  BY DEF HolderOf
<1> QED
  BY <1>1, <1>2, <1>3

LEMMA CompleteImplementsFinish ==
  ASSUME TypeOK, OnePlace, RecordsAgree, IdsUnique, NEW k \in Job,
         NEW status \in CompletionStatus, Complete(k, status)
  PROVE  Contract!Next
<1>1. k \in Leased /\ k \notin queued
  BY DEF Complete, OnePlace
<1>2. /\ queued' = queued \ {k}
      /\ Leased' = Leased \ {k}
      /\ \A j \in Leased' : lease'[j] = lease[j]
      /\ record' = [record EXCEPT ![IdOf[k]] = [job |-> k, status |-> status]]
  BY <1>1 DEF Complete, Leased, TypeOK
<1>3. PhaseOf(k) = "leased"
  BY <1>1, PhaseCases
<1>4. Contract!Finish(k, status)
  <2>1. /\ \A j \in Job : PhaseOf(j)' = IF j = k THEN status ELSE PhaseOf(j)
        /\ \A j \in Job : HolderOf(j)' = IF j = k THEN None ELSE HolderOf(j)
    BY <1>2, EndingAJob
  <2> QED
    BY <1>3, <2>1, Zenon DEF Contract!Finish
<1>5. status \in Contract!Final
  BY DEF Contract!Final, CompletionStatus
<1> QED
  BY <1>4, <1>5 DEF Contract!Next

LEMMA CancelImplementsWithdraw ==
  ASSUME TypeOK, OnePlace, RecordsAgree, IdsUnique, NEW k \in Job, Cancel(k)
  PROVE  Contract!Next
<1>1. k \in queued \cup Leased
  BY DEF Cancel
<1>2. /\ queued' = queued \ {k}
      /\ Leased' = Leased \ {k}
      /\ \A j \in Leased' : lease'[j] = lease[j]
      /\ record' = [record EXCEPT ![IdOf[k]] = [job |-> k, status |-> "cancelled"]]
  <2>1. CASE k \in queued
    BY <2>1 DEF Cancel, Leased, OnePlace
  <2>2. CASE k \notin queued
    BY <2>2 DEF Cancel, Leased, TypeOK
  <2> QED
    BY <2>1, <2>2
<1>3. PhaseOf(k) \in Contract!Live
  BY <1>1, PhaseCases DEF Contract!Live
<1>4. Contract!Withdraw(k)
  <2>1. /\ \A j \in Job : PhaseOf(j)' = IF j = k THEN "cancelled" ELSE PhaseOf(j)
        /\ \A j \in Job : HolderOf(j)' = IF j = k THEN None ELSE HolderOf(j)
    BY <1>2, EndingAJob DEF CompletionStatus
  <2> QED
    BY <1>3, <2>1, Zenon DEF Contract!Withdraw
<1> QED
  BY <1>4 DEF Contract!Next

(* With ids that are never reused, whatever the jobs, the runners, the       *)
(* priorities and the lease duration, MemoryExecutionQueue implements the    *)
(* ExecutionQueue contract.                                                  *)
THEOREM ImplementsContract == ASSUME IdsUnique PROVE Spec => KeepsContract
<1>1. Init => Contract!Init
  BY DEF Init, Contract!Init, PhaseOf, HolderOf, Leased
<1>2. TypeOK /\ OnePlace /\ RecordsAgree /\ [Next]_vars => [Contract!Next]_(Contract!vars)
  <2> SUFFICES ASSUME TypeOK, OnePlace, RecordsAgree, [Next]_vars
               PROVE  Contract!Next \/ UNCHANGED Contract!vars
    OBVIOUS
  <2>1. ASSUME queued' = queued, Leased' = Leased, record' = record,
               \A k \in Leased : lease'[k].runner = lease[k].runner
        PROVE  UNCHANGED Contract!vars
    <3>1. \A k \in Job : PhaseOf(k)' = PhaseOf(k) /\ HolderOf(k)' = HolderOf(k)
      BY <2>1, PhaseUnchanged, HolderUnchanged
    <3> QED
      BY <3>1, Zenon DEF Contract!vars
  <2>2. ASSUME UNCHANGED <<queued, lease, record>> PROVE UNCHANGED Contract!vars
    BY <2>1, <2>2 DEF Leased
  <2>3. CASE Tick
    <3>1. Leased' = Leased /\ \A k \in Leased : lease'[k].runner = lease[k].runner
      <4>1. ASSUME NEW k \in Leased
            PROVE  lease'[k] \in Lease /\ lease'[k].runner = lease[k].runner
        BY <2>3, <4>1 DEF Tick, Leased, TypeOK, Lease
      <4>2. \A k \in Job \ Leased : lease'[k] = None
        BY <2>3 DEF Tick, Leased
      <4> QED
        BY <4>1, <4>2 DEF Leased, Lease
    <3> QED
      BY <2>1, <2>3, <3>1 DEF Tick
  <2> QED
    BY <2>2, <2>3, LeaseImplementsReclaim, EnqueueImplementsSubmit,
       CompleteImplementsFinish, CancelImplementsWithdraw
    DEF Next, RegisterRunner, Heartbeat, vars
<1> QED
  BY <1>1, <1>2, Typing, JobsAreInOnePlace, NoJobIsLost, PTL
  DEF Spec, KeepsContract, Contract!Spec

===============================================================================
