--------------------------- MODULE RedisQueueProofs ---------------------------
(***************************************************************************)
(* What holds of RedisQueue for every set of calls, runners and jobs, any  *)
(* window, lease duration and lock duration, however long it runs.         *)
(***************************************************************************)
EXTENDS RedisQueue, TLAPS

USE RedisQueueAssumption, NoneAssumption

(* No lease call needs longer than the PX of its lock.                       *)
LockOutlasts == \A p \in Proc : pc[p] \in Section /\ lock # None => lock > now

LockIsHeld == \A p \in Proc : pc[p] \in Section => lock # None

(* The positions from which a call writes, or goes on to write, the key of   *)
(* the id it is about, having seen that there is one.                        *)
KnowsKey == {"putQueue", "sweepRem", "requeueSet", "requeueAdd", "takeRem", "takeSet", "takeAdd",
             "completeRem", "completeSet", "cancelRemQueue", "cancelRemLease", "cancelSet"}

OnKeys(p) ==
  /\ \A j \in call[p].expired \cup call[p].ids : job[j] # None
  /\ pc[p] \in KnowsKey => job[call[p].job] # None

Listed == \A j \in Job : j \in queue \/ leases[j] # None => job[j] # None

(* Every id in a sorted set, and every id a call goes on with, has its key.  *)
Keys == Listed /\ \A p \in Proc : OnKeys(p)

IsLeased(j) == job[j] # None /\ job[j].status = "leased"

IsQueued(j) == job[j] # None /\ job[j].status = "queued"

(* The lease set tells of a leased id what its key tells, or a lease call is *)
(* about to write there what it wrote to the key.  (It may list an id whose  *)
(* key an overlapping enqueue has put back to queued.)                       *)
SetsAgree ==
  \A j \in Job :
    leases[j] # None /\ IsLeased(j) => job[j].expires = leases[j] \/ Handling(j, {"takeAdd"})

(* What the one call that holds the lock knows of the id it is about.        *)
Sweeps(p) ==
  LET j == call[p].job
  IN /\ pc[p] \in SweepStep \ {"sweepList"} =>
          \A i \in call[p].expired : leases[i] # None => leases[i] <= call[p].at
     /\ pc[p] = "sweepRem" => j \in call[p].expired /\ (IsLeased(j) => call[p].raw = job[j])
     /\ pc[p] = "requeueSet" /\ IsLeased(j) => job[j].expires <= call[p].at

Takes(p) ==
  LET j == call[p].job
  IN /\ pc[p] \in {"takeRem", "takeSet"} => ~IsLeased(j)
     /\ pc[p] = "takeAdd" /\ IsLeased(j) => job[j].expires = call[p].at + LeaseDuration

Leasing == \A p \in Proc : Sweeps(p) /\ Takes(p)

-------------------------------------------------------------------------------
(* Types. *)

(* The local variables a call starts with, and those of no call, are well   *)
(* typed.                                                                   *)
LEMMA NoCallTyped ==
  /\ NoCall \in Locals
  /\ NoCall.at = 0
  /\ \A j \in Job, status \in Final :
       /\ [NoCall EXCEPT !.job = j] \in Locals
       /\ [NoCall EXCEPT !.job = j, !.status = status] \in Locals
  /\ \A r \in Runner : [NoCall EXCEPT !.runner = r] \in Locals
  BY DEF NoCall, Locals

(* A call that moves to another position with well-typed variables leaves   *)
(* all calls well typed.                                                    *)
LEMMA CallTyped ==
  ASSUME TypeOK, NEW p \in Proc, NEW step \in Step, NEW c \in Locals,
         pc' = [pc EXCEPT ![p] = step], call' = [call EXCEPT ![p] = c],
         HasArguments(step, c), c.at <= now, now' = now
  PROVE  CallsTyped'
  BY DEF TypeOK, CallsTyped

(* So does a call that returns.                                             *)
LEMMA ReturnTyped ==
  ASSUME TypeOK, NEW p \in Proc, Return(p), now' = now
  PROVE  CallsTyped'
<1>1. NoCall \in Locals /\ NoCall.at = 0
  BY NoCallTyped
<1>2. "idle" \in Step /\ HasArguments("idle", NoCall)
  BY DEF Step, HasArguments, Section, SweepStep, TakeStep
<1>3. NoCall.at <= now
  BY <1>1 DEF TypeOK, StoreTyped
<1> QED
  BY <1>1, <1>2, <1>3, CallTyped DEF Return

(* So does one that keeps its variables.                                    *)
LEMMA GoTyped ==
  ASSUME TypeOK, NEW p \in Proc, NEW step \in Step, Go(p, step), UNCHANGED <<now, call>>,
         HasArguments(step, call[p])
  PROVE  CallsTyped'
  BY DEF TypeOK, CallsTyped, Go

(* Every command keeps the types; a sweep goes on only with an id, and a    *)
(* scan with a non-empty window.                                            *)
LEMMA TypeStep == TypeOK /\ [Next]_vars => TypeOK'
<1> SUFFICES ASSUME TypeOK, [Next]_vars PROVE TypeOK'
  OBVIOUS
<1> USE DEF TypeOK, StoreTyped, JobKey, HasArguments, Step, Section, SweepStep, TakeStep,
    EnqueueStep
<1>1. ASSUME NEW p \in Proc, NEW j \in Job, BeginEnqueue(p, j) PROVE TypeOK'
  BY <1>1 DEF BeginEnqueue, Begin, redis, CallsTyped, Locals, NoCall, Go, Return
<1>2. ASSUME NEW p \in Proc, Exists(p) PROVE TypeOK'
  <2>1. StoreTyped'
    BY <1>2 DEF Exists, redis
  <2>2. CASE Return(p)
    BY <1>2, <2>1, <2>2, ReturnTyped DEF Exists
  <2>3. CASE ~Return(p)
    BY <1>2, <2>1, <2>3, GoTyped DEF Exists, CallsTyped, Locals, Go
  <2> QED
    BY <2>2, <2>3
<1>3. ASSUME NEW p \in Proc, PutJob(p) PROVE TypeOK'
  BY <1>3 DEF PutJob, Entry, CallsTyped, Locals, NoCall, Go, Return
<1>4. ASSUME NEW p \in Proc, PutQueue(p) PROVE TypeOK'
  BY <1>4 DEF PutQueue, CallsTyped, Locals, NoCall, Go, Return
<1>5. ASSUME NEW p \in Proc, NEW r \in Runner, BeginLease(p, r) PROVE TypeOK'
  BY <1>5 DEF BeginLease, Begin, redis, CallsTyped, Locals, NoCall, Go, Return
<1>6. ASSUME NEW p \in Proc, Lock(p) PROVE TypeOK'
  <2>1. StoreTyped'
    BY <1>6 DEF Lock
  <2>2. CASE Return(p)
    BY <1>6, <2>1, <2>2, ReturnTyped DEF Lock
  <2>3. CASE ~Return(p)
    BY <1>6, <2>1, <2>3, GoTyped DEF Lock, CallsTyped, Locals, Go
  <2> QED
    BY <2>2, <2>3
<1>7. ASSUME NEW p \in Proc, SweepList(p) PROVE TypeOK'
  <2> DEFINE expired == {j \in Job : leases[j] # None /\ leases[j] <= now}
             c == [call[p] EXCEPT !.at = now, !.expired = expired]
  <2>1. StoreTyped'
    BY <1>7 DEF SweepList, redis
  <2>2. call[p] \in Locals /\ call[p].runner \in Runner
    BY <1>7 DEF SweepList, CallsTyped
  <2>3. c \in Locals /\ c.at = now /\ c.expired = expired /\ c.runner \in Runner
    BY <2>2 DEF Locals
  <2>4. call' = [call EXCEPT ![p] = c]
    BY <1>7 DEF SweepList
  <2>5. Go(p, SweepOrScan(expired)) /\ now' = now
    BY <1>7 DEF SweepList
  <2> HIDE DEF expired, c
  <2>6. CASE expired = {}
    <3>1. pc' = [pc EXCEPT ![p] = "scan"]
      BY <2>5, <2>6 DEF SweepOrScan, Go
    <3>2. c.at <= now
      BY <2>3
    <3> QED
      BY <2>1, <2>3, <2>4, <2>5, <2>6, <3>1, <3>2, CallTyped
  <2>7. CASE expired # {}
    <3>1. pc' = [pc EXCEPT ![p] = "sweepGet"]
      BY <2>5, <2>7 DEF SweepOrScan, Go
    <3>2. c.at <= now
      BY <2>3
    <3> QED
      BY <2>1, <2>3, <2>4, <2>5, <2>7, <3>1, <3>2, CallTyped
  <2> QED
    BY <2>6, <2>7
<1>8. ASSUME NEW p \in Proc, SweepGet(p) PROVE TypeOK'
  <2>1. StoreTyped'
    BY <1>8 DEF SweepGet, redis
  <2>2. call[p] \in Locals /\ call[p].runner \in Runner
    BY <1>8 DEF SweepGet, CallsTyped
  <2>3. PICK j \in call[p].expired : call' = [call EXCEPT ![p].job = j, ![p].raw = job[j]]
    BY <1>8 DEF SweepGet
  <2> DEFINE c == [call[p] EXCEPT !.job = j, !.raw = job[j]]
  <2>4. j \in Job /\ job[j] \in JobKey \cup {None}
    BY <2>2 DEF Locals
  <2>5. c \in Locals /\ c.at = call[p].at /\ c.job = j /\ c.runner \in Runner
    BY <2>2, <2>4 DEF Locals, JobKey
  <2>6. call' = [call EXCEPT ![p] = c]
    BY <2>3
  <2>7. call[p].at <= now /\ pc' = [pc EXCEPT ![p] = "sweepRem"] /\ now' = now
    BY <1>8 DEF SweepGet, CallsTyped, Go
  <2> HIDE DEF c
  <2> QED
    BY <2>1, <2>4, <2>5, <2>6, <2>7, CallTyped
<1>9. ASSUME NEW p \in Proc, SweepRem(p) PROVE TypeOK'
  BY <1>9, SMTT(30) DEF SweepRem, SweepOrScan, CallsTyped, Locals, NoCall, Go, Return
<1>10. ASSUME NEW p \in Proc, RequeueSet(p) PROVE TypeOK'
  BY <1>10 DEF RequeueSet, Entry, CallsTyped, Locals, NoCall, Go, Return
<1>11. ASSUME NEW p \in Proc, RequeueAdd(p) PROVE TypeOK'
  BY <1>11 DEF RequeueAdd, SweepOrScan, CallsTyped, Locals, NoCall, Go, Return
<1>12. ASSUME NEW p \in Proc, Scan(p) PROVE TypeOK'
  <2> DEFINE ids == {j \in queue : Cardinality(Ahead(j, queue)) < Window}
             c == [call[p] EXCEPT !.ids = ids]
  <2>1. StoreTyped' /\ now' = now
    BY <1>12 DEF Scan, redis
  <2>2. call[p] \in Locals /\ call[p].runner \in Runner /\ call[p].at <= now
    BY <1>12 DEF Scan, CallsTyped
  <2>3. ids \subseteq Job
    OBVIOUS
  <2> HIDE DEF ids
  <2>4. c \in Locals /\ c.at = call[p].at /\ c.ids = ids /\ c.runner \in Runner
    BY <2>2, <2>3 DEF Locals
  <2>5. call' = [call EXCEPT ![p] = c] /\ Go(p, LookOrUnlock(ids))
    BY <1>12 DEF Scan, ids
  <2> HIDE DEF c
  <2>6. CASE ids = {}
    <3>1. pc' = [pc EXCEPT ![p] = "unlock"]
      BY <2>5, <2>6 DEF LookOrUnlock, Go
    <3> QED
      BY <2>1, <2>2, <2>4, <2>5, <3>1, CallTyped
  <2>7. CASE ids # {}
    <3>1. pc' = [pc EXCEPT ![p] = "look"]
      BY <2>5, <2>7 DEF LookOrUnlock, Go
    <3> QED
      BY <2>1, <2>2, <2>4, <2>5, <2>7, <3>1, CallTyped
  <2> QED
    BY <2>6, <2>7
<1>13. ASSUME NEW p \in Proc, Look(p) PROVE TypeOK'
  <2>1. StoreTyped'
    BY <1>13 DEF Look, redis
  <2>2. call[p] \in Locals /\ call[p].runner \in Runner
    BY <1>13 DEF Look, CallsTyped
  <2>3. PICK j \in Job : Pick(p, j) \/ Pass(p, j)
    BY <1>13 DEF Look
  <2>4. CASE Pick(p, j)
    <3> DEFINE c == [call[p] EXCEPT !.job = j]
    <3>1. c \in Locals /\ c.at = call[p].at /\ c.job = j /\ c.runner \in Runner
      BY <2>2 DEF Locals
    <3> QED
      BY <1>13, <2>1, <2>4, <3>1, SMTT(30) DEF Look, Pick, Go, CallsTyped
  <2>5. CASE Pass(p, j)
    <3> DEFINE c == [call[p] EXCEPT !.ids = call[p].ids \ {j}]
    <3>1. c \in Locals /\ c.at = call[p].at /\ c.ids = call[p].ids \ {j} /\ c.runner \in Runner
      BY <2>2 DEF Locals
    <3> QED
      BY <1>13, <2>1, <2>5, <3>1 DEF Look, Pass, LookOrUnlock, Go, CallsTyped
  <2> QED
    BY <2>3, <2>4, <2>5
<1>14. ASSUME NEW p \in Proc, TakeRem(p) PROVE TypeOK'
  BY <1>14 DEF TakeRem, CallsTyped, Locals, NoCall, Go, Return
<1>15. ASSUME NEW p \in Proc, TakeSet(p) PROVE TypeOK'
  BY <1>15 DEF TakeSet, LeasedEntry, CallsTyped, Locals, NoCall, Go, Return
<1>16. ASSUME NEW p \in Proc, TakeAdd(p) PROVE TypeOK'
  BY <1>16 DEF TakeAdd, CallsTyped, Locals, NoCall, Go, Return
<1>17. ASSUME NEW p \in Proc, Unlock(p) PROVE TypeOK'
  BY <1>17 DEF Unlock, CallsTyped, Locals, NoCall, Go, Return
<1>18. ASSUME NEW p \in Proc, NEW j \in Job, NEW s \in Final, BeginComplete(p, j, s) PROVE TypeOK'
  <2>1. StoreTyped'
    BY <1>18 DEF BeginComplete, Begin, redis
  <2>2. [NoCall EXCEPT !.job = j, !.status = s] \in Locals
    BY NoCallTyped
  <2> QED
    BY <1>18, <2>1, <2>2 DEF BeginComplete, Begin, redis, Go, CallsTyped, NoCall, Locals
<1>19. ASSUME NEW p \in Proc, CompleteGet(p) PROVE TypeOK'
  <2>1. StoreTyped'
    BY <1>19 DEF CompleteGet, redis
  <2>2. CASE Return(p)
    BY <1>19, <2>1, <2>2, ReturnTyped DEF CompleteGet
  <2>3. CASE ~Return(p)
    BY <1>19, <2>1, <2>3, GoTyped DEF CompleteGet, CallsTyped, Locals, Go
  <2> QED
    BY <2>2, <2>3
<1>20. ASSUME NEW p \in Proc, CompleteRem(p) PROVE TypeOK'
  BY <1>20 DEF CompleteRem, CallsTyped, Locals, NoCall, Go, Return
<1>21. ASSUME NEW p \in Proc, CompleteSet(p) PROVE TypeOK'
  BY <1>21 DEF CompleteSet, Entry, CallsTyped, Locals, NoCall, Go, Return
<1>22. ASSUME NEW p \in Proc, NEW j \in Job, BeginCancel(p, j) PROVE TypeOK'
  BY <1>22 DEF BeginCancel, Begin, redis, CallsTyped, Locals, NoCall, Go, Return
<1>23. ASSUME NEW p \in Proc, CancelGet(p) PROVE TypeOK'
  <2>1. StoreTyped'
    BY <1>23 DEF CancelGet, redis
  <2>2. CASE Return(p)
    BY <1>23, <2>1, <2>2, ReturnTyped DEF CancelGet
  <2>3. CASE ~Return(p)
    BY <1>23, <2>1, <2>3, GoTyped DEF CancelGet, CallsTyped, Locals, Go
  <2> QED
    BY <2>2, <2>3
<1>24. ASSUME NEW p \in Proc, CancelRemQueue(p) PROVE TypeOK'
  BY <1>24 DEF CancelRemQueue, CallsTyped, Locals, NoCall, Go, Return
<1>25. ASSUME NEW p \in Proc, CancelRemLease(p) PROVE TypeOK'
  BY <1>25 DEF CancelRemLease, CallsTyped, Locals, NoCall, Go, Return
<1>26. ASSUME NEW p \in Proc, CancelSet(p) PROVE TypeOK'
  <2>1. StoreTyped'
    BY <1>26 DEF CancelSet, Entry, CallsTyped, Final
  <2> QED
    BY <1>26, <2>1, ReturnTyped DEF CancelSet
<1>27. ASSUME Tick PROVE TypeOK'
  BY <1>27 DEF Tick, redis, CallsTyped, Locals, NoCall, Go, Return
<1>28. ASSUME NEW p \in Proc, Crash(p) PROVE TypeOK'
  BY <1>28 DEF Crash, redis, CallsTyped, Locals, NoCall, Go, Return
<1>29. CASE UNCHANGED vars
  BY <1>29 DEF CallsTyped, vars
<1> QED
  BY <1>1, <1>2, <1>3, <1>4, <1>5, <1>6, <1>7, <1>8, <1>9, <1>10, <1>11, <1>12, <1>13, <1>14,
      <1>15, <1>16, <1>17, <1>18, <1>19, <1>20, <1>21, <1>22, <1>23, <1>24, <1>25, <1>26, <1>27,
      <1>28, <1>29, SMTT(30) DEF Next, EnqueueNext, LeaseNext, CompleteNext, CancelNext

-------------------------------------------------------------------------------
(* Keys. *)

(* An id gets into a sorted set, or into a call's hands, from where it had  *)
(* a key, and no command deletes one.                                       *)
LEMMA KeysStep == TypeOK /\ Keys /\ [Next]_vars => Keys'
<1> SUFFICES ASSUME TypeOK, Keys, [Next]_vars PROVE Keys'
  OBVIOUS
<1> USE DEF Keys, Listed, OnKeys, KnowsKey, EnqueueStep, TypeOK, StoreTyped, CallsTyped,
    Locals, JobKey
<1>1. ASSUME NEW p \in Proc, NEW j \in Job, BeginEnqueue(p, j) PROVE Keys'
  BY <1>1 DEF BeginEnqueue, Begin, redis, NoCall, Go, Return, Section, SweepStep, TakeStep,
      HasArguments, Step
<1>2. ASSUME NEW p \in Proc, Exists(p) PROVE Keys'
  <2>1. UNCHANGED <<job, queue, leases>>
    BY <1>2 DEF Exists, redis
  <2>2. CASE Return(p)
    BY <2>1, <2>2 DEF Return, NoCall
  <2>3. CASE Go(p, "putJob") /\ UNCHANGED call /\ job[call[p].job] = None
    BY <1>2, <2>1, <2>3 DEF Exists, Go
  <2> QED
    BY <1>2, <2>2, <2>3 DEF Exists
<1>3. ASSUME NEW p \in Proc, PutJob(p) PROVE Keys'
  BY <1>3 DEF PutJob, Entry, NoCall, Go, Return, Section, SweepStep, TakeStep, HasArguments, Step
<1>4. ASSUME NEW p \in Proc, PutQueue(p) PROVE Keys'
  BY <1>4 DEF PutQueue, NoCall, Go, Return, Section, SweepStep, TakeStep, HasArguments, Step
<1>5. ASSUME NEW p \in Proc, NEW r \in Runner, BeginLease(p, r) PROVE Keys'
  BY <1>5 DEF BeginLease, Begin, redis, NoCall, Go, Return, Section, SweepStep, TakeStep,
      HasArguments, Step
<1>6. ASSUME NEW p \in Proc, Lock(p) PROVE Keys'
  BY <1>6 DEF Lock, NoCall, Go, Return, Section, SweepStep, TakeStep, HasArguments, Step
<1>7. ASSUME NEW p \in Proc, SweepList(p) PROVE Keys'
  BY <1>7 DEF SweepList, SweepOrScan, redis, NoCall, Go, Return, Section, SweepStep, TakeStep,
      HasArguments, Step
<1>8. ASSUME NEW p \in Proc, SweepGet(p) PROVE Keys'
  BY <1>8 DEF SweepGet, redis, NoCall, Go, Return, Section, SweepStep, TakeStep, HasArguments, Step
<1>9. ASSUME NEW p \in Proc, SweepRem(p) PROVE Keys'
  BY <1>9 DEF SweepRem, SweepOrScan, NoCall, Go, Return, Section, SweepStep, TakeStep,
      HasArguments, Step
<1>10. ASSUME NEW p \in Proc, RequeueSet(p) PROVE Keys'
  BY <1>10 DEF RequeueSet, Entry, NoCall, Go, Return, Section, SweepStep, TakeStep,
      HasArguments, Step
<1>11. ASSUME NEW p \in Proc, RequeueAdd(p) PROVE Keys'
  BY <1>11 DEF RequeueAdd, SweepOrScan, NoCall, Go, Return, Section, SweepStep, TakeStep,
      HasArguments, Step
<1>12. ASSUME NEW p \in Proc, Scan(p) PROVE Keys'
  BY <1>12 DEF Scan, LookOrUnlock, redis, NoCall, Go, Return, Section, SweepStep, TakeStep,
      HasArguments, Step
<1>13. ASSUME NEW p \in Proc, Look(p) PROVE Keys'
  <2>1. UNCHANGED <<job, queue, leases>>
    BY <1>13 DEF Look, redis
  <2>2. PICK j \in Job : IsNext(j, call[p].ids) /\ (Pick(p, j) \/ Pass(p, j))
    BY <1>13 DEF Look
  <2>3. job[j] # None
    BY <2>2 DEF IsNext
  <2>4. CASE Pick(p, j)
    BY <2>1, <2>3, <2>4 DEF Pick, Go
  <2>5. CASE Pass(p, j)
    BY <2>1, <2>5 DEF Pass, LookOrUnlock, Go
  <2> QED
    BY <2>2, <2>4, <2>5
<1>14. ASSUME NEW p \in Proc, TakeRem(p) PROVE Keys'
  BY <1>14 DEF TakeRem, NoCall, Go, Return, Section, SweepStep, TakeStep, HasArguments, Step
<1>15. ASSUME NEW p \in Proc, TakeSet(p) PROVE Keys'
  BY <1>15 DEF TakeSet, LeasedEntry, NoCall, Go, Return, Section, SweepStep, TakeStep,
      HasArguments, Step
<1>16. ASSUME NEW p \in Proc, TakeAdd(p) PROVE Keys'
  BY <1>16 DEF TakeAdd, NoCall, Go, Return, Section, SweepStep, TakeStep, HasArguments, Step
<1>17. ASSUME NEW p \in Proc, Unlock(p) PROVE Keys'
  BY <1>17 DEF Unlock, NoCall, Go, Return, Section, SweepStep, TakeStep, HasArguments, Step
<1>18. ASSUME NEW p \in Proc, NEW j \in Job, NEW s \in Final, BeginComplete(p, j, s) PROVE Keys'
  BY <1>18 DEF BeginComplete, Begin, redis, NoCall, Go, Return, Section, SweepStep, TakeStep,
      HasArguments, Step
<1>19. ASSUME NEW p \in Proc, CompleteGet(p) PROVE Keys'
  <2>1. UNCHANGED <<job, queue, leases>>
    BY <1>19 DEF CompleteGet, redis
  <2>2. CASE Return(p)
    BY <2>1, <2>2 DEF Return, NoCall
  <2>3. CASE Go(p, "completeRem") /\ UNCHANGED call /\ job[call[p].job] # None
    BY <2>1, <2>3 DEF Go
  <2> QED
    BY <1>19, <2>2, <2>3 DEF CompleteGet
<1>20. ASSUME NEW p \in Proc, CompleteRem(p) PROVE Keys'
  BY <1>20 DEF CompleteRem, NoCall, Go, Return, Section, SweepStep, TakeStep, HasArguments, Step
<1>21. ASSUME NEW p \in Proc, CompleteSet(p) PROVE Keys'
  BY <1>21 DEF CompleteSet, Entry, NoCall, Go, Return, Section, SweepStep, TakeStep,
      HasArguments, Step
<1>22. ASSUME NEW p \in Proc, NEW j \in Job, BeginCancel(p, j) PROVE Keys'
  BY <1>22 DEF BeginCancel, Begin, redis, NoCall, Go, Return, Section, SweepStep, TakeStep,
      HasArguments, Step
<1>23. ASSUME NEW p \in Proc, CancelGet(p) PROVE Keys'
  <2>1. UNCHANGED <<job, queue, leases>>
    BY <1>23 DEF CancelGet, redis
  <2>2. CASE Return(p)
    BY <2>1, <2>2 DEF Return, NoCall
  <2>3. CASE Go(p, "cancelRemQueue") /\ UNCHANGED call /\ job[call[p].job] # None
    BY <2>1, <2>3 DEF Go
  <2> QED
    BY <1>23, <2>2, <2>3 DEF CancelGet
<1>24. ASSUME NEW p \in Proc, CancelRemQueue(p) PROVE Keys'
  BY <1>24 DEF CancelRemQueue, NoCall, Go, Return, Section, SweepStep, TakeStep, HasArguments, Step
<1>25. ASSUME NEW p \in Proc, CancelRemLease(p) PROVE Keys'
  BY <1>25 DEF CancelRemLease, NoCall, Go, Return, Section, SweepStep, TakeStep, HasArguments, Step
<1>26. ASSUME NEW p \in Proc, CancelSet(p) PROVE Keys'
  BY <1>26 DEF CancelSet, Entry, Final, NoCall, Go, Return, Section, SweepStep, TakeStep,
      HasArguments, Step
<1>27. ASSUME Tick PROVE Keys'
  BY <1>27 DEF Tick, redis, NoCall, Go, Return, Section, SweepStep, TakeStep, HasArguments, Step
<1>28. ASSUME NEW p \in Proc, Crash(p) PROVE Keys'
  BY <1>28 DEF Crash, redis, NoCall, Go, Return, Section, SweepStep, TakeStep, HasArguments, Step
<1>29. CASE UNCHANGED vars
  BY <1>29 DEF vars
<1> QED
  BY <1>1, <1>2, <1>3, <1>4, <1>5, <1>6, <1>7, <1>8, <1>9, <1>10, <1>11, <1>12, <1>13, <1>14,
      <1>15, <1>16, <1>17, <1>18, <1>19, <1>20, <1>21, <1>22, <1>23, <1>24, <1>25, <1>26, <1>27,
      <1>28, <1>29, SMTT(30) DEF Next, EnqueueNext, LeaseNext, CompleteNext, CancelNext

-------------------------------------------------------------------------------
(* The lock. *)

Exclusion == OneInSection /\ LockIsHeld

(* SET NX enters only when no lock is held, which by LockOutlasts means     *)
(* that nobody is inside; DEL is sent by the one call inside, so the lock   *)
(* it deletes is its own.                                                   *)
LEMMA ExclusionStep == TypeOK /\ LockOutlasts /\ Exclusion /\ [Next]_vars => Exclusion'
<1> SUFFICES ASSUME TypeOK, LockOutlasts, Exclusion, [Next]_vars PROVE Exclusion'
  OBVIOUS
<1> USE DEF LockOutlasts, Exclusion, OneInSection, LockIsHeld, TypeOK, CallsTyped, StoreTyped,
    Section, SweepStep, TakeStep
<1>1. ASSUME NEW p \in Proc, NEW j \in Job, BeginEnqueue(p, j) PROVE Exclusion'
  BY <1>1 DEF BeginEnqueue, Begin, redis, NoCall, Go, Return, LockFree
<1>2. ASSUME NEW p \in Proc, Exists(p) PROVE Exclusion'
  BY <1>2 DEF Exists, redis, NoCall, Go, Return, LockFree
<1>3. ASSUME NEW p \in Proc, PutJob(p) PROVE Exclusion'
  BY <1>3 DEF PutJob, NoCall, Go, Return, LockFree
<1>4. ASSUME NEW p \in Proc, PutQueue(p) PROVE Exclusion'
  BY <1>4 DEF PutQueue, NoCall, Go, Return, LockFree
<1>5. ASSUME NEW p \in Proc, NEW r \in Runner, BeginLease(p, r) PROVE Exclusion'
  BY <1>5 DEF BeginLease, Begin, redis, NoCall, Go, Return, LockFree
<1>6. ASSUME NEW p \in Proc, Lock(p) PROVE Exclusion'
  BY <1>6 DEF Lock, NoCall, Go, Return, LockFree
<1>7. ASSUME NEW p \in Proc, SweepList(p) PROVE Exclusion'
  BY <1>7 DEF SweepList, SweepOrScan, redis, NoCall, Go, Return, LockFree
<1>8. ASSUME NEW p \in Proc, SweepGet(p) PROVE Exclusion'
  BY <1>8 DEF SweepGet, redis, NoCall, Go, Return, LockFree
<1>9. ASSUME NEW p \in Proc, SweepRem(p) PROVE Exclusion'
  BY <1>9 DEF SweepRem, SweepOrScan, NoCall, Go, Return, LockFree
<1>10. ASSUME NEW p \in Proc, RequeueSet(p) PROVE Exclusion'
  BY <1>10 DEF RequeueSet, NoCall, Go, Return, LockFree
<1>11. ASSUME NEW p \in Proc, RequeueAdd(p) PROVE Exclusion'
  BY <1>11 DEF RequeueAdd, SweepOrScan, NoCall, Go, Return, LockFree
<1>12. ASSUME NEW p \in Proc, Scan(p) PROVE Exclusion'
  BY <1>12 DEF Scan, LookOrUnlock, redis, NoCall, Go, Return, LockFree
<1>13. ASSUME NEW p \in Proc, Look(p) PROVE Exclusion'
  BY <1>13 DEF Look, Pick, Pass, IsNext, LookOrUnlock, redis, NoCall, Go, Return, LockFree
<1>14. ASSUME NEW p \in Proc, TakeRem(p) PROVE Exclusion'
  BY <1>14 DEF TakeRem, NoCall, Go, Return, LockFree
<1>15. ASSUME NEW p \in Proc, TakeSet(p) PROVE Exclusion'
  BY <1>15 DEF TakeSet, NoCall, Go, Return, LockFree
<1>16. ASSUME NEW p \in Proc, TakeAdd(p) PROVE Exclusion'
  BY <1>16 DEF TakeAdd, NoCall, Go, Return, LockFree
<1>17. ASSUME NEW p \in Proc, Unlock(p) PROVE Exclusion'
  BY <1>17 DEF Unlock, NoCall, Go, Return, LockFree
<1>18. ASSUME NEW p \in Proc, NEW j \in Job, NEW s \in Final, BeginComplete(p, j, s)
       PROVE  Exclusion'
  BY <1>18 DEF BeginComplete, Begin, redis, NoCall, Go, Return, LockFree
<1>19. ASSUME NEW p \in Proc, CompleteGet(p) PROVE Exclusion'
  BY <1>19 DEF CompleteGet, redis, NoCall, Go, Return, LockFree
<1>20. ASSUME NEW p \in Proc, CompleteRem(p) PROVE Exclusion'
  BY <1>20 DEF CompleteRem, NoCall, Go, Return, LockFree
<1>21. ASSUME NEW p \in Proc, CompleteSet(p) PROVE Exclusion'
  BY <1>21 DEF CompleteSet, NoCall, Go, Return, LockFree
<1>22. ASSUME NEW p \in Proc, NEW j \in Job, BeginCancel(p, j) PROVE Exclusion'
  BY <1>22 DEF BeginCancel, Begin, redis, NoCall, Go, Return, LockFree
<1>23. ASSUME NEW p \in Proc, CancelGet(p) PROVE Exclusion'
  BY <1>23 DEF CancelGet, redis, NoCall, Go, Return, LockFree
<1>24. ASSUME NEW p \in Proc, CancelRemQueue(p) PROVE Exclusion'
  BY <1>24 DEF CancelRemQueue, NoCall, Go, Return, LockFree
<1>25. ASSUME NEW p \in Proc, CancelRemLease(p) PROVE Exclusion'
  BY <1>25 DEF CancelRemLease, NoCall, Go, Return, LockFree
<1>26. ASSUME NEW p \in Proc, CancelSet(p) PROVE Exclusion'
  BY <1>26 DEF CancelSet, NoCall, Go, Return, LockFree
<1>27. ASSUME Tick PROVE Exclusion'
  BY <1>27 DEF Tick, redis, NoCall, Go, Return, LockFree
<1>28. ASSUME NEW p \in Proc, Crash(p) PROVE Exclusion'
  BY <1>28 DEF Crash, redis, NoCall, Go, Return, LockFree
<1>29. CASE UNCHANGED vars
  BY <1>29 DEF vars
<1> QED
  BY <1>1, <1>2, <1>3, <1>4, <1>5, <1>6, <1>7, <1>8, <1>9, <1>10, <1>11, <1>12, <1>13, <1>14,
      <1>15, <1>16, <1>17, <1>18, <1>19, <1>20, <1>21, <1>22, <1>23, <1>24, <1>25, <1>26, <1>27,
      <1>28, <1>29, SMTT(30) DEF Next, EnqueueNext, LeaseNext, CompleteNext, CancelNext

(* Only the call that holds the lock writes a lease or lists one, so what   *)
(* it read at the start of a sweep or a take is still so, except that a     *)
(* report or a cancellation may have ended the job and taken it off the     *)
(* list.                                                                    *)
LEMMA LeasingStep == TypeOK /\ Keys /\ Exclusion /\ Leasing /\ [Next]_vars => Leasing'
<1> SUFFICES ASSUME TypeOK, Keys, Exclusion, Leasing, [Next]_vars PROVE Leasing'
  OBVIOUS
<1> USE DEF Keys, Listed, OnKeys, KnowsKey, TypeOK, StoreTyped, CallsTyped, Locals, JobKey,
    Exclusion, OneInSection, Leasing, Sweeps, Takes, IsLeased, Section,
    SweepStep, TakeStep
<1>1. ASSUME NEW p \in Proc, NEW j \in Job, BeginEnqueue(p, j) PROVE Leasing'
  BY <1>1 DEF BeginEnqueue, Begin, redis, NoCall, Go, Return, HasArguments, HasExpired
<1>2. ASSUME NEW p \in Proc, Exists(p) PROVE Leasing'
  BY <1>2 DEF Exists, redis, NoCall, Go, Return, HasArguments, HasExpired
<1>3. ASSUME NEW p \in Proc, PutJob(p) PROVE Leasing'
  BY <1>3 DEF PutJob, Entry, Final, NoCall, Go, Return, HasArguments, HasExpired
<1>4. ASSUME NEW p \in Proc, PutQueue(p) PROVE Leasing'
  BY <1>4 DEF PutQueue, NoCall, Go, Return, HasArguments, HasExpired
<1>5. ASSUME NEW p \in Proc, NEW r \in Runner, BeginLease(p, r) PROVE Leasing'
  BY <1>5 DEF BeginLease, Begin, redis, NoCall, Go, Return, HasArguments, HasExpired
<1>6. ASSUME NEW p \in Proc, Lock(p) PROVE Leasing'
  BY <1>6 DEF Lock, NoCall, Go, Return, HasArguments, HasExpired
<1>7. ASSUME NEW p \in Proc, SweepList(p) PROVE Leasing'
  <2> DEFINE expired == {j \in Job : leases[j] # None /\ leases[j] <= now}
  <2>1. UNCHANGED <<job, leases>>
    BY <1>7 DEF SweepList, redis
  <2>2. /\ \A q \in Proc : q # p => pc'[q] = pc[q] /\ call'[q] = call[q]
        /\ call'[p].expired = expired /\ call'[p].at = now
        /\ pc'[p] \in {"scan", "sweepGet"}
    BY <1>7 DEF SweepList, SweepOrScan, Go
  <2>3. ASSUME NEW q \in Proc PROVE Sweeps(q)' /\ Takes(q)'
    BY <2>1, <2>2, <2>3
  <2> QED
    BY <2>3
<1>8. ASSUME NEW p \in Proc, SweepGet(p) PROVE Leasing'
  <2>1. /\ pc[p] = "sweepGet" /\ UNCHANGED <<job, queue, leases>>
        /\ \A q \in Proc : q # p => pc'[q] = pc[q] /\ call'[q] = call[q]
        /\ pc'[p] = "sweepRem"
        /\ call'[p].expired = call[p].expired /\ call'[p].at = call[p].at
        /\ call'[p].job \in call[p].expired /\ call'[p].raw = job[call'[p].job]
    BY <1>8 DEF SweepGet, redis, Go
  <2>2. ASSUME NEW q \in Proc PROVE Sweeps(q)' /\ Takes(q)'
    BY <2>1, <2>2
  <2> QED
    BY <2>2
<1>9. ASSUME NEW p \in Proc, SweepRem(p) PROVE Leasing'
  <2> DEFINE j == call[p].job
  <2>1. /\ pc[p] = "sweepRem" /\ UNCHANGED <<job, queue>>
        /\ leases' = [leases EXCEPT ![j] = None]
        /\ \A q \in Proc : q # p => pc'[q] = pc[q] /\ call'[q] = call[q]
        /\ pc'[p] = (IF HasExpired(call[p].raw, call[p].at) THEN "requeueSet"
                     ELSE SweepOrScan(call[p].expired \ {j}))
        /\ call' = [call EXCEPT ![p].expired = @ \ {j}]
    BY <1>9 DEF SweepRem, Go
  <2>2. pc'[p] \in {"requeueSet", "sweepGet", "scan"}
    BY <2>1 DEF SweepOrScan
  <2>3. /\ call'[p].expired = call[p].expired \ {j}
        /\ call'[p].job = j /\ call'[p].at = call[p].at /\ call'[p].raw = call[p].raw
    BY <2>1
  <2>4. j \in Job /\ leases'[j] = None /\ \A i \in Job : i # j => leases'[i] = leases[i]
    BY <2>1 DEF HasArguments
  <2> HIDE DEF j
  <2>5. ASSUME NEW q \in Proc PROVE Sweeps(q)' /\ Takes(q)'
    <3>1. CASE q = p
      <4>1. pc'[p] = "requeueSet" /\ IsLeased(j) => job[j].expires <= call[p].at
        BY <2>1, <2>2 DEF HasExpired, SweepOrScan, j
      <4>2. \A i \in call[p].expired : i \in Job /\ (leases[i] # None => leases[i] <= call[p].at)
        BY <2>1 DEF HasArguments
      <4>3. \A i \in call'[p].expired : leases'[i] # None => leases'[i] <= call'[p].at
        BY <2>3, <2>4, <4>2
      <4>4. Sweeps(p)'
        BY <2>1, <2>2, <2>3, <2>4, <4>1, <4>3
      <4>5. Takes(p)'
        BY <2>2
      <4> QED
        BY <3>1, <4>4, <4>5
    <3>2. CASE q # p
      BY <2>1, <3>2
    <3> QED
      BY <3>1, <3>2
  <2> QED
    BY <2>5
<1>10. ASSUME NEW p \in Proc, RequeueSet(p) PROVE Leasing'
  BY <1>10 DEF RequeueSet, Entry, Final, NoCall, Go, Return, HasArguments, HasExpired
<1>11. ASSUME NEW p \in Proc, RequeueAdd(p) PROVE Leasing'
  BY <1>11 DEF RequeueAdd, SweepOrScan, NoCall, Go, Return, HasArguments, HasExpired
<1>12. ASSUME NEW p \in Proc, Scan(p) PROVE Leasing'
  BY <1>12, ZenonT(60) DEF Scan, LookOrUnlock, redis, NoCall, Go, Return, HasArguments, HasExpired
<1>13. ASSUME NEW p \in Proc, Look(p) PROVE Leasing'
  BY <1>13 DEF Look, Pick, Pass, IsNext, LookOrUnlock, redis, NoCall, Go, Return, HasArguments,
      HasExpired
<1>14. ASSUME NEW p \in Proc, TakeRem(p) PROVE Leasing'
  BY <1>14 DEF TakeRem, NoCall, Go, Return, HasArguments, HasExpired
<1>15. ASSUME NEW p \in Proc, TakeSet(p) PROVE Leasing'
  BY <1>15 DEF TakeSet, LeasedEntry, NoCall, Go, Return, HasArguments, HasExpired
<1>16. ASSUME NEW p \in Proc, TakeAdd(p) PROVE Leasing'
  BY <1>16 DEF TakeAdd, NoCall, Go, Return, HasArguments, HasExpired
<1>17. ASSUME NEW p \in Proc, Unlock(p) PROVE Leasing'
  BY <1>17 DEF Unlock, NoCall, Go, Return, HasArguments, HasExpired
<1>18. ASSUME NEW p \in Proc, NEW j \in Job, NEW s \in Final, BeginComplete(p, j, s) PROVE Leasing'
  BY <1>18 DEF BeginComplete, Begin, redis, NoCall, Go, Return, HasArguments, HasExpired
<1>19. ASSUME NEW p \in Proc, CompleteGet(p) PROVE Leasing'
  BY <1>19 DEF CompleteGet, redis, NoCall, Go, Return, HasArguments, HasExpired
<1>20. ASSUME NEW p \in Proc, CompleteRem(p) PROVE Leasing'
  BY <1>20 DEF CompleteRem, NoCall, Go, Return, HasArguments, HasExpired
<1>21. ASSUME NEW p \in Proc, CompleteSet(p) PROVE Leasing'
  <2>1. \A q \in Proc : q # p => pc'[q] = pc[q] /\ call'[q] = call[q]
    BY <1>21 DEF CompleteSet, Return
  <2>2. pc'[p] = "idle" /\ UNCHANGED leases
    BY <1>21 DEF CompleteSet, Return
  <2>3. \A i \in Job : job'[i] # job[i] => i = call[p].job /\ job'[i].status \in Final
    BY <1>21 DEF CompleteSet, Entry, HasArguments
  <2>4. ASSUME NEW q \in Proc PROVE Sweeps(q)' /\ Takes(q)'
    <3>1. CASE q = p
      BY <2>2, <3>1
    <3>2. CASE q # p
      BY <2>1, <2>2, <2>3, <3>2, SMTT(30) DEF Final, HasArguments, HasExpired
    <3> QED
      BY <3>1, <3>2
  <2> QED
    BY <2>4
<1>22. ASSUME NEW p \in Proc, NEW j \in Job, BeginCancel(p, j) PROVE Leasing'
  BY <1>22 DEF BeginCancel, Begin, redis, NoCall, Go, Return, HasArguments, HasExpired
<1>23. ASSUME NEW p \in Proc, CancelGet(p) PROVE Leasing'
  BY <1>23 DEF CancelGet, redis, NoCall, Go, Return, HasArguments, HasExpired
<1>24. ASSUME NEW p \in Proc, CancelRemQueue(p) PROVE Leasing'
  BY <1>24 DEF CancelRemQueue, NoCall, Go, Return, HasArguments, HasExpired
<1>25. ASSUME NEW p \in Proc, CancelRemLease(p) PROVE Leasing'
  BY <1>25 DEF CancelRemLease, NoCall, Go, Return, HasArguments, HasExpired
<1>26. ASSUME NEW p \in Proc, CancelSet(p) PROVE Leasing'
  BY <1>26, SMTT(30) DEF CancelSet, Entry, Final, NoCall, Go, Return, HasArguments, HasExpired
<1>27. ASSUME Tick PROVE Leasing'
  BY <1>27 DEF Tick, redis, NoCall, Go, Return, HasArguments, HasExpired
<1>28. ASSUME NEW p \in Proc, Crash(p) PROVE Leasing'
  BY <1>28 DEF Crash, redis, NoCall, Go, Return, HasArguments, HasExpired
<1>29. CASE UNCHANGED vars
  BY <1>29 DEF vars
<1> QED
  BY <1>1, <1>2, <1>3, <1>4, <1>5, <1>6, <1>7, <1>8, <1>9, <1>10, <1>11, <1>12, <1>13, <1>14,
      <1>15, <1>16, <1>17, <1>18, <1>19, <1>20, <1>21, <1>22, <1>23, <1>24, <1>25, <1>26, <1>27,
      <1>28, <1>29 DEF Next, EnqueueNext, LeaseNext, CompleteNext, CancelNext

-------------------------------------------------------------------------------
(* Keys and sets. *)

(* A take writes the key first and the lease set right after; every other   *)
(* command writes no lease to a key and no time to the set.                 *)
LEMMA SetsStep ==
  ~CrashesAllowed /\ TypeOK /\ Leasing /\ SetsAgree /\ [Next]_vars => SetsAgree'
<1> SUFFICES ASSUME ~CrashesAllowed, TypeOK, Leasing, SetsAgree, [Next]_vars PROVE SetsAgree'
  OBVIOUS
<1> USE DEF TypeOK, StoreTyped, CallsTyped, HasArguments, Locals, JobKey, Handling
<1>1. ASSUME NEW p \in Proc, TakeSet(p) PROVE SetsAgree'
  <2>1. call[p].job \in Job /\ pc'[p] = "takeAdd" /\ UNCHANGED <<call, leases>>
    BY <1>1 DEF TakeSet, Go, Section, TakeStep
  <2>2. \A j \in Job : j # call[p].job => job'[j] = job[j]
    BY <1>1 DEF TakeSet
  <2>3. \A q \in Proc : pc[q] = "takeAdd" => pc'[q] = "takeAdd"
    BY <1>1 DEF TakeSet, Go
  <2> QED
    BY <2>1, <2>2, <2>3 DEF SetsAgree, IsLeased
<1>2. ASSUME NEW p \in Proc, TakeAdd(p) PROVE SetsAgree'
  <2> DEFINE i == call[p].job
  <2>1. i \in Job /\ pc[p] = "takeAdd" /\ UNCHANGED <<call, job>>
    BY <1>2 DEF TakeAdd, Section, TakeStep
  <2>2. /\ leases'[i] = call[p].at + LeaseDuration
        /\ \A j \in Job : j # i => leases'[j] = leases[j]
    BY <1>2, <2>1 DEF TakeAdd
  <2>3. \A q \in Proc : q # p => pc'[q] = pc[q]
    BY <1>2 DEF TakeAdd, Go
  <2>4. IsLeased(i) => job[i].expires = leases'[i]
    BY <2>1, <2>2 DEF Leasing, Takes
  <2> HIDE DEF i
  <2>5. ASSUME NEW j \in Job, j # i, leases'[j] # None, IsLeased(j)'
        PROVE  job'[j].expires = leases'[j] \/ Handling(j, {"takeAdd"})'
    <3>1. job[j].expires = leases[j] \/ \E q \in Proc : call[q].job = j /\ pc[q] = "takeAdd"
      BY <2>1, <2>2, <2>5 DEF SetsAgree, IsLeased
    <3> QED
      BY <2>1, <2>2, <2>3, <2>5, <3>1 DEF i
  <2> QED
    BY <2>1, <2>4, <2>5 DEF SetsAgree, IsLeased
<1>3. ASSUME NEW p \in Proc, pc[p] # "takeAdd",
             \A q \in Proc : q # p => pc'[q] = pc[q] /\ call'[q] = call[q],
             \A j \in Job : /\ leases'[j] = leases[j] \/ leases'[j] = None
                            /\ job'[j] = job[j] \/ job'[j].status # "leased"
      PROVE  SetsAgree'
  BY <1>3 DEF SetsAgree, IsLeased
<1> USE DEF Go, Return, NoCall, redis
<1>4. ASSUME NEW p \in Proc, EnqueueNext(p) PROVE SetsAgree'
  <2>1. pc[p] # "takeAdd" /\ UNCHANGED leases
    BY <1>4 DEF EnqueueNext, BeginEnqueue, Begin, Exists, PutJob, PutQueue
  <2>2. \A q \in Proc : q # p => pc'[q] = pc[q] /\ call'[q] = call[q]
    BY <1>4 DEF EnqueueNext, BeginEnqueue, Begin, Exists, PutJob, PutQueue
  <2>3. \A j \in Job : job'[j] = job[j] \/ job'[j].status # "leased"
    BY <1>4 DEF EnqueueNext, BeginEnqueue, Begin, Exists, PutJob, PutQueue, Entry
  <2> QED
    BY <1>3, <2>1, <2>2, <2>3
<1>5. ASSUME NEW p \in Proc, LeaseNext(p), ~TakeSet(p), ~TakeAdd(p) PROVE SetsAgree'
  <2>1. pc[p] # "takeAdd"
    BY <1>5 DEF LeaseNext, BeginLease, Begin, Lock, SweepList, SweepGet, SweepRem, RequeueSet,
                RequeueAdd, Scan, Look, TakeRem, Unlock
  <2>2. \A q \in Proc : q # p => pc'[q] = pc[q] /\ call'[q] = call[q]
    BY <1>5 DEF LeaseNext, BeginLease, Begin, Lock, SweepList, SweepGet, SweepRem, RequeueSet,
                RequeueAdd, Scan, Look, Pick, Pass, TakeRem, Unlock
  <2>3. \A j \in Job : leases'[j] = leases[j] \/ leases'[j] = None
    BY <1>5 DEF LeaseNext, BeginLease, Begin, Lock, SweepList, SweepGet, SweepRem, RequeueSet,
                RequeueAdd, Scan, Look, TakeRem, Unlock
  <2>4. \A j \in Job : job'[j] = job[j] \/ job'[j].status # "leased"
    BY <1>5 DEF LeaseNext, BeginLease, Begin, Lock, SweepList, SweepGet, SweepRem, RequeueSet,
                RequeueAdd, Scan, Look, TakeRem, Unlock, Entry
  <2> QED
    BY <1>3, <2>1, <2>2, <2>3, <2>4
<1>6. ASSUME NEW p \in Proc, CompleteNext(p) PROVE SetsAgree'
  <2>1. pc[p] # "takeAdd"
    BY <1>6 DEF CompleteNext, BeginComplete, Begin, CompleteGet, CompleteRem, CompleteSet
  <2>2. \A q \in Proc : q # p => pc'[q] = pc[q] /\ call'[q] = call[q]
    BY <1>6 DEF CompleteNext, BeginComplete, Begin, CompleteGet, CompleteRem, CompleteSet
  <2>3. \A j \in Job : leases'[j] = leases[j] \/ leases'[j] = None
    BY <1>6 DEF CompleteNext, BeginComplete, Begin, CompleteGet, CompleteRem, CompleteSet
  <2>4. \A j \in Job : job'[j] = job[j] \/ job'[j].status # "leased"
    <3>1. CASE CompleteSet(p)
      <4>1. call[p].status \in Final
        BY <3>1 DEF CompleteSet
      <4> QED
        BY <3>1, <4>1 DEF CompleteSet, Entry, Final
    <3>2. CASE ~CompleteSet(p)
      BY <1>6, <3>2 DEF CompleteNext, BeginComplete, Begin, CompleteGet, CompleteRem
    <3> QED
      BY <3>1, <3>2
  <2> QED
    BY <1>3, <2>1, <2>2, <2>3, <2>4
<1>7. ASSUME NEW p \in Proc, CancelNext(p) PROVE SetsAgree'
  <2>1. pc[p] # "takeAdd"
    BY <1>7 DEF CancelNext, BeginCancel, Begin, CancelGet, CancelRemQueue, CancelRemLease, CancelSet
  <2>2. \A q \in Proc : q # p => pc'[q] = pc[q] /\ call'[q] = call[q]
    BY <1>7 DEF CancelNext, BeginCancel, Begin, CancelGet, CancelRemQueue, CancelRemLease, CancelSet
  <2>3. \A j \in Job : leases'[j] = leases[j] \/ leases'[j] = None
    BY <1>7 DEF CancelNext, BeginCancel, Begin, CancelGet, CancelRemQueue, CancelRemLease, CancelSet
  <2>4. \A j \in Job : job'[j] = job[j] \/ job'[j].status # "leased"
    BY <1>7 DEF CancelNext, BeginCancel, Begin, CancelGet, CancelRemQueue, CancelRemLease, CancelSet,
                Entry
  <2> QED
    BY <1>3, <2>1, <2>2, <2>3, <2>4
<1>8. CASE UNCHANGED <<job, leases, pc, call>>
  BY <1>8 DEF SetsAgree, IsLeased
<1> QED
  BY <1>1, <1>2, <1>4, <1>5, <1>6, <1>7, <1>8 DEF Next, Tick, Crash, vars

(* The positions that make up for a key and a set that disagree.             *)
Witness == {"putQueue", "requeueAdd", "takeSet", "takeAdd", "requeueSet", "completeSet",
            "cancelRemLease", "cancelSet"}

(* A step that writes no key and no set, of a call nobody waits for, keeps   *)
(* what is reachable reachable.                                              *)
LEMMA ReadOnlyStep ==
  ASSUME NothingLost, NEW p \in Proc, pc[p] \notin Witness, UNCHANGED <<job, queue, leases>>,
         \A q \in Proc : q # p => pc'[q] = pc[q] /\ call'[q] = call[q]
  PROVE  NothingLost'
  BY DEF NothingLost, Reachable, Handling, Witness

(* A command that makes a key and a set disagree is followed, in the same   *)
(* call, by the one that mends it; the sweep, which drops the id first,     *)
(* then requeues it whenever the key still says leased.                     *)
LEMMA ReachableStep ==
  /\ ~CrashesAllowed /\ TypeOK /\ Keys /\ OneInSection /\ Leasing /\ SetsAgree /\ NothingLost
  /\ [Next]_vars
  => NothingLost'
<1> SUFFICES ASSUME ~CrashesAllowed, TypeOK, Keys, OneInSection, Leasing, SetsAgree, NothingLost,
                    [Next]_vars
             PROVE  NothingLost'
  OBVIOUS
<1> USE DEF Keys, Listed, OnKeys, KnowsKey, TypeOK, StoreTyped, CallsTyped, Locals, JobKey,
    Leasing, Sweeps, Takes, IsLeased, IsQueued, NothingLost, Reachable, Handling, SweepStep
<1>1. ASSUME NEW p \in Proc, NEW j \in Job, BeginEnqueue(p, j) PROVE NothingLost'
  BY <1>1, SMTT(30) DEF BeginEnqueue, Begin, redis, NoCall, Go, Return, HasArguments, HasExpired, Section,
      TakeStep
<1>2. ASSUME NEW p \in Proc, Exists(p) PROVE NothingLost'
  BY <1>2, SMTT(30) DEF Exists, redis, NoCall, Go, Return, HasArguments, HasExpired, Section, TakeStep
<1>3. ASSUME NEW p \in Proc, PutJob(p) PROVE NothingLost'
  BY <1>3 DEF PutJob, Entry, Final, NoCall, Go, Return, HasArguments, HasExpired, Section, TakeStep
<1>4. ASSUME NEW p \in Proc, PutQueue(p) PROVE NothingLost'
  BY <1>4 DEF PutQueue, NoCall, Go, Return, HasArguments, HasExpired, Section, TakeStep
<1>5. ASSUME NEW p \in Proc, NEW r \in Runner, BeginLease(p, r) PROVE NothingLost'
  BY <1>5, SMTT(30) DEF BeginLease, Begin, redis, NoCall, Go, Return, HasArguments, HasExpired, Section,
      TakeStep
<1>6. ASSUME NEW p \in Proc, Lock(p) PROVE NothingLost'
  <2>1. UNCHANGED <<job, queue, leases>> /\ pc[p] \notin Witness
    BY <1>6 DEF Lock, Witness
  <2>2. \A q \in Proc : q # p => pc'[q] = pc[q] /\ call'[q] = call[q]
    BY <1>6 DEF Lock, Go, Return
  <2> QED
    BY <2>1, <2>2, ReadOnlyStep
<1>7. ASSUME NEW p \in Proc, SweepList(p) PROVE NothingLost'
  <2>1. UNCHANGED <<job, queue, leases>> /\ pc[p] \notin Witness
    BY <1>7 DEF SweepList, redis, Witness
  <2>2. \A q \in Proc : q # p => pc'[q] = pc[q] /\ call'[q] = call[q]
    BY <1>7 DEF SweepList, SweepOrScan, Go
  <2> QED
    BY <2>1, <2>2, ReadOnlyStep
<1>8. ASSUME NEW p \in Proc, SweepGet(p) PROVE NothingLost'
  <2>1. UNCHANGED <<job, queue, leases>> /\ pc[p] \notin Witness
    BY <1>8 DEF SweepGet, redis, Witness
  <2>2. \A q \in Proc : q # p => pc'[q] = pc[q] /\ call'[q] = call[q]
    BY <1>8 DEF SweepGet, Go
  <2> QED
    BY <2>1, <2>2, ReadOnlyStep
<1>9. ASSUME NEW p \in Proc, SweepRem(p) PROVE NothingLost'
  <2> DEFINE j == call[p].job
  <2> SUFFICES ASSUME NEW i \in Job, job[i] # None PROVE Reachable(i)'
    BY <1>9 DEF SweepRem
  <2>1. j \in Job /\ pc[p] = "sweepRem" /\ UNCHANGED <<job, queue>>
    BY <1>9 DEF SweepRem, HasArguments
  <2>2. \A q \in Proc : q # p => pc'[q] = pc[q] /\ call'[q] = call[q]
    BY <1>9 DEF SweepRem, Go
  <2>3. ASSUME IsQueued(i), i \notin queue
        PROVE  Handling(i, {"putQueue", "requeueAdd", "takeSet", "cancelRemLease", "cancelSet"})'
    <3>1. PICK q \in Proc :
            /\ call[q].job = i
            /\ pc[q] \in {"putQueue", "requeueAdd", "takeSet", "cancelRemLease", "cancelSet"}
      BY <2>3
    <3>2. q # p
      BY <2>1, <3>1
    <3> QED
      BY <2>2, <3>1, <3>2
  <2>4. ASSUME IsLeased(i), leases'[i] = None
        PROVE  Handling(i, {"takeAdd", "requeueSet", "completeSet", "cancelSet"})'
    <3>1. CASE leases[i] = None
      <4>1. PICK q \in Proc :
              call[q].job = i /\ pc[q] \in {"takeAdd", "requeueSet", "completeSet", "cancelSet"}
        BY <2>4, <3>1
      <4>2. q # p
        BY <2>1, <4>1
      <4> QED
        BY <2>2, <4>1, <4>2
    <3>2. CASE leases[i] # None
      <4>1. i = j
        BY <1>9, <2>1, <2>4, <3>2 DEF SweepRem
      <4>2. job[i].expires <= call[p].at /\ call[p].raw = job[i]
        <5>1. \A q \in Proc : pc[q] = "takeAdd" => q = p
          BY <2>1 DEF OneInSection, Section, TakeStep
        <5>2. job[j].expires = leases[j]
          BY <2>1, <2>4, <3>2, <4>1, <5>1 DEF SetsAgree
        <5> QED
          BY <2>1, <2>4, <3>2, <4>1, <5>2
      <4>3. HasExpired(call[p].raw, call[p].at)
        BY <2>4, <4>2 DEF HasExpired
      <4>4. pc'[p] = "requeueSet" /\ call'[p].job = i
        BY <1>9, <4>1, <4>3 DEF SweepRem, Go
      <4> QED
        BY <4>4
    <3> QED
      BY <3>1, <3>2
  <2> QED
    BY <2>1, <2>3, <2>4
<1>10. ASSUME NEW p \in Proc, RequeueSet(p) PROVE NothingLost'
  BY <1>10 DEF RequeueSet, Entry, Final, NoCall, Go, Return, HasArguments, HasExpired, Section,
      TakeStep
<1>11. ASSUME NEW p \in Proc, RequeueAdd(p) PROVE NothingLost'
  BY <1>11 DEF RequeueAdd, SweepOrScan, NoCall, Go, Return, HasArguments, HasExpired, Section,
      TakeStep
<1>12. ASSUME NEW p \in Proc, Scan(p) PROVE NothingLost'
  BY <1>12, SMTT(30) DEF Scan, LookOrUnlock, redis, NoCall, Go, Return, HasArguments, HasExpired, Section,
      TakeStep
<1>13. ASSUME NEW p \in Proc, Look(p) PROVE NothingLost'
  <2>1. UNCHANGED <<job, queue, leases>> /\ pc[p] \notin Witness
    BY <1>13 DEF Look, redis, Witness
  <2>2. \A q \in Proc : q # p => pc'[q] = pc[q] /\ call'[q] = call[q]
    BY <1>13 DEF Look, Pick, Pass, IsNext, LookOrUnlock, Go
  <2> QED
    BY <2>1, <2>2, ReadOnlyStep
<1>14. ASSUME NEW p \in Proc, TakeRem(p) PROVE NothingLost'
  BY <1>14 DEF TakeRem, NoCall, Go, Return, HasArguments, HasExpired, Section, TakeStep
<1>15. ASSUME NEW p \in Proc, TakeSet(p) PROVE NothingLost'
  BY <1>15 DEF TakeSet, LeasedEntry, NoCall, Go, Return, HasArguments, HasExpired, Section,
      TakeStep
<1>16. ASSUME NEW p \in Proc, TakeAdd(p) PROVE NothingLost'
  BY <1>16 DEF TakeAdd, NoCall, Go, Return, HasArguments, HasExpired, Section, TakeStep
<1>17. ASSUME NEW p \in Proc, Unlock(p) PROVE NothingLost'
  BY <1>17, SMTT(30) DEF Unlock, NoCall, Go, Return, HasArguments, HasExpired, Section, TakeStep
<1>18. ASSUME NEW p \in Proc, NEW j \in Job, NEW s \in Final, BeginComplete(p, j, s)
       PROVE  NothingLost'
  BY <1>18 DEF BeginComplete, Begin, redis, NoCall, Go, Return, HasArguments, HasExpired,
      Section, TakeStep
<1>19. ASSUME NEW p \in Proc, CompleteGet(p) PROVE NothingLost'
  <2>1. UNCHANGED <<job, queue, leases>> /\ pc[p] \notin Witness
    BY <1>19 DEF CompleteGet, redis, Witness
  <2>2. \A q \in Proc : q # p => pc'[q] = pc[q] /\ call'[q] = call[q]
    BY <1>19 DEF CompleteGet, Go, Return
  <2> QED
    BY <2>1, <2>2, ReadOnlyStep
<1>20. ASSUME NEW p \in Proc, CompleteRem(p) PROVE NothingLost'
  BY <1>20 DEF CompleteRem, NoCall, Go, Return, HasArguments, HasExpired, Section, TakeStep
<1>21. ASSUME NEW p \in Proc, CompleteSet(p) PROVE NothingLost'
  BY <1>21 DEF CompleteSet, Entry, Final, NoCall, Go, Return, HasArguments, HasExpired, Section,
      TakeStep
<1>22. ASSUME NEW p \in Proc, NEW j \in Job, BeginCancel(p, j) PROVE NothingLost'
  BY <1>22 DEF BeginCancel, Begin, redis, NoCall, Go, Return, HasArguments, HasExpired, Section,
      TakeStep
<1>23. ASSUME NEW p \in Proc, CancelGet(p) PROVE NothingLost'
  <2>1. UNCHANGED <<job, queue, leases>> /\ pc[p] \notin Witness
    BY <1>23 DEF CancelGet, redis, Witness
  <2>2. \A q \in Proc : q # p => pc'[q] = pc[q] /\ call'[q] = call[q]
    BY <1>23 DEF CancelGet, Go, Return
  <2> QED
    BY <2>1, <2>2, ReadOnlyStep
<1>24. ASSUME NEW p \in Proc, CancelRemQueue(p) PROVE NothingLost'
  BY <1>24 DEF CancelRemQueue, NoCall, Go, Return, HasArguments, HasExpired, Section, TakeStep
<1>25. ASSUME NEW p \in Proc, CancelRemLease(p) PROVE NothingLost'
  BY <1>25 DEF CancelRemLease, NoCall, Go, Return, HasArguments, HasExpired, Section, TakeStep
<1>26. ASSUME NEW p \in Proc, CancelSet(p) PROVE NothingLost'
  BY <1>26 DEF CancelSet, Entry, Final, NoCall, Go, Return, HasArguments, HasExpired, Section,
      TakeStep
<1>27. ASSUME Tick PROVE NothingLost'
  BY <1>27 DEF Tick, redis, NoCall, Go, Return, HasArguments, HasExpired, Section, TakeStep
<1>28. ASSUME NEW p \in Proc, Crash(p) PROVE NothingLost'
  BY <1>28 DEF Crash, redis, NoCall, Go, Return, HasArguments, HasExpired, Section, TakeStep
<1>29. CASE UNCHANGED vars
  BY <1>29 DEF vars
<1> QED
  BY <1>1, <1>2, <1>3, <1>4, <1>5, <1>6, <1>7, <1>8, <1>9, <1>10, <1>11, <1>12, <1>13, <1>14,
      <1>15, <1>16, <1>17, <1>18, <1>19, <1>20, <1>21, <1>22, <1>23, <1>24, <1>25, <1>26, <1>27,
      <1>28, <1>29, SMTT(30) DEF Next, EnqueueNext, LeaseNext, CompleteNext, CancelNext

LeaseKept(j) ==
  (/\ job[j] # None /\ job[j].status = "leased"
   /\ job'[j] # job[j] /\ job'[j].status \in {"queued", "leased"})
    => job[j].expires <= now \/ Puts(j)

(* Only an enqueue, a requeue and a take write queued or leased over a key; *)
(* the second has read an expiry that is past, the third a key that was not *)
(* leased.                                                                  *)
LEMMA LeaseKeptStep ==
  TypeOK /\ Keys /\ Leasing /\ [Next]_vars => \A j \in Job : LeaseKept(j)
<1> SUFFICES ASSUME TypeOK, Keys, Leasing, [Next]_vars, NEW i \in Job PROVE LeaseKept(i)
  OBVIOUS
<1> USE DEF Keys, OnKeys, KnowsKey, TypeOK, StoreTyped, CallsTyped, Locals, JobKey, Leasing,
    Sweeps, Takes, IsLeased, LeaseKept
<1>1. ASSUME NEW p \in Proc, NEW j \in Job, BeginEnqueue(p, j) PROVE LeaseKept(i)
  BY <1>1 DEF BeginEnqueue, Begin, redis, HasArguments
<1>2. ASSUME NEW p \in Proc, Exists(p) PROVE LeaseKept(i)
  BY <1>2 DEF Exists, redis, HasArguments
<1>3. ASSUME NEW p \in Proc, PutJob(p) PROVE LeaseKept(i)
  BY <1>3 DEF PutJob, Puts
<1>4. ASSUME NEW p \in Proc, PutQueue(p) PROVE LeaseKept(i)
  BY <1>4 DEF PutQueue, HasArguments
<1>5. ASSUME NEW p \in Proc, NEW r \in Runner, BeginLease(p, r) PROVE LeaseKept(i)
  BY <1>5 DEF BeginLease, Begin, redis, HasArguments
<1>6. ASSUME NEW p \in Proc, Lock(p) PROVE LeaseKept(i)
  BY <1>6 DEF Lock, HasArguments
<1>7. ASSUME NEW p \in Proc, SweepList(p) PROVE LeaseKept(i)
  BY <1>7 DEF SweepList, SweepOrScan, redis, HasArguments
<1>8. ASSUME NEW p \in Proc, SweepGet(p) PROVE LeaseKept(i)
  BY <1>8 DEF SweepGet, redis, HasArguments
<1>9. ASSUME NEW p \in Proc, SweepRem(p) PROVE LeaseKept(i)
  BY <1>9 DEF SweepRem, SweepOrScan, HasArguments
<1>10. ASSUME NEW p \in Proc, RequeueSet(p) PROVE LeaseKept(i)
  BY <1>10 DEF RequeueSet, Entry, Final, HasArguments
<1>11. ASSUME NEW p \in Proc, RequeueAdd(p) PROVE LeaseKept(i)
  BY <1>11 DEF RequeueAdd, SweepOrScan, HasArguments
<1>12. ASSUME NEW p \in Proc, Scan(p) PROVE LeaseKept(i)
  BY <1>12 DEF Scan, LookOrUnlock, redis, HasArguments
<1>13. ASSUME NEW p \in Proc, Look(p) PROVE LeaseKept(i)
  BY <1>13 DEF Look, Pick, Pass, IsNext, LookOrUnlock, redis, HasArguments
<1>14. ASSUME NEW p \in Proc, TakeRem(p) PROVE LeaseKept(i)
  BY <1>14 DEF TakeRem, HasArguments
<1>15. ASSUME NEW p \in Proc, TakeSet(p) PROVE LeaseKept(i)
  BY <1>15 DEF TakeSet, LeasedEntry, HasArguments
<1>16. ASSUME NEW p \in Proc, TakeAdd(p) PROVE LeaseKept(i)
  BY <1>16 DEF TakeAdd, HasArguments
<1>17. ASSUME NEW p \in Proc, Unlock(p) PROVE LeaseKept(i)
  BY <1>17 DEF Unlock, HasArguments
<1>18. ASSUME NEW p \in Proc, NEW j \in Job, NEW s \in Final, BeginComplete(p, j, s)
       PROVE  LeaseKept(i)
  BY <1>18 DEF BeginComplete, Begin, redis, HasArguments
<1>19. ASSUME NEW p \in Proc, CompleteGet(p) PROVE LeaseKept(i)
  BY <1>19 DEF CompleteGet, redis, HasArguments
<1>20. ASSUME NEW p \in Proc, CompleteRem(p) PROVE LeaseKept(i)
  BY <1>20 DEF CompleteRem, HasArguments
<1>21. ASSUME NEW p \in Proc, CompleteSet(p) PROVE LeaseKept(i)
  BY <1>21 DEF CompleteSet, Entry, Final, HasArguments
<1>22. ASSUME NEW p \in Proc, NEW j \in Job, BeginCancel(p, j) PROVE LeaseKept(i)
  BY <1>22 DEF BeginCancel, Begin, redis, HasArguments
<1>23. ASSUME NEW p \in Proc, CancelGet(p) PROVE LeaseKept(i)
  BY <1>23 DEF CancelGet, redis, HasArguments
<1>24. ASSUME NEW p \in Proc, CancelRemQueue(p) PROVE LeaseKept(i)
  BY <1>24 DEF CancelRemQueue, HasArguments
<1>25. ASSUME NEW p \in Proc, CancelRemLease(p) PROVE LeaseKept(i)
  BY <1>25 DEF CancelRemLease, HasArguments
<1>26. ASSUME NEW p \in Proc, CancelSet(p) PROVE LeaseKept(i)
  BY <1>26 DEF CancelSet, Entry, Final, HasArguments
<1>27. ASSUME Tick PROVE LeaseKept(i)
  BY <1>27 DEF Tick, redis, HasArguments
<1>28. ASSUME NEW p \in Proc, Crash(p) PROVE LeaseKept(i)
  BY <1>28 DEF Crash, redis, HasArguments
<1>29. CASE UNCHANGED vars
  BY <1>29 DEF vars
<1> QED
  BY <1>1, <1>2, <1>3, <1>4, <1>5, <1>6, <1>7, <1>8, <1>9, <1>10, <1>11, <1>12, <1>13, <1>14,
      <1>15, <1>16, <1>17, <1>18, <1>19, <1>20, <1>21, <1>22, <1>23, <1>24, <1>25, <1>26, <1>27,
      <1>28, <1>29, SMTT(30) DEF Next, EnqueueNext, LeaseNext, CompleteNext, CancelNext

EndKept(j) == Ended(j) /\ ~InHand(j) => Ended(j)' /\ ~InHand(j)'

(* An ended job changes only through a lease call or an enqueue that looked *)
(* at its key before.                                                       *)
LEMMA EndKeptStep ==
  TypeOK /\ Keys /\ [Next]_vars => \A j \in Job : EndKept(j)
<1> SUFFICES ASSUME TypeOK, Keys, [Next]_vars, NEW i \in Job, Ended(i), ~InHand(i)
             PROVE  Ended(i)' /\ ~InHand(i)'
  BY DEF EndKept
<1> USE DEF Keys, OnKeys, KnowsKey, TypeOK, StoreTyped, CallsTyped, Locals, JobKey, Ended,
    InHand, Final
<1>1. ASSUME NEW p \in Proc, NEW j \in Job, BeginEnqueue(p, j) PROVE Ended(i)' /\ ~InHand(i)'
  BY <1>1 DEF BeginEnqueue, Begin, redis, HasArguments, Go, Return, NoCall, HasExpired
<1>2. ASSUME NEW p \in Proc, Exists(p) PROVE Ended(i)' /\ ~InHand(i)'
  BY <1>2 DEF Exists, redis, HasArguments, Go, Return, NoCall, HasExpired
<1>3. ASSUME NEW p \in Proc, PutJob(p) PROVE Ended(i)' /\ ~InHand(i)'
  BY <1>3 DEF PutJob, Entry, HasArguments, Go, Return, NoCall, HasExpired
<1>4. ASSUME NEW p \in Proc, PutQueue(p) PROVE Ended(i)' /\ ~InHand(i)'
  BY <1>4 DEF PutQueue, HasArguments, Go, Return, NoCall, HasExpired
<1>5. ASSUME NEW p \in Proc, NEW r \in Runner, BeginLease(p, r) PROVE Ended(i)' /\ ~InHand(i)'
  BY <1>5 DEF BeginLease, Begin, redis, HasArguments, Go, Return, NoCall, HasExpired
<1>6. ASSUME NEW p \in Proc, Lock(p) PROVE Ended(i)' /\ ~InHand(i)'
  BY <1>6 DEF Lock, HasArguments, Go, Return, NoCall, HasExpired
<1>7. ASSUME NEW p \in Proc, SweepList(p) PROVE Ended(i)' /\ ~InHand(i)'
  BY <1>7 DEF SweepList, SweepOrScan, redis, HasArguments, Go, Return, NoCall, HasExpired
<1>8. ASSUME NEW p \in Proc, SweepGet(p) PROVE Ended(i)' /\ ~InHand(i)'
  BY <1>8 DEF SweepGet, redis, HasArguments, Go, Return, NoCall, HasExpired
<1>9. ASSUME NEW p \in Proc, SweepRem(p) PROVE Ended(i)' /\ ~InHand(i)'
  BY <1>9 DEF SweepRem, SweepOrScan, HasArguments, Go, Return, NoCall, HasExpired
<1>10. ASSUME NEW p \in Proc, RequeueSet(p) PROVE Ended(i)' /\ ~InHand(i)'
  BY <1>10 DEF RequeueSet, Entry, HasArguments, Go, Return, NoCall, HasExpired
<1>11. ASSUME NEW p \in Proc, RequeueAdd(p) PROVE Ended(i)' /\ ~InHand(i)'
  BY <1>11 DEF RequeueAdd, SweepOrScan, HasArguments, Go, Return, NoCall, HasExpired
<1>12. ASSUME NEW p \in Proc, Scan(p) PROVE Ended(i)' /\ ~InHand(i)'
  BY <1>12 DEF Scan, LookOrUnlock, redis, HasArguments, Go, Return, NoCall, HasExpired
<1>13. ASSUME NEW p \in Proc, Look(p) PROVE Ended(i)' /\ ~InHand(i)'
  <2>1. UNCHANGED job /\ pc[p] = "look"
    BY <1>13 DEF Look, redis
  <2>2. PICK j \in Job : \/ Pick(p, j) /\ job[j].status = "queued"
                         \/ Pass(p, j)
    BY <1>13 DEF Look
  <2>3. CASE Pick(p, j) /\ job[j].status = "queued"
    BY <2>1, <2>3 DEF Pick, Go, HasExpired
  <2>4. CASE Pass(p, j)
    BY <2>1, <2>4 DEF Pass, LookOrUnlock, Go, HasExpired
  <2> QED
    BY <2>2, <2>3, <2>4
<1>14. ASSUME NEW p \in Proc, TakeRem(p) PROVE Ended(i)' /\ ~InHand(i)'
  BY <1>14 DEF TakeRem, HasArguments, Go, Return, NoCall, HasExpired
<1>15. ASSUME NEW p \in Proc, TakeSet(p) PROVE Ended(i)' /\ ~InHand(i)'
  BY <1>15 DEF TakeSet, LeasedEntry, HasArguments, Go, Return, NoCall, HasExpired
<1>16. ASSUME NEW p \in Proc, TakeAdd(p) PROVE Ended(i)' /\ ~InHand(i)'
  BY <1>16 DEF TakeAdd, HasArguments, Go, Return, NoCall, HasExpired
<1>17. ASSUME NEW p \in Proc, Unlock(p) PROVE Ended(i)' /\ ~InHand(i)'
  BY <1>17 DEF Unlock, HasArguments, Go, Return, NoCall, HasExpired
<1>18. ASSUME NEW p \in Proc, NEW j \in Job, NEW s \in Final, BeginComplete(p, j, s)
       PROVE  Ended(i)' /\ ~InHand(i)'
  BY <1>18 DEF BeginComplete, Begin, redis, HasArguments, Go, Return, NoCall, HasExpired
<1>19. ASSUME NEW p \in Proc, CompleteGet(p) PROVE Ended(i)' /\ ~InHand(i)'
  BY <1>19 DEF CompleteGet, redis, HasArguments, Go, Return, NoCall, HasExpired
<1>20. ASSUME NEW p \in Proc, CompleteRem(p) PROVE Ended(i)' /\ ~InHand(i)'
  BY <1>20 DEF CompleteRem, HasArguments, Go, Return, NoCall, HasExpired
<1>21. ASSUME NEW p \in Proc, CompleteSet(p) PROVE Ended(i)' /\ ~InHand(i)'
  BY <1>21 DEF CompleteSet, Entry, HasArguments, Go, Return, NoCall, HasExpired
<1>22. ASSUME NEW p \in Proc, NEW j \in Job, BeginCancel(p, j) PROVE Ended(i)' /\ ~InHand(i)'
  BY <1>22 DEF BeginCancel, Begin, redis, HasArguments, Go, Return, NoCall, HasExpired
<1>23. ASSUME NEW p \in Proc, CancelGet(p) PROVE Ended(i)' /\ ~InHand(i)'
  BY <1>23 DEF CancelGet, redis, HasArguments, Go, Return, NoCall, HasExpired
<1>24. ASSUME NEW p \in Proc, CancelRemQueue(p) PROVE Ended(i)' /\ ~InHand(i)'
  BY <1>24 DEF CancelRemQueue, HasArguments, Go, Return, NoCall, HasExpired
<1>25. ASSUME NEW p \in Proc, CancelRemLease(p) PROVE Ended(i)' /\ ~InHand(i)'
  BY <1>25 DEF CancelRemLease, HasArguments, Go, Return, NoCall, HasExpired
<1>26. ASSUME NEW p \in Proc, CancelSet(p) PROVE Ended(i)' /\ ~InHand(i)'
  BY <1>26 DEF CancelSet, Entry, HasArguments, Go, Return, NoCall, HasExpired
<1>27. ASSUME Tick PROVE Ended(i)' /\ ~InHand(i)'
  BY <1>27 DEF Tick, redis, HasArguments, Go, Return, NoCall, HasExpired
<1>28. ASSUME NEW p \in Proc, Crash(p) PROVE Ended(i)' /\ ~InHand(i)'
  BY <1>28 DEF Crash, redis, HasArguments, Go, Return, NoCall, HasExpired
<1>29. CASE UNCHANGED vars
  BY <1>29 DEF vars
<1> QED
  BY <1>1, <1>2, <1>3, <1>4, <1>5, <1>6, <1>7, <1>8, <1>9, <1>10, <1>11, <1>12, <1>13, <1>14,
      <1>15, <1>16, <1>17, <1>18, <1>19, <1>20, <1>21, <1>22, <1>23, <1>24, <1>25, <1>26, <1>27,
      <1>28, <1>29, SMTT(30) DEF Next, EnqueueNext, LeaseNext, CompleteNext, CancelNext

-------------------------------------------------------------------------------
(* The theorems. *)

(* What every variable ranges over, in every reachable state.                *)
THEOREM Typing == Spec => []TypeOK
<1>1. Init => TypeOK
  <2> SUFFICES ASSUME Init PROVE TypeOK
    OBVIOUS
  <2>1. StoreTyped
    BY DEF Init, StoreTyped
  <2>2. CallsTyped
    <3>1. NoCall \in Locals /\ NoCall.at = 0
      BY NoCallTyped
    <3> QED
      BY <3>1 DEF Init, CallsTyped, Step, HasArguments, Section, SweepStep, TakeStep
  <2> QED
    BY <2>1, <2>2 DEF TypeOK
<1> QED
  BY <1>1, TypeStep, PTL DEF Spec

(* No sorted set and no call refers to a key that does not exist, whatever   *)
(* the interleaving and wherever calls crash.                                *)
THEOREM NoKeyMissing == Spec => []Keys
<1>1. Init => Keys
  BY DEF Init, Keys, Listed, OnKeys, KnowsKey, NoCall
<1> QED
  BY <1>1, KeysStep, Typing, PTL DEF Spec

(* The lock excludes: as long as no lease call outlasts the PX of its lock,  *)
(* at most one is between taking the lock and giving it up, although DEL     *)
(* does not look whose lock it deletes, and although calls may crash.        *)
THEOREM LockExcludes == Spec /\ []LockOutlasts => []OneInSection
<1>1. Init => Exclusion
  BY DEF Init, Exclusion, OneInSection, LockIsHeld, Section, SweepStep, TakeStep
<1>2. Exclusion => OneInSection
  BY DEF Exclusion
<1> QED
  BY <1>1, <1>2, ExclusionStep, Typing, PTL DEF Spec

(* What the holder of the lock knows, in every reachable state.             *)
LEMMA LeasingHolds == Spec /\ []LockOutlasts => []Leasing
<1>1. Init => Exclusion
  BY DEF Init, Exclusion, OneInSection, LockIsHeld, Section, SweepStep, TakeStep
<1>2. Init => Leasing
  BY DEF Init, Leasing, Sweeps, Takes, SweepStep
<1> QED
  BY <1>1, <1>2, ExclusionStep, LeasingStep, Typing, NoKeyMissing, PTL DEF Spec

(* No lease is requeued or given to another runner before its time has run   *)
(* out, for any interleaving with reports, cancellations and enqueues of the *)
(* same id, crashes included, as long as no lease call outlasts its lock;    *)
(* except by the SET of an enqueue that had found no key.                    *)
THEOREM LeasesAreExclusive == Spec /\ []LockOutlasts => LeaseExclusive
<1>1. TypeOK /\ Keys /\ Leasing /\ [Next]_vars
        => [\A j \in Job :
              /\ job[j] # None /\ job[j].status = "leased"
              /\ job'[j] # job[j] /\ job'[j].status \in {"queued", "leased"}
              => job[j].expires <= now \/ Puts(j)]_vars
  BY LeaseKeptStep DEF LeaseKept
<1> QED
  BY <1>1, LeasingHolds, Typing, NoKeyMissing, PTL DEF Spec, LeaseExclusive

(* A job that is cancelled or reported stays so, unless a lease call or an   *)
(* enqueue had looked at its key before: no sweep, no take and no later call *)
(* brings it back.                                                           *)
(* Nothing is assumed of the lock.                                           *)
THEOREM EndedJobsStay == Spec => EndedStays
<1>1. TypeOK /\ Keys /\ [Next]_vars
        => [\A j \in Job : Ended(j) /\ ~InHand(j) => Ended(j)' /\ ~InHand(j)']_vars
  BY EndKeptStep DEF EndKept
<1> QED
  BY <1>1, Typing, NoKeyMissing, PTL DEF Spec, EndedStays

(* No interleaving of enqueue, lease, complete and cancel leaves a job where *)
(* no later call finds it, as long as no call dies halfway and no lease call *)
(* outlasts its lock.                                                        *)
THEOREM NoJobIsLost == ~CrashesAllowed => (Spec /\ []LockOutlasts => []NothingLost)
<1> SUFFICES ASSUME ~CrashesAllowed PROVE Spec /\ []LockOutlasts => []NothingLost
  OBVIOUS
<1>1. Init => NothingLost
  BY DEF Init, NothingLost
<1>2. Init => SetsAgree
  BY DEF Init, SetsAgree
<1>3. TypeOK /\ Leasing /\ SetsAgree /\ [Next]_vars => SetsAgree'
  BY SetsStep
<1>4. TypeOK /\ Keys /\ OneInSection /\ Leasing /\ SetsAgree /\ NothingLost /\ [Next]_vars
        => NothingLost'
  BY ReachableStep
<1> QED
  BY <1>1, <1>2, <1>3, <1>4, LeasingHolds, LockExcludes, Typing, NoKeyMissing, PTL DEF Spec

(* A behaviour no longer than the PX of the lock keeps every lock long       *)
(* enough: the hypothesis of the theorems above holds of the instance TLC    *)
(* checks, and of every other with LockTTL > MaxTime.                        *)
THEOREM ShortRunsOutlast == LockTTL > MaxTime => (Spec => []LockOutlasts)
<1> DEFINE Young == now <= MaxTime /\ (lock # None => lock >= LockTTL)
<1> SUFFICES ASSUME LockTTL > MaxTime PROVE Spec => []LockOutlasts
  OBVIOUS
<1>1. Init => Young
  BY DEF Init
<1>2. TypeOK /\ Young /\ [Next]_vars => Young'
  <2> SUFFICES ASSUME TypeOK, Young, [Next]_vars PROVE Young'
    OBVIOUS
  <2>1. CASE Tick
    BY <2>1 DEF Tick, redis, TypeOK, StoreTyped
  <2>2. ASSUME NEW p \in Proc, Lock(p) PROVE Young'
    BY <2>2 DEF Lock, TypeOK, StoreTyped
  <2>3. ASSUME NEW p \in Proc, Unlock(p) PROVE Young'
    BY <2>3 DEF Unlock
  <2>4. CASE UNCHANGED <<now, lock>>
    BY <2>4
  <2>5. ASSUME NEW p \in Proc, EnqueueNext(p) PROVE UNCHANGED <<now, lock>>
    BY <2>5 DEF EnqueueNext, BeginEnqueue, Begin, Exists, PutJob, PutQueue, redis
  <2>6. ASSUME NEW p \in Proc, LeaseNext(p), ~Lock(p), ~Unlock(p) PROVE UNCHANGED <<now, lock>>
    BY <2>6 DEF LeaseNext, BeginLease, Begin, SweepList, SweepGet, SweepRem, RequeueSet,
                RequeueAdd, Scan, Look, TakeRem, TakeSet, TakeAdd, redis
  <2>7. ASSUME NEW p \in Proc, CompleteNext(p) PROVE UNCHANGED <<now, lock>>
    BY <2>7 DEF CompleteNext, BeginComplete, Begin, CompleteGet, CompleteRem, CompleteSet, redis
  <2>8. ASSUME NEW p \in Proc, CancelNext(p) \/ Crash(p) PROVE UNCHANGED <<now, lock>>
    BY <2>8 DEF CancelNext, BeginCancel, Begin, CancelGet, CancelRemQueue, CancelRemLease,
                CancelSet, Crash, redis
  <2> QED
    BY <2>1, <2>2, <2>3, <2>4, <2>5, <2>6, <2>7, <2>8 DEF Next, vars
<1>3. TypeOK /\ Young => LockOutlasts
  BY DEF TypeOK, StoreTyped, LockOutlasts
<1> QED
  BY <1>1, <1>2, <1>3, Typing, PTL DEF Spec

-------------------------------------------------------------------------------
(* Calls that do not overlap. *)

Overlap == \E p, q \in Proc : p # q

(* What a call has read is still so when it writes.                          *)
Fresh(p) ==
  LET j == call[p].job
  IN /\ pc[p] = "putJob" => job[j] = None
     /\ pc[p] = "sweepRem" => call[p].raw = job[j]
     /\ pc[p] \in {"requeueSet", "completeRem", "completeSet"} => IsLeased(j)
     /\ pc[p] \in {"takeRem", "takeSet"} => IsQueued(j) /\ <<j, call[p].runner>> \in Compatible
     /\ pc[p] \in {"cancelRemQueue", "cancelRemLease", "cancelSet"} => IsQueued(j) \/ IsLeased(j)

Steady == \A j \in Job : job[j] # None /\ ~IsLeased(j) => job[j].runner = None

Sequential == Steady /\ \A p \in Proc : Fresh(p)

(* With one call at a time nothing changes between what it reads and what   *)
(* it writes.                                                               *)
LEMMA SequentialStep == ~Overlap /\ TypeOK /\ Keys /\ Sequential /\ [Next]_vars => Sequential'
<1> SUFFICES ASSUME ~Overlap, TypeOK, Keys, Sequential, [Next]_vars PROVE Sequential'
  OBVIOUS
<1> USE DEF Overlap, Keys, OnKeys, KnowsKey, TypeOK, StoreTyped, CallsTyped, Locals, JobKey,
    Sequential, Steady, Fresh, IsLeased, IsQueued
<1>1. ASSUME NEW p \in Proc, NEW j \in Job, BeginEnqueue(p, j) PROVE Sequential'
  BY <1>1 DEF BeginEnqueue, Begin, redis, HasArguments, Go, Return, NoCall, HasExpired
<1>2. ASSUME NEW p \in Proc, Exists(p) PROVE Sequential'
  BY <1>2 DEF Exists, redis, HasArguments, Go, Return, NoCall, HasExpired
<1>3. ASSUME NEW p \in Proc, PutJob(p) PROVE Sequential'
  BY <1>3 DEF PutJob, Entry, HasArguments, Go, Return, NoCall, HasExpired, Final
<1>4. ASSUME NEW p \in Proc, PutQueue(p) PROVE Sequential'
  BY <1>4 DEF PutQueue, HasArguments, Go, Return, NoCall, HasExpired
<1>5. ASSUME NEW p \in Proc, NEW r \in Runner, BeginLease(p, r) PROVE Sequential'
  BY <1>5 DEF BeginLease, Begin, redis, HasArguments, Go, Return, NoCall, HasExpired
<1>6. ASSUME NEW p \in Proc, Lock(p) PROVE Sequential'
  BY <1>6 DEF Lock, HasArguments, Go, Return, NoCall, HasExpired
<1>7. ASSUME NEW p \in Proc, SweepList(p) PROVE Sequential'
  BY <1>7, SMTT(30) DEF SweepList, SweepOrScan, redis, HasArguments, Go, Return, NoCall, HasExpired
<1>8. ASSUME NEW p \in Proc, SweepGet(p) PROVE Sequential'
  BY <1>8 DEF SweepGet, redis, HasArguments, Go, Return, NoCall, HasExpired
<1>9. ASSUME NEW p \in Proc, SweepRem(p) PROVE Sequential'
  BY <1>9 DEF SweepRem, SweepOrScan, HasArguments, Go, Return, NoCall, HasExpired
<1>10. ASSUME NEW p \in Proc, RequeueSet(p) PROVE Sequential'
  BY <1>10 DEF RequeueSet, Entry, HasArguments, Go, Return, NoCall, HasExpired, Final
<1>11. ASSUME NEW p \in Proc, RequeueAdd(p) PROVE Sequential'
  BY <1>11 DEF RequeueAdd, SweepOrScan, HasArguments, Go, Return, NoCall, HasExpired
<1>12. ASSUME NEW p \in Proc, Scan(p) PROVE Sequential'
  BY <1>12 DEF Scan, LookOrUnlock, redis, HasArguments, Go, Return, NoCall, HasExpired
<1>13. ASSUME NEW p \in Proc, Look(p) PROVE Sequential'
  <2>1. UNCHANGED job /\ pc[p] = "look" /\ \A q \in Proc : q = p
    BY <1>13 DEF Look, redis
  <2>2. PICK j \in Job :
          /\ IsNext(j, call[p].ids)
          /\ \/ Pick(p, j) /\ job[j].status = "queued" /\ <<j, call[p].runner>> \in Compatible
             \/ Pass(p, j)
    BY <1>13 DEF Look
  <2>3. CASE Pick(p, j) /\ job[j].status = "queued" /\ <<j, call[p].runner>> \in Compatible
    BY <2>1, <2>2, <2>3 DEF Pick, Go, IsNext
  <2>4. CASE Pass(p, j)
    BY <2>1, <2>4 DEF Pass, LookOrUnlock, Go
  <2> QED
    BY <2>2, <2>3, <2>4
<1>14. ASSUME NEW p \in Proc, TakeRem(p) PROVE Sequential'
  BY <1>14 DEF TakeRem, HasArguments, Go, Return, NoCall, HasExpired
<1>15. ASSUME NEW p \in Proc, TakeSet(p) PROVE Sequential'
  BY <1>15 DEF TakeSet, LeasedEntry, HasArguments, Go, Return, NoCall, HasExpired, Final
<1>16. ASSUME NEW p \in Proc, TakeAdd(p) PROVE Sequential'
  BY <1>16 DEF TakeAdd, HasArguments, Go, Return, NoCall, HasExpired
<1>17. ASSUME NEW p \in Proc, Unlock(p) PROVE Sequential'
  BY <1>17 DEF Unlock, HasArguments, Go, Return, NoCall, HasExpired
<1>18. ASSUME NEW p \in Proc, NEW j \in Job, NEW s \in Final, BeginComplete(p, j, s)
       PROVE  Sequential'
  BY <1>18 DEF BeginComplete, Begin, redis, HasArguments, Go, Return, NoCall, HasExpired
<1>19. ASSUME NEW p \in Proc, CompleteGet(p) PROVE Sequential'
  BY <1>19 DEF CompleteGet, redis, HasArguments, Go, Return, NoCall, HasExpired
<1>20. ASSUME NEW p \in Proc, CompleteRem(p) PROVE Sequential'
  BY <1>20 DEF CompleteRem, HasArguments, Go, Return, NoCall, HasExpired
<1>21. ASSUME NEW p \in Proc, CompleteSet(p) PROVE Sequential'
  BY <1>21 DEF CompleteSet, Entry, HasArguments, Go, Return, NoCall, HasExpired, Final
<1>22. ASSUME NEW p \in Proc, NEW j \in Job, BeginCancel(p, j) PROVE Sequential'
  BY <1>22 DEF BeginCancel, Begin, redis, HasArguments, Go, Return, NoCall, HasExpired
<1>23. ASSUME NEW p \in Proc, CancelGet(p) PROVE Sequential'
  BY <1>23 DEF CancelGet, redis, HasArguments, Go, Return, NoCall, HasExpired
<1>24. ASSUME NEW p \in Proc, CancelRemQueue(p) PROVE Sequential'
  BY <1>24 DEF CancelRemQueue, HasArguments, Go, Return, NoCall, HasExpired
<1>25. ASSUME NEW p \in Proc, CancelRemLease(p) PROVE Sequential'
  BY <1>25 DEF CancelRemLease, HasArguments, Go, Return, NoCall, HasExpired
<1>26. ASSUME NEW p \in Proc, CancelSet(p) PROVE Sequential'
  BY <1>26 DEF CancelSet, Entry, HasArguments, Go, Return, NoCall, HasExpired, Final
<1>27. ASSUME Tick PROVE Sequential'
  BY <1>27 DEF Tick, redis, HasArguments, Go, Return, NoCall, HasExpired
<1>28. ASSUME NEW p \in Proc, Crash(p) PROVE Sequential'
  BY <1>28 DEF Crash, redis, HasArguments, Go, Return, NoCall, HasExpired
<1>29. CASE UNCHANGED vars
  BY <1>29 DEF vars
<1> QED
  BY <1>1, <1>2, <1>3, <1>4, <1>5, <1>6, <1>7, <1>8, <1>9, <1>10, <1>11, <1>12, <1>13, <1>14,
      <1>15, <1>16, <1>17, <1>18, <1>19, <1>20, <1>21, <1>22, <1>23, <1>24, <1>25, <1>26, <1>27,
      <1>28, <1>29 DEF Next, EnqueueNext, LeaseNext, CompleteNext, CancelNext

(* What writing one key does to the refinement mapping.                     *)
LEMMA KeyWritten ==
  ASSUME TypeOK, NEW k \in Job, NEW e \in JobKey, job' = [job EXCEPT ![k] = e]
  PROVE  \A i \in Job : /\ PhaseOf(i)' = IF i = k THEN e.status ELSE PhaseOf(i)
                        /\ HolderOf(i)' = IF i = k THEN e.runner ELSE HolderOf(i)
  BY DEF TypeOK, StoreTyped, PhaseOf, HolderOf

(* Each write of a key is an operation of the contract, every other command *)
(* a stutter.                                                               *)
LEMMA ContractStep ==
  TypeOK /\ Keys /\ Sequential /\ [Next]_vars => [Contract!Next]_(Contract!vars)
<1> SUFFICES ASSUME TypeOK, Keys, Sequential, [Next]_vars PROVE [Contract!Next]_(Contract!vars)
  OBVIOUS
<1>0. ASSUME NEW k \in Job PROVE
        /\ IsQueued(k) => PhaseOf(k) = "queued" /\ HolderOf(k) = None
        /\ IsLeased(k) => PhaseOf(k) = "leased"
        /\ job[k] = None => PhaseOf(k) = "new" /\ HolderOf(k) = None
  BY <1>0 DEF IsQueued, IsLeased, PhaseOf, HolderOf, Sequential, Steady
<1>1. CASE UNCHANGED job
  <2>1. \A k \in Job : PhaseOf(k)' = PhaseOf(k) /\ HolderOf(k)' = HolderOf(k)
    BY <1>1 DEF PhaseOf, HolderOf
  <2> QED
    BY <2>1, Zenon DEF Contract!vars
<1>2. ASSUME NEW p \in Proc, PutJob(p) PROVE Contract!Next
  <2> DEFINE k == call[p].job
  <2>1. k \in Job /\ job[k] = None
    BY <1>2 DEF PutJob, TypeOK, CallsTyped, HasArguments, EnqueueStep, Sequential, Fresh
  <2>2. /\ Entry("queued") \in JobKey
        /\ Entry("queued").status = "queued"
        /\ Entry("queued").runner = None
    BY DEF Entry, JobKey
  <2>3. job' = [job EXCEPT ![k] = Entry("queued")]
    BY <1>2 DEF PutJob
  <2> HIDE DEF k
  <2>4. /\ \A i \in Job : PhaseOf(i)' = IF i = k THEN "queued" ELSE PhaseOf(i)
        /\ \A i \in Job : HolderOf(i)' = HolderOf(i)
    BY <1>0, <2>1, <2>2, <2>3, KeyWritten
  <2>5. PhaseOf(k) \notin Contract!Live
    BY <1>0, <2>1 DEF Contract!Live
  <2>6. Contract!Submit(k)
    BY <2>1, <2>4, <2>5, Zenon DEF Contract!Submit
  <2> QED
    BY <2>1, <2>6 DEF Contract!Next
<1>3. ASSUME NEW p \in Proc, RequeueSet(p) PROVE Contract!Next
  <2> DEFINE k == call[p].job
  <2>1. k \in Job /\ IsLeased(k)
    BY <1>3 DEF RequeueSet, TypeOK, CallsTyped, HasArguments, Sequential, Fresh
  <2>2. /\ Entry("queued") \in JobKey
        /\ Entry("queued").status = "queued"
        /\ Entry("queued").runner = None
    BY DEF Entry, JobKey
  <2>3. job' = [job EXCEPT ![k] = Entry("queued")]
    BY <1>3 DEF RequeueSet
  <2> HIDE DEF k
  <2>4. /\ \A i \in Job : PhaseOf(i)' = IF i \in {k} THEN "queued" ELSE PhaseOf(i)
        /\ \A i \in Job : HolderOf(i)' = IF i \in {k} THEN None ELSE HolderOf(i)
    BY <2>1, <2>2, <2>3, KeyWritten
  <2>5. {k} \in SUBSET Contract!JobsIn("leased")
    BY <1>0, <2>1 DEF Contract!JobsIn
  <2>6. Contract!Reclaim({k})
    BY <2>4, Zenon DEF Contract!Reclaim
  <2> QED
    BY <2>5, <2>6 DEF Contract!Next
<1>4. ASSUME NEW p \in Proc, TakeSet(p) PROVE Contract!Next
  <2> DEFINE k == call[p].job
             r == call[p].runner
             e == LeasedEntry(r, call[p].at + LeaseDuration)
  <2>1. k \in Job /\ r \in Runner /\ IsQueued(k) /\ <<k, r>> \in Compatible
    BY <1>4 DEF TakeSet, TypeOK, CallsTyped, HasArguments, Section, TakeStep, Sequential, Fresh
  <2>2. e \in JobKey /\ e.status = "leased" /\ e.runner = r
    BY <2>1 DEF LeasedEntry, JobKey, TypeOK, CallsTyped, Locals
  <2>3. job' = [job EXCEPT ![k] = e]
    BY <1>4 DEF TakeSet
  <2> HIDE DEF k, r, e
  <2>4. /\ \A i \in Job : PhaseOf(i)' = IF i = k THEN "leased"
                                        ELSE IF i \in {} THEN "queued" ELSE PhaseOf(i)
        /\ \A i \in Job : HolderOf(i)' = IF i = k THEN r
                                         ELSE IF i \in {} THEN None ELSE HolderOf(i)
    BY <2>1, <2>2, <2>3, KeyWritten
  <2>5. k \in Contract!JobsIn("queued") \cup {}
    BY <1>0, <2>1 DEF Contract!JobsIn
  <2>6. Contract!ReclaimAndGrant({}, k, r)
    BY <2>1, <2>4, <2>5, Zenon DEF Contract!ReclaimAndGrant
  <2> QED
    BY <2>1, <2>6 DEF Contract!Next
<1>5. ASSUME NEW p \in Proc, CompleteSet(p) PROVE Contract!Next
  <2> DEFINE k == call[p].job
             status == call[p].status
  <2>1. k \in Job /\ status \in Final /\ IsLeased(k)
    BY <1>5 DEF CompleteSet, TypeOK, CallsTyped, HasArguments, Sequential, Fresh
  <2>2. Entry(status) \in JobKey /\ Entry(status).status = status /\ Entry(status).runner = None
    BY <2>1 DEF Entry, JobKey
  <2>3. job' = [job EXCEPT ![k] = Entry(status)]
    BY <1>5 DEF CompleteSet
  <2> HIDE DEF k, status
  <2>4. /\ \A i \in Job : PhaseOf(i)' = IF i = k THEN status ELSE PhaseOf(i)
        /\ \A i \in Job : HolderOf(i)' = IF i = k THEN None ELSE HolderOf(i)
    BY <2>1, <2>2, <2>3, KeyWritten
  <2>5. Contract!Finish(k, status)
    BY <1>0, <2>1, <2>4, Zenon DEF Contract!Finish
  <2> QED
    BY <2>1, <2>5 DEF Contract!Next, Final, Contract!Final
<1>6. ASSUME NEW p \in Proc, CancelSet(p) PROVE Contract!Next
  <2> DEFINE k == call[p].job
  <2>1. k \in Job /\ (IsQueued(k) \/ IsLeased(k))
    BY <1>6 DEF CancelSet, TypeOK, CallsTyped, HasArguments, Sequential, Fresh
  <2>2. /\ Entry("cancelled") \in JobKey
        /\ Entry("cancelled").status = "cancelled"
        /\ Entry("cancelled").runner = None
    BY DEF Entry, JobKey, Final
  <2>3. job' = [job EXCEPT ![k] = Entry("cancelled")]
    BY <1>6 DEF CancelSet
  <2> HIDE DEF k
  <2>4. /\ \A i \in Job : PhaseOf(i)' = IF i = k THEN "cancelled" ELSE PhaseOf(i)
        /\ \A i \in Job : HolderOf(i)' = IF i = k THEN None ELSE HolderOf(i)
    BY <2>1, <2>2, <2>3, KeyWritten
  <2>5. PhaseOf(k) \in Contract!Live
    BY <1>0, <2>1 DEF Contract!Live
  <2>6. Contract!Withdraw(k)
    BY <2>1, <2>4, <2>5, Zenon DEF Contract!Withdraw
  <2> QED
    BY <2>1, <2>6 DEF Contract!Next
<1> QED
  BY <1>1, <1>2, <1>3, <1>4, <1>5, <1>6, ZenonT(60) DEF Next, vars, redis, EnqueueNext, LeaseNext,
      CompleteNext, CancelNext,
       BeginEnqueue, Begin, Exists, PutQueue, BeginLease, Lock, SweepList, SweepGet, SweepRem,
       RequeueAdd, Scan, Look, TakeRem, TakeAdd, Unlock, BeginComplete, CompleteGet,
       CompleteRem, BeginCancel, CancelGet, CancelRemQueue, CancelRemLease, Crash, Tick

(* Calls that do not overlap keep the contract of the queue whatever their   *)
(* number and order, although any of them may die between two commands.      *)
THEOREM SequentialCallsKeepContract == ~Overlap => (Spec => KeepsContractInTurn)
<1> SUFFICES ASSUME ~Overlap PROVE Spec => KeepsContractInTurn
  OBVIOUS
<1>1. Init => Sequential
  BY DEF Init, Sequential, Steady, Fresh
<1>2. Init => Contract!Init
  BY DEF Init, Contract!Init, PhaseOf, HolderOf
<1>3. TypeOK /\ Keys /\ Sequential /\ [Next]_vars => Sequential'
  BY SequentialStep
<1> QED
  BY <1>1, <1>2, <1>3, ContractStep, Typing, NoKeyMissing, PTL DEF Spec, KeepsContractInTurn,
      Contract!Spec

===============================================================================
