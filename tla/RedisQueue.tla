------------------------------- MODULE RedisQueue -------------------------------
(***************************************************************************)
(* RedisExecutionQueue (src/packages/queue-adapter/src/index.ts:60-117) for *)
(* one organization.  Each method awaits one Redis command after another,  *)
(* so calls of several server processes, and of one process, interleave    *)
(* between any two commands: an action here is one command and the code up *)
(* to the next await.                                                      *)
(*                                                                         *)
(* Proc are the calls that may be in flight together.  Crash ends one      *)
(* between two commands: its server died, or the connection did.           *)
(*                                                                         *)
(* Abstractions.  The key job:<id> holds the status and, while leased, the *)
(* holder and the expiry.  No command deletes such a key, so the branches  *)
(* for an id of a sorted set without its key are left out.  heartbeat and  *)
(* listRunners read and write runner keys only, and no other method reads  *)
(* heartbeatAt: runners are registered from the start.  Expired ids are    *)
(* handled in any order (the code: by score).                              *)
(***************************************************************************)
EXTENDS Integers, FiniteSets

CONSTANTS
  Proc, Runner, Job,
  Calls,           \* the methods clients call: a part of AllCalls
  Score,           \* [Job -> Int], injective: createdAt - priority * 10^12
  Compatible,      \* the <<job, runner>> for which compatible() holds
  LeaseDuration,   \* leaseDurationMs, in ticks
  LockTTL,         \* PX of the lease lock (5000), in ticks
  Window,          \* how many ids zRange(queue, 0, 50) returns (51)
  MaxTime,         \* bound on the clock
  CrashesAllowed,  \* whether calls may die between two commands
  None

AllCalls == {"enqueue", "lease", "complete", "cancel"}

ASSUME RedisQueueAssumption ==
  /\ Calls \subseteq AllCalls
  /\ Score \in [Job -> Int]
  /\ \A i, j \in Job : Score[i] = Score[j] => i = j
  /\ Compatible \subseteq Job \X Runner
  /\ LeaseDuration \in Nat \ {0}
  /\ LockTTL \in Nat \ {0}
  /\ Window \in Nat \ {0}
  /\ MaxTime \in Nat
  /\ CrashesAllowed \in BOOLEAN

Final == {"passed", "failed", "cancelled"}

JobKey == [status : {"queued", "leased"} \cup Final, runner : Runner \cup {None}, expires : Nat]

ASSUME NoneAssumption == None \notin Nat \cup Runner \cup Job \cup JobKey

VARIABLES
  now,      \* Date.now(), the same for all servers and for Redis
  job,      \* the keys job:<id>
  queue,    \* the sorted set queue:<organization>, ordered by Score
  leases,   \* the sorted set leases:<organization>: [Job -> score or None]
  lock,     \* lease-lock:<organization>: when its PX runs out, or None
  pc,       \* the command each call is about to send
  call      \* the local variables of each call

vars == <<now, job, queue, leases, lock, pc, call>>

redis == <<job, queue, leases, lock>>

Entry(status) == [status |-> status, runner |-> None, expires |-> 0]

LeasedEntry(r, until) == [status |-> "leased", runner |-> r, expires |-> until]

NoCall == [job |-> None, runner |-> None, status |-> None, at |-> 0,
           expired |-> {}, ids |-> {}, raw |-> None]

(* The steps of lease between taking the lock and giving it up. *)
SweepStep == {"sweepList", "sweepGet", "sweepRem", "requeueSet", "requeueAdd"}
TakeStep == {"scan", "look", "takeRem", "takeSet", "takeAdd"}
Section == SweepStep \cup TakeStep \cup {"unlock"}

EnqueueStep == {"exists", "putJob", "putQueue"}

Step == {"idle", "lock"} \cup EnqueueStep \cup Section
          \cup {"completeGet", "completeRem", "completeSet",
                "cancelGet", "cancelRemQueue", "cancelRemLease", "cancelSet"}

Locals == [job : Job \cup {None}, runner : Runner \cup {None}, status : Final \cup {None},
           at : Nat, expired : SUBSET Job, ids : SUBSET Job, raw : JobKey \cup {None}]

(* A lease call has a runner, and an id once it has found one; the other     *)
(* calls are about an id.                                                    *)
HasArguments(step, c) ==
  /\ step \in {"lock"} \cup Section => c.runner \in Runner
  /\ step \notin {"idle", "lock", "sweepList", "sweepGet", "scan", "look", "unlock"} => c.job \in Job
  /\ step \in {"completeGet", "completeRem", "completeSet"} => c.status \in Final
  /\ step = "sweepGet" => c.expired # {}
  /\ step = "look" => c.ids # {}

StoreTyped ==
  /\ now \in Nat
  /\ job \in [Job -> JobKey \cup {None}]
  /\ queue \subseteq Job
  /\ leases \in [Job -> Nat \cup {None}]
  /\ lock \in Nat \cup {None}

CallsTyped ==
  /\ pc \in [Proc -> Step]
  /\ call \in [Proc -> Locals]
  /\ \A p \in Proc : HasArguments(pc[p], call[p]) /\ call[p].at <= now

TypeOK == StoreTyped /\ CallsTyped

-------------------------------------------------------------------------------

Init ==
  /\ now = 0
  /\ job = [j \in Job |-> None]
  /\ queue = {}
  /\ leases = [j \in Job |-> None]
  /\ lock = None
  /\ pc = [p \in Proc |-> "idle"]
  /\ call = [p \in Proc |-> NoCall]

Go(p, step) == pc' = [pc EXCEPT ![p] = step]

Return(p) ==
  /\ pc' = [pc EXCEPT ![p] = "idle"]
  /\ call' = [call EXCEPT ![p] = NoCall]

Begin(p, name, step, locals) ==
  /\ name \in Calls
  /\ pc[p] = "idle"
  /\ Go(p, step)
  /\ call' = [call EXCEPT ![p] = locals]
  /\ UNCHANGED <<now, redis>>

-------------------------------------------------------------------------------
(* enqueue: EXISTS, SET, ZADD. *)

(* The id of POST /v1/jobs is the client's, so several enqueues of one id    *)
(* may be under way together.                                                *)
BeginEnqueue(p, j) == Begin(p, "enqueue", "exists", [NoCall EXCEPT !.job = j])

Exists(p) ==
  /\ pc[p] = "exists"
  /\ IF job[call[p].job] # None
       THEN Return(p)
       ELSE Go(p, "putJob") /\ UNCHANGED call
  /\ UNCHANGED <<now, redis>>

(* What EXISTS found is not looked at again: the key may have been written,  *)
(* leased or ended since by way of another enqueue of the id.                *)
PutJob(p) ==
  /\ pc[p] = "putJob"
  /\ job' = [job EXCEPT ![call[p].job] = Entry("queued")]
  /\ Go(p, "putQueue")
  /\ UNCHANGED <<now, queue, leases, lock, call>>

PutQueue(p) ==
  /\ pc[p] = "putQueue"
  /\ queue' = queue \cup {call[p].job}
  /\ Return(p)
  /\ UNCHANGED <<now, job, leases, lock>>

-------------------------------------------------------------------------------
(* lease, first part: the lock and the sweep of expired leases. *)

BeginLease(p, r) == Begin(p, "lease", "lock", [NoCall EXCEPT !.runner = r])

(* Mutant: SET without NX. *)
LockIgnored == TRUE

LockFree == lock # None => lock <= now

(* SET lock NX PX, then zRangeByScore with the time read in between. *)
Lock(p) ==
  /\ pc[p] = "lock"
  /\ \/ /\ ~LockFree
        /\ Return(p)
        /\ UNCHANGED lock
     \/ /\ LockFree
        /\ lock' = now + LockTTL
        /\ Go(p, "sweepList")
        /\ UNCHANGED call
  /\ UNCHANGED <<now, job, queue, leases>>

SweepOrScan(S) == IF S = {} THEN "scan" ELSE "sweepGet"

SweepList(p) ==
  /\ pc[p] = "sweepList"
  /\ LET expired == {j \in Job : leases[j] # None /\ leases[j] <= now}
     IN /\ call' = [call EXCEPT ![p].at = now, ![p].expired = expired]
        /\ Go(p, SweepOrScan(expired))
  /\ UNCHANGED <<now, redis>>

SweepGet(p) ==
  /\ pc[p] = "sweepGet"
  /\ \E j \in call[p].expired :
       call' = [call EXCEPT ![p].job = j, ![p].raw = job[j]]
  /\ Go(p, "sweepRem")
  /\ UNCHANGED <<now, redis>>

(* Mutant: a strict comparison, where zRangeByScore includes its bound. *)
HasExpiredStrictly(entry, at) == entry.status = "leased" /\ entry.expires < at

HasExpired(entry, at) == entry.status = "leased" /\ entry.expires <= at

(* The swept id leaves the sorted set whether or not it is then requeued. *)
SweepRem(p) ==
  LET j    == call[p].job
      rest == call[p].expired \ {j}
  IN /\ pc[p] = "sweepRem"
     /\ leases' = [leases EXCEPT ![j] = None]
     /\ call' = [call EXCEPT ![p].expired = rest]
     /\ Go(p, IF HasExpired(call[p].raw, call[p].at) THEN "requeueSet"
              ELSE SweepOrScan(rest))
     /\ UNCHANGED <<now, job, queue, lock>>

RequeueSet(p) ==
  /\ pc[p] = "requeueSet"
  /\ job' = [job EXCEPT ![call[p].job] = Entry("queued")]
  /\ Go(p, "requeueAdd")
  /\ UNCHANGED <<now, queue, leases, lock, call>>

RequeueAdd(p) ==
  /\ pc[p] = "requeueAdd"
  /\ queue' = queue \cup {call[p].job}
  /\ Go(p, SweepOrScan(call[p].expired))
  /\ UNCHANGED <<now, job, leases, lock, call>>

-------------------------------------------------------------------------------
(* lease, second part: the first waiting job the runner can run. *)

LookOrUnlock(ids) == IF ids = {} THEN "unlock" ELSE "look"

Ahead(j, ids) == {i \in ids : Score[i] < Score[j]}

Scan(p) ==
  /\ pc[p] = "scan"
  /\ LET ids == {j \in queue : Cardinality(Ahead(j, queue)) < Window}
     IN /\ call' = [call EXCEPT ![p].ids = ids]
        /\ Go(p, LookOrUnlock(ids))
  /\ UNCHANGED <<now, redis>>

IsNext(j, ids) == j \in ids /\ Ahead(j, ids) = {}

Pick(p, j) ==
  /\ call' = [call EXCEPT ![p].job = j]
  /\ Go(p, "takeRem")

Pass(p, j) ==
  LET rest == call[p].ids \ {j}
  IN /\ call' = [call EXCEPT ![p].ids = rest]
     /\ Go(p, LookOrUnlock(rest))

(* Mutant: the first queued id is taken, whoever asks. *)
LookAnyCapability(p) ==
  /\ pc[p] = "look"
  /\ \E j \in Job :
       /\ IsNext(j, call[p].ids)
       /\ IF job[j].status = "queued" THEN Pick(p, j) ELSE Pass(p, j)
  /\ UNCHANGED <<now, redis>>

(* Mutant: the status of the key is not looked at. *)
LookAnyStatus(p) ==
  /\ pc[p] = "look"
  /\ \E j \in Job :
       /\ IsNext(j, call[p].ids)
       /\ IF <<j, call[p].runner>> \in Compatible THEN Pick(p, j) ELSE Pass(p, j)
  /\ UNCHANGED <<now, redis>>

(* Ids that are not queued any more, or not for this runner, are passed over *)
(* and stay in the sorted set.                                               *)
Look(p) ==
  /\ pc[p] = "look"
  /\ \E j \in Job :
       /\ IsNext(j, call[p].ids)
       /\ IF job[j].status = "queued" /\ <<j, call[p].runner>> \in Compatible
            THEN Pick(p, j)
            ELSE Pass(p, j)
  /\ UNCHANGED <<now, redis>>

TakeRem(p) ==
  /\ pc[p] = "takeRem"
  /\ queue' = queue \ {call[p].job}
  /\ Go(p, "takeSet")
  /\ UNCHANGED <<now, job, leases, lock, call>>

(* The whole key is written, whatever it holds by now; the expiry counts     *)
(* from the time read before the sweep.                                      *)
TakeSet(p) ==
  /\ pc[p] = "takeSet"
  /\ job' = [job EXCEPT ![call[p].job] =
               LeasedEntry(call[p].runner, call[p].at + LeaseDuration)]
  /\ Go(p, "takeAdd")
  /\ UNCHANGED <<now, queue, leases, lock, call>>

TakeAdd(p) ==
  /\ pc[p] = "takeAdd"
  /\ leases' = [leases EXCEPT ![call[p].job] = call[p].at + LeaseDuration]
  /\ Go(p, "unlock")
  /\ UNCHANGED <<now, job, queue, lock, call>>

(* finally: DEL, whoever holds the lock now. *)
Unlock(p) ==
  /\ pc[p] = "unlock"
  /\ lock' = None
  /\ Return(p)
  /\ UNCHANGED <<now, job, queue, leases>>

-------------------------------------------------------------------------------
(* complete: GET, ZREM, SET.  No lock, and no mention of the runner. *)

BeginComplete(p, j, status) ==
  Begin(p, "complete", "completeGet", [NoCall EXCEPT !.job = j, !.status = status])

CompleteGet(p) ==
  LET raw == job[call[p].job]
  IN /\ pc[p] = "completeGet"
     /\ IF raw = None \/ raw.status # "leased"
          THEN Return(p)
          ELSE Go(p, "completeRem") /\ UNCHANGED call
     /\ UNCHANGED <<now, redis>>

CompleteRem(p) ==
  /\ pc[p] = "completeRem"
  /\ leases' = [leases EXCEPT ![call[p].job] = None]
  /\ Go(p, "completeSet")
  /\ UNCHANGED <<now, job, queue, lock, call>>

CompleteSet(p) ==
  /\ pc[p] = "completeSet"
  /\ job' = [job EXCEPT ![call[p].job] = Entry(call[p].status)]
  /\ Return(p)
  /\ UNCHANGED <<now, queue, leases, lock>>

-------------------------------------------------------------------------------
(* cancel: GET, ZREM, ZREM, SET.  No lock. *)

BeginCancel(p, j) == Begin(p, "cancel", "cancelGet", [NoCall EXCEPT !.job = j])

CancelGet(p) ==
  LET raw == job[call[p].job]
  IN /\ pc[p] = "cancelGet"
     /\ IF raw = None \/ raw.status \notin {"queued", "leased"}
          THEN Return(p)
          ELSE Go(p, "cancelRemQueue") /\ UNCHANGED call
     /\ UNCHANGED <<now, redis>>

CancelRemQueue(p) ==
  /\ pc[p] = "cancelRemQueue"
  /\ queue' = queue \ {call[p].job}
  /\ Go(p, "cancelRemLease")
  /\ UNCHANGED <<now, job, leases, lock, call>>

CancelRemLease(p) ==
  /\ pc[p] = "cancelRemLease"
  /\ leases' = [leases EXCEPT ![call[p].job] = None]
  /\ Go(p, "cancelSet")
  /\ UNCHANGED <<now, job, queue, lock, call>>

CancelSet(p) ==
  /\ pc[p] = "cancelSet"
  /\ job' = [job EXCEPT ![call[p].job] = Entry("cancelled")]
  /\ Return(p)
  /\ UNCHANGED <<now, queue, leases, lock>>

-------------------------------------------------------------------------------

Tick ==
  /\ now < MaxTime
  /\ now' = now + 1
  /\ UNCHANGED <<redis, pc, call>>

(* The call stops for good; what it has written stays, a lock included. *)
Crash(p) ==
  /\ CrashesAllowed
  /\ pc[p] # "idle"
  /\ Return(p)
  /\ UNCHANGED <<now, redis>>

EnqueueNext(p) ==
  (\E j \in Job : BeginEnqueue(p, j)) \/ Exists(p) \/ PutJob(p) \/ PutQueue(p)

LeaseNext(p) ==
  \/ \E r \in Runner : BeginLease(p, r)
  \/ Lock(p) \/ SweepList(p) \/ SweepGet(p) \/ SweepRem(p) \/ RequeueSet(p)
  \/ RequeueAdd(p) \/ Scan(p) \/ Look(p) \/ TakeRem(p) \/ TakeSet(p) \/ TakeAdd(p)
  \/ Unlock(p)

CompleteNext(p) ==
  \/ \E j \in Job, status \in Final : BeginComplete(p, j, status)
  \/ CompleteGet(p) \/ CompleteRem(p) \/ CompleteSet(p)

CancelNext(p) ==
  \/ \E j \in Job : BeginCancel(p, j)
  \/ CancelGet(p) \/ CancelRemQueue(p) \/ CancelRemLease(p) \/ CancelSet(p)

Next ==
  \/ \E p \in Proc : EnqueueNext(p) \/ LeaseNext(p) \/ CompleteNext(p)
                       \/ CancelNext(p) \/ Crash(p)
  \/ Tick

Spec == Init /\ [][Next]_vars

-------------------------------------------------------------------------------
(* Properties. *)

(* At most one lease call is between taking and giving up the lock, as long  *)
(* as no call needs longer than the lock's PX.                               *)
OneInSection ==
  \A p, q \in Proc : pc[p] \in Section /\ pc[q] \in Section => p = q

Handling(j, steps) == \E p \in Proc : call[p].job = j /\ pc[p] \in steps

Reachable(j) ==
  /\ job[j].status = "queued" /\ j \notin queue =>
       Handling(j, {"putQueue", "requeueAdd", "takeSet", "cancelRemLease", "cancelSet"})
  /\ job[j].status = "leased" /\ leases[j] = None =>
       Handling(j, {"takeAdd", "requeueSet", "completeSet", "cancelSet"})

(* A job whose key says queued can be found in the queue set, and one whose  *)
(* key says leased in the lease set, where the sweep looks, unless a call is *)
(* between the command that wrote the one and the command that writes the    *)
(* other.  So no interleaving of the unlocked calls makes a job unreachable. *)
NothingLost == \A j \in Job : job[j] # None => Reachable(j)

(* The SET of an enqueue of j.                                               *)
Puts(j) == \E p \in Proc : call[p].job = j /\ PutJob(p)

(* A lease is requeued or replaced only once its time has run out, although  *)
(* the sweep decides on a key it read two commands earlier.  The one command *)
(* that cuts a lease short is the SET of an enqueue whose EXISTS came before *)
(* another enqueue of the same id made the key.                              *)
LeaseExclusive ==
  [][\A j \in Job :
       /\ job[j] # None /\ job[j].status = "leased"
       /\ job'[j] # job[j] /\ job'[j].status \in {"queued", "leased"}
       => job[j].expires <= now \/ Puts(j)]_vars

Ended(j) == job[j] # None /\ job[j].status \in Final

(* Whether a lease call or an enqueue has read j's key and will write it. *)
InHand(j) ==
  \E p \in Proc :
    /\ call[p].job = j
    /\ \/ pc[p] \in {"requeueSet", "takeRem", "takeSet", "putJob"}
       \/ pc[p] = "sweepRem" /\ HasExpired(call[p].raw, call[p].at)

(* The test packages/queue-adapter/src/index.test.ts:41 wants a job cancelled *)
(* "without allowing a later lease".  A cancellation or a report is undone    *)
(* only by a lease call that read the job's key before it was written, or an  *)
(* enqueue that found none, and that writes it after; without one the job     *)
(* stays ended, whichever set its id is still in.                             *)
EndedStays ==
  [][\A j \in Job : Ended(j) /\ ~InHand(j) => Ended(j)' /\ ~InHand(j)']_vars

(* The refinement mapping to JobQueue: the job keys are the truth. *)
PhaseOf(j) == IF job[j] = None THEN "new" ELSE job[j].status

HolderOf(j) == IF job[j] = None THEN None ELSE job[j].runner

Contract == INSTANCE JobQueue WITH
  CanRun <- Compatible, NoRunner <- None,
  phase <- [j \in Job |-> PhaseOf(j)],
  holder <- [j \in Job |-> HolderOf(j)]

(* Calls that do not overlap keep the ExecutionQueue contract, crashes       *)
(* between their commands included.                                          *)
KeepsContractInTurn == Contract!Spec

===============================================================================
