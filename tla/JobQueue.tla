------------------------------- MODULE JobQueue -------------------------------
(***************************************************************************)
(* What an ExecutionQueue promises, whatever stores it: the contract that  *)
(* the two implementations of src/packages/queue-adapter share.  A job is  *)
(* submitted, waits, is granted to one runner able to run it, and ends     *)
(* once.  A lease may be reclaimed, after which the job waits again.       *)
(*                                                                         *)
(* How jobs are stored, when a lease may be reclaimed and which waiting    *)
(* job goes first are left to the implementations.                         *)
(***************************************************************************)

CONSTANTS
  Job,        \* the jobs that may be submitted
  Runner,     \* the runners that may register
  CanRun,     \* the pairs <<job, runner>> that may be matched
  NoRunner    \* the holder of a job nobody holds

VARIABLES
  phase,      \* [Job -> Phase]: where each job stands
  holder      \* [Job -> Runner or NoRunner]: who holds its lease

vars == <<phase, holder>>

Final == {"passed", "failed", "cancelled"}

Live == {"queued", "leased"}

Phase == {"new"} \cup Live \cup Final

JobsIn(p) == {k \in Job : phase[k] = p}

-------------------------------------------------------------------------------

Init ==
  /\ phase = [k \in Job |-> "new"]
  /\ holder = [k \in Job |-> NoRunner]

(* A job that is neither waiting nor held starts to wait. *)
Submit(k) ==
  /\ phase[k] \notin Live
  /\ phase' = [phase EXCEPT ![k] = "queued"]
  /\ UNCHANGED holder

(* The leases of the jobs S are taken back, and at most one job that waits *)
(* then is granted.                                                         *)
Reclaim(S) ==
  /\ phase' = [k \in Job |-> IF k \in S THEN "queued" ELSE phase[k]]
  /\ holder' = [k \in Job |-> IF k \in S THEN NoRunner ELSE holder[k]]

ReclaimAndGrant(S, k, r) ==
  /\ k \in JobsIn("queued") \cup S
  /\ <<k, r>> \in CanRun
  /\ phase' = [i \in Job |-> IF i = k THEN "leased"
                             ELSE IF i \in S THEN "queued" ELSE phase[i]]
  /\ holder' = [i \in Job |-> IF i = k THEN r
                              ELSE IF i \in S THEN NoRunner ELSE holder[i]]

(* A held job ends with the status that was reported for it. *)
Finish(k, status) ==
  /\ phase[k] = "leased"
  /\ phase' = [phase EXCEPT ![k] = status]
  /\ holder' = [holder EXCEPT ![k] = NoRunner]

(* A waiting or held job is withdrawn. *)
Withdraw(k) ==
  /\ phase[k] \in Live
  /\ phase' = [phase EXCEPT ![k] = "cancelled"]
  /\ holder' = [holder EXCEPT ![k] = NoRunner]

Next ==
  \/ \E k \in Job : Submit(k) \/ Withdraw(k)
  \/ \E k \in Job, status \in Final : Finish(k, status)
  \/ \E S \in SUBSET JobsIn("leased") :
       \/ Reclaim(S)
       \/ \E k \in Job, r \in Runner : ReclaimAndGrant(S, k, r)

Spec == Init /\ [][Next]_vars

-------------------------------------------------------------------------------
(* Properties. *)

(* A job is held exactly while it is leased, and then by a runner that may    *)
(* run it.                                                                   *)
HolderIsAble ==
  \A k \in Job : IF phase[k] = "leased" THEN <<k, holder[k]>> \in CanRun
                                        ELSE holder[k] = NoRunner

===============================================================================
