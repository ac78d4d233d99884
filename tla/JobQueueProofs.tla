---------------------------- MODULE JobQueueProofs ----------------------------
(***************************************************************************)
(* What every queue that keeps the ExecutionQueue contract guarantees.     *)
(***************************************************************************)
EXTENDS JobQueue, TLAPS

Typed ==
  /\ phase \in [Job -> Phase]
  /\ holder \in [Job -> Runner \cup {NoRunner}]

IInv == Typed /\ HolderIsAble

(* Each operation of the queue keeps holders and phases together: a grant    *)
(* names a runner that may run the job, and every step that ends a lease     *)
(* clears its holder.                                                        *)
LEMMA StepKeepsHolders == IInv /\ [Next]_vars => IInv'
<1> SUFFICES ASSUME IInv, [Next]_vars PROVE IInv'
  OBVIOUS
<1> USE DEF IInv, Typed, HolderIsAble, Phase, Live, Final, JobsIn
<1>1. ASSUME NEW k \in Job, Submit(k) PROVE IInv'
  BY <1>1 DEF Submit
<1>2. ASSUME NEW k \in Job, Withdraw(k) PROVE IInv'
  BY <1>2 DEF Withdraw
<1>3. ASSUME NEW k \in Job, NEW status \in Final, Finish(k, status)
      PROVE  IInv'
  BY <1>3 DEF Finish
<1>4. ASSUME NEW S \in SUBSET JobsIn("leased"), Reclaim(S) PROVE IInv'
  BY <1>4 DEF Reclaim
<1>5. ASSUME NEW S \in SUBSET JobsIn("leased"), NEW k \in Job, NEW r \in Runner,
             ReclaimAndGrant(S, k, r)
      PROVE  IInv'
  BY <1>5 DEF ReclaimAndGrant
<1>6. CASE UNCHANGED vars
  BY <1>6 DEF vars
<1> QED
  BY <1>1, <1>2, <1>3, <1>4, <1>5, <1>6 DEF Next

(* In every reachable state a job is held exactly while it is leased, and by *)
(* a runner that may run it.                                                 *)
THEOREM HoldersAreAble == Spec => []HolderIsAble
<1>1. Init => IInv
  BY DEF Init, IInv, Typed, HolderIsAble, Phase
<1>2. IInv => HolderIsAble
  BY DEF IInv
<1> QED
  BY <1>1, <1>2, StepKeepsHolders, PTL DEF Spec

===============================================================================
