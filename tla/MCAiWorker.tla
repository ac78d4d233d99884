------------------------------- MODULE MCAiWorker -------------------------------
(* An instance of AiWorker for TLC: two repairs of one request. *)
EXTENDS AiWorker

CONSTANT r1

MCJob == {1, 2}
MCRepair == {1, 2}
MCRequestOf == [k \in MCJob |-> r1]

===============================================================================
