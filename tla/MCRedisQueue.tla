------------------------------ MODULE MCRedisQueue ------------------------------
(* Instances of RedisQueue for TLC: two jobs, "first" ahead of "second" in the *)
(* sorted set, two runners of which r2 cannot run "first".                     *)
EXTENDS RedisQueue, TLC

CONSTANTS r1, r2

MCRunner == {r1, r2}
MCJob == {"first", "second"}
MCScore == [j \in MCJob |-> IF j = "first" THEN -10 ELSE 0]
MCCompatible == {m \in MCJob \X MCRunner : m # <<"first", r2>>}
Symmetry == Permutations(Proc)

===============================================================================
