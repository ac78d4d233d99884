----------------------------- MODULE MCMemoryQueue -----------------------------
(* Instances of MemoryQueue for TLC.  Three submissions: "urgent" and "again" *)
(* of one organization, "other" of a second one.  In the runs with reused ids *)
(* "again" is a second submission of "urgent"'s id.                           *)
EXTENDS MemoryQueue

CONSTANTS o1, o2, r1, r2

MCOrg == {o1, o2}
MCRunner == {r1, r2}
MCJob == {"urgent", "again", "other"}
MCJobId == {1, 2, 3}

OneOrg == [k \in MCJob |-> o1]
TwoOrgs == [k \in MCJob |-> IF k = "other" THEN o2 ELSE o1]

ReusedIds == [k \in MCJob |-> IF k = "other" THEN 2 ELSE 1]
FreshIds == [k \in MCJob |-> CASE k = "urgent" -> 1 [] k = "again" -> 2 [] OTHER -> 3]

(* "urgent" goes first although it is the youngest. *)
MCPriority == [k \in MCJob |-> IF k = "urgent" THEN 10 ELSE 0]
MCCreatedAt == [k \in MCJob |-> CASE k = "urgent" -> 3 [] k = "again" -> 2 [] OTHER -> 1]

(* r2 cannot run "urgent"; r1 takes one job at a time, r2 two. *)
MCCompatible == {m \in MCJob \X MCRunner : m # <<"urgent", r2>>}
MCMaxConcurrency == [r \in MCRunner |-> IF r = r1 THEN 0 ELSE 2]

===============================================================================
