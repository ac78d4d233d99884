---------------------------- MODULE MCTriggers ----------------------------
(* Two organizations: one with a schedule of every minute, the other with one *)
(* of minute 2 and "99 * * * *", which the server stores and the daemon       *)
(* cannot evaluate.                                                           *)
EXTENDS Triggers

CONSTANTS often, once, wrong, o1, o2, d1, v1, v2

AnyField == Every
Cron(m)  == [minute |-> m, hour |-> AnyField, dayOfMonth |-> AnyField,
             month |-> AnyField, dayOfWeek |-> AnyField]
Only(n)  == {[from |-> n, to |-> Absent, step |-> Absent]}

MCSchedule == {often, once, wrong}
MCOrganizations == <<o1, o2>>
MCOrgOf   == [s \in MCSchedule |-> IF s = often THEN o1 ELSE o2]
MCEnabled == [s \in MCSchedule |-> TRUE]
MCCronOf  == [s \in MCSchedule |-> CASE s = often -> Cron(AnyField)
                                     [] s = once  -> Cron(Only(2))
                                     [] s = wrong -> Cron(Only(99))]
MCDateAt  == [m \in 1 .. Horizon |-> [minute |-> m, hour |-> 0, day |-> 1, month |-> 1, weekday |-> 4]]
MCDeliveryOrg == [d \in {d1} |-> o2]

(* Polls and deliveries share no state but the schedules: behaviours of the    *)
(* one kind or of the other are enough.  To which replica a trigger goes makes *)
(* no difference.                                                              *)
OneKind == \/ \A p \in Poll : poll[p].at = "idle"
           \/ \A r \in Hook : ~Sent(r) /\ \A t \in TriggerRequest : request[t].server # v2

(* One schedule arrives while polls go on, the other two come before. *)
StoredFirst == poll[1].at = "idle" \/ {often, once} \subseteq created
=============================================================================
