------------------------------ MODULE Triggers ------------------------------
(* Runs that are started without a user: by the daemon of apps/scheduler,      *)
(* which polls for schedules due in the current minute, and by deliveries of   *)
(* GitHub webhooks.  Both end in enqueueTriggeredRun of apps/server, one       *)
(* action here for each stretch between two awaits.                            *)
EXTENDS Cron, Sequences, FiniteSets

CONSTANTS Schedule,     \* rows of the table schedules
          Organizations,\* the sequence OPENTESTPILOT_ORGANIZATION_IDS
          OrgOf,        \* organization of each schedule
          CronOf,       \* its expression; validateCronExpression let it pass
          Enabled,      \* the schedules created with enabled
          Horizon,      \* bound: the minutes are 1 .. Horizon
          DateAt,       \* the date of each minute
          Poll,         \* bound: the polls of a behaviour, 1 .. n in the order they start
          Delivery,     \* deliveries of GitHub
          Attempt,      \* bound: times each delivery is sent
          DeliveryOrg,  \* the organization of the delivery's tenant header
          Server,       \* replicas of the server
          MaxFaults,    \* bound: failed calls, lost answers, crashes, restarts
          None

ASSUME ClockAssumption == Horizon \in Nat \ {0} /\ None \notin 1 .. Horizon

Names == {Organizations[i] : i \in DOMAIN Organizations}

ASSUME OrganizationsAssumption == Organizations \in Seq(Names) /\ Organizations # <<>>

(* A request in flight: the trigger that poll p sends for schedule s, or the   *)
(* n-th time a delivery is sent.                                               *)
TriggerRequest == Poll \X Schedule
Hook           == Delivery \X Attempt
Request        == TriggerRequest \cup Hook

ASSUME RequestAssumption == Poll \subseteq Nat /\ TriggerRequest \cap Hook = {}

VARIABLES
  minute,     \* the clock of the daemon
  created,    \* schedules stored so far
  poll,       \* the polls
  triggered,  \* ScheduleDaemon.triggered: the minute each schedule was last triggered in
  warm,       \* the first poll, which start awaits, has ended
  request,    \* the handlers of the server
  run,        \* the run each request has made of each schedule
  seen,       \* webhookDeliveries of each server
  faults,     \* faults so far
  boot,       \* history: how often each server has stopped
  life,       \* history: how often the daemon has stopped
  overlapped  \* history: two polls of this life of the daemon ran at a time

daemonVars  == <<poll, triggered, warm, life, overlapped>>
serverVars  == <<request, run, seen, boot>>
vars == <<minute, created, daemonVars, serverVars, faults>>

PollState ==
  [at : {"idle", "list", "scan", "wait", "complete", "aborted"}, minute : (1 .. Horizon) \cup {None},
   orgs : Seq(Names), todo : SUBSET Schedule, cur : Schedule \cup {None},
   listed : SUBSET Schedule, life : Nat]

InFlight == {"list", "next", "enqueue", "markFailed", "audit"}

RequestState ==
  [at : InFlight \cup {"unsent", "done", "refused", "cut"}, server : Server \cup {None}, boot : Nat,
   todo : SUBSET Schedule, cur : Schedule \cup {None}]

DaemonTyped ==
  /\ poll \in [Poll -> PollState]
  /\ triggered \in [Schedule -> (1 .. Horizon) \cup {None}]
  /\ life \in Nat
  /\ warm \in BOOLEAN /\ overlapped \in BOOLEAN
  /\ \A p \in Poll : /\ poll[p].at # "idle" => poll[p].minute \in 1 .. Horizon
                     /\ poll[p].at = "wait" => poll[p].cur \in Schedule
                     /\ poll[p].at = "list" => poll[p].orgs # <<>>

ServerTyped ==
  /\ request \in [Request -> RequestState]
  /\ run \in [Request -> [Schedule -> {"none", "stored", "enqueued", "failed"}]]
  /\ seen \in [Server -> SUBSET Delivery]
  /\ boot \in [Server -> Nat]
  /\ \A r \in Request : /\ request[r].at \in {"enqueue", "markFailed", "audit"} =>
                             request[r].cur \in Schedule
                        /\ request[r].at # "unsent" => request[r].server \in Server

TypeOK ==
  /\ minute \in 1 .. Horizon
  /\ created \subseteq Schedule
  /\ DaemonTyped
  /\ ServerTyped

Arrived(v) == [at |-> "list", server |-> v, boot |-> boot[v], todo |-> {}, cur |-> None]
Unsent     == [at |-> "unsent", server |-> None, boot |-> 0, todo |-> {}, cur |-> None]

--------------------------------------------------------------------------------

Init ==
  /\ minute = 1
  /\ created = {}
  /\ poll = [p \in Poll |-> [at |-> "idle", minute |-> None, orgs |-> <<>>, todo |-> {},
                             cur |-> None, listed |-> {}, life |-> 0]]
  /\ triggered = [s \in Schedule |-> None]
  /\ warm = FALSE
  /\ request = [r \in Request |-> Unsent]
  /\ run = [r \in Request |-> [s \in Schedule |-> "none"]]
  /\ seen = [v \in Server |-> {}]
  /\ faults = 0
  /\ boot = [v \in Server |-> 0]
  /\ life = 0
  /\ overlapped = FALSE

Running(p) == poll[p].at \in {"list", "scan", "wait"}

Tick ==
  /\ minute < Horizon
  /\ minute' = minute + 1
  /\ UNCHANGED <<created, daemonVars, serverVars, faults>>

(* POST /schedules.  validateCronExpression looks at the characters only.     *)
CreateSchedule(s) ==
  /\ s \notin created
  /\ created' = created \cup {s}
  /\ UNCHANGED <<minute, daemonVars, serverVars, faults>>

--------------------------------------------------------------------------------
(* The daemon. *)

(* pollOnce: runScheduleDaemon awaits the first one and starts the others from *)
(* setInterval, whether or not the one before has ended.                       *)
StartPoll(p) ==
  /\ poll[p].at = "idle"
  /\ \A q \in Poll : q < p => poll[q].at # "idle"
  /\ warm \/ ~ \E q \in Poll : Running(q)
  /\ overlapped' = (overlapped \/ \E q \in Poll : Running(q))
  /\ poll' = [poll EXCEPT ![p] = [@ EXCEPT !.at = "list", !.minute = minute,
                                           !.orgs = Organizations, !.life = life]]
  /\ UNCHANGED <<minute, created, triggered, warm, life, serverVars, faults>>

Listed(p) ==
  LET mine == {s \in created : OrgOf[s] = Head(poll[p].orgs)}
  IN /\ poll[p].at = "list"
     /\ poll' = [poll EXCEPT ![p] = [@ EXCEPT !.at = "scan", !.todo = mine,
                                              !.listed = poll[p].listed \cup mine]]
     /\ UNCHANGED <<minute, created, triggered, warm, life, overlapped, serverVars, faults>>

(* With a mistake: the remembered minute is not looked at. *)
ConsideredAlways(p, s) == Enabled[s]

Considered(p, s) == Enabled[s] /\ triggered[s] # poll[p].minute

Due(p, s) == /\ Considered(p, s)
             /\ ~CronThrows(CronOf[s])
             /\ CronMatches(DateAt[poll[p].minute], CronOf[s])

(* poll() catches whatever pollOnce throws: the poll ends, with the schedules  *)
(* and the organizations that were still to come.                              *)
EndPoll(p, how) ==
  /\ poll' = [poll EXCEPT ![p] = [@ EXCEPT !.at = how, !.todo = {}, !.cur = None, !.listed = {}]]
  /\ warm' = TRUE

(* The request arrives at a replica v; the handler finds the schedule enabled. *)
SendTrigger(p, s, v) ==
  /\ poll[p].at = "scan" /\ s \in poll[p].todo
  /\ Due(p, s)
  /\ poll' = [poll EXCEPT ![p] = [@ EXCEPT !.at = "wait", !.cur = s, !.todo = poll[p].todo \ {s}]]
  /\ request' = [request EXCEPT ![<<p, s>>] = [Arrived(v) EXCEPT !.at = "next", !.todo = {s}]]
  /\ UNCHANGED <<minute, created, triggered, warm, life, overlapped, run, seen, boot, faults>>

CronAborts(p) ==
  /\ poll[p].at = "scan"
  /\ \E s \in poll[p].todo : Considered(p, s) /\ CronThrows(CronOf[s])
  /\ EndPoll(p, "aborted")
  /\ UNCHANGED <<minute, created, triggered, life, overlapped, serverVars, faults>>

NextOrganization(p) ==
  /\ poll[p].at = "scan"
  /\ \A s \in poll[p].todo : Considered(p, s) => ~CronThrows(CronOf[s]) /\ ~Due(p, s)
  /\ IF Len(poll[p].orgs) > 1
     THEN /\ poll' = [poll EXCEPT ![p] = [@ EXCEPT !.at = "list", !.todo = {},
                                                   !.orgs = Tail(poll[p].orgs)]]
          /\ UNCHANGED warm
     ELSE EndPoll(p, "complete")
  /\ UNCHANGED <<minute, created, triggered, life, overlapped, serverVars, faults>>

(* The answer 202: only now is the minute remembered. *)
Accepted(p) ==
  /\ poll[p].at = "wait" /\ request[<<p, poll[p].cur>>].at = "done"
  /\ triggered' = [triggered EXCEPT ![poll[p].cur] = poll[p].minute]
  /\ poll' = [poll EXCEPT ![p] = [@ EXCEPT !.at = "scan", !.cur = None]]
  /\ UNCHANGED <<minute, created, warm, life, overlapped, serverVars, faults>>

(* With a mistake: what was refused is remembered as triggered. *)
RejectedRemembered(p) ==
  /\ poll[p].at = "wait" /\ request[<<p, poll[p].cur>>].at \in {"refused", "cut"}
  /\ triggered' = [triggered EXCEPT ![poll[p].cur] = poll[p].minute]
  /\ EndPoll(p, "aborted")
  /\ UNCHANGED <<minute, created, life, overlapped, serverVars, faults>>

(* With a mistake: a schedule that fails is passed over. *)
RejectedSkipped(p) ==
  /\ poll[p].at = "wait" /\ request[<<p, poll[p].cur>>].at \in {"refused", "cut"}
  /\ poll' = [poll EXCEPT ![p] = [@ EXCEPT !.at = "scan", !.cur = None]]
  /\ UNCHANGED <<minute, created, triggered, warm, life, overlapped, serverVars, faults>>

(* With a mistake: 503 is not taken for an error. *)
RejectedIfCut(p) ==
  /\ poll[p].at = "wait" /\ request[<<p, poll[p].cur>>].at = "cut"
  /\ EndPoll(p, "aborted")
  /\ UNCHANGED <<minute, created, triggered, life, overlapped, serverVars, faults>>

(* 503, 500 or a connection that breaks. *)
Rejected(p) ==
  /\ poll[p].at = "wait" /\ request[<<p, poll[p].cur>>].at \in {"refused", "cut"}
  /\ EndPoll(p, "aborted")
  /\ UNCHANGED <<minute, created, triggered, life, overlapped, serverVars, faults>>

(* The listing fails, or an answer is lost while the handler goes on. *)
PollFails(p) ==
  /\ faults < MaxFaults /\ faults' = faults + 1
  /\ poll[p].at \in {"list", "wait"}
  /\ EndPoll(p, "aborted")
  /\ UNCHANGED <<minute, created, triggered, life, overlapped, serverVars>>

(* The map of triggered minutes is in memory. *)
RestartDaemon ==
  /\ faults < MaxFaults /\ faults' = faults + 1
  /\ poll' = [p \in Poll |-> IF Running(p)
                             THEN [poll[p] EXCEPT !.at = "aborted", !.todo = {}, !.cur = None,
                                                  !.listed = {}]
                             ELSE poll[p]]
  /\ triggered' = [s \in Schedule |-> None]
  /\ warm' = FALSE /\ overlapped' = FALSE /\ life' = life + 1
  /\ UNCHANGED <<minute, created, serverVars>>

--------------------------------------------------------------------------------
(* The server. *)

(* POST /webhooks/github up to its first await: looked up and added in one go. *)
(* GitHub sends a delivery again when somebody asks it to.                     *)
Deliver(d, n, v) ==
  LET r == <<d, n>>
  IN /\ request[r] = Unsent
     /\ \A k \in Attempt : k < n => request[<<d, k>>] # Unsent
     /\ IF d \in seen[v]
        THEN request' = [request EXCEPT ![r] = [Arrived(v) EXCEPT !.at = "done"]] /\ UNCHANGED seen
        ELSE /\ request' = [request EXCEPT ![r] = Arrived(v)]
             /\ seen' = [seen EXCEPT ![v] = @ \cup {d}]
     /\ UNCHANGED <<minute, created, daemonVars, run, boot, faults>>

(* With the schedules of todo still to come; the answer when there are none.   *)
Continue(r, todo) ==
  request' = [request EXCEPT ![r] = [@ EXCEPT !.at = IF todo = {} THEN "done" ELSE "next",
                                              !.todo = todo, !.cur = None]]

(* The webhook, its delivery audited, takes all schedules that are enabled.    *)
ListSchedules(r) ==
  /\ request[r].at = "list"
  /\ Continue(r, {s \in created : Enabled[s] /\ OrgOf[s] = DeliveryOrg[r[1]]})
  /\ UNCHANGED <<minute, created, daemonVars, run, seen, boot, faults>>

(* enqueueTriggeredRun, an action for each of its writes. *)
CreateRun(r, s) ==
  /\ request[r].at = "next" /\ s \in request[r].todo
  /\ run' = [run EXCEPT ![r][s] = "stored"]
  /\ request' = [request EXCEPT ![r] = [@ EXCEPT !.at = "enqueue", !.cur = s,
                                                   !.todo = request[r].todo \ {s}]]
  /\ UNCHANGED <<minute, created, daemonVars, seen, boot, faults>>

Enqueue(r) ==
  /\ request[r].at = "enqueue"
  /\ run' = [run EXCEPT ![r][request[r].cur] = "enqueued"]
  /\ request' = [request EXCEPT ![r].at = "audit"]
  /\ UNCHANGED <<minute, created, daemonVars, seen, boot, faults>>

QueueDeclines(r) ==
  /\ faults < MaxFaults /\ faults' = faults + 1
  /\ request[r].at = "enqueue"
  /\ request' = [request EXCEPT ![r].at = "markFailed"]
  /\ UNCHANGED <<minute, created, daemonVars, run, seen, boot>>

(* With a mistake: the run is not marked. *)
MarkNothing(r) ==
  /\ request[r].at = "markFailed"
  /\ IF r \in TriggerRequest THEN request' = [request EXCEPT ![r].at = "refused"]
                              ELSE Continue(r, request[r].todo)
  /\ UNCHANGED <<minute, created, daemonVars, run, seen, boot, faults>>

(* undefined is 503 to the daemon; the webhook goes on with the next schedule. *)
MarkFailed(r) ==
  /\ request[r].at = "markFailed"
  /\ run' = [run EXCEPT ![r][request[r].cur] = "failed"]
  /\ IF r \in TriggerRequest THEN request' = [request EXCEPT ![r].at = "refused"]
                              ELSE Continue(r, request[r].todo)
  /\ UNCHANGED <<minute, created, daemonVars, seen, boot, faults>>

AuditRun(r) ==
  /\ request[r].at = "audit"
  /\ Continue(r, request[r].todo)
  /\ UNCHANGED <<minute, created, daemonVars, run, seen, boot, faults>>

HandlerThrows(r) ==
  /\ faults < MaxFaults /\ faults' = faults + 1
  /\ request[r].at \in InFlight
  /\ request' = [request EXCEPT ![r].at = "cut"]
  /\ UNCHANGED <<minute, created, daemonVars, run, seen, boot>>

RestartServer(v) ==
  /\ faults < MaxFaults /\ faults' = faults + 1
  /\ request' = [r \in Request |->
                   IF request[r].server = v /\ request[r].at \in InFlight
                   THEN [request[r] EXCEPT !.at = "cut"] ELSE request[r]]
  /\ seen' = [seen EXCEPT ![v] = {}]
  /\ boot' = [boot EXCEPT ![v] = @ + 1]
  /\ UNCHANGED <<minute, created, daemonVars, run>>

--------------------------------------------------------------------------------
DaemonStep(p) == \/ Listed(p) \/ CronAborts(p) \/ NextOrganization(p)
                 \/ Accepted(p) \/ Rejected(p)
                 \/ \E s \in Schedule, v \in Server : SendTrigger(p, s, v)

HandlerStep(r) == \/ ListSchedules(r) \/ Enqueue(r) \/ MarkFailed(r) \/ AuditRun(r)
                  \/ \E s \in Schedule : CreateRun(r, s)

Next ==
  \/ Tick
  \/ \E s \in Schedule : CreateSchedule(s)
  \/ \E p \in Poll : StartPoll(p) \/ DaemonStep(p) \/ PollFails(p)
  \/ RestartDaemon
  \/ \E d \in Delivery, n \in Attempt, v \in Server : Deliver(d, n, v)
  \/ \E r \in Request : HandlerStep(r) \/ QueueDeclines(r) \/ HandlerThrows(r)
  \/ \E v \in Server : RestartServer(v)

(* A promise that can settle settles: whatever is under way goes on.           *)
Fairness == WF_vars(\/ \E p \in Poll : DaemonStep(p)
                    \/ \E r \in Request : HandlerStep(r))

Spec == Init /\ [][Next]_vars /\ Fairness

--------------------------------------------------------------------------------
(* The daemon never takes a minute for done when no run of it was queued: what *)
(* it remembers of a schedule is a run some poll of that minute has enqueued.  *)
RememberedIsQueued ==
  \A s \in Schedule : triggered[s] # None =>
    \E p \in Poll : poll[p].minute = triggered[s] /\ run[<<p, s>>][s] = "enqueued"

Sent(r) == request[r].at # "unsent"

(* No run is started twice without a cause.  While polls do not overlap, one   *)
(* life of the daemon sends a schedule's minute again only when it saw the     *)
(* earlier request fail, or no answer at all; and a delivery that is sent      *)
(* again starts a schedule's run again only at another replica, or after a     *)
(* restart, for the deliveries seen are kept in memory.                        *)
RepeatsHaveACause ==
  /\ ~overlapped =>
       \A s \in Schedule, p, q \in Poll :
         /\ p < q /\ Sent(<<p, s>>) /\ Sent(<<q, s>>)
         /\ poll[p].minute = poll[q].minute /\ {poll[p].life, poll[q].life} = {life}
         => poll[p].at = "aborted"
  /\ \A d \in Delivery, m, n \in Attempt, s \in Schedule :
       /\ m # n /\ "enqueued" \in {run[<<d, m>>][s]} \cap {run[<<d, n>>][s]}
       => \/ request[<<d, m>>].server # request[<<d, n>>].server
          \/ request[<<d, m>>].boot # request[<<d, n>>].boot

(* A run is left in the store with no job behind it only by a handler that was *)
(* cut off between its writes; a queue that declines leaves it failed.         *)
StrandedOnlyByCut ==
  \A r \in Request, s \in Schedule : run[r][s] = "stored" =>
    \/ request[r].at \in {"enqueue", "markFailed"} /\ request[r].cur = s
    \/ request[r].at = "cut"

(* A poll that ends without an error has, for every schedule it was shown that *)
(* was enabled and due, a run queued in this minute: by itself, or by the poll *)
(* whose minute it found remembered.                                           *)
CompletePollMissesNone ==
  [][\A p \in Poll : poll[p].at # "complete" /\ poll'[p].at = "complete" =>
       \A s \in poll[p].listed :
         /\ Enabled[s] /\ CronMatches(DateAt[poll[p].minute], CronOf[s])
         => \E q \in Poll : poll[q].minute = poll[p].minute /\ run[<<q, s>>][s] = "enqueued"]_vars

(* Every poll ends and every request is answered or cut off: once the polls   *)
(* and deliveries of a behaviour have started, all comes to rest.              *)
AtRest == /\ \A p \in Poll : ~Running(p)
          /\ \A r \in Request : request[r].at \in {"unsent", "done", "refused", "cut"}

EverythingEnds == <>[]AtRest

=============================================================================
