---------------------------- MODULE TriggersProofs ----------------------------
(***************************************************************************)
(* What holds of Triggers for every set of schedules, expressions, polls,  *)
(* deliveries and replicas, and any number of faults.                      *)
(***************************************************************************)
EXTENDS Triggers, SequenceTheorems, TLAPS

(* A request that is not between its writes has left no run stored and       *)
(* nothing more; one that has not been sent has made no run.                 *)
Handled(r) ==
  /\ request[r].at = "unsent" => \A s \in Schedule : run[r][s] = "none"
  /\ \A s \in Schedule : run[r][s] = "stored" =>
       \/ request[r].at \in {"enqueue", "markFailed"} /\ request[r].cur = s
       \/ request[r].at = "cut"

(* The request for one schedule makes that schedule's run.                   *)
OneSchedule(p, s) ==
  LET r == <<p, s>>
  IN /\ request[r].at # "list"
     /\ request[r].at = "next" => request[r].todo = {s}
     /\ request[r].at \in {"enqueue", "markFailed", "audit"} =>
          request[r].todo = {} /\ request[r].cur = s
     /\ request[r].at \in {"audit", "done"} => run[r][s] = "enqueued"

(* A poll goes on only past requests that were accepted.                     *)
AllAccepted(p) ==
  \A s \in Schedule :
    /\ poll[p].at = "idle" => request[<<p, s>>].at = "unsent"
    /\ Running(p) /\ ~(poll[p].at = "wait" /\ poll[p].cur = s) =>
         request[<<p, s>>].at \in {"unsent", "done"}

Requests ==
  /\ \A r \in Request : Handled(r)
  /\ \A p \in Poll : AllAccepted(p) /\ \A s \in Schedule : OneSchedule(p, s)

(* What is remembered is the minute of a poll whose request was accepted.    *)
Remembered ==
  \A s \in Schedule : triggered[s] # None =>
    \E p \in Poll : /\ poll[p].at # "idle" /\ poll[p].minute = triggered[s]
                    /\ request[<<p, s>>].at = "done"

(* Polls start in the order of their numbers, in the daemon's life of then.  *)
InTurn ==
  /\ \A p \in Poll : poll[p].at # "idle" => poll[p].minute <= minute /\ poll[p].life <= life
  /\ \A p \in Poll : Running(p) => poll[p].life = life
  /\ \A p, q \in Poll : p < q /\ poll[q].at # "idle" =>
       poll[p].at # "idle" /\ poll[p].minute <= poll[q].minute
  /\ ~overlapped => \A p, q \in Poll : p < q /\ Running(p) => poll[q].at = "idle"

(* While polls do not overlap, what was accepted stays remembered.           *)
StillRemembered ==
  ~overlapped => \A p \in Poll, s \in Schedule :
    /\ Sent(<<p, s>>) /\ poll[p].life = life /\ poll[p].at # "aborted"
    /\ ~(poll[p].at = "wait" /\ poll[p].cur = s)
    => triggered[s] # None /\ triggered[s] >= poll[p].minute

(* Part one of RepeatsHaveACause. *)
SentAgainAfterAbort ==
  ~overlapped =>
    \A s \in Schedule, p, q \in Poll :
      /\ p < q /\ Sent(<<p, s>>) /\ Sent(<<q, s>>)
      /\ poll[p].minute = poll[q].minute /\ {poll[p].life, poll[q].life} = {life}
      => poll[p].at = "aborted"

(* The deliveries a server lets through are those it did not know. *)
LetThrough(r) == request[r].at \in InFlight \/ \E s \in Schedule : run[r][s] # "none"

SeenOnce ==
  /\ \A r \in Hook : request[r].at # "unsent" => request[r].boot <= boot[request[r].server]
  /\ \A d \in Delivery, n \in Attempt :
       LetThrough(<<d, n>>) /\ request[<<d, n>>].boot = boot[request[<<d, n>>].server] =>
         d \in seen[request[<<d, n>>].server]
  /\ \A d \in Delivery, m, n \in Attempt :
       m # n /\ LetThrough(<<d, m>>) /\ LetThrough(<<d, n>>) =>
         \/ request[<<d, m>>].server # request[<<d, n>>].server
         \/ request[<<d, m>>].boot # request[<<d, n>>].boot

(* Organizations are listed once each. *)
Different == \A i, j \in DOMAIN Organizations : Organizations[i] = Organizations[j] => i = j

AcceptedFor(p, s) == \E q \in Poll : /\ poll[q].at # "idle" /\ poll[q].minute = poll[p].minute
                                     /\ request[<<q, s>>].at = "done"

(* A schedule shown to a poll is still to come, or has its answer.           *)
Covers ==
  \A p \in Poll :
    /\ poll[p].at = "idle" => poll[p].listed = {}
    /\ Running(p) => \A s \in poll[p].listed :
         Enabled[s] /\ CronMatches(DateAt[poll[p].minute], CronOf[s]) =>
           \/ poll[p].at \in {"scan", "wait"} /\ s \in poll[p].todo
           \/ poll[p].at = "wait" /\ poll[p].cur = s
           \/ AcceptedFor(p, s)

(* The organizations still to come are not those of the schedules sent. *)
SentBefore ==
  \A p \in Poll : Running(p) =>
    /\ \A i, j \in DOMAIN poll[p].orgs : poll[p].orgs[i] = poll[p].orgs[j] => i = j
    /\ poll[p].orgs # <<>>
    /\ poll[p].at # "list" => \A s \in poll[p].todo : ~Sent(<<p, s>>) /\ OrgOf[s] = poll[p].orgs[1]
    /\ \A s \in Schedule : Sent(<<p, s>>) =>
         /\ \A i \in DOMAIN poll[p].orgs : i # 1 => OrgOf[s] # poll[p].orgs[i]
         /\ poll[p].at = "list" => OrgOf[s] # poll[p].orgs[1]

LEMMA TailLonger ==
  ASSUME NEW S, NEW q \in Seq(S), Len(q) > 1
  PROVE  Tail(q) \in Seq(S) /\ Tail(q) # <<>> /\ Head(q) = q[1]
<1>1. q # <<>> /\ Len(q) \in Nat
  OBVIOUS
<1>2. Tail(q) \in Seq(S) /\ Len(Tail(q)) = Len(q) - 1
  BY <1>1, HeadTailProperties
<1>3. Tail(q) # <<>>
  <2> DEFINE t == Tail(q)
  <2>1. Len(t) > 0 /\ t \in Seq(S)
    BY <1>1, <1>2
  <2> HIDE DEF t
  <2>2. t # <<>>
    BY <2>1, EmptySeq
  <2> QED
    BY <2>2 DEF t
<1> QED
  BY <1>1, <1>2, <1>3

Mine(p) == {s \in created : OrgOf[s] = Head(poll[p].orgs)}

-------------------------------------------------------------------------------
(* What each action does to the one record it writes. *)

OnlyPoll(p) ==
  /\ poll' \in [Poll -> PollState]
  /\ \A q \in Poll : q # p => poll'[q] = poll[q]

OnlyRequest(r) ==
  /\ request' \in [Request -> RequestState]
  /\ \A q \in Request : q # r => request'[q] = request[q]

LEMMA StartEffect ==
  ASSUME TypeOK, DaemonTyped, NEW p \in Poll, StartPoll(p)
  PROVE  /\ OnlyPoll(p)
         /\ poll'[p].at = "list"
         /\ poll'[p].minute = minute
         /\ poll'[p].life = life
         /\ poll'[p].orgs = Organizations
         /\ poll'[p].todo = poll[p].todo
         /\ poll'[p].cur = poll[p].cur
         /\ poll'[p].listed = poll[p].listed
<1> DEFINE e == [poll[p] EXCEPT !.at = "list", !.minute = minute, !.orgs = Organizations,
                               !.life = life]
<1>1. poll[p] \in PollState
  BY DEF DaemonTyped
<1>2. /\ e \in PollState
      /\ e.at = "list"
      /\ e.minute = minute
      /\ e.life = life
      /\ e.orgs = Organizations
      /\ e.todo = poll[p].todo
      /\ e.cur = poll[p].cur
      /\ e.listed = poll[p].listed
  BY <1>1, OrganizationsAssumption DEF PollState, TypeOK, DaemonTyped
<1>3. poll' = [poll EXCEPT ![p] = e]
  BY <1>1 DEF StartPoll, PollState
<1> HIDE DEF e
<1> QED
  BY <1>1, <1>2, <1>3 DEF OnlyPoll, DaemonTyped

LEMMA ListedEffect ==
  ASSUME TypeOK, DaemonTyped, NEW p \in Poll, Listed(p)
  PROVE  /\ OnlyPoll(p)
         /\ poll'[p].at = "scan"
         /\ poll'[p].todo = Mine(p)
         /\ poll'[p].listed = poll[p].listed \cup Mine(p)
         /\ poll'[p].orgs = poll[p].orgs
         /\ poll'[p].cur = poll[p].cur
         /\ poll'[p].minute = poll[p].minute
         /\ poll'[p].life = poll[p].life
<1> DEFINE e == [poll[p] EXCEPT !.at = "scan", !.todo = Mine(p),
                               !.listed = poll[p].listed \cup Mine(p)]
<1>1. poll[p] \in PollState
  BY DEF DaemonTyped
<1>2. /\ e \in PollState
      /\ e.at = "scan"
      /\ e.todo = Mine(p)
      /\ e.listed = poll[p].listed \cup Mine(p)
      /\ e.orgs = poll[p].orgs
      /\ e.cur = poll[p].cur
      /\ e.minute = poll[p].minute
      /\ e.life = poll[p].life
  BY <1>1 DEF PollState, Mine, TypeOK, DaemonTyped
<1>3. poll' = [poll EXCEPT ![p] = e]
  BY <1>1 DEF Listed, Mine, PollState
<1> HIDE DEF e
<1> QED
  BY <1>1, <1>2, <1>3 DEF OnlyPoll, DaemonTyped

LEMMA EndEffect ==
  ASSUME DaemonTyped, NEW p \in Poll, NEW how \in {"complete", "aborted"}, EndPoll(p, how)
  PROVE  /\ OnlyPoll(p)
         /\ poll'[p].at = how
         /\ poll'[p].listed = {}
         /\ poll'[p].minute = poll[p].minute
         /\ poll'[p].life = poll[p].life
<1> DEFINE e == [poll[p] EXCEPT !.at = how, !.todo = {}, !.cur = None, !.listed = {}]
<1>1. poll[p] \in PollState
  BY DEF DaemonTyped
<1>2. /\ e \in PollState
      /\ e.at = how
      /\ e.listed = {}
      /\ e.minute = poll[p].minute
      /\ e.life = poll[p].life
  BY <1>1 DEF PollState
<1>3. poll' = [poll EXCEPT ![p] = e]
  BY <1>1 DEF EndPoll, PollState
<1> HIDE DEF e
<1> QED
  BY <1>1, <1>2, <1>3 DEF OnlyPoll, DaemonTyped

LEMMA SendEffect ==
  ASSUME DaemonTyped, NEW p \in Poll, NEW s \in Schedule, NEW v \in Server, SendTrigger(p, s, v)
  PROVE  /\ OnlyPoll(p)
         /\ poll'[p].at = "wait"
         /\ poll'[p].cur = s
         /\ poll'[p].todo = poll[p].todo \ {s}
         /\ poll'[p].orgs = poll[p].orgs
         /\ poll'[p].listed = poll[p].listed
         /\ poll'[p].minute = poll[p].minute
         /\ poll'[p].life = poll[p].life
<1> DEFINE e == [poll[p] EXCEPT !.at = "wait", !.cur = s, !.todo = poll[p].todo \ {s}]
<1>1. poll[p] \in PollState
  BY DEF DaemonTyped
<1>2. /\ e \in PollState
      /\ e.at = "wait"
      /\ e.cur = s
      /\ e.todo = poll[p].todo \ {s}
      /\ e.orgs = poll[p].orgs
      /\ e.listed = poll[p].listed
      /\ e.minute = poll[p].minute
      /\ e.life = poll[p].life
  BY <1>1 DEF PollState
<1>3. poll' = [poll EXCEPT ![p] = e]
  BY <1>1 DEF SendTrigger, PollState
<1> HIDE DEF e
<1> QED
  BY <1>1, <1>2, <1>3 DEF OnlyPoll, DaemonTyped

LEMMA NextEffect ==
  ASSUME DaemonTyped, NEW p \in Poll, Len(poll[p].orgs) > 1, NextOrganization(p)
  PROVE  /\ OnlyPoll(p)
         /\ poll'[p].at = "list"
         /\ poll'[p].todo = {}
         /\ poll'[p].orgs = Tail(poll[p].orgs)
         /\ poll'[p].orgs # <<>>
         /\ poll'[p].listed = poll[p].listed
         /\ poll'[p].cur = poll[p].cur
         /\ poll'[p].minute = poll[p].minute
         /\ poll'[p].life = poll[p].life
<1> DEFINE e == [poll[p] EXCEPT !.at = "list", !.orgs = Tail(poll[p].orgs), !.todo = {}]
<1>1. poll[p] \in PollState
  BY DEF DaemonTyped
<1>2. /\ e \in PollState
      /\ e.at = "list"
      /\ e.todo = {}
      /\ e.orgs = Tail(poll[p].orgs)
      /\ e.orgs # <<>>
      /\ e.listed = poll[p].listed
      /\ e.cur = poll[p].cur
      /\ e.minute = poll[p].minute
      /\ e.life = poll[p].life
  BY <1>1, TailLonger DEF PollState
<1>3. poll' = [poll EXCEPT ![p] = e]
  BY <1>1 DEF NextOrganization, PollState
<1> HIDE DEF e
<1> QED
  BY <1>1, <1>2, <1>3 DEF OnlyPoll, DaemonTyped

LEMMA AcceptedEffect ==
  ASSUME DaemonTyped, NEW p \in Poll, Accepted(p)
  PROVE  /\ OnlyPoll(p)
         /\ poll'[p].at = "scan"
         /\ poll'[p].cur = None
         /\ poll'[p].todo = poll[p].todo
         /\ poll'[p].orgs = poll[p].orgs
         /\ poll'[p].listed = poll[p].listed
         /\ poll'[p].minute = poll[p].minute
         /\ poll'[p].life = poll[p].life
<1> DEFINE e == [poll[p] EXCEPT !.at = "scan", !.cur = None]
<1>1. poll[p] \in PollState
  BY DEF DaemonTyped
<1>2. /\ e \in PollState
      /\ e.at = "scan"
      /\ e.cur = None
      /\ e.todo = poll[p].todo
      /\ e.orgs = poll[p].orgs
      /\ e.listed = poll[p].listed
      /\ e.minute = poll[p].minute
      /\ e.life = poll[p].life
  BY <1>1 DEF PollState
<1>3. poll' = [poll EXCEPT ![p] = e]
  BY <1>1 DEF Accepted, PollState
<1> HIDE DEF e
<1> QED
  BY <1>1, <1>2, <1>3 DEF OnlyPoll, DaemonTyped

LEMMA ArriveEffect ==
  ASSUME ServerTyped, NEW p \in Poll, NEW s \in Schedule, NEW v \in Server, SendTrigger(p, s, v)
  PROVE  /\ OnlyRequest(<<p, s>>)
         /\ request'[<<p, s>>].at = "next"
         /\ request'[<<p, s>>].todo = {s}
         /\ request'[<<p, s>>].server = v
         /\ request'[<<p, s>>].boot = boot[v]
<1> DEFINE e == [Arrived(v) EXCEPT !.at = "next", !.todo = {s}]
<1>1. request[<<p, s>>] \in RequestState /\ <<p, s>> \in Request
  BY DEF ServerTyped, Request, TriggerRequest
<1>2. /\ e \in RequestState
     /\ e.at = "next"
     /\ e.todo = {s}
     /\ e.server = v
     /\ e.boot = boot[v]
  BY <1>1 DEF RequestState, InFlight, Arrived, ServerTyped
<1>3. request' = [request EXCEPT ![<<p, s>>] = e]
  BY <1>1 DEF SendTrigger, RequestState
<1> HIDE DEF e
<1>4. OnlyRequest(<<p, s>>) /\ request'[<<p, s>>] = e
  BY <1>1, <1>2, <1>3 DEF OnlyRequest, ServerTyped
<1> QED
  BY <1>2, <1>4

LEMMA DeliverEffect ==
  ASSUME ServerTyped, NEW d \in Delivery, NEW n \in Attempt, NEW v \in Server,
         NEW at, at = IF d \in seen[v] THEN "done" ELSE "list", Deliver(d, n, v)
  PROVE  /\ OnlyRequest(<<d, n>>)
         /\ request'[<<d, n>>].at = at
         /\ request'[<<d, n>>].server = v
         /\ request'[<<d, n>>].boot = boot[v]
         /\ request'[<<d, n>>].todo = {}
<1> DEFINE e == [Arrived(v) EXCEPT !.at = at]
<1>1. request[<<d, n>>] \in RequestState /\ <<d, n>> \in Request
  BY DEF ServerTyped, Request, Hook
<1>2. /\ e \in RequestState
     /\ e.at = at
     /\ e.server = v
     /\ e.boot = boot[v]
     /\ e.todo = {}
  BY <1>1 DEF RequestState, InFlight, Arrived, ServerTyped
<1>3. request' = [request EXCEPT ![<<d, n>>] = e]
  BY <1>1 DEF Deliver, Arrived, RequestState
<1> HIDE DEF e
<1>4. OnlyRequest(<<d, n>>) /\ request'[<<d, n>>] = e
  BY <1>1, <1>2, <1>3 DEF OnlyRequest, ServerTyped
<1> QED
  BY <1>2, <1>4

LEMMA ContinueEffect ==
  ASSUME ServerTyped, NEW r \in Request, NEW todo \in SUBSET Schedule,
         NEW at, at = IF todo = {} THEN "done" ELSE "next", Continue(r, todo)
  PROVE  /\ OnlyRequest(r)
         /\ request'[r].at = at
         /\ request'[r].todo = todo
         /\ request'[r].server = request[r].server
         /\ request'[r].boot = request[r].boot
<1> DEFINE e == [request[r] EXCEPT !.at = at, !.todo = todo, !.cur = None]
<1>1. request[r] \in RequestState
  BY DEF ServerTyped
<1>2. /\ e \in RequestState
     /\ e.at = at
     /\ e.todo = todo
     /\ e.server = request[r].server
     /\ e.boot = request[r].boot
  BY <1>1 DEF RequestState, InFlight, Arrived, ServerTyped
<1>3. request' = [request EXCEPT ![r] = e]
  BY <1>1 DEF Continue, RequestState
<1> HIDE DEF e
<1>4. OnlyRequest(r) /\ request'[r] = e
  BY <1>1, <1>2, <1>3 DEF OnlyRequest, ServerTyped
<1> QED
  BY <1>2, <1>4

LEMMA CreateEffect ==
  ASSUME ServerTyped, NEW r \in Request, NEW s \in Schedule, CreateRun(r, s)
  PROVE  /\ OnlyRequest(r)
         /\ request'[r].at = "enqueue"
         /\ request'[r].todo = request[r].todo \ {s}
         /\ request'[r].cur = s
         /\ request'[r].server = request[r].server
         /\ request'[r].boot = request[r].boot
<1> DEFINE e == [request[r] EXCEPT !.at = "enqueue", !.todo = request[r].todo \ {s}, !.cur = s]
<1>1. request[r] \in RequestState
  BY DEF ServerTyped
<1>2. /\ e \in RequestState
     /\ e.at = "enqueue"
     /\ e.todo = request[r].todo \ {s}
     /\ e.cur = s
     /\ e.server = request[r].server
     /\ e.boot = request[r].boot
  BY <1>1 DEF RequestState, InFlight, Arrived, ServerTyped
<1>3. request' = [request EXCEPT ![r] = e]
  BY <1>1 DEF CreateRun, RequestState
<1> HIDE DEF e
<1>4. OnlyRequest(r) /\ request'[r] = e
  BY <1>1, <1>2, <1>3 DEF OnlyRequest, ServerTyped
<1> QED
  BY <1>2, <1>4

LEMMA MovesEffect ==
  ASSUME ServerTyped, NEW r \in Request,
         NEW at \in InFlight \cup {"cut", "refused"}, request' = [request EXCEPT ![r].at = at]
  PROVE  /\ OnlyRequest(r)
         /\ request'[r].at = at
         /\ request'[r].todo = request[r].todo
         /\ request'[r].cur = request[r].cur
         /\ request'[r].server = request[r].server
         /\ request'[r].boot = request[r].boot
<1> DEFINE e == [request[r] EXCEPT !.at = at]
<1>1. request[r] \in RequestState
  BY DEF ServerTyped
<1>2. /\ e \in RequestState
     /\ e.at = at
     /\ e.todo = request[r].todo
     /\ e.cur = request[r].cur
     /\ e.server = request[r].server
     /\ e.boot = request[r].boot
  BY <1>1 DEF RequestState, InFlight, Arrived, ServerTyped
<1>3. request' = [request EXCEPT ![r] = e]
  BY <1>1 DEF Continue, RequestState
<1> HIDE DEF e
<1>4. OnlyRequest(r) /\ request'[r] = e
  BY <1>1, <1>2, <1>3 DEF OnlyRequest, ServerTyped
<1> QED
  BY <1>2, <1>4

-------------------------------------------------------------------------------
(* TypeOK is preserved. *)

PollTyped(p) == /\ poll[p].at # "idle" => poll[p].minute \in 1 .. Horizon
                /\ poll[p].at = "wait" => poll[p].cur \in Schedule
                /\ poll[p].at = "list" => poll[p].orgs # <<>>

RequestTyped(r) == /\ request[r].at \in {"enqueue", "markFailed", "audit"} => request[r].cur \in Schedule
                   /\ request[r].at # "unsent" => request[r].server \in Server

LEMMA OnePollTyped ==
  ASSUME DaemonTyped, NEW p \in Poll, OnlyPoll(p), PollTyped(p)',
         triggered' \in [Schedule -> (1 .. Horizon) \cup {None}],
         life' \in Nat, warm' \in BOOLEAN, overlapped' \in BOOLEAN
  PROVE  DaemonTyped'
<1>1. \A q \in Poll : PollTyped(q)'
  <2> SUFFICES ASSUME NEW q \in Poll, q # p PROVE PollTyped(q)'
    OBVIOUS
  <2> QED
    BY DEF DaemonTyped, PollTyped, OnlyPoll
<1> QED
  BY <1>1 DEF DaemonTyped, PollTyped, OnlyPoll

LEMMA OneRequestTyped ==
  ASSUME ServerTyped, NEW r \in Request, OnlyRequest(r), RequestTyped(r)',
         run' \in [Request -> [Schedule -> {"none", "stored", "enqueued", "failed"}]],
         seen' \in [Server -> SUBSET Delivery], boot' \in [Server -> Nat]
  PROVE  ServerTyped'
<1>1. \A q \in Request : RequestTyped(q)'
  <2> SUFFICES ASSUME NEW q \in Request, q # r PROVE RequestTyped(q)'
    OBVIOUS
  <2> QED
    BY DEF ServerTyped, RequestTyped, OnlyRequest
<1> QED
  BY <1>1 DEF ServerTyped, RequestTyped, OnlyRequest

LEMMA TypeStep == TypeOK /\ [Next]_vars => TypeOK'
<1> SUFFICES ASSUME TypeOK, [Next]_vars PROVE TypeOK'
  OBVIOUS
<1>0. DaemonTyped /\ ServerTyped
  BY DEF TypeOK
<1>1. ASSUME Tick PROVE TypeOK'
  <2>1. DaemonTyped'
    BY <1>1 DEF TypeOK, DaemonTyped, Tick, daemonVars
  <2>2. ServerTyped'
    BY <1>1 DEF TypeOK, ServerTyped, Tick, serverVars
  <2> QED
    BY <1>1, <2>1, <2>2, ClockAssumption DEF TypeOK, Tick
<1>2. ASSUME NEW s \in Schedule, CreateSchedule(s) PROVE TypeOK'
  <2>1. DaemonTyped'
    BY <1>2 DEF TypeOK, DaemonTyped, CreateSchedule, daemonVars
  <2>2. ServerTyped'
    BY <1>2 DEF TypeOK, ServerTyped, CreateSchedule, serverVars
  <2> QED
    BY <1>2, <2>1, <2>2 DEF TypeOK, CreateSchedule
<1>3. ASSUME NEW p \in Poll, StartPoll(p) PROVE TypeOK'
  <2>1. DaemonTyped'
    <3>1. OnlyPoll(p) /\ PollTyped(p)'
      <4>1. Organizations # <<>>
        BY OrganizationsAssumption
      <4>2. minute \in 1 .. Horizon
        BY DEF TypeOK
      <4> QED
        BY <1>0, <1>3, <4>1, <4>2, StartEffect DEF PollTyped
    <3>2. /\ triggered' \in [Schedule -> (1 .. Horizon) \cup {None}]
          /\ life' \in Nat
      BY <1>0, <1>3 DEF DaemonTyped, PollState, StartPoll
    <3>3. warm' \in BOOLEAN /\ overlapped' \in BOOLEAN
      BY <1>0, <1>3, Zenon DEF DaemonTyped, StartPoll
    <3> QED
      BY <1>0, <3>1, <3>2, <3>3, OnePollTyped
  <2>2. ServerTyped'
    BY <1>3 DEF TypeOK, ServerTyped, StartPoll, serverVars
  <2> QED
    BY <1>3, <2>1, <2>2 DEF TypeOK, StartPoll
<1>4. ASSUME NEW p \in Poll, Listed(p) PROVE TypeOK'
  <2>1. DaemonTyped'
    <3>1. OnlyPoll(p) /\ PollTyped(p)'
      BY <1>0, <1>4, ListedEffect DEF DaemonTyped, Listed, TypeOK, PollTyped
    <3>2. /\ triggered' \in [Schedule -> (1 .. Horizon) \cup {None}]
          /\ life' \in Nat
      BY <1>0, <1>4 DEF DaemonTyped, PollState, Listed
    <3>3. warm' \in BOOLEAN /\ overlapped' \in BOOLEAN
      BY <1>0, <1>4, Zenon DEF DaemonTyped, Listed
    <3> QED
      BY <1>0, <3>1, <3>2, <3>3, OnePollTyped
  <2>2. ServerTyped'
    BY <1>4 DEF TypeOK, ServerTyped, Listed, serverVars
  <2> QED
    BY <1>4, <2>1, <2>2 DEF TypeOK, Listed
<1>5. ASSUME NEW p \in Poll, CronAborts(p) PROVE TypeOK'
  <2>1. DaemonTyped'
    <3>0. EndPoll(p, "aborted")
      BY <1>5 DEF CronAborts
    <3>1. OnlyPoll(p) /\ PollTyped(p)'
      BY <1>0, <1>5, <3>0, EndEffect DEF DaemonTyped, CronAborts, EndPoll, TypeOK, PollTyped
    <3>2. /\ triggered' \in [Schedule -> (1 .. Horizon) \cup {None}]
          /\ life' \in Nat
      BY <1>0, <1>5 DEF DaemonTyped, PollState, CronAborts
    <3>3. warm' \in BOOLEAN /\ overlapped' \in BOOLEAN
      BY <1>0, <1>5, Zenon DEF DaemonTyped, CronAborts, EndPoll
    <3> QED
      BY <1>0, <3>1, <3>2, <3>3, OnePollTyped
  <2>2. ServerTyped'
    BY <1>5 DEF TypeOK, ServerTyped, CronAborts, serverVars
  <2> QED
    BY <1>5, <2>1, <2>2 DEF TypeOK, CronAborts
<1>6. ASSUME NEW p \in Poll, NextOrganization(p) PROVE TypeOK'
  <2>1. DaemonTyped'
    <3>1. OnlyPoll(p) /\ PollTyped(p)' /\ warm' \in BOOLEAN
      <4>1. CASE Len(poll[p].orgs) > 1
        <5>1. warm' \in BOOLEAN
          BY <1>0, <1>6, <4>1, Zenon DEF DaemonTyped, NextOrganization
        <5>2. poll[p].at = "scan"
          BY <1>6 DEF NextOrganization
        <5> QED
          BY <1>0, <1>6, <4>1, <5>1, <5>2, NextEffect DEF DaemonTyped, PollTyped
      <4>2. CASE ~(Len(poll[p].orgs) > 1)
        <5>1. EndPoll(p, "complete") /\ poll[p].at = "scan"
          BY <1>6, <4>2 DEF NextOrganization
        <5>2. warm' \in BOOLEAN
          BY <5>1, Zenon DEF EndPoll
        <5> QED
          BY <1>0, <5>1, <5>2, EndEffect DEF DaemonTyped, PollTyped
      <4> QED
        BY <4>1, <4>2
    <3>2. /\ triggered' \in [Schedule -> (1 .. Horizon) \cup {None}]
          /\ life' \in Nat
      BY <1>0, <1>6 DEF DaemonTyped, NextOrganization
    <3>3. overlapped' \in BOOLEAN
      BY <1>0, <1>6, Zenon DEF DaemonTyped, NextOrganization
    <3> QED
      BY <1>0, <3>1, <3>2, <3>3, OnePollTyped
  <2>2. ServerTyped'
    BY <1>6 DEF TypeOK, ServerTyped, NextOrganization, serverVars
  <2> QED
    BY <1>6, <2>1, <2>2 DEF TypeOK, NextOrganization
<1>7. ASSUME NEW p \in Poll, Accepted(p) PROVE TypeOK'
  <2>1. DaemonTyped'
    <3>1. OnlyPoll(p) /\ PollTyped(p)'
      BY <1>0, <1>7, AcceptedEffect DEF DaemonTyped, Accepted, TypeOK, PollTyped
    <3>2. /\ triggered' \in [Schedule -> (1 .. Horizon) \cup {None}]
          /\ life' \in Nat
      BY <1>0, <1>7 DEF DaemonTyped, PollState, Accepted
    <3>3. warm' \in BOOLEAN /\ overlapped' \in BOOLEAN
      BY <1>0, <1>7, Zenon DEF DaemonTyped, Accepted
    <3> QED
      BY <1>0, <3>1, <3>2, <3>3, OnePollTyped
  <2>2. ServerTyped'
    BY <1>7 DEF TypeOK, ServerTyped, Accepted, serverVars
  <2> QED
    BY <1>7, <2>1, <2>2 DEF TypeOK, Accepted
<1>8. ASSUME NEW p \in Poll, Rejected(p) PROVE TypeOK'
  <2>1. DaemonTyped'
    <3>0. EndPoll(p, "aborted")
      BY <1>8 DEF Rejected
    <3>1. OnlyPoll(p) /\ PollTyped(p)'
      BY <1>0, <1>8, <3>0, EndEffect DEF DaemonTyped, Rejected, EndPoll, TypeOK, PollTyped
    <3>2. /\ triggered' \in [Schedule -> (1 .. Horizon) \cup {None}]
          /\ life' \in Nat
      BY <1>0, <1>8 DEF DaemonTyped, PollState, Rejected
    <3>3. warm' \in BOOLEAN /\ overlapped' \in BOOLEAN
      BY <1>0, <1>8, Zenon DEF DaemonTyped, Rejected, EndPoll
    <3> QED
      BY <1>0, <3>1, <3>2, <3>3, OnePollTyped
  <2>2. ServerTyped'
    BY <1>8 DEF TypeOK, ServerTyped, Rejected, serverVars
  <2> QED
    BY <1>8, <2>1, <2>2 DEF TypeOK, Rejected
<1>9. ASSUME NEW p \in Poll, NEW s \in Schedule, NEW v \in Server, SendTrigger(p, s, v)
      PROVE  TypeOK'
  <2>1. DaemonTyped'
    <3>1. OnlyPoll(p) /\ PollTyped(p)'
      <4>1. poll[p].at = "scan"
        BY <1>9 DEF SendTrigger
      <4>2. poll[p].minute \in 1 .. Horizon
        BY <1>0, <4>1 DEF DaemonTyped
      <4> QED
        BY <1>0, <1>9, <4>2, SendEffect DEF PollTyped
    <3>2. /\ triggered' \in [Schedule -> (1 .. Horizon) \cup {None}]
          /\ life' \in Nat
      BY <1>0, <1>9 DEF DaemonTyped, PollState, SendTrigger
    <3>3. warm' \in BOOLEAN /\ overlapped' \in BOOLEAN
      BY <1>0, <1>9, Zenon DEF DaemonTyped, SendTrigger, Arrived
    <3> QED
      BY <1>0, <3>1, <3>2, <3>3, OnePollTyped
  <2>2. ServerTyped'
    <3>1. OnlyRequest(<<p, s>>) /\ RequestTyped(<<p, s>>)'
      BY <1>0, <1>9, ArriveEffect DEF RequestTyped
    <3>2. /\ run' \in [Request -> [Schedule -> {"none", "stored", "enqueued", "failed"}]]
          /\ seen' \in [Server -> SUBSET Delivery] /\ boot' \in [Server -> Nat]
      BY <1>0, <1>9 DEF ServerTyped, SendTrigger
    <3>3. <<p, s>> \in Request
      BY DEF Request, TriggerRequest
    <3> QED
      BY <1>0, <3>1, <3>2, <3>3, OneRequestTyped
  <2> QED
    BY <1>9, <2>1, <2>2 DEF TypeOK, SendTrigger
<1>10. ASSUME NEW p \in Poll, PollFails(p) PROVE TypeOK'
  <2>1. DaemonTyped'
    <3>0. EndPoll(p, "aborted")
      BY <1>10 DEF PollFails
    <3>1. OnlyPoll(p) /\ PollTyped(p)'
      BY <1>0, <1>10, <3>0, EndEffect DEF DaemonTyped, PollFails, EndPoll, TypeOK, PollTyped
    <3>2. /\ triggered' \in [Schedule -> (1 .. Horizon) \cup {None}]
          /\ life' \in Nat
      BY <1>0, <1>10 DEF DaemonTyped, PollState, PollFails
    <3>3. warm' \in BOOLEAN /\ overlapped' \in BOOLEAN
      BY <1>0, <1>10, Zenon DEF DaemonTyped, PollFails, EndPoll
    <3> QED
      BY <1>0, <3>1, <3>2, <3>3, OnePollTyped
  <2>2. ServerTyped'
    BY <1>10 DEF TypeOK, ServerTyped, PollFails, serverVars
  <2> QED
    BY <1>10, <2>1, <2>2 DEF TypeOK, PollFails
<1>11. ASSUME RestartDaemon PROVE TypeOK'
  <2>1. DaemonTyped'
    <3>1. \A p \in Poll : poll'[p] \in PollState /\ PollTyped(p)'
      <4> SUFFICES ASSUME NEW p \in Poll PROVE poll'[p] \in PollState /\ PollTyped(p)'
        OBVIOUS
      <4>1. CASE Running(p)
        BY <1>0, <1>11, <4>1, ZenonT(60) DEF DaemonTyped, PollState, PollTyped, RestartDaemon, Running
      <4>2. CASE ~Running(p)
        BY <1>0, <1>11, <4>2 DEF DaemonTyped, PollTyped, RestartDaemon
      <4> QED
        BY <4>1, <4>2
    <3>2. poll' \in [Poll -> PollState]
      BY <3>1, <1>11 DEF RestartDaemon
    <3> QED
      <4>1. warm' \in BOOLEAN /\ overlapped' \in BOOLEAN
        BY <1>11, Zenon DEF RestartDaemon
      <4>2. life' = life + 1 /\ triggered' = [s \in Schedule |-> None]
        BY <1>11 DEF RestartDaemon
      <4>3. life' \in Nat
        BY <1>0, <4>2 DEF DaemonTyped
      <4>4. triggered' \in [Schedule -> (1 .. Horizon) \cup {None}]
        BY <4>2
      <4> QED
        BY <3>1, <3>2, <4>1, <4>3, <4>4 DEF DaemonTyped, PollTyped
  <2>2. ServerTyped'
    BY <1>11 DEF TypeOK, ServerTyped, RestartDaemon, serverVars
  <2> QED
    BY <1>11, <2>1, <2>2 DEF TypeOK, RestartDaemon
<1>12. ASSUME NEW d \in Delivery, NEW n \in Attempt, NEW v \in Server, Deliver(d, n, v)
       PROVE  TypeOK'
  <2>1. DaemonTyped'
    BY <1>12 DEF TypeOK, DaemonTyped, Deliver, daemonVars
  <2>2. ServerTyped'
    <3>1. PICK at : at = IF d \in seen[v] THEN "done" ELSE "list"
      OBVIOUS
    <3>2. at \in {"done", "list"} /\ <<d, n>> \in Request
      BY <3>1 DEF Request, Hook
    <3>3. OnlyRequest(<<d, n>>) /\ RequestTyped(<<d, n>>)'
      BY <1>0, <1>12, <3>1, <3>2, DeliverEffect DEF RequestTyped
    <3>4. seen' \in [Server -> SUBSET Delivery]
      BY <1>0, <1>12 DEF ServerTyped, Deliver
    <3> QED
      BY <1>0, <1>12, <3>2, <3>3, <3>4, OneRequestTyped DEF ServerTyped, Deliver
  <2> QED
    BY <1>12, <2>1, <2>2 DEF TypeOK, Deliver
<1>13. ASSUME NEW r \in Request, ListSchedules(r) PROVE TypeOK'
  <2>1. DaemonTyped'
    BY <1>13 DEF TypeOK, DaemonTyped, ListSchedules, daemonVars
  <2>2. ServerTyped'
    <3>1. OnlyRequest(r) /\ RequestTyped(r)'
      <4> DEFINE todo == {s \in created : Enabled[s] /\ OrgOf[s] = DeliveryOrg[r[1]]}
      <4>1. todo \in SUBSET Schedule
        BY <1>0 DEF TypeOK, ServerTyped, RequestState
      <4>2. Continue(r, todo) /\ request[r].at # "unsent"
        BY <1>13 DEF ListSchedules
      <4> HIDE DEF todo
      <4>3. PICK at : at = IF todo = {} THEN "done" ELSE "next"
        OBVIOUS
      <4>4. at \notin {"unsent", "enqueue", "markFailed", "audit"}
        BY <4>3
      <4>5. OnlyRequest(r) /\ request'[r].at = at /\ request'[r].server = request[r].server
        BY <1>0, <4>1, <4>2, <4>3, ContinueEffect
      <4>6. request[r].server \in Server
        BY <1>0, <4>2 DEF ServerTyped
      <4> QED
        BY <4>4, <4>5, <4>6 DEF RequestTyped
    <3>2. /\ run' \in [Request -> [Schedule -> {"none", "stored", "enqueued", "failed"}]]
          /\ seen' \in [Server -> SUBSET Delivery] /\ boot' \in [Server -> Nat]
      BY <1>0, <1>13 DEF ServerTyped, ListSchedules
    <3> QED
      BY <1>0, <3>1, <3>2, OneRequestTyped
  <2> QED
    BY <1>13, <2>1, <2>2 DEF TypeOK, ListSchedules
<1>14. ASSUME NEW r \in Request, NEW s \in Schedule, CreateRun(r, s) PROVE TypeOK'
  <2>1. DaemonTyped'
    BY <1>14 DEF TypeOK, DaemonTyped, CreateRun, daemonVars
  <2>2. ServerTyped'
    <3>1. OnlyRequest(r) /\ RequestTyped(r)'
      <4>1. /\ OnlyRequest(r) /\ request'[r].cur = s /\ request'[r].server = request[r].server
        BY <1>0, <1>14, CreateEffect
      <4>2. request[r].server \in Server
        BY <1>0, <1>14 DEF ServerTyped, CreateRun
      <4> QED
        BY <4>1, <4>2 DEF RequestTyped
    <3>2. /\ run' \in [Request -> [Schedule -> {"none", "stored", "enqueued", "failed"}]]
          /\ seen' \in [Server -> SUBSET Delivery] /\ boot' \in [Server -> Nat]
      BY <1>0, <1>14 DEF ServerTyped, CreateRun
    <3> QED
      BY <1>0, <3>1, <3>2, OneRequestTyped
  <2> QED
    BY <1>14, <2>1, <2>2 DEF TypeOK, CreateRun
<1>15. ASSUME NEW r \in Request, Enqueue(r) PROVE TypeOK'
  <2>1. DaemonTyped'
    BY <1>15 DEF TypeOK, DaemonTyped, Enqueue, daemonVars
  <2>2. ServerTyped'
    <3>1. OnlyRequest(r) /\ RequestTyped(r)'
      BY <1>0, <1>15, MovesEffect DEF ServerTyped, Enqueue, InFlight, RequestTyped
    <3>2. /\ run' \in [Request -> [Schedule -> {"none", "stored", "enqueued", "failed"}]]
          /\ seen' \in [Server -> SUBSET Delivery] /\ boot' \in [Server -> Nat]
      BY <1>0, <1>15 DEF ServerTyped, Enqueue
    <3> QED
      BY <1>0, <3>1, <3>2, OneRequestTyped
  <2> QED
    BY <1>15, <2>1, <2>2 DEF TypeOK, Enqueue
<1>16. ASSUME NEW r \in Request, MarkFailed(r) PROVE TypeOK'
  <2>1. DaemonTyped'
    BY <1>16 DEF TypeOK, DaemonTyped, MarkFailed, daemonVars
  <2>2. ServerTyped'
    <3>a. ASSUME r \in TriggerRequest PROVE OnlyRequest(r) /\ RequestTyped(r)'
      BY <1>0, <1>16, <3>a, MovesEffect DEF ServerTyped, MarkFailed, RequestTyped
    <3>b. ASSUME r \notin TriggerRequest PROVE OnlyRequest(r) /\ RequestTyped(r)'
      <4> DEFINE todo == request[r].todo
      <4>1. todo \in SUBSET Schedule
        BY <1>0 DEF TypeOK, ServerTyped, RequestState
      <4>2. Continue(r, todo) /\ request[r].at # "unsent"
        BY <1>16, <3>b DEF MarkFailed
      <4> HIDE DEF todo
      <4>3. PICK at : at = IF todo = {} THEN "done" ELSE "next"
        OBVIOUS
      <4>4. at \notin {"unsent", "enqueue", "markFailed", "audit"}
        BY <4>3
      <4>5. OnlyRequest(r) /\ request'[r].at = at /\ request'[r].server = request[r].server
        BY <1>0, <4>1, <4>2, <4>3, ContinueEffect
      <4>6. request[r].server \in Server
        BY <1>0, <4>2 DEF ServerTyped
      <4> QED
        BY <4>4, <4>5, <4>6 DEF RequestTyped
    <3>1. OnlyRequest(r) /\ RequestTyped(r)'
      BY <3>a, <3>b
    <3>2. /\ run' \in [Request -> [Schedule -> {"none", "stored", "enqueued", "failed"}]]
          /\ seen' \in [Server -> SUBSET Delivery] /\ boot' \in [Server -> Nat]
      BY <1>0, <1>16 DEF ServerTyped, MarkFailed
    <3> QED
      BY <1>0, <3>1, <3>2, OneRequestTyped
  <2> QED
    BY <1>16, <2>1, <2>2 DEF TypeOK, MarkFailed
<1>17. ASSUME NEW r \in Request, AuditRun(r) PROVE TypeOK'
  <2>1. DaemonTyped'
    BY <1>17 DEF TypeOK, DaemonTyped, AuditRun, daemonVars
  <2>2. ServerTyped'
    <3>1. OnlyRequest(r) /\ RequestTyped(r)'
      <4> DEFINE todo == request[r].todo
      <4>1. todo \in SUBSET Schedule
        BY <1>0 DEF TypeOK, ServerTyped, RequestState
      <4>2. Continue(r, todo) /\ request[r].at # "unsent"
        BY <1>17 DEF AuditRun
      <4> HIDE DEF todo
      <4>3. PICK at : at = IF todo = {} THEN "done" ELSE "next"
        OBVIOUS
      <4>4. at \notin {"unsent", "enqueue", "markFailed", "audit"}
        BY <4>3
      <4>5. OnlyRequest(r) /\ request'[r].at = at /\ request'[r].server = request[r].server
        BY <1>0, <4>1, <4>2, <4>3, ContinueEffect
      <4>6. request[r].server \in Server
        BY <1>0, <4>2 DEF ServerTyped
      <4> QED
        BY <4>4, <4>5, <4>6 DEF RequestTyped
    <3>2. /\ run' \in [Request -> [Schedule -> {"none", "stored", "enqueued", "failed"}]]
          /\ seen' \in [Server -> SUBSET Delivery] /\ boot' \in [Server -> Nat]
      BY <1>0, <1>17 DEF ServerTyped, AuditRun
    <3> QED
      BY <1>0, <3>1, <3>2, OneRequestTyped
  <2> QED
    BY <1>17, <2>1, <2>2 DEF TypeOK, AuditRun
<1>18. ASSUME NEW r \in Request, QueueDeclines(r) PROVE TypeOK'
  <2>1. DaemonTyped'
    BY <1>18 DEF TypeOK, DaemonTyped, QueueDeclines, daemonVars
  <2>2. ServerTyped'
    <3>1. OnlyRequest(r) /\ RequestTyped(r)'
      BY <1>0, <1>18, MovesEffect DEF ServerTyped, QueueDeclines, InFlight, RequestTyped
    <3>2. /\ run' \in [Request -> [Schedule -> {"none", "stored", "enqueued", "failed"}]]
          /\ seen' \in [Server -> SUBSET Delivery] /\ boot' \in [Server -> Nat]
      BY <1>0, <1>18 DEF ServerTyped, QueueDeclines
    <3> QED
      BY <1>0, <3>1, <3>2, OneRequestTyped
  <2> QED
    BY <1>18, <2>1, <2>2 DEF TypeOK, QueueDeclines
<1>19. ASSUME NEW r \in Request, HandlerThrows(r) PROVE TypeOK'
  <2>1. DaemonTyped'
    BY <1>19 DEF TypeOK, DaemonTyped, HandlerThrows, daemonVars
  <2>2. ServerTyped'
    <3>1. OnlyRequest(r) /\ RequestTyped(r)'
      BY <1>0, <1>19, MovesEffect DEF ServerTyped, HandlerThrows, InFlight, RequestTyped
    <3>2. /\ run' \in [Request -> [Schedule -> {"none", "stored", "enqueued", "failed"}]]
          /\ seen' \in [Server -> SUBSET Delivery] /\ boot' \in [Server -> Nat]
      BY <1>0, <1>19 DEF ServerTyped, HandlerThrows
    <3> QED
      BY <1>0, <3>1, <3>2, OneRequestTyped
  <2> QED
    BY <1>19, <2>1, <2>2 DEF TypeOK, HandlerThrows
<1>20. ASSUME NEW v \in Server, RestartServer(v) PROVE TypeOK'
  <2>1. DaemonTyped'
    BY <1>20 DEF TypeOK, DaemonTyped, RestartServer, daemonVars
  <2>2. ServerTyped'
    <3>1. \A r \in Request : request'[r] \in RequestState /\ RequestTyped(r)'
      <4> SUFFICES ASSUME NEW r \in Request PROVE request'[r] \in RequestState /\ RequestTyped(r)'
        OBVIOUS
      <4>1. CASE request[r].server = v /\ request[r].at \in InFlight
        <5>1. request'[r] = [request[r] EXCEPT !.at = "cut"]
          BY <1>20, <4>1 DEF RestartServer
        <5>2. request[r] \in RequestState /\ request[r].server \in Server
          BY <1>0, <4>1 DEF ServerTyped, InFlight
        <5> QED
          BY <5>1, <5>2 DEF RequestState, RequestTyped
      <4>2. CASE ~(request[r].server = v /\ request[r].at \in InFlight)
        BY <1>0, <1>20, <4>2 DEF ServerTyped, RequestTyped, RestartServer
      <4> QED
        BY <4>1, <4>2
    <3>2. request' \in [Request -> RequestState]
      BY <3>1, <1>20 DEF RestartServer
    <3>3. seen' \in [Server -> SUBSET Delivery] /\ boot' \in [Server -> Nat]
      BY <1>0, <1>20 DEF ServerTyped, RestartServer
    <3> QED
      BY <1>0, <1>20, <3>1, <3>2, <3>3 DEF ServerTyped, RequestTyped, RestartServer
  <2> QED
    BY <1>20, <2>1, <2>2 DEF TypeOK, RestartServer
<1>21. CASE UNCHANGED vars
  BY <1>21 DEF vars, daemonVars, serverVars, TypeOK, DaemonTyped, ServerTyped
<1> QED
  BY <1>1, <1>2, <1>3, <1>4, <1>5, <1>6, <1>7, <1>8, <1>9, <1>10, <1>11, <1>12, <1>13, <1>14,
      <1>15, <1>16, <1>17, <1>18, <1>19, <1>20, <1>21 DEF Next, DaemonStep, HandlerStep

-------------------------------------------------------------------------------
(* Requests is preserved. *)

LEMMA RunEffect ==
  ASSUME ServerTyped, NEW r \in Request, NEW s \in Schedule,
         NEW x, run' = [run EXCEPT ![r][s] = x]
  PROVE  /\ run'[r][s] = x
         /\ \A t \in Schedule : t # s => run'[r][t] = run[r][t]
         /\ \A q \in Request : q # r => run'[q] = run[q]
BY DEF ServerTyped

(* A handler works on a request that is in flight and on no other. *)
Handles(r) ==
  /\ OnlyRequest(r) /\ request[r].at \in InFlight /\ request'[r].at # "unsent"
  /\ \A q \in Request : q # r => run'[q] = run[q]
  /\ poll' = poll

LEMMA HandlesRequests ==
  ASSUME Requests, NEW r \in Request, Handles(r), Handled(r)',
         \A p \in Poll, s \in Schedule : r = <<p, s>> => OneSchedule(p, s)'
  PROVE  Requests'
<1>1. ASSUME NEW q \in Request PROVE Handled(q)'
  <2>1. CASE q = r
    BY <2>1
  <2>2. CASE q # r
    BY <2>2 DEF Requests, Handled, Handles, OnlyRequest
  <2> QED
    BY <2>1, <2>2
<1>2. ASSUME NEW p \in Poll, NEW s \in Schedule PROVE OneSchedule(p, s)'
  <2>1. CASE <<p, s>> = r
    BY <2>1
  <2>2. CASE <<p, s>> # r
    <3>1. <<p, s>> \in Request
      BY DEF Request, TriggerRequest
    <3> QED
      BY <2>2, <3>1 DEF Requests, OneSchedule, Handles, OnlyRequest
  <2> QED
    BY <2>1, <2>2
<1>3. ASSUME NEW p \in Poll PROVE AllAccepted(p)'
  <2> SUFFICES ASSUME NEW s \in Schedule
               PROVE  /\ poll[p].at = "idle" => request'[<<p, s>>].at = "unsent"
                      /\ Running(p) /\ ~(poll[p].at = "wait" /\ poll[p].cur = s) =>
                           request'[<<p, s>>].at \in {"unsent", "done"}
    BY DEF AllAccepted, Running, Handles
  <2>1. <<p, s>> \in Request
    BY DEF Request, TriggerRequest
  <2>2. /\ poll[p].at = "idle" => request[<<p, s>>].at = "unsent"
        /\ Running(p) /\ ~(poll[p].at = "wait" /\ poll[p].cur = s) =>
             request[<<p, s>>].at \in {"unsent", "done"}
    BY DEF Requests, AllAccepted
  <2>3. CASE <<p, s>> = r
    BY <2>2, <2>3 DEF Handles, InFlight
  <2>4. CASE <<p, s>> # r
    BY <2>1, <2>2, <2>4 DEF Handles, OnlyRequest
  <2> QED
    BY <2>3, <2>4
<1> QED
  BY <1>1, <1>2, <1>3 DEF Requests

(* A step of the daemon that sends nothing. *)
LEMMA DaemonRequests ==
  ASSUME Requests, NEW p \in Poll, OnlyPoll(p), request' = request, run' = run,
         poll[p].at = "idle" => \A s \in Schedule : request[<<p, s>>].at = "unsent",
         poll'[p].at # "idle",
         \A s \in Schedule : Running(p)' /\ ~(poll'[p].at = "wait" /\ poll'[p].cur = s) =>
                               request[<<p, s>>].at \in {"unsent", "done"}
  PROVE  Requests'
<1>1. ASSUME NEW q \in Request PROVE Handled(q)'
  BY DEF Requests, Handled
<1>2. ASSUME NEW q \in Poll, NEW s \in Schedule PROVE OneSchedule(q, s)'
  BY DEF Requests, OneSchedule
<1>3. ASSUME NEW q \in Poll PROVE AllAccepted(q)'
  <2>1. CASE q = p
    BY <2>1 DEF AllAccepted
  <2>2. CASE q # p
    BY <2>2 DEF Requests, AllAccepted, Running, OnlyPoll
  <2> QED
    BY <2>1, <2>2
<1> QED
  BY <1>1, <1>2, <1>3 DEF Requests

LEMMA RequestsCreateRun ==
  ASSUME ServerTyped, Requests, NEW r \in Request, NEW s \in Schedule, CreateRun(r, s)
  PROVE  Requests'
<1>1. OnlyRequest(r) /\ request'[r].at = "enqueue" /\ request'[r].cur = s
                     /\ request'[r].todo = request[r].todo \ {s}
  BY CreateEffect
<1>2. request[r].at = "next" /\ s \in request[r].todo /\ run' = [run EXCEPT ![r][s] = "stored"]
      /\ poll' = poll
  BY DEF CreateRun, daemonVars
<1>3. /\ run'[r][s] = "stored"
      /\ \A t \in Schedule : t # s => run'[r][t] = run[r][t]
      /\ \A q \in Request : q # r => run'[q] = run[q]
  BY <1>2, RunEffect
<1>4. Handled(r)'
  BY <1>1, <1>2, <1>3 DEF Requests, Handled
<1>5. ASSUME NEW p \in Poll, NEW t \in Schedule, r = <<p, t>> PROVE OneSchedule(p, t)'
  <2>1. request[r].todo = {t}
    BY <1>2, <1>5 DEF Requests, OneSchedule
  <2>2. s = t /\ request'[r].todo = {}
    BY <1>1, <1>2, <2>1
  <2> QED
    BY <1>1, <1>5, <2>2 DEF OneSchedule
<1>6. Handles(r)
  BY <1>1, <1>2, <1>3 DEF Handles, InFlight
<1> QED
  BY <1>4, <1>5, <1>6, HandlesRequests

LEMMA RequestsEnqueue ==
  ASSUME ServerTyped, Requests, NEW r \in Request, Enqueue(r)
  PROVE  Requests'
<1>1. OnlyRequest(r) /\ request'[r].at = "audit" /\ request'[r].cur = request[r].cur
                     /\ request'[r].todo = request[r].todo
  BY MovesEffect DEF Enqueue, InFlight
<1>2. request[r].at = "enqueue" /\ run' = [run EXCEPT ![r][request[r].cur] = "enqueued"] /\ poll' = poll
  BY DEF Enqueue, daemonVars
<1>3. request[r].cur \in Schedule
  BY <1>2 DEF ServerTyped
<1>4. /\ run'[r][request[r].cur] = "enqueued"
      /\ \A t \in Schedule : t # request[r].cur => run'[r][t] = run[r][t]
      /\ \A q \in Request : q # r => run'[q] = run[q]
  BY <1>2, <1>3, RunEffect
<1>5. Handled(r)'
  BY <1>1, <1>2, <1>3, <1>4 DEF Requests, Handled
<1>6. ASSUME NEW p \in Poll, NEW t \in Schedule, r = <<p, t>> PROVE OneSchedule(p, t)'
  BY <1>1, <1>2, <1>4, <1>6 DEF Requests, OneSchedule
<1>7. Handles(r)
  BY <1>1, <1>2, <1>4 DEF Handles, InFlight
<1> QED
  BY <1>5, <1>6, <1>7, HandlesRequests

(* No write: the queue declines, the handler throws. *)
LEMMA RequestsMoves ==
  ASSUME ServerTyped, Requests, NEW r \in Request, NEW at \in {"markFailed", "cut"},
         request' = [request EXCEPT ![r].at = at], UNCHANGED <<poll, run>>,
         request[r].at \in InFlight, at = "markFailed" => request[r].at = "enqueue"
  PROVE  Requests'
<1>1. OnlyRequest(r) /\ request'[r].at = at /\ request'[r].cur = request[r].cur
                     /\ request'[r].todo = request[r].todo
  BY MovesEffect DEF InFlight
<1>2. Handled(r)'
  BY <1>1 DEF Requests, Handled
<1>3. ASSUME NEW p \in Poll, NEW t \in Schedule, r = <<p, t>> PROVE OneSchedule(p, t)'
  BY <1>1, <1>3 DEF Requests, OneSchedule
<1>4. Handles(r)
  BY <1>1 DEF Handles
<1> QED
  BY <1>2, <1>3, <1>4, HandlesRequests

(* The handler goes on to the next schedule, its last write behind it. *)
LEMMA RequestsContinue ==
  ASSUME ServerTyped, Requests, NEW r \in Request, NEW todo \in SUBSET Schedule,
         Continue(r, todo),
         poll' = poll, request[r].at \in InFlight,
         \A q \in Request : q # r => run'[q] = run[q],
         \A s \in Schedule : run'[r][s] # "stored",
         \A p \in Poll, s \in Schedule : r = <<p, s>> => todo = {} /\ run'[r][s] = "enqueued"
  PROVE  Requests'
<1>1. PICK at : at = IF todo = {} THEN "done" ELSE "next"
  OBVIOUS
<1>2. OnlyRequest(r) /\ request'[r].at = at
  BY <1>1, ContinueEffect
<1>3. at \in {"done", "next"} /\ (todo = {} => at = "done")
  BY <1>1
<1>4. Handled(r)'
  BY <1>2, <1>3 DEF Handled
<1>5. ASSUME NEW p \in Poll, NEW t \in Schedule, r = <<p, t>> PROVE OneSchedule(p, t)'
  <2>1. request'[r].at = "done" /\ run'[r][t] = "enqueued"
    BY <1>2, <1>3, <1>5
  <2> QED
    BY <1>5, <2>1 DEF OneSchedule
<1>6. Handles(r)
  BY <1>2, <1>3 DEF Handles
<1> QED
  BY <1>4, <1>5, <1>6, HandlesRequests

LEMMA RequestsHandler ==
  ASSUME TypeOK, Requests, NEW r \in Request,
         HandlerStep(r) \/ QueueDeclines(r) \/ HandlerThrows(r)
  PROVE  Requests'
<1>0. ServerTyped
  BY DEF TypeOK
<1>1. CASE ListSchedules(r)
  <2> DEFINE todo == {s \in created : Enabled[s] /\ OrgOf[s] = DeliveryOrg[r[1]]}
  <2>1. todo \in SUBSET Schedule
    BY DEF TypeOK
  <2>2. Continue(r, todo) /\ request[r].at = "list" /\ run' = run /\ poll' = poll
    BY <1>1 DEF ListSchedules, daemonVars
  <2> HIDE DEF todo
  <2>3. \A s \in Schedule : run'[r][s] # "stored"
    BY <2>2 DEF Requests, Handled
  <2>4. \A p \in Poll, s \in Schedule : r # <<p, s>>
    BY <2>2 DEF Requests, OneSchedule
  <2> QED
    BY <1>0, <2>1, <2>2, <2>3, <2>4, RequestsContinue DEF InFlight
<1>2. CASE \E s \in Schedule : CreateRun(r, s)
  BY <1>0, <1>2, RequestsCreateRun
<1>3. CASE Enqueue(r)
  BY <1>0, <1>3, RequestsEnqueue
<1>4. CASE MarkFailed(r)
  <2>1. request[r].at = "markFailed" /\ run' = [run EXCEPT ![r][request[r].cur] = "failed"] /\ poll' = poll
    BY <1>4 DEF MarkFailed, daemonVars
  <2>2. request[r].cur \in Schedule /\ request[r].todo \in SUBSET Schedule
    BY <1>0, <2>1 DEF ServerTyped, RequestState
  <2>3. /\ run'[r][request[r].cur] = "failed"
        /\ \A t \in Schedule : t # request[r].cur => run'[r][t] = run[r][t]
        /\ \A q \in Request : q # r => run'[q] = run[q]
    BY <1>0, <2>1, <2>2, RunEffect
  <2>4. \A s \in Schedule : run'[r][s] # "stored"
    BY <2>1, <2>3 DEF Requests, Handled
  <2>5. CASE r \in TriggerRequest
    <3>1. request' = [request EXCEPT ![r].at = "refused"]
      BY <1>4, <2>5 DEF MarkFailed
    <3>2. OnlyRequest(r) /\ request'[r].at = "refused"
      BY <1>0, <3>1, MovesEffect
    <3>3. Handled(r)' /\ Handles(r)
      BY <2>1, <2>3, <2>4, <3>2 DEF Handled, Handles, InFlight
    <3>4. ASSUME NEW p \in Poll, NEW t \in Schedule, r = <<p, t>> PROVE OneSchedule(p, t)'
      BY <3>2, <3>4 DEF OneSchedule
    <3> QED
      BY <3>3, <3>4, HandlesRequests
  <2>6. CASE r \notin TriggerRequest
    <3>1. Continue(r, request[r].todo)
      BY <1>4, <2>6 DEF MarkFailed
    <3>2. \A p \in Poll, s \in Schedule : r # <<p, s>>
      BY <2>6 DEF TriggerRequest
    <3> QED
      BY <1>0, <2>1, <2>2, <2>3, <2>4, <3>1, <3>2, RequestsContinue DEF InFlight
  <2> QED
    BY <2>5, <2>6
<1>5. CASE AuditRun(r)
  <2>1. request[r].at = "audit" /\ Continue(r, request[r].todo) /\ run' = run /\ poll' = poll
    BY <1>5 DEF AuditRun, daemonVars
  <2>2. request[r].todo \in SUBSET Schedule
    BY <1>0, <2>1 DEF ServerTyped, RequestState
  <2>3. \A s \in Schedule : run'[r][s] # "stored"
    BY <2>1 DEF Requests, Handled
  <2>4. \A p \in Poll, s \in Schedule : r = <<p, s>> => request[r].todo = {} /\ run'[r][s] = "enqueued"
    <3> SUFFICES ASSUME NEW p \in Poll, NEW s \in Schedule, r = <<p, s>>
                 PROVE  request[r].todo = {} /\ run[r][s] = "enqueued"
      BY <2>1
    <3>1. OneSchedule(p, s)
      BY DEF Requests
    <3> QED
      BY <2>1, <3>1 DEF OneSchedule
  <2> QED
    BY <1>0, <2>1, <2>2, <2>3, <2>4, RequestsContinue DEF InFlight
<1>6. CASE QueueDeclines(r)
  BY <1>0, <1>6, RequestsMoves DEF QueueDeclines, InFlight, daemonVars
<1>7. CASE HandlerThrows(r)
  BY <1>0, <1>7, RequestsMoves DEF HandlerThrows, daemonVars
<1> QED
  BY <1>1, <1>2, <1>3, <1>4, <1>5, <1>6, <1>7 DEF HandlerStep

LEMMA RequestsSend ==
  ASSUME TypeOK, Requests, NEW p \in Poll, NEW s \in Schedule, NEW v \in Server,
         SendTrigger(p, s, v)
  PROVE  Requests'
<1> DEFINE r == <<p, s>>
<1>0. DaemonTyped /\ ServerTyped /\ r \in Request
  BY DEF TypeOK, Request, TriggerRequest
<1>1. OnlyRequest(r) /\ request'[r].at = "next" /\ request'[r].todo = {s}
  BY <1>0, ArriveEffect
<1>2. OnlyPoll(p) /\ poll'[p].at = "wait" /\ poll'[p].cur = s
  BY <1>0, SendEffect
<1>3. poll[p].at = "scan" /\ run' = run
  BY DEF SendTrigger
<1>4. request[r].at \in {"unsent", "done"}
  BY <1>3 DEF Requests, AllAccepted, Running
<1>5. Handled(r)'
  BY <1>0, <1>1, <1>3, <1>4 DEF Requests, Handled
<1>6. ASSUME NEW q \in Request PROVE Handled(q)'
  <2>1. CASE q = r
    BY <1>5, <2>1
  <2>2. CASE q # r
    BY <1>1, <1>3, <2>2 DEF Requests, Handled, OnlyRequest
  <2> QED
    BY <2>1, <2>2
<1>7. ASSUME NEW q \in Poll, NEW t \in Schedule PROVE OneSchedule(q, t)'
  <2>1. CASE <<q, t>> = r
    <3>1. q = p /\ t = s
      BY <2>1
    <3> QED
      BY <1>1, <3>1 DEF OneSchedule
  <2>2. CASE <<q, t>> # r
    <3>1. <<q, t>> \in Request
      BY DEF Request, TriggerRequest
    <3> QED
      BY <1>1, <1>3, <2>2, <3>1 DEF Requests, OneSchedule, OnlyRequest
  <2> QED
    BY <2>1, <2>2
<1>8. ASSUME NEW q \in Poll PROVE AllAccepted(q)'
  <2>1. CASE q = p
    <3> SUFFICES ASSUME NEW t \in Schedule, t # s
                 PROVE  request'[<<p, t>>].at \in {"unsent", "done"}
      BY <1>2, <2>1 DEF AllAccepted
    <3>1. <<p, t>> \in Request /\ <<p, t>> # r
      BY DEF Request, TriggerRequest
    <3>2. request[<<p, t>>].at \in {"unsent", "done"}
      BY <1>3 DEF Requests, AllAccepted, Running
    <3> QED
      BY <1>1, <3>1, <3>2 DEF OnlyRequest
  <2>2. CASE q # p
    <3> SUFFICES ASSUME NEW t \in Schedule
                 PROVE  request'[<<q, t>>] = request[<<q, t>>] /\ poll'[q] = poll[q]
      BY DEF Requests, AllAccepted, Running
    <3>1. <<q, t>> \in Request /\ <<q, t>> # r
      BY <2>2 DEF Request, TriggerRequest
    <3> QED
      BY <1>1, <1>2, <2>2, <3>1 DEF OnlyRequest, OnlyPoll
  <2> QED
    BY <2>1, <2>2
<1> QED
  BY <1>6, <1>7, <1>8 DEF Requests

LEMMA RequestsDeliver ==
  ASSUME TypeOK, Requests, NEW d \in Delivery, NEW n \in Attempt, NEW v \in Server,
         Deliver(d, n, v)
  PROVE  Requests'
<1> DEFINE r == <<d, n>>
<1>0. ServerTyped /\ r \in Hook /\ r \in Request
  BY DEF TypeOK, Request, Hook
<1>1. PICK at : at = IF d \in seen[v] THEN "done" ELSE "list"
  OBVIOUS
<1>2. OnlyRequest(r) /\ request'[r].at \in {"done", "list"}
  <2>1. OnlyRequest(r) /\ request'[r].at = at
    BY <1>0, <1>1, DeliverEffect
  <2> QED
    BY <1>1, <2>1
<1>3. request[r].at = "unsent" /\ run' = run /\ poll' = poll
  BY DEF Deliver, Unsent, daemonVars
<1>4. ASSUME NEW q \in Request PROVE Handled(q)'
  <2>1. CASE q = r
    BY <1>0, <1>2, <1>3, <2>1 DEF Requests, Handled
  <2>2. CASE q # r
    BY <1>2, <1>3, <2>2 DEF Requests, Handled, OnlyRequest
  <2> QED
    BY <2>1, <2>2
<1>5. ASSUME NEW p \in Poll, NEW s \in Schedule PROVE request'[<<p, s>>] = request[<<p, s>>]
  <2>1. <<p, s>> \in TriggerRequest /\ <<p, s>> \in Request
    BY DEF Request, TriggerRequest
  <2>2. <<p, s>> # r
    BY <1>0, <2>1, RequestAssumption
  <2> QED
    BY <1>2, <2>1, <2>2 DEF OnlyRequest
<1>6. ASSUME NEW p \in Poll, NEW s \in Schedule PROVE OneSchedule(p, s)'
  BY <1>3, <1>5 DEF Requests, OneSchedule
<1>7. ASSUME NEW p \in Poll PROVE AllAccepted(p)'
  BY <1>3, <1>5 DEF Requests, AllAccepted, Running
<1> QED
  BY <1>4, <1>6, <1>7 DEF Requests

LEMMA RequestsRestartServer ==
  ASSUME TypeOK, Requests, NEW v \in Server, RestartServer(v)
  PROVE  Requests'
<1>0. ServerTyped /\ run' = run /\ poll' = poll
  BY DEF TypeOK, RestartServer, daemonVars
<1>1. ASSUME NEW r \in Request
      PROVE  \/ request'[r] = request[r]
             \/ request[r].at \in InFlight /\ request'[r].at = "cut"
  <2>1. CASE request[r].server = v /\ request[r].at \in InFlight
    BY <1>0, <2>1 DEF ServerTyped, RequestState, RestartServer
  <2>2. CASE ~(request[r].server = v /\ request[r].at \in InFlight)
    BY <2>2 DEF RestartServer
  <2> QED
    BY <2>1, <2>2
<1>2. ASSUME NEW r \in Request PROVE Handled(r)'
  BY <1>0, <1>1 DEF Requests, Handled, InFlight
<1>3. ASSUME NEW p \in Poll, NEW s \in Schedule PROVE <<p, s>> \in Request
  BY DEF Request, TriggerRequest
<1>4. ASSUME NEW p \in Poll, NEW s \in Schedule PROVE OneSchedule(p, s)'
  BY <1>0, <1>1, <1>3 DEF Requests, OneSchedule, InFlight
<1>5. ASSUME NEW p \in Poll PROVE AllAccepted(p)'
  <2> SUFFICES ASSUME NEW s \in Schedule
               PROVE  \/ request'[<<p, s>>] = request[<<p, s>>]
                      \/ request[<<p, s>>].at \in InFlight
    BY <1>0, <1>1, <1>3 DEF Requests, AllAccepted, Running, InFlight
  <2> QED
    BY <1>1, <1>3
<1> QED
  BY <1>2, <1>4, <1>5 DEF Requests

LEMMA RequestsEndPoll ==
  ASSUME DaemonTyped, Requests, NEW p \in Poll, NEW how \in {"complete", "aborted"},
         EndPoll(p, how),
         poll[p].at # "idle", UNCHANGED <<request, run>>
  PROVE  Requests'
<1>1. OnlyPoll(p) /\ poll'[p].at = how
  BY EndEffect
<1> QED
  BY <1>1, DaemonRequests DEF Running

LEMMA RequestsDaemon ==
  ASSUME TypeOK, Requests, NEW p \in Poll, StartPoll(p) \/ DaemonStep(p) \/ PollFails(p)
  PROVE  Requests'
<1>0. DaemonTyped
  BY DEF TypeOK
<1>1. CASE StartPoll(p)
  <2>1. OnlyPoll(p) /\ poll'[p].at = "list"
    BY <1>0, <1>1, StartEffect
  <2>2. poll[p].at = "idle" /\ UNCHANGED <<request, run>>
    BY <1>1 DEF StartPoll, serverVars
  <2>3. \A s \in Schedule : request[<<p, s>>].at = "unsent"
    BY <2>2 DEF Requests, AllAccepted
  <2> QED
    BY <2>1, <2>2, <2>3, DaemonRequests
<1>2. CASE Listed(p)
  <2>1. OnlyPoll(p) /\ poll'[p].at = "scan"
    BY <1>0, <1>2, ListedEffect
  <2>2. poll[p].at = "list" /\ UNCHANGED <<request, run>>
    BY <1>2 DEF Listed, serverVars
  <2>3. \A s \in Schedule : request[<<p, s>>].at \in {"unsent", "done"}
    BY <2>2 DEF Requests, AllAccepted, Running
  <2> QED
    BY <2>1, <2>2, <2>3, DaemonRequests
<1>3. CASE CronAborts(p)
  BY <1>0, <1>3, RequestsEndPoll DEF CronAborts, serverVars
<1>4. CASE NextOrganization(p)
  <2>1. poll[p].at = "scan" /\ UNCHANGED <<request, run>>
    BY <1>4 DEF NextOrganization, serverVars
  <2>2. CASE Len(poll[p].orgs) > 1
    <3>1. OnlyPoll(p) /\ poll'[p].at = "list"
      BY <1>0, <1>4, <2>2, NextEffect
    <3>2. \A s \in Schedule : request[<<p, s>>].at \in {"unsent", "done"}
      BY <2>1 DEF Requests, AllAccepted, Running
    <3> QED
      BY <2>1, <3>1, <3>2, DaemonRequests
  <2>3. CASE ~(Len(poll[p].orgs) > 1)
    BY <1>0, <1>4, <2>1, <2>3, RequestsEndPoll DEF NextOrganization
  <2> QED
    BY <2>2, <2>3
<1>5. CASE Accepted(p)
  <2>1. OnlyPoll(p) /\ poll'[p].at = "scan"
    BY <1>0, <1>5, AcceptedEffect
  <2>2. poll[p].at = "wait" /\ request[<<p, poll[p].cur>>].at = "done" /\ UNCHANGED <<request, run>>
    BY <1>5 DEF Accepted, serverVars
  <2>3. \A s \in Schedule : request[<<p, s>>].at \in {"unsent", "done"}
    BY <2>2 DEF Requests, AllAccepted, Running
  <2> QED
    BY <2>1, <2>2, <2>3, DaemonRequests
<1>6. CASE Rejected(p)
  BY <1>0, <1>6, RequestsEndPoll DEF Rejected, serverVars
<1>7. CASE \E s \in Schedule, v \in Server : SendTrigger(p, s, v)
  BY <1>7, RequestsSend
<1>8. CASE PollFails(p)
  BY <1>0, <1>8, RequestsEndPoll DEF PollFails, serverVars
<1> QED
  BY <1>1, <1>2, <1>3, <1>4, <1>5, <1>6, <1>7, <1>8 DEF DaemonStep

(* A restart of the daemon leaves each poll as it was, or ends it. *)
LEMMA RestartEffect ==
  ASSUME DaemonTyped, RestartDaemon, NEW p \in Poll
  PROVE  \/ ~Running(p) /\ poll'[p] = poll[p]
         \/ /\ Running(p) /\ poll'[p].at = "aborted"
            /\ poll'[p].minute = poll[p].minute /\ poll'[p].life = poll[p].life
<1>1. CASE Running(p)
  BY <1>1 DEF DaemonTyped, PollState, RestartDaemon
<1>2. CASE ~Running(p)
  BY <1>2 DEF RestartDaemon
<1> QED
  BY <1>1, <1>2

LEMMA RequestsStep == TypeOK /\ Requests /\ [Next]_vars => Requests'
<1> SUFFICES ASSUME TypeOK, Requests, [Next]_vars PROVE Requests'
  OBVIOUS
<1>1. CASE Tick \/ (\E s \in Schedule : CreateSchedule(s)) \/ UNCHANGED vars
  <2>1. UNCHANGED <<poll, request, run>>
    BY <1>1 DEF Tick, CreateSchedule, vars, daemonVars, serverVars
  <2> QED
    BY <2>1 DEF Requests, Handled, OneSchedule, AllAccepted, Running
<1>2. CASE \E p \in Poll : StartPoll(p) \/ DaemonStep(p) \/ PollFails(p)
  BY <1>2, RequestsDaemon
<1>3. CASE RestartDaemon
  <2>1. DaemonTyped /\ UNCHANGED <<request, run>>
    BY <1>3 DEF TypeOK, RestartDaemon, serverVars
  <2>2. \A p \in Poll : AllAccepted(p)'
    BY <1>3, <2>1, RestartEffect DEF Requests, AllAccepted, Running
  <2> QED
    BY <2>1, <2>2 DEF Requests, Handled, OneSchedule
<1>4. CASE \E d \in Delivery, n \in Attempt, v \in Server : Deliver(d, n, v)
  BY <1>4, RequestsDeliver
<1>5. CASE \E r \in Request : HandlerStep(r) \/ QueueDeclines(r) \/ HandlerThrows(r)
  BY <1>5, RequestsHandler
<1>6. CASE \E v \in Server : RestartServer(v)
  BY <1>6, RequestsRestartServer
<1> QED
  BY <1>1, <1>2, <1>3, <1>4, <1>5, <1>6 DEF Next

-------------------------------------------------------------------------------
(* What a step may do to polls and requests. *)

(* The handler of a request in flight moves on. *)
MovesOn(r) ==
  /\ OnlyRequest(r)
  /\ request[r].at \in InFlight /\ request'[r].at # "unsent"
  /\ request'[r].server = request[r].server /\ request'[r].boot = request[r].boot
  /\ \A q \in Request : q # r => run'[q] = run[q]
  /\ UNCHANGED <<minute, created, daemonVars, seen, boot>>

LEMMA ContinueMovesOn ==
  ASSUME ServerTyped, NEW r \in Request, NEW todo \in SUBSET Schedule, Continue(r, todo),
         request[r].at \in InFlight, \A q \in Request : q # r => run'[q] = run[q],
         UNCHANGED <<minute, created, daemonVars, seen, boot>>
  PROVE  MovesOn(r)
<1>1. PICK at : at = IF todo = {} THEN "done" ELSE "next"
  OBVIOUS
<1>2. OnlyRequest(r) /\ request'[r].at = at /\ request'[r].server = request[r].server
                     /\ request'[r].boot = request[r].boot
  BY <1>1, ContinueEffect
<1>3. at # "unsent"
  BY <1>1
<1> QED
  BY <1>2, <1>3 DEF MovesOn

LEMMA HandlerMovesOn ==
  ASSUME TypeOK, NEW r \in Request, HandlerStep(r) \/ QueueDeclines(r) \/ HandlerThrows(r)
  PROVE  MovesOn(r)
<1>0. ServerTyped
  BY DEF TypeOK
<1>1. CASE ListSchedules(r)
  <2> DEFINE todo == {s \in created : Enabled[s] /\ OrgOf[s] = DeliveryOrg[r[1]]}
  <2>1. todo \in SUBSET Schedule
    BY DEF TypeOK
  <2>2. /\ Continue(r, todo) /\ request[r].at \in InFlight /\ run' = run
        /\ UNCHANGED <<minute, created, daemonVars, seen, boot>>
    BY <1>1 DEF ListSchedules, InFlight
  <2> HIDE DEF todo
  <2> QED
    BY <1>0, <2>1, <2>2, ContinueMovesOn
<1>2. ASSUME NEW s \in Schedule, CreateRun(r, s) PROVE MovesOn(r)
  <2>1. /\ OnlyRequest(r) /\ request'[r].at = "enqueue" /\ request'[r].server = request[r].server
        /\ request'[r].boot = request[r].boot
    BY <1>0, <1>2, CreateEffect
  <2>2. /\ request[r].at = "next" /\ run' = [run EXCEPT ![r][s] = "stored"]
        /\ UNCHANGED <<minute, created, daemonVars, seen, boot>>
    BY <1>2 DEF CreateRun
  <2>3. \A q \in Request : q # r => run'[q] = run[q]
    BY <1>0, <2>2, RunEffect
  <2> QED
    BY <2>1, <2>2, <2>3 DEF MovesOn, InFlight
<1>3. CASE Enqueue(r)
  <2>1. /\ request[r].at = "enqueue" /\ run' = [run EXCEPT ![r][request[r].cur] = "enqueued"]
        /\ request' = [request EXCEPT ![r].at = "audit"]
        /\ UNCHANGED <<minute, created, daemonVars, seen, boot>>
    BY <1>3 DEF Enqueue
  <2>2. /\ OnlyRequest(r) /\ request'[r].at = "audit" /\ request'[r].server = request[r].server
        /\ request'[r].boot = request[r].boot
    BY <1>0, <2>1, MovesEffect DEF InFlight
  <2>3. \A q \in Request : q # r => run'[q] = run[q]
    BY <1>0, <2>1, RunEffect DEF ServerTyped
  <2> QED
    BY <2>1, <2>2, <2>3 DEF MovesOn, InFlight
<1>4. CASE MarkFailed(r)
  <2>1. /\ request[r].at = "markFailed" /\ run' = [run EXCEPT ![r][request[r].cur] = "failed"]
        /\ UNCHANGED <<minute, created, daemonVars, seen, boot>>
    BY <1>4 DEF MarkFailed
  <2>2. request[r].cur \in Schedule /\ request[r].todo \in SUBSET Schedule
    BY <1>0, <2>1 DEF ServerTyped, RequestState
  <2>3. \A q \in Request : q # r => run'[q] = run[q]
    BY <1>0, <2>1, <2>2, RunEffect
  <2>4. CASE r \in TriggerRequest
    <3>1. request' = [request EXCEPT ![r].at = "refused"]
      BY <1>4, <2>4 DEF MarkFailed
    <3>2. /\ OnlyRequest(r) /\ request'[r].at = "refused" /\ request'[r].server = request[r].server
          /\ request'[r].boot = request[r].boot
      BY <1>0, <3>1, MovesEffect
    <3> QED
      BY <2>1, <2>3, <3>2 DEF MovesOn, InFlight
  <2>5. CASE r \notin TriggerRequest
    <3>1. Continue(r, request[r].todo)
      BY <1>4, <2>5 DEF MarkFailed
    <3> QED
      BY <1>0, <2>1, <2>2, <2>3, <3>1, ContinueMovesOn DEF InFlight
  <2> QED
    BY <2>4, <2>5
<1>5. CASE AuditRun(r)
  <2>1. /\ request[r].at = "audit" /\ Continue(r, request[r].todo) /\ run' = run
        /\ UNCHANGED <<minute, created, daemonVars, seen, boot>>
    BY <1>5 DEF AuditRun
  <2>2. request[r].todo \in SUBSET Schedule
    BY <1>0 DEF ServerTyped, RequestState
  <2> QED
    BY <1>0, <2>1, <2>2, ContinueMovesOn DEF InFlight
<1>6. CASE QueueDeclines(r) \/ HandlerThrows(r)
  <2>1. PICK at \in {"markFailed", "cut"} : request' = [request EXCEPT ![r].at = at]
    BY <1>6 DEF QueueDeclines, HandlerThrows
  <2>2. /\ request[r].at \in InFlight /\ run' = run
        /\ UNCHANGED <<minute, created, daemonVars, seen, boot>>
    BY <1>6 DEF QueueDeclines, HandlerThrows, InFlight
  <2>3. /\ OnlyRequest(r) /\ request'[r].at = at /\ request'[r].server = request[r].server
        /\ request'[r].boot = request[r].boot
    BY <1>0, <2>1, MovesEffect DEF InFlight
  <2> QED
    BY <2>2, <2>3 DEF MovesOn
<1> QED
  BY <1>1, <1>2, <1>3, <1>4, <1>5, <1>6 DEF HandlerStep

(* A poll that has started keeps its minute and its life. *)
Continues ==
  \A p \in Poll : /\ poll'[p].at = "idle" <=> poll[p].at = "idle"
                  /\ poll[p].at # "idle" => poll'[p].minute = poll[p].minute /\ poll'[p].life = poll[p].life
                  /\ Running(p)' => Running(p)
                  /\ poll[p].at = "aborted" => poll'[p].at = "aborted"

LEMMA EndContinues ==
  ASSUME DaemonTyped, NEW p \in Poll, NEW how \in {"complete", "aborted"}, EndPoll(p, how),
         Running(p)
  PROVE  Continues
<1>1. OnlyPoll(p) /\ poll'[p].at = how /\ poll'[p].minute = poll[p].minute /\ poll'[p].life = poll[p].life
  BY EndEffect
<1> QED
  BY <1>1 DEF Continues, OnlyPoll, Running

LEMMA DaemonContinues ==
  ASSUME TypeOK, NEW p \in Poll, DaemonStep(p) \/ PollFails(p)
  PROVE  Continues /\ UNCHANGED <<minute, created, life, overlapped>>
<1>0. DaemonTyped
  BY DEF TypeOK
<1>1. CASE Listed(p)
  <2>1. /\ OnlyPoll(p) /\ poll'[p].at = "scan" /\ poll'[p].minute = poll[p].minute
        /\ poll'[p].life = poll[p].life
    BY <1>1, <1>0, ListedEffect
  <2>2. poll[p].at = "list" /\ UNCHANGED <<minute, created, life, overlapped>>
    BY <1>1 DEF Listed
  <2> QED
    BY <2>1, <2>2 DEF Continues, OnlyPoll, Running
<1>2. CASE CronAborts(p) \/ Rejected(p) \/ PollFails(p)
  <2>1. EndPoll(p, "aborted") /\ Running(p) /\ UNCHANGED <<minute, created, life, overlapped>>
    BY <1>2 DEF CronAborts, Rejected, PollFails, Running
  <2> QED
    BY <2>1, <1>0, EndContinues
<1>3. CASE NextOrganization(p)
  <2>1. poll[p].at = "scan" /\ UNCHANGED <<minute, created, life, overlapped>>
    BY <1>3 DEF NextOrganization
  <2>2. CASE Len(poll[p].orgs) > 1
    <3>1. /\ OnlyPoll(p) /\ poll'[p].at = "list" /\ poll'[p].minute = poll[p].minute
          /\ poll'[p].life = poll[p].life
      BY <1>3, <2>2, <1>0, NextEffect
    <3> QED
      BY <2>1, <3>1 DEF Continues, OnlyPoll, Running
  <2>3. CASE ~(Len(poll[p].orgs) > 1)
    <3>1. EndPoll(p, "complete")
      BY <1>3, <2>3 DEF NextOrganization
    <3> QED
      BY <2>1, <3>1, <1>0, EndContinues DEF Running
  <2> QED
    BY <2>2, <2>3
<1>4. CASE Accepted(p)
  <2>1. /\ OnlyPoll(p) /\ poll'[p].at = "scan" /\ poll'[p].minute = poll[p].minute
        /\ poll'[p].life = poll[p].life
    BY <1>4, <1>0, AcceptedEffect
  <2>2. poll[p].at = "wait" /\ UNCHANGED <<minute, created, life, overlapped>>
    BY <1>4 DEF Accepted
  <2> QED
    BY <2>1, <2>2 DEF Continues, OnlyPoll, Running
<1>5. ASSUME NEW s \in Schedule, NEW v \in Server, SendTrigger(p, s, v)
      PROVE  Continues /\ UNCHANGED <<minute, created, life, overlapped>>
  <2>1. /\ OnlyPoll(p) /\ poll'[p].at = "wait" /\ poll'[p].minute = poll[p].minute
        /\ poll'[p].life = poll[p].life
    BY <1>5, <1>0, SendEffect
  <2>2. poll[p].at = "scan" /\ UNCHANGED <<minute, created, life, overlapped>>
    BY <1>5 DEF SendTrigger
  <2> QED
    BY <2>1, <2>2 DEF Continues, OnlyPoll, Running
<1> QED
  BY <1>1, <1>2, <1>3, <1>4, <1>5 DEF DaemonStep

LEMMA PollsContinue ==
  ASSUME TypeOK, [Next]_vars, ~ \E p \in Poll : StartPoll(p)
  PROVE  /\ Continues
         /\ \/ UNCHANGED <<life, overlapped>>
            \/ RestartDaemon /\ life' = life + 1 /\ \A p \in Poll : ~Running(p)'
         /\ minute' \in {minute, minute + 1}
<1>0. DaemonTyped
  BY DEF TypeOK
<1>1. CASE UNCHANGED <<poll, life, overlapped>> /\ minute' \in {minute, minute + 1}
  BY <1>1 DEF Continues, Running
<1>2. CASE Tick \/ (\E s \in Schedule : CreateSchedule(s)) \/ UNCHANGED vars
  BY <1>1, <1>2 DEF Tick, CreateSchedule, vars, daemonVars
<1>3. CASE \E p \in Poll : DaemonStep(p) \/ PollFails(p)
  BY <1>3, DaemonContinues
<1>4. CASE RestartDaemon
  <2>1. \A p \in Poll : ~Running(p)'
    BY <1>0, <1>4, RestartEffect DEF Running
  <2>2. Continues
    BY <1>0, <1>4, <2>1, RestartEffect DEF Continues, Running
  <2>3. life' = life + 1 /\ minute' = minute
    BY <1>4 DEF RestartDaemon
  <2> QED
    BY <1>4, <2>1, <2>2, <2>3
<1>5. CASE \E d \in Delivery, n \in Attempt, v \in Server : Deliver(d, n, v)
  BY <1>1, <1>5 DEF Deliver, daemonVars
<1>6. CASE \E r \in Request : HandlerStep(r) \/ QueueDeclines(r) \/ HandlerThrows(r)
  BY <1>1, <1>6, HandlerMovesOn DEF MovesOn, daemonVars
<1>7. CASE \E v \in Server : RestartServer(v)
  BY <1>1, <1>7 DEF RestartServer, daemonVars
<1> QED
  BY <1>2, <1>3, <1>4, <1>5, <1>6, <1>7 DEF Next

(* A poll moves in its own steps, and when the daemon restarts. *)
LEMMA PollMoves ==
  ASSUME TypeOK, [Next]_vars, NEW p \in Poll
  PROVE  \/ StartPoll(p) \/ DaemonStep(p) \/ PollFails(p) \/ RestartDaemon
         \/ poll'[p] = poll[p]
<1>0. DaemonTyped
  BY DEF TypeOK
<1>1. CASE poll' = poll
  BY <1>1
<1>2. ASSUME NEW q \in Poll, q # p, StartPoll(q) \/ DaemonStep(q) \/ PollFails(q)
      PROVE  poll'[p] = poll[p]
  <2>1. OnlyPoll(q)
    <3>1. CASE StartPoll(q)
      BY <1>0, <3>1, StartEffect
    <3>2. CASE Listed(q)
      BY <1>0, <3>2, ListedEffect
    <3>3. CASE CronAborts(q) \/ Rejected(q) \/ PollFails(q)
      <4>1. EndPoll(q, "aborted")
        BY <3>3 DEF CronAborts, Rejected, PollFails
      <4> QED
        BY <1>0, <4>1, EndEffect
    <3>4. CASE NextOrganization(q)
      <4>1. CASE Len(poll[q].orgs) > 1
        BY <1>0, <3>4, <4>1, NextEffect
      <4>2. CASE ~(Len(poll[q].orgs) > 1)
        <5>1. EndPoll(q, "complete")
          BY <3>4, <4>2 DEF NextOrganization
        <5> QED
          BY <1>0, <5>1, EndEffect
      <4> QED
        BY <4>1, <4>2
    <3>5. CASE Accepted(q)
      BY <1>0, <3>5, AcceptedEffect
    <3>6. CASE \E s \in Schedule, v \in Server : SendTrigger(q, s, v)
      BY <1>0, <3>6, SendEffect
    <3> QED
      BY <1>2, <3>1, <3>2, <3>3, <3>4, <3>5, <3>6 DEF DaemonStep
  <2> QED
    BY <1>2, <2>1 DEF OnlyPoll
<1>3. CASE Tick \/ (\E s \in Schedule : CreateSchedule(s)) \/ UNCHANGED vars
  BY <1>1, <1>3 DEF Tick, CreateSchedule, vars, daemonVars
<1>4. CASE \/ \E d \in Delivery, n \in Attempt, v \in Server : Deliver(d, n, v)
           \/ \E v \in Server : RestartServer(v)
  BY <1>1, <1>4 DEF Deliver, RestartServer, daemonVars
<1>5. CASE \E r \in Request : HandlerStep(r) \/ QueueDeclines(r) \/ HandlerThrows(r)
  BY <1>1, <1>5, HandlerMovesOn DEF MovesOn, daemonVars
<1> QED
  BY <1>2, <1>3, <1>4, <1>5 DEF Next

(* A poll that has started stays so, with its minute. *)
LEMMA StartedPoll ==
  ASSUME TypeOK, [Next]_vars, NEW p \in Poll, poll[p].at # "idle"
  PROVE  poll'[p].at # "idle" /\ poll'[p].minute = poll[p].minute
<1>1. CASE \E q \in Poll : StartPoll(q)
  <2>1. PICK q \in Poll : StartPoll(q)
    BY <1>1
  <2>2. OnlyPoll(q) /\ q # p
    BY <2>1, StartEffect DEF TypeOK, StartPoll
  <2> QED
    BY <2>2 DEF OnlyPoll
<1>2. CASE ~ \E q \in Poll : StartPoll(q)
  BY <1>2, PollsContinue DEF Continues
<1> QED
  BY <1>1, <1>2

(* What the daemon sends is not sent before, and what is done stays done. *)
LEMMA TriggersKept ==
  ASSUME TypeOK, [Next]_vars, NEW p \in Poll, NEW s \in Schedule,
         ~ \E v \in Server : SendTrigger(p, s, v)
  PROVE  /\ request'[<<p, s>>].at = "unsent" <=> request[<<p, s>>].at = "unsent"
         /\ request[<<p, s>>].at = "done" => request'[<<p, s>>].at = "done"
<1> DEFINE t == <<p, s>>
<1>0. DaemonTyped /\ ServerTyped /\ t \in Request /\ t \in TriggerRequest
  BY DEF TypeOK, Request, TriggerRequest
<1>1. CASE Tick \/ (\E x \in Schedule : CreateSchedule(x)) \/ UNCHANGED vars \/ RestartDaemon
  BY <1>1 DEF Tick, CreateSchedule, vars, serverVars, RestartDaemon
<1>2. ASSUME NEW q \in Poll, StartPoll(q) \/ DaemonStep(q) \/ PollFails(q)
      PROVE  request'[t] = request[t]
  <2>1. CASE \E x \in Schedule, v \in Server : SendTrigger(q, x, v)
    <3>1. PICK x \in Schedule, v \in Server : SendTrigger(q, x, v)
      BY <2>1
    <3>2. OnlyRequest(<<q, x>>)
      BY <1>0, <3>1, ArriveEffect
    <3>3. t # <<q, x>>
      BY <3>1
    <3> QED
      BY <1>0, <3>2, <3>3 DEF OnlyRequest
  <2>2. CASE ~ \E x \in Schedule, v \in Server : SendTrigger(q, x, v)
    BY <1>2, <2>2 DEF DaemonStep, StartPoll, Listed, CronAborts, NextOrganization, Accepted,
        Rejected,
         PollFails, serverVars
  <2> QED
    BY <2>1, <2>2
<1>3. CASE \E d \in Delivery, n \in Attempt, v \in Server : Deliver(d, n, v)
  <2>1. PICK d \in Delivery, n \in Attempt, v \in Server : Deliver(d, n, v)
    BY <1>3
  <2>2. PICK at : at = IF d \in seen[v] THEN "done" ELSE "list"
    OBVIOUS
  <2>3. OnlyRequest(<<d, n>>)
    BY <1>0, <2>1, <2>2, DeliverEffect
  <2>4. t # <<d, n>>
    BY <1>0, RequestAssumption DEF Hook
  <2> QED
    BY <1>0, <2>3, <2>4 DEF OnlyRequest
<1>4. CASE \E r \in Request : HandlerStep(r) \/ QueueDeclines(r) \/ HandlerThrows(r)
  <2>1. PICK r \in Request : HandlerStep(r) \/ QueueDeclines(r) \/ HandlerThrows(r)
    BY <1>4
  <2>2. MovesOn(r)
    BY <2>1, HandlerMovesOn
  <2>3. CASE r = t
    BY <2>2, <2>3 DEF MovesOn, InFlight
  <2>4. CASE r # t
    BY <1>0, <2>2, <2>4 DEF MovesOn, OnlyRequest
  <2> QED
    BY <2>3, <2>4
<1>5. CASE \E v \in Server : RestartServer(v)
  <2>1. PICK v \in Server : RestartServer(v)
    BY <1>5
  <2>2. CASE request[t].server = v /\ request[t].at \in InFlight
    BY <1>0, <2>1, <2>2 DEF ServerTyped, RequestState, RestartServer, InFlight
  <2>3. CASE ~(request[t].server = v /\ request[t].at \in InFlight)
    BY <1>0, <2>1, <2>3 DEF RestartServer
  <2> QED
    BY <2>2, <2>3
<1> QED
  BY <1>1, <1>2, <1>3, <1>4, <1>5 DEF Next

-------------------------------------------------------------------------------
(* What the daemon remembers. *)

LEMMA InTurnStep == TypeOK /\ InTurn /\ [Next]_vars => InTurn'
<1> SUFFICES ASSUME TypeOK, InTurn, [Next]_vars PROVE InTurn'
  OBVIOUS
<1>0. /\ DaemonTyped /\ minute \in Nat /\ life \in Nat /\ Poll \subseteq Nat
      /\ \A p \in Poll : poll[p].at # "idle" => poll[p].minute \in Nat
      /\ \A p \in Poll : poll[p].life \in Nat
  BY ClockAssumption, RequestAssumption DEF TypeOK, DaemonTyped, PollState
<1>1. CASE \E p \in Poll : StartPoll(p)
  <2>1. PICK p \in Poll : StartPoll(p)
    BY <1>1
  <2>2. /\ OnlyPoll(p) /\ poll'[p].at = "list" /\ poll'[p].minute = minute /\ poll'[p].life = life
    BY <1>0, <2>1, StartEffect
  <2>3. /\ poll[p].at = "idle" /\ UNCHANGED <<minute, life>>
        /\ \A q \in Poll : q < p => poll[q].at # "idle"
        /\ overlapped' = (overlapped \/ \E q \in Poll : Running(q))
    BY <2>1 DEF StartPoll
  <2>4. \A q \in Poll : poll'[q].at # "idle" => poll'[q].minute <= minute' /\ poll'[q].life <= life'
    BY <1>0, <2>2, <2>3 DEF InTurn, OnlyPoll
  <2>5. \A q \in Poll : Running(q)' => poll'[q].life = life'
    BY <2>2, <2>3 DEF InTurn, OnlyPoll, Running
  <2>6. ASSUME NEW x \in Poll, NEW y \in Poll, x < y, poll'[y].at # "idle"
        PROVE  poll'[x].at # "idle" /\ poll'[x].minute <= poll'[y].minute
    <3>1. CASE x = p
      BY <1>0, <2>2, <2>3, <2>6, <3>1 DEF InTurn, OnlyPoll
    <3>2. CASE y = p
      BY <1>0, <2>2, <2>3, <2>6, <3>2 DEF InTurn, OnlyPoll
    <3>3. CASE x # p /\ y # p
      BY <2>2, <2>6, <3>3 DEF InTurn, OnlyPoll
    <3> QED
      BY <3>1, <3>2, <3>3
  <2>7. ASSUME ~overlapped', NEW x \in Poll, NEW y \in Poll, x < y, Running(x)'
        PROVE  poll'[y].at = "idle"
    <3>1. ~overlapped /\ \A q \in Poll : ~Running(q)
      BY <2>3, <2>7
    <3>2. x = p
      BY <2>2, <2>7, <3>1 DEF OnlyPoll, Running
    <3>3. y # p /\ poll'[y] = poll[y]
      BY <1>0, <2>2, <2>7, <3>2 DEF OnlyPoll
    <3> QED
      BY <2>3, <2>7, <3>2, <3>3 DEF InTurn
  <2> QED
    BY <2>4, <2>5, <2>6, <2>7 DEF InTurn
<1>2. CASE ~ \E p \in Poll : StartPoll(p)
  <2>1. /\ Continues
        /\ \/ UNCHANGED <<life, overlapped>>
           \/ RestartDaemon /\ life' = life + 1 /\ \A p \in Poll : ~Running(p)'
        /\ minute' \in {minute, minute + 1}
    BY <1>2, PollsContinue
  <2>2. \A q \in Poll : poll'[q].at # "idle" => poll'[q].minute <= minute' /\ poll'[q].life <= life'
    BY <1>0, <2>1 DEF InTurn, Continues
  <2>3. \A q \in Poll : Running(q)' => poll'[q].life = life'
    BY <1>0, <2>1 DEF InTurn, Continues, Running
  <2>4. ASSUME NEW x \in Poll, NEW y \in Poll, x < y, poll'[y].at # "idle"
        PROVE  poll'[x].at # "idle" /\ poll'[x].minute <= poll'[y].minute
    BY <2>1, <2>4 DEF InTurn, Continues
  <2>5. ASSUME ~overlapped', NEW x \in Poll, NEW y \in Poll, x < y, Running(x)'
        PROVE  poll'[y].at = "idle"
    BY <2>1, <2>5 DEF InTurn, Continues
  <2> QED
    BY <2>2, <2>3, <2>4, <2>5 DEF InTurn
<1> QED
  BY <1>1, <1>2

(* Only an answer 202, and a restart, change what is remembered. *)
LEMMA TriggeredKept ==
  ASSUME [Next]_vars, ~ \E p \in Poll : Accepted(p), ~RestartDaemon
  PROVE  triggered' = triggered
<1>1. CASE \E r \in Request : HandlerStep(r) \/ QueueDeclines(r) \/ HandlerThrows(r)
  BY <1>1 DEF HandlerStep, ListSchedules, CreateRun, Enqueue, MarkFailed, AuditRun, QueueDeclines,
       HandlerThrows, daemonVars
<1>2. CASE \E p \in Poll : StartPoll(p) \/ DaemonStep(p) \/ PollFails(p)
  BY <1>2 DEF DaemonStep, StartPoll, Listed, CronAborts, NextOrganization, Rejected, PollFails,
      SendTrigger
<1>3. CASE Tick \/ (\E s \in Schedule : CreateSchedule(s)) \/ UNCHANGED vars
  BY <1>3 DEF Tick, CreateSchedule, vars, daemonVars
<1>4. CASE \/ \E d \in Delivery, n \in Attempt, v \in Server : Deliver(d, n, v)
           \/ \E v \in Server : RestartServer(v)
  BY <1>4 DEF Deliver, RestartServer, daemonVars
<1> QED
  BY <1>1, <1>2, <1>3, <1>4 DEF Next

LEMMA RememberedStep == TypeOK /\ Requests /\ Remembered /\ [Next]_vars => Remembered'
<1> SUFFICES ASSUME TypeOK, Requests, Remembered, [Next]_vars, NEW s \in Schedule, triggered'[s] # None
             PROVE  \E p \in Poll : /\ poll'[p].at # "idle" /\ poll'[p].minute = triggered'[s]
                                    /\ request'[<<p, s>>].at = "done"
  BY DEF Remembered
<1>0. DaemonTyped
  BY DEF TypeOK
<1>1. CASE \E p \in Poll : Accepted(p) /\ poll[p].cur = s
  <2>1. PICK p \in Poll : Accepted(p) /\ poll[p].cur = s
    BY <1>1
  <2>2. poll'[p].at = "scan" /\ poll'[p].minute = poll[p].minute
    BY <1>0, <2>1, AcceptedEffect
  <2>3. request[<<p, s>>].at = "done" /\ request' = request /\ triggered' = [triggered EXCEPT ![s] = poll[p].minute]
    BY <2>1 DEF Accepted, serverVars
  <2>4. triggered'[s] = poll[p].minute
    BY <1>0, <2>3 DEF DaemonTyped
  <2> QED
    BY <2>2, <2>3, <2>4
<1>2. CASE RestartDaemon
  BY <1>2 DEF RestartDaemon
<1>3. CASE ~RestartDaemon /\ ~ \E p \in Poll : Accepted(p) /\ poll[p].cur = s
  <2>1. triggered'[s] = triggered[s]
    <3>1. CASE \E p \in Poll : Accepted(p)
      <4>1. PICK p \in Poll : Accepted(p) /\ poll[p].cur # s
        BY <1>3, <3>1
      <4>2. triggered' = [triggered EXCEPT ![poll[p].cur] = poll[p].minute]
        BY <4>1 DEF Accepted
      <4> QED
        BY <1>0, <4>1, <4>2 DEF DaemonTyped
    <3>2. CASE ~ \E p \in Poll : Accepted(p)
      BY <1>3, <3>2, TriggeredKept
    <3> QED
      BY <3>1, <3>2
  <2>2. PICK p \in Poll : /\ poll[p].at # "idle" /\ poll[p].minute = triggered[s]
                          /\ request[<<p, s>>].at = "done"
    BY <2>1 DEF Remembered
  <2>3. ~ \E v \in Server : SendTrigger(p, s, v)
    BY <2>2 DEF SendTrigger, Due, Considered
  <2>4. request'[<<p, s>>].at = "done"
    BY <2>2, <2>3, TriggersKept
  <2>5. poll'[p].at # "idle" /\ poll'[p].minute = poll[p].minute
    BY <2>2, StartedPoll
  <2> QED
    BY <2>1, <2>2, <2>4, <2>5
<1> QED
  BY <1>1, <1>2, <1>3

(* A poll that waits for an answer goes on only with it. *)
LEMMA WaitingPoll ==
  ASSUME TypeOK, [Next]_vars, NEW p \in Poll, poll[p].at = "wait", ~Accepted(p), ~RestartDaemon
  PROVE  poll'[p].at = "aborted" \/ poll'[p] = poll[p]
<1>0. DaemonTyped
  BY DEF TypeOK
<1>1. CASE Rejected(p) \/ PollFails(p)
  <2>1. EndPoll(p, "aborted")
    BY <1>1 DEF Rejected, PollFails
  <2> QED
    BY <1>0, <2>1, EndEffect
<1>2. CASE StartPoll(p) \/ DaemonStep(p) \/ PollFails(p)
  BY <1>1, <1>2 DEF DaemonStep, StartPoll, Listed, CronAborts, NextOrganization, SendTrigger
<1> QED
  BY <1>2, PollMoves

LEMMA StillRememberedStep ==
  TypeOK /\ Requests /\ InTurn /\ StillRemembered /\ [Next]_vars => StillRemembered'
<1> SUFFICES ASSUME TypeOK, Requests, InTurn, StillRemembered, [Next]_vars, ~overlapped',
                    NEW p \in Poll, NEW s \in Schedule,
                    Sent(<<p, s>>)', poll'[p].life = life', poll'[p].at # "aborted",
                    ~(poll'[p].at = "wait" /\ poll'[p].cur = s)
             PROVE  triggered'[s] # None /\ triggered'[s] >= poll'[p].minute
  BY DEF StillRemembered
<1>0. /\ DaemonTyped /\ Poll \subseteq Nat /\ life \in Nat
      /\ \A q \in Poll : /\ poll[q].at # "idle" => poll[q].minute \in 1 .. Horizon
                         /\ poll[q].life \in Nat
                         /\ poll[q].at = "wait" => poll[q].cur \in Schedule
  BY RequestAssumption DEF TypeOK, DaemonTyped, PollState
<1>1. CASE \E q \in Poll : StartPoll(q)
  <2>1. PICK q \in Poll : StartPoll(q)
    BY <1>1
  <2>2. OnlyPoll(q)
    BY <1>0, <2>1, StartEffect
  <2>3. poll[q].at = "idle" /\ UNCHANGED <<request, triggered, life>> /\ ~overlapped
    BY <2>1 DEF StartPoll, serverVars
  <2>4. q # p
    BY <2>3 DEF Requests, AllAccepted, Sent
  <2> QED
    BY <2>2, <2>3, <2>4 DEF OnlyPoll, StillRemembered, Sent
<1>2. CASE RestartDaemon
  <2>1. life' = life + 1 /\ request' = request
    BY <1>2 DEF RestartDaemon, serverVars
  <2>2. poll[p].at # "idle"
    BY <2>1 DEF Requests, AllAccepted, Sent
  <2>3. poll'[p].life = poll[p].life
    BY <1>0, <1>2, RestartEffect
  <2> QED
    BY <1>0, <2>1, <2>2, <2>3 DEF InTurn
<1>3. CASE (~ \E q \in Poll : StartPoll(q)) /\ ~RestartDaemon
  <2>1. Continues /\ life' = life /\ ~overlapped
    BY <1>3, PollsContinue
  <2>2. CASE \E q \in Poll : Accepted(q)
    <3>1. PICK q \in Poll : Accepted(q)
      BY <2>2
    <3>2. OnlyPoll(q)
      BY <1>0, <3>1, AcceptedEffect
    <3>3. /\ poll[q].at = "wait" /\ request' = request
          /\ triggered' = [triggered EXCEPT ![poll[q].cur] = poll[q].minute]
      BY <3>1 DEF Accepted, serverVars
    <3>4. poll[p].at # "idle"
      BY <3>3 DEF Requests, AllAccepted, Sent
    <3>5. poll'[p].minute = poll[p].minute /\ poll'[p].life = poll[p].life
      BY <2>1, <3>4 DEF Continues
    <3>6. CASE s = poll[q].cur
      <4>1. triggered'[s] = poll[q].minute
        BY <1>0, <3>3, <3>6 DEF DaemonTyped
      <4>2. poll[q].minute \in 1 .. Horizon
        BY <1>0, <3>3
      <4>3. poll[p].minute <= poll[q].minute
        <5>1. CASE p < q
          BY <3>3, <5>1 DEF InTurn
        <5>2. CASE p = q
          BY <1>0, <4>2, <5>2, ClockAssumption
        <5>3. CASE q < p
          BY <2>1, <3>3, <3>4, <5>3 DEF InTurn, Running
        <5> QED
          BY <1>0, <5>1, <5>2, <5>3
      <4> QED
        BY <1>0, <3>4, <3>5, <4>1, <4>2, <4>3, ClockAssumption
    <3>7. CASE s # poll[q].cur
      <4>1. triggered'[s] = triggered[s]
        BY <1>0, <3>3, <3>7 DEF DaemonTyped
      <4>2. poll[p].at # "aborted" /\ ~(poll[p].at = "wait" /\ poll[p].cur = s)
        <5>1. CASE p = q
          BY <3>3, <3>7, <5>1
        <5>2. CASE p # q
          BY <3>2, <5>2 DEF OnlyPoll
        <5> QED
          BY <5>1, <5>2
      <4> QED
        BY <2>1, <3>3, <3>5, <4>1, <4>2 DEF StillRemembered, Sent
    <3> QED
      BY <3>6, <3>7
  <2>3. CASE ~ \E q \in Poll : Accepted(q)
    <3>1. triggered' = triggered
      BY <1>3, <2>3, TriggeredKept
    <3>2. ~ \E v \in Server : SendTrigger(p, s, v)
      BY <1>0, SendEffect
    <3>3. Sent(<<p, s>>)
      BY <3>2, TriggersKept DEF Sent
    <3>4. poll[p].at # "idle"
      BY <3>3 DEF Requests, AllAccepted, Sent
    <3>5. /\ poll'[p].minute = poll[p].minute /\ poll'[p].life = poll[p].life
          /\ poll[p].at # "aborted"
      BY <2>1, <3>4 DEF Continues
    <3>6. ~(poll[p].at = "wait" /\ poll[p].cur = s)
      <4> SUFFICES ASSUME poll[p].at = "wait", poll[p].cur = s PROVE FALSE
        OBVIOUS
      <4>1. poll'[p].at = "aborted" \/ poll'[p] = poll[p]
        BY WaitingPoll, <1>3, <2>3
      <4> QED
        BY <4>1
    <3> QED
      BY <2>1, <3>1, <3>3, <3>5, <3>6 DEF StillRemembered
  <2> QED
    BY <2>2, <2>3
<1> QED
  BY <1>1, <1>2, <1>3

LEMMA SentAgainStep ==
  /\ TypeOK /\ Requests /\ Remembered /\ InTurn /\ StillRemembered /\ SentAgainAfterAbort
  /\ [Next]_vars
  => SentAgainAfterAbort'
<1> SUFFICES ASSUME TypeOK, Requests, Remembered, InTurn, StillRemembered, SentAgainAfterAbort,
                    [Next]_vars, ~overlapped', NEW s \in Schedule, NEW p \in Poll, NEW q \in Poll, p < q,
                    Sent(<<p, s>>)', Sent(<<q, s>>)', poll'[p].minute = poll'[q].minute,
                    poll'[p].life = life', poll'[q].life = life'
             PROVE  poll'[p].at = "aborted"
  BY DEF SentAgainAfterAbort
<1>0. /\ DaemonTyped /\ Poll \subseteq Nat /\ life \in Nat
      /\ \A x \in Poll : /\ poll[x].at # "idle" => poll[x].minute \in 1 .. Horizon
                         /\ poll[x].life \in Nat
  BY RequestAssumption DEF TypeOK, DaemonTyped, PollState
<1>1. CASE \E x \in Schedule, y \in Poll, v \in Server : SendTrigger(y, x, v) /\ x = s /\ y = p
  <2>1. PICK v \in Server : SendTrigger(p, s, v)
    BY <1>1
  <2>2. poll[p].at = "scan" /\ ~overlapped
    BY <2>1 DEF SendTrigger
  <2>3. poll[q].at = "idle"
    BY <2>2 DEF InTurn, Running
  <2>4. ~ \E w \in Server : SendTrigger(q, s, w)
    BY <2>3 DEF SendTrigger
  <2>5. request[<<q, s>>].at # "unsent"
    BY <2>4, TriggersKept DEF Sent
  <2> QED
    BY <2>3, <2>5 DEF Requests, AllAccepted
<1>2. CASE \E v \in Server : SendTrigger(q, s, v)
  <2>1. PICK v \in Server : SendTrigger(q, s, v)
    BY <1>2
  <2>2. /\ poll[q].at = "scan" /\ ~overlapped /\ life' = life
        /\ Enabled[s] /\ triggered[s] # poll[q].minute
    BY <2>1 DEF SendTrigger, Due, Considered
  <2>3. OnlyPoll(q) /\ poll'[q].minute = poll[q].minute /\ poll'[q].life = poll[q].life
    BY <1>0, <2>1, SendEffect
  <2>4. poll'[p] = poll[p]
    BY <1>0, <2>3 DEF OnlyPoll
  <2>5. ~ \E w \in Server : SendTrigger(p, s, w)
    <3>1. ~Running(p)
      BY <2>2 DEF InTurn
    <3> QED
      BY <3>1 DEF SendTrigger, Running
  <2>6. Sent(<<p, s>>)
    BY <2>5, TriggersKept DEF Sent
  <2>7. ~Running(p)
    BY <2>2 DEF InTurn
  <2> SUFFICES ASSUME poll[p].at # "aborted" PROVE FALSE
    BY <2>4
  <2>8. triggered[s] # None /\ triggered[s] >= poll[p].minute
    BY <2>2, <2>4, <2>6, <2>7 DEF StillRemembered, Running
  <2>9. PICK x \in Poll : poll[x].at # "idle" /\ poll[x].minute = triggered[s]
    BY <2>8 DEF Remembered
  <2>10. ~(q < x)
    BY <2>2, <2>9 DEF InTurn, Running
  <2>11. poll[x].minute <= poll[q].minute
    <3>1. CASE x < q
      BY <2>2, <3>1 DEF InTurn
    <3>2. CASE x = q
      <4>1. poll[q].minute \in Nat
        BY <1>0, <2>2, ClockAssumption
      <4> QED
        BY <3>2, <4>1
    <3> QED
      BY <1>0, <2>10, <3>1, <3>2
  <2>12. poll[p].minute = poll[q].minute
    BY <2>3, <2>4
  <2> QED
    BY <1>0, <2>2, <2>8, <2>9, <2>11, <2>12, ClockAssumption
<1>3. CASE ~ \E v \in Server : SendTrigger(p, s, v) \/ SendTrigger(q, s, v)
  <2>1. Sent(<<p, s>>) /\ Sent(<<q, s>>)
    BY <1>3, TriggersKept DEF Sent
  <2>2. poll[p].at # "idle" /\ poll[q].at # "idle"
    BY <2>1 DEF Requests, AllAccepted, Sent
  <2>3. CASE \E x \in Poll : StartPoll(x)
    <3>1. PICK x \in Poll : StartPoll(x)
      BY <2>3
    <3>2. OnlyPoll(x) /\ x # p /\ x # q /\ life' = life /\ ~overlapped
      BY <1>0, <2>2, <3>1, StartEffect DEF StartPoll
    <3>3. poll'[p] = poll[p] /\ poll'[q] = poll[q]
      BY <3>2 DEF OnlyPoll
    <3> QED
      BY <2>1, <3>2, <3>3 DEF SentAgainAfterAbort
  <2>4. CASE ~ \E x \in Poll : StartPoll(x)
    <3>1. /\ Continues
          /\ \/ UNCHANGED <<life, overlapped>>
             \/ life' = life + 1
      BY <2>4, PollsContinue
    <3>2. /\ poll'[p].minute = poll[p].minute /\ poll'[p].life = poll[p].life
          /\ poll'[q].minute = poll[q].minute /\ poll'[q].life = poll[q].life
      BY <2>2, <3>1 DEF Continues
    <3>3. life' = life /\ ~overlapped
      BY <1>0, <2>2, <3>1, <3>2 DEF InTurn
    <3>4. poll[p].at = "aborted"
      BY <2>1, <3>2, <3>3 DEF SentAgainAfterAbort
    <3> QED
      BY <3>1, <3>4 DEF Continues
  <2> QED
    BY <2>3, <2>4
<1> QED
  BY <1>1, <1>2, <1>3

-------------------------------------------------------------------------------
(* What the replicas have seen. *)

(* A step that delivers nothing lets nothing more through. *)
LEMMA HooksKept ==
  ASSUME TypeOK, [Next]_vars, NEW r \in Hook, ~ \E n \in Attempt, d \in Delivery, v \in Server :
                                                   Deliver(d, n, v) /\ r = <<d, n>>
  PROVE  /\ request'[r].at = "unsent" <=> request[r].at = "unsent"
         /\ request'[r].server = request[r].server /\ request'[r].boot = request[r].boot
         /\ LetThrough(r)' => LetThrough(r)
<1>0. ServerTyped /\ r \in Request
  BY DEF TypeOK, Request
<1>1. CASE request'[r] = request[r] /\ run'[r] = run[r]
  BY <1>1 DEF LetThrough
<1>2. CASE Tick \/ (\E x \in Schedule : CreateSchedule(x)) \/ UNCHANGED vars \/ RestartDaemon
  BY <1>1, <1>2 DEF Tick, CreateSchedule, vars, serverVars, RestartDaemon
<1>3. CASE \E q \in Poll : StartPoll(q) \/ DaemonStep(q) \/ PollFails(q)
  <2>1. PICK q \in Poll : StartPoll(q) \/ DaemonStep(q) \/ PollFails(q)
    BY <1>3
  <2>2. CASE \E x \in Schedule, v \in Server : SendTrigger(q, x, v)
    <3>1. PICK x \in Schedule, v \in Server : SendTrigger(q, x, v)
      BY <2>2
    <3>2. OnlyRequest(<<q, x>>) /\ run' = run
      BY <1>0, <3>1, ArriveEffect DEF SendTrigger
    <3>3. r # <<q, x>>
      BY RequestAssumption DEF TriggerRequest
    <3> QED
      BY <1>0, <1>1, <3>2, <3>3 DEF OnlyRequest
  <2>3. CASE ~ \E x \in Schedule, v \in Server : SendTrigger(q, x, v)
    BY <1>1, <2>1, <2>3 DEF DaemonStep, StartPoll, Listed, CronAborts, NextOrganization, Accepted,
         Rejected, PollFails, serverVars
  <2> QED
    BY <2>2, <2>3
<1>4. CASE \E d \in Delivery, n \in Attempt, v \in Server : Deliver(d, n, v)
  <2>1. PICK d \in Delivery, n \in Attempt, v \in Server : Deliver(d, n, v)
    BY <1>4
  <2>2. PICK at : at = IF d \in seen[v] THEN "done" ELSE "list"
    OBVIOUS
  <2>3. OnlyRequest(<<d, n>>) /\ run' = run
    BY <1>0, <2>1, <2>2, DeliverEffect DEF Deliver
  <2>4. r # <<d, n>>
    BY <2>1
  <2> QED
    BY <1>0, <1>1, <2>3, <2>4 DEF OnlyRequest
<1>5. CASE \E q \in Request : HandlerStep(q) \/ QueueDeclines(q) \/ HandlerThrows(q)
  <2>1. PICK q \in Request : MovesOn(q)
    BY <1>5, HandlerMovesOn
  <2>2. CASE q = r
    BY <2>1, <2>2 DEF MovesOn, InFlight, LetThrough
  <2>3. CASE q # r
    BY <1>0, <1>1, <2>1, <2>3 DEF MovesOn, OnlyRequest
  <2> QED
    BY <2>2, <2>3
<1>6. CASE \E v \in Server : RestartServer(v)
  <2>1. PICK v \in Server : RestartServer(v)
    BY <1>6
  <2>2. CASE request[r].server = v /\ request[r].at \in InFlight
    BY <1>0, <2>1, <2>2 DEF ServerTyped, RequestState, RestartServer, InFlight, LetThrough
  <2>3. CASE ~(request[r].server = v /\ request[r].at \in InFlight)
    BY <1>0, <1>1, <2>1, <2>3 DEF RestartServer
  <2> QED
    BY <2>2, <2>3
<1> QED
  BY <1>2, <1>3, <1>4, <1>5, <1>6 DEF Next

LEMMA SeenKept ==
  ASSUME TypeOK, [Next]_vars, ~ \E d \in Delivery, n \in Attempt, v \in Server : Deliver(d, n, v)
  PROVE  UNCHANGED <<seen, boot>> \/ \E v \in Server : RestartServer(v)
<1>1. CASE Tick \/ (\E x \in Schedule : CreateSchedule(x)) \/ UNCHANGED vars \/ RestartDaemon
  BY <1>1 DEF Tick, CreateSchedule, vars, serverVars, RestartDaemon
<1>2. CASE \E q \in Poll : StartPoll(q) \/ DaemonStep(q) \/ PollFails(q)
  <2>1. PICK q \in Poll : StartPoll(q) \/ DaemonStep(q) \/ PollFails(q)
    BY <1>2
  <2>2. CASE StartPoll(q)
    BY <2>2 DEF StartPoll, serverVars
  <2>3. CASE DaemonStep(q)
    BY <2>3 DEF DaemonStep, Listed, CronAborts, NextOrganization, Accepted, Rejected, SendTrigger, serverVars
  <2>4. CASE PollFails(q)
    BY <2>4 DEF PollFails, serverVars
  <2> QED
    BY <2>1, <2>2, <2>3, <2>4
<1>3. CASE \E q \in Request : HandlerStep(q) \/ QueueDeclines(q) \/ HandlerThrows(q)
  BY <1>3, HandlerMovesOn DEF MovesOn
<1> QED
  BY <1>1, <1>2, <1>3 DEF Next

LEMMA SeenOnceStep == TypeOK /\ Requests /\ SeenOnce /\ [Next]_vars => SeenOnce'
<1> SUFFICES ASSUME TypeOK, Requests, SeenOnce, [Next]_vars PROVE SeenOnce'
  OBVIOUS
<1>0. ServerTyped /\ \A r \in Hook : r \in Request
  BY DEF TypeOK, Request
<1>a. \A d \in Delivery, n \in Attempt : <<d, n>> \in Hook
  BY DEF Hook
<1>b. \A r \in Hook : LetThrough(r) => request[r].at # "unsent"
  BY <1>0 DEF Requests, Handled, LetThrough, InFlight
<1>1. CASE \E d \in Delivery, n \in Attempt, v \in Server : Deliver(d, n, v)
  <2>1. PICK d \in Delivery, n \in Attempt, v \in Server : Deliver(d, n, v)
    BY <1>1
  <2> DEFINE r == <<d, n>>
  <2>2. PICK at : at = IF d \in seen[v] THEN "done" ELSE "list"
    OBVIOUS
  <2>3. OnlyRequest(r) /\ request'[r].at = at /\ request'[r].server = v /\ request'[r].boot = boot[v]
    BY <1>0, <2>1, <2>2, DeliverEffect
  <2>4. request[r].at = "unsent" /\ UNCHANGED <<run, boot>> /\ boot[v] \in Nat
    BY <1>0, <2>1 DEF ServerTyped, Deliver, Unsent
  <2>5. \A s \in Schedule : run'[r][s] = "none"
    BY <1>0, <1>a, <2>4 DEF Requests, Handled
  <2>6. d \in seen[v] => ~LetThrough(r)' /\ seen' = seen
    <3> SUFFICES ASSUME d \in seen[v] PROVE ~LetThrough(r)' /\ seen' = seen
      OBVIOUS
    <3>1. request'[r].at = "done"
      BY <2>2, <2>3
    <3> QED
      BY <2>1, <2>5, <3>1 DEF LetThrough, InFlight, Deliver
  <2>7. /\ \A w \in Server : seen[w] \subseteq seen'[w]
        /\ d \in seen'[v]
    BY <1>0, <2>1 DEF ServerTyped, Deliver
  <2>8. ASSUME NEW q \in Hook, q # r
        PROVE  /\ request'[q] = request[q]
               /\ LetThrough(q)' <=> LetThrough(q)
    BY <1>0, <2>3, <2>4, <2>8 DEF OnlyRequest, LetThrough
  <2>9. ASSUME NEW q \in Hook, request'[q].at # "unsent"
        PROVE  request'[q].boot <= boot'[request'[q].server]
    <3>1. CASE q = r
      BY <2>3, <2>4, <3>1
    <3>2. CASE q # r
      BY <2>4, <2>8, <2>9, <3>2 DEF SeenOnce
    <3> QED
      BY <3>1, <3>2
  <2>10. ASSUME NEW e \in Delivery, NEW m \in Attempt, LetThrough(<<e, m>>)',
                request'[<<e, m>>].boot = boot'[request'[<<e, m>>].server]
         PROVE  e \in seen'[request'[<<e, m>>].server]
    <3>1. CASE <<e, m>> = r
      <4>1. e = d
        BY <3>1
      <4> QED
        BY <2>3, <2>7, <3>1, <4>1
    <3>2. CASE <<e, m>> # r
      <4>1. <<e, m>> \in Hook /\ request'[<<e, m>>] = request[<<e, m>>] /\ LetThrough(<<e, m>>)
        BY <1>a, <2>8, <2>10, <3>2
      <4>2. e \in seen[request[<<e, m>>].server] /\ request[<<e, m>>].server \in Server
        BY <1>0, <1>b, <2>4, <2>10, <4>1 DEF SeenOnce, ServerTyped
      <4> QED
        BY <2>7, <4>1, <4>2
    <3> QED
      BY <3>1, <3>2
  <2>11. ASSUME NEW e \in Delivery, NEW m \in Attempt, NEW k \in Attempt, m # k,
                LetThrough(<<e, m>>)', LetThrough(<<e, k>>)'
         PROVE  \/ request'[<<e, m>>].server # request'[<<e, k>>].server
                \/ request'[<<e, m>>].boot # request'[<<e, k>>].boot
    <3>1. ASSUME NEW x \in Attempt, x # n, LetThrough(<<d, n>>)', LetThrough(<<d, x>>)'
          PROVE  request'[<<d, x>>].server # v \/ request'[<<d, x>>].boot # boot[v]
      <4>1. <<d, x>> \in Hook /\ <<d, x>> # r
        BY <1>a, <3>1
      <4>2. request'[<<d, x>>] = request[<<d, x>>] /\ LetThrough(<<d, x>>)
        BY <2>8, <3>1, <4>1
      <4>3. d \notin seen[v]
        BY <2>6, <3>1
      <4> QED
        BY <4>2, <4>3 DEF SeenOnce
    <3>2. CASE <<e, m>> = r
      <4>1. e = d /\ m = n
        BY <3>2
      <4> QED
        BY <2>3, <2>11, <3>1, <4>1
    <3>3. CASE <<e, k>> = r
      <4>1. e = d /\ k = n
        BY <3>3
      <4> QED
        BY <2>3, <2>11, <3>1, <4>1
    <3>4. CASE <<e, m>> # r /\ <<e, k>> # r
      <4>1. <<e, m>> \in Hook /\ <<e, k>> \in Hook
        BY <1>a
      <4>2. /\ request'[<<e, m>>] = request[<<e, m>>] /\ LetThrough(<<e, m>>)
            /\ request'[<<e, k>>] = request[<<e, k>>] /\ LetThrough(<<e, k>>)
        BY <2>8, <2>11, <3>4, <4>1
      <4> QED
        BY <2>11, <4>2 DEF SeenOnce
    <3> QED
      BY <3>2, <3>3, <3>4
  <2> QED
    BY <2>9, <2>10, <2>11 DEF SeenOnce
<1>2. CASE ~ \E d \in Delivery, n \in Attempt, v \in Server : Deliver(d, n, v)
  <2>1. ASSUME NEW r \in Hook
        PROVE  /\ request'[r].at = "unsent" <=> request[r].at = "unsent"
               /\ request'[r].server = request[r].server /\ request'[r].boot = request[r].boot
               /\ LetThrough(r)' => LetThrough(r)
    BY <1>2, HooksKept
  <2>2. ASSUME NEW e \in Delivery, NEW m \in Attempt, NEW k \in Attempt, m # k,
               LetThrough(<<e, m>>)', LetThrough(<<e, k>>)'
        PROVE  \/ request'[<<e, m>>].server # request'[<<e, k>>].server
               \/ request'[<<e, m>>].boot # request'[<<e, k>>].boot
    BY <1>a, <2>1, <2>2 DEF SeenOnce
  <2>3. CASE UNCHANGED <<seen, boot>>
    <3>1. ASSUME NEW q \in Hook, request'[q].at # "unsent"
          PROVE  request'[q].boot <= boot'[request'[q].server]
      BY <2>1, <2>3, <3>1 DEF SeenOnce
    <3>2. ASSUME NEW e \in Delivery, NEW m \in Attempt, LetThrough(<<e, m>>)',
                 request'[<<e, m>>].boot = boot'[request'[<<e, m>>].server]
          PROVE  e \in seen'[request'[<<e, m>>].server]
      BY <1>a, <2>1, <2>3, <3>2 DEF SeenOnce
    <3> QED
      BY <2>2, <3>1, <3>2 DEF SeenOnce
  <2>4. CASE \E v \in Server : RestartServer(v)
    <3>1. PICK v \in Server : RestartServer(v)
      BY <2>4
    <3>2. /\ \A w \in Server : boot[w] \in Nat /\ boot'[w] = IF w = v THEN boot[w] + 1 ELSE boot[w]
          /\ \A w \in Server : w # v => seen'[w] = seen[w]
      BY <1>0, <3>1 DEF ServerTyped, RestartServer
    <3>3. ASSUME NEW q \in Hook, request'[q].at # "unsent"
          PROVE  request'[q].boot <= boot[request'[q].server] /\ request'[q].server \in Server
                 /\ request'[q].boot \in Nat
      BY <1>0, <2>1, <3>3 DEF SeenOnce, ServerTyped, RequestState
    <3>4. ASSUME NEW q \in Hook, request'[q].at # "unsent"
          PROVE  request'[q].boot <= boot'[request'[q].server]
      BY <3>2, <3>3, <3>4
    <3>5. ASSUME NEW e \in Delivery, NEW m \in Attempt, LetThrough(<<e, m>>)',
                 request'[<<e, m>>].boot = boot'[request'[<<e, m>>].server]
          PROVE  e \in seen'[request'[<<e, m>>].server]
      <4> DEFINE q == <<e, m>>
      <4>1. q \in Hook /\ LetThrough(q) /\ request'[q].at # "unsent"
        BY <1>a, <1>b, <2>1, <3>5
      <4>2. request'[q].server # v
        BY <3>2, <3>3, <3>5, <4>1
      <4>3. request[q].server \in Server /\ request[q].server # v /\ request[q].boot = boot[request[q].server]
        BY <2>1, <3>2, <3>3, <3>5, <4>1, <4>2
      <4>4. e \in seen[request[q].server]
        BY <4>1, <4>3 DEF SeenOnce
      <4> QED
        BY <2>1, <3>2, <4>1, <4>3, <4>4
    <3> QED
      BY <2>2, <3>4, <3>5 DEF SeenOnce
  <2> QED
    BY <1>2, <2>3, <2>4, SeenKept
<1> QED
  BY <1>1, <1>2

-------------------------------------------------------------------------------
IInv ==
  /\ TypeOK /\ Requests
  /\ Remembered /\ InTurn /\ StillRemembered /\ SentAgainAfterAbort
  /\ SeenOnce

LEMMA InitIInv == Init => IInv
<1> SUFFICES ASSUME Init PROVE IInv
  OBVIOUS
<1>1. /\ minute = 1 /\ created = {} /\ life = 0 /\ seen = [v \in Server |-> {}]
      /\ boot = [v \in Server |-> 0] /\ triggered = [s \in Schedule |-> None]
      /\ request = [r \in Request |-> Unsent] /\ run = [r \in Request |-> [s \in Schedule |-> "none"]]
  BY DEF Init
<1>2. warm \in BOOLEAN /\ overlapped \in BOOLEAN
  BY Zenon DEF Init
<1>3. /\ \A p \in Poll : poll[p].at = "idle" /\ ~Running(p)
      /\ poll \in [Poll -> PollState]
  <2>1. <<>> \in Seq(Names)
    BY EmptySeq
  <2> QED
    BY <2>1 DEF Init, PollState, Running
<1>4. \A r \in Request : request[r].at = "unsent" /\ request[r] \in RequestState
  BY <1>1 DEF Unsent, RequestState
<1>5. TypeOK
  <2>1. minute \in 1 .. Horizon /\ created \subseteq Schedule
    BY <1>1, ClockAssumption
  <2>2. DaemonTyped
    BY <1>1, <1>2, <1>3 DEF DaemonTyped
  <2>3. ServerTyped
    <3>1. request \in [Request -> RequestState]
      BY <1>1, <1>4
    <3> QED
      BY <1>1, <1>4, <3>1 DEF ServerTyped
  <2> QED
    BY <2>1, <2>2, <2>3 DEF TypeOK
<1>6. \A p \in Poll, s \in Schedule : <<p, s>> \in Request
  BY DEF Request, TriggerRequest
<1>7. Requests
  BY <1>1, <1>3, <1>4, <1>6 DEF Requests, Handled, AllAccepted, OneSchedule
<1>8. Remembered /\ InTurn /\ StillRemembered /\ SentAgainAfterAbort
  BY <1>1, <1>3, <1>4, <1>6 DEF Remembered, InTurn, StillRemembered, SentAgainAfterAbort, Sent
<1>9. SeenOnce
  BY <1>1, <1>4 DEF SeenOnce, LetThrough, Hook, Request, InFlight
<1> QED
  BY <1>5, <1>7, <1>8, <1>9 DEF IInv

LEMMA IInvStep == IInv /\ [Next]_vars => IInv'
BY TypeStep, RequestsStep, RememberedStep, InTurnStep, StillRememberedStep, SentAgainStep,
    SeenOnceStep
   DEF IInv

(* Every state that can be reached satisfies the inductive invariant: the      *)
(* types, where each request stands, what is remembered, in which order the    *)
(* polls sent, and what a server has seen.                                     *)
THEOREM Inductive == Spec => []IInv
BY InitIInv, IInvStep, PTL DEF Spec

(* The states of Triggers have their types. *)
THEOREM Typing == Spec => []TypeOK
BY Inductive, PTL DEF IInv

(* Only a handler cut off between its writes leaves a run in the store with no *)
(* job behind it.                                                              *)
THEOREM OnlyCutsStrand == Spec => []StrandedOnlyByCut
<1>1. IInv => StrandedOnlyByCut
  BY DEF IInv, Requests, Handled, StrandedOnlyByCut
<1> QED
  BY <1>1, Inductive, PTL

(* However polls overlap, the minute remembered of a schedule is the minute of *)
(* a poll whose run was enqueued.                                              *)
THEOREM WhatIsRememberedIsQueued == Spec => []RememberedIsQueued
<1>1. IInv => RememberedIsQueued
  <2> SUFFICES ASSUME IInv, NEW s \in Schedule, triggered[s] # None
              
  PROVE   \E p \in Poll : poll[p].minute = triggered[s] /\ run[<<p, s>>][s] = "enqueued"
    BY DEF RememberedIsQueued
  <2>1. PICK p \in Poll : poll[p].minute = triggered[s] /\ request[<<p, s>>].at = "done"
    BY DEF IInv, Remembered
  <2>2. OneSchedule(p, s)
    BY DEF IInv, Requests
  <2> QED
    BY <2>1, <2>2 DEF OneSchedule
<1> QED
  BY <1>1, Inductive, PTL

(* A schedule's minute is sent again, and a delivery's run started again, only *)
(* with a cause.                                                               *)
THEOREM NoRepeatWithoutCause == Spec => []RepeatsHaveACause
<1>1. IInv => RepeatsHaveACause
  <2> SUFFICES ASSUME IInv PROVE RepeatsHaveACause
    OBVIOUS
  <2>1. ASSUME NEW d \in Delivery, NEW m \in Attempt, NEW n \in Attempt, NEW s \in Schedule, m # n,
               "enqueued" \in {run[<<d, m>>][s]} \cap {run[<<d, n>>][s]}
        PROVE  \/ request[<<d, m>>].server # request[<<d, n>>].server
               \/ request[<<d, m>>].boot # request[<<d, n>>].boot
    <3>1. LetThrough(<<d, m>>) /\ LetThrough(<<d, n>>)
      BY <2>1 DEF LetThrough
    <3> QED
      BY <2>1, <3>1 DEF IInv, SeenOnce
  <2>2. SentAgainAfterAbort
    BY DEF IInv
  <2> QED
    BY <2>1, <2>2 DEF RepeatsHaveACause, SentAgainAfterAbort
<1> QED
  BY <1>1, Inductive, PTL

-------------------------------------------------------------------------------
(* CompletePollMissesNone, where each organization is listed once: a poll      *)
(* that lists one twice may send a schedule twice, and the model keeps one     *)
(* request for each schedule of a poll.                                        *)

LEMMA SentBeforeStep ==
  Different /\ TypeOK /\ Requests /\ SentBefore /\ [Next]_vars => SentBefore'
<1> SUFFICES ASSUME Different, TypeOK, Requests, SentBefore, [Next]_vars, NEW p \in Poll, Running(p)'
             PROVE
    /\ \A i, j \in DOMAIN poll'[p].orgs : poll'[p].orgs[i] = poll'[p].orgs[j] => i = j
    /\ poll'[p].orgs # <<>>
    /\ poll'[p].at # "list" => \A s \in poll'[p].todo : ~Sent(<<p, s>>)' /\ OrgOf[s] = poll'[p].orgs[1]
    /\ \A s \in Schedule : Sent(<<p, s>>)' =>
         /\ \A i \in DOMAIN poll'[p].orgs : i # 1 => OrgOf[s] # poll'[p].orgs[i]
         /\ poll'[p].at = "list" => OrgOf[s] # poll'[p].orgs[1]
  BY DEF SentBefore
<1>0. /\ DaemonTyped /\ poll[p].todo \subseteq Schedule /\ poll[p].orgs \in Seq(Names)
      /\ created \subseteq Schedule
  BY DEF TypeOK, DaemonTyped, PollState
<1>1. CASE StartPoll(p)
  <2>1. poll'[p].at = "list" /\ poll'[p].orgs = Organizations
    BY <1>0, <1>1, StartEffect
  <2>2. \A s \in Schedule : ~Sent(<<p, s>>)'
    BY <1>1 DEF StartPoll, serverVars, Requests, AllAccepted, Sent
  <2>3. Organizations # <<>>
    BY OrganizationsAssumption
  <2> QED
    BY <2>1, <2>2, <2>3 DEF Different
<1>2. ASSUME NEW s \in Schedule, NEW v \in Server, SendTrigger(p, s, v)
      PROVE
    /\ \A i, j \in DOMAIN poll'[p].orgs : poll'[p].orgs[i] = poll'[p].orgs[j] => i = j
    /\ poll'[p].orgs # <<>>
    /\ poll'[p].at # "list" => \A x \in poll'[p].todo : ~Sent(<<p, x>>)' /\ OrgOf[x] = poll'[p].orgs[1]
    /\ \A x \in Schedule : Sent(<<p, x>>)' =>
         /\ \A i \in DOMAIN poll'[p].orgs : i # 1 => OrgOf[x] # poll'[p].orgs[i]
         /\ poll'[p].at = "list" => OrgOf[x] # poll'[p].orgs[1]
  <2>1. /\ poll'[p].at = "wait" /\ poll'[p].todo = poll[p].todo \ {s} /\ poll'[p].orgs = poll[p].orgs
    BY <1>0, <1>2, SendEffect
  <2>2. poll[p].at = "scan" /\ s \in poll[p].todo
    BY <1>2 DEF SendTrigger
  <2>3. ASSUME NEW x \in Schedule, x # s PROVE Sent(<<p, x>>)' => Sent(<<p, x>>)
    <3>1. ServerTyped /\ <<p, x>> \in Request /\ <<p, x>> # <<p, s>>
      BY <2>3 DEF TypeOK, Request, TriggerRequest
    <3>2. OnlyRequest(<<p, s>>)
      BY <1>2, <3>1, ArriveEffect
    <3> QED
      BY <3>1, <3>2 DEF OnlyRequest, Sent
  <2>4. OrgOf[s] = poll[p].orgs[1] /\ poll[p].orgs # <<>>
    BY <2>2 DEF SentBefore, Running
  <2>5. 1 \in DOMAIN poll[p].orgs
    BY <1>0, <2>4
  <2>6. \A i \in DOMAIN poll[p].orgs : i # 1 => OrgOf[s] # poll[p].orgs[i]
    BY <2>2, <2>4, <2>5 DEF SentBefore, Running
  <2>7. \A x \in poll'[p].todo : ~Sent(<<p, x>>)' /\ OrgOf[x] = poll[p].orgs[1]
    BY <1>0, <2>1, <2>2, <2>3 DEF SentBefore, Running
  <2>8. \A x \in Schedule : Sent(<<p, x>>)' =>
          \A i \in DOMAIN poll[p].orgs : i # 1 => OrgOf[x] # poll[p].orgs[i]
    BY <2>2, <2>3, <2>6 DEF SentBefore, Running
  <2>9. \A i, j \in DOMAIN poll[p].orgs : poll[p].orgs[i] = poll[p].orgs[j] => i = j
    BY <2>2 DEF SentBefore, Running
  <2> QED
    BY <2>1, <2>4, <2>7, <2>8, <2>9
<1>3. CASE ~StartPoll(p) /\ ~ \E s \in Schedule, v \in Server : SendTrigger(p, s, v)
  <2>1. \A s \in Schedule : Sent(<<p, s>>)' <=> Sent(<<p, s>>)
    BY <1>3, TriggersKept DEF Sent
  <2>2. CASE poll'[p] = poll[p]
    BY <1>0, <2>1, <2>2 DEF SentBefore, Running
  <2>3. CASE Listed(p)
    <3>1. poll'[p].at = "scan" /\ poll'[p].todo = Mine(p) /\ poll'[p].orgs = poll[p].orgs
      BY <2>3, ListedEffect DEF TypeOK
    <3>2. poll[p].at = "list"
      BY <2>3 DEF Listed
    <3>3. poll[p].orgs # <<>>
      BY <3>2 DEF SentBefore, Running
    <3>4. Head(poll[p].orgs) = poll[p].orgs[1]
      BY <1>0, <3>3
    <3> QED
      BY <1>0, <2>1, <3>1, <3>2, <3>3, <3>4 DEF SentBefore, Running, Mine
  <2>4. CASE NextOrganization(p)
    <3>1. Len(poll[p].orgs) > 1
      <4> SUFFICES ASSUME ~(Len(poll[p].orgs) > 1) PROVE FALSE
        OBVIOUS
      <4>1. EndPoll(p, "complete")
        BY <2>4 DEF NextOrganization
      <4> QED
        BY <1>0, <4>1, EndEffect DEF Running
    <3>2. poll'[p].at = "list" /\ poll'[p].orgs = Tail(poll[p].orgs) /\ poll'[p].orgs # <<>>
      BY <1>0, <2>4, <3>1, NextEffect
    <3>3. poll[p].at = "scan"
      BY <2>4 DEF NextOrganization
    <3>4. /\ poll[p].orgs # <<>> /\ Len(poll[p].orgs) \in Nat
          /\ \A i, j \in DOMAIN poll[p].orgs : poll[p].orgs[i] = poll[p].orgs[j] => i = j
          /\ \A s \in Schedule : Sent(<<p, s>>) =>
               \A i \in DOMAIN poll[p].orgs : i # 1 => OrgOf[s] # poll[p].orgs[i]
      BY <1>0, <3>3 DEF SentBefore, Running
    <3>5. ASSUME NEW i \in DOMAIN poll'[p].orgs
         
  PROVE   i + 1 \in DOMAIN poll[p].orgs /\ i \in Nat \ {0} /\ poll'[p].orgs[i] = poll[p].orgs[i + 1]
      <4>1. Len(poll'[p].orgs) = Len(poll[p].orgs) - 1 /\ poll'[p].orgs \in Seq(Names)
        BY <1>0, <3>2, <3>4, HeadTailProperties
      <4>2. DOMAIN poll'[p].orgs = 1 .. Len(poll'[p].orgs) /\ DOMAIN poll[p].orgs = 1 .. Len(poll[p].orgs)
        BY <1>0, <4>1
      <4>3. i \in 1 .. Len(poll'[p].orgs)
        BY <4>2
      <4>4. poll'[p].orgs[i] = poll[p].orgs[i + 1]
        BY <1>0, <3>2, <3>4, <4>3, HeadTailProperties
      <4> QED
        BY <3>4, <4>1, <4>2, <4>3, <4>4
    <3>6. ASSUME NEW i \in DOMAIN poll'[p].orgs, NEW j \in DOMAIN poll'[p].orgs,
                 poll'[p].orgs[i] = poll'[p].orgs[j]
          PROVE  i = j
      <4>1. i + 1 = j + 1
        BY <3>4, <3>5, <3>6
      <4> QED
        BY <3>5, <4>1
    <3>7. ASSUME NEW s \in Schedule, Sent(<<p, s>>), NEW i \in DOMAIN poll'[p].orgs
          PROVE  OrgOf[s] # poll'[p].orgs[i]
      <4>1. i + 1 # 1
        BY <3>5
      <4> QED
        BY <3>4, <3>5, <3>7, <4>1
    <3>8. 1 \in DOMAIN poll'[p].orgs
      BY <1>0, <3>1, <3>2, TailLonger
    <3> QED
      BY <2>1, <3>2, <3>6, <3>7, <3>8
  <2>5. CASE Accepted(p)
    <3>1. poll'[p].at = "scan" /\ poll'[p].todo = poll[p].todo /\ poll'[p].orgs = poll[p].orgs
      BY <1>0, <2>5, AcceptedEffect
    <3>2. poll[p].at = "wait"
      BY <2>5 DEF Accepted
    <3> QED
      BY <1>0, <2>1, <3>1, <3>2 DEF SentBefore, Running
  <2>6. CASE CronAborts(p) \/ Rejected(p) \/ PollFails(p)
    <3>1. EndPoll(p, "aborted")
      BY <2>6 DEF CronAborts, Rejected, PollFails
    <3> QED
      BY <1>0, <3>1, EndEffect DEF Running
  <2>7. CASE RestartDaemon
    BY <1>0, <2>7, RestartEffect DEF Running
  <2> QED
    BY <1>3, <2>2, <2>3, <2>4, <2>5, <2>6, <2>7, PollMoves DEF DaemonStep
<1> QED
  BY <1>1, <1>2, <1>3

LEMMA AcceptedKept ==
  ASSUME TypeOK, Requests, SentBefore, [Next]_vars, NEW p \in Poll, NEW s \in Schedule,
         AcceptedFor(p, s), poll'[p].minute = poll[p].minute
  PROVE  AcceptedFor(p, s)'
<1>0. DaemonTyped
  BY DEF TypeOK
<1>1. PICK q \in Poll : poll[q].at # "idle" /\ poll[q].minute = poll[p].minute /\ request[<<q, s>>].at = "done"
  BY DEF AcceptedFor
<1>2. ~ \E v \in Server : SendTrigger(q, s, v)
  BY <1>1 DEF SendTrigger, SentBefore, Running, Sent
<1>3. request'[<<q, s>>].at = "done"
  BY <1>1, <1>2, TriggersKept
<1>4. poll'[q].at # "idle" /\ poll'[q].minute = poll[q].minute
  BY <1>1, StartedPoll
<1> QED
  BY <1>1, <1>3, <1>4 DEF AcceptedFor

(* What a poll that scans passes over has been accepted in its minute. *)
LEMMA PassedOver ==
  ASSUME TypeOK, Remembered, NEW p \in Poll, NextOrganization(p), NEW s \in poll[p].todo,
         Enabled[s], CronMatches(DateAt[poll[p].minute], CronOf[s])
  PROVE  AcceptedFor(p, s)
<1>1. poll[p].at = "scan" /\ (Considered(p, s) => ~CronThrows(CronOf[s]) /\ ~Due(p, s))
  BY DEF NextOrganization
<1>2. s \in Schedule /\ poll[p].minute \in 1 .. Horizon
  BY <1>1 DEF TypeOK, DaemonTyped, PollState
<1>3. triggered[s] = poll[p].minute
  BY <1>1 DEF Considered, Due
<1>4. triggered[s] # None
  BY <1>2, <1>3, ClockAssumption
<1> QED
  BY <1>2, <1>3, <1>4 DEF Remembered, AcceptedFor

LEMMA CoversStep ==
  TypeOK /\ Requests /\ Remembered /\ SentBefore /\ Covers /\ [Next]_vars => Covers'
<1> SUFFICES ASSUME TypeOK, Requests, Remembered, SentBefore, Covers, [Next]_vars, NEW p \in Poll
             PROVE
    /\ poll'[p].at = "idle" => poll'[p].listed = {}
    /\ Running(p)' => \A s \in poll'[p].listed :
         Enabled[s] /\ CronMatches(DateAt[poll'[p].minute], CronOf[s]) =>
           \/ poll'[p].at \in {"scan", "wait"} /\ s \in poll'[p].todo
           \/ poll'[p].at = "wait" /\ poll'[p].cur = s
           \/ AcceptedFor(p, s)'
  BY DEF Covers
<1>0. /\ DaemonTyped /\ poll[p].listed \subseteq Schedule
  BY DEF TypeOK, DaemonTyped, PollState
<1>a. \A s \in Schedule : AcceptedFor(p, s) /\ poll'[p].minute = poll[p].minute => AcceptedFor(p, s)'
  BY AcceptedKept
<1>1. CASE StartPoll(p)
  <2>1. poll'[p].at = "list" /\ poll'[p].listed = poll[p].listed /\ poll[p].at = "idle"
    BY <1>0, <1>1, StartEffect DEF StartPoll
  <2> QED
    BY <2>1 DEF Covers
<1>2. CASE \E s \in Schedule, v \in Server : SendTrigger(p, s, v)
  <2>1. PICK s \in Schedule, v \in Server : SendTrigger(p, s, v)
    BY <1>2
  <2>2. /\ poll'[p].at = "wait" /\ poll'[p].cur = s /\ poll'[p].todo = poll[p].todo \ {s}
        /\ poll'[p].listed = poll[p].listed /\ poll'[p].minute = poll[p].minute
    BY <1>0, <2>1, SendEffect
  <2>3. poll[p].at = "scan"
    BY <2>1 DEF SendTrigger
  <2> QED
    BY <1>0, <1>a, <2>2, <2>3 DEF Covers, Running
<1>3. CASE Listed(p)
  <2>1. /\ poll'[p].at = "scan" /\ poll'[p].todo = Mine(p)
        /\ poll'[p].listed = poll[p].listed \cup Mine(p) /\ poll'[p].minute = poll[p].minute
    BY <1>3, ListedEffect DEF TypeOK
  <2>2. poll[p].at = "list"
    BY <1>3 DEF Listed
  <2> QED
    BY <1>0, <1>a, <2>1, <2>2 DEF Covers, Running
<1>4. CASE NextOrganization(p)
  <2>1. poll[p].at = "scan"
    BY <1>4 DEF NextOrganization
  <2>2. CASE Len(poll[p].orgs) > 1
    <3>1. /\ poll'[p].at = "list" /\ poll'[p].listed = poll[p].listed
          /\ poll'[p].minute = poll[p].minute
      BY <1>0, <1>4, <2>2, NextEffect
    <3>2. \A s \in poll[p].listed : Enabled[s] /\ CronMatches(DateAt[poll[p].minute], CronOf[s]) =>
            AcceptedFor(p, s)
      BY <1>4, <2>1, PassedOver DEF Covers, Running
    <3> QED
      BY <1>0, <1>a, <3>1, <3>2
  <2>3. CASE ~(Len(poll[p].orgs) > 1)
    <3>1. EndPoll(p, "complete")
      BY <1>4, <2>3 DEF NextOrganization
    <3> QED
      BY <1>0, <3>1, EndEffect DEF Running
  <2> QED
    BY <2>2, <2>3
<1>5. CASE Accepted(p)
  <2>1. /\ poll'[p].at = "scan" /\ poll'[p].todo = poll[p].todo
        /\ poll'[p].listed = poll[p].listed /\ poll'[p].minute = poll[p].minute
    BY <1>0, <1>5, AcceptedEffect
  <2>2. poll[p].at = "wait" /\ request[<<p, poll[p].cur>>].at = "done"
    BY <1>5 DEF Accepted
  <2>3. AcceptedFor(p, poll[p].cur)
    BY <2>2 DEF AcceptedFor
  <2> QED
    BY <1>0, <1>a, <2>1, <2>2, <2>3 DEF Covers, Running
<1>6. CASE CronAborts(p) \/ Rejected(p) \/ PollFails(p)
  <2>1. EndPoll(p, "aborted")
    BY <1>6 DEF CronAborts, Rejected, PollFails
  <2> QED
    BY <1>0, <2>1, EndEffect DEF Running
<1>7. CASE RestartDaemon
  BY <1>0, <1>7, RestartEffect DEF Running, Covers
<1>8. CASE poll'[p] = poll[p]
  BY <1>0, <1>8, <1>a DEF Covers, Running
<1> QED
  BY <1>1, <1>2, <1>3, <1>4, <1>5, <1>6, <1>7, <1>8, PollMoves DEF DaemonStep

(* Where each organization is listed once, a poll that ends without an error   *)
(* has a run queued for every schedule that it was shown and that was due.     *)
THEOREM ACompletePollMissesNone == Different => (Spec => CompletePollMissesNone)
<1> SUFFICES ASSUME Different PROVE Spec => CompletePollMissesNone
  OBVIOUS
<1>1. Init => SentBefore /\ Covers
  BY DEF Init, SentBefore, Covers, Running
<1>2. IInv /\ SentBefore /\ Covers /\ [Next]_vars => (IInv /\ SentBefore /\ Covers)'
  BY IInvStep, SentBeforeStep, CoversStep DEF IInv
<1>3. ASSUME IInv, SentBefore, Covers, [Next]_vars, NEW p \in Poll,
             poll[p].at # "complete", poll'[p].at = "complete", NEW s \in poll[p].listed,
             Enabled[s], CronMatches(DateAt[poll[p].minute], CronOf[s])
      PROVE  \E q \in Poll : poll[q].minute = poll[p].minute /\ run[<<q, s>>][s] = "enqueued"
  <2>0. TypeOK /\ DaemonTyped /\ Requests /\ Remembered
    BY <1>3 DEF IInv, TypeOK
  <2>1. s \in Schedule
    BY <2>0 DEF DaemonTyped, PollState
  <2>2. NextOrganization(p)
    <3>1. StartPoll(p) \/ DaemonStep(p) \/ PollFails(p) \/ RestartDaemon
      BY <1>3, <2>0, PollMoves
    <3>2. CASE StartPoll(p)
      BY <1>3, <2>0, <3>2, StartEffect
    <3>3. CASE Listed(p)
      BY <1>3, <2>0, <3>3, ListedEffect
    <3>4. CASE CronAborts(p) \/ Rejected(p) \/ PollFails(p)
      <4>1. EndPoll(p, "aborted")
        BY <3>4 DEF CronAborts, Rejected, PollFails
      <4> QED
        BY <1>3, <2>0, <4>1, EndEffect
    <3>5. CASE Accepted(p)
      BY <1>3, <2>0, <3>5, AcceptedEffect
    <3>6. CASE \E x \in Schedule, v \in Server : SendTrigger(p, x, v)
      BY <1>3, <2>0, <3>6, SendEffect
    <3>7. CASE RestartDaemon
      BY <1>3, <2>0, <3>7, RestartEffect
    <3> QED
      BY <3>1, <3>2, <3>3, <3>4, <3>5, <3>6, <3>7 DEF DaemonStep
  <2>3. poll[p].at = "scan"
    BY <2>2 DEF NextOrganization
  <2>4. AcceptedFor(p, s)
    BY <1>3, <2>0, <2>2, <2>3, PassedOver DEF Covers, Running
  <2> QED
    BY <2>0, <2>1, <2>4 DEF AcceptedFor, Requests, OneSchedule
<1>4. IInv /\ SentBefore /\ Covers /\ [Next]_vars =>
        \A p \in Poll : poll[p].at # "complete" /\ poll'[p].at = "complete" =>
          \A s \in poll[p].listed :
            /\ Enabled[s] /\ CronMatches(DateAt[poll[p].minute], CronOf[s])
            => \E q \in Poll : poll[q].minute = poll[p].minute /\ run[<<q, s>>][s] = "enqueued"
  BY <1>3
<1> QED
  BY <1>1, <1>2, <1>4, InitIInv, PTL DEF Spec, CompletePollMissesNone

===============================================================================
