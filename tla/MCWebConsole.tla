---------------------------- MODULE MCWebConsole ----------------------------
(* Two of everything the screens choose between, at a server that has one run.  *)
EXTENDS WebConsole

MCSeed ==
  [runs |-> <<[test |-> 1, status |-> "running"], [test |-> 2, status |-> "passed"]>>,
   manifest |-> <<[of |-> 1, valid |-> TRUE, rev |-> 0], [of |-> 2, valid |-> TRUE, rev |-> 0]>>,
   versions |-> <<1, 1>>,
   changes |-> <<"open", "open">>,
   policy |-> [days |-> 30, at |-> 1],
   secrets |-> <<1, 2>>,
   schedules |-> <<[test |-> 1, enabled |-> TRUE], [test |-> 2, enabled |-> TRUE], [test |-> 2, enabled |-> FALSE]>>,
   repos |-> <<0, 0>>,
   branches |-> <<<<1>>, <<2>>>>]
MCVisits == {{"SignIn"}, {"Tests"}, {"Schedules", "Runs"}, {"GitHub"}, {"AI"}, {"Settings"}}
MCClicks == [visits \in MCVisits |-> IF "Runs" \in visits THEN 2 ELSE IF "GitHub" \in visits THEN 3 ELSE 4]
MCConfigs == {[org |-> 0, auth |-> TRUE, token |-> FALSE], [org |-> 1, auth |-> FALSE, token |-> FALSE],
              [org |-> 1, auth |-> TRUE, token |-> TRUE]}
=============================================================================
