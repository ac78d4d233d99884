---------------------------- MODULE ConsoleScreens ----------------------------
(* The console's other screens: SchedulesView, GitHubView, AiView and           *)
(* SettingsView, with the callbacks through which they change App's lists.      *)
EXTENDS ConsoleState

-----------------------------------------------------------------------------
(* SchedulesView.                                                              *)
Trigger(schedule) ==
  /\ schedule \in DOMAIN ui.schedules
  /\ env.live
  /\ ui.schedules[schedule].enabled
  /\ ui.triggering # schedule
  /\ Click("Schedules")
  /\ Commit([ui EXCEPT !.triggering = schedule], Sent(net, Ask("trigger", schedule)))

\* onRunStarted, of the App, runs although the screen may have been left, and goes
\* to the Runs screen.  "finally" forgets whichever schedule is being triggered.
Triggered(r) ==
  /\ Answered(r, "trigger", "ok")
  /\ LET run == [id |-> r.ans, test |-> ui.schedules[r.arg].test, status |-> "running"]
     IN  Commit([ui EXCEPT !.runs = <<run>> \o @, !.selected = run, !.screen = "Runs",
                           !.triggering = IF r.cut THEN @ ELSE 0], Without(r))
  /\ Closure
TriggerFailed(r) ==
  /\ Answered(r, "trigger", "failed")
  /\ Commit([ui EXCEPT !.triggering = IF r.cut THEN @ ELSE 0], Without(r))
  /\ Closure

-----------------------------------------------------------------------------
(* GitHubView.  Branches are told apart by the repository they are of, and so   *)
(* is what the base field holds: 0 stands for a name the user typed.            *)
Repo == SelectedRepo(ui).id
SelectRepository(repo) ==
  /\ repo \in Ids(ui.repos)
  /\ repo # ui.repo
  /\ Click("GitHub")
  /\ Commit([ui EXCEPT !.repo = repo], net)
SwitchLocale ==
  /\ Click("GitHub")
  /\ Commit([ui EXCEPT !.locale = IF @ = "en" THEN "ja" ELSE "en"], net)
TypeBase == ui.base # 0 /\ Click("GitHub") /\ Commit([ui EXCEPT !.base = 0], net)

BranchesListed(r) ==
  /\ Answered(r, "branches", "ok")
  /\ Commit(IF r.cut THEN ui
            ELSE [ui EXCEPT !.branches = r.ans, !.base = IF r.ans = <<>> THEN @ ELSE r.arg], Without(r))
  /\ Closure
PullsListed(r) ==
  /\ Answered(r, "pulls", "ok")
  /\ Commit(IF r.cut THEN ui ELSE [ui EXCEPT !.pulls = r.arg], Without(r))
  /\ Closure

Sync ==
  /\ Repo # 0
  /\ ~ui.syncing
  /\ Click("GitHub")
  /\ Commit([ui EXCEPT !.syncing = TRUE], Sent(net, Ask("sync", Repo)))
Synced(r) ==
  /\ Answered(r, "sync", "ok")
  /\ Commit([ui EXCEPT !.repos = [n \in 1..Len(@) |-> IF @[n].id = r.arg THEN [@[n] EXCEPT !.rev = r.ans] ELSE @[n]],
                       !.syncing = IF r.cut THEN @ ELSE FALSE], Without(r))
  /\ Closure
SyncFailed(r) ==
  /\ Answered(r, "sync", "failed")
  /\ Commit([ui EXCEPT !.syncing = IF r.cut THEN @ ELSE FALSE], Without(r))
  /\ Closure

\* A comparison and a loaded file stay on the screen when another repository is chosen.
Compare == Repo # 0 /\ Click("GitHub") /\ Commit(ui, Sent(net, Read("compare", Repo, OnGitHub(Repo))))
Compared(r) ==
  /\ Answered(r, "compare", "ok")
  /\ Commit(IF r.cut THEN ui ELSE [ui EXCEPT !.comparison = r.arg], Without(r))
  /\ Closure
LoadFile == Repo # 0 /\ Click("GitHub") /\ Commit(ui, Sent(net, Read("file", Repo, OnGitHub(Repo))))
FileLoaded(r) ==
  /\ Answered(r, "file", "ok")
  /\ Commit(IF r.cut THEN ui ELSE [ui EXCEPT !.file = r.arg], Without(r))
  /\ Closure

\* The commit to branch from: the field's, or that of the branch the base names.
CreateBranch ==
  /\ Repo # 0
  /\ Click("GitHub")
  /\ \E from \in (Range(ui.branches) \cup {ui.base}) \ {0} :
       Commit(ui, Sent(net, Ask("createBranch", [repo |-> Repo, from |-> from])))
BranchCreated(r) ==
  /\ Answered(r, "createBranch", "ok")
  /\ Commit(IF r.cut THEN ui ELSE [ui EXCEPT !.branches = Append(@, r.ans)], Without(r))
  /\ Closure
CommitFile == Repo # 0 /\ Click("GitHub") /\ Commit(ui, Sent(net, Read("commit", Repo, OnGitHub(Repo))))
CreatePr == Repo # 0 /\ Click("GitHub") /\ Commit(ui, Sent(net, Read("createPr", Repo, OnGitHub(Repo))))
CreateChange == env.live /\ Click("GitHub") /\ Commit(ui, Sent(net, Ask("createChange", 0)))
ChangeCreated(r) ==
  /\ Answered(r, "createChange", "ok")
  /\ Commit([ui EXCEPT !.changes = <<[id |-> r.ans, status |-> "open"]>> \o @], Without(r))
  /\ Closure

\* These answers only leave a message.
Told(r) ==
  /\ \/ \E op \in {"commit", "createPr"} : Answered(r, op, "ok")
     \/ \E op \in RequestsOf("GitHub") \ {"sync"} : Answered(r, op, "failed")
     \/ \E op \in RequestsOf("Settings") : Answered(r, op, "failed")
  /\ Commit(ui, Without(r))
  /\ Closure

-----------------------------------------------------------------------------
(* AiView: the buttons of a change request show while the list says it is open; *)
(* one id at a time is marked as being updated.                                *)
Decide(n, status) ==
  /\ n \in 1..Len(ui.changes)
  /\ ui.changes[n].status = "open"
  /\ ui.updating # ui.changes[n].id
  /\ Click("AI")
  /\ Commit([ui EXCEPT !.updating = ui.changes[n].id], Sent(net, Ask("decide", [id |-> ui.changes[n].id, status |-> status])))
Decided(r) ==
  /\ Answered(r, "decide", "ok")
  /\ Commit([ui EXCEPT !.changes = [n \in 1..Len(@) |-> IF @[n].id = r.arg.id THEN [@[n] EXCEPT !.status = r.ans] ELSE @[n]],
                       !.updating = IF r.cut THEN @ ELSE 0], Without(r))
  /\ Closure
DecideFailed(r) ==
  /\ Answered(r, "decide", "failed")
  /\ Commit([ui EXCEPT !.updating = IF r.cut THEN @ ELSE 0], Without(r))
  /\ Closure

-----------------------------------------------------------------------------
(* SettingsView: retention and secrets.                                        *)
TypeDays(days) == days # ui.days /\ Click("Settings") /\ Commit([ui EXCEPT !.days = days], net)
SavePolicy ==
  /\ ui.policy # NoPolicy
  /\ Click("Settings")
  /\ Commit(ui, Sent(net, Ask("savePolicy", ui.days)))
PolicySaved(r) == Answered(r, "savePolicy", "ok") /\ Commit([ui EXCEPT !.policy = r.ans], Without(r)) /\ Closure

TypeSecret(value) == value # ui.value /\ Click("Settings") /\ Commit([ui EXCEPT !.value = value], net)
SaveSecret ==
  /\ env.live
  /\ ui.value # 0
  /\ Click("Settings")
  /\ Commit(ui, Sent(net, Ask("saveSecret", ui.value)))
RotateSecret(secret) ==
  /\ secret \in Range(ui.secrets)
  /\ ui.value # 0
  /\ Click("Settings")
  /\ Commit(ui, Sent(net, Ask("rotateSecret", [id |-> secret, value |-> ui.value])))
\* The stored secret goes to the front of the list, and the value field is emptied,
\* whatever has been typed into it since.
SecretStored(r) ==
  /\ Answered(r, "saveSecret", "ok") \/ Answered(r, "rotateSecret", "ok")
  /\ Commit([ui EXCEPT !.secrets = <<r.ans>> \o Remove(@, r.ans),
                       !.value = IF r.cut THEN @ ELSE 0], Without(r))
  /\ Closure
=============================================================================
