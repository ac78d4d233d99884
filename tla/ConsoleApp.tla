------------------------------ MODULE ConsoleApp ------------------------------
(* The console's App component with its test editor (TestsView) and its runs   *)
(* (RunsView): loading the tenant, starting and cancelling runs, opening,       *)
(* editing and saving manifests, and the evidence of the selected run.          *)
EXTENDS ConsoleState

-----------------------------------------------------------------------------
(* App: navigation and the first load.                                         *)
Go(screen) ==
  /\ screen \in env.visits \cup {"Overview"}
  /\ screen # ui.screen
  /\ Click(ui.screen)
  /\ Commit([ui EXCEPT !.screen = screen], net)

Row(run, id) == [id |-> id, test |-> run.test, status |-> run.status]

\* The selection is kept only if its run is listed, and falls to the first run otherwise.
Selection(live) ==
  IF ui.selected # NoRun /\ ui.selected.id \in Ids(live) THEN ui.selected
  ELSE IF live = <<>> THEN NoRun ELSE Head(live)

\* The thirteen lists replace what the page held.
Loaded(r) ==
  /\ Answered(r, "load", "ok")
  /\ LET got == r.ans
         live == [id \in 1..Len(got.runs) |-> Row(got.runs[id], id)]
     IN  Commit([ui EXCEPT !.link = "live", !.runs = live,
                   !.selected = Selection(live),
                   !.tests = [t \in 1..Len(got.manifest) |-> t],
                   !.changes = [c \in 1..Len(got.changes) |-> [id |-> c, status |-> got.changes[c]]],
                   !.secrets = [s \in 1..Len(got.secrets) |-> s],
                   !.schedules = got.schedules, !.policy = got.policy,
                   !.repos = [n \in 1..Len(got.repos) |-> [id |-> n, rev |-> got.repos[n]]]],
                Without(r))
  /\ Closure

LoadFailed(r) == Answered(r, "load", "failed") /\ Commit([ui EXCEPT !.link = "error"], Without(r)) /\ Closure

-----------------------------------------------------------------------------
(* App: runs.                                                                  *)
\* The configured test goes before the one whose button was pressed (0: none was).
TestToRun(requested) ==
  IF env.configTest # 0 THEN env.configTest
  ELSE IF requested # 0 THEN requested
  ELSE IF ui.tests # <<>> THEN Head(ui.tests) ELSE 0

StartRun(requested) ==
  LET test == TestToRun(requested)
      u == [ui EXCEPT !.running = TRUE]
  IN  IF env.live /\ test # 0 THEN Commit(u, Sent(net, Ask("startRun", test)))
      ELSE Commit([u EXCEPT !.timers = @ + 1], net)

\* The header's button and the shortcut are off while a run is started; a row's is not.
PressRun == ~ui.running /\ Click(ui.screen) /\ StartRun(0)
PressRunOf(test) == test \in Range(ui.tests) /\ Click("Tests") /\ StartRun(test)

\* A run that was started goes to the top of the list and is selected.
Prepended(u, run) == [u EXCEPT !.runs = <<run>> \o @, !.selected = run]
RunStarted(r) ==
  /\ Answered(r, "startRun", "ok")
  /\ Commit([Prepended(ui, [id |-> r.ans, test |-> r.arg, status |-> "running"]) EXCEPT !.running = FALSE], Without(r))
  /\ Closure
StartFailed(r) ==
  /\ Answered(r, "startRun", "failed")
  /\ Commit([ui EXCEPT !.link = "error", !.running = FALSE], Without(r))
  /\ Closure
TimerFires ==
  /\ ui.timers > 0
  /\ Commit([ui EXCEPT !.timers = @ - 1, !.running = FALSE], net)
  /\ Closure

\* The button is there as long as the selected object reads "running".
CancelRun ==
  /\ env.live
  /\ ui.selected.status = "running"
  /\ Click("Runs")
  /\ Commit(ui, Sent(net, Ask("cancel", ui.selected.id)))
\* Only the list is patched: the selected object keeps its status.
RunCancelled(r) ==
  /\ Answered(r, "cancel", "ok")
  /\ Commit([ui EXCEPT !.runs = [n \in 1..Len(@) |-> IF @[n].id = r.arg THEN [@[n] EXCEPT !.status = "cancelled"] ELSE @[n]]],
            Without(r))
  /\ Closure
CancelFailed(r) == Answered(r, "cancel", "failed") /\ Commit([ui EXCEPT !.link = "error"], Without(r)) /\ Closure

-----------------------------------------------------------------------------
(* App and TestsView: the manifest editor.                                     *)
OpenEditor(test) ==
  /\ test \in Range(ui.tests)
  /\ ui.screen = "Tests"
  /\ env.clicks > 0
  /\ env' = [env EXCEPT !.clicks = @ - 1,
                        !.astray = @ \/ \E op \in {"manifest", "update", "versions"} : InFlight(op)]
  /\ UNCHANGED srv
  /\ Commit([ui EXCEPT !.editing = test, !.loading = TRUE], Sent(net, Ask("manifest", test)))

\* The manifest and its versions are asked for together (Promise.all) and stand for one
\* request.  The answer is not compared with the test that is open by now.
ManifestLoaded(r) ==
  /\ Answered(r, "manifest", "ok")
  /\ Commit([ui EXCEPT !.text = r.ans.text, !.saved = r.ans.text,
                       !.versions = [of |-> r.arg, count |-> r.ans.count], !.loading = FALSE], Without(r))
  /\ Closure
\* The text of the test opened before stays, and may be saved.
ManifestLoadFailedLoading(r) == Answered(r, "manifest", "failed") /\ Commit(ui, Without(r)) /\ Closure   \* mutant
ManifestLoadFailed(r) ==
  /\ Answered(r, "manifest", "failed")
  /\ Commit([ui EXCEPT !.loading = FALSE], Without(r))
  /\ env' = [env EXCEPT !.astray = @ \/ ui.text.of # ui.editing]
  /\ UNCHANGED srv

Edited(valid) == [ui EXCEPT !.text = [ui.text EXCEPT !.valid = valid, !.rev = ui.text.rev + 1]]
\* The YAML view is read-only while a manifest loads; the form's fields are not,
\* but they need a text that parses.
EditYaml(valid) == ui.editing # 0 /\ ~ui.loading /\ Click("Tests") /\ Commit(Edited(valid), net)
EditForm == ui.editing # 0 /\ ui.text.valid /\ Click("Tests") /\ Commit(Edited(TRUE), net)

SaveWhileLoading ==   \* mutant
  /\ env.live /\ ui.editing # 0 /\ Click("Tests")
  /\ Commit(ui, IF ui.text.valid THEN Sent(net, Ask("update", [test |-> ui.editing, text |-> ui.text])) ELSE net)
Save ==
  /\ env.live
  /\ ui.editing # 0
  /\ ~ui.loading
  /\ Click("Tests")
  /\ Commit(ui, IF ui.text.valid THEN Sent(net, Ask("update", [test |-> ui.editing, text |-> ui.text])) ELSE net)
\* The text that was saved is the new baseline; the versions are asked for again.
Saved(r) ==
  /\ Answered(r, "update", "ok")
  /\ Commit([ui EXCEPT !.saved = r.arg.text], Sent(Without(r), Ask("versions", r.arg.test)))
  /\ Closure
VersionsListed(r) ==
  /\ Answered(r, "versions", "ok")
  /\ Commit([ui EXCEPT !.versions = [of |-> r.arg, count |-> r.ans]], Without(r))
  /\ Closure
\* "Save failed" also when only the versions could not be listed.
SaveFailed(r) == (\E op \in {"update", "versions"} : Answered(r, op, "failed")) /\ Commit(ui, Without(r)) /\ Closure

CreateTest ==
  /\ ui.tests # <<>>   \* a project is loaded with the tests
  /\ ~ui.creating
  /\ Click("Tests")
  /\ Commit([ui EXCEPT !.creating = TRUE], Sent(net, Ask("createTest", 0)))
TestCreated(r) ==
  /\ Answered(r, "createTest", "ok")
  /\ Commit([ui EXCEPT !.tests = <<r.ans>> \o @, !.creating = IF r.cut THEN @ ELSE FALSE], Without(r))
  /\ Closure
CreateTestFailed(r) ==
  /\ Answered(r, "createTest", "failed")
  /\ Commit([ui EXCEPT !.creating = IF r.cut THEN @ ELSE FALSE], Without(r))
  /\ Closure

-----------------------------------------------------------------------------
(* Overview and RunsView: the selected run and its evidence.                   *)
SelectRun(n) ==
  /\ n \in 1..Len(ui.runs)
  /\ ui.runs[n] # ui.selected
  /\ Click(ui.screen) /\ ui.screen \in {"Overview", "Runs"}
  /\ Commit([ui EXCEPT !.selected = ui.runs[n]], net)

\* A cleaned-up effect ignores its answer.
EvidenceShownLate(r) ==   \* mutant
  /\ Answered(r, "evidence", "ok")
  /\ Commit([ui EXCEPT !.evidence = r.arg, !.evidenceNo = @ + 1], Without(r))
  /\ Closure
EvidenceShown(r) ==
  /\ Answered(r, "evidence", "ok")
  /\ Commit(IF r.cut THEN ui ELSE [ui EXCEPT !.evidence = r.arg, !.evidenceNo = @ + 1], Without(r))
  /\ Closure
EvidenceFailed(r) ==
  /\ Answered(r, "evidence", "failed")
  /\ Commit(IF r.cut \/ ui.evidence = 0 THEN ui ELSE [ui EXCEPT !.evidence = 0, !.evidenceNo = @ + 1], Without(r))
  /\ Closure
ResultShown(r) ==
  /\ Answered(r, "result", "ok")
  /\ Commit(IF r.cut THEN ui ELSE [ui EXCEPT !.result = r.arg], Without(r))
  /\ Closure
ResultFailed(r) ==
  /\ Answered(r, "result", "failed")
  /\ Commit(IF r.cut THEN ui ELSE [ui EXCEPT !.result = 0], Without(r))
  /\ Closure

\* Every body of the effect has been fetched, or could not be.
AllFetched(u, r, got) == IF r.cut THEN [u EXCEPT !.live = @ \ got] ELSE [u EXCEPT !.links = got]

\* One artifact's body has arrived, or has not; the last one settles Promise.all.
\* A fetch of a cleaned-up effect still makes its URL, and the end revokes them all.
ArtifactFetched(r, artifact, arrived) ==
  /\ Answered(r, "urls", "ok")
  /\ artifact \in r.ans.todo
  /\ arrived \/ env.faults > 0
  /\ env' = [env EXCEPT !.faults = IF arrived THEN @ ELSE @ - 1]
  /\ UNCHANGED srv
  /\ LET made == IF arrived THEN {<<r.arg, artifact>>} ELSE {}
         got == r.ans.got \cup made
         todo == r.ans.todo \ {artifact}
         u == [ui EXCEPT !.live = @ \cup made, !.own = IF r.cut THEN @ ELSE @ \cup made]
     IN  IF todo # {} THEN Commit(u, (net \ {r}) \cup {[r EXCEPT !.ans = [todo |-> todo, got |-> got]]})
         ELSE Commit(AllFetched(u, r, got), Without(r))
=============================================================================
