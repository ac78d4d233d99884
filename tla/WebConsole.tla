------------------------------ MODULE WebConsole ------------------------------
(* The web console: signing in (Session), the App with its screens, and the     *)
(* network between the page and the server.  A behaviour is about one group of  *)
(* screens, or about signing in: the App is mounted anew after every sign-in    *)
(* and keeps nothing of the session but its token, so the two are checked side  *)
(* by side.                                                                     *)
EXTENDS ConsoleApp, ConsoleScreens, Session

Server(r) == ServeRead(r) \/ ServeResult(r) \/ ServeRuns(r) \/ ServeManifests(r) \/ ServeTenant(r) \/ ServeGitHub(r)

AppAnswer(r) ==
  \/ Loaded(r) \/ LoadFailed(r) \/ RunStarted(r) \/ StartFailed(r) \/ RunCancelled(r) \/ CancelFailed(r)
  \/ ManifestLoaded(r) \/ ManifestLoadFailed(r) \/ Saved(r) \/ VersionsListed(r) \/ SaveFailed(r)
  \/ TestCreated(r) \/ CreateTestFailed(r)
  \/ EvidenceShown(r) \/ EvidenceFailed(r) \/ ResultShown(r) \/ ResultFailed(r)
  \/ \E artifact \in ArtifactsOf(ui.evidence) \cup (IF r.op = "urls" THEN r.ans.todo ELSE {}), arrived \in BOOLEAN :
       r.op = "urls" /\ ArtifactFetched(r, artifact, arrived)
ScreenAnswer(r) ==
  \/ Triggered(r) \/ TriggerFailed(r) \/ BranchesListed(r) \/ PullsListed(r) \/ Synced(r) \/ SyncFailed(r)
  \/ Compared(r) \/ FileLoaded(r) \/ BranchCreated(r) \/ ChangeCreated(r) \/ Told(r)
  \/ Decided(r) \/ DecideFailed(r) \/ PolicySaved(r) \/ SecretStored(r)

AppClick ==
  \/ \E screen \in Screens : Go(screen)
  \/ PressRun \/ CancelRun \/ CreateTest \/ EditForm \/ Save
  \/ \E test \in Range(ui.tests) : PressRunOf(test) \/ OpenEditor(test)
  \/ \E valid \in BOOLEAN : EditYaml(valid)
  \/ \E n \in 1..Len(ui.runs) : SelectRun(n)
ScreenClick ==
  \/ \E schedule \in DOMAIN ui.schedules : Trigger(schedule)
  \/ \E repo \in Ids(ui.repos) : SelectRepository(repo)
  \/ SwitchLocale \/ TypeBase \/ Sync \/ Compare \/ LoadFile \/ CreateBranch \/ CommitFile \/ CreatePr \/ CreateChange
  \/ \E n \in 1..Len(ui.changes), status \in {"approved", "rejected"} : Decide(n, status)
  \/ \E days \in {7, 30} : TypeDays(days)
  \/ SavePolicy \/ SaveSecret
  \/ \E value \in {1, 2} : TypeSecret(value)
  \/ \E secret \in Range(ui.secrets) : RotateSecret(secret)

Closures == TimerFires \/ \E r \in net : AppAnswer(r) \/ ScreenAnswer(r)
Network == \E r \in net : Server(r) \/ Break(r)
Working == AppClick \/ ScreenClick \/ Closures \/ Network \/ \E run \in DOMAIN srv.runs : RunPasses(run)

SigningIn == env.visits = {"SignIn"}
WebInit ==
  /\ Init /\ SessionInit
  /\ SigningIn => env.ordered /\ ~env.live /\ env.configTest = 0
  /\ ~SigningIn => config = CHOOSE c \in Configs : TRUE
WebNext == \/ SigningIn /\ SessionNext /\ UNCHANGED vars
           \/ ~SigningIn /\ Working /\ UNCHANGED sessionVars
WebSpec == WebInit /\ [][WebNext]_<<vars, sessionVars>> /\ SessionFairness

-----------------------------------------------------------------------------
(* Properties.                                                                 *)

AtRest == net = {} /\ ui.timers = 0

\* The Runs screen is about the selected run.  The run is one of those listed, although the
\* first load replaces the list under a selection made meanwhile (main.tsx 372-377, 407-408).
\* Once its requests are answered, in whichever order and with whichever failures, the
\* evidence and the result are that run's, or nothing (1768-1802): answers for a run selected
\* before are ignored.  The object URLs of artifact bodies (1803-1824) are neither leaked nor
\* used after they were revoked: each one alive is of the effect on show or of fetches still
\* under way that will revoke it, and when these are done every link on show is alive.
EvidenceOfSelected ==
  LET fetching == {r \in net : r.op = "urls"}
  IN  /\ ui.selected # NoRun => ui.selected.id \in Ids(ui.runs)
      /\ ui.live \subseteq ui.own \cup UNION {r.ans.got : r \in fetching}
      /\ ui.screen = "Runs" =>
           /\ (\E r \in net : r.op = "evidence" /\ ~r.cut) \/ ui.evidence \in {0, ui.selected.id}
           /\ (\E r \in net : r.op = "result" /\ ~r.cut) \/ ui.result \in {0, ui.selected.id}
           /\ (\A r \in fetching : r.cut) =>
                {link \in ui.links : link[2] \in ArtifactsOf(ui.evidence)} \subseteq ui.live

\* When every request is answered, well or not, nothing on the page still says it is busy:
\* no button stays disabled (finally, catch and the timer of main.tsx 395-414, 460-470, 1282-1288,
\* 2085-2094, 2223-2237, 2640-2646).
QuietAtRest ==
  AtRest => ~ui.running /\ ~ui.loading /\ ~ui.creating /\ ~ui.syncing /\ ui.triggering = 0 /\ ui.updating = 0

\* A manifest is stored under another test than its own only if the network reordered
\* answers, or an editor was opened while the answers for another were under way, or a
\* manifest could not be loaded into an editor that held another test's (main.tsx 443-490):
\* the editor keeps that text while it loads and after the failure, and saving is refused
\* only while it loads.  No other failing request leads to it.
SavesItsOwnText ==
  env.ordered /\ ~env.astray => \A test \in DOMAIN srv.manifest : srv.manifest[test].of = test

\* On a network that keeps the order, as long as no request has failed, a page at rest shows
\* what the server holds: each run, test, change request and secret once, with the decisions
\* and cancellations made here, the stored policy, and the manifest and versions of the open
\* test (the callbacks of main.tsx 828-950).  The branches and pull requests are those of the
\* chosen repository if GitHub answers about it: after a refusal GitHubView (2194-2220) goes on
\* showing those of the repository chosen before.
AtRestAgrees ==
  env.ordered /\ env.live /\ env.faults = Faults /\ AtRest =>
    /\ Ids(ui.runs) = DOMAIN srv.runs /\ Len(ui.runs) = Len(srv.runs)
    /\ \A i \in 1..Len(ui.runs) : ui.runs[i].status = "cancelled" => srv.runs[ui.runs[i].id].status = "cancelled"
    /\ Range(ui.tests) = DOMAIN srv.manifest /\ Len(ui.tests) = Len(srv.manifest)
    /\ Len(ui.changes) = Len(srv.changes)
    /\ \A i \in 1..Len(ui.changes) : ui.changes[i].status = srv.changes[ui.changes[i].id]
    /\ Range(ui.secrets) = DOMAIN srv.secrets /\ Len(ui.secrets) = Len(srv.secrets)
    /\ ui.policy = srv.policy
    /\ ui.editing # 0 /\ ~env.astray =>
         /\ ui.saved = srv.manifest[ui.editing]
         /\ ui.versions = [of |-> ui.editing, count |-> srv.versions[ui.editing]]
    /\ ui.screen = "GitHub" /\ OnGitHub(Repo) =>
         /\ ui.branches = srv.branches[Repo]
         /\ ui.pulls = Repo
         /\ ui.base \in {0, Repo}

\* Sessions are not mixed up.  One OAuth state makes one session at most (index.ts 715-727),
\* although a callback page may be reloaded and its request repeated; and the organization kept
\* with a session, in the storage or in a tab, is one of that session's user (main.tsx
\* 3083-3103): users change, tabs share the storage, and the answer to a creation arrives
\* after a sign-out.
SessionsStayApart ==
  /\ \A a, b \in DOMAIN auth.sessions : auth.sessions[a].of = auth.sessions[b].of => a = b
  /\ \A s \in {stored} \cup {tab[t].session : t \in Tab} : s.org # 0 => auth.orgs[s.org] = UserOf(s)

\* A callback page does not stay: it ends in a signed-in tab or in an error, or the user
\* loads it again (main.tsx 173-198).
CallbackEnds == \A t \in Tab : tab[t].path = "callback" ~> (tab[t].path # "callback" \/ tab[t].error)
=============================================================================
