---------------------------- MODULE ConsoleState ----------------------------
(* The web console's page against its server: what the page holds, the         *)
(* requests under way, what the server answers, and what React does when a     *)
(* handler has set new state: the screen that is left is unmounted, the one    *)
(* that is entered is mounted, and the effects whose dependencies changed are  *)
(* cleaned up and run again.  The screens' handlers are in ConsoleApp and      *)
(* ConsoleScreens, the composition and its properties in WebConsole.           *)
EXTENDS Integers, SequencesExt

CONSTANTS
  Seed,         \* what the server holds when the page is opened
  Visits,       \* the sets of screens a user goes to, one of them in a behaviour
  ConfigTests,  \* the values tried for VITE_OPENTESTPILOT_TEST_ID; 0 stands for "not set"
  Clicks,       \* how many things the user does, for each of the visits
  Faults        \* how many requests fail at the server, are cut off or lose their answer

VARIABLES
  srv,   \* the organization's records at the server
  net,   \* the requests under way
  ui,    \* the state of the page: every useState, useRef and object URL
  env    \* what the behaviour is about: the network, the screens, the bounds left

vars == <<srv, net, ui, env>>

Screens == {"Overview", "Tests", "Runs", "Runners", "Schedules", "GitHub", "AI", "Settings"}
NoRun == [id |-> 0, test |-> 0, status |-> "none"]
\* demoRuns: what the list shows until the first load is answered; one of them reads "running".
DemoRuns == <<[id |-> -1, test |-> 0, status |-> "running"], [id |-> -2, test |-> 0, status |-> "passed"]>>
\* The text of a manifest: the test it is about, whether it parses, and its revision.
Texts == [of : Nat, valid : BOOLEAN, rev : Nat]
NoText == [of |-> 0, valid |-> TRUE, rev |-> 0]
NoPolicy == [days |-> 30, at |-> 0]
\* Every run has two artifacts; a run that does not exist has none.
ArtifactsOf(run) == {run} \X {1, 2}
Ids(list) == {list[i].id : i \in 1..Len(list)}

\* The page is opened on records whose manifests are stored under their own tests.
ASSUME SeedAssumption ==
  /\ Seed \in [runs : Seq([test : Nat, status : {"running", "passed", "cancelled"}]),
              manifest : Seq(Texts), versions : Seq(Nat),
              changes : Seq({"open", "approved", "rejected"}),
              policy : [days : Nat, at : Nat],
              secrets : Seq(Nat),
              schedules : Seq([test : Nat, enabled : BOOLEAN]),
              repos : Seq(Nat), branches : Seq(Seq(Nat))]
  /\ \A test \in DOMAIN Seed.manifest : Seed.manifest[test].of = test

-----------------------------------------------------------------------------
(* Requests.  A request is sent, served or refused by the server, and answered  *)
(* to the closure that sent it.  "no" is its place on an ordered network; else  *)
(* it only tells equal requests apart.  "cut" says that the component of the    *)
(* closure is unmounted, or the effect that sent it cleaned up (disposed).      *)
Ask(op, arg) == [op |-> op, arg |-> arg, no |-> 0, at |-> "sent", cut |-> FALSE, ans |-> 0]
\* A request whose answer nothing changes: it may be answered as soon as it is sent.
Read(op, arg, found) == [Ask(op, arg) EXCEPT !.at = IF found THEN "ok" ELSE "failed"]
Sent(q, new) ==
  LET like == {r \in q : env.ordered \/ (r.op = new.op /\ r.arg = new.arg)}
      no == CHOOSE n \in 1..(Cardinality(like) + 1) : \A r \in like : r.no # n
  IN  q \cup {[new EXCEPT !.no = no]}
Cut(q, ops) == {IF r.op \in ops THEN [r EXCEPT !.cut = TRUE] ELSE r : r \in q}
InFlight(op) == \E r \in net : r.op = op

\* Requests about the other repositories are refused: they are of another provider, or the
\* GitHub App is not configured, or not installed there.
OnGitHub(repo) == repo \in env.github

\* Whose closure a request belongs to; the App's own are never cut.
RequestsOf(screen) ==
  CASE screen = "Tests" -> {"createTest"}
    [] screen = "Runs" -> {"evidence", "result", "urls"}
    [] screen = "Schedules" -> {"trigger"}
    [] screen = "GitHub" -> {"sync", "branches", "pulls", "compare", "file", "createBranch", "commit", "createPr", "createChange"}
    [] screen = "AI" -> {"decide"}
    [] screen = "Settings" -> {"savePolicy", "saveSecret", "rotateSecret"}
    [] OTHER -> {}

\* The answer to request r reaches its closure; in order on an ordered network.
Answered(r, op, how) == /\ r.op = op
                        /\ r.at = how
                        /\ env.ordered => r.no = 1
Without(r) == {IF env.ordered THEN [other EXCEPT !.no = @ - 1] ELSE other : other \in net \ {r}}

Exists(run) == run \in DOMAIN srv.runs
Is(run, status) == IF Exists(run) THEN srv.runs[run].status = status ELSE FALSE

-----------------------------------------------------------------------------
(* React: what a commit does.  A step is a pair of the page's new state and the *)
(* requests then under way.                                                    *)
SelectedRepo(u) ==
  LET chosen == SelectSeq(u.repos, LAMBDA r : r.id = u.repo)
  IN  IF chosen # <<>> THEN Head(chosen) ELSE IF u.repos # <<>> THEN Head(u.repos) ELSE [id |-> 0, rev |-> 0]

\* The local state of the screens: it starts anew each time one of them is mounted.
Local == [creating |-> FALSE,
          evidence |-> 0, result |-> 0, links |-> {}, own |-> {},
          triggering |-> 0,
          repo |-> 0, syncing |-> FALSE, branches |-> <<>>, pulls |-> 0, base |-> 0, comparison |-> 0, file |-> 0,
          updating |-> 0,
          days |-> 30, value |-> 0]
Anew(u) == [field \in DOMAIN u \cup DOMAIN Local |-> IF field \in DOMAIN Local THEN Local[field] ELSE u[field]]
Mounted(u) ==
  CASE u.screen = "GitHub" -> [Anew(u) EXCEPT !.repo = IF u.repos = <<>> THEN 0 ELSE Head(u.repos).id]
    [] u.screen = "Settings" -> [Anew(u) EXCEPT !.days = u.policy.days]
    [] OTHER -> Anew(u)

\* The URLs of the current artifacts effect are revoked by its cleanup.
Revoked(u) == [u EXCEPT !.live = @ \ u.own, !.own = {}]

ScreenChange(s) ==
  IF s.u.screen = ui.screen THEN s
  ELSE [u |-> Mounted(Revoked(s.u)), q |-> Cut(s.q, RequestsOf(ui.screen))]

\* useEffect on [api, selectedRun]: the evidence and the result of the selected run.
RunEffects(s) ==
  IF s.u.screen # "Runs" \/ (ui.screen = "Runs" /\ s.u.selected = ui.selected) THEN s
  ELSE LET cut == Cut(s.q, {"evidence", "result"}) IN
       IF ~env.live \/ s.u.selected = NoRun
       THEN [u |-> [s.u EXCEPT !.evidence = 0, !.links = {}, !.result = 0,
                               !.evidenceNo = IF s.u.evidence = 0 THEN @ ELSE @ + 1], q |-> cut]
       ELSE [u |-> s.u, q |-> Sent(Sent(cut, Read("evidence", s.u.selected.id, Exists(s.u.selected.id))), Ask("result", s.u.selected.id))]

\* useEffect on [api, evidence]: an object URL for each artifact of the evidence.
\* evidenceNo is the identity of the evidence object, and names the URLs made for it.
ArtifactEffect(s) ==
  IF s.u.screen # "Runs" \/ s.u.evidenceNo = ui.evidenceNo THEN s
  ELSE LET cut == Cut(s.q, {"urls"})
           fetches == [todo |-> ArtifactsOf(s.u.evidence), got |-> {}]
       IN  [u |-> Revoked(s.u),
            q |-> IF s.u.evidence = 0 THEN cut ELSE Sent(cut, [Read("urls", s.u.evidenceNo, TRUE) EXCEPT !.ans = fetches])]

\* useEffect on [api, selected, t], twice: the branches and the pull requests.
\* Neither has a cleanup: the answers of an earlier run are not ignored.
GitHubRequests(s) ==
  LET repo == SelectedRepo(s.u).id
  IN  Sent(Sent(s.q, Ask("branches", repo)), Read("pulls", repo, OnGitHub(repo)))
GitHubEffectsOnce(s) ==   \* mutant: not when another repository is chosen
  IF s.u.screen # "GitHub" \/ ui.screen = "GitHub" \/ SelectedRepo(s.u).id = 0 THEN s
  ELSE [s EXCEPT !.q = GitHubRequests(s)]
GitHubEffects(s) ==
  IF \/ s.u.screen # "GitHub"
     \/ SelectedRepo(s.u).id = 0
     \/ ui.screen = "GitHub" /\ SelectedRepo(s.u) = SelectedRepo(ui) /\ s.u.locale = ui.locale
  THEN s
  ELSE [s EXCEPT !.q = GitHubRequests(s)]

\* useEffect on [storagePolicy]: the fields take the stored policy's values.
PolicyEffect(s) ==
  IF s.u.screen = "Settings" /\ s.u.policy # ui.policy THEN [s EXCEPT !.u.days = s.u.policy.days] ELSE s

\* A handler has set the state u and left the requests q: React commits.
Commit(u, q) ==
  LET s == PolicyEffect(GitHubEffects(ArtifactEffect(RunEffects(ScreenChange([u |-> u, q |-> q])))))
  IN  ui' = s.u /\ net' = s.q

\* One of the user's clicks, on a screen of this visit.
Click(screen) == /\ ui.screen = screen
                 /\ env.clicks > 0
                 /\ env' = [env EXCEPT !.clicks = @ - 1]
                 /\ UNCHANGED srv
\* A handler that ran on an answer.
Closure == UNCHANGED <<srv, env>>

-----------------------------------------------------------------------------
(* The server: every request is handled in one step (TenantApi has the handlers *)
(* step by step).                                                              *)
Served(r, op) == /\ r.op = op
                 /\ r.at = "sent"
                 /\ env.ordered => \A other \in net : other.no < r.no => other.at # "sent"
                 /\ UNCHANGED <<ui, env>>
Becomes(r, new) == net' = (net \ {r}) \cup {new}
Reply(r, ans) == Becomes(r, [r EXCEPT !.at = "ok", !.ans = ans])
Refuse(r) == Becomes(r, [r EXCEPT !.at = "failed"]) /\ UNCHANGED srv
Store(r, ans, records) == Reply(r, ans) /\ srv' = records

ServeRead(r) ==
  \/ Served(r, "load") /\ Reply(r, srv) /\ UNCHANGED srv
  \/ Served(r, "manifest") /\ Reply(r, [text |-> srv.manifest[r.arg], count |-> srv.versions[r.arg]]) /\ UNCHANGED srv
  \/ Served(r, "versions") /\ Reply(r, srv.versions[r.arg]) /\ UNCHANGED srv

ServeResult(r) ==
  \/ Served(r, "result") /\ Is(r.arg, "passed") /\ Reply(r, 0) /\ UNCHANGED srv
  \/ Served(r, "result") /\ ~Is(r.arg, "passed") /\ Refuse(r)

QueueRun(r, test) ==
  Store(r, Len(srv.runs) + 1, [srv EXCEPT !.runs = Append(@, [test |-> test, status |-> "running"])])

ServeRuns(r) ==
  \/ Served(r, "startRun") /\ QueueRun(r, r.arg)
  \/ Served(r, "trigger") /\ QueueRun(r, srv.schedules[r.arg].test)
  \/ Served(r, "cancel") /\ Is(r.arg, "running")
     /\ Store(r, 0, [srv EXCEPT !.runs[r.arg].status = "cancelled"])
  \/ Served(r, "cancel") /\ ~Is(r.arg, "running") /\ Refuse(r)

\* The document is validated; that it is the manifest of this test is not looked at.
ServeManifests(r) ==
  \/ Served(r, "update") /\ r.arg.text.of # 0
     /\ Store(r, 0, [srv EXCEPT !.manifest[r.arg.test] = r.arg.text, !.versions[r.arg.test] = @ + 1])
  \/ Served(r, "update") /\ r.arg.text.of = 0 /\ Refuse(r)
  \/ Served(r, "createTest")
     /\ LET test == Len(srv.manifest) + 1
        IN  Store(r, test, [srv EXCEPT !.manifest = Append(@, [NoText EXCEPT !.of = test]), !.versions = Append(@, 1)])

ServeTenant(r) ==
  \/ Served(r, "createChange") /\ Store(r, Len(srv.changes) + 1, [srv EXCEPT !.changes = Append(@, "open")])
  \/ Served(r, "decide") /\ Store(r, r.arg.status, [srv EXCEPT !.changes[r.arg.id] = r.arg.status])
  \/ Served(r, "savePolicy")
     /\ LET policy == [days |-> r.arg, at |-> srv.policy.at + 1] IN Store(r, policy, [srv EXCEPT !.policy = policy])
  \/ Served(r, "saveSecret") /\ Store(r, Len(srv.secrets) + 1, [srv EXCEPT !.secrets = Append(@, r.arg)])
  \/ Served(r, "rotateSecret") /\ Store(r, r.arg.id, [srv EXCEPT !.secrets[r.arg.id] = r.arg.value])

\* GitHub refuses a branch on a commit that is not the repository's.
Branches(r) == OnGitHub(r.arg.repo) /\ r.arg.from = r.arg.repo
ServeGitHub(r) ==
  \/ Served(r, "branches") /\ OnGitHub(r.arg) /\ Reply(r, srv.branches[r.arg]) /\ UNCHANGED srv
  \/ Served(r, "branches") /\ ~OnGitHub(r.arg) /\ Refuse(r)
  \/ Served(r, "sync") /\ OnGitHub(r.arg) /\ Store(r, srv.repos[r.arg] + 1, [srv EXCEPT !.repos[r.arg] = @ + 1])
  \/ Served(r, "sync") /\ ~OnGitHub(r.arg) /\ Refuse(r)
  \/ Served(r, "createBranch") /\ Branches(r)
     /\ Store(r, r.arg.repo, [srv EXCEPT !.branches[r.arg.repo] = Append(@, r.arg.repo)])
  \/ Served(r, "createBranch") /\ ~Branches(r) /\ Refuse(r)

\* A request does not arrive, the server fails before or after its effect (GitHub's own
\* failures too), or the answer is lost: whatever the order, the closure sees an error.
Break(r) ==
  /\ env.faults > 0
  /\ r.at \in {"sent", "ok"}
  /\ r.op # "urls"
  /\ Becomes(r, [r EXCEPT !.at = "failed", !.ans = 0])
  /\ env' = [env EXCEPT !.faults = @ - 1]
  /\ UNCHANGED <<srv, ui>>

\* A runner completes a run.
RunPasses(run) ==
  /\ "Runs" \in env.visits
  /\ Is(run, "running")
  /\ srv' = [srv EXCEPT !.runs[run].status = "passed"]
  /\ UNCHANGED <<net, ui, env>>

-----------------------------------------------------------------------------
Init ==
  /\ srv = Seed
  /\ \E visits \in Visits, ordered \in BOOLEAN, live \in BOOLEAN, test \in ConfigTests,
        github \in SUBSET DOMAIN Seed.repos :
       /\ "GitHub" \in visits \/ github = {}
       /\ env = [ordered |-> ordered, visits |-> visits, live |-> live, configTest |-> test,
                 github |-> github, clicks |-> Clicks[visits], faults |-> Faults, astray |-> FALSE]
       /\ net = IF live THEN {[Ask("load", 0) EXCEPT !.no = 1]} ELSE {}
       /\ ui = Anew([screen |-> "Overview", locale |-> "en", link |-> IF live THEN "live" ELSE "demo",
                     runs |-> DemoRuns, selected |-> IF live THEN NoRun ELSE DemoRuns[2], running |-> FALSE, timers |-> 0,
                     tests |-> <<>>, changes |-> <<>>, secrets |-> <<>>, schedules |-> <<>>, policy |-> NoPolicy, repos |-> <<>>,
                     editing |-> 0, text |-> NoText, saved |-> NoText, versions |-> [of |-> 0, count |-> 0], loading |-> FALSE,
                     evidenceNo |-> 0, live |-> {}])
=============================================================================
