------------------------------- MODULE Session -------------------------------
(* Signing in to the web console: the pages Root chooses between, the tabs of   *)
(* one browser and the local storage they share, GitHub's part of the OAuth     *)
(* flow, and the server's routes for it.  A tab that shows the App goes on in   *)
(* ConsoleState; here it only signs out.                                        *)
EXTENDS Integers, SequencesExt

CONSTANTS
  Tab,
  User,      \* GitHub users that sign in from this browser
  Configs,   \* deployments: [org, auth, token], VITE_OPENTESTPILOT_... of the build
  States,    \* bound: how many OAuth states are made
  Orgs,      \* bound: how many organizations are made
  Loads,     \* bound: reloads by the user
  Mishaps    \* bound: failed requests, restarts and expiries

ASSUME UserAssumption == User # {}

VARIABLES
  config,   \* the deployment of the behaviour
  stored,   \* localStorage["opentestpilot-session"]
  tab,      \* each tab's location and React state
  auth,     \* the server: OAuth states in memory; sessions and organizations
  left      \* what is left of the bounds

sessionVars == <<config, stored, tab, auth, left>>

NoSession == [token |-> 0, org |-> 0]
Expired(session) == session.token # 0 /\ auth.sessions[session.token].expired
UserOf(session) == auth.sessions[session.token].user

\* Root: the page a tab shows, from its location, its session and the build.
Page(s) ==
  IF s.path # "/" THEN s.path
  ELSE IF s.session = NoSession /\ ~config.token /\ (config.auth \/ config.org = 0) THEN "login"
  ELSE IF config.org = 0 /\ s.session.org = 0 /\ s.session # NoSession THEN "organization"
  ELSE "app"

Post(op, arg) == [op |-> op, arg |-> arg, at |-> "sent", ans |-> 0]

\* A page that was not shown before starts afresh, with the request of its effect.
Opened(s) ==
  [s EXCEPT !.error = Page(s) = "callback" /\ s.query = 0,
            !.loading = Page(s) = "organization",
            !.listed = {},
            !.wait = @ \cup (IF Page(s) = "organization" THEN {Post("list", s.session.token)}
                             ELSE IF Page(s) = "callback" /\ s.query # 0 THEN {Post("complete", s.query)} ELSE {})]
Shows(t, s) == tab' = [tab EXCEPT ![t] = IF Page(s) = Page(tab[t]) THEN s ELSE Opened(s)]

\* A full page load: only the location and the local storage survive.
\* A stored session past its end is dropped.
LoadPage(t, path, query) ==
  LET resumed == IF config.token \/ Expired(stored) THEN NoSession ELSE stored
  IN  /\ tab' = [tab EXCEPT ![t] = Opened([path |-> path, query |-> query, session |-> resumed,
                                           wait |-> {}, loading |-> FALSE, error |-> FALSE, listed |-> {}])]
      /\ stored' = IF ~config.token /\ Expired(stored) THEN NoSession ELSE stored

-----------------------------------------------------------------------------
(* LoginPage and GitHub.                                                       *)
StartLogin(t) ==
  /\ Page(tab[t]) = "login"
  /\ ~tab[t].loading
  /\ Len(auth.states) < States
  /\ Shows(t, [tab[t] EXCEPT !.loading = TRUE, !.error = FALSE, !.wait = @ \cup {Post("start", 0)}])
  /\ UNCHANGED <<config, stored, auth, left>>

Arrived(t, r, how) == r \in tab[t].wait /\ r.at = how
Settled(t, r) == [tab[t] EXCEPT !.wait = @ \ {r}]

\* The browser leaves the console for GitHub.
Redirected(t, r) ==
  /\ Arrived(t, r, "ok") /\ r.op = "start"
  /\ tab' = [tab EXCEPT ![t] = [path |-> "github", query |-> r.ans, session |-> NoSession,
                                wait |-> {}, loading |-> FALSE, error |-> FALSE, listed |-> {}]]
  /\ UNCHANGED <<config, stored, auth, left>>
LoginNotStarted(t, r) ==
  /\ Arrived(t, r, "failed") /\ r.op = "start"
  /\ tab' = [tab EXCEPT ![t] = IF Page(@) = "login" THEN [Settled(t, r) EXCEPT !.error = TRUE, !.loading = FALSE] ELSE Settled(t, r)]
  /\ UNCHANGED <<config, stored, auth, left>>

\* GitHub sends the browser back, with a code for the user or without one.
Approve(t, user) ==
  /\ tab[t].path = "github"
  /\ LoadPage(t, "callback", tab[t].query)
  /\ auth' = [auth EXCEPT !.states[tab[t].query].user = user]
  /\ UNCHANGED <<config, left>>
Deny(t) ==
  /\ tab[t].path = "github"
  /\ LoadPage(t, "callback", 0)
  /\ UNCHANGED <<config, auth, left>>

-----------------------------------------------------------------------------
(* CallbackPage.                                                               *)
\* The session is stored without an organization, whichever was chosen before.
LoggedInKeepingOrganization(t, r) ==   \* mutant
  /\ Arrived(t, r, "ok") /\ r.op = "complete"
  /\ stored' = [stored EXCEPT !.token = r.ans]
  /\ Shows(t, [Settled(t, r) EXCEPT !.session = [stored EXCEPT !.token = r.ans], !.path = "/"])
  /\ UNCHANGED <<config, auth, left>>
LoggedIn(t, r) ==
  /\ Arrived(t, r, "ok") /\ r.op = "complete"
  /\ stored' = [NoSession EXCEPT !.token = r.ans]
  /\ Shows(t, [Settled(t, r) EXCEPT !.session = [NoSession EXCEPT !.token = r.ans], !.path = "/"])
  /\ UNCHANGED <<config, auth, left>>
LoginFailedQuietly(t, r) ==   \* mutant
  Arrived(t, r, "failed") /\ r.op = "complete" /\ Shows(t, Settled(t, r)) /\ UNCHANGED <<config, stored, auth, left>>
LoginFailed(t, r) ==
  /\ Arrived(t, r, "failed") /\ r.op = "complete"
  /\ Shows(t, [Settled(t, r) EXCEPT !.error = TRUE])
  /\ UNCHANGED <<config, stored, auth, left>>
TryAgain(t) ==
  /\ Page(tab[t]) = "callback" /\ tab[t].error
  /\ LoadPage(t, "/", 0)
  /\ UNCHANGED <<config, auth, left>>

-----------------------------------------------------------------------------
(* OrganizationPage and the App's sign-out.                                    *)
\* handleOrganization adds the organization to the tab's session and stores that.
Entered(t, s, org) ==
  IF s.session = NoSession THEN Shows(t, s) /\ UNCHANGED stored
  ELSE /\ Shows(t, [s EXCEPT !.session.org = org])
       /\ stored' = [s.session EXCEPT !.org = org]
ChooseOrganization(t, org) ==
  /\ Page(tab[t]) = "organization"
  /\ org \in tab[t].listed
  /\ Entered(t, tab[t], org)
  /\ UNCHANGED <<config, auth, left>>
CreateOrganization(t) ==
  /\ Page(tab[t]) = "organization"
  /\ ~tab[t].loading
  /\ Len(auth.orgs) < Orgs
  /\ Shows(t, [tab[t] EXCEPT !.loading = TRUE, !.wait = @ \cup {Post("create", tab[t].session.token)}])
  /\ UNCHANGED <<config, stored, auth, left>>

OnPage(t, r, s) == IF Page(tab[t]) = "organization" /\ tab[t].session.token = r.arg THEN s ELSE Settled(t, r)
OrganizationsListed(t, r) ==
  /\ Arrived(t, r, "ok") /\ r.op = "list"
  /\ Shows(t, OnPage(t, r, [Settled(t, r) EXCEPT !.listed = r.ans, !.loading = FALSE]))
  /\ UNCHANGED <<config, stored, auth, left>>
\* The answer enters the new organization although the user may have left the page.
OrganizationCreated(t, r) ==
  /\ Arrived(t, r, "ok") /\ r.op = "create"
  /\ Entered(t, OnPage(t, r, [Settled(t, r) EXCEPT !.loading = FALSE]), r.ans)
  /\ UNCHANGED <<config, auth, left>>
OrganizationFailed(t, r) ==
  /\ Arrived(t, r, "failed") /\ r.op \in {"list", "create"}
  /\ Shows(t, OnPage(t, r, [Settled(t, r) EXCEPT !.error = TRUE, !.loading = FALSE]))
  /\ UNCHANGED <<config, stored, auth, left>>

\* The server is not told: its session lives on until it expires.
Logout(t) ==
  /\ Page(tab[t]) = "app" /\ tab[t].session # NoSession
  /\ stored' = NoSession
  /\ Shows(t, [tab[t] EXCEPT !.session = NoSession])
  /\ UNCHANGED <<config, auth, left>>

Reload(t) ==
  /\ left.loads > 0 /\ left' = [left EXCEPT !.loads = @ - 1]
  /\ tab[t].path # "github"
  /\ LoadPage(t, tab[t].path, tab[t].query)
  /\ UNCHANGED <<config, auth>>

-----------------------------------------------------------------------------
(* The server.                                                                 *)
Replied(t, r, how, ans) == tab' = [tab EXCEPT ![t].wait = (@ \ {r}) \cup {[r EXCEPT !.at = how, !.ans = ans]}]

ServeStart(t, r) ==
  /\ Arrived(t, r, "sent") /\ r.op = "start"
  /\ Len(auth.states) < States
  /\ auth' = [auth EXCEPT !.states = Append(@, [open |-> TRUE, user |-> CHOOSE u \in User : TRUE])]
  /\ Replied(t, r, "ok", Len(auth.states) + 1)
  /\ UNCHANGED <<config, stored, left>>

\* A state is taken out of the set before the code is exchanged; the exchange may fail.
ServeComplete(t, r) ==
  /\ Arrived(t, r, "sent") /\ r.op = "complete"
  /\ IF ~auth.states[r.arg].open THEN Replied(t, r, "failed", 0) /\ UNCHANGED <<auth, left>>
     ELSE \/ /\ auth' = [auth EXCEPT !.states[r.arg].open = FALSE,
                                     !.sessions = Append(@, [of |-> r.arg, user |-> auth.states[r.arg].user, expired |-> FALSE])]
             /\ Replied(t, r, "ok", Len(auth.sessions) + 1)
             /\ UNCHANGED left
          \/ /\ left.mishaps > 0 /\ left' = [left EXCEPT !.mishaps = @ - 1]
             /\ auth' = [auth EXCEPT !.states[r.arg].open = FALSE]
             /\ Replied(t, r, "failed", 0)
  /\ UNCHANGED <<config, stored>>

\* The preHandler finds the session and its user; then the organizations of that user,
\* or a new one and the membership of its owner.
ServeOrganizations(t, r) ==
  /\ Arrived(t, r, "sent") /\ r.op \in {"list", "create"}
  /\ IF auth.sessions[r.arg].expired THEN Replied(t, r, "failed", 0) /\ UNCHANGED auth
     ELSE IF r.op = "list"
     THEN /\ Replied(t, r, "ok", {o \in DOMAIN auth.orgs : auth.orgs[o] = auth.sessions[r.arg].user})
          /\ UNCHANGED auth
     ELSE /\ auth' = [auth EXCEPT !.orgs = Append(@, auth.sessions[r.arg].user)]
          /\ Replied(t, r, "ok", Len(auth.orgs) + 1)
  /\ UNCHANGED <<config, stored, left>>

\* The set of OAuth states is lost when the server restarts; a session ends after eight
\* hours; an answer is lost on its way.
Mishap ==
  /\ left.mishaps > 0 /\ left' = [left EXCEPT !.mishaps = @ - 1]
  /\ \/ /\ auth' = [auth EXCEPT !.states = [s \in DOMAIN auth.states |-> [auth.states[s] EXCEPT !.open = FALSE]]]
        /\ auth.states # <<>>
        /\ UNCHANGED tab
     \/ /\ \E token \in DOMAIN auth.sessions : auth' = [auth EXCEPT !.sessions[token].expired = TRUE]
        /\ UNCHANGED tab
     \/ /\ \E t \in Tab : \E r \in tab[t].wait : r.at # "failed" /\ Replied(t, r, "failed", 0)
        /\ UNCHANGED auth
  /\ UNCHANGED <<config, stored>>

-----------------------------------------------------------------------------
SessionInit ==
  /\ config \in Configs
  /\ stored = NoSession
  /\ auth = [states |-> <<>>, sessions |-> <<>>, orgs |-> <<>>]
  /\ left = [loads |-> Loads, mishaps |-> Mishaps]
  /\ tab = [t \in Tab |-> [path |-> "/", query |-> 0, session |-> NoSession,
                           wait |-> {}, loading |-> FALSE, error |-> FALSE, listed |-> {}]]

Handled(t) == \E r \in tab[t].wait : ServeStart(t, r) \/ ServeComplete(t, r) \/ ServeOrganizations(t, r)
Received(t) ==
  \E r \in tab[t].wait :
    \/ Redirected(t, r) \/ LoginNotStarted(t, r)
    \/ LoggedIn(t, r) \/ LoginFailed(t, r)
    \/ OrganizationsListed(t, r) \/ OrganizationCreated(t, r) \/ OrganizationFailed(t, r)
Acts(t) ==
  \/ StartLogin(t) \/ (\E u \in User : Approve(t, u)) \/ Deny(t) \/ TryAgain(t)
  \/ (\E o \in tab[t].listed : ChooseOrganization(t, o)) \/ CreateOrganization(t) \/ Logout(t) \/ Reload(t)

SessionNext == Mishap \/ \E t \in Tab : Handled(t) \/ Received(t) \/ Acts(t)
SessionFairness == \A t \in Tab : WF_sessionVars(Handled(t) \/ Received(t))
=============================================================================
