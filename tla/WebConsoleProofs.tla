---------------------------- MODULE WebConsoleProofs ----------------------------
(***************************************************************************)
(* What holds of signing in to the web console for every set of tabs and   *)
(* users, every deployment, and any number of loads and mishaps; and of    *)
(* the App with its screens for every content of the server, every group   *)
(* of screens, and any number of clicks and faults.                        *)
(***************************************************************************)
EXTENDS WebConsole, TLAPS

USE UserAssumption

-----------------------------------------------------------------------------
(* The inductive invariant.  Its parts take the server's state as a            *)
(* parameter: that state only grows.                                           *)

SessionState == [token : Nat, org : Nat]
PostState ==
  [op : {"start", "complete", "list", "create"}, arg : Nat, at : {"sent", "ok", "failed"}, ans : Nat \cup SUBSET Nat]
TabState ==
  [path : {"/", "callback", "github"}, query : Nat, session : SessionState, wait : SUBSET PostState,
   loading : BOOLEAN, error : BOOLEAN, listed : SUBSET Nat]
AuthState ==
  [states : Seq([open : BOOLEAN, user : User]), sessions : Seq([of : Nat, user : User, expired : BOOLEAN]),
   orgs : Seq(User)]

(* Session token is of the user of organization o. *)
Member(a, token, o) ==
  /\ token \in DOMAIN a.sessions
  /\ o \in DOMAIN a.orgs
  /\ a.orgs[o] = a.sessions[token].user

(* A session that is kept is one of the server, and so is its organization. *)
SessionOk(a, session) ==
  /\ session \in SessionState
  /\ session.token # 0 => session.token \in DOMAIN a.sessions
  /\ session.org # 0 => Member(a, session.token, session.org)

(* A request of tab s asks for something the server has, and is on the page  *)
(* that sent it, under the session it was sent with or none.                 *)
PostOk(a, s, r) ==
  /\ r.op = "start" => s.path = "/" /\ (r.at = "ok" => r.ans \in DOMAIN a.states)
  /\ r.op = "complete" =>
       s.path = "callback" /\ r.arg \in DOMAIN a.states /\ (r.at = "ok" => r.ans \in DOMAIN a.sessions)
  /\ r.op \in {"list", "create"} =>
       s.path = "/" /\ r.arg \in DOMAIN a.sessions /\ (s.session = NoSession \/ s.session.token = r.arg)
  /\ r.op = "list" /\ r.at = "ok" => \A o \in r.ans : Member(a, r.arg, o)
  /\ r.op = "create" /\ r.at = "ok" => Member(a, r.arg, r.ans)

(* What holds of a tab whatever its page lists. *)
TabFits(a, s) ==
  /\ s \in TabState
  /\ SessionOk(a, s.session)
  /\ s.path # "/" /\ s.query # 0 => s.query \in DOMAIN a.states
  /\ s.path = "github" => s.query # 0 /\ s.wait = {}
  /\ s.path = "callback" => \A q, r \in s.wait : q = r
  /\ \A r \in s.wait : PostOk(a, s, r)
Lists(a, s) == Page(s) = "organization" => \A o \in s.listed : Member(a, s.session.token, o)
TabOk(a, s) == TabFits(a, s) /\ Lists(a, s)

(* A state that made a session is closed, and made no other. *)
AuthOk(a) ==
  /\ a \in AuthState
  /\ \A m \in DOMAIN a.sessions : a.sessions[m].of \in DOMAIN a.states /\ ~a.states[a.sessions[m].of].open
  /\ \A m, n \in DOMAIN a.sessions : a.sessions[m].of = a.sessions[n].of => m = n

SignedIn ==
  /\ DOMAIN tab = Tab
  /\ AuthOk(auth)
  /\ SessionOk(auth, stored)
  /\ \A t \in Tab : TabOk(auth, tab[t])

-----------------------------------------------------------------------------
(* The server's state grows: what was made stays, with its user.               *)

Grows(a, b) ==
  /\ DOMAIN a.states \subseteq DOMAIN b.states
  /\ DOMAIN a.sessions \subseteq DOMAIN b.sessions
  /\ \A m \in DOMAIN a.sessions : b.sessions[m].user = a.sessions[m].user
  /\ DOMAIN a.orgs \subseteq DOMAIN b.orgs
  /\ \A o \in DOMAIN a.orgs : b.orgs[o] = a.orgs[o]

LEMMA MemberGrows ==
  ASSUME NEW a, NEW b, Grows(a, b), NEW token, NEW o, Member(a, token, o)
  PROVE  Member(b, token, o)
BY DEF Grows, Member

LEMMA SessionGrows ==
  ASSUME NEW a, NEW b, Grows(a, b), NEW session, SessionOk(a, session)
  PROVE  SessionOk(b, session)
BY MemberGrows DEF Grows, SessionOk

LEMMA PostGrows ==
  ASSUME NEW a, NEW b, Grows(a, b), NEW s, NEW r, PostOk(a, s, r)
  PROVE  PostOk(b, s, r)
<1>1. r.op = "start" => s.path = "/" /\ (r.at = "ok" => r.ans \in DOMAIN b.states)
  BY DEF Grows, PostOk
<1>2. r.op = "complete" =>
        s.path = "callback" /\ r.arg \in DOMAIN b.states /\ (r.at = "ok" => r.ans \in DOMAIN b.sessions)
  BY DEF Grows, PostOk
<1>3. r.op \in {"list", "create"} =>
        s.path = "/" /\ r.arg \in DOMAIN b.sessions /\ (s.session = NoSession \/ s.session.token = r.arg)
  BY DEF Grows, PostOk
<1>4. r.op = "list" /\ r.at = "ok" => \A o \in r.ans : Member(b, r.arg, o)
  BY MemberGrows DEF PostOk
<1>5. r.op = "create" /\ r.at = "ok" => Member(b, r.arg, r.ans)
  BY MemberGrows DEF PostOk
<1> QED
  BY <1>1, <1>2, <1>3, <1>4, <1>5 DEF PostOk

LEMMA TabGrows ==
  ASSUME NEW a, NEW b, Grows(a, b), NEW s, TabOk(a, s)
  PROVE  TabOk(b, s)
<1>1. SessionOk(b, s.session)
  BY SessionGrows DEF TabOk, TabFits
<1>2. s.path # "/" /\ s.query # 0 => s.query \in DOMAIN b.states
  BY DEF TabOk, TabFits, Grows
<1>3. \A r \in s.wait : PostOk(b, s, r)
  BY PostGrows DEF TabOk, TabFits
<1>4. Lists(b, s)
  BY MemberGrows DEF TabOk, Lists
<1> QED
  BY <1>1, <1>2, <1>3, <1>4 DEF TabOk, TabFits

(* What a step that changes one tab has to show. *)
LEMMA OneTabStep ==
  ASSUME SignedIn, NEW t \in Tab, NEW e, tab' = [tab EXCEPT ![t] = e],
         Grows(auth, auth'), AuthOk(auth'), TabOk(auth', e), SessionOk(auth', stored'), config' = config
  PROVE  SignedIn'
<1>1. DOMAIN tab' = Tab
  BY DEF SignedIn
<1>2. ASSUME NEW u \in Tab PROVE TabOk(auth', tab'[u])
  BY <1>2, TabGrows DEF SignedIn
<1>3. ASSUME NEW u \in Tab PROVE TabOk(auth, tab[u])'
  BY <1>2, <1>3 DEF TabOk, TabFits, Lists, Page
<1> QED
  BY <1>1, <1>3 DEF SignedIn

LEMMA SameServer == Grows(auth, auth)
BY DEF Grows

-----------------------------------------------------------------------------
(* The page a tab shows, and how it is opened.                                 *)

LEMMA PageDependsOn ==
  ASSUME NEW x, NEW y, x.path = y.path, x.session = y.session
  PROVE  Page(x) = Page(y)
BY DEF Page

LEMMA TabUpdates ==
  ASSUME NEW s \in TabState, NEW error \in BOOLEAN, NEW loading \in BOOLEAN,
         NEW listed \in SUBSET Nat, NEW wait \in SUBSET PostState
  PROVE  [s EXCEPT !.error = error, !.loading = loading, !.listed = listed, !.wait = wait] \in TabState
BY DEF TabState

LEMMA PostTyped ==
  ASSUME NEW op \in {"start", "complete", "list", "create"}, NEW arg \in Nat
  PROVE  Post(op, arg) \in PostState
BY DEF Post, PostState

(* A session with a token the server knows. *)
LEMMA TokenKnown ==
  ASSUME NEW a, AuthOk(a), NEW session, SessionOk(a, session), session # NoSession
  PROVE  session.token \in DOMAIN a.sessions
BY DEF AuthOk, AuthState, SessionOk, SessionState, Member, NoSession

LEMMA OpenedFits ==
  ASSUME NEW a, AuthOk(a), NEW s, TabFits(a, s), s.path # "github", s.path = "callback" => s.wait = {}
  PROVE  TabOk(a, Opened(s))
<1> DEFINE first == IF Page(s) = "organization" THEN {Post("list", s.session.token)}
                    ELSE IF Page(s) = "callback" /\ s.query # 0 THEN {Post("complete", s.query)} ELSE {}
           wait == s.wait \cup first
           error == Page(s) = "callback" /\ s.query = 0
           loading == Page(s) = "organization"
           e == [s EXCEPT !.error = error, !.loading = loading, !.listed = {}, !.wait = wait]
<1>1. Opened(s) = e
  BY DEF Opened, TabFits, TabState
<1>2. s \in TabState /\ SessionOk(a, s.session)
  BY DEF TabFits
<1>3. first \in SUBSET PostState
  <2>1. s.session.token \in Nat /\ s.query \in Nat
    BY <1>2 DEF TabState, SessionState
  <2> QED
    BY <2>1, PostTyped
<1>4. e \in TabState
  <2>1. error \in BOOLEAN
    OBVIOUS
  <2>2. loading \in BOOLEAN
    OBVIOUS
  <2>3. wait \in SUBSET PostState
    BY <1>2, <1>3 DEF TabState
  <2> HIDE DEF error, loading, wait
  <2> QED
    BY <1>2, <2>1, <2>2, <2>3, TabUpdates
<1>5. e.path = s.path /\ e.session = s.session /\ e.query = s.query /\ e.listed = {} /\ e.wait = wait
  BY <1>2 DEF TabState
<1>6. ASSUME NEW r \in wait PROVE PostOk(a, e, r)
  <2>1. CASE r \in s.wait
    <3>1. PostOk(a, s, r)
      BY <2>1 DEF TabFits
    <3> HIDE DEF e
    <3> QED
      BY <1>5, <3>1 DEF PostOk
  <2>2. CASE Page(s) = "organization" /\ r = Post("list", s.session.token)
    <3>1. s.path = "/" /\ s.session # NoSession
      BY <1>2, <2>2 DEF Page, TabState
    <3>2. s.session.token \in DOMAIN a.sessions
      BY <1>2, <3>1, TokenKnown
    <3>3. r.op = "list" /\ r.arg = s.session.token /\ r.at = "sent"
      BY <2>2 DEF Post
    <3> HIDE DEF e
    <3> QED
      BY <1>5, <3>1, <3>2, <3>3 DEF PostOk
  <2>3. CASE Page(s) = "callback" /\ s.query # 0 /\ r = Post("complete", s.query)
    <3>1. s.path = "callback"
      BY <1>2, <2>3 DEF Page, TabState
    <3>2. s.query \in DOMAIN a.states
      BY <2>3, <3>1 DEF TabFits
    <3>3. r.op = "complete" /\ r.arg = s.query /\ r.at = "sent"
      BY <2>3 DEF Post
    <3> HIDE DEF e
    <3> QED
      BY <1>5, <3>1, <3>2, <3>3 DEF PostOk
  <2> QED
    BY <1>6, <2>1, <2>2, <2>3
<1>7. s.path = "callback" => \A q, r \in wait : q = r
  <2>1. s.path = "callback" => s.wait = {} /\ Page(s) = "callback"
    BY DEF Page
  <2> QED
    BY <2>1
<1> HIDE DEF e, wait
<1>8. TabFits(a, e)
  BY <1>2, <1>4, <1>5, <1>6, <1>7 DEF TabFits
<1>9. Lists(a, e)
  BY <1>5 DEF Lists
<1> QED
  BY <1>1, <1>8, <1>9 DEF TabOk

(* A handler that sets the state s of tab t, on the page it is on or on      *)
(* another one of Root's.                                                    *)
LEMMA ShowsFits ==
  ASSUME NEW a, AuthOk(a), NEW t \in Tab, DOMAIN tab = Tab, NEW s, TabFits(a, s), s.path # "github",
         Page(s) # Page(tab[t]) => s.path = "/", Page(s) = Page(tab[t]) => Lists(a, s), Shows(t, s)
  PROVE  \E e : tab' = [tab EXCEPT ![t] = e] /\ TabOk(a, e)
<1>1. CASE Page(s) = Page(tab[t])
  BY <1>1 DEF Shows, TabOk
<1>2. CASE Page(s) # Page(tab[t])
  <2>1. TabOk(a, Opened(s))
    BY <1>2, OpenedFits
  <2> QED
    BY <1>2, <2>1 DEF Shows
<1> QED
  BY <1>1, <1>2

LEMMA LoadFits ==
  ASSUME NEW a, AuthOk(a), AuthOk(auth), Grows(auth, a), SessionOk(auth, stored), NEW t \in Tab,
         NEW path \in {"/", "callback"},
         NEW query \in Nat, path = "callback" /\ query # 0 => query \in DOMAIN a.states,
         LoadPage(t, path, query)
  PROVE  /\ SessionOk(a, stored')
         /\ \E e : tab' = [tab EXCEPT ![t] = e] /\ TabOk(a, e)
<1> DEFINE resumed == IF config.token \/ Expired(stored) THEN NoSession ELSE stored
           s == [path |-> path, query |-> query, session |-> resumed, wait |-> {},
                 loading |-> FALSE, error |-> FALSE, listed |-> {}]
<1>1. SessionOk(a, NoSession)
  BY DEF SessionOk, NoSession, SessionState
<1>2. SessionOk(a, stored)
  BY SessionGrows
<1>3. SessionOk(a, stored') /\ SessionOk(a, resumed)
  BY <1>1, <1>2 DEF LoadPage
<1>4. tab' = [tab EXCEPT ![t] = Opened(s)]
  BY DEF LoadPage
<1>5. TabFits(a, s)
  <2>1. resumed \in SessionState
    BY <1>3 DEF SessionOk
  <2> HIDE DEF resumed
  <2>2. s \in TabState
    BY <2>1 DEF TabState
  <2> QED
    BY <1>3, <2>2 DEF TabFits
<1>6. TabOk(a, Opened(s))
  BY <1>5, OpenedFits
<1> QED
  BY <1>3, <1>4, <1>6

-----------------------------------------------------------------------------
(* The steps of the page.                                                      *)

(* A tab stays where it is, under its session: only its requests change.     *)
LEMMA SamePlaceFits ==
  ASSUME NEW a, NEW x, TabFits(a, x), x.path # "github", NEW s \in TabState,
         s.path = x.path, s.query = x.query, s.session = x.session,
         s.path = "callback" => s.wait \subseteq x.wait,
         \A r \in s.wait : PostOk(a, x, r)
  PROVE  TabFits(a, s)
<1>1. \A r \in s.wait : PostOk(a, s, r)
  BY DEF PostOk
<1> QED
  BY <1>1 DEF TabFits

(* Its page and what that lists stay too. *)
LEMMA SameLists ==
  ASSUME NEW a, NEW x, Lists(a, x), NEW s, s.path = x.path, s.session = x.session, s.listed = x.listed
  PROVE  Lists(a, s)
BY PageDependsOn DEF Lists

LEMMA SettledFits ==
  ASSUME NEW a, NEW t \in Tab, TabFits(a, tab[t]), NEW r \in tab[t].wait
  PROVE  /\ TabFits(a, Settled(t, r))
         /\ Settled(t, r).path = tab[t].path
         /\ Settled(t, r).query = tab[t].query
         /\ Settled(t, r).session = tab[t].session
         /\ Settled(t, r).listed = tab[t].listed
         /\ Settled(t, r).wait = tab[t].wait \ {r}
<1> DEFINE s == Settled(t, r)
<1>1. tab[t] \in TabState /\ tab[t].path # "github"
  BY DEF TabFits
<1>2. /\ s \in TabState
      /\ s.path = tab[t].path /\ s.query = tab[t].query /\ s.session = tab[t].session
      /\ s.listed = tab[t].listed /\ s.wait = tab[t].wait \ {r}
  BY <1>1 DEF Settled, TabState
<1>3. \A q \in s.wait : PostOk(a, tab[t], q)
  BY <1>2 DEF TabFits
<1> HIDE DEF s
<1>4. TabFits(a, s)
  BY <1>1, <1>2, <1>3, SamePlaceFits
<1> QED
  BY <1>2, <1>4 DEF s

(* The flags of a tab say nothing of its place, its session or its requests. *)
Flagged(a, x, s) ==
  TabFits(a, s) /\ s.path = x.path /\ s.session = x.session

LEMMA FlagsFit ==
  ASSUME NEW a, NEW x, TabFits(a, x), x.path # "github", NEW s \in TabState,
         s.path = x.path, s.query = x.query, s.session = x.session, s.wait = x.wait
  PROVE  Flagged(a, x, s)
<1>1. \A r \in x.wait : PostOk(a, x, r)
  BY DEF TabFits
<1> QED
  BY <1>1, SamePlaceFits DEF Flagged

LEMMA ErrorFits ==
  ASSUME NEW a, NEW x, TabFits(a, x), x.path # "github"
  PROVE  Flagged(a, x, [x EXCEPT !.error = TRUE]) /\ [x EXCEPT !.error = TRUE].listed = x.listed
<1> DEFINE s == [x EXCEPT !.error = TRUE]
<1>1. /\ s \in TabState /\ s.path = x.path /\ s.query = x.query /\ s.session = x.session
      /\ s.wait = x.wait /\ s.listed = x.listed
  BY DEF TabFits, TabState
<1> HIDE DEF s
<1>2. Flagged(a, x, s) /\ s.listed = x.listed
  BY <1>1, FlagsFit
<1> QED
  BY <1>2 DEF s

LEMMA LoadedFits ==
  ASSUME NEW a, NEW x, TabFits(a, x), x.path # "github"
  PROVE  Flagged(a, x, [x EXCEPT !.loading = FALSE]) /\ [x EXCEPT !.loading = FALSE].listed = x.listed
<1> DEFINE s == [x EXCEPT !.loading = FALSE]
<1>1. /\ s \in TabState /\ s.path = x.path /\ s.query = x.query /\ s.session = x.session
      /\ s.wait = x.wait /\ s.listed = x.listed
  BY DEF TabFits, TabState
<1> HIDE DEF s
<1>2. Flagged(a, x, s) /\ s.listed = x.listed
  BY <1>1, FlagsFit
<1> QED
  BY <1>2 DEF s

LEMMA FailedFits ==
  ASSUME NEW a, NEW x, TabFits(a, x), x.path # "github"
  PROVE  Flagged(a, x, [x EXCEPT !.error = TRUE, !.loading = FALSE]) /\ [x EXCEPT !.error = TRUE, !.loading = FALSE].listed = x.listed
<1> DEFINE s == [x EXCEPT !.error = TRUE, !.loading = FALSE]
<1>1. /\ s \in TabState /\ s.path = x.path /\ s.query = x.query /\ s.session = x.session
      /\ s.wait = x.wait /\ s.listed = x.listed
  BY DEF TabFits, TabState
<1> HIDE DEF s
<1>2. Flagged(a, x, s) /\ s.listed = x.listed
  BY <1>1, FlagsFit
<1> QED
  BY <1>2 DEF s

LEMMA ListedFits ==
  ASSUME NEW a, NEW x, TabFits(a, x), x.path # "github", NEW listed \in SUBSET Nat
  PROVE  Flagged(a, x, [x EXCEPT !.listed = listed, !.loading = FALSE]) /\ [x EXCEPT !.listed = listed, !.loading = FALSE].listed = listed
<1> DEFINE s == [x EXCEPT !.listed = listed, !.loading = FALSE]
<1>1. /\ s \in TabState /\ s.path = x.path /\ s.query = x.query /\ s.session = x.session
      /\ s.wait = x.wait /\ s.listed = listed
  BY DEF TabFits, TabState
<1> HIDE DEF s
<1>2. Flagged(a, x, s) /\ s.listed = listed
  BY <1>1, FlagsFit
<1> QED
  BY <1>2 DEF s

(* A page shows what the tab holds: the tab stays where it is. *)
LEMMA ShowsStep ==
  ASSUME SignedIn, NEW t \in Tab, NEW s, TabFits(auth, s), s.path # "github",
         Page(s) # Page(tab[t]) => s.path = "/", Page(s) = Page(tab[t]) => Lists(auth, s), Shows(t, s),
         SessionOk(auth, stored'), auth' = auth, config' = config
  PROVE  SignedIn'
<1>1. PICK e : tab' = [tab EXCEPT ![t] = e] /\ TabOk(auth, e)
  BY ShowsFits DEF SignedIn
<1> QED
  BY <1>1, OneTabStep, SameServer DEF SignedIn

LEMMA StartLoginStep ==
  ASSUME SignedIn, NEW t \in Tab, StartLogin(t)
  PROVE  SignedIn'
<1> DEFINE x == tab[t]
           wait == x.wait \cup {Post("start", 0)}
           s == [x EXCEPT !.loading = TRUE, !.error = FALSE, !.wait = wait]
<1>1. TabFits(auth, x) /\ Lists(auth, x)
  BY DEF SignedIn, TabOk
<1>2. x \in TabState
  BY <1>1 DEF TabFits
<1>3. x.path = "/"
  BY <1>2 DEF StartLogin, Page, TabState
<1>4. wait \in SUBSET PostState
  BY <1>2, PostTyped DEF TabState
<1>5. \A r \in wait : PostOk(auth, x, r)
  <2>1. PostOk(auth, x, Post("start", 0))
    BY <1>3 DEF Post, PostOk
  <2> QED
    BY <1>1, <2>1 DEF TabFits
<1>6. Shows(t, s)
  BY DEF StartLogin
<1> HIDE DEF wait
<1>7. s \in TabState /\ s.path = x.path /\ s.query = x.query /\ s.session = x.session /\ s.wait = wait /\ s.listed = x.listed
  BY <1>2, <1>4 DEF TabState
<1> HIDE DEF s, x
<1>8. TabFits(auth, s)
  BY <1>1, <1>3, <1>5, <1>7, SamePlaceFits
<1>9. Lists(auth, s)
  BY <1>1, <1>7, SameLists
<1> QED
  BY <1>3, <1>6, <1>7, <1>8, <1>9, ShowsStep DEF StartLogin, SignedIn

LEMMA RedirectedStep ==
  ASSUME SignedIn, NEW t \in Tab, NEW r \in tab[t].wait, Redirected(t, r)
  PROVE  SignedIn'
<1> DEFINE e == [path |-> "github", query |-> r.ans, session |-> NoSession,
                 wait |-> {}, loading |-> FALSE, error |-> FALSE, listed |-> {}]
<1>1. PostOk(auth, tab[t], r)
  BY DEF SignedIn, TabOk, TabFits
<1>2. r.ans \in DOMAIN auth.states
  BY <1>1 DEF PostOk, Redirected, Arrived
<1>3. r.ans \in Nat \ {0}
  BY <1>2 DEF SignedIn, AuthOk, AuthState
<1>4. SessionOk(auth, NoSession)
  BY DEF SessionOk, NoSession, SessionState
<1>5. e \in TabState
  BY <1>3, <1>4 DEF TabState, SessionOk
<1>6. TabFits(auth, e)
  BY <1>2, <1>3, <1>4, <1>5 DEF TabFits
<1>7. Lists(auth, e)
  BY DEF Lists
<1>8. tab' = [tab EXCEPT ![t] = e]
  BY DEF Redirected
<1> HIDE DEF e
<1> QED
  BY <1>6, <1>7, <1>8, OneTabStep, SameServer DEF Redirected, SignedIn, TabOk

LEMMA LoginNotStartedStep ==
  ASSUME SignedIn, NEW t \in Tab, NEW r \in tab[t].wait, LoginNotStarted(t, r)
  PROVE  SignedIn'
<1> DEFINE s == Settled(t, r)
           e == IF Page(tab[t]) = "login" THEN [s EXCEPT !.error = TRUE, !.loading = FALSE] ELSE s
<1>1. TabFits(auth, tab[t]) /\ Lists(auth, tab[t])
  BY DEF SignedIn, TabOk
<1>2. /\ TabFits(auth, s)
      /\ s.path = tab[t].path /\ s.session = tab[t].session /\ s.listed = tab[t].listed
      /\ s.path # "github"
  BY <1>1, SettledFits DEF TabFits
<1>3. tab' = [tab EXCEPT ![t] = e]
  BY DEF LoginNotStarted, SignedIn
<1> HIDE DEF s
<1>4. TabFits(auth, e) /\ e.path = tab[t].path /\ e.session = tab[t].session /\ e.listed = tab[t].listed
  <2>1. Flagged(auth, s, [s EXCEPT !.error = TRUE, !.loading = FALSE])
        /\ [s EXCEPT !.error = TRUE, !.loading = FALSE].listed = s.listed
    BY <1>2, FailedFits
  <2> QED
    BY <1>2, <2>1 DEF Flagged
<1> HIDE DEF e
<1>5. Lists(auth, e)
  BY <1>1, <1>4, SameLists
<1> QED
  BY <1>3, <1>4, <1>5, OneTabStep, SameServer DEF LoginNotStarted, SignedIn, TabOk

(* GitHub lets another user in: the user of the state changes.               *)
LEMMA ApproveStep ==
  ASSUME SignedIn, NEW t \in Tab, NEW user \in User, Approve(t, user)
  PROVE  SignedIn'
<1> DEFINE n == tab[t].query
           State == [open : BOOLEAN, user : User]
           new == [auth.states[n] EXCEPT !.user = user]
           states == [auth.states EXCEPT ![n] = new]
           a == [auth EXCEPT !.states = states]
<1>1. n \in DOMAIN auth.states /\ n \in Nat
  BY DEF SignedIn, TabOk, TabFits, TabState, Approve
<1>2. AuthOk(auth) /\ auth \in AuthState
  BY DEF SignedIn, AuthOk
<1>3. a \in AuthState
  <2>1. auth.states \in Seq(State)
    BY <1>2 DEF AuthState
  <2>2. new \in State
    <3>1. auth.states[n] \in State
      <4> HIDE DEF State
      <4> QED
        BY <1>1, <2>1
    <3> QED
      BY <3>1
  <2> HIDE DEF new, State
  <2>3. states \in Seq(State)
    BY <1>1, <2>1, <2>2
  <2> HIDE DEF states
  <2> QED
    BY <1>2, <2>3 DEF AuthState, State
<1>4. /\ a.sessions = auth.sessions /\ a.orgs = auth.orgs /\ DOMAIN a.states = DOMAIN auth.states
      /\ \A m \in DOMAIN auth.states : a.states[m].open = auth.states[m].open
  BY <1>1, <1>2 DEF AuthState
<1>5. auth' = a
  BY DEF Approve
<1> HIDE DEF a
<1>6. AuthOk(a) /\ Grows(auth, a)
  BY <1>2, <1>3, <1>4 DEF AuthOk, Grows
<1>7. LoadPage(t, "callback", n)
  BY DEF Approve
<1>8. SessionOk(a, stored') /\ \E e : tab' = [tab EXCEPT ![t] = e] /\ TabOk(a, e)
  BY <1>1, <1>2, <1>4, <1>6, <1>7, LoadFits DEF SignedIn
<1>9. PICK e : tab' = [tab EXCEPT ![t] = e] /\ TabOk(a, e)
  BY <1>8
<1>10. Grows(auth, auth') /\ AuthOk(auth') /\ TabOk(auth', e) /\ SessionOk(auth', stored')
  BY <1>5, <1>6, <1>8, <1>9
<1> QED
  BY <1>9, <1>10, OneTabStep DEF Approve

LEMMA LoadStep ==
  ASSUME SignedIn, NEW t \in Tab, NEW path \in {"/", "callback"}, NEW query \in Nat,
         path = "callback" /\ query # 0 => query \in DOMAIN auth.states,
         LoadPage(t, path, query), auth' = auth, config' = config
  PROVE  SignedIn'
<1>1. AuthOk(auth) /\ SessionOk(auth, stored)
  BY DEF SignedIn
<1>2. SessionOk(auth, stored') /\ \E e : tab' = [tab EXCEPT ![t] = e] /\ TabOk(auth, e)
  BY <1>1, SameServer, LoadFits
<1> QED
  BY <1>1, <1>2, SameServer, OneTabStep

LEMMA DenyStep ==
  ASSUME SignedIn, NEW t \in Tab, Deny(t)
  PROVE  SignedIn'
BY LoadStep DEF Deny

LEMMA TryAgainStep ==
  ASSUME SignedIn, NEW t \in Tab, TryAgain(t)
  PROVE  SignedIn'
BY LoadStep DEF TryAgain

LEMMA ReloadStep ==
  ASSUME SignedIn, NEW t \in Tab, Reload(t)
  PROVE  SignedIn'
<1>1. tab[t].path \in {"/", "callback"} /\ tab[t].query \in Nat
  BY DEF SignedIn, TabOk, TabFits, TabState, Reload
<1>2. tab[t].path = "callback" /\ tab[t].query # 0 => tab[t].query \in DOMAIN auth.states
  BY DEF SignedIn, TabOk, TabFits
<1> QED
  BY <1>1, <1>2, LoadStep DEF Reload

LEMMA LoggedInStep ==
  ASSUME SignedIn, NEW t \in Tab, NEW r \in tab[t].wait, LoggedIn(t, r)
  PROVE  SignedIn'
<1> DEFINE s == Settled(t, r)
           session == [NoSession EXCEPT !.token = r.ans]
           e == [s EXCEPT !.session = session, !.path = "/"]
<1>1. TabFits(auth, tab[t]) /\ PostOk(auth, tab[t], r)
  BY DEF SignedIn, TabOk, TabFits
<1>2. tab[t].path = "callback" /\ r.ans \in DOMAIN auth.sessions
  BY <1>1 DEF PostOk, LoggedIn, Arrived
<1>3. TabFits(auth, s) /\ s.wait = {}
  <2>1. tab[t].wait = {r}
    BY <1>1, <1>2 DEF TabFits
  <2>2. TabFits(auth, s) /\ s.wait = tab[t].wait \ {r}
    BY <1>1, SettledFits
  <2> QED
    BY <2>1, <2>2
<1>4. Shows(t, e) /\ stored' = session
  BY DEF LoggedIn
<1>5. r.ans \in Nat
  BY <1>2 DEF SignedIn, AuthOk, AuthState
<1>6. SessionOk(auth, session)
  BY <1>2, <1>5 DEF SessionOk, SessionState, NoSession
<1> HIDE DEF s, session
<1>7. session \in SessionState
  BY <1>6 DEF SessionOk
<1>8. e \in TabState /\ e.path = "/" /\ e.session = session /\ e.wait = {}
  BY <1>3, <1>7 DEF TabFits, TabState
<1> HIDE DEF e
<1>9. TabFits(auth, e)
  BY <1>6, <1>8 DEF TabFits
<1>10. Page(e) # Page(tab[t])
  BY <1>2, <1>8 DEF Page
<1> QED
  BY <1>4, <1>6, <1>8, <1>9, <1>10, ShowsStep DEF LoggedIn

LEMMA LoginFailedStep ==
  ASSUME SignedIn, NEW t \in Tab, NEW r \in tab[t].wait, LoginFailed(t, r)
  PROVE  SignedIn'
<1> DEFINE s == Settled(t, r)
           e == [s EXCEPT !.error = TRUE]
<1>1. TabFits(auth, tab[t]) /\ Lists(auth, tab[t])
  BY DEF SignedIn, TabOk
<1>2. /\ TabFits(auth, s)
      /\ s.path = tab[t].path /\ s.session = tab[t].session /\ s.listed = tab[t].listed
      /\ s.path # "github"
  BY <1>1, SettledFits DEF TabFits
<1>3. Shows(t, e)
  BY DEF LoginFailed
<1> HIDE DEF s
<1>4. TabFits(auth, e) /\ e.path = tab[t].path /\ e.session = tab[t].session /\ e.listed = tab[t].listed
  <2>1. Flagged(auth, s, e) /\ e.listed = s.listed
    BY <1>2, ErrorFits
  <2> HIDE DEF e
  <2> QED
    BY <1>2, <2>1 DEF Flagged
<1> HIDE DEF e
<1>5. Lists(auth, e) /\ Page(e) = Page(tab[t])
  BY <1>1, <1>4, SameLists, PageDependsOn
<1> QED
  BY <1>2, <1>3, <1>4, <1>5, ShowsStep DEF LoginFailed, SignedIn

(* A session enters an organization of its user. *)
LEMMA EnteredStep ==
  ASSUME SignedIn, NEW t \in Tab, tab[t].path = "/", NEW s, TabFits(auth, s), s.path = "/",
         s.session = tab[t].session, NEW o, s.session # NoSession => Member(auth, s.session.token, o),
         Entered(t, s, o), auth' = auth, config' = config
  PROVE  SignedIn'
<1>1. CASE s.session = NoSession
  <2>1. Lists(auth, s)
    BY <1>1 DEF Lists, Page
  <2>2. Shows(t, s) /\ stored' = stored
    BY <1>1 DEF Entered
  <2> QED
    BY <2>1, <2>2, ShowsStep DEF SignedIn
<1>2. CASE s.session # NoSession
  <2> DEFINE session == [s.session EXCEPT !.org = o]
             e == [s EXCEPT !.session = session]
  <2>1. Shows(t, e) /\ stored' = session
    BY <1>2 DEF Entered
  <2>2. s \in TabState /\ s.session \in SessionState
    BY DEF TabFits, TabState
  <2>3. o \in Nat \ {0} /\ Member(auth, s.session.token, o)
    BY <1>2 DEF Member, SignedIn, AuthOk, AuthState
  <2>4. session \in SessionState /\ session.token = s.session.token /\ session.org = o
    BY <2>2, <2>3 DEF SessionState
  <2> HIDE DEF session
  <2>5. SessionOk(auth, session)
    BY <2>3, <2>4 DEF SessionOk, Member
  <2>6. e \in TabState /\ e.path = "/" /\ e.session = session /\ e.wait = s.wait
    BY <2>2, <2>4 DEF TabFits, TabState
  <2> HIDE DEF e
  <2>7. ASSUME NEW r \in s.wait PROVE PostOk(auth, e, r)
    <3>1. PostOk(auth, s, r)
      BY <2>7 DEF TabFits
    <3> QED
      BY <1>2, <2>4, <2>6, <3>1 DEF PostOk
  <2>8. TabFits(auth, e)
    BY <2>5, <2>6, <2>7 DEF TabFits
  <2>9. Lists(auth, e)
    BY <2>3, <2>4, <2>6 DEF Lists, Page
  <2> QED
    BY <2>1, <2>5, <2>6, <2>8, <2>9, ShowsStep
<1> QED
  BY <1>1, <1>2

(* A tab on the page where an organization is chosen. *)
LEMMA OnOrganizationPage ==
  ASSUME NEW s \in TabState, Page(s) = "organization"
  PROVE  s.path = "/" /\ s.session # NoSession /\ s.session.org = 0
BY DEF Page, TabState

LEMMA ChooseOrganizationStep ==
  ASSUME SignedIn, NEW t \in Tab, NEW o \in tab[t].listed, ChooseOrganization(t, o)
  PROVE  SignedIn'
<1>1. TabFits(auth, tab[t]) /\ Lists(auth, tab[t]) /\ tab[t] \in TabState
  BY DEF SignedIn, TabOk, TabFits
<1>2. tab[t].path = "/"
  BY <1>1, OnOrganizationPage DEF ChooseOrganization
<1>3. Member(auth, tab[t].session.token, o)
  BY <1>1 DEF Lists, ChooseOrganization
<1> QED
  BY <1>1, <1>2, <1>3, EnteredStep DEF ChooseOrganization

LEMMA CreateOrganizationStep ==
  ASSUME SignedIn, NEW t \in Tab, CreateOrganization(t)
  PROVE  SignedIn'
<1> DEFINE x == tab[t]
           wait == x.wait \cup {Post("create", x.session.token)}
           s == [x EXCEPT !.loading = TRUE, !.wait = wait]
<1>1. TabFits(auth, x) /\ Lists(auth, x) /\ SessionOk(auth, x.session)
  BY DEF SignedIn, TabOk, TabFits
<1>2. x \in TabState
  BY <1>1 DEF TabFits
<1>3. x.path = "/" /\ x.session # NoSession
  BY <1>2, OnOrganizationPage DEF CreateOrganization
<1>4. x.session.token \in DOMAIN auth.sessions
  BY <1>1, <1>3, TokenKnown DEF SignedIn
<1>5. wait \in SUBSET PostState
  BY <1>2, PostTyped DEF TabState, SessionState
<1>6. \A r \in wait : PostOk(auth, x, r)
  <2>1. PostOk(auth, x, Post("create", x.session.token))
    BY <1>3, <1>4 DEF Post, PostOk
  <2> QED
    BY <1>1, <2>1 DEF TabFits
<1>7. Shows(t, s)
  BY DEF CreateOrganization
<1> HIDE DEF wait
<1>8. /\ s \in TabState /\ s.path = x.path /\ s.query = x.query /\ s.session = x.session
      /\ s.wait = wait /\ s.listed = x.listed
  BY <1>2, <1>5 DEF TabState
<1> HIDE DEF s, x
<1>9. TabFits(auth, s)
  BY <1>1, <1>3, <1>6, <1>8, SamePlaceFits
<1>10. Lists(auth, s)
  BY <1>1, <1>8, SameLists
<1> QED
  BY <1>3, <1>7, <1>8, <1>9, <1>10, ShowsStep DEF CreateOrganization, SignedIn

LEMMA OrganizationsListedStep ==
  ASSUME SignedIn, NEW t \in Tab, NEW r \in tab[t].wait, OrganizationsListed(t, r)
  PROVE  SignedIn'
<1> DEFINE s == Settled(t, r)
           shown == [s EXCEPT !.listed = r.ans, !.loading = FALSE]
           e == OnPage(t, r, shown)
<1>1. TabFits(auth, tab[t]) /\ Lists(auth, tab[t]) /\ PostOk(auth, tab[t], r) /\ r \in PostState
  BY DEF SignedIn, TabOk, TabFits, TabState
<1>2. /\ TabFits(auth, s)
      /\ s.path = tab[t].path /\ s.session = tab[t].session /\ s.listed = tab[t].listed
      /\ s.path # "github"
  BY <1>1, SettledFits DEF TabFits
<1>3. \A o \in r.ans : Member(auth, r.arg, o)
  BY <1>1 DEF PostOk, OrganizationsListed, Arrived
<1>4. r.ans \in SUBSET Nat
  BY <1>3 DEF Member, SignedIn, AuthOk, AuthState
<1>5. Shows(t, e)
  BY DEF OrganizationsListed
<1>6. e = IF Page(tab[t]) = "organization" /\ tab[t].session.token = r.arg THEN shown ELSE s
  BY DEF OnPage
<1> HIDE DEF e, s
<1>7. TabFits(auth, shown) /\ shown.path = s.path /\ shown.session = s.session /\ shown.listed = r.ans
  <2>1. Flagged(auth, s, shown) /\ shown.listed = r.ans
    <3> DEFINE answer == r.ans
    <3>1. TabFits(auth, s) /\ s.path # "github" /\ answer \in SUBSET Nat
      BY <1>2, <1>4
    <3> HIDE DEF answer
    <3>2. LET new == [s EXCEPT !.listed = answer, !.loading = FALSE]
          IN Flagged(auth, s, new) /\ new.listed = answer
      BY <3>1, ListedFits
    <3> QED
      BY <3>2 DEF answer
  <2> HIDE DEF shown
  <2> QED
    BY <2>1 DEF Flagged
<1> HIDE DEF shown
<1>8. TabFits(auth, e) /\ e.path = tab[t].path /\ e.session = tab[t].session
  BY <1>2, <1>6, <1>7
<1>9. Page(e) = Page(tab[t])
  BY <1>8, PageDependsOn
<1>10. Lists(auth, e)
  <2>1. CASE e = shown /\ tab[t].session.token = r.arg
    BY <1>2, <1>3, <1>7, <2>1 DEF Lists
  <2>2. CASE e = s
    BY <1>1, <1>2, <2>2, SameLists
  <2> QED
    BY <1>6, <2>1, <2>2
<1> QED
  BY <1>2, <1>5, <1>8, <1>9, <1>10, ShowsStep DEF OrganizationsListed, SignedIn

LEMMA OrganizationCreatedStep ==
  ASSUME SignedIn, NEW t \in Tab, NEW r \in tab[t].wait, OrganizationCreated(t, r)
  PROVE  SignedIn'
<1> DEFINE s == Settled(t, r)
           shown == [s EXCEPT !.loading = FALSE]
           e == OnPage(t, r, shown)
<1>1. TabFits(auth, tab[t]) /\ PostOk(auth, tab[t], r)
  BY DEF SignedIn, TabOk, TabFits
<1>2. TabFits(auth, s) /\ s.path = tab[t].path /\ s.session = tab[t].session /\ s.path # "github"
  BY <1>1, SettledFits DEF TabFits
<1>3. /\ Member(auth, r.arg, r.ans) /\ tab[t].path = "/"
      /\ tab[t].session = NoSession \/ tab[t].session.token = r.arg
  BY <1>1 DEF PostOk, OrganizationCreated, Arrived
<1>4. Entered(t, e, r.ans)
  BY DEF OrganizationCreated
<1>5. e = shown \/ e = s
  BY DEF OnPage
<1> HIDE DEF e, s
<1>6. TabFits(auth, shown) /\ shown.path = s.path /\ shown.session = s.session
  BY <1>2, LoadedFits DEF Flagged
<1> HIDE DEF shown
<1>7. TabFits(auth, e) /\ e.path = "/" /\ e.session = tab[t].session
  BY <1>2, <1>3, <1>5, <1>6
<1> QED
  BY <1>3, <1>4, <1>7, EnteredStep DEF OrganizationCreated

LEMMA OrganizationFailedStep ==
  ASSUME SignedIn, NEW t \in Tab, NEW r \in tab[t].wait, OrganizationFailed(t, r)
  PROVE  SignedIn'
<1> DEFINE s == Settled(t, r)
           shown == [s EXCEPT !.error = TRUE, !.loading = FALSE]
           e == OnPage(t, r, shown)
<1>1. TabFits(auth, tab[t]) /\ Lists(auth, tab[t])
  BY DEF SignedIn, TabOk
<1>2. /\ TabFits(auth, s)
      /\ s.path = tab[t].path /\ s.session = tab[t].session /\ s.listed = tab[t].listed
      /\ s.path # "github"
  BY <1>1, SettledFits DEF TabFits
<1>3. Shows(t, e)
  BY DEF OrganizationFailed
<1>4. e = shown \/ e = s
  BY DEF OnPage
<1> HIDE DEF e, s
<1>5. TabFits(auth, shown) /\ shown.path = s.path /\ shown.session = s.session /\ shown.listed = s.listed
  BY <1>2, FailedFits DEF Flagged
<1> HIDE DEF shown
<1>6. TabFits(auth, e) /\ e.path = tab[t].path /\ e.session = tab[t].session /\ e.listed = tab[t].listed
  BY <1>2, <1>4, <1>5
<1>7. Lists(auth, e) /\ Page(e) = Page(tab[t])
  BY <1>1, <1>6, SameLists, PageDependsOn
<1> QED
  BY <1>2, <1>3, <1>6, <1>7, ShowsStep DEF OrganizationFailed, SignedIn

(* Signing out. *)
LEMMA LogoutStep ==
  ASSUME SignedIn, NEW t \in Tab, Logout(t)
  PROVE  SignedIn'
<1> DEFINE x == tab[t]
           e == [x EXCEPT !.session = NoSession]
<1>1. TabFits(auth, x) /\ x \in TabState
  BY DEF SignedIn, TabOk, TabFits
<1>2. x.path = "/"
  BY <1>1 DEF Logout, Page, TabState
<1>3. SessionOk(auth, NoSession) /\ NoSession \in SessionState
  BY DEF SessionOk, NoSession, SessionState
<1>4. e \in TabState /\ e.path = "/" /\ e.session = NoSession /\ e.wait = x.wait
  BY <1>1, <1>2, <1>3 DEF TabState
<1>5. Shows(t, e) /\ stored' = NoSession
  BY DEF Logout
<1> HIDE DEF e
<1>6. \A r \in x.wait : PostOk(auth, e, r)
  BY <1>1, <1>2, <1>4 DEF PostOk, TabFits
<1>7. TabFits(auth, e)
  BY <1>3, <1>4, <1>6 DEF TabFits
<1>8. Lists(auth, e)
  BY <1>4 DEF Lists, Page
<1> QED
  BY <1>3, <1>4, <1>5, <1>7, <1>8, ShowsStep DEF Logout

-----------------------------------------------------------------------------
(* The steps of the server.                                                    *)

LEMMA RepliedFits ==
  ASSUME NEW a, AuthOk(a), NEW t \in Tab, DOMAIN tab = Tab, TabOk(a, tab[t]), NEW r \in tab[t].wait,
         NEW how \in {"ok", "failed"}, NEW ans \in Nat \cup SUBSET Nat,
         how = "ok" /\ r.op = "start" => ans \in DOMAIN a.states,
         how = "ok" /\ r.op = "complete" => ans \in DOMAIN a.sessions,
         how = "ok" /\ r.op = "list" => \A o \in ans : Member(a, r.arg, o),
         how = "ok" /\ r.op = "create" => Member(a, r.arg, ans),
         Replied(t, r, how, ans)
  PROVE  \E e : tab' = [tab EXCEPT ![t] = e] /\ TabOk(a, e)
<1> DEFINE x == tab[t]
           q == [r EXCEPT !.at = how, !.ans = ans]
           wait == (x.wait \ {r}) \cup {q}
           e == [x EXCEPT !.wait = wait]
<1>1. TabFits(a, x) /\ Lists(a, x) /\ x \in TabState /\ r \in PostState
  BY DEF TabOk, TabFits, TabState
<1>2. q \in PostState /\ q.op = r.op /\ q.arg = r.arg /\ q.at = how /\ q.ans = ans
  BY <1>1 DEF PostState
<1>3. tab' = [tab EXCEPT ![t] = e]
  BY DEF Replied
<1> HIDE DEF q
<1>4. wait \in SUBSET PostState
  BY <1>1, <1>2 DEF TabState
<1>5. PostOk(a, x, q)
  <2>1. PostOk(a, x, r)
    BY <1>1 DEF TabFits
  <2>2. how = "ok" \/ how = "failed"
    OBVIOUS
  <2> QED
    BY <1>2, <2>1, <2>2 DEF PostOk
<1>6. \A p \in wait : PostOk(a, x, p)
  BY <1>1, <1>5 DEF TabFits
<1>7. x.path = "callback" => \A p, o \in wait : p = o
  BY <1>1 DEF TabFits
<1> HIDE DEF wait
<1>8. /\ e \in TabState /\ e.path = x.path /\ e.query = x.query /\ e.session = x.session
      /\ e.wait = wait /\ e.listed = x.listed
  BY <1>1, <1>4 DEF TabState
<1> HIDE DEF e
<1>9. \A p \in wait : PostOk(a, e, p)
  BY <1>6, <1>8 DEF PostOk
<1>10. TabFits(a, e)
  BY <1>1, <1>7, <1>8, <1>9 DEF TabFits
<1>11. Lists(a, e)
  BY <1>1, <1>8, SameLists
<1> QED
  BY <1>3, <1>10, <1>11 DEF TabOk

(* The server answers a request, and its state grows. *)
LEMMA AnswerStep ==
  ASSUME SignedIn, NEW t \in Tab, NEW r \in tab[t].wait,
         Grows(auth, auth'), AuthOk(auth'),
         NEW how \in {"ok", "failed"}, NEW ans \in Nat \cup SUBSET Nat,
         how = "ok" /\ r.op = "start" => ans \in DOMAIN auth'.states,
         how = "ok" /\ r.op = "complete" => ans \in DOMAIN auth'.sessions,
         how = "ok" /\ r.op = "list" => \A o \in ans : Member(auth', r.arg, o),
         how = "ok" /\ r.op = "create" => Member(auth', r.arg, ans),
         Replied(t, r, how, ans), stored' = stored, config' = config
  PROVE  SignedIn'
<1>1. TabOk(auth', tab[t]) /\ SessionOk(auth', stored')
  BY TabGrows, SessionGrows DEF SignedIn
<1>2. DOMAIN tab = Tab
  BY DEF SignedIn
<1>3. PICK e : tab' = [tab EXCEPT ![t] = e] /\ TabOk(auth', e)
  BY <1>1, <1>2, RepliedFits
<1> QED
  BY <1>1, <1>3, OneTabStep

LEMMA AnUser == (CHOOSE u \in User : TRUE) \in User
OBVIOUS

LEMMA ServeStartStep ==
  ASSUME SignedIn, NEW t \in Tab, NEW r \in tab[t].wait, ServeStart(t, r)
  PROVE  SignedIn'
<1> DEFINE State == [open : BOOLEAN, user : User]
           u == CHOOSE v \in User : TRUE
           new == [open |-> TRUE, user |-> u]
           states == Append(auth.states, new)
           a == [auth EXCEPT !.states = states]
<1>1. AuthOk(auth) /\ auth \in AuthState /\ auth.states \in Seq(State)
  BY DEF SignedIn, AuthOk, AuthState
<1>2. auth' = a
  BY DEF ServeStart
<1>3. new \in State
  <2>1. u \in User
    BY AnUser
  <2> HIDE DEF u
  <2> QED
    BY <2>1
<1> HIDE DEF new, State
<1>4. /\ states \in Seq(State)
      /\ DOMAIN auth.states \subseteq DOMAIN states
      /\ Len(auth.states) + 1 \in DOMAIN states
      /\ \A m \in DOMAIN auth.states : states[m] = auth.states[m]
  BY <1>1, <1>3
<1> HIDE DEF states
<1>5. a \in AuthState /\ a.states = states /\ a.sessions = auth.sessions /\ a.orgs = auth.orgs
  BY <1>1, <1>4 DEF AuthState, State
<1> HIDE DEF a
<1>6. AuthOk(a) /\ Grows(auth, a)
  BY <1>1, <1>4, <1>5 DEF AuthOk, Grows
<1>7. Len(auth.states) + 1 \in Nat
  BY <1>1
<1>8. Replied(t, r, "ok", Len(auth.states) + 1) /\ r.op = "start"
  BY DEF ServeStart
<1> QED
  BY <1>2, <1>4, <1>5, <1>6, <1>7, <1>8, AnswerStep DEF ServeStart

(* A state is closed for good: no session was made of one that is open.      *)
Closed(n) == [auth.states EXCEPT ![n].open = FALSE]

LEMMA ClosedTyped ==
  ASSUME SignedIn, NEW n \in DOMAIN auth.states
  PROVE  /\ Closed(n) \in Seq([open : BOOLEAN, user : User])
         /\ DOMAIN Closed(n) = DOMAIN auth.states
         /\ ~Closed(n)[n].open
         /\ \A m \in DOMAIN auth.states : ~auth.states[m].open => ~Closed(n)[m].open
<1> DEFINE State == [open : BOOLEAN, user : User]
           new == [auth.states[n] EXCEPT !.open = FALSE]
<1>1. auth.states \in Seq(State)
  BY DEF SignedIn, AuthOk, AuthState
<1>2. auth.states[n] \in State
  <2> HIDE DEF State
  <2> QED
    BY <1>1
<1>3. new \in State /\ new.open = FALSE
  BY <1>2
<1>4. Closed(n) = [auth.states EXCEPT ![n] = new]
  BY DEF Closed
<1> HIDE DEF new, State
<1>5. Closed(n) \in Seq(State) /\ DOMAIN Closed(n) = DOMAIN auth.states
  BY <1>1, <1>3, <1>4
<1>6. Closed(n)[n] = new /\ \A m \in DOMAIN auth.states \ {n} : Closed(n)[m] = auth.states[m]
  BY <1>4
<1>7. ~Closed(n)[n].open
  BY <1>3, <1>6
<1>8. \A m \in DOMAIN auth.states : ~auth.states[m].open => ~Closed(n)[m].open
  BY <1>6, <1>7
<1> QED
  BY <1>5, <1>7, <1>8 DEF State

LEMMA ClosedOk ==
  ASSUME SignedIn, NEW n \in DOMAIN auth.states
  PROVE  LET a == [auth EXCEPT !.states = Closed(n)] IN AuthOk(a) /\ Grows(auth, a)
<1> DEFINE a == [auth EXCEPT !.states = Closed(n)]
<1>1. AuthOk(auth) /\ auth \in AuthState
  BY DEF SignedIn, AuthOk
<1>2. a \in AuthState /\ a.states = Closed(n) /\ a.sessions = auth.sessions /\ a.orgs = auth.orgs
  BY <1>1, ClosedTyped DEF AuthState
<1> HIDE DEF a
<1>3. AuthOk(a) /\ Grows(auth, a)
  BY <1>1, <1>2, ClosedTyped DEF AuthOk, Grows
<1> QED
  BY <1>3 DEF a

LEMMA CompletedOk ==
  ASSUME SignedIn, NEW n \in DOMAIN auth.states, auth.states[n].open
  PROVE  LET new == [of |-> n, user |-> auth.states[n].user, expired |-> FALSE]
             a == [auth EXCEPT !.states = Closed(n), !.sessions = Append(auth.sessions, new)]
         IN  AuthOk(a) /\ Grows(auth, a) /\ Len(auth.sessions) + 1 \in DOMAIN a.sessions
<1> DEFINE Session == [of : Nat, user : User, expired : BOOLEAN]
           State == [open : BOOLEAN, user : User]
           new == [of |-> n, user |-> auth.states[n].user, expired |-> FALSE]
           sessions == Append(auth.sessions, new)
           last == Len(auth.sessions) + 1
           a == [auth EXCEPT !.states = Closed(n), !.sessions = sessions]
<1>1. AuthOk(auth) /\ auth \in AuthState
  BY DEF SignedIn, AuthOk
<1>2. auth.sessions \in Seq(Session) /\ auth.states \in Seq(State)
  BY <1>1 DEF AuthState
<1>3. n \in Nat /\ auth.states[n] \in State
  <2> HIDE DEF State
  <2> QED
    BY <1>2
<1>4. new \in Session /\ new.of = n
  BY <1>3
<1> HIDE DEF new, Session
<1>5. /\ sessions \in Seq(Session)
      /\ DOMAIN sessions = DOMAIN auth.sessions \cup {last}
      /\ sessions[last] = new
      /\ \A m \in DOMAIN auth.sessions : sessions[m] = auth.sessions[m]
  BY <1>2, <1>4
<1> HIDE DEF sessions, last
<1>6. a \in AuthState /\ a.states = Closed(n) /\ a.sessions = sessions /\ a.orgs = auth.orgs
  BY <1>1, <1>5, ClosedTyped DEF AuthState, Session
<1> HIDE DEF a
<1>7. \A m \in DOMAIN sessions : sessions[m].of \in DOMAIN Closed(n) /\ ~Closed(n)[sessions[m].of].open
  BY <1>1, <1>4, <1>5, ClosedTyped DEF AuthOk
<1>8. \A m \in DOMAIN auth.sessions : auth.sessions[m].of # n
  BY <1>1 DEF AuthOk
<1>9. \A k, m \in DOMAIN sessions : sessions[k].of = sessions[m].of => k = m
  BY <1>1, <1>4, <1>5, <1>8 DEF AuthOk
<1>10. AuthOk(a)
  BY <1>6, <1>7, <1>9 DEF AuthOk
<1>11. Grows(auth, a)
  BY <1>5, <1>6, ClosedTyped DEF Grows
<1> QED
  BY <1>5, <1>6, <1>10, <1>11 DEF a, sessions, new, last

LEMMA ServeCompleteStep ==
  ASSUME SignedIn, NEW t \in Tab, NEW r \in tab[t].wait, ServeComplete(t, r)
  PROVE  SignedIn'
<1> DEFINE n == r.arg
<1>1. AuthOk(auth) /\ auth \in AuthState
  BY DEF SignedIn, AuthOk
<1>2. r.op = "complete" /\ n \in DOMAIN auth.states
  BY DEF SignedIn, TabOk, TabFits, PostOk, ServeComplete, Arrived
<1>3. CASE auth' = auth /\ Replied(t, r, "failed", 0)
  BY <1>1, <1>3, SameServer, AnswerStep DEF ServeComplete
<1>4. CASE /\ auth.states[n].open
           /\ auth' = [auth EXCEPT !.states[n].open = FALSE,
                                   !.sessions = Append(@, [of |-> n, user |-> auth.states[n].user, expired |-> FALSE])]
           /\ Replied(t, r, "ok", Len(auth.sessions) + 1)
  <2> DEFINE new == [of |-> n, user |-> auth.states[n].user, expired |-> FALSE]
             a == [auth EXCEPT !.states = Closed(n), !.sessions = Append(auth.sessions, new)]
  <2>1. auth' = a
    BY <1>1, <1>4 DEF Closed, AuthState
  <2>2. AuthOk(a) /\ Grows(auth, a) /\ Len(auth.sessions) + 1 \in DOMAIN a.sessions
    BY <1>2, <1>4, CompletedOk
  <2> HIDE DEF a
  <2>3. Len(auth.sessions) + 1 \in Nat
    BY <1>1 DEF AuthState
  <2> QED
    BY <1>2, <1>4, <2>1, <2>2, <2>3, AnswerStep DEF ServeComplete
<1>5. CASE auth' = [auth EXCEPT !.states[n].open = FALSE] /\ Replied(t, r, "failed", 0)
  <2> DEFINE a == [auth EXCEPT !.states = Closed(n)]
  <2>1. auth' = a
    BY <1>1, <1>5 DEF Closed, AuthState
  <2>2. AuthOk(a) /\ Grows(auth, a)
    BY <1>2, ClosedOk
  <2> HIDE DEF a
  <2> QED
    BY <1>5, <2>1, <2>2, AnswerStep DEF ServeComplete
<1> QED
  BY <1>3, <1>4, <1>5 DEF ServeComplete

LEMMA ServeOrganizationsStep ==
  ASSUME SignedIn, NEW t \in Tab, NEW r \in tab[t].wait, ServeOrganizations(t, r)
  PROVE  SignedIn'
<1> DEFINE user == auth.sessions[r.arg].user
           own == {o \in DOMAIN auth.orgs : auth.orgs[o] = user}
<1>1. AuthOk(auth) /\ auth \in AuthState
  BY DEF SignedIn, AuthOk
<1>2. r.arg \in DOMAIN auth.sessions
  BY DEF SignedIn, TabOk, TabFits, PostOk, ServeOrganizations, Arrived
<1>3. CASE auth' = auth /\ Replied(t, r, "failed", 0)
  BY <1>1, <1>3, SameServer, AnswerStep DEF ServeOrganizations
<1>4. CASE r.op = "list" /\ auth' = auth /\ Replied(t, r, "ok", own)
  <2>1. own \in SUBSET Nat /\ \A o \in own : Member(auth, r.arg, o)
    BY <1>1, <1>2 DEF Member, AuthState
  <2> HIDE DEF own
  <2> QED
    BY <1>1, <1>4, <2>1, SameServer, AnswerStep DEF ServeOrganizations
<1>5. CASE /\ r.op = "create"
           /\ auth' = [auth EXCEPT !.orgs = Append(@, user)]
           /\ Replied(t, r, "ok", Len(auth.orgs) + 1)
  <2> DEFINE Session == [of : Nat, user : User, expired : BOOLEAN]
             orgs == Append(auth.orgs, user)
             last == Len(auth.orgs) + 1
             a == [auth EXCEPT !.orgs = orgs]
  <2>1. auth' = a
    BY <1>5
  <2>2. auth.sessions \in Seq(Session) /\ auth.orgs \in Seq(User)
    BY <1>1 DEF AuthState
  <2>3. user \in User
    <3>1. auth.sessions[r.arg] \in Session
      <4> HIDE DEF Session
      <4> QED
        BY <1>2, <2>2
    <3> QED
      BY <3>1
  <2>4. /\ orgs \in Seq(User)
        /\ DOMAIN auth.orgs \subseteq DOMAIN orgs
        /\ last \in DOMAIN orgs
        /\ last \in Nat
        /\ orgs[last] = user
        /\ \A o \in DOMAIN auth.orgs : orgs[o] = auth.orgs[o]
    BY <2>2, <2>3
  <2> HIDE DEF orgs, last
  <2>5. a \in AuthState /\ a.states = auth.states /\ a.sessions = auth.sessions /\ a.orgs = orgs
    BY <1>1, <2>4 DEF AuthState
  <2> HIDE DEF a
  <2>6. AuthOk(a) /\ Grows(auth, a)
    BY <1>1, <2>4, <2>5 DEF AuthOk, Grows
  <2>7. Member(a, r.arg, last)
    BY <1>2, <2>4, <2>5 DEF Member
  <2>8. Replied(t, r, "ok", last)
    BY <1>5 DEF last
  <2> QED
    BY <1>5, <2>1, <2>4, <2>6, <2>7, <2>8, AnswerStep DEF ServeOrganizations
<1>6. r.op = "list" \/ r.op = "create"
  BY DEF ServeOrganizations
<1> QED
  BY <1>3, <1>4, <1>5, <1>6 DEF ServeOrganizations

(* The server's state changes and no tab does. *)
LEMMA ServerStep ==
  ASSUME SignedIn, Grows(auth, auth'), AuthOk(auth'), tab' = tab, stored' = stored, config' = config
  PROVE  SignedIn'
<1>1. ASSUME NEW t \in Tab PROVE TabOk(auth, tab[t])'
  <2>1. TabOk(auth', tab[t])
    BY <1>1, TabGrows DEF SignedIn
  <2> QED
    BY <2>1 DEF TabOk, TabFits, Lists, Page
<1>2. SessionOk(auth', stored')
  BY SessionGrows DEF SignedIn
<1> QED
  BY <1>1, <1>2 DEF SignedIn

LEMMA MishapStep ==
  ASSUME SignedIn, Mishap
  PROVE  SignedIn'
<1>1. AuthOk(auth) /\ auth \in AuthState
  BY DEF SignedIn, AuthOk
<1>2. CASE /\ auth' = [auth EXCEPT !.states = [n \in DOMAIN auth.states |-> [auth.states[n] EXCEPT !.open = FALSE]]]
           /\ tab' = tab
  <2> DEFINE State == [open : BOOLEAN, user : User]
             states == [n \in DOMAIN auth.states |-> [auth.states[n] EXCEPT !.open = FALSE]]
             a == [auth EXCEPT !.states = states]
  <2>1. auth.states \in Seq(State)
    BY <1>1 DEF AuthState
  <2>2. \A n \in DOMAIN auth.states : states[n] \in State /\ ~states[n].open
    <3>1. \A n \in DOMAIN auth.states : auth.states[n] \in State
      <4> HIDE DEF State
      <4> QED
        BY <2>1
    <3> QED
      BY <3>1
  <2>3. DOMAIN auth.states = 1..Len(auth.states) /\ Len(auth.states) \in Nat
    <3> HIDE DEF State
    <3> QED
      BY <2>1
  <2>4. DOMAIN states = DOMAIN auth.states
    OBVIOUS
  <2>5. auth' = a
    BY <1>2
  <2>6. states \in [1..Len(auth.states) -> State]
    <3>1. states = [n \in 1..Len(auth.states) |-> states[n]]
      BY <2>3
    <3> HIDE DEF states, State
    <3> QED
      BY <2>2, <2>3, <3>1
  <2> HIDE DEF states, State
  <2>7. states \in Seq(State)
    BY <2>3, <2>6
  <2>8. a \in AuthState /\ a.states = states /\ a.sessions = auth.sessions /\ a.orgs = auth.orgs
    BY <1>1, <2>7 DEF AuthState, State
  <2> HIDE DEF a
  <2>9. AuthOk(a) /\ Grows(auth, a)
    BY <1>1, <2>2, <2>4, <2>8 DEF AuthOk, Grows
  <2> QED
    BY <1>2, <2>5, <2>9, ServerStep DEF Mishap
<1>3. ASSUME NEW m \in DOMAIN auth.sessions, auth' = [auth EXCEPT !.sessions[m].expired = TRUE], tab' = tab
      PROVE  SignedIn'
  <2> DEFINE Session == [of : Nat, user : User, expired : BOOLEAN]
             new == [auth.sessions[m] EXCEPT !.expired = TRUE]
             sessions == [auth.sessions EXCEPT ![m] = new]
             a == [auth EXCEPT !.sessions = sessions]
  <2>1. auth.sessions \in Seq(Session)
    BY <1>1 DEF AuthState
  <2>2. auth.sessions[m] \in Session
    <3> HIDE DEF Session
    <3> QED
      BY <1>3, <2>1
  <2>3. new \in Session /\ new.of = auth.sessions[m].of /\ new.user = auth.sessions[m].user
    BY <2>2
  <2>4. auth' = a
    BY <1>1, <1>3 DEF AuthState
  <2> HIDE DEF new, Session
  <2>5. sessions \in Seq(Session) /\ DOMAIN sessions = DOMAIN auth.sessions
    BY <1>3, <2>1, <2>3
  <2>6. \A n \in DOMAIN sessions : sessions[n].of = auth.sessions[n].of /\ sessions[n].user = auth.sessions[n].user
    BY <1>3, <2>3
  <2> HIDE DEF sessions
  <2>7. a \in AuthState /\ a.states = auth.states /\ a.sessions = sessions /\ a.orgs = auth.orgs
    BY <1>1, <2>5 DEF AuthState, Session
  <2> HIDE DEF a
  <2>8. AuthOk(a) /\ Grows(auth, a)
    BY <1>1, <2>5, <2>6, <2>7 DEF AuthOk, Grows
  <2> QED
    BY <1>3, <2>4, <2>8, ServerStep DEF Mishap
<1>4. ASSUME NEW t \in Tab, NEW r \in tab[t].wait, Replied(t, r, "failed", 0), auth' = auth
      PROVE  SignedIn'
  BY <1>1, <1>4, SameServer, AnswerStep DEF Mishap
<1> QED
  BY <1>2, <1>3, <1>4 DEF Mishap

-----------------------------------------------------------------------------
(* The composition.                                                            *)

LEMMA SignedInInit == SessionInit => SignedIn
<1> SUFFICES ASSUME SessionInit PROVE SignedIn
  OBVIOUS
<1>1. AuthOk(auth)
  <2>1. auth = [states |-> <<>>, sessions |-> <<>>, orgs |-> <<>>]
    BY DEF SessionInit
  <2>2. auth \in AuthState
    BY <2>1 DEF AuthState
  <2> QED
    BY <2>1, <2>2 DEF AuthOk
<1>2. SessionOk(auth, NoSession)
  BY DEF SessionOk, NoSession, SessionState
<1>3. ASSUME NEW t \in Tab PROVE TabOk(auth, tab[t])
  <2>1. tab[t] = [path |-> "/", query |-> 0, session |-> NoSession,
                  wait |-> {}, loading |-> FALSE, error |-> FALSE, listed |-> {}]
    BY <1>3 DEF SessionInit
  <2>2. tab[t] \in TabState
    BY <1>2, <2>1 DEF TabState, SessionOk
  <2> QED
    BY <1>2, <2>1, <2>2 DEF TabOk, TabFits, Lists
<1> QED
  BY <1>1, <1>2, <1>3 DEF SignedIn, SessionInit

LEMMA SignedInStep == SignedIn /\ [SessionNext]_sessionVars => SignedIn'
<1> SUFFICES ASSUME SignedIn, [SessionNext]_sessionVars PROVE SignedIn'
  OBVIOUS
<1>1. ASSUME NEW t \in Tab, NEW r \in tab[t].wait,
             ServeStart(t, r) \/ ServeComplete(t, r) \/ ServeOrganizations(t, r)
      PROVE  SignedIn'
  BY <1>1, ServeStartStep, ServeCompleteStep, ServeOrganizationsStep
<1>2. ASSUME NEW t \in Tab, NEW r \in tab[t].wait,
             \/ Redirected(t, r) \/ LoginNotStarted(t, r)
             \/ LoggedIn(t, r) \/ LoginFailed(t, r)
             \/ OrganizationsListed(t, r) \/ OrganizationCreated(t, r) \/ OrganizationFailed(t, r)
      PROVE  SignedIn'
  BY <1>2, RedirectedStep, LoginNotStartedStep, LoggedInStep, LoginFailedStep,
     OrganizationsListedStep, OrganizationCreatedStep, OrganizationFailedStep
<1>3. ASSUME NEW t \in Tab, Acts(t) PROVE SignedIn'
  BY <1>3, StartLoginStep, ApproveStep, DenyStep, TryAgainStep, ChooseOrganizationStep,
     CreateOrganizationStep, LogoutStep, ReloadStep DEF Acts
<1>4. CASE UNCHANGED sessionVars
  BY <1>4, SameServer, ServerStep DEF sessionVars, SignedIn
<1> QED
  BY <1>1, <1>2, <1>3, <1>4, MishapStep DEF SessionNext, Handled, Received

(* Every state that can be reached is as SignedIn says: what a page, the     *)
(* storage and the requests under way name is at the server, and is of the   *)
(* user of the session it goes with.                                         *)
THEOREM SigningInIsSound == WebSpec => []SignedIn
<1>1. WebInit => SignedIn
  BY SignedInInit DEF WebInit
<1>2. SignedIn /\ [WebNext]_<<vars, sessionVars>> => SignedIn'
  <2>1. [WebNext]_<<vars, sessionVars>> => [SessionNext]_sessionVars
    BY DEF WebNext, sessionVars
  <2> QED
    BY <2>1, SignedInStep
<1> QED
  BY <1>1, <1>2, PTL DEF WebSpec

(* Whatever tabs, reloads, expiries and users that change: an OAuth state    *)
(* makes one session at most, and no session is kept with an organization of *)
(* another user.                                                             *)
THEOREM NoSessionIsMixedUp == WebSpec => []SessionsStayApart
<1>1. SignedIn => SessionsStayApart
  <2> SUFFICES ASSUME SignedIn PROVE SessionsStayApart
    OBVIOUS
  <2>1. \A a, b \in DOMAIN auth.sessions : auth.sessions[a].of = auth.sessions[b].of => a = b
    BY DEF SignedIn, AuthOk
  <2>2. ASSUME NEW s \in {stored} \cup {tab[t].session : t \in Tab}, s.org # 0
        PROVE  auth.orgs[s.org] = UserOf(s)
    <3>1. SessionOk(auth, s)
      BY <2>2 DEF SignedIn, TabOk, TabFits
    <3> QED
      BY <2>2, <3>1 DEF SessionOk, Member, UserOf
  <2> QED
    BY <2>1, <2>2 DEF SessionsStayApart
<1> QED
  BY <1>1, SigningInIsSound, PTL

-----------------------------------------------------------------------------
(* The App and its screens.  First the shapes of what a page holds and of      *)
(* requests, and what a commit leaves alone.                                   *)

AppFields ==
  {"screen", "locale", "link", "runs", "selected", "running", "timers", "tests", "changes", "secrets",
   "schedules", "policy", "repos", "editing", "text", "saved", "versions", "loading", "evidenceNo", "live"}
LocalFields ==
  {"creating", "evidence", "result", "links", "own", "triggering", "repo", "syncing", "branches", "pulls", "base",
   "comparison", "file", "updating", "days", "value"}
Shaped(u) ==
  /\ DOMAIN u = AppFields \cup LocalFields
  /\ u.timers \in Nat
  /\ u.evidenceNo \in Nat
Formed(q) == \A r \in q : DOMAIN r = {"op", "arg", "no", "at", "cut", "ans"} /\ r.cut \in BOOLEAN
StepOk(s) == s = [u |-> s.u, q |-> s.q] /\ Shaped(s.u) /\ Formed(s.q)

(* What only the App changes: no effect of a screen does. *)
SameApp(u, v) ==
  /\ v.screen = u.screen /\ v.locale = u.locale /\ v.link = u.link /\ v.runs = u.runs /\ v.selected = u.selected
  /\ v.running = u.running /\ v.timers = u.timers /\ v.tests = u.tests /\ v.changes = u.changes
  /\ v.secrets = u.secrets /\ v.schedules = u.schedules /\ v.policy = u.policy /\ v.repos = u.repos
  /\ v.editing = u.editing /\ v.text = u.text /\ v.saved = u.saved /\ v.versions = u.versions
  /\ v.loading = u.loading
(* What a screen says it is doing. *)
SameBusy(u, v) ==
  /\ v.creating = u.creating /\ v.triggering = u.triggering /\ v.syncing = u.syncing /\ v.updating = u.updating
NotBusy(v) == ~v.creating /\ v.triggering = 0 /\ ~v.syncing /\ v.updating = 0
(* What the Runs screen shows, and the object URLs. *)
SameShown(u, v) ==
  /\ v.evidence = u.evidence /\ v.result = u.result /\ v.links = u.links /\ v.own = u.own
  /\ v.live = u.live /\ v.evidenceNo = u.evidenceNo

(* The requests p are those of q, of which those of the operations cut may   *)
(* have been cut off, and others that effects have sent.                     *)
SameRequest(r, s) == s.op = r.op /\ s.arg = r.arg /\ s.at = r.at /\ s.ans = r.ans /\ s.no = r.no
EffectOps == {"evidence", "result", "urls", "branches", "pulls"}
ShownOps == {"evidence", "result", "urls"}
Follows(q, p, cut) ==
  /\ \A r \in q : \E s \in p : SameRequest(r, s) /\ (r.op \notin cut => s.cut = r.cut)
  /\ \A s \in p : s.op \in EffectOps \/ \E r \in q : SameRequest(r, s)

LEMMA CutFormed ==
  ASSUME NEW q, Formed(q), NEW ops
  PROVE  /\ Formed(Cut(q, ops))
         /\ \A r \in q : \E s \in Cut(q, ops) : SameRequest(r, s) /\ (r.op \notin ops => s.cut = r.cut)
         /\ \A s \in Cut(q, ops) : \E r \in q : SameRequest(r, s) /\ (r.op \notin ops => s = r) /\ (r.op \in ops => s.cut)
<1> DEFINE done(r) == IF r.op \in ops THEN [r EXCEPT !.cut = TRUE] ELSE r
<1>1. \A r \in q : /\ DOMAIN done(r) = {"op", "arg", "no", "at", "cut", "ans"}
                   /\ done(r).cut \in BOOLEAN
                   /\ SameRequest(r, done(r))
                   /\ r.op \notin ops => done(r) = r
                   /\ r.op \in ops => done(r).cut
  BY DEF Formed, SameRequest
<1>2. Cut(q, ops) = {done(r) : r \in q}
  BY DEF Cut
<1> HIDE DEF done
<1>3. ASSUME NEW r \in q
      PROVE  \E s \in Cut(q, ops) : SameRequest(r, s) /\ (r.op \notin ops => s.cut = r.cut)
  BY <1>1, <1>2
<1>4. ASSUME NEW s \in Cut(q, ops)
      PROVE  \E r \in q : SameRequest(r, s) /\ (r.op \notin ops => s = r) /\ (r.op \in ops => s.cut)
  BY <1>1, <1>2
<1>5. Formed(Cut(q, ops))
  BY <1>1, <1>2 DEF Formed
<1> QED
  BY <1>3, <1>4, <1>5

(* Sending adds one request, which differs from the given one in its number. *)
IsSent(q, new, p) ==
  \E n : LET r == [new EXCEPT !.no = n] IN
         /\ p = q \cup {r}
         /\ DOMAIN r = {"op", "arg", "no", "at", "cut", "ans"}
         /\ r.op = new.op /\ r.arg = new.arg /\ r.at = new.at /\ r.cut = new.cut /\ r.ans = new.ans
LEMMA SentAdds ==
  ASSUME NEW q, NEW new, DOMAIN new = {"op", "arg", "no", "at", "cut", "ans"}
  PROVE  IsSent(q, new, Sent(q, new))
<1> DEFINE like == {r \in q : env.ordered \/ (r.op = new.op /\ r.arg = new.arg)}
           no == CHOOSE n \in 1..(Cardinality(like) + 1) : \A r \in like : r.no # n
<1>1. Sent(q, new) = q \cup {[new EXCEPT !.no = no]}
  BY DEF Sent
<1>2. /\ DOMAIN [new EXCEPT !.no = no] = {"op", "arg", "no", "at", "cut", "ans"}
      /\ [new EXCEPT !.no = no].op = new.op /\ [new EXCEPT !.no = no].arg = new.arg
      /\ [new EXCEPT !.no = no].at = new.at /\ [new EXCEPT !.no = no].cut = new.cut
      /\ [new EXCEPT !.no = no].ans = new.ans
  BY DEF IsSent
<1> QED
  BY <1>1, <1>2 DEF IsSent

LEMMA SentFormed ==
  ASSUME NEW q, Formed(q), NEW new, DOMAIN new = {"op", "arg", "no", "at", "cut", "ans"}, new.cut \in BOOLEAN
  PROVE  Formed(Sent(q, new))
BY SentAdds DEF Formed, IsSent

LEMMA SentFollows ==
  ASSUME NEW q, NEW p, NEW cut, Follows(q, p, cut), NEW new, DOMAIN new = {"op", "arg", "no", "at", "cut", "ans"},
         new.op \in EffectOps
  PROVE  Follows(q, Sent(p, new), cut)
BY SentAdds DEF Follows, IsSent

LEMMA CutFollows ==
  ASSUME NEW q, NEW p, NEW cut, Follows(q, p, cut), Formed(p), NEW ops, ops \subseteq cut
  PROVE  Follows(q, Cut(p, ops), cut)
BY CutFormed DEF Follows, SameRequest

LEMMA FollowsItself == ASSUME NEW q, NEW cut PROVE Follows(q, q, cut)
BY DEF Follows, SameRequest

LEMMA RevokedFields ==
  ASSUME NEW u, Shaped(u)
  PROVE  /\ Shaped(Revoked(u)) /\ SameApp(u, Revoked(u)) /\ SameBusy(u, Revoked(u))
         /\ Revoked(u).evidence = u.evidence /\ Revoked(u).result = u.result /\ Revoked(u).links = u.links
         /\ Revoked(u).own = {} /\ Revoked(u).live = u.live \ u.own /\ Revoked(u).evidenceNo = u.evidenceNo
BY DEF Revoked, Shaped, AppFields, LocalFields, SameApp, SameBusy

LEMMA MountedFields ==
  ASSUME NEW u, Shaped(u)
  PROVE  /\ Shaped(Mounted(u)) /\ SameApp(u, Mounted(u)) /\ NotBusy(Mounted(u))
         /\ Mounted(u).evidence = 0 /\ Mounted(u).result = 0 /\ Mounted(u).links = {}
         /\ Mounted(u).own = {} /\ Mounted(u).live = u.live /\ Mounted(u).evidenceNo = u.evidenceNo
<1>1. /\ DOMAIN Anew(u) = AppFields \cup LocalFields
      /\ SameApp(u, Anew(u)) /\ NotBusy(Anew(u))
      /\ Anew(u).evidence = 0 /\ Anew(u).result = 0 /\ Anew(u).links = {}
      /\ Anew(u).own = {} /\ Anew(u).live = u.live /\ Anew(u).evidenceNo = u.evidenceNo
  BY DEF Anew, Local, Shaped, AppFields, LocalFields, SameApp, NotBusy
<1>2. \/ Mounted(u) = Anew(u)
      \/ \E v : Mounted(u) = [Anew(u) EXCEPT !.repo = v]
      \/ \E v : Mounted(u) = [Anew(u) EXCEPT !.days = v]
  BY DEF Mounted
<1> QED
  BY <1>1, <1>2 DEF Shaped, AppFields, LocalFields, SameApp, NotBusy

-----------------------------------------------------------------------------
(* The inductive invariant, in parts.                                          *)

Uncut(q, op) == \E r \in q : r.op = op /\ ~r.cut

(* Busy: a page that says it is busy waits for an answer, or for a timer. *)
Quiet(u, q) ==
  /\ u.running => u.timers > 0 \/ \E r \in q : r.op = "startRun"
  /\ u.loading => \E r \in q : r.op = "manifest"
  /\ u.creating => Uncut(q, "createTest")
  /\ u.syncing => Uncut(q, "sync")
  /\ u.triggering # 0 => Uncut(q, "trigger")
  /\ u.updating # 0 => Uncut(q, "decide")

(* What the Runs screen has asked for is about the selected run, and what it *)
(* shows is, or will be.                                                     *)
Asked(q, screen, selected) ==
  \A r \in q : r.op \in {"evidence", "result"} /\ ~r.cut => screen = "Runs" /\ r.arg = selected.id
RunShown(u, q) ==
  /\ Uncut(q, "evidence") \/ u.evidence \in {0, u.selected.id}
  /\ Uncut(q, "result") \/ u.result \in {0, u.selected.id}

(* Fetches of the artifacts of evidence number n, or of one before. *)
FetchOk(r, own, n, screen) ==
  /\ r.at = "ok"
  /\ r.arg \in Nat /\ r.arg <= n
  /\ r.ans = [todo |-> r.ans.todo, got |-> r.ans.got]
  /\ \A artifact \in r.ans.todo : artifact[1] # 0
  /\ \A link \in r.ans.got : link[1] = r.arg /\ link[2][1] # 0
  /\ ~r.cut => screen = "Runs" /\ r.arg = n /\ r.ans.got \subseteq own
  /\ r.cut /\ own # {} => r.arg < n
Fetches(u, q, n, screen) ==
  /\ \A r \in q : r.op = "urls" => FetchOk(r, u.own, n, screen)
  /\ \A r, s \in q : r.op = "urls" /\ s.op = "urls" /\ r.cut /\ ~s.cut => r.arg < s.arg
  /\ \A link \in u.live : link \in u.own \/ \E r \in q : r.op = "urls" /\ link \in r.ans.got
  /\ u.own \subseteq u.live
  /\ \A link \in u.own : link[1] = n
  /\ \A link \in u.links : link[2][1] # 0
LinksAlive(u, q) == u.evidence # 0 => Uncut(q, "urls") \/ u.links \subseteq u.own

Shown(u, q) ==
  /\ Asked(q, u.screen, u.selected)
  /\ u.screen = "Runs" => RunShown(u, q) /\ LinksAlive(u, q)
  /\ Fetches(u, q, u.evidenceNo, u.screen)

(* The list of runs has the selected one. *)
RunsListed(u) ==
  /\ u.runs \in Seq(Range(u.runs))
  /\ \A n \in 1..Len(u.runs) : DOMAIN u.runs[n] = {"id", "test", "status"}
  /\ u.selected = NoRun \/ u.selected.id \in Ids(u.runs)

(* The editor: its tests exist, and as long as the editor did not go astray  *)
(* its text is the open test's.                                              *)
EditorTyped(s, u, q) ==
  /\ u.text \in Texts
  /\ u.tests \in Seq(DOMAIN s.manifest)
  /\ u.editing \in {0} \cup DOMAIN s.manifest
  /\ \A r \in q :
       /\ r.op = "load" /\ r.at = "ok" => DOMAIN r.ans.manifest \subseteq DOMAIN s.manifest
       /\ r.op = "createTest" /\ r.at = "ok" => r.ans \in DOMAIN s.manifest
       /\ r.op = "manifest" => r.arg \in DOMAIN s.manifest
       /\ r.op = "manifest" /\ r.at = "ok" => r.ans.text \in Texts
       /\ r.op = "update" => r.arg.text \in Texts
OwnTexts(s, u, q) ==
  /\ \A test \in DOMAIN s.manifest : s.manifest[test].of = test
  /\ \A r \in q :
       /\ r.op = "manifest" => r.arg = u.editing
       /\ r.op = "manifest" /\ r.at = "ok" => r.ans.text.of = r.arg
       /\ r.op = "update" => r.arg.text.of = r.arg.test
  /\ u.editing # 0 /\ ~u.loading => u.text.of = u.editing

(* The server's records, and those a load is answered with. *)
RecordFields == {"runs", "manifest", "versions", "changes", "policy", "secrets", "schedules", "repos", "branches"}
RecordsOk(s) == DOMAIN s = RecordFields /\ s.runs \in Seq(Range(s.runs)) /\ s.manifest \in Seq(Texts)
ServerOk(s, q) == RecordsOk(s) /\ \A r \in q : r.op = "load" /\ r.at = "ok" => RecordsOk(r.ans)

ConsoleOk ==
  /\ Shaped(ui) /\ Formed(net)
  /\ DOMAIN env = {"ordered", "visits", "live", "configTest", "clicks", "faults", "github", "astray"}
  /\ ServerOk(srv, net)
  /\ Quiet(ui, net)
  /\ RunsListed(ui)
  /\ Shown(ui, net)
  /\ EditorTyped(srv, ui, net)
  /\ env.ordered /\ ~env.astray => OwnTexts(srv, ui, net)

-----------------------------------------------------------------------------
(* What a commit keeps, one effect after the other.                            *)

CutBy(u) == IF u.screen = ui.screen THEN ShownOps ELSE ShownOps \cup RequestsOf(ui.screen)
Reached(u, q, s) ==
  /\ StepOk(s)
  /\ SameApp(u, s.u)
  /\ u.screen = ui.screen => SameBusy(u, s.u)
  /\ u.screen # ui.screen => NotBusy(s.u)
  /\ Follows(q, s.q, CutBy(u))

LEMMA ScreenReached ==
  ASSUME NEW u, Shaped(u), NEW q, Formed(q)
  PROVE  Reached(u, q, ScreenChange([u |-> u, q |-> q]))
<1>1. CASE u.screen = ui.screen
  BY <1>1, FollowsItself DEF ScreenChange, Reached, StepOk, SameApp, SameBusy
<1>2. CASE u.screen # ui.screen
  <2> DEFINE s == [u |-> Mounted(Revoked(u)), q |-> Cut(q, RequestsOf(ui.screen))]
  <2>1. ScreenChange([u |-> u, q |-> q]) = s
    BY <1>2 DEF ScreenChange
  <2>2. StepOk(s)
    BY RevokedFields, MountedFields, CutFormed DEF StepOk
  <2>3. SameApp(u, s.u) /\ NotBusy(s.u)
    BY RevokedFields, MountedFields DEF SameApp
  <2>4. Follows(q, s.q, CutBy(u))
    BY <1>2, CutFollows, FollowsItself DEF CutBy
  <2> HIDE DEF s
  <2> QED
    BY <1>2, <2>1, <2>2, <2>3, <2>4 DEF Reached
<1> QED
  BY <1>1, <1>2

(* A stage that only sets what the Runs screen shows, or a field of Settings, *)
(* and sends or cuts off requests of effects.                                 *)
LEMMA StageReached ==
  ASSUME NEW u, NEW q, NEW s, Reached(u, q, s), NEW v, NEW p,
         Shaped(v), SameApp(s.u, v), SameBusy(s.u, v), Formed(p), Follows(q, p, CutBy(u))
  PROVE  Reached(u, q, [u |-> v, q |-> p])
<1>1. StepOk([u |-> v, q |-> p])
  BY DEF StepOk
<1>2. SameApp(u, v)
  BY DEF Reached, SameApp
<1>3. (u.screen = ui.screen => SameBusy(u, v)) /\ (u.screen # ui.screen => NotBusy(v))
  BY DEF Reached, SameBusy, NotBusy
<1> QED
  BY <1>1, <1>2, <1>3 DEF Reached

LEMMA ShownCut == ASSUME NEW u PROVE ShownOps \subseteq CutBy(u)
BY DEF CutBy

LEMMA AskFollows ==
  ASSUME NEW q, NEW p, NEW cut, Formed(p), Follows(q, p, cut), NEW op \in EffectOps, NEW arg
  PROVE  Formed(Sent(p, Ask(op, arg))) /\ Follows(q, Sent(p, Ask(op, arg)), cut)
<1> DEFINE new == Ask(op, arg)
<1>1. DOMAIN new = {"op", "arg", "no", "at", "cut", "ans"} /\ new.op \in EffectOps /\ new.cut \in BOOLEAN
  BY DEF Ask
<1> HIDE DEF new
<1>2. Formed(Sent(p, new)) /\ Follows(q, Sent(p, new), cut)
  BY <1>1, SentFormed, SentFollows
<1> QED
  BY <1>2 DEF new

LEMMA ReadFollows ==
  ASSUME NEW q, NEW p, NEW cut, Formed(p), Follows(q, p, cut), NEW op \in EffectOps, NEW arg, NEW found
  PROVE  Formed(Sent(p, Read(op, arg, found))) /\ Follows(q, Sent(p, Read(op, arg, found)), cut)
<1> DEFINE new == Read(op, arg, found)
<1>1. DOMAIN new = {"op", "arg", "no", "at", "cut", "ans"} /\ new.op \in EffectOps /\ new.cut \in BOOLEAN
  BY DEF Ask, Read
<1> HIDE DEF new
<1>2. Formed(Sent(p, new)) /\ Follows(q, Sent(p, new), cut)
  BY <1>1, SentFormed, SentFollows
<1> QED
  BY <1>2 DEF new

(* The page without anything shown. *)
Cleared(u) ==
  [u EXCEPT !.evidence = 0, !.links = {}, !.result = 0, !.evidenceNo = IF u.evidence = 0 THEN @ ELSE @ + 1]
LEMMA ClearedFields ==
  ASSUME NEW u, Shaped(u)
  PROVE  /\ Shaped(Cleared(u)) /\ SameApp(u, Cleared(u)) /\ SameBusy(u, Cleared(u))
         /\ Cleared(u).evidence = 0 /\ Cleared(u).result = 0 /\ Cleared(u).links = {}
         /\ Cleared(u).own = u.own /\ Cleared(u).live = u.live
         /\ Cleared(u).evidenceNo = IF u.evidence = 0 THEN u.evidenceNo ELSE u.evidenceNo + 1
BY DEF Cleared, Shaped, AppFields, LocalFields, SameApp, SameBusy

RunRequests(s) ==
  Sent(Sent(Cut(s.q, {"evidence", "result"}), Read("evidence", s.u.selected.id, Exists(s.u.selected.id))),
       Ask("result", s.u.selected.id))
LEMMA RunCases ==
  ASSUME NEW s
  PROVE  \/ /\ s.u.screen # "Runs" \/ (ui.screen = "Runs" /\ s.u.selected = ui.selected)
            /\ RunEffects(s) = s
         \/ /\ s.u.screen = "Runs" /\ ~(ui.screen = "Runs" /\ s.u.selected = ui.selected)
            /\ RunEffects(s) = [u |-> Cleared(s.u), q |-> Cut(s.q, {"evidence", "result"})]
         \/ /\ s.u.screen = "Runs" /\ ~(ui.screen = "Runs" /\ s.u.selected = ui.selected)
            /\ RunEffects(s) = [u |-> s.u, q |-> RunRequests(s)]
BY DEF RunEffects, Cleared, RunRequests

LEMMA RunReached ==
  ASSUME NEW u, NEW q, NEW s, Reached(u, q, s)
  PROVE  Reached(u, q, RunEffects(s))
<1> DEFINE cut == Cut(s.q, {"evidence", "result"})
           once == Sent(cut, Read("evidence", s.u.selected.id, Exists(s.u.selected.id)))
<1>1. Shaped(s.u) /\ Formed(s.q) /\ Follows(q, s.q, CutBy(u))
  BY DEF Reached, StepOk
<1>2. Formed(cut) /\ Follows(q, cut, CutBy(u))
  BY <1>1, CutFormed, CutFollows, ShownCut DEF ShownOps
<1>3. Formed(once) /\ Follows(q, once, CutBy(u))
  BY <1>2, ReadFollows DEF EffectOps
<1>4. Formed(RunRequests(s)) /\ Follows(q, RunRequests(s), CutBy(u))
  BY <1>3, AskFollows DEF EffectOps, RunRequests
<1>5. SameApp(s.u, s.u) /\ SameBusy(s.u, s.u)
  BY DEF SameApp, SameBusy
<1> HIDE DEF cut, once
<1>6. Reached(u, q, [u |-> Cleared(s.u), q |-> cut])
  BY <1>1, <1>2, ClearedFields, StageReached
<1>7. Reached(u, q, [u |-> s.u, q |-> RunRequests(s)])
  BY <1>1, <1>4, <1>5, StageReached
<1> QED
  BY <1>6, <1>7, RunCases DEF cut

Fetching(s) ==
  Sent(Cut(s.q, {"urls"}), [Read("urls", s.u.evidenceNo, TRUE) EXCEPT !.ans = [todo |-> ArtifactsOf(s.u.evidence), got |-> {}]])
LEMMA ArtifactCases ==
  ASSUME NEW s
  PROVE  \/ /\ s.u.screen # "Runs" \/ s.u.evidenceNo = ui.evidenceNo
            /\ ArtifactEffect(s) = s
         \/ /\ s.u.screen = "Runs" /\ s.u.evidenceNo # ui.evidenceNo /\ s.u.evidence = 0
            /\ ArtifactEffect(s) = [u |-> Revoked(s.u), q |-> Cut(s.q, {"urls"})]
         \/ /\ s.u.screen = "Runs" /\ s.u.evidenceNo # ui.evidenceNo /\ s.u.evidence # 0
            /\ ArtifactEffect(s) = [u |-> Revoked(s.u), q |-> Fetching(s)]
BY DEF ArtifactEffect, Fetching

LEMMA FetchFields ==
  ASSUME NEW arg, NEW todo
  PROVE  LET r == [Read("urls", arg, TRUE) EXCEPT !.ans = [todo |-> todo, got |-> {}]] IN
         /\ DOMAIN r = {"op", "arg", "no", "at", "cut", "ans"}
         /\ r.op = "urls" /\ r.arg = arg /\ r.at = "ok" /\ r.cut = FALSE
         /\ r.ans = [todo |-> todo, got |-> {}]
BY DEF Ask, Read

LEMMA ArtifactReached ==
  ASSUME NEW u, NEW q, NEW s, Reached(u, q, s)
  PROVE  Reached(u, q, ArtifactEffect(s))
<1> DEFINE cut == Cut(s.q, {"urls"})
           new == [Read("urls", s.u.evidenceNo, TRUE) EXCEPT !.ans = [todo |-> ArtifactsOf(s.u.evidence), got |-> {}]]
<1>1. Shaped(s.u) /\ Formed(s.q) /\ Follows(q, s.q, CutBy(u))
  BY DEF Reached, StepOk
<1>2. Formed(cut) /\ Follows(q, cut, CutBy(u))
  BY <1>1, CutFormed, CutFollows, ShownCut DEF ShownOps
<1>3. DOMAIN new = {"op", "arg", "no", "at", "cut", "ans"} /\ new.op = "urls" /\ new.cut \in BOOLEAN
  BY FetchFields
<1>4. Fetching(s) = Sent(cut, new)
  BY DEF Fetching
<1> HIDE DEF cut, new
<1>5. Formed(Fetching(s)) /\ Follows(q, Fetching(s), CutBy(u))
  BY <1>2, <1>3, <1>4, SentFormed, SentFollows DEF EffectOps
<1>6. Reached(u, q, [u |-> Revoked(s.u), q |-> cut])
  BY <1>1, <1>2, RevokedFields, StageReached
<1>7. Reached(u, q, [u |-> Revoked(s.u), q |-> Fetching(s)])
  BY <1>1, <1>5, RevokedFields, StageReached
<1> QED
  BY <1>6, <1>7, ArtifactCases DEF cut

LEMMA GitHubCases ==
  ASSUME NEW s, StepOk(s)
  PROVE  GitHubEffects(s) = s \/ GitHubEffects(s) = [u |-> s.u, q |-> GitHubRequests(s)]
BY DEF GitHubEffects, StepOk

LEMMA GitHubReached ==
  ASSUME NEW u, NEW q, NEW s, Reached(u, q, s)
  PROVE  Reached(u, q, GitHubEffects(s))
<1> DEFINE once == Sent(s.q, Ask("branches", SelectedRepo(s.u).id))
<1>1. StepOk(s) /\ Shaped(s.u) /\ Formed(s.q) /\ Follows(q, s.q, CutBy(u))
  BY DEF Reached, StepOk
<1>2. Formed(once) /\ Follows(q, once, CutBy(u))
  BY <1>1, AskFollows DEF EffectOps
<1>3. Formed(GitHubRequests(s)) /\ Follows(q, GitHubRequests(s), CutBy(u))
  BY <1>2, ReadFollows DEF EffectOps, GitHubRequests
<1>4. SameApp(s.u, s.u) /\ SameBusy(s.u, s.u)
  BY DEF SameApp, SameBusy
<1>5. Reached(u, q, [u |-> s.u, q |-> GitHubRequests(s)])
  BY <1>1, <1>3, <1>4, StageReached
<1> QED
  BY <1>1, <1>5, GitHubCases

LEMMA PolicyCases ==
  ASSUME NEW s, StepOk(s)
  PROVE  PolicyEffect(s) = s \/ \E days : PolicyEffect(s) = [u |-> [s.u EXCEPT !.days = days], q |-> s.q]
BY DEF PolicyEffect, StepOk

LEMMA DaysFields ==
  ASSUME NEW u, Shaped(u), NEW days
  PROVE  /\ Shaped([u EXCEPT !.days = days]) /\ SameApp(u, [u EXCEPT !.days = days])
         /\ SameBusy(u, [u EXCEPT !.days = days]) /\ SameShown(u, [u EXCEPT !.days = days])
BY DEF Shaped, AppFields, LocalFields, SameApp, SameBusy, SameShown

LEMMA PolicyReached ==
  ASSUME NEW u, NEW q, NEW s, Reached(u, q, s)
  PROVE  Reached(u, q, PolicyEffect(s))
<1>1. StepOk(s) /\ Shaped(s.u) /\ Formed(s.q) /\ Follows(q, s.q, CutBy(u))
  BY DEF Reached, StepOk
<1>2. ASSUME NEW days PROVE Reached(u, q, [u |-> [s.u EXCEPT !.days = days], q |-> s.q])
  BY <1>1, DaysFields, StageReached
<1> QED
  BY <1>1, <1>2, PolicyCases

(* A commit keeps the App's state and loses no request. *)
LEMMA CommitReached ==
  ASSUME NEW u, Shaped(u), NEW q, Formed(q), Commit(u, q)
  PROVE  /\ Shaped(ui') /\ Formed(net') /\ SameApp(u, ui')
         /\ u.screen = ui.screen => SameBusy(u, ui')
         /\ u.screen # ui.screen => NotBusy(ui')
         /\ Follows(q, net', CutBy(u))
<1> DEFINE s == PolicyEffect(GitHubEffects(ArtifactEffect(RunEffects(ScreenChange([u |-> u, q |-> q])))))
<1>1. Reached(u, q, s)
  BY ScreenReached, RunReached, ArtifactReached, GitHubReached, PolicyReached
<1>2. ui' = s.u /\ net' = s.q
  BY DEF Commit
<1> HIDE DEF s
<1> QED
  BY <1>1, <1>2 DEF Reached, StepOk

(* A page that is about to be committed is busy with nothing it does not wait *)
(* for: so is it afterwards.                                                  *)
LEMMA QuietCommit ==
  ASSUME NEW u, Shaped(u), NEW q, Formed(q), Commit(u, q), Quiet(u, q)
  PROVE  Quiet(ui', net')
<1>1. /\ SameApp(u, ui')
      /\ u.screen = ui.screen => SameBusy(u, ui')
      /\ u.screen # ui.screen => NotBusy(ui')
      /\ Follows(q, net', CutBy(u))
  BY CommitReached
<1>2. ASSUME NEW op, \E r \in q : r.op = op PROVE \E r \in net' : r.op = op
  BY <1>1, <1>2 DEF Follows, SameRequest
<1>3. ASSUME u.screen = ui.screen, NEW op, op \notin ShownOps, Uncut(q, op) PROVE Uncut(net', op)
  BY <1>1, <1>3 DEF Follows, SameRequest, Uncut, CutBy
<1>4. /\ ui'.running => ui'.timers > 0 \/ \E r \in net' : r.op = "startRun"
      /\ ui'.loading => \E r \in net' : r.op = "manifest"
  <2>1. ui'.running = u.running /\ ui'.timers = u.timers /\ ui'.loading = u.loading
    BY <1>1 DEF SameApp
  <2>2. u.running => u.timers > 0 \/ \E r \in q : r.op = "startRun"
    BY DEF Quiet
  <2>3. u.loading => \E r \in q : r.op = "manifest"
    BY DEF Quiet
  <2>4. (\E r \in q : r.op = "startRun") => \E r \in net' : r.op = "startRun"
    BY <1>2
  <2>5. (\E r \in q : r.op = "manifest") => \E r \in net' : r.op = "manifest"
    BY <1>2
  <2> QED
    BY <2>1, <2>2, <2>3, <2>4, <2>5
<1>5. CASE u.screen = ui.screen
  <2>1. \A op \in {"createTest", "sync", "trigger", "decide"} : Uncut(q, op) => Uncut(net', op)
    BY <1>3, <1>5 DEF ShownOps
  <2>2. /\ ui'.creating => Uncut(net', "createTest")
        /\ ui'.syncing => Uncut(net', "sync")
    BY <1>1, <1>5, <2>1 DEF SameBusy, Quiet
  <2>3. /\ ui'.triggering # 0 => Uncut(net', "trigger")
        /\ ui'.updating # 0 => Uncut(net', "decide")
    BY <1>1, <1>5, <2>1 DEF SameBusy, Quiet
  <2> QED
    BY <1>4, <2>2, <2>3 DEF Quiet
<1>6. CASE u.screen # ui.screen
  BY <1>1, <1>4, <1>6 DEF NotBusy, Quiet
<1> QED
  BY <1>5, <1>6

-----------------------------------------------------------------------------
(* The Runs screen through a commit.  A handler leaves what is shown about the *)
(* selection and the evidence of before: the effects bring it up to date.      *)

(* What the effect of the artifacts finds, of the evidence number n that the  *)
(* page had before the commit.                                                *)
Fetched(u, q) ==
  /\ u.evidenceNo >= ui.evidenceNo
  /\ u.evidenceNo # ui.evidenceNo => u.screen = "Runs" /\ ui.screen = "Runs"
  /\ Fetches(u, q, ui.evidenceNo, ui.screen)
  /\ u.screen = "Runs" /\ ui.screen = "Runs" /\ u.evidenceNo = ui.evidenceNo => LinksAlive(u, q)
Leaves(u, q) ==
  /\ Asked(q, ui.screen, ui.selected)
  /\ u.screen = "Runs" /\ ui.screen = "Runs" /\ u.selected = ui.selected => RunShown(u, q)
  /\ Fetched(u, q)
(* A screen that has just been mounted. *)
Mounting(u, q) ==
  u.screen # ui.screen =>
    /\ u.own = {} /\ u.evidence = 0 /\ u.result = 0
    /\ \A op \in ShownOps : ~Uncut(q, op)

LEMMA ScreenShown ==
  ASSUME NEW u, Shaped(u), NEW q, Formed(q), ui.evidenceNo \in Nat, Leaves(u, q),
         NEW s, s = ScreenChange([u |-> u, q |-> q])
  PROVE  Leaves(s.u, s.q) /\ Mounting(s.u, s.q)
<1>1. CASE u.screen = ui.screen
  BY <1>1 DEF ScreenChange, Mounting
<1>2. CASE u.screen # ui.screen
  <2> DEFINE v == Mounted(Revoked(u))
             p == Cut(q, RequestsOf(ui.screen))
  <2>1. s.u = v /\ s.q = p
    BY <1>2 DEF ScreenChange
  <2>2. /\ v.screen = u.screen /\ v.selected = u.selected
        /\ v.evidence = 0 /\ v.result = 0 /\ v.links = {} /\ v.own = {}
        /\ v.live = u.live \ u.own /\ v.evidenceNo = u.evidenceNo
    BY RevokedFields, MountedFields DEF SameApp
  <2>3. \A r \in q : \E t \in p : SameRequest(r, t)
    BY CutFormed
  <2>4. \A t \in p : \E r \in q : /\ SameRequest(r, t) /\ (~t.cut => t = r)
                                  /\ (~t.cut => r.op \notin RequestsOf(ui.screen))
    BY CutFormed
  <2> HIDE DEF v, p
  <2>5. Asked(p, ui.screen, ui.selected)
    BY <2>4 DEF Leaves, Asked
  <2>6. \A t \in p : t.op \in ShownOps => t.cut
    <3>1. \A r \in q : r.op \in ShownOps /\ ~r.cut => ui.screen = "Runs"
      BY DEF Leaves, Asked, Fetched, Fetches, FetchOk, ShownOps
    <3>2. ui.screen = "Runs" => ShownOps \subseteq RequestsOf(ui.screen)
      BY DEF RequestsOf, ShownOps
    <3> QED
      BY <2>4, <3>1, <3>2
  <2>7. Mounting(v, p)
    BY <2>2, <2>6 DEF Mounting, Uncut
  <2>8. u.evidenceNo = ui.evidenceNo
    BY <1>2 DEF Leaves, Fetched
  <2>9. Fetches(v, p, ui.evidenceNo, ui.screen)
    <3>1. Fetches(u, q, ui.evidenceNo, ui.screen)
      BY DEF Leaves, Fetched
    <3>2. ASSUME NEW t \in p, t.op = "urls" PROVE FetchOk(t, v.own, ui.evidenceNo, ui.screen)
      <4>1. PICK r \in q : SameRequest(r, t)
        BY <2>4
      <4>2. FetchOk(r, u.own, ui.evidenceNo, ui.screen)
        BY <3>1, <3>2, <4>1 DEF Fetches, SameRequest
      <4> QED
        BY <2>2, <2>6, <3>2, <4>1, <4>2 DEF FetchOk, SameRequest, ShownOps
    <3>3. \A link \in v.live : \E t \in p : t.op = "urls" /\ link \in t.ans.got
      BY <2>2, <2>3, <3>1 DEF Fetches, SameRequest
    <3> QED
      BY <2>2, <2>6, <3>2, <3>3 DEF Fetches, ShownOps
  <2>10. Fetched(v, p)
    BY <1>2, <2>2, <2>8, <2>9 DEF Leaves, Fetched
  <2> QED
    BY <1>2, <2>1, <2>2, <2>5, <2>7, <2>10 DEF Leaves
<1> QED
  BY <1>1, <1>2

(* Requests of which none is about what is fetched, or was cut off. *)
LEMMA FetchedDependsOn ==
  ASSUME NEW u, NEW q, Fetched(u, q), NEW v, NEW p,
         v.screen = u.screen, v.evidence = u.evidence, SameShown(u, v),
         \A r \in q : r.op = "urls" => r \in p,
         \A r \in p : r.op = "urls" => r \in q
  PROVE  Fetched(v, p)
<1>1. Fetches(v, p, ui.evidenceNo, ui.screen)
  BY DEF Fetched, Fetches, SameShown
<1>2. LinksAlive(u, q) => LinksAlive(v, p)
  BY DEF LinksAlive, SameShown, Uncut
<1> QED
  BY <1>1, <1>2 DEF Fetched, SameShown

LEMMA CutOthers ==
  ASSUME NEW q, Formed(q), NEW ops, NEW r, r.op \notin ops
  PROVE  r \in q <=> r \in Cut(q, ops)
<1>1. r \in q => r \in Cut(q, ops)
  BY DEF Cut
<1>2. ASSUME r \in Cut(q, ops) PROVE r \in q
  <2>1. PICK s \in q : SameRequest(s, r) /\ (s.op \notin ops => r = s)
    BY <1>2, CutFormed
  <2> QED
    BY <2>1 DEF SameRequest
<1> QED
  BY <1>1, <1>2

LEMMA CutOff ==
  ASSUME NEW q, Formed(q), NEW ops, NEW r \in Cut(q, ops), r.op \in ops
  PROVE  r.cut
BY CutFormed DEF SameRequest

(* Sending a request of another operation changes nothing for one. *)
LEMMA SentOthers ==
  ASSUME NEW q, NEW new, DOMAIN new = {"op", "arg", "no", "at", "cut", "ans"}, NEW r, r.op # new.op
  PROVE  r \in q <=> r \in Sent(q, new)
BY SentAdds DEF IsSent

LEMMA AskedAdds ==
  ASSUME NEW q, NEW op, NEW arg
  PROVE  /\ \A r \in Sent(q, Ask(op, arg)) : r \in q \/ (r.op = op /\ r.arg = arg /\ ~r.cut)
         /\ \E r \in Sent(q, Ask(op, arg)) : r.op = op /\ r.arg = arg /\ ~r.cut
         /\ q \subseteq Sent(q, Ask(op, arg))
<1> DEFINE new == Ask(op, arg)
<1>1. DOMAIN new = {"op", "arg", "no", "at", "cut", "ans"} /\ new.op = op /\ new.arg = arg /\ ~new.cut
  BY DEF Ask
<1> HIDE DEF new
<1>2. IsSent(q, new, Sent(q, new))
  BY <1>1, SentAdds
<1>3. PICK sent : Sent(q, new) = q \cup {sent} /\ sent.op = new.op /\ sent.arg = new.arg /\ sent.cut = new.cut
  BY <1>2 DEF IsSent
<1>4. /\ \A r \in Sent(q, new) : r \in q \/ (r.op = op /\ r.arg = arg /\ ~r.cut)
      /\ \E r \in Sent(q, new) : r.op = op /\ r.arg = arg /\ ~r.cut
      /\ q \subseteq Sent(q, new)
  BY <1>1, <1>3
<1> QED
  BY <1>4 DEF new

LEMMA ReadAdds ==
  ASSUME NEW q, NEW op, NEW arg, NEW found
  PROVE  /\ \A r \in Sent(q, Read(op, arg, found)) : r \in q \/ (r.op = op /\ r.arg = arg /\ ~r.cut)
         /\ \E r \in Sent(q, Read(op, arg, found)) : r.op = op /\ r.arg = arg /\ ~r.cut
         /\ q \subseteq Sent(q, Read(op, arg, found))
<1> DEFINE new == Read(op, arg, found)
<1>1. DOMAIN new = {"op", "arg", "no", "at", "cut", "ans"} /\ new.op = op /\ new.arg = arg /\ ~new.cut
  BY DEF Ask, Read
<1> HIDE DEF new
<1>2. IsSent(q, new, Sent(q, new))
  BY <1>1, SentAdds
<1>3. PICK sent : Sent(q, new) = q \cup {sent} /\ sent.op = new.op /\ sent.arg = new.arg /\ sent.cut = new.cut
  BY <1>2 DEF IsSent
<1>4. /\ \A r \in Sent(q, new) : r \in q \/ (r.op = op /\ r.arg = arg /\ ~r.cut)
      /\ \E r \in Sent(q, new) : r.op = op /\ r.arg = arg /\ ~r.cut
      /\ q \subseteq Sent(q, new)
  BY <1>1, <1>3
<1> QED
  BY <1>4 DEF new

LEMMA RunRequestsAre ==
  ASSUME NEW s, StepOk(s)
  PROVE  /\ \A r : r.op = "urls" => (r \in s.q <=> r \in RunRequests(s))
         /\ \A r \in RunRequests(s) : r.op \in {"evidence", "result"} /\ ~r.cut => r.arg = s.u.selected.id
         /\ Uncut(RunRequests(s), "evidence") /\ Uncut(RunRequests(s), "result")
<1> DEFINE cut == Cut(s.q, {"evidence", "result"})
           once == Sent(cut, Read("evidence", s.u.selected.id, Exists(s.u.selected.id)))
<1>1. \A r : r.op = "urls" => (r \in s.q <=> r \in cut)
  BY CutOthers DEF StepOk
<1>2. \A r \in cut : r.op \in {"evidence", "result"} => r.cut
  BY CutOff DEF StepOk
<1> HIDE DEF cut
<1>3. /\ \A r \in once : r \in cut \/ (r.op = "evidence" /\ r.arg = s.u.selected.id /\ ~r.cut)
      /\ \E r \in once : r.op = "evidence" /\ r.arg = s.u.selected.id /\ ~r.cut
      /\ cut \subseteq once
  BY ReadAdds
<1> HIDE DEF once
<1>4. RunRequests(s) = Sent(once, Ask("result", s.u.selected.id))
  BY DEF RunRequests, once, cut
<1>5. /\ \A r \in RunRequests(s) : r \in once \/ (r.op = "result" /\ r.arg = s.u.selected.id /\ ~r.cut)
      /\ \E r \in RunRequests(s) : r.op = "result" /\ r.arg = s.u.selected.id /\ ~r.cut
      /\ once \subseteq RunRequests(s)
  BY <1>4, AskedAdds
<1>6. ASSUME NEW r, r.op = "urls" PROVE r \in s.q <=> r \in RunRequests(s)
  BY <1>1, <1>3, <1>5, <1>6
<1>7. ASSUME NEW r \in RunRequests(s), r.op \in {"evidence", "result"}, ~r.cut PROVE r.arg = s.u.selected.id
  BY <1>2, <1>3, <1>5, <1>7
<1>8. Uncut(RunRequests(s), "evidence") /\ Uncut(RunRequests(s), "result")
  BY <1>3, <1>5 DEF Uncut
<1> QED
  BY <1>6, <1>7, <1>8

LEMMA RunRequestsFormed == ASSUME NEW s, StepOk(s) PROVE Formed(RunRequests(s))
<1> DEFINE cut == Cut(s.q, {"evidence", "result"})
           once == Sent(cut, Read("evidence", s.u.selected.id, Exists(s.u.selected.id)))
<1>1. Formed(cut)
  BY CutFormed DEF StepOk
<1>2. Formed(once)
  BY <1>1, ReadFollows, FollowsItself DEF EffectOps
<1> QED
  BY <1>2, AskFollows, FollowsItself DEF EffectOps, RunRequests

RunDone(s) ==
  /\ StepOk(s)
  /\ Asked(s.q, s.u.screen, s.u.selected)
  /\ s.u.screen = "Runs" => RunShown(s.u, s.q)
  /\ Fetched(s.u, s.q)
  /\ s.u.screen # ui.screen => s.u.own = {} /\ s.u.evidence = 0 /\ ~Uncut(s.q, "urls")

LEMMA RunStage ==
  ASSUME NEW s, StepOk(s), ui.evidenceNo \in Nat, Leaves(s.u, s.q), Mounting(s.u, s.q)
  PROVE  RunDone(RunEffects(s))
<1>1. ASSUME s.u.screen # "Runs" \/ (ui.screen = "Runs" /\ s.u.selected = ui.selected)
      PROVE  RunDone(s)
  <2>1. ASSUME s.u.screen # ui.screen
        PROVE  /\ Asked(s.q, s.u.screen, s.u.selected)
               /\ s.u.own = {} /\ s.u.evidence = 0 /\ ~Uncut(s.q, "urls")
    BY <2>1 DEF Mounting, Asked, Uncut, ShownOps
  <2>2. ASSUME s.u.screen = ui.screen PROVE Asked(s.q, s.u.screen, s.u.selected)
    BY <1>1, <2>2 DEF Leaves, Asked
  <2>3. s.u.screen = "Runs" => RunShown(s.u, s.q)
    BY <1>1 DEF Leaves
  <2> QED
    BY <2>1, <2>2, <2>3 DEF RunDone, Leaves
<1>2. ASSUME s.u.screen = "Runs"
      PROVE  RunDone([u |-> Cleared(s.u), q |-> Cut(s.q, {"evidence", "result"})])
  <2> DEFINE v == Cleared(s.u)
             p == Cut(s.q, {"evidence", "result"})
  <2>1. /\ Shaped(v) /\ v.screen = s.u.screen /\ v.selected = s.u.selected
        /\ v.evidence = 0 /\ v.result = 0 /\ v.links = {} /\ v.own = s.u.own /\ v.live = s.u.live
        /\ v.evidenceNo = IF s.u.evidence = 0 THEN s.u.evidenceNo ELSE s.u.evidenceNo + 1
    BY ClearedFields DEF StepOk, SameApp
  <2>2. Formed(p) /\ \A r \in p : r.op \in {"evidence", "result"} => r.cut
    BY CutFormed, CutOff DEF StepOk
  <2>3. \A r : r.op = "urls" => (r \in s.q <=> r \in p)
    BY CutOthers DEF StepOk
  <2> HIDE DEF v, p
  <2>4. Asked(p, v.screen, v.selected) /\ RunShown(v, p)
    BY <2>1, <2>2 DEF Asked, RunShown
  <2>5. Fetches(v, p, ui.evidenceNo, ui.screen)
    BY <2>1, <2>3 DEF Leaves, Fetched, Fetches
  <2>6. s.u.evidence # 0 => ui.screen = "Runs"
    BY <1>2 DEF Mounting
  <2>7. s.u.evidenceNo \in Nat
    BY DEF StepOk, Shaped
  <2>8. Fetched(v, p)
    BY <1>2, <2>1, <2>5, <2>6, <2>7 DEF Leaves, Fetched, LinksAlive
  <2>9. v.screen # ui.screen => v.own = {} /\ v.evidence = 0 /\ ~Uncut(p, "urls")
    BY <2>1, <2>3 DEF Mounting, Uncut, ShownOps
  <2>10. StepOk([u |-> v, q |-> p])
    BY <2>1, <2>2 DEF StepOk
  <2>11. RunDone([u |-> v, q |-> p])
    BY <2>4, <2>8, <2>9, <2>10 DEF RunDone
  <2> QED
    BY <2>11 DEF v, p
<1>3. ASSUME s.u.screen = "Runs"
      PROVE  RunDone([u |-> s.u, q |-> RunRequests(s)])
  <2> DEFINE p == RunRequests(s)
  <2>1. /\ \A r : r.op = "urls" => (r \in s.q <=> r \in p)
        /\ \A r \in p : r.op \in {"evidence", "result"} /\ ~r.cut => r.arg = s.u.selected.id
        /\ Uncut(p, "evidence") /\ Uncut(p, "result")
    BY RunRequestsAre
  <2>2. Formed(p)
    BY RunRequestsFormed
  <2> HIDE DEF p
  <2>3. Asked(p, s.u.screen, s.u.selected) /\ RunShown(s.u, p)
    BY <1>3, <2>1 DEF Asked, RunShown
  <2>4. Fetched(s.u, p)
    BY <2>1, FetchedDependsOn DEF Leaves, SameShown
  <2>5. s.u.screen # ui.screen => s.u.own = {} /\ s.u.evidence = 0 /\ ~Uncut(p, "urls")
    BY <2>1 DEF Mounting, Uncut, ShownOps
  <2>6. StepOk([u |-> s.u, q |-> p])
    BY <2>2 DEF StepOk
  <2>7. RunDone([u |-> s.u, q |-> p])
    BY <2>3, <2>4, <2>5, <2>6 DEF RunDone
  <2> QED
    BY <2>7 DEF p
<1> QED
  BY <1>1, <1>2, <1>3, RunCases

LEMMA FetchingAdds ==
  ASSUME NEW s, StepOk(s)
  PROVE  /\ Formed(Fetching(s))
         /\ \A r : r.op # "urls" => (r \in s.q <=> r \in Fetching(s))
         /\ \A r \in Fetching(s) : r.op = "urls" =>
              \/ r \in Cut(s.q, {"urls"})
              \/ /\ r.at = "ok" /\ r.arg = s.u.evidenceNo /\ ~r.cut
                 /\ r.ans = [todo |-> ArtifactsOf(s.u.evidence), got |-> {}]
         /\ Uncut(Fetching(s), "urls")
         /\ Cut(s.q, {"urls"}) \subseteq Fetching(s)
<1> DEFINE cut == Cut(s.q, {"urls"})
           ans == [todo |-> ArtifactsOf(s.u.evidence), got |-> {}]
           new == [Read("urls", s.u.evidenceNo, TRUE) EXCEPT !.ans = ans]
<1>1. /\ DOMAIN new = {"op", "arg", "no", "at", "cut", "ans"} /\ new.op = "urls" /\ new.arg = s.u.evidenceNo
      /\ new.at = "ok" /\ new.cut = FALSE /\ new.ans = ans
  BY DEF Ask, Read
<1>2. Fetching(s) = Sent(cut, new)
  BY DEF Fetching
<1>3. Formed(cut)
  BY CutFormed DEF StepOk
<1>4. \A r : r.op # "urls" => (r \in s.q <=> r \in cut)
  BY CutOthers DEF StepOk
<1> HIDE DEF cut, new, ans
<1>5. IsSent(cut, new, Fetching(s))
  BY <1>1, <1>2, SentAdds
<1>6. PICK sent : /\ Fetching(s) = cut \cup {sent} /\ sent.op = new.op /\ sent.arg = new.arg
                  /\ sent.at = new.at /\ sent.cut = new.cut /\ sent.ans = new.ans
                  /\ DOMAIN sent = {"op", "arg", "no", "at", "cut", "ans"}
  BY <1>5 DEF IsSent
<1>7. Formed(Fetching(s))
  BY <1>1, <1>3, <1>6 DEF Formed
<1>8. \A r : r.op # "urls" => (r \in s.q <=> r \in Fetching(s))
  BY <1>1, <1>4, <1>6
<1>9. \A r \in Fetching(s) : r.op = "urls" =>
        r \in cut \/ (r.at = "ok" /\ r.arg = s.u.evidenceNo /\ ~r.cut /\ r.ans = ans)
  BY <1>1, <1>6
<1>10. Uncut(Fetching(s), "urls") /\ cut \subseteq Fetching(s)
  BY <1>1, <1>6 DEF Uncut
<1> QED
  BY <1>7, <1>8, <1>9, <1>10 DEF cut, ans

LEMMA ArtifactNamesItsRun == ASSUME NEW run, NEW artifact \in ArtifactsOf(run) PROVE artifact[1] = run
BY DEF ArtifactsOf

(* The fetches of the evidence before, cut off, with no URLs of their own. *)
LEMMA OldFetches ==
  ASSUME NEW s, RunDone(s), ui.evidenceNo \in Nat, s.u.evidenceNo # ui.evidenceNo,
         NEW r \in Cut(s.q, {"urls"}), r.op = "urls"
  PROVE  /\ FetchOk(r, {}, s.u.evidenceNo, s.u.screen)
         /\ r.cut /\ r.arg < s.u.evidenceNo
<1>1. PICK t \in s.q : SameRequest(t, r) /\ (t.op \in {"urls"} => r.cut)
  BY CutFormed DEF RunDone, StepOk
<1>2. FetchOk(t, s.u.own, ui.evidenceNo, ui.screen)
  BY <1>1 DEF RunDone, Fetched, Fetches, SameRequest
<1>3. s.u.evidenceNo \in Nat /\ s.u.evidenceNo > ui.evidenceNo
  BY DEF RunDone, Fetched, StepOk, Shaped
<1> QED
  BY <1>1, <1>2, <1>3 DEF FetchOk, SameRequest

ArtifactDone(s) ==
  /\ StepOk(s)
  /\ Shown(s.u, s.q)

LEMMA ArtifactStage ==
  ASSUME NEW s, RunDone(s), ui.evidenceNo \in Nat
  PROVE  ArtifactDone(ArtifactEffect(s))
<1>1. StepOk(s) /\ Shaped(s.u) /\ Formed(s.q) /\ s.u.evidenceNo \in Nat
  BY DEF RunDone, StepOk, Shaped
<1>2. ASSUME s.u.screen # "Runs" \/ s.u.evidenceNo = ui.evidenceNo
      PROVE  ArtifactDone(s)
  <2>1. s.u.evidenceNo = ui.evidenceNo
    BY <1>2 DEF RunDone, Fetched
  <2>2. Fetches(s.u, s.q, s.u.evidenceNo, s.u.screen)
    <3>1. Fetches(s.u, s.q, s.u.evidenceNo, ui.screen)
      BY <2>1 DEF RunDone, Fetched
    <3>2. s.u.screen # ui.screen => \A r \in s.q : r.op = "urls" => r.cut
      BY DEF RunDone, Uncut
    <3>3. ASSUME NEW r \in s.q, r.op = "urls" PROVE FetchOk(r, s.u.own, s.u.evidenceNo, s.u.screen)
      BY <3>1, <3>2, <3>3 DEF Fetches, FetchOk
    <3> QED
      BY <3>1, <3>3 DEF Fetches
  <2>3. s.u.screen = "Runs" => LinksAlive(s.u, s.q)
    BY <2>1 DEF RunDone, Fetched, LinksAlive
  <2> QED
    BY <1>1, <2>2, <2>3 DEF RunDone, ArtifactDone, Shown
<1>3. ASSUME s.u.screen = "Runs", s.u.evidenceNo # ui.evidenceNo,
             NEW p, Formed(p),
             \A r : r.op # "urls" => (r \in s.q <=> r \in p),
             Cut(s.q, {"urls"}) \subseteq p,
             \A r \in p : r.op = "urls" =>
               \/ r \in Cut(s.q, {"urls"})
               \/ /\ r.at = "ok" /\ r.arg = s.u.evidenceNo /\ ~r.cut /\ s.u.evidence # 0
                  /\ r.ans = [todo |-> ArtifactsOf(s.u.evidence), got |-> {}],
             s.u.evidence # 0 => Uncut(p, "urls")
      PROVE  ArtifactDone([u |-> Revoked(s.u), q |-> p])
  <2> DEFINE v == Revoked(s.u)
  <2>1. /\ Shaped(v) /\ SameApp(s.u, v)
        /\ v.evidence = s.u.evidence /\ v.result = s.u.result /\ v.links = s.u.links
        /\ v.own = {} /\ v.live = s.u.live \ s.u.own /\ v.evidenceNo = s.u.evidenceNo
    BY <1>1, RevokedFields
  <2> HIDE DEF v
  <2>2. Asked(p, v.screen, v.selected) /\ RunShown(v, p)
    BY <1>3, <2>1 DEF RunDone, Asked, RunShown, Uncut, SameApp
  <2>3. LinksAlive(v, p)
    BY <1>3, <2>1 DEF LinksAlive
  <2>4. ASSUME NEW r \in p, r.op = "urls"
        PROVE  FetchOk(r, v.own, v.evidenceNo, v.screen) /\ (r.cut => r.arg < v.evidenceNo) /\ (~r.cut => r.arg = v.evidenceNo)
    <3>1. CASE r \in Cut(s.q, {"urls"})
      BY <1>3, <2>1, <2>4, <3>1, OldFetches DEF SameApp
    <3>2. CASE /\ r.at = "ok" /\ r.arg = s.u.evidenceNo /\ ~r.cut /\ s.u.evidence # 0
               /\ r.ans = [todo |-> ArtifactsOf(s.u.evidence), got |-> {}]
      BY <1>1, <1>3, <2>1, <3>2, ArtifactNamesItsRun DEF FetchOk, SameApp
    <3> QED
      BY <1>3, <2>4, <3>1, <3>2
  <2>5. ASSUME NEW link \in v.live PROVE \E r \in p : r.op = "urls" /\ link \in r.ans.got
    <3>1. PICK t \in s.q : t.op = "urls" /\ link \in t.ans.got
      BY <2>1, <2>5 DEF RunDone, Fetched, Fetches
    <3>2. PICK r \in Cut(s.q, {"urls"}) : SameRequest(t, r)
      BY <1>1, CutFormed
    <3> QED
      BY <1>3, <3>1, <3>2 DEF SameRequest
  <2>6. Fetches(v, p, v.evidenceNo, v.screen)
    <3>1. \A link \in v.links : link[2][1] # 0
      BY <2>1 DEF RunDone, Fetched, Fetches
    <3> QED
      BY <2>1, <2>4, <2>5, <3>1 DEF Fetches
  <2>7. StepOk([u |-> v, q |-> p])
    BY <1>3, <2>1 DEF StepOk
  <2>8. ArtifactDone([u |-> v, q |-> p])
    BY <2>2, <2>3, <2>6, <2>7 DEF ArtifactDone, Shown
  <2> QED
    BY <2>8 DEF v
<1>4. ASSUME s.u.screen = "Runs", s.u.evidenceNo # ui.evidenceNo, s.u.evidence = 0
      PROVE  ArtifactDone([u |-> Revoked(s.u), q |-> Cut(s.q, {"urls"})])
  BY <1>1, <1>3, <1>4, CutFormed, CutOthers
<1>5. ASSUME s.u.screen = "Runs", s.u.evidenceNo # ui.evidenceNo, s.u.evidence # 0
      PROVE  ArtifactDone([u |-> Revoked(s.u), q |-> Fetching(s)])
  BY <1>1, <1>3, <1>5, FetchingAdds
<1> QED
  BY <1>2, <1>4, <1>5, ArtifactCases

(* The effects that are left send nothing of the Runs screen. *)
LEMMA ShownDependsOn ==
  ASSUME NEW u, NEW q, Shown(u, q), NEW v, NEW p,
         v.screen = u.screen, v.selected = u.selected, SameShown(u, v),
         \A r : r.op \in ShownOps => (r \in q <=> r \in p)
  PROVE  Shown(v, p)
<1>1. Asked(p, v.screen, v.selected)
  BY DEF Shown, Asked, ShownOps
<1>2. RunShown(u, q) /\ LinksAlive(u, q) => RunShown(v, p) /\ LinksAlive(v, p)
  BY DEF RunShown, LinksAlive, Uncut, ShownOps, SameShown
<1>3. Fetches(v, p, v.evidenceNo, v.screen)
  BY DEF Shown, Fetches, ShownOps, SameShown
<1> QED
  BY <1>1, <1>2, <1>3 DEF Shown

LEMMA GitHubStage ==
  ASSUME NEW s, ArtifactDone(s)
  PROVE  ArtifactDone(GitHubEffects(s))
<1> DEFINE once == Sent(s.q, Ask("branches", SelectedRepo(s.u).id))
<1>1. ASSUME NEW r, r.op \in ShownOps PROVE r \in s.q <=> r \in once
  BY <1>1, AskedAdds DEF ShownOps
<1>2. ASSUME NEW r, r.op \in ShownOps PROVE r \in s.q <=> r \in GitHubRequests(s)
  <2> DEFINE new == Read("pulls", SelectedRepo(s.u).id, OnGitHub(SelectedRepo(s.u).id))
  <2>1. DOMAIN new = {"op", "arg", "no", "at", "cut", "ans"} /\ r.op # new.op
    BY <1>2 DEF Ask, Read, ShownOps
  <2> HIDE DEF new
  <2>2. r \in once <=> r \in Sent(once, new)
    BY <2>1, SentOthers
  <2> QED
    BY <1>1, <1>2, <2>2 DEF GitHubRequests, new
<1>3. Formed(once)
  BY AskFollows, FollowsItself DEF ArtifactDone, StepOk, EffectOps
<1>4. Formed(GitHubRequests(s))
  BY <1>3, ReadFollows, FollowsItself DEF GitHubRequests, EffectOps
<1> HIDE DEF once
<1>5. Shown(s.u, GitHubRequests(s))
  BY <1>2, ShownDependsOn DEF ArtifactDone, SameShown
<1>6. ArtifactDone([u |-> s.u, q |-> GitHubRequests(s)])
  BY <1>4, <1>5 DEF ArtifactDone, StepOk
<1> QED
  BY <1>6, GitHubCases DEF ArtifactDone

LEMMA PolicyStage ==
  ASSUME NEW s, ArtifactDone(s)
  PROVE  ArtifactDone(PolicyEffect(s))
<1>1. ASSUME NEW days PROVE ArtifactDone([u |-> [s.u EXCEPT !.days = days], q |-> s.q])
  <2> DEFINE v == [s.u EXCEPT !.days = days]
  <2>1. Shaped(v) /\ SameApp(s.u, v) /\ SameShown(s.u, v)
    BY DaysFields DEF ArtifactDone, StepOk
  <2> HIDE DEF v
  <2>2. Shown(v, s.q)
    BY <2>1, ShownDependsOn DEF ArtifactDone, SameApp
  <2>3. ArtifactDone([u |-> v, q |-> s.q])
    BY <2>1, <2>2 DEF ArtifactDone, StepOk
  <2> QED
    BY <2>3 DEF v
<1> QED
  BY <1>1, PolicyCases DEF ArtifactDone

(* What a handler leaves about a selection is put right by the commit. *)
LEMMA ShownCommit ==
  ASSUME NEW u, Shaped(u), NEW q, Formed(q), Commit(u, q), ui.evidenceNo \in Nat, Leaves(u, q)
  PROVE  Shown(ui', net')
<1> DEFINE s1 == ScreenChange([u |-> u, q |-> q])
           s2 == RunEffects(s1)
           s3 == ArtifactEffect(s2)
           s4 == PolicyEffect(GitHubEffects(s3))
<1>1. Leaves(s1.u, s1.q) /\ Mounting(s1.u, s1.q) /\ StepOk(s1)
  BY ScreenShown, ScreenReached DEF Reached
<1>2. ui' = s4.u /\ net' = s4.q
  BY DEF Commit
<1> HIDE DEF s1
<1>3. RunDone(s2)
  BY <1>1, RunStage
<1> HIDE DEF s2
<1>4. ArtifactDone(s3)
  BY <1>3, ArtifactStage
<1> HIDE DEF s3
<1>5. ArtifactDone(s4)
  BY <1>4, GitHubStage, PolicyStage
<1> QED
  BY <1>2, <1>5 DEF ArtifactDone

-----------------------------------------------------------------------------
(* What a handler has to leave for the commit: the state u and the requests q. *)

Rest(u, q, e) ==
  /\ RunsListed(u)
  /\ Leaves(u, q)
  /\ ServerOk(srv, q)
  /\ EditorTyped(srv, u, q)
  /\ e.ordered /\ ~e.astray => OwnTexts(srv, u, q)

LEMMA CommitOk ==
  ASSUME ConsoleOk, NEW u, Shaped(u), NEW q, Formed(q), Commit(u, q), Quiet(u, q), Rest(u, q, env'),
         srv' = srv, DOMAIN env' = DOMAIN env
  PROVE  ConsoleOk'
<1>1. Shaped(ui') /\ Formed(net') /\ SameApp(u, ui') /\ Follows(q, net', CutBy(u))
  BY CommitReached
<1>2. Quiet(ui', net')
  BY QuietCommit
<1>3. Shown(ui', net')
  BY ShownCommit DEF Rest, ConsoleOk, Shaped
<1>4. RunsListed(ui')
  BY <1>1 DEF Rest, RunsListed, SameApp
<1>5. ASSUME NEW s \in net', s.op \notin EffectOps PROVE \E r \in q : SameRequest(r, s)
  BY <1>1, <1>5 DEF Follows
<1>6. ServerOk(srv', net')
  BY <1>5 DEF Rest, ServerOk, SameRequest, EffectOps
<1>7. EditorTyped(srv', ui', net')
  <2>1. ASSUME NEW s \in net'
        PROVE  /\ s.op = "load" /\ s.at = "ok" => DOMAIN s.ans.manifest \subseteq DOMAIN srv.manifest
               /\ s.op = "createTest" /\ s.at = "ok" => s.ans \in DOMAIN srv.manifest
               /\ s.op = "manifest" => s.arg \in DOMAIN srv.manifest
               /\ s.op = "manifest" /\ s.at = "ok" => s.ans.text \in Texts
               /\ s.op = "update" => s.arg.text \in Texts
    BY <1>5, <2>1 DEF Rest, EditorTyped, SameRequest, EffectOps
  <2> QED
    BY <1>1, <2>1 DEF Rest, EditorTyped, SameApp
<1>8. ASSUME env'.ordered, ~env'.astray PROVE OwnTexts(srv', ui', net')
  <2>1. ASSUME NEW s \in net'
        PROVE  /\ s.op = "manifest" => s.arg = u.editing
               /\ s.op = "manifest" /\ s.at = "ok" => s.ans.text.of = s.arg
               /\ s.op = "update" => s.arg.text.of = s.arg.test
    BY <1>5, <1>8, <2>1 DEF Rest, OwnTexts, SameRequest, EffectOps
  <2> QED
    BY <1>1, <1>8, <2>1 DEF Rest, OwnTexts, SameApp
<1> QED
  BY <1>1, <1>2, <1>3, <1>4, <1>6, <1>7, <1>8 DEF ConsoleOk

(* Requests that differ in their number only. *)
Twin(r, s) == s.op = r.op /\ s.arg = r.arg /\ s.at = r.at /\ s.cut = r.cut /\ s.ans = r.ans
(* A request that no part of the invariant is about. *)
Harmless(r) ==
  /\ r.op \notin ShownOps \cup {"manifest", "update"}
  /\ r.op \in {"load", "createTest"} => r.at # "ok"

LEMMA RestNow ==
  ASSUME ConsoleOk, NEW e, e.ordered /\ ~e.astray => env.ordered /\ ~env.astray
  PROVE  Rest(ui, net, e)
<1>1. Leaves(ui, net)
  BY DEF ConsoleOk, Shown, Leaves, Fetched, Shaped
<1> QED
  BY <1>1 DEF ConsoleOk, Rest

LEMMA LeavesTwins ==
  ASSUME NEW u, NEW q, Leaves(u, q), NEW p,
         \A s \in p : s.op \in ShownOps => \E r \in q : Twin(r, s),
         \A r \in q : r.op \in ShownOps /\ (r.op = "urls" \/ ~r.cut) => \E s \in p : Twin(r, s)
  PROVE  Leaves(u, p)
<1>1. Asked(p, ui.screen, ui.selected)
  BY DEF Leaves, Asked, Twin, ShownOps
<1>2. \A op \in ShownOps : Uncut(q, op) => Uncut(p, op)
  BY DEF Uncut, Twin
<1>3. Fetches(u, p, ui.evidenceNo, ui.screen)
  <2>1. Fetches(u, q, ui.evidenceNo, ui.screen)
    BY DEF Leaves, Fetched
  <2>2. \A s \in p : s.op = "urls" => \E r \in q : Twin(r, s)
    BY DEF ShownOps
  <2>3. ASSUME NEW s \in p, s.op = "urls" PROVE FetchOk(s, u.own, ui.evidenceNo, ui.screen)
    BY <2>1, <2>2, <2>3 DEF Fetches, FetchOk, Twin
  <2>4. ASSUME NEW r \in p, NEW s \in p, r.op = "urls", s.op = "urls", r.cut, ~s.cut PROVE r.arg < s.arg
    BY <2>1, <2>2, <2>4 DEF Fetches, Twin
  <2>5. ASSUME NEW link \in u.live PROVE link \in u.own \/ \E s \in p : s.op = "urls" /\ link \in s.ans.got
    BY <2>1, <2>5 DEF Fetches, Twin, ShownOps
  <2> QED
    BY <2>1, <2>3, <2>4, <2>5 DEF Fetches
<1>4. LinksAlive(u, q) => LinksAlive(u, p)
  BY <1>2 DEF LinksAlive, ShownOps
<1>5. RunShown(u, q) => RunShown(u, p)
  BY <1>2 DEF RunShown, ShownOps
<1> QED
  BY <1>1, <1>3, <1>4, <1>5 DEF Leaves, Fetched

LEMMA RestTwins ==
  ASSUME NEW u, NEW q, NEW e, Rest(u, q, e), NEW p,
         \A s \in p : Harmless(s) \/ \E r \in q : Twin(r, s),
         \A r \in q : r.op \in ShownOps => \E s \in p : Twin(r, s)
  PROVE  Rest(u, p, e)
<1>1. Leaves(u, p)
  BY LeavesTwins DEF Rest, Harmless
<1>2. ServerOk(srv, p)
  BY DEF Rest, ServerOk, Twin, Harmless
<1>3. EditorTyped(srv, u, p)
  BY DEF Rest, EditorTyped, Twin, Harmless
<1>4. e.ordered /\ ~e.astray => OwnTexts(srv, u, p)
  BY DEF Rest, OwnTexts, Twin, Harmless
<1> QED
  BY <1>1, <1>2, <1>3, <1>4 DEF Rest

(* A handler that leaves what is shown, and what the editor holds. *)
SameEditor(u, v) == v.editing = u.editing /\ v.loading = u.loading /\ v.text = u.text
LEMMA LeavesFields ==
  ASSUME NEW u, NEW q, Leaves(u, q), u.evidenceNo = ui.evidenceNo, u.screen = ui.screen, u.selected = ui.selected,
         NEW v, SameShown(u, v)
  PROVE  Leaves(v, q)
<1>1. v.screen = ui.screen /\ v.selected = ui.selected => (RunShown(u, q) => RunShown(v, q))
  BY DEF RunShown, SameShown
<1>2. LinksAlive(u, q) => LinksAlive(v, q)
  BY DEF LinksAlive, SameShown
<1>3. Fetched(v, q)
  BY <1>2 DEF Leaves, Fetched, Fetches, SameShown
<1> QED
  BY <1>1, <1>3 DEF Leaves

LEMMA RestFields ==
  ASSUME NEW u, NEW q, NEW e, Rest(u, q, e), u.evidenceNo = ui.evidenceNo, u.screen = ui.screen, u.selected = ui.selected,
         NEW v, SameShown(u, v), SameEditor(u, v), RunsListed(v), v.tests \in Seq(DOMAIN srv.manifest)
  PROVE  Rest(v, q, e)
<1>1. Leaves(v, q)
  BY LeavesFields DEF Rest
<1>2. EditorTyped(srv, v, q)
  BY DEF Rest, EditorTyped, SameEditor
<1>3. e.ordered /\ ~e.astray => OwnTexts(srv, v, q)
  BY DEF Rest, OwnTexts, SameEditor
<1> QED
  BY <1>1, <1>2, <1>3 DEF Rest

LEMMA SentTwins ==
  ASSUME NEW q, NEW new, DOMAIN new = {"op", "arg", "no", "at", "cut", "ans"}, Harmless(new)
  PROVE  /\ \A s \in Sent(q, new) : Harmless(s) \/ \E r \in q : Twin(r, s)
         /\ \A r \in q : \E s \in Sent(q, new) : Twin(r, s)
<1>1. IsSent(q, new, Sent(q, new))
  BY SentAdds
<1>2. PICK sent : Sent(q, new) = q \cup {sent} /\ sent.op = new.op /\ sent.at = new.at
  BY <1>1 DEF IsSent
<1> QED
  BY <1>2 DEF Harmless, Twin

LEMMA WithoutTwins ==
  ASSUME Formed(net), NEW r \in net
  PROVE  /\ Formed(Without(r))
         /\ \A s \in Without(r) : \E t \in net : t # r /\ Twin(t, s)
         /\ \A t \in net : t # r => \E s \in Without(r) : Twin(t, s)
<1> DEFINE moved(t) == IF env.ordered THEN [t EXCEPT !.no = @ - 1] ELSE t
<1>1. \A t \in net : Twin(t, moved(t)) /\ DOMAIN moved(t) = {"op", "arg", "no", "at", "cut", "ans"} /\ moved(t).cut \in BOOLEAN
  BY DEF Formed, Twin
<1>2. Without(r) = {moved(t) : t \in net \ {r}}
  BY DEF Without
<1> HIDE DEF moved
<1>3. Formed(Without(r))
  BY <1>1, <1>2 DEF Formed
<1>4. \A s \in Without(r) : \E t \in net : t # r /\ Twin(t, s)
  BY <1>1, <1>2
<1>5. \A t \in net : t # r => \E s \in Without(r) : Twin(t, s)
  BY <1>1, <1>2
<1> QED
  BY <1>3, <1>4, <1>5

-----------------------------------------------------------------------------
(* Most handlers leave what is shown and what the editor holds.                *)

Mild(u) ==
  /\ Shaped(u)
  /\ SameShown(ui, u) /\ SameEditor(ui, u)
  /\ RunsListed(u)
  /\ u.tests \in Seq(DOMAIN srv.manifest)
LEMMA MildNow == ASSUME ConsoleOk PROVE Mild(ui)
BY DEF ConsoleOk, Mild, SameShown, SameEditor, EditorTyped

(* What of the environment the invariant is about. *)
SameEnv == srv' = srv /\ DOMAIN env' = DOMAIN env /\ env'.ordered = env.ordered /\ env'.astray = env.astray
LEMMA ClickEnv == ASSUME ConsoleOk, NEW screen, Click(screen) PROVE SameEnv
BY DEF ConsoleOk, Click, SameEnv
LEMMA ClosureEnv == Closure => SameEnv
BY DEF Closure, SameEnv

LEMMA MildRest ==
  ASSUME ConsoleOk, SameEnv, NEW u, Mild(u)
  PROVE  Rest(u, net, env')
<1>1. Rest(ui, net, env')
  BY RestNow DEF SameEnv
<1> QED
  BY <1>1, RestFields DEF Mild

(* The page says it is busy only where it did, or where the request sent is  *)
(* what it says.                                                             *)
Calm(u) ==
  /\ u.timers = ui.timers
  /\ u.running => ui.running
  /\ u.loading => ui.loading
  /\ u.creating => ui.creating
  /\ u.syncing => ui.syncing
  /\ u.triggering # 0 => ui.triggering # 0
  /\ u.updating # 0 => ui.updating # 0
BusyWith(u, op) ==
  /\ u.timers = ui.timers
  /\ u.running => ui.running \/ op = "startRun"
  /\ u.loading => ui.loading \/ op = "manifest"
  /\ u.creating => ui.creating \/ op = "createTest"
  /\ u.syncing => ui.syncing \/ op = "sync"
  /\ u.triggering # 0 => ui.triggering # 0 \/ op = "trigger"
  /\ u.updating # 0 => ui.updating # 0 \/ op = "decide"
(* ... and where the answer to r is not what it waited for. *)
BusyBut(u, r) ==
  /\ u.timers = ui.timers
  /\ u.running => ui.running /\ r.op # "startRun"
  /\ u.loading => ui.loading /\ r.op # "manifest"
  /\ u.creating => ui.creating /\ (r.op # "createTest" \/ r.cut)
  /\ u.syncing => ui.syncing /\ (r.op # "sync" \/ r.cut)
  /\ u.triggering # 0 => ui.triggering # 0 /\ (r.op # "trigger" \/ r.cut)
  /\ u.updating # 0 => ui.updating # 0 /\ (r.op # "decide" \/ r.cut)

LEMMA QuietSent ==
  ASSUME Quiet(ui, net), NEW u, NEW new, DOMAIN new = {"op", "arg", "no", "at", "cut", "ans"}, new.cut = FALSE,
         BusyWith(u, new.op)
  PROVE  Quiet(u, Sent(net, new))
<1>1. IsSent(net, new, Sent(net, new))
  BY SentAdds
<1>2. PICK sent : Sent(net, new) = net \cup {sent} /\ sent.op = new.op /\ sent.cut = new.cut
  BY <1>1 DEF IsSent
<1> QED
  BY <1>2 DEF Quiet, Uncut, BusyWith

LEMMA QuietBut ==
  ASSUME Quiet(ui, net), Formed(net), NEW r \in net, NEW u, BusyBut(u, r)
  PROVE  Quiet(u, Without(r))
<1>1. \A t \in net : t # r => \E s \in Without(r) : Twin(t, s)
  BY WithoutTwins
<1>2. ASSUME NEW op, op # r.op, \E t \in net : t.op = op PROVE \E s \in Without(r) : s.op = op
  BY <1>1, <1>2 DEF Twin
<1>3. ASSUME NEW op, op # r.op \/ r.cut, Uncut(net, op) PROVE Uncut(Without(r), op)
  BY <1>1, <1>3 DEF Twin, Uncut
<1> QED
  BY <1>2, <1>3 DEF Quiet, BusyBut

LEMMA MildClick ==
  ASSUME ConsoleOk, SameEnv, NEW u, Mild(u), Calm(u), Commit(u, net)
  PROVE  ConsoleOk'
<1>1. Quiet(u, net)
  BY DEF ConsoleOk, Quiet, Calm
<1> QED
  BY <1>1, MildRest, CommitOk DEF ConsoleOk, Mild, SameEnv

LEMMA MildSent ==
  ASSUME ConsoleOk, SameEnv, NEW u, Mild(u),
         NEW new, DOMAIN new = {"op", "arg", "no", "at", "cut", "ans"}, new.cut = FALSE, Harmless(new),
         BusyWith(u, new.op), Commit(u, Sent(net, new))
  PROVE  ConsoleOk'
<1>1. Rest(u, net, env')
  BY MildRest
<1>2. Rest(u, Sent(net, new), env')
  BY <1>1, SentTwins, RestTwins
<1>3. Quiet(u, Sent(net, new))
  BY QuietSent DEF ConsoleOk
<1>4. Formed(Sent(net, new))
  BY SentFormed DEF ConsoleOk
<1> QED
  BY <1>2, <1>3, <1>4, CommitOk DEF Mild, SameEnv

LEMMA MildAsk ==
  ASSUME ConsoleOk, SameEnv, NEW u, Mild(u), NEW op, op \notin ShownOps \cup {"manifest", "update"}, BusyWith(u, op),
         NEW arg, Commit(u, Sent(net, Ask(op, arg)))
  PROVE  ConsoleOk'
<1> DEFINE new == Ask(op, arg)
<1>1. DOMAIN new = {"op", "arg", "no", "at", "cut", "ans"} /\ new.cut = FALSE /\ new.op = op /\ new.at = "sent"
  BY DEF Ask
<1> HIDE DEF new
<1>2. Harmless(new)
  BY <1>1 DEF Harmless
<1>3. Commit(u, Sent(net, new))
  BY DEF new
<1> QED
  BY <1>1, <1>2, <1>3, MildSent

LEMMA MildRead ==
  ASSUME ConsoleOk, SameEnv, NEW u, Mild(u),
         NEW op, op \notin ShownOps \cup {"manifest", "update", "load", "createTest"}, BusyWith(u, op),
         NEW arg, NEW found, Commit(u, Sent(net, Read(op, arg, found)))
  PROVE  ConsoleOk'
<1> DEFINE new == Read(op, arg, found)
<1>1. DOMAIN new = {"op", "arg", "no", "at", "cut", "ans"} /\ new.cut = FALSE /\ new.op = op
  BY DEF Ask, Read
<1> HIDE DEF new
<1>2. Harmless(new)
  BY <1>1 DEF Harmless
<1>3. Commit(u, Sent(net, new))
  BY DEF new
<1> QED
  BY <1>1, <1>2, <1>3, MildSent

(* The requests that are left when one that is not of the Runs screen has    *)
(* been answered.                                                            *)
LEMMA RestWithout ==
  ASSUME ConsoleOk, NEW r \in net, NEW u, NEW e, Rest(u, net, e), r.op \notin ShownOps
  PROVE  Rest(u, Without(r), e)
<1>1. /\ \A s \in Without(r) : \E t \in net : t # r /\ Twin(t, s)
      /\ \A t \in net : t # r => \E s \in Without(r) : Twin(t, s)
  BY WithoutTwins DEF ConsoleOk
<1> QED
  BY <1>1, RestTwins

LEMMA MildAnswer ==
  ASSUME ConsoleOk, SameEnv, NEW r \in net, r.op \notin ShownOps, NEW u, Mild(u), BusyBut(u, r), Commit(u, Without(r))
  PROVE  ConsoleOk'
<1>1. Rest(u, Without(r), env')
  BY MildRest, RestWithout
<1>2. Quiet(u, Without(r))
  BY QuietBut DEF ConsoleOk
<1>3. Formed(Without(r))
  BY WithoutTwins DEF ConsoleOk
<1> QED
  BY <1>1, <1>2, <1>3, CommitOk DEF Mild, SameEnv

-----------------------------------------------------------------------------
(* The user's clicks that leave what is shown and what the editor holds.       *)

LEMMA GoOk == ASSUME ConsoleOk, NEW screen, Go(screen) PROVE ConsoleOk'
<1> DEFINE u == [ui EXCEPT !.screen = screen]
<1>1. SameEnv
  BY ClickEnv DEF Go
<1>2. Mild(u) /\ Calm(u)
  BY MildNow DEF Go, Mild, Shaped, AppFields, LocalFields, SameShown, SameEditor, RunsListed, Calm
<1>3. Commit(u, net)
  BY DEF Go
<1> HIDE DEF u
<1> QED
  BY <1>1, <1>2, <1>3, MildClick

LEMMA SelectRepositoryOk == ASSUME ConsoleOk, NEW repo, SelectRepository(repo) PROVE ConsoleOk'
<1> DEFINE u == [ui EXCEPT !.repo = repo]
<1>1. SameEnv
  BY ClickEnv DEF SelectRepository
<1>2. Mild(u) /\ Calm(u)
  BY MildNow DEF SelectRepository, Mild, Shaped, AppFields, LocalFields, SameShown, SameEditor, RunsListed, Calm
<1>3. Commit(u, net)
  BY DEF SelectRepository
<1> HIDE DEF u
<1> QED
  BY <1>1, <1>2, <1>3, MildClick

LEMMA SwitchLocaleOk == ASSUME ConsoleOk, SwitchLocale PROVE ConsoleOk'
<1> DEFINE u == [ui EXCEPT !.locale = IF @ = "en" THEN "ja" ELSE "en"]
<1>1. SameEnv
  BY ClickEnv DEF SwitchLocale
<1>2. Mild(u) /\ Calm(u)
  BY MildNow DEF SwitchLocale, Mild, Shaped, AppFields, LocalFields, SameShown, SameEditor, RunsListed, Calm
<1>3. Commit(u, net)
  BY DEF SwitchLocale
<1> HIDE DEF u
<1> QED
  BY <1>1, <1>2, <1>3, MildClick

LEMMA TypeBaseOk == ASSUME ConsoleOk, TypeBase PROVE ConsoleOk'
<1> DEFINE u == [ui EXCEPT !.base = 0]
<1>1. SameEnv
  BY ClickEnv DEF TypeBase
<1>2. Mild(u) /\ Calm(u)
  BY MildNow DEF TypeBase, Mild, Shaped, AppFields, LocalFields, SameShown, SameEditor, RunsListed, Calm
<1>3. Commit(u, net)
  BY DEF TypeBase
<1> HIDE DEF u
<1> QED
  BY <1>1, <1>2, <1>3, MildClick

LEMMA TypeDaysOk == ASSUME ConsoleOk, NEW days, TypeDays(days) PROVE ConsoleOk'
<1> DEFINE u == [ui EXCEPT !.days = days]
<1>1. SameEnv
  BY ClickEnv DEF TypeDays
<1>2. Mild(u) /\ Calm(u)
  BY MildNow DEF TypeDays, Mild, Shaped, AppFields, LocalFields, SameShown, SameEditor, RunsListed, Calm
<1>3. Commit(u, net)
  BY DEF TypeDays
<1> HIDE DEF u
<1> QED
  BY <1>1, <1>2, <1>3, MildClick

LEMMA TypeSecretOk == ASSUME ConsoleOk, NEW value, TypeSecret(value) PROVE ConsoleOk'
<1> DEFINE u == [ui EXCEPT !.value = value]
<1>1. SameEnv
  BY ClickEnv DEF TypeSecret
<1>2. Mild(u) /\ Calm(u)
  BY MildNow DEF TypeSecret, Mild, Shaped, AppFields, LocalFields, SameShown, SameEditor, RunsListed, Calm
<1>3. Commit(u, net)
  BY DEF TypeSecret
<1> HIDE DEF u
<1> QED
  BY <1>1, <1>2, <1>3, MildClick

LEMMA CancelRunOk == ASSUME ConsoleOk, CancelRun PROVE ConsoleOk'
<1>1. SameEnv
  BY ClickEnv DEF CancelRun
<1>2. Mild(ui) /\ BusyWith(ui, "cancel")
  BY MildNow DEF BusyWith
<1>3. Commit(ui, Sent(net, Ask("cancel", ui.selected.id)))
  BY DEF CancelRun
<1> QED
  BY <1>1, <1>2, <1>3, MildAsk DEF ShownOps

LEMMA CreateTestOk == ASSUME ConsoleOk, CreateTest PROVE ConsoleOk'
<1> DEFINE u == [ui EXCEPT !.creating = TRUE]
<1>1. SameEnv
  BY ClickEnv DEF CreateTest
<1>2. Mild(u) /\ BusyWith(u, "createTest")
  BY MildNow DEF CreateTest, Mild, Shaped, AppFields, LocalFields, SameShown, SameEditor, RunsListed, BusyWith
<1>3. Commit(u, Sent(net, Ask("createTest", 0)))
  BY DEF CreateTest
<1> HIDE DEF u
<1> QED
  BY <1>1, <1>2, <1>3, MildAsk DEF ShownOps

LEMMA TriggerOk == ASSUME ConsoleOk, NEW schedule, Trigger(schedule) PROVE ConsoleOk'
<1> DEFINE u == [ui EXCEPT !.triggering = schedule]
<1>1. SameEnv
  BY ClickEnv DEF Trigger
<1>2. Mild(u) /\ BusyWith(u, "trigger")
  BY MildNow DEF Trigger, Mild, Shaped, AppFields, LocalFields, SameShown, SameEditor, RunsListed, BusyWith
<1>3. Commit(u, Sent(net, Ask("trigger", schedule)))
  BY DEF Trigger
<1> HIDE DEF u
<1> QED
  BY <1>1, <1>2, <1>3, MildAsk DEF ShownOps

LEMMA SyncOk == ASSUME ConsoleOk, Sync PROVE ConsoleOk'
<1> DEFINE u == [ui EXCEPT !.syncing = TRUE]
<1>1. SameEnv
  BY ClickEnv DEF Sync
<1>2. Mild(u) /\ BusyWith(u, "sync")
  BY MildNow DEF Sync, Mild, Shaped, AppFields, LocalFields, SameShown, SameEditor, RunsListed, BusyWith
<1>3. Commit(u, Sent(net, Ask("sync", Repo)))
  BY DEF Sync
<1> HIDE DEF u
<1> QED
  BY <1>1, <1>2, <1>3, MildAsk DEF ShownOps

LEMMA CompareOk == ASSUME ConsoleOk, Compare PROVE ConsoleOk'
<1>1. SameEnv
  BY ClickEnv DEF Compare
<1>2. Mild(ui) /\ BusyWith(ui, "compare")
  BY MildNow DEF BusyWith
<1>3. Commit(ui, Sent(net, Read("compare", Repo, OnGitHub(Repo))))
  BY DEF Compare
<1> QED
  BY <1>1, <1>2, <1>3, MildRead DEF ShownOps

LEMMA LoadFileOk == ASSUME ConsoleOk, LoadFile PROVE ConsoleOk'
<1>1. SameEnv
  BY ClickEnv DEF LoadFile
<1>2. Mild(ui) /\ BusyWith(ui, "file")
  BY MildNow DEF BusyWith
<1>3. Commit(ui, Sent(net, Read("file", Repo, OnGitHub(Repo))))
  BY DEF LoadFile
<1> QED
  BY <1>1, <1>2, <1>3, MildRead DEF ShownOps

LEMMA CommitFileOk == ASSUME ConsoleOk, CommitFile PROVE ConsoleOk'
<1>1. SameEnv
  BY ClickEnv DEF CommitFile
<1>2. Mild(ui) /\ BusyWith(ui, "commit")
  BY MildNow DEF BusyWith
<1>3. Commit(ui, Sent(net, Read("commit", Repo, OnGitHub(Repo))))
  BY DEF CommitFile
<1> QED
  BY <1>1, <1>2, <1>3, MildRead DEF ShownOps

LEMMA CreatePrOk == ASSUME ConsoleOk, CreatePr PROVE ConsoleOk'
<1>1. SameEnv
  BY ClickEnv DEF CreatePr
<1>2. Mild(ui) /\ BusyWith(ui, "createPr")
  BY MildNow DEF BusyWith
<1>3. Commit(ui, Sent(net, Read("createPr", Repo, OnGitHub(Repo))))
  BY DEF CreatePr
<1> QED
  BY <1>1, <1>2, <1>3, MildRead DEF ShownOps

LEMMA CreateChangeOk == ASSUME ConsoleOk, CreateChange PROVE ConsoleOk'
<1>1. SameEnv
  BY ClickEnv DEF CreateChange
<1>2. Mild(ui) /\ BusyWith(ui, "createChange")
  BY MildNow DEF BusyWith
<1>3. Commit(ui, Sent(net, Ask("createChange", 0)))
  BY DEF CreateChange
<1> QED
  BY <1>1, <1>2, <1>3, MildAsk DEF ShownOps

LEMMA DecideOk == ASSUME ConsoleOk, NEW n, NEW status, Decide(n, status) PROVE ConsoleOk'
<1> DEFINE u == [ui EXCEPT !.updating = ui.changes[n].id]
<1>1. SameEnv
  BY ClickEnv DEF Decide
<1>2. Mild(u) /\ BusyWith(u, "decide")
  BY MildNow DEF Decide, Mild, Shaped, AppFields, LocalFields, SameShown, SameEditor, RunsListed, BusyWith
<1>3. Commit(u, Sent(net, Ask("decide", [id |-> ui.changes[n].id, status |-> status])))
  BY DEF Decide
<1> HIDE DEF u
<1> QED
  BY <1>1, <1>2, <1>3, MildAsk DEF ShownOps

LEMMA SavePolicyOk == ASSUME ConsoleOk, SavePolicy PROVE ConsoleOk'
<1>1. SameEnv
  BY ClickEnv DEF SavePolicy
<1>2. Mild(ui) /\ BusyWith(ui, "savePolicy")
  BY MildNow DEF BusyWith
<1>3. Commit(ui, Sent(net, Ask("savePolicy", ui.days)))
  BY DEF SavePolicy
<1> QED
  BY <1>1, <1>2, <1>3, MildAsk DEF ShownOps

LEMMA SaveSecretOk == ASSUME ConsoleOk, SaveSecret PROVE ConsoleOk'
<1>1. SameEnv
  BY ClickEnv DEF SaveSecret
<1>2. Mild(ui) /\ BusyWith(ui, "saveSecret")
  BY MildNow DEF BusyWith
<1>3. Commit(ui, Sent(net, Ask("saveSecret", ui.value)))
  BY DEF SaveSecret
<1> QED
  BY <1>1, <1>2, <1>3, MildAsk DEF ShownOps

LEMMA RotateSecretOk == ASSUME ConsoleOk, NEW secret, RotateSecret(secret) PROVE ConsoleOk'
<1>1. SameEnv
  BY ClickEnv DEF RotateSecret
<1>2. Mild(ui) /\ BusyWith(ui, "rotateSecret")
  BY MildNow DEF BusyWith
<1>3. Commit(ui, Sent(net, Ask("rotateSecret", [id |-> secret, value |-> ui.value])))
  BY DEF RotateSecret
<1> QED
  BY <1>1, <1>2, <1>3, MildAsk DEF ShownOps

LEMMA CreateBranchOk == ASSUME ConsoleOk, CreateBranch PROVE ConsoleOk'
<1>1. SameEnv
  BY ClickEnv DEF CreateBranch
<1>2. PICK from : Commit(ui, Sent(net, Ask("createBranch", [repo |-> Repo, from |-> from])))
  BY DEF CreateBranch
<1>3. Mild(ui) /\ BusyWith(ui, "createBranch")
  BY MildNow DEF BusyWith
<1> QED
  BY <1>1, <1>2, <1>3, MildAsk DEF ShownOps

(* Without a server, or a test, the page only waits for a timer. *)
LEMMA StartRunOk == ASSUME ConsoleOk, SameEnv, NEW requested, StartRun(requested) PROVE ConsoleOk'
<1> DEFINE u == [ui EXCEPT !.running = TRUE]
           v == [u EXCEPT !.timers = @ + 1]
<1>1. Mild(u) /\ BusyWith(u, "startRun")
  BY MildNow DEF Mild, Shaped, AppFields, LocalFields, SameShown, SameEditor, RunsListed, BusyWith
<1>2. Mild(v)
  BY MildNow DEF Mild, Shaped, AppFields, LocalFields, SameShown, SameEditor, RunsListed
<1>3. Quiet(v, net)
  BY MildNow DEF Mild, ConsoleOk, Quiet, Shaped, AppFields, LocalFields
<1>4. \/ Commit(u, Sent(net, Ask("startRun", TestToRun(requested))))
      \/ Commit(v, net)
  BY DEF StartRun
<1> HIDE DEF u, v
<1>5. ASSUME Commit(v, net) PROVE ConsoleOk'
  BY <1>2, <1>3, <1>5, MildRest, CommitOk DEF ConsoleOk, Mild, SameEnv
<1> QED
  BY <1>1, <1>4, <1>5, MildAsk DEF ShownOps

LEMMA PressRunOk == ASSUME ConsoleOk, PressRun PROVE ConsoleOk'
BY ClickEnv, StartRunOk DEF PressRun

LEMMA PressRunOfOk == ASSUME ConsoleOk, NEW test, PressRunOf(test) PROVE ConsoleOk'
BY ClickEnv, StartRunOk DEF PressRunOf

LEMMA TimerFiresOk == ASSUME ConsoleOk, TimerFires PROVE ConsoleOk'
<1> DEFINE u == [ui EXCEPT !.timers = @ - 1, !.running = FALSE]
<1>1. SameEnv /\ ui.timers > 0
  BY ClosureEnv DEF TimerFires
<1>2. Mild(u)
  BY <1>1, MildNow DEF Mild, Shaped, AppFields, LocalFields, SameShown, SameEditor, RunsListed
<1>3. Quiet(u, net)
  BY MildNow DEF Mild, ConsoleOk, Quiet, Shaped, AppFields, LocalFields
<1>4. Commit(u, net)
  BY DEF TimerFires
<1> HIDE DEF u
<1> QED
  BY <1>1, <1>2, <1>3, <1>4, MildRest, CommitOk DEF ConsoleOk, Mild, SameEnv

LEMMA SelectRunOk == ASSUME ConsoleOk, NEW n, SelectRun(n) PROVE ConsoleOk'
<1> DEFINE u == [ui EXCEPT !.selected = ui.runs[n]]
<1>1. SameEnv
  BY ClickEnv DEF SelectRun
<1>2. ui.runs[n].id \in Ids(ui.runs)
  BY DEF SelectRun, Ids
<1>3. Mild(u) /\ Calm(u)
  BY <1>2, MildNow DEF Mild, Shaped, AppFields, LocalFields, SameShown, SameEditor, RunsListed, Calm
<1>4. Commit(u, net)
  BY DEF SelectRun
<1> HIDE DEF u
<1> QED
  BY <1>1, <1>3, <1>4, MildClick

-----------------------------------------------------------------------------
(* The answers that leave what is shown and what the editor holds.             *)


LEMMA LoadFailedOk == ASSUME ConsoleOk, NEW r \in net, LoadFailed(r) PROVE ConsoleOk'
<1> DEFINE u == [ui EXCEPT !.link = "error"]
<1>1. SameEnv
  BY ClosureEnv DEF LoadFailed
<1>2. r.op = "load"
  BY DEF LoadFailed, Answered
<1>3. Mild(u) /\ BusyBut(u, r)
  BY <1>2, MildNow DEF Mild, Shaped, AppFields, LocalFields, SameShown, SameEditor, RunsListed, BusyBut
<1>4. Commit(u, Without(r))
  BY DEF LoadFailed
<1> HIDE DEF u
<1> QED
  BY <1>1, <1>2, <1>3, <1>4, MildAnswer DEF ShownOps

LEMMA StartFailedOk == ASSUME ConsoleOk, NEW r \in net, StartFailed(r) PROVE ConsoleOk'
<1> DEFINE u == [ui EXCEPT !.link = "error", !.running = FALSE]
<1>1. SameEnv
  BY ClosureEnv DEF StartFailed
<1>2. r.op = "startRun"
  BY DEF StartFailed, Answered
<1>3. Mild(u) /\ BusyBut(u, r)
  BY <1>2, MildNow DEF Mild, Shaped, AppFields, LocalFields, SameShown, SameEditor, RunsListed, BusyBut
<1>4. Commit(u, Without(r))
  BY DEF StartFailed
<1> HIDE DEF u
<1> QED
  BY <1>1, <1>2, <1>3, <1>4, MildAnswer DEF ShownOps

LEMMA CancelFailedOk == ASSUME ConsoleOk, NEW r \in net, CancelFailed(r) PROVE ConsoleOk'
<1> DEFINE u == [ui EXCEPT !.link = "error"]
<1>1. SameEnv
  BY ClosureEnv DEF CancelFailed
<1>2. r.op = "cancel"
  BY DEF CancelFailed, Answered
<1>3. Mild(u) /\ BusyBut(u, r)
  BY <1>2, MildNow DEF Mild, Shaped, AppFields, LocalFields, SameShown, SameEditor, RunsListed, BusyBut
<1>4. Commit(u, Without(r))
  BY DEF CancelFailed
<1> HIDE DEF u
<1> QED
  BY <1>1, <1>2, <1>3, <1>4, MildAnswer DEF ShownOps

LEMMA VersionsListedOk == ASSUME ConsoleOk, NEW r \in net, VersionsListed(r) PROVE ConsoleOk'
<1> DEFINE u == [ui EXCEPT !.versions = [of |-> r.arg, count |-> r.ans]]
<1>1. SameEnv
  BY ClosureEnv DEF VersionsListed
<1>2. r.op = "versions"
  BY DEF VersionsListed, Answered
<1>3. Mild(u) /\ BusyBut(u, r)
  BY <1>2, MildNow DEF Mild, Shaped, AppFields, LocalFields, SameShown, SameEditor, RunsListed, BusyBut
<1>4. Commit(u, Without(r))
  BY DEF VersionsListed
<1> HIDE DEF u
<1> QED
  BY <1>1, <1>2, <1>3, <1>4, MildAnswer DEF ShownOps

LEMMA SaveFailedOk == ASSUME ConsoleOk, NEW r \in net, SaveFailed(r) PROVE ConsoleOk'
<1>1. SameEnv
  BY ClosureEnv DEF SaveFailed
<1>2. r.op \in {"update", "versions"}
  BY DEF SaveFailed, Answered
<1>3. Mild(ui) /\ BusyBut(ui, r)
  BY <1>2, MildNow DEF BusyBut
<1>4. Commit(ui, Without(r))
  BY DEF SaveFailed
<1> QED
  BY <1>1, <1>2, <1>3, <1>4, MildAnswer DEF ShownOps

LEMMA CreateTestFailedOk == ASSUME ConsoleOk, NEW r \in net, CreateTestFailed(r) PROVE ConsoleOk'
<1> DEFINE u == [ui EXCEPT !.creating = IF r.cut THEN @ ELSE FALSE]
<1>1. SameEnv
  BY ClosureEnv DEF CreateTestFailed
<1>2. r.op = "createTest"
  BY DEF CreateTestFailed, Answered
<1>3. Mild(u) /\ BusyBut(u, r)
  BY <1>2, MildNow DEF Mild, Shaped, AppFields, LocalFields, SameShown, SameEditor, RunsListed, BusyBut
<1>4. Commit(u, Without(r))
  BY DEF CreateTestFailed
<1> HIDE DEF u
<1> QED
  BY <1>1, <1>2, <1>3, <1>4, MildAnswer DEF ShownOps

LEMMA TriggerFailedOk == ASSUME ConsoleOk, NEW r \in net, TriggerFailed(r) PROVE ConsoleOk'
<1> DEFINE u == [ui EXCEPT !.triggering = IF r.cut THEN @ ELSE 0]
<1>1. SameEnv
  BY ClosureEnv DEF TriggerFailed
<1>2. r.op = "trigger"
  BY DEF TriggerFailed, Answered
<1>3. Mild(u) /\ BusyBut(u, r)
  BY <1>2, MildNow DEF Mild, Shaped, AppFields, LocalFields, SameShown, SameEditor, RunsListed, BusyBut
<1>4. Commit(u, Without(r))
  BY DEF TriggerFailed
<1> HIDE DEF u
<1> QED
  BY <1>1, <1>2, <1>3, <1>4, MildAnswer DEF ShownOps

LEMMA BranchesListedOk == ASSUME ConsoleOk, NEW r \in net, BranchesListed(r) PROVE ConsoleOk'
<1> DEFINE u == (IF r.cut THEN ui
                 ELSE [ui EXCEPT !.branches = r.ans, !.base = IF r.ans = <<>> THEN @ ELSE r.arg])
<1>1. SameEnv
  BY ClosureEnv DEF BranchesListed
<1>2. r.op = "branches"
  BY DEF BranchesListed, Answered
<1>3. Mild(u) /\ BusyBut(u, r)
  BY <1>2, MildNow DEF Mild, Shaped, AppFields, LocalFields, SameShown, SameEditor, RunsListed, BusyBut
<1>4. Commit(u, Without(r))
  BY DEF BranchesListed
<1> HIDE DEF u
<1> QED
  BY <1>1, <1>2, <1>3, <1>4, MildAnswer DEF ShownOps

LEMMA PullsListedOk == ASSUME ConsoleOk, NEW r \in net, PullsListed(r) PROVE ConsoleOk'
<1> DEFINE u == (IF r.cut THEN ui ELSE [ui EXCEPT !.pulls = r.arg])
<1>1. SameEnv
  BY ClosureEnv DEF PullsListed
<1>2. r.op = "pulls"
  BY DEF PullsListed, Answered
<1>3. Mild(u) /\ BusyBut(u, r)
  BY <1>2, MildNow DEF Mild, Shaped, AppFields, LocalFields, SameShown, SameEditor, RunsListed, BusyBut
<1>4. Commit(u, Without(r))
  BY DEF PullsListed
<1> HIDE DEF u
<1> QED
  BY <1>1, <1>2, <1>3, <1>4, MildAnswer DEF ShownOps

LEMMA SyncedOk == ASSUME ConsoleOk, NEW r \in net, Synced(r) PROVE ConsoleOk'
<1> DEFINE u == [ui EXCEPT !.repos = [n \in 1..Len(@) |-> IF @[n].id = r.arg THEN [@[n] EXCEPT !.rev = r.ans] ELSE @[n]],
                             !.syncing = IF r.cut THEN @ ELSE FALSE]
<1>1. SameEnv
  BY ClosureEnv DEF Synced
<1>2. r.op = "sync"
  BY DEF Synced, Answered
<1>3. Mild(u) /\ BusyBut(u, r)
  BY <1>2, MildNow DEF Mild, Shaped, AppFields, LocalFields, SameShown, SameEditor, RunsListed, BusyBut
<1>4. Commit(u, Without(r))
  BY DEF Synced
<1> HIDE DEF u
<1> QED
  BY <1>1, <1>2, <1>3, <1>4, MildAnswer DEF ShownOps

LEMMA SyncFailedOk == ASSUME ConsoleOk, NEW r \in net, SyncFailed(r) PROVE ConsoleOk'
<1> DEFINE u == [ui EXCEPT !.syncing = IF r.cut THEN @ ELSE FALSE]
<1>1. SameEnv
  BY ClosureEnv DEF SyncFailed
<1>2. r.op = "sync"
  BY DEF SyncFailed, Answered
<1>3. Mild(u) /\ BusyBut(u, r)
  BY <1>2, MildNow DEF Mild, Shaped, AppFields, LocalFields, SameShown, SameEditor, RunsListed, BusyBut
<1>4. Commit(u, Without(r))
  BY DEF SyncFailed
<1> HIDE DEF u
<1> QED
  BY <1>1, <1>2, <1>3, <1>4, MildAnswer DEF ShownOps

LEMMA ComparedOk == ASSUME ConsoleOk, NEW r \in net, Compared(r) PROVE ConsoleOk'
<1> DEFINE u == (IF r.cut THEN ui ELSE [ui EXCEPT !.comparison = r.arg])
<1>1. SameEnv
  BY ClosureEnv DEF Compared
<1>2. r.op = "compare"
  BY DEF Compared, Answered
<1>3. Mild(u) /\ BusyBut(u, r)
  BY <1>2, MildNow DEF Mild, Shaped, AppFields, LocalFields, SameShown, SameEditor, RunsListed, BusyBut
<1>4. Commit(u, Without(r))
  BY DEF Compared
<1> HIDE DEF u
<1> QED
  BY <1>1, <1>2, <1>3, <1>4, MildAnswer DEF ShownOps

LEMMA FileLoadedOk == ASSUME ConsoleOk, NEW r \in net, FileLoaded(r) PROVE ConsoleOk'
<1> DEFINE u == (IF r.cut THEN ui ELSE [ui EXCEPT !.file = r.arg])
<1>1. SameEnv
  BY ClosureEnv DEF FileLoaded
<1>2. r.op = "file"
  BY DEF FileLoaded, Answered
<1>3. Mild(u) /\ BusyBut(u, r)
  BY <1>2, MildNow DEF Mild, Shaped, AppFields, LocalFields, SameShown, SameEditor, RunsListed, BusyBut
<1>4. Commit(u, Without(r))
  BY DEF FileLoaded
<1> HIDE DEF u
<1> QED
  BY <1>1, <1>2, <1>3, <1>4, MildAnswer DEF ShownOps

LEMMA BranchCreatedOk == ASSUME ConsoleOk, NEW r \in net, BranchCreated(r) PROVE ConsoleOk'
<1> DEFINE u == (IF r.cut THEN ui ELSE [ui EXCEPT !.branches = Append(@, r.ans)])
<1>1. SameEnv
  BY ClosureEnv DEF BranchCreated
<1>2. r.op = "createBranch"
  BY DEF BranchCreated, Answered
<1>3. Mild(u) /\ BusyBut(u, r)
  BY <1>2, MildNow DEF Mild, Shaped, AppFields, LocalFields, SameShown, SameEditor, RunsListed, BusyBut
<1>4. Commit(u, Without(r))
  BY DEF BranchCreated
<1> HIDE DEF u
<1> QED
  BY <1>1, <1>2, <1>3, <1>4, MildAnswer DEF ShownOps

LEMMA ChangeCreatedOk == ASSUME ConsoleOk, NEW r \in net, ChangeCreated(r) PROVE ConsoleOk'
<1> DEFINE u == [ui EXCEPT !.changes = <<[id |-> r.ans, status |-> "open"]>> \o @]
<1>1. SameEnv
  BY ClosureEnv DEF ChangeCreated
<1>2. r.op = "createChange"
  BY DEF ChangeCreated, Answered
<1>3. Mild(u) /\ BusyBut(u, r)
  BY <1>2, MildNow DEF Mild, Shaped, AppFields, LocalFields, SameShown, SameEditor, RunsListed, BusyBut
<1>4. Commit(u, Without(r))
  BY DEF ChangeCreated
<1> HIDE DEF u
<1> QED
  BY <1>1, <1>2, <1>3, <1>4, MildAnswer DEF ShownOps

LEMMA ToldOk == ASSUME ConsoleOk, NEW r \in net, Told(r) PROVE ConsoleOk'
<1>1. SameEnv
  BY ClosureEnv DEF Told
<1>2. r.op \notin ShownOps \cup {"startRun", "manifest", "createTest", "sync", "trigger", "decide"}
  BY DEF Told, Answered, RequestsOf, ShownOps
<1>3. Mild(ui) /\ BusyBut(ui, r)
  BY <1>2, MildNow DEF BusyBut
<1>4. Commit(ui, Without(r))
  BY DEF Told
<1> QED
  BY <1>1, <1>2, <1>3, <1>4, MildAnswer DEF ShownOps

LEMMA DecidedOk == ASSUME ConsoleOk, NEW r \in net, Decided(r) PROVE ConsoleOk'
<1> DEFINE u == [ui EXCEPT !.changes = [n \in 1..Len(@) |-> IF @[n].id = r.arg.id THEN [@[n] EXCEPT !.status = r.ans] ELSE @[n]],
                             !.updating = IF r.cut THEN @ ELSE 0]
<1>1. SameEnv
  BY ClosureEnv DEF Decided
<1>2. r.op = "decide"
  BY DEF Decided, Answered
<1>3. Mild(u) /\ BusyBut(u, r)
  BY <1>2, MildNow DEF Mild, Shaped, AppFields, LocalFields, SameShown, SameEditor, RunsListed, BusyBut
<1>4. Commit(u, Without(r))
  BY DEF Decided
<1> HIDE DEF u
<1> QED
  BY <1>1, <1>2, <1>3, <1>4, MildAnswer DEF ShownOps

LEMMA DecideFailedOk == ASSUME ConsoleOk, NEW r \in net, DecideFailed(r) PROVE ConsoleOk'
<1> DEFINE u == [ui EXCEPT !.updating = IF r.cut THEN @ ELSE 0]
<1>1. SameEnv
  BY ClosureEnv DEF DecideFailed
<1>2. r.op = "decide"
  BY DEF DecideFailed, Answered
<1>3. Mild(u) /\ BusyBut(u, r)
  BY <1>2, MildNow DEF Mild, Shaped, AppFields, LocalFields, SameShown, SameEditor, RunsListed, BusyBut
<1>4. Commit(u, Without(r))
  BY DEF DecideFailed
<1> HIDE DEF u
<1> QED
  BY <1>1, <1>2, <1>3, <1>4, MildAnswer DEF ShownOps

LEMMA PolicySavedOk == ASSUME ConsoleOk, NEW r \in net, PolicySaved(r) PROVE ConsoleOk'
<1> DEFINE u == [ui EXCEPT !.policy = r.ans]
<1>1. SameEnv
  BY ClosureEnv DEF PolicySaved
<1>2. r.op = "savePolicy"
  BY DEF PolicySaved, Answered
<1>3. Mild(u) /\ BusyBut(u, r)
  BY <1>2, MildNow DEF Mild, Shaped, AppFields, LocalFields, SameShown, SameEditor, RunsListed, BusyBut
<1>4. Commit(u, Without(r))
  BY DEF PolicySaved
<1> HIDE DEF u
<1> QED
  BY <1>1, <1>2, <1>3, <1>4, MildAnswer DEF ShownOps

LEMMA SecretStoredOk == ASSUME ConsoleOk, NEW r \in net, SecretStored(r) PROVE ConsoleOk'
<1> DEFINE u == [ui EXCEPT !.secrets = <<r.ans>> \o Remove(@, r.ans), !.value = IF r.cut THEN @ ELSE 0]
<1>1. SameEnv
  BY ClosureEnv DEF SecretStored
<1>2. r.op \in {"saveSecret", "rotateSecret"}
  BY DEF SecretStored, Answered
<1>3. Mild(u) /\ BusyBut(u, r)
  BY <1>2, MildNow DEF Mild, Shaped, AppFields, LocalFields, SameShown, SameEditor, RunsListed, BusyBut
<1>4. Commit(u, Without(r))
  BY DEF SecretStored
<1> HIDE DEF u
<1> QED
  BY <1>1, <1>2, <1>3, <1>4, MildAnswer DEF ShownOps

-----------------------------------------------------------------------------
(* Lists.                                                                      *)

LEMMA OwnElements == ASSUME NEW S, NEW list \in Seq(S) PROVE list \in Seq(Range(list))
BY DEF Range

LEMMA IsList == ASSUME NEW m \in Nat, NEW S, NEW f \in [1..m -> S] PROVE f \in Seq(S) /\ Len(f) = m
OBVIOUS

LEMMA PrependedList ==
  ASSUME NEW S, NEW list \in Seq(S), NEW e
  PROVE  /\ <<e>> \o list \in Seq(S \cup {e})
         /\ Len(<<e>> \o list) = Len(list) + 1
         /\ (<<e>> \o list)[1] = e
         /\ \A n \in 2..(Len(list) + 1) : (<<e>> \o list)[n] = list[n - 1]
<1>1. <<e>> \in Seq(S \cup {e}) /\ list \in Seq(S \cup {e}) /\ Len(list) \in Nat
  OBVIOUS
<1> QED
  BY <1>1

LEMMA PrependedRuns ==
  ASSUME NEW list, list \in Seq(Range(list)), NEW run,
         \A n \in 1..Len(list) : DOMAIN list[n] = {"id", "test", "status"}, DOMAIN run = {"id", "test", "status"},
         NEW u, u.runs = <<run>> \o list, u.selected = run
  PROVE  RunsListed(u)
<1>1. /\ u.runs \in Seq(Range(list) \cup {run})
      /\ Len(u.runs) = Len(list) + 1 /\ Len(list) \in Nat
      /\ u.runs[1] = run
      /\ \A n \in 2..(Len(list) + 1) : u.runs[n] = list[n - 1]
  BY PrependedList
<1>2. u.runs \in Seq(Range(u.runs))
  BY <1>1, OwnElements
<1>3. ASSUME NEW n \in 1..Len(u.runs) PROVE DOMAIN u.runs[n] = {"id", "test", "status"}
  <2>1. CASE n = 1
    BY <1>1, <2>1
  <2>2. CASE n # 1
    <3>1. n \in 2..(Len(list) + 1) /\ n - 1 \in 1..Len(list)
      BY <1>1, <2>2
    <3> QED
      BY <1>1, <3>1
  <2> QED
    BY <2>1, <2>2
<1>4. run.id \in Ids(u.runs)
  BY <1>1 DEF Ids
<1> QED
  BY <1>2, <1>3, <1>4 DEF RunsListed

LEMMA RunsNow ==
  ASSUME ConsoleOk
  PROVE  /\ ui.runs \in Seq(Range(ui.runs))
         /\ \A n \in 1..Len(ui.runs) : DOMAIN ui.runs[n] = {"id", "test", "status"}
BY DEF ConsoleOk, RunsListed

LEMMA RunStartedOk == ASSUME ConsoleOk, NEW r \in net, RunStarted(r) PROVE ConsoleOk'
<1> DEFINE run == [id |-> r.ans, test |-> r.arg, status |-> "running"]
           u == [Prepended(ui, run) EXCEPT !.running = FALSE]
<1>1. SameEnv /\ r.op = "startRun"
  BY ClosureEnv DEF RunStarted, Answered
<1>2. /\ Shaped(u) /\ SameShown(ui, u) /\ SameEditor(ui, u) /\ u.tests = ui.tests
      /\ u.runs = <<run>> \o ui.runs /\ u.selected = run
      /\ BusyBut(u, r)
  BY <1>1, MildNow DEF Mild, Prepended, Shaped, AppFields, LocalFields, SameShown, SameEditor, BusyBut
<1>3. Commit(u, Without(r))
  BY DEF RunStarted
<1>4. DOMAIN run = {"id", "test", "status"}
  OBVIOUS
<1> HIDE DEF run, u
<1>5. RunsListed(u)
  BY <1>2, <1>4, RunsNow, PrependedRuns
<1>6. Mild(u)
  BY <1>2, <1>5, MildNow DEF Mild
<1> QED
  BY <1>1, <1>2, <1>3, <1>6, MildAnswer DEF ShownOps

LEMMA TriggeredOk == ASSUME ConsoleOk, NEW r \in net, Triggered(r) PROVE ConsoleOk'
<1> DEFINE run == [id |-> r.ans, test |-> ui.schedules[r.arg].test, status |-> "running"]
           u == [ui EXCEPT !.runs = <<run>> \o @, !.selected = run, !.screen = "Runs",
                           !.triggering = IF r.cut THEN @ ELSE 0]
<1>1. SameEnv /\ r.op = "trigger"
  BY ClosureEnv DEF Triggered, Answered
<1>2. /\ Shaped(u) /\ SameShown(ui, u) /\ SameEditor(ui, u) /\ u.tests = ui.tests
      /\ u.runs = <<run>> \o ui.runs /\ u.selected = run
      /\ BusyBut(u, r)
  BY <1>1, MildNow DEF Mild, Shaped, AppFields, LocalFields, SameShown, SameEditor, BusyBut
<1>3. Commit(u, Without(r))
  BY DEF Triggered
<1>4. DOMAIN run = {"id", "test", "status"}
  OBVIOUS
<1> HIDE DEF run, u
<1>5. RunsListed(u)
  BY <1>2, <1>4, RunsNow, PrependedRuns
<1>6. Mild(u)
  BY <1>2, <1>5, MildNow DEF Mild
<1> QED
  BY <1>1, <1>2, <1>3, <1>6, MildAnswer DEF ShownOps

LEMMA RunCancelledOk == ASSUME ConsoleOk, NEW r \in net, RunCancelled(r) PROVE ConsoleOk'
<1> DEFINE runs == [n \in 1..Len(ui.runs) |->
                      IF ui.runs[n].id = r.arg THEN [ui.runs[n] EXCEPT !.status = "cancelled"] ELSE ui.runs[n]]
           u == [ui EXCEPT !.runs = runs]
<1>1. SameEnv /\ r.op = "cancel"
  BY ClosureEnv DEF RunCancelled, Answered
<1>2. Len(ui.runs) \in Nat
  BY RunsNow
<1>3. \A n \in 1..Len(ui.runs) : DOMAIN runs[n] = {"id", "test", "status"} /\ runs[n].id = ui.runs[n].id
  BY RunsNow
<1>4. runs \in Seq(Range(runs)) /\ Len(runs) = Len(ui.runs)
  <2>1. runs \in [1..Len(ui.runs) -> Range(runs)]
    BY DEF Range
  <2> HIDE DEF runs
  <2> QED
    BY <1>2, <2>1, IsList
<1>5. /\ Shaped(u) /\ SameShown(ui, u) /\ SameEditor(ui, u) /\ u.tests = ui.tests
      /\ u.runs = runs /\ u.selected = ui.selected
      /\ BusyBut(u, r)
  BY <1>1, MildNow DEF Mild, Shaped, AppFields, LocalFields, SameShown, SameEditor, BusyBut
<1>6. Commit(u, Without(r))
  BY DEF RunCancelled
<1> HIDE DEF runs, u
<1>7. Ids(runs) = Ids(ui.runs)
  BY <1>3, <1>4 DEF Ids
<1>8. RunsListed(u)
  BY <1>3, <1>4, <1>5, <1>7, MildNow DEF Mild, RunsListed
<1>9. Mild(u)
  BY <1>5, <1>8, MildNow DEF Mild
<1> QED
  BY <1>1, <1>5, <1>6, <1>9, MildAnswer DEF ShownOps

LEMMA TestCreatedOk == ASSUME ConsoleOk, NEW r \in net, TestCreated(r) PROVE ConsoleOk'
<1> DEFINE u == [ui EXCEPT !.tests = <<r.ans>> \o @, !.creating = IF r.cut THEN @ ELSE FALSE]
<1>1. SameEnv /\ r.op = "createTest" /\ r.at = "ok"
  BY ClosureEnv DEF TestCreated, Answered
<1>2. r.ans \in DOMAIN srv.manifest
  BY <1>1 DEF ConsoleOk, EditorTyped
<1>3. /\ Shaped(u) /\ SameShown(ui, u) /\ SameEditor(ui, u) /\ RunsListed(u)
      /\ u.tests = <<r.ans>> \o ui.tests
      /\ BusyBut(u, r)
  BY <1>1, MildNow DEF Mild, Shaped, AppFields, LocalFields, SameShown, SameEditor, BusyBut, RunsListed
<1>4. Commit(u, Without(r))
  BY DEF TestCreated
<1> HIDE DEF u
<1>5. u.tests \in Seq(DOMAIN srv.manifest)
  <2>1. ui.tests \in Seq(DOMAIN srv.manifest)
    BY MildNow DEF Mild
  <2>2. <<r.ans>> \o ui.tests \in Seq(DOMAIN srv.manifest \cup {r.ans})
    BY <2>1, PrependedList
  <2>3. DOMAIN srv.manifest \cup {r.ans} = DOMAIN srv.manifest
    BY <1>2
  <2> QED
    BY <1>3, <2>2, <2>3
<1>6. Mild(u)
  BY <1>3, <1>5 DEF Mild
<1> QED
  BY <1>1, <1>3, <1>4, <1>6, MildAnswer DEF ShownOps

-----------------------------------------------------------------------------
(* The editor.                                                                 *)

(* A handler that leaves what is shown and the lists, and changes what the    *)
(* editor holds.                                                              *)
Edits(u) ==
  /\ Shaped(u) /\ SameShown(ui, u)
  /\ u.runs = ui.runs /\ u.selected = ui.selected /\ u.tests = ui.tests
  /\ u.text \in Texts
  /\ u.editing \in {0} \cup DOMAIN srv.manifest
LEMMA EditsLeave ==
  ASSUME ConsoleOk, NEW u, Edits(u), NEW e,
         e.ordered /\ ~e.astray => env.ordered /\ ~env.astray /\ OwnTexts(srv, u, net)
  PROVE  Rest(u, net, e)
<1>1. Rest(ui, net, e)
  BY RestNow
<1>2. Leaves(u, net)
  BY <1>1, LeavesFields DEF Rest, Edits
<1>3. RunsListed(u) /\ u.tests \in Seq(DOMAIN srv.manifest)
  BY MildNow DEF Mild, Edits, RunsListed
<1>4. EditorTyped(srv, u, net)
  BY <1>1, <1>3 DEF Rest, EditorTyped, Edits
<1> QED
  BY <1>1, <1>2, <1>3, <1>4 DEF Rest
LEMMA EditsRest ==
  ASSUME ConsoleOk, SameEnv, NEW u, Edits(u),
         env.ordered /\ ~env.astray => OwnTexts(srv, u, net)
  PROVE  Rest(u, net, env')
BY EditsLeave DEF SameEnv

LEMMA EditedOk == ASSUME ConsoleOk, SameEnv, NEW valid \in BOOLEAN, Commit(Edited(valid), net) PROVE ConsoleOk'
<1> DEFINE half == [ui.text EXCEPT !.valid = valid]
           text == [half EXCEPT !.rev = ui.text.rev + 1]
           u == [ui EXCEPT !.text = text]
<1>1. Edited(valid) = u
  BY DEF Edited
<1>2. ui.text \in Texts /\ ui.editing \in {0} \cup DOMAIN srv.manifest
  BY DEF ConsoleOk, EditorTyped
<1>3. text \in Texts /\ text.of = ui.text.of
  <2>1. half \in Texts /\ half.of = ui.text.of /\ ui.text.rev + 1 \in Nat
    BY <1>2 DEF Texts
  <2> HIDE DEF half
  <2> QED
    BY <2>1 DEF Texts
<1> HIDE DEF text
<1>4. /\ Shaped(u) /\ SameShown(ui, u) /\ Calm(u)
      /\ u.runs = ui.runs /\ u.selected = ui.selected /\ u.tests = ui.tests
      /\ u.editing = ui.editing /\ u.loading = ui.loading
      /\ u.text = text
  BY MildNow DEF Mild, Shaped, AppFields, LocalFields, SameShown, Calm
<1> HIDE DEF u
<1>5. Edits(u)
  BY <1>2, <1>3, <1>4 DEF Edits
<1>6. env.ordered /\ ~env.astray => OwnTexts(srv, u, net)
  BY <1>3, <1>4 DEF ConsoleOk, OwnTexts
<1>7. Rest(u, net, env')
  BY <1>5, <1>6, EditsRest
<1>8. Quiet(u, net)
  BY <1>4 DEF ConsoleOk, Quiet, Calm
<1> QED
  BY <1>1, <1>4, <1>7, <1>8, CommitOk DEF ConsoleOk, SameEnv

LEMMA EditYamlOk == ASSUME ConsoleOk, NEW valid \in BOOLEAN, EditYaml(valid) PROVE ConsoleOk'
BY ClickEnv, EditedOk DEF EditYaml
LEMMA EditFormOk == ASSUME ConsoleOk, EditForm PROVE ConsoleOk'
BY ClickEnv, EditedOk DEF EditForm

(* The manifest of another test is asked for.  The editor goes astray, or no  *)
(* answer for it is under way.                                                *)
LEMMA OpenEditorOk == ASSUME ConsoleOk, NEW test, OpenEditor(test) PROVE ConsoleOk'
<1> DEFINE u == [ui EXCEPT !.editing = test, !.loading = TRUE]
           new == Ask("manifest", test)
           q == Sent(net, new)
<1>1. /\ Shaped(u) /\ SameShown(ui, u) /\ BusyWith(u, "manifest")
      /\ u.runs = ui.runs /\ u.selected = ui.selected /\ u.tests = ui.tests
      /\ u.editing = test /\ u.loading = TRUE /\ u.text = ui.text
  BY MildNow DEF Mild, Shaped, AppFields, LocalFields, SameShown, BusyWith
<1>2. /\ DOMAIN new = {"op", "arg", "no", "at", "cut", "ans"} /\ new.cut = FALSE
      /\ new.op = "manifest" /\ new.arg = test /\ new.at = "sent"
  BY DEF Ask
<1>3. Commit(u, q) /\ srv' = srv /\ test \in Range(ui.tests)
  BY DEF OpenEditor
<1>4. /\ DOMAIN env' = DOMAIN env /\ env'.ordered = env.ordered
      /\ ~env'.astray => ~env.astray /\ \A op \in {"manifest", "update", "versions"} : ~InFlight(op)
  BY DEF OpenEditor, ConsoleOk
<1> HIDE DEF u, new
<1>5. IsSent(net, new, q)
  BY <1>2, SentAdds
<1>6. PICK sent : q = net \cup {sent} /\ sent.op = new.op /\ sent.at = new.at /\ sent.arg = new.arg
  BY <1>5 DEF IsSent
<1>7. Formed(q)
  BY <1>2, SentFormed DEF ConsoleOk
<1>8. Quiet(u, q)
  BY <1>1, <1>2, QuietSent DEF ConsoleOk
<1> HIDE DEF q
<1>9. Rest(ui, net, env')
  BY <1>4, RestNow
<1>10. test \in DOMAIN srv.manifest
  BY <1>3, MildNow DEF Mild, Range
<1>11. Leaves(u, q)
  <2>1. Leaves(u, net)
    BY <1>1, <1>9, LeavesFields DEF Rest
  <2> QED
    BY <1>2, <1>6, <2>1, LeavesTwins DEF Twin, ShownOps
<1>12. RunsListed(u) /\ u.tests \in Seq(DOMAIN srv.manifest)
  BY <1>1, MildNow DEF Mild, RunsListed
<1>13. ServerOk(srv, q)
  BY <1>2, <1>6, <1>9 DEF Rest, ServerOk
<1>14. EditorTyped(srv, u, q)
  BY <1>1, <1>2, <1>6, <1>9, <1>10, <1>12 DEF Rest, EditorTyped
<1>15. ASSUME env'.ordered, ~env'.astray PROVE OwnTexts(srv, u, q)
  BY <1>1, <1>2, <1>4, <1>6, <1>9, <1>15 DEF Rest, OwnTexts, InFlight
<1>16. Rest(u, q, env')
  BY <1>11, <1>12, <1>13, <1>14, <1>15 DEF Rest
<1> QED
  BY <1>1, <1>3, <1>4, <1>7, <1>8, <1>16, CommitOk

LEMMA ManifestLoadedOk == ASSUME ConsoleOk, NEW r \in net, ManifestLoaded(r) PROVE ConsoleOk'
<1> DEFINE u == [ui EXCEPT !.text = r.ans.text, !.saved = r.ans.text,
                           !.versions = [of |-> r.arg, count |-> r.ans.count], !.loading = FALSE]
<1>1. SameEnv /\ r.op = "manifest" /\ r.at = "ok"
  BY ClosureEnv DEF ManifestLoaded, Answered
<1>2. /\ Shaped(u) /\ SameShown(ui, u) /\ BusyBut(u, r)
      /\ u.runs = ui.runs /\ u.selected = ui.selected /\ u.tests = ui.tests
      /\ u.editing = ui.editing /\ u.loading = FALSE /\ u.text = r.ans.text
  BY <1>1, MildNow DEF Mild, Shaped, AppFields, LocalFields, SameShown, BusyBut
<1>3. Commit(u, Without(r))
  BY DEF ManifestLoaded
<1> HIDE DEF u
<1>4. Edits(u)
  BY <1>1, <1>2 DEF Edits, ConsoleOk, EditorTyped
<1>5. env.ordered /\ ~env.astray => OwnTexts(srv, u, net)
  BY <1>1, <1>2 DEF ConsoleOk, OwnTexts
<1>6. Rest(u, Without(r), env')
  BY <1>1, <1>4, <1>5, EditsRest, RestWithout DEF ShownOps
<1>7. Quiet(u, Without(r)) /\ Formed(Without(r))
  BY <1>2, QuietBut, WithoutTwins DEF ConsoleOk
<1> QED
  BY <1>1, <1>2, <1>3, <1>6, <1>7, CommitOk DEF SameEnv

LEMMA ManifestLoadFailedOk == ASSUME ConsoleOk, NEW r \in net, ManifestLoadFailed(r) PROVE ConsoleOk'
<1> DEFINE u == [ui EXCEPT !.loading = FALSE]
<1>1. /\ r.op = "manifest" /\ srv' = srv
      /\ DOMAIN env' = DOMAIN env /\ env'.ordered = env.ordered
      /\ ~env'.astray => ~env.astray /\ ui.text.of = ui.editing
  BY DEF ManifestLoadFailed, Answered, ConsoleOk
<1>2. /\ Shaped(u) /\ SameShown(ui, u) /\ BusyBut(u, r)
      /\ u.runs = ui.runs /\ u.selected = ui.selected /\ u.tests = ui.tests
      /\ u.editing = ui.editing /\ u.text = ui.text
  BY <1>1, MildNow DEF Mild, Shaped, AppFields, LocalFields, SameShown, BusyBut
<1>3. Commit(u, Without(r))
  BY DEF ManifestLoadFailed
<1> HIDE DEF u
<1>4. Edits(u)
  BY <1>2 DEF Edits, ConsoleOk, EditorTyped
<1>5. env'.ordered /\ ~env'.astray => env.ordered /\ ~env.astray /\ OwnTexts(srv, u, net)
  BY <1>1, <1>2 DEF ConsoleOk, OwnTexts
<1>6. Rest(u, Without(r), env')
  BY <1>1, <1>4, <1>5, EditsLeave, RestWithout DEF ShownOps
<1>7. Quiet(u, Without(r)) /\ Formed(Without(r))
  BY <1>2, QuietBut, WithoutTwins DEF ConsoleOk
<1> QED
  BY <1>1, <1>2, <1>3, <1>6, <1>7, CommitOk

(* Saving: the text of the open test, unless the editor went astray.         *)
LEMMA SaveOk == ASSUME ConsoleOk, Save PROVE ConsoleOk'
<1> DEFINE new == Ask("update", [test |-> ui.editing, text |-> ui.text])
           q == Sent(net, new)
<1>1. SameEnv
  BY ClickEnv DEF Save
<1>2. /\ DOMAIN new = {"op", "arg", "no", "at", "cut", "ans"} /\ new.cut = FALSE
      /\ new.op = "update" /\ new.arg.test = ui.editing /\ new.arg.text = ui.text /\ new.at = "sent"
  BY DEF Ask
<1>3. ui.editing # 0 /\ ~ui.loading /\ (Commit(ui, q) \/ Commit(ui, net))
  BY DEF Save
<1> HIDE DEF new
<1>4. IsSent(net, new, q)
  BY <1>2, SentAdds
<1>5. PICK sent : q = net \cup {sent} /\ sent.op = new.op /\ sent.at = new.at /\ sent.arg = new.arg
  BY <1>4 DEF IsSent
<1>6. Formed(q)
  BY <1>2, SentFormed DEF ConsoleOk
<1>7. Quiet(ui, q)
  BY <1>2, QuietSent DEF ConsoleOk, BusyWith
<1> HIDE DEF q
<1>8. Rest(ui, net, env')
  BY <1>1, RestNow DEF SameEnv
<1>9. Leaves(ui, q)
  BY <1>2, <1>5, <1>8, LeavesTwins DEF Rest, Twin, ShownOps
<1>10. ServerOk(srv, q) /\ EditorTyped(srv, ui, q)
  BY <1>2, <1>5, <1>8 DEF Rest, ServerOk, EditorTyped
<1>11. ASSUME env'.ordered, ~env'.astray PROVE OwnTexts(srv, ui, q)
  BY <1>2, <1>3, <1>5, <1>8, <1>11 DEF Rest, OwnTexts
<1>12. Rest(ui, q, env')
  BY <1>8, <1>9, <1>10, <1>11 DEF Rest
<1>13. CASE Commit(ui, q)
  BY <1>1, <1>6, <1>7, <1>12, <1>13, CommitOk DEF SameEnv, ConsoleOk
<1>14. CASE Commit(ui, net)
  BY <1>1, <1>14, MildNow, MildClick DEF Calm
<1> QED
  BY <1>3, <1>13, <1>14

LEMMA QuietMore ==
  ASSUME NEW u, NEW q, Quiet(u, q), NEW op, NEW arg
  PROVE  Quiet(u, Sent(q, Ask(op, arg)))
<1>1. q \subseteq Sent(q, Ask(op, arg))
  BY AskedAdds
<1> QED
  BY <1>1 DEF Quiet, Uncut

LEMMA SavedOk == ASSUME ConsoleOk, NEW r \in net, Saved(r) PROVE ConsoleOk'
<1> DEFINE u == [ui EXCEPT !.saved = r.arg.text]
           new == Ask("versions", r.arg.test)
           q == Sent(Without(r), new)
<1>1. SameEnv /\ r.op = "update"
  BY ClosureEnv DEF Saved, Answered
<1>2. Mild(u) /\ BusyBut(u, r)
  BY <1>1, MildNow DEF Mild, Shaped, AppFields, LocalFields, SameShown, SameEditor, RunsListed, BusyBut
<1>3. Commit(u, q)
  BY DEF Saved
<1>4. DOMAIN new = {"op", "arg", "no", "at", "cut", "ans"} /\ new.cut = FALSE /\ new.op = "versions"
  BY DEF Ask
<1> HIDE DEF u
<1>5. Rest(u, Without(r), env') /\ Formed(Without(r)) /\ Quiet(u, Without(r))
  BY <1>1, <1>2, MildRest, RestWithout, WithoutTwins, QuietBut DEF ShownOps, ConsoleOk
<1>6. Quiet(u, q)
  BY <1>5, QuietMore
<1> HIDE DEF new
<1>7. Rest(u, q, env') /\ Formed(q)
  BY <1>4, <1>5, SentTwins, RestTwins, SentFormed DEF Harmless, ShownOps
<1> HIDE DEF q
<1> QED
  BY <1>1, <1>2, <1>3, <1>6, <1>7, CommitOk DEF SameEnv, Mild

-----------------------------------------------------------------------------
(* The first load.                                                             *)

LEMMA SelectionListed ==
  ASSUME NEW list, list \in Seq(Range(list))
  PROVE  Selection(list) = NoRun \/ Selection(list).id \in Ids(list)
<1>1. ASSUME list # <<>> PROVE Head(list).id \in Ids(list)
  <2>1. Len(list) \in Nat /\ Len(list) # 0 /\ Head(list) = list[1]
    BY <1>1
  <2> QED
    BY <2>1 DEF Ids
<1> QED
  BY <1>1 DEF Selection

LEMMA LoadedOk == ASSUME ConsoleOk, NEW r \in net, Loaded(r) PROVE ConsoleOk'
<1> DEFINE got == r.ans
           list == [id \in 1..Len(got.runs) |-> Row(got.runs[id], id)]
           tests == [t \in 1..Len(got.manifest) |-> t]
           changes == [c \in 1..Len(got.changes) |-> [id |-> c, status |-> got.changes[c]]]
           secrets == [s \in 1..Len(got.secrets) |-> s]
           repos == [n \in 1..Len(got.repos) |-> [id |-> n, rev |-> got.repos[n]]]
           u == [ui EXCEPT !.link = "live", !.runs = list, !.selected = Selection(list), !.tests = tests,
                           !.changes = changes, !.secrets = secrets, !.schedules = got.schedules,
                           !.policy = got.policy, !.repos = repos]
<1>1. SameEnv /\ r.op = "load" /\ r.at = "ok"
  BY ClosureEnv DEF Loaded, Answered
<1>2. Commit(u, Without(r))
  BY DEF Loaded
<1>3. RecordsOk(got) /\ DOMAIN got.manifest \subseteq DOMAIN srv.manifest
  BY <1>1 DEF ConsoleOk, ServerOk, EditorTyped
<1>4. Len(got.runs) \in Nat /\ Len(got.manifest) \in Nat /\ DOMAIN got.manifest = 1..Len(got.manifest)
  BY <1>3 DEF RecordsOk
<1>5. list \in [1..Len(got.runs) -> Range(list)] /\ \A id \in 1..Len(got.runs) : DOMAIN list[id] = {"id", "test", "status"}
  BY DEF Row, Range
<1>6. tests \in [1..Len(got.manifest) -> DOMAIN srv.manifest]
  BY <1>3, <1>4
<1> HIDE DEF list, tests, changes, secrets, repos
<1>7. list \in Seq(Range(list)) /\ Len(list) = Len(got.runs)
  BY <1>4, <1>5, IsList
<1>8. tests \in Seq(DOMAIN srv.manifest)
  BY <1>4, <1>6, IsList
<1>9. /\ Shaped(u) /\ SameShown(ui, u) /\ SameEditor(ui, u) /\ BusyBut(u, r)
      /\ u.runs = list /\ u.selected = Selection(list) /\ u.tests = tests
  BY <1>1, MildNow DEF Mild, Shaped, AppFields, LocalFields, SameShown, SameEditor, BusyBut
<1> HIDE DEF u, got
<1>10. RunsListed(u)
  BY <1>5, <1>7, <1>9, SelectionListed DEF RunsListed
<1>11. Mild(u)
  BY <1>8, <1>9, <1>10 DEF Mild
<1> QED
  BY <1>1, <1>2, <1>9, <1>11, MildAnswer DEF ShownOps

-----------------------------------------------------------------------------
(* The Runs screen's answers.                                                  *)

(* The answer of an effect that was not cleaned up is about the selected run. *)
LEMMA AboutSelected ==
  ASSUME ConsoleOk, NEW r \in net, r.op \in {"evidence", "result"}, ~r.cut
  PROVE  ui.screen = "Runs" /\ r.arg = ui.selected.id
BY DEF ConsoleOk, Shown, Asked

(* What is left to be shown, of a handler that changes the evidence or the   *)
(* result alone.                                                             *)
LEMMA ShownAnswer ==
  ASSUME ConsoleOk, SameEnv, NEW r \in net, r.op \in {"evidence", "result"},
         NEW u, Shaped(u), SameApp(ui, u), SameBusy(ui, u), u.links = ui.links, u.own = ui.own, u.live = ui.live,
         \/ u.evidence = ui.evidence /\ u.evidenceNo = ui.evidenceNo
         \/ u.evidenceNo = ui.evidenceNo + 1 /\ ui.screen = "Runs",
         ui.screen = "Runs" => /\ \/ u.evidence \in {0, ui.selected.id}
                                  \/ (r.cut \/ r.op # "evidence") /\ Uncut(net, "evidence")
                               /\ \/ u.result \in {0, ui.selected.id}
                                  \/ (r.cut \/ r.op # "result") /\ Uncut(net, "result"),
         Commit(u, Without(r))
  PROVE  ConsoleOk'
<1> DEFINE q == Without(r)
<1>1. /\ Formed(q)
      /\ \A s \in q : \E t \in net : t # r /\ Twin(t, s)
      /\ \A t \in net : t # r => \E s \in q : Twin(t, s)
  BY WithoutTwins DEF ConsoleOk
<1>2. Commit(u, q)
  OBVIOUS
<1>3. Quiet(u, q)
  <2>1. BusyBut(u, r)
    BY DEF BusyBut, SameApp, SameBusy
  <2> QED
    BY <2>1, QuietBut DEF ConsoleOk
<1> HIDE DEF q
<1>4. Rest(ui, net, env')
  BY RestNow DEF SameEnv
<1>5. \A op : (r.cut \/ r.op # op) /\ Uncut(net, op) => Uncut(q, op)
  BY <1>1 DEF Uncut, Twin
<1>6. RunsListed(u) /\ ServerOk(srv, q) /\ EditorTyped(srv, u, q)
  <2>1. RunsListed(u)
    BY <1>4 DEF Rest, RunsListed, SameApp
  <2>2. ServerOk(srv, q)
    BY <1>1, <1>4 DEF Rest, ServerOk, Twin
  <2>3. EditorTyped(srv, u, q)
    BY <1>1, <1>4 DEF Rest, EditorTyped, Twin, SameApp
  <2> QED
    BY <2>1, <2>2, <2>3
<1>7. env'.ordered /\ ~env'.astray => OwnTexts(srv, u, q)
  BY <1>1, <1>4 DEF Rest, OwnTexts, Twin, SameApp
<1>8. Asked(q, ui.screen, ui.selected)
  BY <1>1, <1>4 DEF Rest, Leaves, Asked, Twin
<1>9. Fetches(u, q, ui.evidenceNo, ui.screen)
  <2>1. Fetches(ui, net, ui.evidenceNo, ui.screen)
    BY <1>4 DEF Rest, Leaves, Fetched
  <2>2. Leaves(ui, net)
    BY <1>4 DEF Rest
  <2>3. ASSUME NEW s \in q, s.op = "urls" PROVE FetchOk(s, u.own, ui.evidenceNo, ui.screen)
    BY <1>1, <2>1, <2>3 DEF Fetches, FetchOk, Twin
  <2>4. ASSUME NEW t \in q, NEW s \in q, t.op = "urls", s.op = "urls", t.cut, ~s.cut PROVE t.arg < s.arg
    BY <1>1, <2>1, <2>4 DEF Fetches, Twin
  <2>5. ASSUME NEW link \in u.live PROVE link \in u.own \/ \E s \in q : s.op = "urls" /\ link \in s.ans.got
    BY <1>1, <2>1, <2>5 DEF Fetches, Twin
  <2> QED
    BY <2>1, <2>3, <2>4, <2>5 DEF Fetches
<1>10. u.screen = "Runs" => RunShown(u, q)
  BY <1>5 DEF RunShown, SameApp
<1>11. ui.evidenceNo = u.evidenceNo /\ ui.screen = "Runs" => LinksAlive(u, q)
  <2>1. ui.screen = "Runs" => LinksAlive(ui, net)
    BY DEF ConsoleOk, Shown
  <2>2. Uncut(net, "urls") => Uncut(q, "urls")
    BY <1>5
  <2> QED
    BY <2>1, <2>2 DEF LinksAlive, ConsoleOk, Shaped
<1>12. Leaves(u, q)
  BY <1>8, <1>9, <1>10, <1>11 DEF Leaves, Fetched, SameApp, ConsoleOk, Shaped
<1>13. Rest(u, q, env')
  BY <1>6, <1>7, <1>12 DEF Rest
<1> QED
  BY <1>1, <1>2, <1>3, <1>13, CommitOk DEF SameEnv

(* What is on show already is of the selected run, or another answer is      *)
(* waited for.                                                               *)
LEMMA ShownNow ==
  ASSUME ConsoleOk, ui.screen = "Runs"
  PROVE  /\ Uncut(net, "evidence") \/ ui.evidence \in {0, ui.selected.id}
         /\ Uncut(net, "result") \/ ui.result \in {0, ui.selected.id}
BY DEF ConsoleOk, Shown, RunShown

LEMMA UnchangedFields == SameApp(ui, ui) /\ SameBusy(ui, ui)
BY DEF SameApp, SameBusy

LEMMA EvidenceShownOk == ASSUME ConsoleOk, NEW r \in net, EvidenceShown(r) PROVE ConsoleOk'
<1> DEFINE u == [ui EXCEPT !.evidence = r.arg, !.evidenceNo = @ + 1]
<1>1. SameEnv /\ r.op = "evidence" /\ Shaped(ui)
  BY ClosureEnv DEF EvidenceShown, Answered, ConsoleOk
<1>2. Commit(IF r.cut THEN ui ELSE u, Without(r))
  BY DEF EvidenceShown
<1>3. /\ Shaped(u) /\ SameApp(ui, u) /\ SameBusy(ui, u)
      /\ u.links = ui.links /\ u.own = ui.own /\ u.live = ui.live
      /\ u.evidence = r.arg /\ u.evidenceNo = ui.evidenceNo + 1 /\ u.result = ui.result
  BY <1>1 DEF Shaped, AppFields, LocalFields, SameApp, SameBusy
<1> HIDE DEF u
<1>4. CASE r.cut
  BY <1>1, <1>2, <1>4, ShownNow, UnchangedFields, ShownAnswer
<1>5. CASE ~r.cut
  BY <1>1, <1>2, <1>3, <1>5, AboutSelected, ShownNow, ShownAnswer
<1> QED
  BY <1>4, <1>5

LEMMA EvidenceFailedOk == ASSUME ConsoleOk, NEW r \in net, EvidenceFailed(r) PROVE ConsoleOk'
<1> DEFINE u == [ui EXCEPT !.evidence = 0, !.evidenceNo = @ + 1]
<1>1. SameEnv /\ r.op = "evidence" /\ Shaped(ui)
  BY ClosureEnv DEF EvidenceFailed, Answered, ConsoleOk
<1>2. Commit(IF r.cut \/ ui.evidence = 0 THEN ui ELSE u, Without(r))
  BY DEF EvidenceFailed
<1>3. /\ Shaped(u) /\ SameApp(ui, u) /\ SameBusy(ui, u)
      /\ u.links = ui.links /\ u.own = ui.own /\ u.live = ui.live
      /\ u.evidence = 0 /\ u.evidenceNo = ui.evidenceNo + 1 /\ u.result = ui.result
  BY <1>1 DEF Shaped, AppFields, LocalFields, SameApp, SameBusy
<1> HIDE DEF u
<1>4. CASE r.cut \/ ui.evidence = 0
  BY <1>1, <1>2, <1>4, ShownNow, UnchangedFields, ShownAnswer
<1>5. CASE ~r.cut /\ ui.evidence # 0
  BY <1>1, <1>2, <1>3, <1>5, AboutSelected, ShownNow, ShownAnswer
<1> QED
  BY <1>4, <1>5

LEMMA ResultShownOk == ASSUME ConsoleOk, NEW r \in net, ResultShown(r) PROVE ConsoleOk'
<1> DEFINE u == [ui EXCEPT !.result = r.arg]
<1>1. SameEnv /\ r.op = "result" /\ Shaped(ui)
  BY ClosureEnv DEF ResultShown, Answered, ConsoleOk
<1>2. Commit(IF r.cut THEN ui ELSE u, Without(r))
  BY DEF ResultShown
<1>3. /\ Shaped(u) /\ SameApp(ui, u) /\ SameBusy(ui, u)
      /\ u.links = ui.links /\ u.own = ui.own /\ u.live = ui.live
      /\ u.evidence = ui.evidence /\ u.evidenceNo = ui.evidenceNo /\ u.result = r.arg
  BY <1>1 DEF Shaped, AppFields, LocalFields, SameApp, SameBusy
<1> HIDE DEF u
<1>4. CASE r.cut
  BY <1>1, <1>2, <1>4, ShownNow, UnchangedFields, ShownAnswer
<1>5. CASE ~r.cut
  BY <1>1, <1>2, <1>3, <1>5, AboutSelected, ShownNow, ShownAnswer
<1> QED
  BY <1>4, <1>5

LEMMA ResultFailedOk == ASSUME ConsoleOk, NEW r \in net, ResultFailed(r) PROVE ConsoleOk'
<1> DEFINE u == [ui EXCEPT !.result = 0]
<1>1. SameEnv /\ r.op = "result" /\ Shaped(ui)
  BY ClosureEnv DEF ResultFailed, Answered, ConsoleOk
<1>2. Commit(IF r.cut THEN ui ELSE u, Without(r))
  BY DEF ResultFailed
<1>3. /\ Shaped(u) /\ SameApp(ui, u) /\ SameBusy(ui, u)
      /\ u.links = ui.links /\ u.own = ui.own /\ u.live = ui.live
      /\ u.evidence = ui.evidence /\ u.evidenceNo = ui.evidenceNo /\ u.result = 0
  BY <1>1 DEF Shaped, AppFields, LocalFields, SameApp, SameBusy
<1> HIDE DEF u
<1>4. CASE r.cut
  BY <1>1, <1>2, <1>4, ShownNow, UnchangedFields, ShownAnswer
<1>5. CASE ~r.cut
  BY <1>1, <1>2, <1>3, <1>5, AboutSelected, ShownNow, ShownAnswer
<1> QED
  BY <1>4, <1>5

-----------------------------------------------------------------------------
(* The bodies of the artifacts.                                                *)

(* A handler of a fetch leaves every other request, and changes the links and *)
(* the object URLs alone.                                                     *)
LEMMA FetchAnswer ==
  ASSUME ConsoleOk, SameEnv,
         NEW u, Shaped(u), SameApp(ui, u), SameBusy(ui, u),
         u.evidence = ui.evidence, u.result = ui.result, u.evidenceNo = ui.evidenceNo,
         NEW q, Formed(q),
         \A s \in q : s.op # "urls" => \E t \in net : Twin(t, s),
         \A t \in net : t.op # "urls" => \E s \in q : Twin(t, s),
         Fetches(u, q, ui.evidenceNo, ui.screen), ui.screen = "Runs" => LinksAlive(u, q),
         Commit(u, q)
  PROVE  ConsoleOk'
<1>1. Rest(ui, net, env')
  BY RestNow DEF SameEnv
<1>2. \A op : op # "urls" /\ (\E t \in net : t.op = op) => \E s \in q : s.op = op
  BY DEF Twin
<1>3. \A op : op # "urls" /\ Uncut(net, op) => Uncut(q, op)
  BY DEF Twin, Uncut
<1>4. Quiet(u, q)
  BY <1>2, <1>3 DEF ConsoleOk, Quiet, SameApp, SameBusy
<1>5. RunsListed(u)
  BY <1>1 DEF Rest, RunsListed, SameApp
<1>6. ServerOk(srv, q)
  <2>1. ASSUME NEW s \in q, s.op = "load", s.at = "ok" PROVE RecordsOk(s.ans)
    <3>1. PICK t \in net : Twin(t, s)
      BY <2>1
    <3> QED
      BY <1>1, <2>1, <3>1 DEF Rest, ServerOk, Twin
  <2> QED
    BY <1>1, <2>1 DEF Rest, ServerOk
<1>7. EditorTyped(srv, u, q)
  <2>1. ASSUME NEW s \in q
        PROVE  /\ s.op = "load" /\ s.at = "ok" => DOMAIN s.ans.manifest \subseteq DOMAIN srv.manifest
               /\ s.op = "createTest" /\ s.at = "ok" => s.ans \in DOMAIN srv.manifest
               /\ s.op = "manifest" => s.arg \in DOMAIN srv.manifest
               /\ s.op = "manifest" /\ s.at = "ok" => s.ans.text \in Texts
               /\ s.op = "update" => s.arg.text \in Texts
    BY <1>1, <2>1 DEF Rest, EditorTyped, Twin
  <2> QED
    BY <1>1, <2>1 DEF Rest, EditorTyped, SameApp
<1>8. ASSUME env'.ordered, ~env'.astray PROVE OwnTexts(srv, u, q)
  <2>1. ASSUME NEW s \in q
        PROVE  /\ s.op = "manifest" => s.arg = u.editing
               /\ s.op = "manifest" /\ s.at = "ok" => s.ans.text.of = s.arg
               /\ s.op = "update" => s.arg.text.of = s.arg.test
    BY <1>1, <1>8, <2>1 DEF Rest, OwnTexts, Twin, SameApp
  <2> QED
    BY <1>1, <1>8, <2>1 DEF Rest, OwnTexts, SameApp
<1>9. Asked(q, ui.screen, ui.selected)
  <2>1. ASSUME NEW s \in q, s.op \in {"evidence", "result"}, ~s.cut PROVE ui.screen = "Runs" /\ s.arg = ui.selected.id
    <3>1. PICK t \in net : Twin(t, s)
      BY <2>1
    <3> QED
      BY <1>1, <2>1, <3>1 DEF Rest, Leaves, Asked, Twin
  <2> QED
    BY <2>1 DEF Asked
<1>10. ui.screen = "Runs" => RunShown(u, q)
  BY <1>3, ShownNow DEF RunShown, SameApp
<1>11. Leaves(u, q)
  BY <1>9, <1>10 DEF Leaves, Fetched, SameApp, ConsoleOk, Shaped
<1>12. Rest(u, q, env')
  BY <1>5, <1>6, <1>7, <1>8, <1>11 DEF Rest
<1> QED
  BY <1>4, <1>12, CommitOk DEF SameEnv

(* The URLs that exist when a body has arrived: those of before and made, of  *)
(* which the effect owns its own as long as it is not cleaned up.             *)
Makes(u, r, made) ==
  /\ u.own = IF r.cut THEN ui.own ELSE ui.own \cup made
  /\ \A link \in made : link[1] = r.arg /\ link[2][1] # 0

LEMMA OwnGrows ==
  ASSUME ConsoleOk, NEW r \in net, r.op = "urls", NEW u, NEW made, Makes(u, r, made),
         NEW s \in net, s.op = "urls"
  PROVE  FetchOk(s, u.own, ui.evidenceNo, ui.screen)
<1>1. /\ FetchOk(s, ui.own, ui.evidenceNo, ui.screen)
      /\ FetchOk(r, ui.own, ui.evidenceNo, ui.screen)
      /\ s.cut /\ ~r.cut => s.arg < r.arg
  BY DEF ConsoleOk, Shown, Fetches
<1>2. CASE r.cut
  BY <1>1, <1>2 DEF Makes
<1>3. CASE ~r.cut
  BY <1>1, <1>3 DEF Makes, FetchOk
<1> QED
  BY <1>2, <1>3

LEMMA OwnIsCurrent ==
  ASSUME ConsoleOk, NEW r \in net, r.op = "urls", NEW u, NEW made, Makes(u, r, made)
  PROVE  \A link \in u.own : link[1] = ui.evidenceNo
<1>1. FetchOk(r, ui.own, ui.evidenceNo, ui.screen) /\ \A link \in ui.own : link[1] = ui.evidenceNo
  BY DEF ConsoleOk, Shown, Fetches
<1> QED
  BY <1>1 DEF Makes, FetchOk

(* Other bodies are still to come. *)
LEMMA FetchGoesOn ==
  ASSUME ConsoleOk, SameEnv, NEW r \in net, r.op = "urls", NEW made,
         NEW u, Makes(u, r, made), Shaped(u), SameApp(ui, u), SameBusy(ui, u),
         u.evidence = ui.evidence, u.result = ui.result, u.evidenceNo = ui.evidenceNo, u.links = ui.links,
         u.live = ui.live \cup made,
         NEW todo, todo \subseteq r.ans.todo,
         Commit(u, (net \ {r}) \cup {[r EXCEPT !.ans = [todo |-> todo, got |-> r.ans.got \cup made]]})
  PROVE  ConsoleOk'
<1> DEFINE ans == [todo |-> todo, got |-> r.ans.got \cup made]
           next == [r EXCEPT !.ans = ans]
           q == (net \ {r}) \cup {next}
<1>1. DOMAIN r = {"op", "arg", "no", "at", "cut", "ans"} /\ r.cut \in BOOLEAN
  BY DEF ConsoleOk, Formed
<1>2. /\ DOMAIN next = {"op", "arg", "no", "at", "cut", "ans"}
      /\ next.op = r.op /\ next.arg = r.arg /\ next.at = r.at /\ next.cut = r.cut /\ next.ans = ans
  BY <1>1
<1>3. ans = [todo |-> ans.todo, got |-> ans.got] /\ ans.todo = todo /\ ans.got = r.ans.got \cup made
  OBVIOUS
<1>4. Commit(u, q)
  OBVIOUS
<1> HIDE DEF ans, next
<1>5. Formed(q)
  BY <1>1, <1>2 DEF ConsoleOk, Formed
<1>6. /\ \A s \in q : s.op # "urls" => \E t \in net : Twin(t, s)
      /\ \A t \in net : t.op # "urls" => \E s \in q : Twin(t, s)
  BY <1>2 DEF Twin
<1>7. Fetches(ui, net, ui.evidenceNo, ui.screen)
  BY DEF ConsoleOk, Shown
<1>8. FetchOk(r, u.own, ui.evidenceNo, ui.screen)
  BY OwnGrows
<1>9. FetchOk(next, u.own, ui.evidenceNo, ui.screen)
  BY <1>2, <1>3, <1>8 DEF FetchOk, Makes
<1>10. Fetches(u, q, ui.evidenceNo, ui.screen)
  <2>1. ASSUME NEW s \in q, s.op = "urls" PROVE FetchOk(s, u.own, ui.evidenceNo, ui.screen)
    BY <1>9, <2>1, OwnGrows
  <2>2. ASSUME NEW t \in q, NEW s \in q, t.op = "urls", s.op = "urls", t.cut, ~s.cut PROVE t.arg < s.arg
    BY <1>2, <1>7, <2>2 DEF Fetches
  <2>3. ASSUME NEW link \in u.live PROVE link \in u.own \/ \E s \in q : s.op = "urls" /\ link \in s.ans.got
    <3>1. CASE link \in made
      BY <1>2, <1>3, <3>1
    <3>2. CASE link \in ui.own
      BY <3>2 DEF Makes
    <3>3. ASSUME NEW s \in net, s.op = "urls", link \in s.ans.got
          PROVE  \E t \in q : t.op = "urls" /\ link \in t.ans.got
      BY <1>2, <1>3, <3>3
    <3> QED
      BY <1>7, <3>1, <3>2, <3>3 DEF Fetches
  <2>4. u.own \subseteq u.live
    BY <1>7 DEF Fetches, Makes
  <2> QED
    BY <1>7, <2>1, <2>2, <2>3, <2>4, OwnIsCurrent DEF Fetches
<1>11. ui.screen = "Runs" => LinksAlive(u, q)
  <2>1. ui.screen = "Runs" => LinksAlive(ui, net)
    BY DEF ConsoleOk, Shown
  <2>2. Uncut(net, "urls") => Uncut(q, "urls")
    BY <1>2 DEF Uncut
  <2> QED
    BY <2>1, <2>2 DEF LinksAlive, Makes
<1> HIDE DEF q
<1> QED
  BY <1>4, <1>5, <1>6, <1>10, <1>11, FetchAnswer

(* The last body. *)
LEMMA FetchEnds ==
  ASSUME ConsoleOk, SameEnv, NEW r \in net, r.op = "urls", NEW made,
         NEW v, Makes(v, r, made), Shaped(v), SameApp(ui, v), SameBusy(ui, v),
         v.evidence = ui.evidence, v.result = ui.result, v.evidenceNo = ui.evidenceNo,
         r.cut => v.live = (ui.live \cup made) \ (r.ans.got \cup made) /\ v.links = ui.links,
         ~r.cut => v.live = ui.live \cup made /\ v.links = r.ans.got \cup made,
         Commit(v, Without(r))
  PROVE  ConsoleOk'
<1> DEFINE q == Without(r)
<1>1. /\ Formed(q)
      /\ \A s \in q : \E t \in net : t # r /\ Twin(t, s)
      /\ \A t \in net : t # r => \E s \in q : Twin(t, s)
  BY WithoutTwins DEF ConsoleOk
<1>2. Commit(v, q)
  OBVIOUS
<1> HIDE DEF q
<1>3. Fetches(ui, net, ui.evidenceNo, ui.screen)
  BY DEF ConsoleOk, Shown
<1>4. FetchOk(r, ui.own, ui.evidenceNo, ui.screen)
  BY <1>3 DEF Fetches
<1>5. Fetches(v, q, ui.evidenceNo, ui.screen)
  <2>1. ASSUME NEW s \in q, s.op = "urls" PROVE FetchOk(s, v.own, ui.evidenceNo, ui.screen)
    <3>1. PICK t \in net : Twin(t, s)
      BY <1>1
    <3>2. FetchOk(t, v.own, ui.evidenceNo, ui.screen)
      BY <2>1, <3>1, OwnGrows DEF Twin
    <3> QED
      BY <3>1, <3>2 DEF FetchOk, Twin
  <2>2. ASSUME NEW t \in q, NEW s \in q, t.op = "urls", s.op = "urls", t.cut, ~s.cut PROVE t.arg < s.arg
    BY <1>1, <1>3, <2>2 DEF Fetches, Twin
  <2>3. ASSUME NEW link \in v.live PROVE link \in v.own \/ \E s \in q : s.op = "urls" /\ link \in s.ans.got
    <3>1. link \in ui.own \/ link \in made \/ \E s \in net : s.op = "urls" /\ link \in s.ans.got
      BY <1>3 DEF Fetches
    <3>2. CASE r.cut
      <4>1. link \notin made /\ link \notin r.ans.got
        BY <3>2
      <4>2. ASSUME NEW t \in net, t.op = "urls", link \in t.ans.got
            PROVE  \E s \in q : s.op = "urls" /\ link \in s.ans.got
        BY <1>1, <4>1, <4>2 DEF Twin
      <4> QED
        BY <3>1, <3>2, <4>1, <4>2 DEF Makes
    <3>3. CASE ~r.cut
      <4>1. r.ans.got \subseteq ui.own
        BY <1>4, <3>3 DEF FetchOk
      <4>2. ASSUME NEW t \in net, t # r, t.op = "urls", link \in t.ans.got
            PROVE  \E s \in q : s.op = "urls" /\ link \in s.ans.got
        BY <1>1, <4>2 DEF Twin
      <4> QED
        BY <3>1, <3>3, <4>1, <4>2 DEF Makes
    <3> QED
      BY <3>2, <3>3
  <2>4. v.own \subseteq v.live
    <3>1. CASE r.cut
      <4>1. ui.own \subseteq ui.live /\ \A link \in ui.own : link[1] = ui.evidenceNo
        BY <1>3 DEF Fetches
      <4>2. \A link \in r.ans.got \cup made : link[1] = r.arg
        BY <1>4 DEF FetchOk, Makes
      <4>3. ui.own # {} => r.arg # ui.evidenceNo
        BY <1>4, <3>1 DEF FetchOk, ConsoleOk, Shaped
      <4>4. \A link \in ui.own : link \notin r.ans.got \cup made
        BY <4>1, <4>2, <4>3
      <4> QED
        BY <3>1, <4>1, <4>4 DEF Makes
    <3>2. CASE ~r.cut
      BY <1>3, <3>2 DEF Fetches, Makes
    <3> QED
      BY <3>1, <3>2
  <2>5. \A link \in v.links : link[2][1] # 0
    <3>1. CASE r.cut
      BY <1>3, <3>1 DEF Fetches
    <3>2. CASE ~r.cut
      BY <1>4, <3>2 DEF FetchOk, Makes
    <3> QED
      BY <3>1, <3>2
  <2> QED
    BY <2>1, <2>2, <2>3, <2>4, <2>5, OwnIsCurrent DEF Fetches
<1>6. ui.screen = "Runs" => LinksAlive(v, q)
  <2>1. CASE r.cut
    <3>1. ui.screen = "Runs" => LinksAlive(ui, net)
      BY DEF ConsoleOk, Shown
    <3>2. Uncut(net, "urls") => Uncut(q, "urls")
      BY <1>1, <2>1 DEF Uncut, Twin
    <3> QED
      BY <2>1, <3>1, <3>2 DEF LinksAlive, Makes
  <2>2. CASE ~r.cut
    <3>1. v.links \subseteq v.own
      BY <1>4, <2>2 DEF FetchOk, Makes
    <3> QED
      BY <3>1 DEF LinksAlive
  <2> QED
    BY <2>1, <2>2
<1>7. \A s \in q : s.op # "urls" => \E t \in net : Twin(t, s)
  BY <1>1
<1>8. \A t \in net : t.op # "urls" => \E s \in q : Twin(t, s)
  BY <1>1
<1> QED
  BY <1>1, <1>2, <1>5, <1>6, <1>7, <1>8, FetchAnswer

LEMMA ArtifactFetchedOk ==
  ASSUME ConsoleOk, NEW r \in net, NEW artifact, NEW arrived, ArtifactFetched(r, artifact, arrived)
  PROVE  ConsoleOk'
<1> DEFINE made == IF arrived THEN {<<r.arg, artifact>>} ELSE {}
           got == r.ans.got \cup made
           todo == r.ans.todo \ {artifact}
           u == [ui EXCEPT !.live = @ \cup made, !.own = IF r.cut THEN @ ELSE @ \cup made]
           shed == [u EXCEPT !.live = @ \ got]
           shown == [u EXCEPT !.links = got]
           next == (net \ {r}) \cup {[r EXCEPT !.ans = [todo |-> todo, got |-> got]]}
<1>1. r.op = "urls" /\ artifact \in r.ans.todo
  BY DEF ArtifactFetched, Answered
<1>2. SameEnv
  BY DEF ArtifactFetched, SameEnv, ConsoleOk
<1>3. IF todo # {} THEN Commit(u, next) ELSE Commit(AllFetched(u, r, got), Without(r))
  BY DEF ArtifactFetched
<1>4. AllFetched(u, r, got) = IF r.cut THEN shed ELSE shown
  BY DEF AllFetched
<1>5. artifact[1] # 0
  BY <1>1 DEF ConsoleOk, Shown, Fetches, FetchOk
<1>6. \A link \in made : link[1] = r.arg /\ link[2][1] # 0
  BY <1>5
<1> HIDE DEF made
<1>7. Shaped(ui)
  BY DEF ConsoleOk
<1>8. /\ Shaped(u) /\ SameApp(ui, u) /\ SameBusy(ui, u)
      /\ u.evidence = ui.evidence /\ u.result = ui.result /\ u.evidenceNo = ui.evidenceNo /\ u.links = ui.links
      /\ u.live = ui.live \cup made /\ u.own = IF r.cut THEN ui.own ELSE ui.own \cup made
  BY <1>7 DEF Shaped, AppFields, LocalFields, SameApp, SameBusy
<1> HIDE DEF u
<1>9. /\ Shaped(shed) /\ SameApp(u, shed) /\ SameBusy(u, shed)
      /\ shed.evidence = u.evidence /\ shed.result = u.result /\ shed.evidenceNo = u.evidenceNo /\ shed.links = u.links
      /\ shed.live = u.live \ got /\ shed.own = u.own
  BY <1>8 DEF Shaped, AppFields, LocalFields, SameApp, SameBusy
<1>10. /\ Shaped(shown) /\ SameApp(u, shown) /\ SameBusy(u, shown)
       /\ shown.evidence = u.evidence /\ shown.result = u.result /\ shown.evidenceNo = u.evidenceNo /\ shown.links = got
       /\ shown.live = u.live /\ shown.own = u.own
  BY <1>8 DEF Shaped, AppFields, LocalFields, SameApp, SameBusy
<1> HIDE DEF shed, shown
<1>11. SameApp(ui, shed) /\ SameBusy(ui, shed) /\ SameApp(ui, shown) /\ SameBusy(ui, shown)
  BY <1>8, <1>9, <1>10 DEF SameApp, SameBusy
<1>12. Makes(u, r, made) /\ Makes(shed, r, made) /\ Makes(shown, r, made)
  BY <1>6, <1>8, <1>9, <1>10 DEF Makes
<1>13. CASE todo # {}
  <2>1. Commit(u, next) /\ todo \subseteq r.ans.todo
    BY <1>3, <1>13
  <2> QED
    BY <1>1, <1>2, <1>8, <1>12, <2>1, FetchGoesOn
<1>14. CASE todo = {} /\ r.cut
  <2>1. Commit(shed, Without(r))
    BY <1>3, <1>4, <1>14
  <2>2. /\ shed.evidence = ui.evidence /\ shed.result = ui.result /\ shed.evidenceNo = ui.evidenceNo
        /\ shed.live = (ui.live \cup made) \ (r.ans.got \cup made) /\ shed.links = ui.links
    BY <1>8, <1>9
  <2> QED
    BY <1>1, <1>2, <1>9, <1>11, <1>12, <1>14, <2>1, <2>2, FetchEnds
<1>15. CASE todo = {} /\ ~r.cut
  <2>1. Commit(shown, Without(r))
    BY <1>3, <1>4, <1>15
  <2>2. /\ shown.evidence = ui.evidence /\ shown.result = ui.result /\ shown.evidenceNo = ui.evidenceNo
        /\ shown.live = ui.live \cup made /\ shown.links = r.ans.got \cup made
    BY <1>8, <1>10
  <2> QED
    BY <1>1, <1>2, <1>10, <1>11, <1>12, <1>15, <2>1, <2>2, FetchEnds
<1> QED
  BY <1>13, <1>14, <1>15

-----------------------------------------------------------------------------
(* The server's steps.  Each leaves the page, and changes what one request,    *)
(* which is not a fetch, is answered with.                                     *)

Serves(r, new) ==
  /\ Becomes(r, new)
  /\ DOMAIN new = {"op", "arg", "no", "at", "cut", "ans"}
  /\ new.op = r.op /\ new.arg = r.arg /\ new.cut = r.cut
SameKind(e) == DOMAIN e = DOMAIN env /\ e.ordered = env.ordered /\ e.astray = env.astray

LEMMA ServesShown ==
  ASSUME ConsoleOk, NEW r \in net, r.op # "urls", NEW new, Serves(r, new)
  PROVE  Shown(ui, net')
<1>1. net' = (net \ {r}) \cup {new} /\ new.op = r.op /\ new.arg = r.arg /\ new.cut = r.cut
  BY DEF Serves, Becomes
<1>2. Asked(net', ui.screen, ui.selected)
  BY <1>1 DEF ConsoleOk, Shown, Asked
<1>3. \A op : Uncut(net, op) => Uncut(net', op)
  BY <1>1 DEF Uncut
<1>4. ui.screen = "Runs" => RunShown(ui, net') /\ LinksAlive(ui, net')
  BY <1>3 DEF ConsoleOk, Shown, RunShown, LinksAlive
<1>5. \A s : s.op = "urls" => (s \in net <=> s \in net')
  BY <1>1
<1>6. Fetches(ui, net', ui.evidenceNo, ui.screen)
  BY <1>5 DEF ConsoleOk, Shown, Fetches
<1> QED
  BY <1>2, <1>4, <1>6 DEF Shown

LEMMA ServesQuiet ==
  ASSUME ConsoleOk, NEW r \in net, NEW new, Serves(r, new)
  PROVE  Quiet(ui, net') /\ Formed(net')
<1>1. net' = (net \ {r}) \cup {new} /\ new.op = r.op /\ new.arg = r.arg /\ new.cut = r.cut
  BY DEF Serves, Becomes
<1>2. \A op : Uncut(net, op) => Uncut(net', op)
  BY <1>1 DEF Uncut
<1>3. \A op : (\E s \in net : s.op = op) => \E s \in net' : s.op = op
  BY <1>1
<1>4. Quiet(ui, net')
  BY <1>2, <1>3 DEF ConsoleOk, Quiet
<1>5. Formed(net')
  BY <1>1 DEF ConsoleOk, Formed, Serves
<1> QED
  BY <1>4, <1>5

(* The answer is one the page can do with, and so are the records. *)
Answers(s, new) ==
  /\ new.op = "load" /\ new.at = "ok" => RecordsOk(new.ans) /\ DOMAIN new.ans.manifest \subseteq DOMAIN s.manifest
  /\ new.op = "createTest" /\ new.at = "ok" => new.ans \in DOMAIN s.manifest
  /\ new.op = "manifest" /\ new.at = "ok" => new.ans.text \in Texts
AnswersOwn(s, new) ==
  /\ \A test \in DOMAIN s.manifest : s.manifest[test].of = test
  /\ new.op = "manifest" /\ new.at = "ok" => new.ans.text.of = new.arg

LEMMA MoreTests == ASSUME NEW S, NEW T, S \subseteq T, NEW list \in Seq(S) PROVE list \in Seq(T)
OBVIOUS

LEMMA ServesOk ==
  ASSUME ConsoleOk, NEW r \in net, r.op # "urls", NEW new, Serves(r, new), ui' = ui, SameKind(env'),
         RecordsOk(srv'), DOMAIN srv.manifest \subseteq DOMAIN srv'.manifest, Answers(srv', new),
         env.ordered /\ ~env.astray => AnswersOwn(srv', new)
  PROVE  ConsoleOk'
<1>1. net' = (net \ {r}) \cup {new} /\ new.op = r.op /\ new.arg = r.arg /\ new.cut = r.cut
  BY DEF Serves, Becomes
<1>2. Shown(ui, net') /\ Quiet(ui, net') /\ Formed(net')
  BY ServesShown, ServesQuiet
<1>3. ServerOk(srv', net')
  BY <1>1 DEF ConsoleOk, ServerOk, Answers
<1>4. ui.tests \in Seq(DOMAIN srv'.manifest) /\ ui.editing \in {0} \cup DOMAIN srv'.manifest /\ ui.text \in Texts
  BY MoreTests DEF ConsoleOk, EditorTyped
<1>5. ASSUME NEW s \in net'
      PROVE  /\ s.op = "load" /\ s.at = "ok" => DOMAIN s.ans.manifest \subseteq DOMAIN srv'.manifest
             /\ s.op = "createTest" /\ s.at = "ok" => s.ans \in DOMAIN srv'.manifest
             /\ s.op = "manifest" => s.arg \in DOMAIN srv'.manifest
             /\ s.op = "manifest" /\ s.at = "ok" => s.ans.text \in Texts
             /\ s.op = "update" => s.arg.text \in Texts
  <2>1. CASE s \in net
    BY <2>1 DEF ConsoleOk, EditorTyped
  <2>2. CASE s = new
    BY <1>1, <2>2 DEF ConsoleOk, EditorTyped, Answers
  <2> QED
    BY <1>1, <2>1, <2>2
<1>6. EditorTyped(srv', ui, net')
  BY <1>4, <1>5 DEF EditorTyped
<1>7. ASSUME env.ordered, ~env.astray PROVE OwnTexts(srv', ui, net')
  <2>1. OwnTexts(srv, ui, net) /\ AnswersOwn(srv', new)
    BY <1>7 DEF ConsoleOk
  <2>2. ASSUME NEW s \in net'
        PROVE  /\ s.op = "manifest" => s.arg = ui.editing
               /\ s.op = "manifest" /\ s.at = "ok" => s.ans.text.of = s.arg
               /\ s.op = "update" => s.arg.text.of = s.arg.test
    <3>1. CASE s \in net
      BY <2>1, <3>1 DEF OwnTexts
    <3>2. CASE s = new
      BY <1>1, <2>1, <3>2 DEF OwnTexts, AnswersOwn
    <3> QED
      BY <1>1, <3>1, <3>2
  <2> QED
    BY <2>1, <2>2 DEF OwnTexts, AnswersOwn
<1> QED
  BY <1>2, <1>3, <1>6, <1>7 DEF ConsoleOk, SameKind

LEMMA ReplyServes ==
  ASSUME ConsoleOk, NEW r \in net, NEW ans, Reply(r, ans)
  PROVE  \E new : Serves(r, new) /\ new.at = "ok" /\ new.ans = ans
<1> DEFINE new == [r EXCEPT !.at = "ok", !.ans = ans]
<1>1. DOMAIN r = {"op", "arg", "no", "at", "cut", "ans"}
  BY DEF ConsoleOk, Formed
<1>2. /\ DOMAIN new = {"op", "arg", "no", "at", "cut", "ans"}
      /\ new.op = r.op /\ new.arg = r.arg /\ new.cut = r.cut /\ new.at = "ok" /\ new.ans = ans
  BY <1>1
<1>3. Becomes(r, new)
  BY DEF Reply
<1> HIDE DEF new
<1> QED
  BY <1>2, <1>3 DEF Serves

LEMMA FailureServes ==
  ASSUME ConsoleOk, NEW r \in net,
         \/ Becomes(r, [r EXCEPT !.at = "failed"])
         \/ Becomes(r, [r EXCEPT !.at = "failed", !.ans = 0])
  PROVE  \E new : Serves(r, new) /\ new.at = "failed"
<1> DEFINE one == [r EXCEPT !.at = "failed"]
           other == [r EXCEPT !.at = "failed", !.ans = 0]
<1>1. DOMAIN r = {"op", "arg", "no", "at", "cut", "ans"}
  BY DEF ConsoleOk, Formed
<1>2. /\ DOMAIN one = {"op", "arg", "no", "at", "cut", "ans"}
      /\ one.op = r.op /\ one.arg = r.arg /\ one.cut = r.cut /\ one.at = "failed"
  BY <1>1
<1>3. /\ DOMAIN other = {"op", "arg", "no", "at", "cut", "ans"}
      /\ other.op = r.op /\ other.arg = r.arg /\ other.cut = r.cut /\ other.at = "failed"
  BY <1>1
<1>4. Becomes(r, one) \/ Becomes(r, other)
  OBVIOUS
<1> HIDE DEF one, other
<1> QED
  BY <1>2, <1>3, <1>4 DEF Serves

(* The records as they are. *)
LEMMA RecordsNow ==
  ASSUME ConsoleOk
  PROVE  /\ RecordsOk(srv)
         /\ env.ordered /\ ~env.astray => \A test \in DOMAIN srv.manifest : srv.manifest[test].of = test
BY DEF ConsoleOk, ServerOk, OwnTexts

(* A request that is not about the tests is answered, and the records of the *)
(* tests are left.                                                           *)
KeepsTests(s) == RecordsOk(s) /\ s.manifest = srv.manifest
LEMMA ReplyOk ==
  ASSUME ConsoleOk, NEW r \in net, r.op \notin {"load", "manifest", "createTest", "urls"},
         NEW ans, Reply(r, ans), ui' = ui, env' = env, KeepsTests(srv')
  PROVE  ConsoleOk'
<1>1. \E new : Serves(r, new) /\ new.at = "ok" /\ new.ans = ans
  BY ReplyServes
<1>2. PICK new : Serves(r, new)
  BY <1>1
<1>3. new.op = r.op
  BY <1>2 DEF Serves
<1>4. Answers(srv', new) /\ (env.ordered /\ ~env.astray => AnswersOwn(srv', new))
  BY <1>3, RecordsNow DEF Answers, AnswersOwn, KeepsTests
<1> QED
  BY <1>2, <1>4, ServesOk DEF KeepsTests, SameKind

LEMMA RefuseOk ==
  ASSUME ConsoleOk, NEW r \in net, r.op \notin {"manifest", "urls"}, Refuse(r), ui' = ui, env' = env
  PROVE  ConsoleOk'
<1>1. Becomes(r, [r EXCEPT !.at = "failed"]) /\ srv' = srv
  BY DEF Refuse
<1>2. \E new : Serves(r, new) /\ new.at = "failed"
  BY <1>1, FailureServes
<1>3. PICK new : Serves(r, new) /\ new.at = "failed"
  BY <1>2
<1>4. new.op = r.op
  BY <1>3 DEF Serves
<1>5. Answers(srv', new) /\ (env.ordered /\ ~env.astray => AnswersOwn(srv', new))
  BY <1>1, <1>3, <1>4, RecordsNow DEF Answers, AnswersOwn
<1> QED
  BY <1>1, <1>3, <1>5, RecordsNow, ServesOk DEF SameKind

LEMMA BreakOk == ASSUME ConsoleOk, NEW r \in net, Break(r) PROVE ConsoleOk'
<1>1. /\ Becomes(r, [r EXCEPT !.at = "failed", !.ans = 0]) /\ srv' = srv /\ ui' = ui /\ SameKind(env')
      /\ r.op # "urls"
  BY DEF Break, SameKind, ConsoleOk
<1>2. \E new : Serves(r, new) /\ new.at = "failed"
  BY <1>1, FailureServes
<1>3. PICK new : Serves(r, new) /\ new.at = "failed"
  BY <1>2
<1>4. Answers(srv', new) /\ (env.ordered /\ ~env.astray => AnswersOwn(srv', new))
  BY <1>1, <1>3, RecordsNow DEF Answers, AnswersOwn
<1> QED
  BY <1>1, <1>3, <1>4, RecordsNow, ServesOk

(* Records of which something else than the tests has changed. *)
LEMMA OtherRecord ==
  ASSUME ConsoleOk, NEW s, DOMAIN s = DOMAIN srv, s.runs \in Seq(Range(s.runs)), s.manifest = srv.manifest
  PROVE  KeepsTests(s)
BY RecordsNow DEF RecordsOk, KeepsTests

LEMMA RunAppended ==
  ASSUME ConsoleOk, NEW run
  PROVE  KeepsTests([srv EXCEPT !.runs = Append(@, run)])
<1> DEFINE s == [srv EXCEPT !.runs = Append(@, run)]
<1>1. DOMAIN srv = RecordFields /\ srv.runs \in Seq(Range(srv.runs))
  BY RecordsNow DEF RecordsOk
<1>2. DOMAIN s = DOMAIN srv /\ s.manifest = srv.manifest /\ s.runs = Append(srv.runs, run)
  BY <1>1 DEF RecordFields
<1> HIDE DEF s
<1>3. s.runs \in Seq(Range(srv.runs) \cup {run})
  BY <1>1, <1>2
<1>4. KeepsTests(s)
  BY <1>2, <1>3, OwnElements, OtherRecord
<1> QED
  BY <1>4 DEF s

LEMMA RunPatched ==
  ASSUME ConsoleOk, NEW run, NEW status
  PROVE  KeepsTests([srv EXCEPT !.runs[run].status = status])
<1> DEFINE row == [srv.runs[run] EXCEPT !.status = status]
           list == [srv.runs EXCEPT ![run] = row]
           s == [srv EXCEPT !.runs = list]
<1>1. DOMAIN srv = RecordFields /\ srv.runs \in Seq(Range(srv.runs)) /\ Len(srv.runs) \in Nat
  BY RecordsNow DEF RecordsOk
<1>2. list \in [1..Len(srv.runs) -> Range(srv.runs) \cup {row}]
  <2> HIDE DEF row
  <2>1. DOMAIN srv.runs = 1..Len(srv.runs)
    BY <1>1
  <2> QED
    BY <2>1 DEF Range
<1>3. [srv EXCEPT !.runs[run].status = status] = s
  OBVIOUS
<1> HIDE DEF list, row
<1>4. list \in Seq(Range(list))
  <2>1. list \in Seq(Range(srv.runs) \cup {row})
    BY <1>1, <1>2, IsList
  <2> QED
    BY <2>1, OwnElements
<1>5. DOMAIN s = DOMAIN srv /\ s.manifest = srv.manifest /\ s.runs = list
  BY <1>1 DEF RecordFields
<1> HIDE DEF s
<1>6. KeepsTests(s)
  BY <1>4, <1>5, OtherRecord
<1> QED
  BY <1>3, <1>6

LEMMA ServedEnv == ASSUME NEW r, NEW op, Served(r, op) PROVE r.op = op /\ ui' = ui /\ env' = env
BY DEF Served

LEMMA ServeLoadOk == ASSUME ConsoleOk, NEW r \in net, r.op = "load", Reply(r, srv), srv' = srv, ui' = ui, env' = env PROVE ConsoleOk'
<1>1. \E new : Serves(r, new) /\ new.at = "ok" /\ new.ans = srv
  BY ReplyServes
<1>2. PICK new : Serves(r, new) /\ new.ans = srv
  BY <1>1
<1>3. new.op = "load"
  BY <1>2 DEF Serves
<1>4. Answers(srv', new) /\ (env.ordered /\ ~env.astray => AnswersOwn(srv', new))
  BY <1>2, <1>3, RecordsNow DEF Answers, AnswersOwn
<1> QED
  BY <1>2, <1>4, RecordsNow, ServesOk DEF SameKind

LEMMA ServeManifestOk ==
  ASSUME ConsoleOk, NEW r \in net, r.op = "manifest", NEW count, Reply(r, [text |-> srv.manifest[r.arg], count |-> count]),
         srv' = srv, ui' = ui, env' = env
  PROVE  ConsoleOk'
<1> DEFINE ans == [text |-> srv.manifest[r.arg], count |-> count]
<1>1. ans.text = srv.manifest[r.arg]
  OBVIOUS
<1>2. Reply(r, ans)
  OBVIOUS
<1> HIDE DEF ans
<1>3. \E new : Serves(r, new) /\ new.at = "ok" /\ new.ans = ans
  BY <1>2, ReplyServes
<1>4. PICK new : Serves(r, new) /\ new.ans = ans /\ new.at = "ok"
  BY <1>3
<1>5. new.op = "manifest" /\ new.arg = r.arg
  BY <1>4 DEF Serves
<1>6. r.arg \in DOMAIN srv.manifest /\ srv.manifest \in Seq(Texts)
  BY RecordsNow DEF RecordsOk, ConsoleOk, EditorTyped
<1>7. srv.manifest[r.arg] \in Texts
  BY <1>6
<1>8. Answers(srv', new) /\ (env.ordered /\ ~env.astray => AnswersOwn(srv', new))
  BY <1>1, <1>4, <1>5, <1>6, <1>7, RecordsNow DEF Answers, AnswersOwn
<1> QED
  BY <1>4, <1>5, <1>8, RecordsNow, ServesOk DEF SameKind, Serves

LEMMA ServeReadOk == ASSUME ConsoleOk, NEW r \in net, ServeRead(r) PROVE ConsoleOk'
<1>1. srv' = srv => KeepsTests(srv')
  BY RecordsNow DEF KeepsTests
<1>2. CASE Served(r, "load") /\ Reply(r, srv) /\ UNCHANGED srv
  BY <1>2, ServedEnv, ServeLoadOk
<1>3. CASE Served(r, "manifest") /\ Reply(r, [text |-> srv.manifest[r.arg], count |-> srv.versions[r.arg]]) /\ UNCHANGED srv
  BY <1>3, ServedEnv, ServeManifestOk
<1>4. CASE Served(r, "versions") /\ Reply(r, srv.versions[r.arg]) /\ UNCHANGED srv
  BY <1>1, <1>4, ServedEnv, ReplyOk
<1> QED
  BY <1>2, <1>3, <1>4 DEF ServeRead

LEMMA ServeResultOk == ASSUME ConsoleOk, NEW r \in net, ServeResult(r) PROVE ConsoleOk'
<1>1. srv' = srv => KeepsTests(srv')
  BY RecordsNow DEF KeepsTests
<1>2. CASE Served(r, "result") /\ Is(r.arg, "passed") /\ Reply(r, 0) /\ UNCHANGED srv
  BY <1>1, <1>2, ServedEnv, ReplyOk
<1>3. CASE Served(r, "result") /\ ~Is(r.arg, "passed") /\ Refuse(r)
  BY <1>3, ServedEnv, RefuseOk
<1> QED
  BY <1>2, <1>3 DEF ServeResult

LEMMA QueueRunOk ==
  ASSUME ConsoleOk, NEW r \in net, r.op \in {"startRun", "trigger"}, NEW test, QueueRun(r, test), ui' = ui, env' = env
  PROVE  ConsoleOk'
<1> DEFINE run == [test |-> test, status |-> "running"]
           records == [srv EXCEPT !.runs = Append(@, run)]
           id == Len(srv.runs) + 1
<1>1. Reply(r, id) /\ srv' = records
  BY DEF QueueRun, Store
<1>2. KeepsTests(records)
  BY RunAppended
<1> HIDE DEF records, id
<1> QED
  BY <1>1, <1>2, ReplyOk

LEMMA ServeRunsOk == ASSUME ConsoleOk, NEW r \in net, ServeRuns(r) PROVE ConsoleOk'
<1>1. CASE Served(r, "startRun") /\ QueueRun(r, r.arg)
  BY <1>1, ServedEnv, QueueRunOk
<1>2. CASE Served(r, "trigger") /\ QueueRun(r, srv.schedules[r.arg].test)
  BY <1>2, ServedEnv, QueueRunOk
<1>3. CASE Served(r, "cancel") /\ Store(r, 0, [srv EXCEPT !.runs[r.arg].status = "cancelled"])
  <2> DEFINE records == [srv EXCEPT !.runs[r.arg].status = "cancelled"]
  <2>1. Reply(r, 0) /\ srv' = records
    BY <1>3 DEF Store
  <2>2. KeepsTests(records)
    BY RunPatched
  <2> HIDE DEF records
  <2> QED
    BY <1>3, <2>1, <2>2, ServedEnv, ReplyOk
<1>4. CASE Served(r, "cancel") /\ ~Is(r.arg, "running") /\ Refuse(r)
  BY <1>4, ServedEnv, RefuseOk
<1> QED
  BY <1>1, <1>2, <1>3, <1>4 DEF ServeRuns

(* A manifest is stored. *)
LEMMA UpdateOk ==
  ASSUME ConsoleOk, NEW r \in net, r.op = "update",
         NEW records, Store(r, 0, records), DOMAIN records = DOMAIN srv, records.runs = srv.runs,
         records.manifest = [srv.manifest EXCEPT ![r.arg.test] = r.arg.text],
         ui' = ui, env' = env
  PROVE  ConsoleOk'
<1> DEFINE list == [srv.manifest EXCEPT ![r.arg.test] = r.arg.text]
<1>1. Reply(r, 0) /\ srv' = records
  BY DEF Store
<1>2. DOMAIN srv = RecordFields /\ srv.runs \in Seq(Range(srv.runs)) /\ srv.manifest \in Seq(Texts) /\ Len(srv.manifest) \in Nat
  BY RecordsNow DEF RecordsOk
<1>3. r.arg.text \in Texts
  BY DEF ConsoleOk, EditorTyped
<1>4. DOMAIN srv.manifest = 1..Len(srv.manifest) /\ \A n \in 1..Len(srv.manifest) : srv.manifest[n] \in Texts
  BY <1>2
<1>5. list \in [1..Len(srv.manifest) -> Texts] /\ DOMAIN list = DOMAIN srv.manifest
  BY <1>3, <1>4
<1>6. \A n \in DOMAIN srv.manifest : list[n] = IF n = r.arg.test THEN r.arg.text ELSE srv.manifest[n]
  BY <1>4
<1>7. DOMAIN records = RecordFields /\ records.manifest = list /\ records.runs = srv.runs
  BY <1>2
<1> HIDE DEF list
<1>8. list \in Seq(Texts)
  BY <1>2, <1>5, IsList
<1>9. RecordsOk(srv') /\ DOMAIN srv.manifest = DOMAIN srv'.manifest
  BY <1>1, <1>2, <1>5, <1>8, <1>7 DEF RecordsOk
<1>10. \E new : Serves(r, new) /\ new.at = "ok" /\ new.ans = 0
  BY <1>1, ReplyServes
<1>11. PICK new : Serves(r, new)
  BY <1>10
<1>12. new.op = "update"
  BY <1>11 DEF Serves
<1>13. env.ordered /\ ~env.astray => r.arg.text.of = r.arg.test
  BY DEF ConsoleOk, OwnTexts
<1>14. Answers(srv', new) /\ (env.ordered /\ ~env.astray => AnswersOwn(srv', new))
  BY <1>1, <1>6, <1>7, <1>9, <1>12, <1>13, RecordsNow DEF Answers, AnswersOwn
<1> QED
  BY <1>9, <1>11, <1>14, ServesOk DEF SameKind

LEMMA ManifestAppended ==
  ASSUME NEW list \in Seq(Texts), NEW text \in Texts
  PROVE  /\ Append(list, text) \in Seq(Texts)
         /\ DOMAIN list = 1..Len(list) /\ Len(list) \in Nat
         /\ DOMAIN Append(list, text) = 1..(Len(list) + 1)
         /\ \A n \in 1..(Len(list) + 1) : Append(list, text)[n] = IF n = Len(list) + 1 THEN text ELSE list[n]
OBVIOUS

LEMMA NoTextTyped == NoText \in Texts
<1>1. NoText.of \in Nat /\ NoText.rev \in Nat /\ DOMAIN NoText = {"of", "valid", "rev"}
  BY DEF NoText
<1>2. NoText.valid
  BY DEF NoText
<1> QED
  BY <1>1, <1>2 DEF Texts, NoText

LEMMA NewText == ASSUME NEW test \in Nat PROVE [NoText EXCEPT !.of = test] \in Texts /\ [NoText EXCEPT !.of = test].of = test
BY NoTextTyped DEF Texts

LEMMA CreateOk ==
  ASSUME ConsoleOk, NEW r \in net, r.op = "createTest",
         NEW test, test = Len(srv.manifest) + 1,
         Store(r, test, [srv EXCEPT !.manifest = Append(@, [NoText EXCEPT !.of = test]), !.versions = Append(@, 1)]),
         ui' = ui, env' = env
  PROVE  ConsoleOk'
<1> DEFINE text == [NoText EXCEPT !.of = test]
           records == [srv EXCEPT !.manifest = Append(@, text), !.versions = Append(@, 1)]
<1>1. Reply(r, test) /\ srv' = records
  BY DEF Store
<1>2. DOMAIN srv = RecordFields /\ srv.runs \in Seq(Range(srv.runs)) /\ srv.manifest \in Seq(Texts) /\ Len(srv.manifest) \in Nat
  BY RecordsNow DEF RecordsOk
<1>3. text \in Texts /\ text.of = test
  <2>1. test \in Nat
    BY <1>2
  <2> HIDE DEF records
  <2> QED
    BY <2>1, NewText, Zenon
<1> HIDE DEF text
<1>4. DOMAIN records = RecordFields /\ records.manifest = Append(srv.manifest, text) /\ records.runs = srv.runs
  BY <1>2 DEF RecordFields
<1> HIDE DEF records
<1>5. /\ srv'.manifest \in Seq(Texts)
      /\ DOMAIN srv.manifest = 1..Len(srv.manifest)
      /\ DOMAIN srv'.manifest = 1..(Len(srv.manifest) + 1)
      /\ \A n \in 1..(Len(srv.manifest) + 1) : srv'.manifest[n] = IF n = test THEN text ELSE srv.manifest[n]
  BY <1>1, <1>2, <1>3, <1>4, ManifestAppended
<1>6. RecordsOk(srv') /\ DOMAIN srv.manifest \subseteq DOMAIN srv'.manifest /\ test \in DOMAIN srv'.manifest
  BY <1>1, <1>2, <1>4, <1>5 DEF RecordsOk
<1>7. \E new : Serves(r, new) /\ new.at = "ok" /\ new.ans = test
  BY <1>1, ReplyServes
<1>8. PICK new : Serves(r, new) /\ new.ans = test
  BY <1>7
<1>9. new.op = "createTest"
  BY <1>8 DEF Serves
<1>10. (\A n \in DOMAIN srv.manifest : srv.manifest[n].of = n) => \A n \in DOMAIN srv'.manifest : srv'.manifest[n].of = n
  BY <1>2, <1>3, <1>5
<1>11. Answers(srv', new) /\ (env.ordered /\ ~env.astray => AnswersOwn(srv', new))
  BY <1>6, <1>8, <1>9, <1>10, RecordsNow DEF Answers, AnswersOwn
<1> QED
  BY <1>6, <1>8, <1>11, ServesOk DEF SameKind

LEMMA ServeManifestsOk == ASSUME ConsoleOk, NEW r \in net, ServeManifests(r) PROVE ConsoleOk'
<1>1. CASE /\ Served(r, "update")
           /\ Store(r, 0, [srv EXCEPT !.manifest[r.arg.test] = r.arg.text, !.versions[r.arg.test] = @ + 1])
  <2> DEFINE s == [srv EXCEPT !.manifest[r.arg.test] = r.arg.text, !.versions[r.arg.test] = @ + 1]
  <2>1. DOMAIN s = DOMAIN srv /\ s.runs = srv.runs /\ s.manifest = [srv.manifest EXCEPT ![r.arg.test] = r.arg.text]
    BY RecordsNow DEF RecordsOk, RecordFields
  <2>2. Store(r, 0, s)
    BY <1>1
  <2> HIDE DEF s
  <2> QED
    BY <1>1, <2>1, <2>2, ServedEnv, UpdateOk
<1>2. CASE Served(r, "update") /\ Refuse(r)
  BY <1>2, ServedEnv, RefuseOk
<1>3. CASE Served(r, "createTest") /\
           LET test == Len(srv.manifest) + 1
           IN  Store(r, test, [srv EXCEPT !.manifest = Append(@, [NoText EXCEPT !.of = test]), !.versions = Append(@, 1)])
  BY <1>3, ServedEnv, CreateOk
<1> QED
  BY <1>1, <1>2, <1>3 DEF ServeManifests

(* A request that is not about the tests or the runs is stored. *)
LEMMA StoreOk ==
  ASSUME ConsoleOk, NEW r \in net, r.op \notin {"load", "manifest", "createTest", "urls"},
         NEW ans, NEW s, Store(r, ans, s), DOMAIN s = DOMAIN srv, s.runs = srv.runs, s.manifest = srv.manifest,
         ui' = ui, env' = env
  PROVE  ConsoleOk'
<1>1. KeepsTests(s)
  BY RecordsNow, OtherRecord DEF RecordsOk
<1> QED
  BY <1>1, ReplyOk DEF Store

LEMMA ServeTenantOk == ASSUME ConsoleOk, NEW r \in net, ServeTenant(r) PROVE ConsoleOk'
<1>1. CASE Served(r, "createChange") /\ Store(r, Len(srv.changes) + 1, [srv EXCEPT !.changes = Append(@, "open")])
  <2> DEFINE ans == Len(srv.changes) + 1
             s == [srv EXCEPT !.changes = Append(@, "open")]
  <2>1. DOMAIN s = DOMAIN srv /\ s.runs = srv.runs /\ s.manifest = srv.manifest
    BY RecordsNow DEF RecordsOk, RecordFields
  <2>2. Store(r, ans, s)
    BY <1>1
  <2> HIDE DEF ans, s
  <2> QED
    BY <1>1, <2>1, <2>2, ServedEnv, StoreOk
<1>2. CASE Served(r, "decide") /\ Store(r, r.arg.status, [srv EXCEPT !.changes[r.arg.id] = r.arg.status])
  <2> DEFINE ans == r.arg.status
             s == [srv EXCEPT !.changes[r.arg.id] = r.arg.status]
  <2>1. DOMAIN s = DOMAIN srv /\ s.runs = srv.runs /\ s.manifest = srv.manifest
    BY RecordsNow DEF RecordsOk, RecordFields
  <2>2. Store(r, ans, s)
    BY <1>2
  <2> HIDE DEF ans, s
  <2> QED
    BY <1>2, <2>1, <2>2, ServedEnv, StoreOk
<1>3. CASE Served(r, "savePolicy") /\
           LET policy == [days |-> r.arg, at |-> srv.policy.at + 1] IN Store(r, policy, [srv EXCEPT !.policy = policy])
  <2> DEFINE ans == [days |-> r.arg, at |-> srv.policy.at + 1]
             s == [srv EXCEPT !.policy = [days |-> r.arg, at |-> srv.policy.at + 1]]
  <2>1. DOMAIN s = DOMAIN srv /\ s.runs = srv.runs /\ s.manifest = srv.manifest
    BY RecordsNow DEF RecordsOk, RecordFields
  <2>2. Store(r, ans, s)
    BY <1>3
  <2> HIDE DEF ans, s
  <2> QED
    BY <1>3, <2>1, <2>2, ServedEnv, StoreOk
<1>4. CASE Served(r, "saveSecret") /\ Store(r, Len(srv.secrets) + 1, [srv EXCEPT !.secrets = Append(@, r.arg)])
  <2> DEFINE ans == Len(srv.secrets) + 1
             s == [srv EXCEPT !.secrets = Append(@, r.arg)]
  <2>1. DOMAIN s = DOMAIN srv /\ s.runs = srv.runs /\ s.manifest = srv.manifest
    BY RecordsNow DEF RecordsOk, RecordFields
  <2>2. Store(r, ans, s)
    BY <1>4
  <2> HIDE DEF ans, s
  <2> QED
    BY <1>4, <2>1, <2>2, ServedEnv, StoreOk
<1>5. CASE Served(r, "rotateSecret") /\ Store(r, r.arg.id, [srv EXCEPT !.secrets[r.arg.id] = r.arg.value])
  <2> DEFINE ans == r.arg.id
             s == [srv EXCEPT !.secrets[r.arg.id] = r.arg.value]
  <2>1. DOMAIN s = DOMAIN srv /\ s.runs = srv.runs /\ s.manifest = srv.manifest
    BY RecordsNow DEF RecordsOk, RecordFields
  <2>2. Store(r, ans, s)
    BY <1>5
  <2> HIDE DEF ans, s
  <2> QED
    BY <1>5, <2>1, <2>2, ServedEnv, StoreOk
<1> QED
  BY <1>1, <1>2, <1>3, <1>4, <1>5 DEF ServeTenant

LEMMA ServeGitHubOk == ASSUME ConsoleOk, NEW r \in net, ServeGitHub(r) PROVE ConsoleOk'
<1>1. CASE Served(r, "sync") /\ Store(r, srv.repos[r.arg] + 1, [srv EXCEPT !.repos[r.arg] = @ + 1])
  <2> DEFINE ans == srv.repos[r.arg] + 1
             s == [srv EXCEPT !.repos[r.arg] = @ + 1]
  <2>1. DOMAIN s = DOMAIN srv /\ s.runs = srv.runs /\ s.manifest = srv.manifest
    BY RecordsNow DEF RecordsOk, RecordFields
  <2>2. Store(r, ans, s)
    BY <1>1
  <2> HIDE DEF ans, s
  <2> QED
    BY <1>1, <2>1, <2>2, ServedEnv, StoreOk
<1>2. CASE Served(r, "createBranch") /\ Store(r, r.arg.repo, [srv EXCEPT !.branches[r.arg.repo] = Append(@, r.arg.repo)])
  <2> DEFINE ans == r.arg.repo
             s == [srv EXCEPT !.branches[r.arg.repo] = Append(@, r.arg.repo)]
  <2>1. DOMAIN s = DOMAIN srv /\ s.runs = srv.runs /\ s.manifest = srv.manifest
    BY RecordsNow DEF RecordsOk, RecordFields
  <2>2. Store(r, ans, s)
    BY <1>2
  <2> HIDE DEF ans, s
  <2> QED
    BY <1>2, <2>1, <2>2, ServedEnv, StoreOk
<1>3. CASE (\E op \in {"branches", "sync", "createBranch"} : Served(r, op)) /\ Refuse(r)
  BY <1>3, ServedEnv, RefuseOk
<1>4. CASE Served(r, "branches") /\ Reply(r, srv.branches[r.arg]) /\ UNCHANGED srv
  <2>1. KeepsTests(srv')
    BY <1>4, RecordsNow DEF KeepsTests
  <2> QED
    BY <1>4, <2>1, ServedEnv, ReplyOk
<1> QED
  BY <1>1, <1>2, <1>3, <1>4 DEF ServeGitHub

(* A runner completes a run. *)
LEMMA RunPassesOk == ASSUME ConsoleOk, NEW run, RunPasses(run) PROVE ConsoleOk'
<1> DEFINE records == [srv EXCEPT !.runs[run].status = "passed"]
<1>1. srv' = records /\ UNCHANGED <<net, ui, env>>
  BY DEF RunPasses
<1>2. KeepsTests(records)
  BY RunPatched
<1> HIDE DEF records
<1>3. ServerOk(srv', net')
  BY <1>1, <1>2 DEF ConsoleOk, ServerOk, KeepsTests
<1>4. EditorTyped(srv', ui', net')
  BY <1>1, <1>2 DEF ConsoleOk, EditorTyped, KeepsTests
<1>5. env.ordered /\ ~env.astray => OwnTexts(srv', ui', net')
  BY <1>1, <1>2 DEF ConsoleOk, OwnTexts, KeepsTests
<1> QED
  BY <1>1, <1>3, <1>4, <1>5 DEF ConsoleOk

-----------------------------------------------------------------------------
(* The page is opened.                                                         *)

LEMMA SeedRecords == RecordsOk(Seed) /\ \A test \in DOMAIN Seed.manifest : Seed.manifest[test].of = test
<1>1. DOMAIN Seed = RecordFields
  BY SeedAssumption DEF RecordFields
<1>2. Seed.manifest \in Seq(Texts)
  BY SeedAssumption
<1>3. Seed.runs \in Seq(Range(Seed.runs))
  BY SeedAssumption, OwnElements
<1> QED
  BY <1>1, <1>2, <1>3, SeedAssumption DEF RecordsOk

LEMMA OpenedFields ==
  ASSUME NEW page, DOMAIN page = AppFields,
         page.timers = 0, page.evidenceNo = 0, ~page.running, ~page.loading, page.live = {}
  PROVE  /\ Shaped(Anew(page))
         /\ Anew(page).screen = page.screen /\ Anew(page).runs = page.runs /\ Anew(page).selected = page.selected
         /\ Anew(page).tests = page.tests /\ Anew(page).text = page.text /\ Anew(page).editing = page.editing
         /\ Anew(page).own = {} /\ Anew(page).live = {} /\ Anew(page).links = {}
         /\ ~Anew(page).running /\ ~Anew(page).loading /\ NotBusy(Anew(page))
BY DEF Anew, Local, Shaped, AppFields, LocalFields, NotBusy

LEMMA DemoListed ==
  /\ DemoRuns \in Seq(Range(DemoRuns))
  /\ \A n \in 1..Len(DemoRuns) : DOMAIN DemoRuns[n] = {"id", "test", "status"}
  /\ DemoRuns[2].id \in Ids(DemoRuns)
<1> DEFINE one == [id |-> -1, test |-> 0, status |-> "running"]
           two == [id |-> -2, test |-> 0, status |-> "passed"]
<1>1. DemoRuns = <<one, two>>
  BY DEF DemoRuns
<1>2. DOMAIN one = {"id", "test", "status"} /\ DOMAIN two = {"id", "test", "status"}
  OBVIOUS
<1> HIDE DEF one, two
<1>3. <<one, two>> \in Seq({one, two}) /\ Len(<<one, two>>) = 2
  OBVIOUS
<1>4. <<one, two>> \in Seq(Range(<<one, two>>))
  BY <1>3, OwnElements
<1>5. <<one, two>>[2].id \in Ids(<<one, two>>)
  BY <1>3 DEF Ids
<1> QED
  BY <1>1, <1>2, <1>3, <1>4, <1>5

LEMMA FirstLoad ==
  ASSUME NEW live \in BOOLEAN, NEW q, q = IF live THEN {[Ask("load", 0) EXCEPT !.no = 1]} ELSE {}
  PROVE  Formed(q) /\ \A r \in q : r.op = "load" /\ r.at = "sent"
<1> DEFINE r == [Ask("load", 0) EXCEPT !.no = 1]
<1>1. DOMAIN r = {"op", "arg", "no", "at", "cut", "ans"} /\ r.cut \in BOOLEAN /\ r.op = "load" /\ r.at = "sent"
  BY DEF Ask
<1>2. q \subseteq {r}
  OBVIOUS
<1> HIDE DEF r
<1> QED
  BY <1>1, <1>2 DEF Formed

LEMMA ConsoleInit == Init => ConsoleOk
<1> SUFFICES ASSUME Init PROVE ConsoleOk
  OBVIOUS
<1>1. PICK visits \in Visits, ordered \in BOOLEAN, live \in BOOLEAN, test \in ConfigTests,
        github \in SUBSET DOMAIN Seed.repos :
       /\ "GitHub" \in visits \/ github = {}
       /\ env = [ordered |-> ordered, visits |-> visits, live |-> live, configTest |-> test,
                 github |-> github, clicks |-> Clicks[visits], faults |-> Faults, astray |-> FALSE]
       /\ net = IF live THEN {[Ask("load", 0) EXCEPT !.no = 1]} ELSE {}
       /\ ui = Anew([screen |-> "Overview", locale |-> "en", link |-> IF live THEN "live" ELSE "demo",
                     runs |-> DemoRuns, selected |-> IF live THEN NoRun ELSE DemoRuns[2], running |-> FALSE, timers |-> 0,
                     tests |-> <<>>, changes |-> <<>>, secrets |-> <<>>, schedules |-> <<>>, policy |-> NoPolicy, repos |-> <<>>,
                     editing |-> 0, text |-> NoText, saved |-> NoText, versions |-> [of |-> 0, count |-> 0], loading |-> FALSE,
                     evidenceNo |-> 0, live |-> {}])
  BY DEF Init
<1> DEFINE page == [screen |-> "Overview", locale |-> "en", link |-> IF live THEN "live" ELSE "demo",
                     runs |-> DemoRuns, selected |-> IF live THEN NoRun ELSE DemoRuns[2], running |-> FALSE, timers |-> 0,
                     tests |-> <<>>, changes |-> <<>>, secrets |-> <<>>, schedules |-> <<>>, policy |-> NoPolicy, repos |-> <<>>,
                     editing |-> 0, text |-> NoText, saved |-> NoText, versions |-> [of |-> 0, count |-> 0], loading |-> FALSE,
                     evidenceNo |-> 0, live |-> {}]
<1>2. /\ DOMAIN page = AppFields
      /\ page.timers = 0 /\ page.evidenceNo = 0 /\ ~page.running /\ ~page.loading /\ page.live = {}
      /\ page.screen = "Overview" /\ page.runs = DemoRuns /\ page.selected = (IF live THEN NoRun ELSE DemoRuns[2])
      /\ page.tests = <<>> /\ page.text = NoText /\ page.editing = 0
  BY DEF AppFields
<1>3. DOMAIN env = {"ordered", "visits", "live", "configTest", "clicks", "faults", "github", "astray"} /\ srv = Seed
  BY <1>1 DEF Init
<1>4. Formed(net) /\ \A r \in net : r.op = "load" /\ r.at = "sent"
  BY <1>1, FirstLoad
<1>5. ui = Anew(page)
  BY <1>1
<1> HIDE DEF page
<1>6. /\ Shaped(ui) /\ ui.screen = "Overview" /\ ui.runs = DemoRuns /\ ui.selected = (IF live THEN NoRun ELSE DemoRuns[2])
      /\ ui.tests = <<>> /\ ui.text = NoText /\ ui.editing = 0
      /\ ui.own = {} /\ ui.live = {} /\ ui.links = {}
      /\ ~ui.running /\ ~ui.loading /\ NotBusy(ui)
  BY <1>2, <1>5, OpenedFields
<1>7. Quiet(ui, net)
  BY <1>6 DEF Quiet, NotBusy
<1>8. RunsListed(ui)
  BY <1>6, DemoListed DEF RunsListed
<1>9. Shown(ui, net)
  BY <1>4, <1>6 DEF Shown, Asked, Fetches
<1>10. ServerOk(srv, net)
  BY <1>3, <1>4, SeedRecords DEF ServerOk
<1>11. EditorTyped(srv, ui, net)
  <2>1. NoText \in Texts
    BY NoTextTyped
  <2>2. ui.tests \in Seq(DOMAIN srv.manifest)
    BY <1>6
  <2> QED
    BY <1>4, <1>6, <2>1, <2>2 DEF EditorTyped
<1>12. OwnTexts(srv, ui, net)
  BY <1>3, <1>4, <1>6, SeedRecords DEF OwnTexts
<1> QED
  BY <1>3, <1>4, <1>6, <1>7, <1>8, <1>9, <1>10, <1>11, <1>12 DEF ConsoleOk

-----------------------------------------------------------------------------
(* The next-state relation.                                                    *)

LEMMA ServerAnswers == ASSUME ConsoleOk, NEW r \in net, Server(r) PROVE ConsoleOk'
BY ServeReadOk, ServeResultOk, ServeRunsOk, ServeManifestsOk, ServeTenantOk, ServeGitHubOk DEF Server

LEMMA AppAnswerOk == ASSUME ConsoleOk, NEW r \in net, AppAnswer(r) PROVE ConsoleOk'
BY LoadedOk, LoadFailedOk, RunStartedOk, StartFailedOk, RunCancelledOk, CancelFailedOk,
   ManifestLoadedOk, ManifestLoadFailedOk, SavedOk, VersionsListedOk, SaveFailedOk, TestCreatedOk, CreateTestFailedOk,
   EvidenceShownOk, EvidenceFailedOk, ResultShownOk, ResultFailedOk, ArtifactFetchedOk DEF AppAnswer

LEMMA ScreenAnswerOk == ASSUME ConsoleOk, NEW r \in net, ScreenAnswer(r) PROVE ConsoleOk'
BY TriggeredOk, TriggerFailedOk, BranchesListedOk, PullsListedOk, SyncedOk, SyncFailedOk, ComparedOk, FileLoadedOk,
   BranchCreatedOk, ChangeCreatedOk, ToldOk, DecidedOk, DecideFailedOk, PolicySavedOk, SecretStoredOk DEF ScreenAnswer

LEMMA AppClickOk == ASSUME ConsoleOk, AppClick PROVE ConsoleOk'
BY GoOk, PressRunOk, CancelRunOk, CreateTestOk, EditFormOk, SaveOk, PressRunOfOk, OpenEditorOk, EditYamlOk, SelectRunOk
   DEF AppClick

LEMMA ScreenClickOk == ASSUME ConsoleOk, ScreenClick PROVE ConsoleOk'
BY TriggerOk, SelectRepositoryOk, SwitchLocaleOk, TypeBaseOk, SyncOk, CompareOk, LoadFileOk, CreateBranchOk, CommitFileOk,
   CreatePrOk, CreateChangeOk, DecideOk, TypeDaysOk, SavePolicyOk, SaveSecretOk, TypeSecretOk, RotateSecretOk
   DEF ScreenClick

LEMMA ConsoleStays == ASSUME ConsoleOk, UNCHANGED vars PROVE ConsoleOk'
<1>1. srv' = srv /\ net' = net /\ ui' = ui /\ env' = env
  BY DEF vars
<1> QED
  BY <1>1 DEF ConsoleOk

LEMMA ConsoleStep == ConsoleOk /\ [WebNext]_<<vars, sessionVars>> => ConsoleOk'
<1> SUFFICES ASSUME ConsoleOk, [WebNext]_<<vars, sessionVars>> PROVE ConsoleOk'
  OBVIOUS
<1>1. CASE UNCHANGED vars
  BY <1>1, ConsoleStays
<1>2. CASE AppClick
  BY <1>2, AppClickOk
<1>3. CASE ScreenClick
  BY <1>3, ScreenClickOk
<1>4. CASE Closures
  BY <1>4, TimerFiresOk, AppAnswerOk, ScreenAnswerOk DEF Closures
<1>5. CASE Network
  BY <1>5, ServerAnswers, BreakOk DEF Network
<1>6. CASE \E run \in DOMAIN srv.runs : RunPasses(run)
  BY <1>6, RunPassesOk
<1> QED
  BY <1>1, <1>2, <1>3, <1>4, <1>5, <1>6 DEF WebNext, Working

(* What the page says and shows, and what it waits for, belong together.     *)
THEOREM ConsoleIsSound == WebSpec => []ConsoleOk
<1>1. WebInit => ConsoleOk
  BY ConsoleInit DEF WebInit
<1> QED
  BY <1>1, ConsoleStep, PTL DEF WebSpec

-----------------------------------------------------------------------------
(* What follows.                                                               *)

(* The Runs screen is about the selected run once its requests are answered, *)
(* in whichever order and with whichever failures, and no object URL is      *)
(* leaked or used after it was revoked.                                      *)
THEOREM ScreenIsOfTheSelectedRun == WebSpec => []EvidenceOfSelected
<1>1. ConsoleOk => EvidenceOfSelected
  <2> SUFFICES ASSUME ConsoleOk PROVE EvidenceOfSelected
    OBVIOUS
  <2> DEFINE fetching == {r \in net : r.op = "urls"}
  <2>1. ui.selected # NoRun => ui.selected.id \in Ids(ui.runs)
    BY DEF ConsoleOk, RunsListed
  <2>2. Fetches(ui, net, ui.evidenceNo, ui.screen)
    BY DEF ConsoleOk, Shown
  <2>3. ui.live \subseteq ui.own \cup UNION {r.ans.got : r \in fetching}
    BY <2>2 DEF Fetches
  <2>4. ASSUME ui.screen = "Runs"
        PROVE  /\ (\E r \in net : r.op = "evidence" /\ ~r.cut) \/ ui.evidence \in {0, ui.selected.id}
               /\ (\E r \in net : r.op = "result" /\ ~r.cut) \/ ui.result \in {0, ui.selected.id}
    BY <2>4, ShownNow DEF Uncut
  <2>5. ASSUME ui.screen = "Runs", \A r \in fetching : r.cut
        PROVE  {link \in ui.links : link[2] \in ArtifactsOf(ui.evidence)} \subseteq ui.live
    <3>1. CASE ui.evidence # 0
      BY <2>2, <2>5, <3>1 DEF ConsoleOk, Shown, LinksAlive, Uncut, Fetches
    <3>2. CASE ui.evidence = 0
      BY <2>2, <3>2, ArtifactNamesItsRun DEF Fetches
    <3> QED
      BY <3>1, <3>2
  <2> QED
    BY <2>1, <2>3, <2>4, <2>5 DEF EvidenceOfSelected
<1> QED
  BY <1>1, ConsoleIsSound, PTL

(* A page for which nothing is under way says nowhere that it is busy.       *)
THEOREM PageComesToRest == WebSpec => []QuietAtRest
<1>1. ConsoleOk => QuietAtRest
  BY DEF ConsoleOk, Quiet, QuietAtRest, AtRest, Uncut, Shaped
<1> QED
  BY <1>1, ConsoleIsSound, PTL

(* A manifest is stored under another test than its own only if the network  *)
(* reordered answers, an editor was opened while answers for another were    *)
(* under way, or a manifest could not be loaded over another test's text.    *)
THEOREM TextsStayWithTheirTests == WebSpec => []SavesItsOwnText
<1>1. ConsoleOk => SavesItsOwnText
  BY DEF ConsoleOk, OwnTexts, SavesItsOwnText
<1> QED
  BY <1>1, ConsoleIsSound, PTL

=============================================================================
