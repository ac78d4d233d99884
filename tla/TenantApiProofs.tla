---------------------------- MODULE TenantApiProofs ----------------------------
(***************************************************************************)
(* What holds of the handlers on a tenant's data for every set of          *)
(* requests, whatever they ask for, and any number of faults: the manifest *)
(* that is served, the lease of an AI worker job, and the bodies of        *)
(* artifacts against their records.                                        *)
(***************************************************************************)
EXTENDS TenantApi, FiniteSetTheorems, WellFoundedInduction, TLAPS

-----------------------------------------------------------------------------
(* The routes.                                                                 *)

(* The calls that are made by one route, and where they stand in it.         *)
Once == {"updateTestManifest", "createAiWorkerJob", "putBody", "createArtifact", "createTest", "createPlugin",
         "saveRunResult", "addOrganizationMembership"}
PurgeOps == {"deleteBody", "deleteArtifact", Audit}
GoodRoute(route, ops) ==
  /\ Len(ops) \in Nat \ {0} /\ DOMAIN ops = 1..Len(ops)
  /\ \A i, j \in DOMAIN ops : ops[i] = ops[j] /\ ops[i] \in Once => i = j
  /\ \A i \in DOMAIN ops :
       /\ ops[i] \notin {"deleteBody", "deleteArtifact"}
       /\ ops[i] \in {"putBody", "createArtifact"} => route = "postArtifacts"
       /\ ops[i] = "completeAiWorkerJob" => route = "postComplete"
       /\ ops[i] = "listArtifactsBefore" => route = "postPurge"
  /\ route = "postArtifacts" => ops = <<"getRun", "putBody", "createArtifact">>
  /\ route = "postPurge" => ops = <<"listArtifactsBefore">>

LEMMA GoodSessionRoutes == \A x \in DOMAIN SessionRoutes : GoodRoute(x, SessionRoutes[x])
BY DEF SessionRoutes, GoodRoute, Once
LEMMA GoodAccountRoutes == \A x \in DOMAIN AccountRoutes : GoodRoute(x, AccountRoutes[x])
<1>1. GoodRoute("postOrganizations", AccountRoutes["postOrganizations"])
  BY DEF AccountRoutes, GoodRoute, Once, Audit
<1>2. GoodRoute("getMyOrganizations", AccountRoutes["getMyOrganizations"])
  BY DEF AccountRoutes, GoodRoute, Once, Audit
<1>3. GoodRoute("postProjects", AccountRoutes["postProjects"])
  BY DEF AccountRoutes, GoodRoute, Once, Audit
<1>4. GoodRoute("getProjects", AccountRoutes["getProjects"])
  BY DEF AccountRoutes, GoodRoute, Once, Audit
<1>5. GoodRoute("getMembers", AccountRoutes["getMembers"])
  BY DEF AccountRoutes, GoodRoute, Once, Audit
<1>6. GoodRoute("getAuditLogs", AccountRoutes["getAuditLogs"])
  BY DEF AccountRoutes, GoodRoute, Once, Audit
<1> QED
  BY <1>1, <1>2, <1>3, <1>4, <1>5, <1>6 DEF AccountRoutes
LEMMA GoodPolicyRoutes == \A x \in DOMAIN PolicyRoutes : GoodRoute(x, PolicyRoutes[x])
BY DEF PolicyRoutes, GoodRoute, Once, Audit
LEMMA GoodAiWorkerRoutes == \A x \in DOMAIN AiWorkerRoutes : GoodRoute(x, AiWorkerRoutes[x])
<1>1. GoodRoute("postAiWorkers", AiWorkerRoutes["postAiWorkers"])
  BY DEF AiWorkerRoutes, GoodRoute, Once, Audit
<1>2. GoodRoute("getAiWorkers", AiWorkerRoutes["getAiWorkers"])
  BY DEF AiWorkerRoutes, GoodRoute, Once, Audit
<1>3. GoodRoute("postHeartbeat", AiWorkerRoutes["postHeartbeat"])
  BY DEF AiWorkerRoutes, GoodRoute, Once, Audit
<1>4. GoodRoute("postAiWorkerJobs", AiWorkerRoutes["postAiWorkerJobs"])
  BY DEF AiWorkerRoutes, GoodRoute, Once, Audit
<1>5. GoodRoute("getAiWorkerJobs", AiWorkerRoutes["getAiWorkerJobs"])
  BY DEF AiWorkerRoutes, GoodRoute, Once, Audit
<1>6. GoodRoute("postLease", AiWorkerRoutes["postLease"])
  BY DEF AiWorkerRoutes, GoodRoute, Once, Audit
<1>7. GoodRoute("postComplete", AiWorkerRoutes["postComplete"])
  BY DEF AiWorkerRoutes, GoodRoute, Once, Audit
<1> QED
  BY <1>1, <1>2, <1>3, <1>4, <1>5, <1>6, <1>7 DEF AiWorkerRoutes
LEMMA GoodPluginRoutes == \A x \in DOMAIN PluginRoutes : GoodRoute(x, PluginRoutes[x])
BY SMTT(30) DEF PluginRoutes, GoodRoute, Once, Audit
LEMMA GoodSecretRoutes == \A x \in DOMAIN SecretRoutes : GoodRoute(x, SecretRoutes[x])
BY DEF SecretRoutes, GoodRoute, Once, Audit
LEMMA GoodTestRoutes == \A x \in DOMAIN TestRoutes : GoodRoute(x, TestRoutes[x])
<1>1. GoodRoute("postTests", TestRoutes["postTests"])
  BY DEF TestRoutes, GoodRoute, Once, Audit
<1>2. GoodRoute("getTests", TestRoutes["getTests"])
  BY DEF TestRoutes, GoodRoute, Once, Audit
<1>3. GoodRoute("getProject", TestRoutes["getProject"])
  BY DEF TestRoutes, GoodRoute, Once, Audit
<1> QED
  BY <1>1, <1>2, <1>3 DEF TestRoutes
LEMMA GoodRepositoryRoutes == \A x \in DOMAIN RepositoryRoutes : GoodRoute(x, RepositoryRoutes[x])
<1>1. GoodRoute("postRepositories", RepositoryRoutes["postRepositories"])
  BY DEF RepositoryRoutes, GoodRoute, Once, Audit
<1>2. GoodRoute("getRepositories", RepositoryRoutes["getRepositories"])
  BY DEF RepositoryRoutes, GoodRoute, Once, Audit
<1>3. GoodRoute("postSync", RepositoryRoutes["postSync"])
  BY DEF RepositoryRoutes, GoodRoute, Once, Audit
<1>4. GoodRoute("getBranches", RepositoryRoutes["getBranches"])
  BY DEF RepositoryRoutes, GoodRoute, Once, Audit
<1>5. GoodRoute("getContents", RepositoryRoutes["getContents"])
  BY DEF RepositoryRoutes, GoodRoute, Once, Audit
<1>6. GoodRoute("getCompare", RepositoryRoutes["getCompare"])
  BY DEF RepositoryRoutes, GoodRoute, Once, Audit
<1> QED
  BY <1>1, <1>2, <1>3, <1>4, <1>5, <1>6 DEF RepositoryRoutes
LEMMA GoodGitHubWriteRoutes == \A x \in DOMAIN GitHubWriteRoutes : GoodRoute(x, GitHubWriteRoutes[x])
<1>1. GoodRoute("postBranches", GitHubWriteRoutes["postBranches"])
  BY DEF GitHubWriteRoutes, GoodRoute, Once, Audit
<1>2. GoodRoute("putContents", GitHubWriteRoutes["putContents"])
  BY DEF GitHubWriteRoutes, GoodRoute, Once, Audit
<1>3. GoodRoute("getPulls", GitHubWriteRoutes["getPulls"])
  BY DEF GitHubWriteRoutes, GoodRoute, Once, Audit
<1>4. GoodRoute("postGitHubPulls", GitHubWriteRoutes["postGitHubPulls"])
  BY DEF GitHubWriteRoutes, GoodRoute, Once, Audit
<1> QED
  BY <1>1, <1>2, <1>3, <1>4 DEF GitHubWriteRoutes
LEMMA GoodManifestRoutes == \A x \in DOMAIN ManifestRoutes : GoodRoute(x, ManifestRoutes[x])
BY DEF ManifestRoutes, GoodRoute, Once
LEMMA GoodChangeRoutes == \A x \in DOMAIN ChangeRoutes : GoodRoute(x, ChangeRoutes[x])
BY DEF ChangeRoutes, GoodRoute, Once
LEMMA GoodResultRoutes == \A x \in DOMAIN ResultRoutes : GoodRoute(x, ResultRoutes[x])
<1>1. GoodRoute("getRuns", ResultRoutes["getRuns"])
  BY DEF ResultRoutes, GoodRoute, Once, Audit
<1>2. GoodRoute("getResult", ResultRoutes["getResult"])
  BY DEF ResultRoutes, GoodRoute, Once, Audit
<1>3. GoodRoute("postImport", ResultRoutes["postImport"])
  BY DEF ResultRoutes, GoodRoute, Once, Audit
<1>4. GoodRoute("postRepair", ResultRoutes["postRepair"])
  BY DEF ResultRoutes, GoodRoute, Once, Audit
<1> QED
  BY <1>1, <1>2, <1>3, <1>4 DEF ResultRoutes
LEMMA GoodNotifyRoutes == \A x \in DOMAIN NotifyRoutes : GoodRoute(x, NotifyRoutes[x])
BY SMTT(30) DEF NotifyRoutes, GoodRoute, Once
LEMMA GoodArtifactRoutes == \A x \in DOMAIN ArtifactRoutes : GoodRoute(x, ArtifactRoutes[x])
BY DEF ArtifactRoutes, GoodRoute, Once

LEMMA GoodRoutes ==
  ASSUME NEW x \in DOMAIN Routes
  PROVE  GoodRoute(x, Routes[x])
<1>1. PICK group \in RouteGroups : x \in DOMAIN group
  BY DEF Routes
<1> DEFINE chosen == CHOOSE g \in RouteGroups : x \in DOMAIN g
<1>2. chosen \in RouteGroups /\ x \in DOMAIN chosen
  BY <1>1
<1>3. Routes[x] = chosen[x]
  BY DEF Routes
<1> HIDE DEF chosen
<1>4. \A g \in RouteGroups : \A y \in DOMAIN g : GoodRoute(y, g[y])
  BY GoodSessionRoutes, GoodAccountRoutes, GoodPolicyRoutes, GoodAiWorkerRoutes, GoodPluginRoutes,
     GoodSecretRoutes, GoodTestRoutes, GoodRepositoryRoutes, GoodGitHubWriteRoutes, GoodManifestRoutes,
     GoodChangeRoutes, GoodResultRoutes, GoodNotifyRoutes, GoodArtifactRoutes DEF RouteGroups
<1> QED
  BY <1>2, <1>3, <1>4

-----------------------------------------------------------------------------
(* The inductive invariant.                                                    *)

CallFields == {"op", "id", "org", "on", "of", "key", "val"}
RowFields == {"org", "of", "key", "val"}
JobFields == {"status", "expired", "attempt", "place"}
Route(r) == asked[r].route
Pending(r, op) == \E i \in DOMAIN todo[r] : todo[r][i].op = op

(* What a handler has yet to do is the end of its route.  A purge, which     *)
(* makes its list of calls from what it finds, deletes each body just before *)
(* the record of it.                                                         *)
OnRoute(r) ==
  LET ops == Routes[Route(r)]
  IN /\ Len(todo[r]) <= Len(ops)
     /\ \A i \in DOMAIN todo[r] : todo[r][i].op = ops[i + (Len(ops) - Len(todo[r]))]
Purging(r) ==
  LET calls == todo[r]
  IN \A i \in DOMAIN calls :
       /\ calls[i].op \in PurgeOps /\ calls[i].org = asked[r].args.org
       /\ calls[i].op = "deleteBody" =>
            i + 1 \in DOMAIN calls /\ calls[i + 1].op = "deleteArtifact" /\ calls[i + 1].on = calls[i].on
       /\ calls[i].op = "deleteArtifact" /\ i > 1 => calls[i - 1].op = "deleteBody" /\ calls[i - 1].on = calls[i].on
Listing(r) ==
  Len(todo[r]) = 1 /\ todo[r][1].op = "listArtifactsBefore" /\ todo[r][1].org = asked[r].args.org
Shape(r) ==
  /\ Len(todo[r]) \in Nat /\ todo[r] = [i \in 1..Len(todo[r]) |-> todo[r][i]]
  /\ status[r] \in {"idle", "busy", "ok", "missing", "failed"}
  /\ status[r] = "busy" <=> Len(todo[r]) > 0
  /\ status[r] # "idle" => Route(r) \in DOMAIN Routes
  /\ \A i \in DOMAIN todo[r] :
       DOMAIN todo[r][i] = CallFields /\ todo[r][i].id = r /\ todo[r][i].val = asked[r].args.val
  /\ status[r] = "busy" => IF Route(r) = "postPurge" THEN Listing(r) \/ Purging(r) ELSE OnRoute(r)
TxShape(r) ==
  /\ DOMAIN tx[r] = {"began", "seen", "done", "found", "pick", "overtaken"}
  /\ tx[r].done \in Nat
  /\ tx[r].done > 0 => status[r] = "busy" /\ tx[r].done <= FirstStatements(Head(todo[r]))
Control ==
  /\ asked \in Scenario
  /\ DOMAIN todo = Request /\ DOMAIN status = Request /\ DOMAIN tx = Request
  /\ Tables \subseteq DOMAIN db /\ clock \in Nat
  /\ \A r \in Request : Shape(r) /\ TxShape(r)

(* A save knows the versions it came after, and its own is not there yet.    *)
Doing(r, op) == tx[r].done > 0 /\ Head(todo[r]).op = op
Saves(r) ==
  /\ status[r] = "idle" \/ Pending(r, "updateTestManifest") => r \notin DOMAIN db.versions
  /\ Doing(r, "updateTestManifest") =>
       /\ tx[r].began \in Nat /\ tx[r].began < clock
       /\ \A u \in tx[r].seen : u \in DOMAIN db.versions /\ db.versions[u].val.at < tx[r].began
SavesInOrder ==
  /\ \A v \in DOMAIN db.versions :
       LET save == db.versions[v].val
       IN /\ save.at \in Nat /\ save.at < clock
          /\ \A u \in save.after : u \in DOMAIN db.versions /\ db.versions[u].val.at < save.at
  /\ \A r \in Request : Saves(r)

(* What one poll has found or picked no other has, and nothing but the end   *)
(* of its lease happens to it.                                               *)
JobOk(row) == DOMAIN row = RowFields /\ JobFields \subseteq DOMAIN row.val /\ row.val.place \in Nat
Polls(r) == Doing(r, "leaseAiWorkerJob")
Locked(r) == tx[r].found \cup tx[r].pick
Polling(r) ==
  /\ status[r] = "idle" \/ Pending(r, "createAiWorkerJob") => r \notin DOMAIN db.jobs
  /\ Polls(r) =>
       /\ \A j \in tx[r].found : j \in DOMAIN db.jobs /\ Expired(db.jobs[j])
       /\ \A j \in tx[r].pick : j \in DOMAIN db.jobs /\ (db.jobs[j].val.status = "queued" \/ j \in tx[r].found)
LeasesApart ==
  /\ IsFiniteSet(DOMAIN db.jobs) /\ \A j \in DOMAIN db.jobs : JobOk(db.jobs[j])
  /\ \A r \in Request : Polling(r)
  /\ \A r, q \in Request : r # q /\ Polls(r) /\ Polls(q) => Locked(r) \cap Locked(q) = {}

(* An upload stores the body and then the record; a purge knows the records  *)
(* it deletes, and their uploads are over.                                   *)
Uploads(r) ==
  /\ Route(r) # "postArtifacts" \/ status[r] = "idle" \/ Pending(r, "putBody")
       => r \notin bodies \cup DOMAIN db.artifacts
  /\ Pending(r, "createArtifact") => r \notin DOMAIN db.artifacts /\ (r \in bodies \/ Pending(r, "putBody"))
Made(a) == a \in Request => status[a] # "idle" /\ ~Pending(a, "putBody") /\ ~Pending(a, "createArtifact")
Purges(r) ==
  /\ \A i \in DOMAIN todo[r] : todo[r][i].op \in {"deleteBody", "deleteArtifact"} =>
       LET a == todo[r][i].on
       IN Made(a) /\ (a \in DOMAIN db.artifacts => db.artifacts[a].org = todo[r][i].org)
  /\ status[r] = "busy" /\ Head(todo[r]).op = "deleteArtifact" => Head(todo[r]).on \notin bodies
Deleting(r, a) ==
  /\ Route(r) = "postPurge"
  /\ \/ status[r] = "failed"
     \/ status[r] = "busy" /\ Head(todo[r]).op = "deleteArtifact" /\ Head(todo[r]).on = a
BodiesKept ==
  /\ IsFiniteSet(DOMAIN db.artifacts)
  /\ \A r \in Request : Uploads(r) /\ Purges(r)
  /\ \A a \in DOMAIN db.artifacts \ bodies : \E r \in Request : Deleting(r, a)
  /\ \A b \in bodies \ DOMAIN db.artifacts :
       b \in Request /\ Route(b) = "postArtifacts" /\ status[b] \in {"busy", "failed"}

IInv == Control /\ SavesInOrder /\ LeasesApart /\ BodiesKept

-----------------------------------------------------------------------------
(* The statements: which tables each of them writes.                           *)

(* Only tables of T differ. *)
Frame(d, s, T) ==
  /\ DOMAIN s = DOMAIN d
  /\ \A u \in DOMAIN d : u \notin T => s[u] = d[u]

LEMMA SameFrame == ASSUME NEW d, NEW T PROVE Frame(d, d, T)
BY DEF Frame

LEMMA UpdateFrame ==
  ASSUME NEW d, NEW t, NEW new
  PROVE  Frame(d, [d EXCEPT ![t] = new], {t})
BY DEF Frame

LEMMA KeepFrame ==
  ASSUME NEW d, NEW t, NEW i, NEW row
  PROVE  Frame(d, Keep(d, t, i, row), {t})
BY DEF Frame, Keep

LEMMA AnswersFrame ==
  ASSUME NEW d, NEW t, NEW c, NEW answer, NEW T
  PROVE  /\ Frame(d, Result(d, answer).store, T)
         /\ Frame(d, Missing(d).store, T)
         /\ Frame(d, Refused(d).store, T)
         /\ Frame(d, Find(d, t, c).store, T)
         /\ Frame(d, List(d, t, c).store, T)
BY DEF Frame, Result, Missing, Refused, Find, List

LEMMA InsertFrame ==
  ASSUME NEW d, NEW t, NEW c, NEW val
  PROVE  Frame(d, Insert(d, t, c, val).store, {t})
BY DEF Frame, Result, Insert, Keep

LEMMA MergeFrame ==
  ASSUME NEW d, NEW t, NEW c, NEW patch
  PROVE  Frame(d, Merge(d, t, c, patch).store, {t})
BY DEF Frame, Result, Missing, Merge, Keep

LEMMA WiderFrame ==
  ASSUME NEW d, NEW s, NEW T, NEW U, T \subseteq U, Frame(d, s, T)
  PROVE  Frame(d, s, U)
BY DEF Frame

AccountTables == {"organizations", "users", "sessions", "members"}
LEMMA AccountsFrame ==
  ASSUME NEW c, NEW d, c.op \in Methods.accounts
  PROVE  Frame(d, SqlAccounts(c, d).store, AccountTables)
BY DEF Frame, AccountTables, SqlAccounts, Accounts, Methods, Insert, Find, List, Missing, Refused, Result, Keep

LEMMA TestsFrame ==
  ASSUME NEW c, NEW d, c.op \in Methods.tests
  PROVE  Frame(d, ProjectsAndTests(c, d).store, {"projects", "tests"})
BY DEF Frame, ProjectsAndTests, Methods, Insert, Find, List, Refused, Result, Keep

LEMMA RunsFrame ==
  ASSUME NEW c, NEW d, c.op \in Methods.runs
  PROVE  Frame(d, SqlRuns(c, d).store, {"runs"})
BY DEF Frame, SqlRuns, Runs, Methods, Insert, Merge, Find, List, Missing, Result, Keep

LEMMA ResultsFrame ==
  ASSUME NEW c, NEW d, NEW x, c.op \in Methods.results
  PROVE  Frame(d, SqlResults(c, d, x).store, {"results", "steps"})
BY DEF Frame, SqlResults, Methods, Result, Keep

LEMMA PoliciesFrame ==
  ASSUME NEW c, NEW d, NEW x
  PROVE  Frame(d, SqlStoragePolicies(c, d, x).store, {"policies"})
BY DEF Frame, SqlStoragePolicies, Refused, Result, Keep

LEMMA PluginsFrame ==
  ASSUME NEW c, NEW d, c.op \in Methods.plugins
  PROVE  Frame(d, SqlPlugins(c, d).store, {"plugins", "pluginVersions"})
BY DEF Frame, SqlPlugins, Plugins, Methods, Insert, List, Missing, Refused, Result, Keep

LEMMA SecretsFrame ==
  ASSUME NEW c, NEW d, c.op \in Methods.secrets
  PROVE  Frame(d, SqlSecrets(c, d).store, {"secrets"})
<1>1. CASE c.op = "createSecret"
  BY <1>1, InsertFrame DEF SqlSecrets, Result
<1>2. CASE c.op \in {"listSecrets", "getSecretValue"}
  BY <1>2, AnswersFrame DEF SqlSecrets, Secrets
<1>3. CASE c.op = "rotateSecret"
  BY <1>3, AnswersFrame, MergeFrame DEF SqlSecrets, Result
<1> QED
  BY <1>1, <1>2, <1>3 DEF Methods

ChangeTables == {"repositories", "schedules", "changes", "repairs", "pulls"}
LEMMA ChangesFrame ==
  ASSUME NEW c, NEW d, c.op \in Methods.changes
  PROVE  Frame(d, SqlChanges(c, d).store, ChangeTables)
BY DEF Frame, ChangeTables, SqlChanges, SchedulesAndChanges, Methods, Insert, Merge, Find, List, Missing, Result, Keep

LEMMA ManifestsFrame ==
  ASSUME NEW c, NEW d, NEW x, c.op \in Methods.manifests
  PROVE  /\ Frame(d, SqlManifests(c, d, x).store, {"versions"})
         /\ c.op # "updateTestManifest" => SqlManifests(c, d, x).store = d
BY DEF Frame, SqlManifests, Methods, Missing, Result, Keep

LEMMA ArtifactsFrame ==
  ASSUME NEW c, NEW d, c.op \in Methods.artifacts
  PROVE  /\ Frame(d, SqlArtifacts(c, d).store, {"artifacts", "audit"})
         /\ c.op \notin {"createArtifact", "deleteArtifact"} => Frame(d, SqlArtifacts(c, d).store, {"audit"})
BY DEF Frame, SqlArtifacts, Artifacts, Methods, Insert, Find, List, Missing, Result, Keep

JobWrites == {"createAiWorkerJob", "leaseAiWorkerJob", "completeAiWorkerJob"}
LEMMA WorkersFrame ==
  ASSUME NEW c, NEW d, NEW x, c.op \in Methods.workers
  PROVE  /\ Frame(d, SqlAiJobs(c, d, x).store, {"workers", "jobs"})
         /\ c.op \notin JobWrites => Frame(d, SqlAiJobs(c, d, x).store, {"workers"})
<1>1. CASE c.op = "createAiWorker"
  BY <1>1, InsertFrame, WiderFrame DEF SqlAiJobs, AiWorkers
<1>2. CASE c.op \in {"listAiWorkers", "findAiWorker", "listAiWorkerJobs"}
  BY <1>2, AnswersFrame DEF SqlAiJobs, AiWorkers
<1>3. CASE c.op = "heartbeatAiWorker"
  BY <1>3, MergeFrame, WiderFrame DEF SqlAiJobs, AiWorkers
<1>4. CASE c.op = "createAiWorkerJob"
  BY <1>4, InsertFrame, WiderFrame, ZenonT(60) DEF SqlAiJobs, AiWorkers, JobWrites
<1>5. CASE c.op = "leaseAiWorkerJob"
  BY <1>5 DEF SqlAiJobs, JobWrites, Frame, Missing, Result
<1>6. CASE c.op = "completeAiWorkerJob"
  BY <1>6, MergeFrame, WiderFrame, AnswersFrame DEF SqlAiJobs, AiWorkers, JobWrites
<1> QED
  BY <1>1, <1>2, <1>3, <1>4, <1>5, <1>6 DEF Methods

LEMMA StatementFrame ==
  ASSUME NEW c, NEW d, NEW x, InRepository(c), Tables \subseteq DOMAIN d
  PROVE  /\ DOMAIN Statement(c, d, x).store = DOMAIN d
         /\ c.op # "updateTestManifest" => Statement(c, d, x).store.versions = d.versions
         /\ c.op \notin JobWrites => Statement(c, d, x).store.jobs = d.jobs
         /\ c.op \notin {"createArtifact", "deleteArtifact"} => Statement(c, d, x).store.artifacts = d.artifacts
<1> DEFINE s == Statement(c, d, x).store
<1>0. "versions" \in DOMAIN d /\ "jobs" \in DOMAIN d /\ "artifacts" \in DOMAIN d
  BY DEF Tables
<1>1. CASE c.op \in Methods.accounts
  <2>1. Frame(d, s, AccountTables)
    <3>1. Statement(c, d, x) = SqlAccounts(c, d)
      BY <1>1 DEF Statement, Methods
    <3> QED
      BY <1>1, <3>1, AccountsFrame
  <2> QED
    BY <1>0, <2>1 DEF Frame, AccountTables
<1>2. CASE c.op \in Methods.tests
  <2>1. Frame(d, s, {"projects", "tests"})
    BY <1>2, TestsFrame DEF Statement, Methods
  <2> QED
    BY <1>0, <2>1 DEF Frame
<1>3. CASE c.op \in Methods.manifests
  <2>1. Statement(c, d, x) = SqlManifests(c, d, x)
    BY <1>3 DEF Statement, Methods
  <2>2. Frame(d, s, {"versions"}) /\ (c.op # "updateTestManifest" => s = d)
    BY <1>3, <2>1, ManifestsFrame
  <2> QED
    BY <1>0, <2>2 DEF Frame
<1>4. CASE c.op \in Methods.runs
  <2>1. Frame(d, s, {"runs"})
    BY <1>4, RunsFrame DEF Statement, Methods
  <2> QED
    BY <1>0, <2>1 DEF Frame
<1>5. CASE c.op \in Methods.results
  <2>1. Frame(d, s, {"results", "steps"})
    BY <1>5, ResultsFrame DEF Statement, Methods
  <2> QED
    BY <1>0, <2>1 DEF Frame
<1>6. CASE c.op \in Methods.artifacts
  <2>1. Statement(c, d, x) = SqlArtifacts(c, d)
    BY <1>6 DEF Statement, Methods
  <2>2. /\ Frame(d, s, {"artifacts", "audit"})
        /\ (c.op \notin {"createArtifact", "deleteArtifact"} => Frame(d, s, {"audit"}))
    BY <1>6, <2>1, ArtifactsFrame
  <2> QED
    BY <1>0, <2>2 DEF Frame
<1>7. CASE c.op \in Methods.policies
  <2>1. Frame(d, s, {"policies"})
    BY <1>7, PoliciesFrame DEF Statement, Methods
  <2> QED
    BY <1>0, <2>1 DEF Frame
<1>8. CASE c.op \in Methods.workers
  <2>1. Statement(c, d, x) = SqlAiJobs(c, d, x)
    BY <1>8 DEF Statement, Methods
  <2>2. Frame(d, s, {"workers", "jobs"}) /\ (c.op \notin JobWrites => Frame(d, s, {"workers"}))
    BY <1>8, <2>1, WorkersFrame
  <2> QED
    BY <1>0, <2>2 DEF Frame
<1>9. CASE c.op \in Methods.plugins
  <2>1. Frame(d, s, {"plugins", "pluginVersions"})
    BY <1>9, PluginsFrame DEF Statement, Methods
  <2> QED
    BY <1>0, <2>1 DEF Frame
<1>10. CASE c.op \in Methods.secrets
  <2>1. Frame(d, s, {"secrets"})
    BY <1>10, SecretsFrame DEF Statement, Methods
  <2> QED
    BY <1>0, <2>1 DEF Frame
<1>11. CASE c.op \in Methods.changes
  <2>1. Frame(d, s, ChangeTables)
    BY <1>11, ChangesFrame DEF Statement, Methods
  <2> QED
    BY <1>0, <2>1 DEF Frame, ChangeTables
<1>12. DOMAIN Methods = {"accounts", "tests", "manifests", "runs", "results", "artifacts", "policies",
                         "workers", "plugins", "secrets", "changes"}
  BY DEF Methods
<1> QED
  BY <1>1, <1>2, <1>3, <1>4, <1>5, <1>6, <1>7, <1>8, <1>9, <1>10, <1>11, <1>12 DEF InRepository

-----------------------------------------------------------------------------
(* How a handler goes on.                                                      *)

LEMMA ListFacts ==
  ASSUME NEW n \in Nat, NEW f, f = [i \in 1..n |-> f[i]]
  PROVE  /\ Len(f) = n /\ DOMAIN f = 1..n
         /\ n > 0 => Head(f) = f[1] /\ f # <<>>
         /\ n = 0 => f = <<>>
OBVIOUS

LEMMA InformedFacts ==
  ASSUME NEW c, NEW answer, NEW next, DOMAIN next = CallFields
  PROVE  LET told == Informed(c, answer, next)
         IN /\ DOMAIN told = CallFields /\ told.op = next.op /\ told.id = next.id /\ told.val = next.val
            /\ c.op \in PurgeOps => told = next
BY DEF CallFields, Informed, PurgeOps, Creates, Audit

(* The handler of r is done, or goes on to the next call. *)
Alone(r) ==
  /\ DOMAIN todo' = Request /\ DOMAIN status' = Request
  /\ \A q \in Request : q # r => todo'[q] = todo[q] /\ status'[q] = status[q]
Ends(r) == todo'[r] = <<>> /\ status'[r] \in {"ok", "missing", "failed"}
GoesOn(r) ==
  /\ status'[r] = "busy" /\ Head(todo[r]).op # "listArtifactsBefore"
  /\ Len(todo'[r]) \in Nat /\ Len(todo'[r]) = Len(todo[r]) - 1 /\ Len(todo'[r]) > 0
  /\ todo'[r] = [i \in 1..Len(todo'[r]) |-> todo'[r][i]]
  /\ \A i \in 1..Len(todo'[r]) :
       /\ DOMAIN todo'[r][i] = CallFields /\ todo'[r][i].op = todo[r][i + 1].op
       /\ todo'[r][i].id = r /\ todo'[r][i].val = asked[r].args.val
       /\ Head(todo[r]).op \in PurgeOps => todo'[r][i] = todo[r][i + 1]
Moves(r) == Alone(r) /\ (Ends(r) \/ GoesOn(r))

LEMMA BusyFacts ==
  ASSUME Control, NEW r \in Request, status[r] = "busy"
  PROVE  /\ Len(todo[r]) \in Nat /\ Len(todo[r]) > 0 /\ DOMAIN todo[r] = 1..Len(todo[r])
         /\ 1 \in DOMAIN todo[r] /\ Head(todo[r]) = todo[r][1] /\ todo[r] # <<>>
         /\ DOMAIN Head(todo[r]) = CallFields /\ Head(todo[r]).id = r
         /\ Head(todo[r]).val = asked[r].args.val
<1>1. Shape(r)
  BY DEF Control
<1>2. Len(todo[r]) \in Nat /\ Len(todo[r]) > 0
  BY <1>1 DEF Shape
<1>3. DOMAIN todo[r] = 1..Len(todo[r]) /\ Head(todo[r]) = todo[r][1] /\ todo[r] # <<>>
  BY <1>1, <1>2, ListFacts DEF Shape
<1> QED
  BY <1>1, <1>2, <1>3 DEF Shape

LEMMA AnsweredMoves ==
  ASSUME Control, NEW r \in Request, status[r] = "busy", NEW result, Answered(r, Head(todo[r]), result),
         Head(todo[r]).op # "listArtifactsBefore"
  PROVE  Moves(r)
<1> DEFINE c == Head(todo[r])
           rest == Remaining(r, c, result)
           n == Len(todo[r]) - 1
<1>1. /\ DOMAIN todo = Request /\ DOMAIN status = Request
      /\ todo' = [todo EXCEPT ![r] = rest]
      /\ status' = [status EXCEPT ![r] =
           IF rest # <<>> THEN "busy" ELSE IF ~Failed(c, result) THEN "ok"
           ELSE IF result.refused THEN "failed" ELSE "missing"]
  BY DEF Control, Answered
<1>2. Alone(r) /\ todo'[r] = rest /\ (rest # <<>> => status'[r] = "busy")
      /\ (rest = <<>> => status'[r] \in {"ok", "missing", "failed"})
  BY <1>1 DEF Alone
<1>3. Shape(r)
  BY DEF Control
<1>4. n \in Nat /\ DOMAIN todo[r] = 1..(n + 1)
  BY BusyFacts
<1>5. CASE rest = <<>>
  BY <1>2, <1>5 DEF Moves, Ends
<1>6. CASE rest # <<>>
  <2> DEFINE tail == [i \in 1..n |-> Informed(c, result.answer, todo[r][i + 1])]
  <2>1. rest = tail
    BY <1>6 DEF Remaining
  <2>2. tail = [i \in 1..n |-> tail[i]]
    OBVIOUS
  <2> HIDE DEF n, rest
  <2>3. \A i \in 1..n : tail[i] = Informed(c, result.answer, todo[r][i + 1])
    OBVIOUS
  <2> HIDE DEF tail
  <2>4. Len(tail) = n /\ (n = 0 => tail = <<>>)
    BY <1>4, <2>2, ListFacts
  <2>5. n > 0
    BY <1>4, <1>6, <2>1, <2>4
  <2>6. ASSUME NEW i \in 1..n
        PROVE  /\ DOMAIN tail[i] = CallFields /\ tail[i].op = todo[r][i + 1].op
               /\ tail[i].id = r /\ tail[i].val = asked[r].args.val
               /\ c.op \in PurgeOps => tail[i] = todo[r][i + 1]
    <3>1. i + 1 \in DOMAIN todo[r]
      BY <1>4
    <3>2. /\ DOMAIN todo[r][i + 1] = CallFields /\ todo[r][i + 1].id = r
          /\ todo[r][i + 1].val = asked[r].args.val
      BY <1>3, <3>1 DEF Shape
    <3> HIDE DEF c
    <3> QED
      BY <2>3, <3>2, InformedFacts
  <2>7. Len(todo'[r]) = n
    BY <1>2, <2>1, <2>4
  <2> QED
    BY <1>2, <1>4, <1>6, <2>1, <2>2, <2>5, <2>6, <2>7, ZenonT(60) DEF Moves, GoesOn, n
<1> QED
  BY <1>5, <1>6

(* The artifact store refuses nothing: its caller goes on. *)
LEMMA AnsweredGoesOn ==
  ASSUME Control, NEW r \in Request, status[r] = "busy", NEW result, Answered(r, Head(todo[r]), result),
         Head(todo[r]).op \in {"putBody", "deleteBody"}, ~result.refused, Len(todo[r]) > 1
  PROVE  GoesOn(r)
<1> DEFINE c == Head(todo[r])
           n == Len(todo[r]) - 1
           tail == [i \in 1..n |-> Informed(c, result.answer, todo[r][i + 1])]
<1>1. Moves(r)
  BY AnsweredMoves
<1>2. ~Failed(c, result)
  BY DEF Failed, Lookups
<1>3. Remaining(r, c, result) = tail
  BY <1>2 DEF Remaining
<1>4. n \in Nat /\ n > 0
  BY BusyFacts
<1>5. tail # <<>>
  <2>1. tail = [i \in 1..n |-> tail[i]]
    OBVIOUS
  <2> HIDE DEF tail, n
  <2> QED
    BY <1>4, <2>1, ListFacts
<1> HIDE DEF tail, c, n
<1>6. status'[r] = "busy"
  BY <1>3, <1>5 DEF Answered, Control, c
<1> QED
  BY <1>1, <1>6 DEF Moves, Ends

(* The calls that are left are the last ones of the route. *)
LEMMA OnRouteFacts ==
  ASSUME Control, NEW r \in Request, status[r] = "busy", Route(r) # "postPurge"
  PROVE  /\ GoodRoute(Route(r), Routes[Route(r)])
         /\ Len(todo[r]) <= Len(Routes[Route(r)])
         /\ \A i \in DOMAIN todo[r] :
              /\ i + (Len(Routes[Route(r)]) - Len(todo[r])) \in DOMAIN Routes[Route(r)]
              /\ todo[r][i].op = Routes[Route(r)][i + (Len(Routes[Route(r)]) - Len(todo[r]))]
<1> DEFINE ops == Routes[Route(r)]
           n == Len(todo[r])
           m == Len(ops)
<1>1. Shape(r)
  BY DEF Control
<1>2. Route(r) \in DOMAIN Routes /\ OnRoute(r)
  BY <1>1 DEF Shape
<1>3. GoodRoute(Route(r), ops)
  BY <1>2, GoodRoutes
<1>4. m \in Nat /\ DOMAIN ops = 1..m
  BY <1>3 DEF GoodRoute
<1>5. n \in Nat /\ DOMAIN todo[r] = 1..n
  BY BusyFacts
<1>6. n <= m /\ \A i \in DOMAIN todo[r] : todo[r][i].op = ops[i + (m - n)]
  BY <1>2 DEF OnRoute
<1> HIDE DEF n, m
<1>7. \A i \in 1..n : i + (m - n) \in 1..m
  BY <1>4, <1>5, <1>6
<1> QED
  BY <1>3, <1>4, <1>5, <1>6, <1>7 DEF n, m

LEMMA PendingOps ==
  ASSUME Control, NEW r \in Request, status[r] = "busy"
  PROVE  /\ \A i \in DOMAIN todo[r] :
              /\ todo[r][i].op \in {"putBody", "createArtifact"} => Route(r) = "postArtifacts"
              /\ todo[r][i].op = "completeAiWorkerJob" => Route(r) = "postComplete"
              /\ todo[r][i].op = "listArtifactsBefore" => Route(r) = "postPurge" /\ Listing(r)
              /\ todo[r][i].op \in {"deleteBody", "deleteArtifact"} => Route(r) = "postPurge" /\ Purging(r)
         /\ Route(r) = "postPurge" => \A i \in DOMAIN todo[r] : todo[r][i].op \notin Once
<1>1. CASE Route(r) = "postPurge"
  <2>1. Shape(r) /\ DOMAIN todo[r] = 1..Len(todo[r]) /\ (Listing(r) \/ Purging(r))
    BY <1>1, BusyFacts DEF Control, Shape
  <2>2. CASE Listing(r)
    <3>1. \A i \in DOMAIN todo[r] : todo[r][i].op = "listArtifactsBefore"
      BY <2>1, <2>2 DEF Listing
    <3> QED
      BY <1>1, <2>2, <3>1 DEF Once
  <2>3. CASE Purging(r)
    <3>1. \A i \in DOMAIN todo[r] : todo[r][i].op \in PurgeOps
      BY <2>3 DEF Purging
    <3> QED
      BY <1>1, <2>3, <3>1 DEF Once, PurgeOps, Audit
  <2> QED
    BY <2>1, <2>2, <2>3
<1>2. CASE Route(r) # "postPurge"
  <2> DEFINE ops == Routes[Route(r)]
  <2>1. GoodRoute(Route(r), ops)
    BY <1>2, OnRouteFacts
  <2>2. \A i \in DOMAIN todo[r] : \E k \in DOMAIN ops : todo[r][i].op = ops[k]
    BY <1>2, OnRouteFacts
  <2> HIDE DEF ops
  <2> QED
    BY <1>2, <2>1, <2>2 DEF GoodRoute
<1> QED
  BY <1>1, <1>2

LEMMA MovesPending ==
  ASSUME Control, NEW r \in Request, status[r] = "busy", Moves(r)
  PROVE  /\ \A op : Pending(r, op)' => Pending(r, op)
         /\ \A op : GoesOn(r) /\ Pending(r, op) /\ Head(todo[r]).op # op => Pending(r, op)'
         /\ \A op \in Once : Head(todo[r]).op = op => ~Pending(r, op)'
<1> DEFINE n == Len(todo[r])
<1>1. n \in Nat /\ n > 0 /\ DOMAIN todo[r] = 1..n /\ Head(todo[r]) = todo[r][1]
  BY BusyFacts
<1>2. CASE Ends(r)
  <2>1. DOMAIN todo'[r] = {} /\ status'[r] # "busy"
    BY <1>2 DEF Ends
  <2> QED
    BY <2>1 DEF Pending, GoesOn
<1>3. CASE GoesOn(r)
  <2>1. n - 1 \in Nat /\ DOMAIN todo'[r] = 1..(n - 1)
    BY <1>1, <1>3, ListFacts DEF GoesOn
  <2>2. \A i \in 1..(n - 1) : i + 1 \in 1..n /\ todo'[r][i].op = todo[r][i + 1].op
    BY <1>1, <1>3 DEF GoesOn
  <2>3. \A op : Pending(r, op)' => Pending(r, op)
    BY <1>1, <2>1, <2>2 DEF Pending
  <2>4. ASSUME NEW op, Pending(r, op), Head(todo[r]).op # op PROVE Pending(r, op)'
    <3>1. PICK i \in 1..n : todo[r][i].op = op
      BY <1>1, <2>4 DEF Pending
    <3>2. i # 1
      BY <1>1, <2>4, <3>1
    <3>3. i - 1 \in 1..(n - 1) /\ (i - 1) + 1 = i
      BY <1>1, <3>1, <3>2
    <3>4. todo'[r][i - 1].op = op
      BY <2>2, <3>1, <3>3
    <3> QED
      BY <2>1, <3>3, <3>4 DEF Pending
  <2>5. ASSUME NEW op \in Once, Head(todo[r]).op = op, Pending(r, op)' PROVE FALSE
    <3>1. PICK i \in 1..(n - 1) : todo[r][i + 1].op = op /\ i + 1 \in 1..n
      BY <2>1, <2>2, <2>5 DEF Pending
    <3>2. todo[r][1].op = op /\ 1 \in 1..n
      BY <1>1, <2>5
    <3>3. Route(r) # "postPurge"
      BY <1>1, <2>5, <3>2, PendingOps
    <3> DEFINE ops == Routes[Route(r)]
               k == Len(ops) - n
    <3>4. /\ ops[1 + k] = op /\ 1 + k \in DOMAIN ops
          /\ ops[(i + 1) + k] = op /\ (i + 1) + k \in DOMAIN ops
      BY <1>1, <3>1, <3>2, <3>3, OnRouteFacts
    <3>5. GoodRoute(Route(r), ops)
      BY <3>3, OnRouteFacts
    <3>6. Len(ops) \in Nat
      BY <3>5 DEF GoodRoute
    <3>7. 1 + k # (i + 1) + k
      <4> HIDE DEF n
      <4>1. k \in Int /\ i \in Int /\ i > 0
        BY <1>1, <3>6
      <4> HIDE DEF k
      <4> QED
        BY <4>1
    <3> HIDE DEF ops, k
    <3> QED
      BY <2>5, <3>4, <3>5, <3>7 DEF GoodRoute
  <2> QED
    BY <2>3, <2>4, <2>5
<1> QED
  BY <1>2, <1>3 DEF Moves

LEMMA MovesShape ==
  ASSUME Control, NEW r \in Request, status[r] = "busy", Moves(r), UNCHANGED asked
  PROVE  \A q \in Request : Shape(q)'
<1> DEFINE n == Len(todo[r])
<1>1. Shape(r) /\ n \in Nat /\ n > 0 /\ DOMAIN todo[r] = 1..n /\ Head(todo[r]) = todo[r][1]
  BY BusyFacts DEF Control
<1>2. ASSUME NEW q \in Request, q # r PROVE Shape(q)'
  <2>1. Shape(q) /\ todo'[q] = todo[q] /\ status'[q] = status[q]
    BY <1>2 DEF Control, Moves, Alone
  <2>2. /\ Route(q)' = Route(q) /\ OnRoute(q)' = OnRoute(q)
        /\ Purging(q)' = Purging(q) /\ Listing(q)' = Listing(q)
    BY <2>1 DEF Route, OnRoute, Purging, Listing
  <2> QED
    BY <2>1, <2>2 DEF Shape
<1>3. CASE Ends(r)
  <2>1. todo'[r] = <<>> /\ status'[r] \in {"ok", "missing", "failed"}
    BY <1>3 DEF Ends
  <2>2. /\ Len(todo'[r]) = 0 /\ DOMAIN todo'[r] = {}
        /\ todo'[r] = [i \in 1..Len(todo'[r]) |-> todo'[r][i]]
    BY <2>1
  <2>3. Route(r)' = Route(r) /\ Route(r) \in DOMAIN Routes
    BY <1>1 DEF Shape, Route
  <2>s. Shape(r)'
    BY <2>1, <2>2, <2>3 DEF Shape
  <2> QED
    BY <1>2, <2>s
<1>4. CASE GoesOn(r)
  <2>1. /\ n - 1 \in Nat /\ n - 1 > 0 /\ Len(todo'[r]) = n - 1 /\ DOMAIN todo'[r] = 1..(n - 1)
        /\ todo'[r] = [i \in 1..Len(todo'[r]) |-> todo'[r][i]]
        /\ status'[r] = "busy" /\ Route(r)' = Route(r)
    BY <1>1, <1>4, ListFacts DEF GoesOn, Route
  <2>2. \A i \in 1..(n - 1) :
          /\ i + 1 \in 1..n
          /\ DOMAIN todo'[r][i] = CallFields /\ todo'[r][i].op = todo[r][i + 1].op
          /\ todo'[r][i].id = r /\ todo'[r][i].val = asked[r].args.val
    <3>1. \A i \in 1..(n - 1) : i + 1 \in 1..n
      BY <1>1
    <3> QED
      BY <1>4, <2>1, <3>1 DEF GoesOn
  <2>7. Route(r) \in DOMAIN Routes
    BY <1>1 DEF Shape
  <2>3. CASE Route(r) = "postPurge"
    <3>1. ~Listing(r)
      BY <1>1, <1>4 DEF Listing, GoesOn
    <3>2. Purging(r)
      BY <1>1, <2>3, <3>1 DEF Shape
    <3>3. Head(todo[r]).op \in PurgeOps
      BY <1>1, <3>2 DEF Purging
    <3>4. \A i \in 1..(n - 1) : todo'[r][i] = todo[r][i + 1]
      BY <1>4, <2>1, <3>3 DEF GoesOn
    <3> HIDE DEF n
    <3>5. ASSUME NEW i \in 1..(n - 1)
          PROVE  /\ todo'[r][i].op \in PurgeOps /\ todo'[r][i].org = asked'[r].args.org
                 /\ todo'[r][i].op = "deleteBody" =>
                      /\ i + 1 \in 1..(n - 1) /\ todo'[r][i + 1].op = "deleteArtifact"
                      /\ todo'[r][i + 1].on = todo'[r][i].on
                 /\ todo'[r][i].op = "deleteArtifact" /\ i > 1 =>
                      todo'[r][i - 1].op = "deleteBody" /\ todo'[r][i - 1].on = todo'[r][i].on
      <4> DEFINE k == i + 1
      <4>1. k \in 1..n /\ k > 1 /\ k - 1 = i /\ todo'[r][i] = todo[r][k]
        BY <2>2, <3>4
      <4>2. /\ todo[r][k].op \in PurgeOps /\ todo[r][k].org = asked[r].args.org
            /\ todo[r][k].op = "deleteBody" =>
                 k + 1 \in 1..n /\ todo[r][k + 1].op = "deleteArtifact" /\ todo[r][k + 1].on = todo[r][k].on
            /\ todo[r][k].op = "deleteArtifact" =>
                 todo[r][k - 1].op = "deleteBody" /\ todo[r][k - 1].on = todo[r][k].on
        BY <1>1, <3>2, <4>1 DEF Purging
      <4>3. k + 1 \in 1..n => k \in 1..(n - 1) /\ todo'[r][k] = todo[r][k + 1]
        BY <1>1, <3>4
      <4>4. i > 1 => i - 1 \in 1..(n - 1) /\ todo'[r][i - 1] = todo[r][k - 1]
        <5>1. i > 1 => i - 1 \in 1..(n - 1) /\ (i - 1) + 1 = k - 1
          BY <1>1
        <5> HIDE DEF k
        <5> QED
          BY <3>4, <5>1
      <4> QED
        BY <4>1, <4>2, <4>3, <4>4
    <3>6. Purging(r)'
      BY <2>1, <3>5 DEF Purging
    <3>s. Shape(r)'
      BY <2>1, <2>2, <2>3, <2>7, <3>6 DEF Shape
    <3> QED
      BY <1>2, <3>s
  <2>4. CASE Route(r) # "postPurge"
    <3> DEFINE ops == Routes[Route(r)]
               m == Len(ops)
    <3>1. /\ m \in Nat /\ n <= m
          /\ \A i \in 1..n : todo[r][i].op = ops[i + (m - n)]
      BY <1>1, <2>4, OnRouteFacts DEF GoodRoute
    <3> HIDE DEF n, m
    <3>2. ASSUME NEW i \in 1..(n - 1) PROVE todo'[r][i].op = ops[i + (m - (n - 1))]
      <4>1. (i + 1) + (m - n) = i + (m - (n - 1))
        BY <1>1, <3>1
      <4> QED
        BY <2>2, <3>1, <4>1
    <3>3. n - 1 <= m
      BY <1>1, <3>1
    <3>4. OnRoute(r)'
      BY <2>1, <3>2, <3>3 DEF OnRoute, m
    <3>s. Shape(r)'
      BY <2>1, <2>2, <2>4, <2>7, <3>4 DEF Shape
    <3> QED
      BY <1>2, <3>s
  <2> QED
    BY <2>3, <2>4
<1> QED
  BY <1>2, <1>3, <1>4 DEF Moves

LEMMA Thirds ==
  ASSUME NEW n \in Nat, NEW k \in 1..(3 * n)
  PROVE  /\ (k - 1) % 3 \in {0, 1, 2} /\ 1 + ((k - 1) \div 3) \in 1..n
         /\ (k - 1) % 3 = 0 => k + 1 \in 1..(3 * n) /\ ((k + 1) - 1) % 3 = 1 /\ ((k + 1) - 1) \div 3 = (k - 1) \div 3
         /\ (k - 1) % 3 = 1 => k - 1 \in 1..(3 * n) /\ ((k - 1) - 1) % 3 = 0 /\ ((k - 1) - 1) \div 3 = (k - 1) \div 3
OBVIOUS

LEMMA CallFacts ==
  ASSUME NEW r \in Request, NEW op
  PROVE  LET c == CallOf(r, op)
         IN /\ DOMAIN c = CallFields /\ c.op = op /\ c.id = r /\ c.org = asked[r].args.org
            /\ c.val = asked[r].args.val
            /\ \A on : LET d == [c EXCEPT !.on = on]
                       IN /\ DOMAIN d = CallFields /\ d.op = op /\ d.id = r /\ d.org = asked[r].args.org
                          /\ d.on = on /\ d.val = asked[r].args.val
BY DEF CallOf, CallFields

(* A purge goes through the records in some order, three calls for each.     *)
LEMMA PurgeCallFacts ==
  ASSUME NEW r \in Request, NEW c, NEW answer, IsFiniteSet(answer)
  PROVE  LET calls == PurgeCalls(r, c, answer)
             n == 3 * Cardinality(answer)
         IN /\ n \in Nat /\ calls = [k \in 1..n |-> calls[k]]
            /\ \A k \in 1..n :
                 /\ DOMAIN calls[k] = CallFields /\ calls[k].op \in PurgeOps /\ calls[k].id = r
                 /\ calls[k].org = asked[r].args.org /\ calls[k].val = asked[r].args.val
                 /\ \E x \in answer : calls[k].on = x.id
                 /\ calls[k].op = "deleteBody" =>
                      k + 1 \in 1..n /\ calls[k + 1].op = "deleteArtifact" /\ calls[k + 1].on = calls[k].on
                 /\ calls[k].op = "deleteArtifact" =>
                      k - 1 \in 1..n /\ calls[k - 1].op = "deleteBody" /\ calls[k - 1].on = calls[k].on
            /\ n > 0 => calls[1].op = "deleteBody"
<1> DEFINE m == Cardinality(answer)
           order == CHOOSE s \in [1 .. Cardinality(answer) -> answer] : {s[i] : i \in DOMAIN s} = answer
           calls == PurgeCalls(r, c, answer)
<1>1. m \in Nat
  BY FS_CardinalityType
<1>2. order \in [1..m -> answer]
  <2>1. PICK f \in Bijection(1..m, answer) : TRUE
    BY FS_CardinalityType DEF ExistsBijection
  <2>2. f \in [1..m -> answer] /\ {f[i] : i \in DOMAIN f} = answer
    BY <2>1 DEF Bijection, Surjection
  <2> QED
    BY <2>2
<1> HIDE DEF order
<1>3. calls = [k \in 1..(3 * m) |->
                 [CallOf(r, PurgeOne[1 + ((k - 1) % 3)]) EXCEPT !.on = order[1 + ((k - 1) \div 3)].id]]
  BY DEF PurgeCalls, order
<1> HIDE DEF m, calls
<1>4. 3 * m \in Nat /\ calls = [k \in 1..(3 * m) |-> calls[k]]
  BY <1>1, <1>3
<1>5. ASSUME NEW k \in 1..(3 * m)
      PROVE  /\ DOMAIN calls[k] = CallFields /\ calls[k].id = r
             /\ calls[k].org = asked[r].args.org /\ calls[k].val = asked[r].args.val
             /\ calls[k].op = PurgeOne[1 + ((k - 1) % 3)]
             /\ calls[k].on = order[1 + ((k - 1) \div 3)].id
  <2>1. calls[k] = [CallOf(r, PurgeOne[1 + ((k - 1) % 3)]) EXCEPT !.on = order[1 + ((k - 1) \div 3)].id]
    BY <1>3
  <2> QED
    BY <2>1, CallFacts
<1>6. PurgeOne[1] = "deleteBody" /\ PurgeOne[2] = "deleteArtifact" /\ PurgeOne[3] = Audit
  BY DEF PurgeOne
<1>7. ASSUME NEW k \in 1..(3 * m)
      PROVE  /\ calls[k].op \in PurgeOps /\ \E x \in answer : calls[k].on = x.id
             /\ calls[k].op = "deleteBody" =>
                  k + 1 \in 1..(3 * m) /\ calls[k + 1].op = "deleteArtifact" /\ calls[k + 1].on = calls[k].on
             /\ calls[k].op = "deleteArtifact" =>
                  k - 1 \in 1..(3 * m) /\ calls[k - 1].op = "deleteBody" /\ calls[k - 1].on = calls[k].on
  <2> DEFINE p == (k - 1) % 3
             d == (k - 1) \div 3
  <2>1. /\ p \in {0, 1, 2} /\ 1 + d \in 1..m
        /\ p = 0 => k + 1 \in 1..(3 * m) /\ ((k + 1) - 1) % 3 = 1 /\ ((k + 1) - 1) \div 3 = d
        /\ p = 1 => k - 1 \in 1..(3 * m) /\ ((k - 1) - 1) % 3 = 0 /\ ((k - 1) - 1) \div 3 = d
    BY <1>1, Thirds
  <2>2. calls[k].op = PurgeOne[1 + p] /\ calls[k].on = order[1 + d].id
    BY <1>5
  <2>3. p = 0 => calls[k + 1].op = PurgeOne[1 + 1] /\ calls[k + 1].on = order[1 + d].id
    BY <1>5, <2>1
  <2>4. p = 1 => calls[k - 1].op = PurgeOne[1 + 0] /\ calls[k - 1].on = order[1 + d].id
    BY <1>5, <2>1
  <2> HIDE DEF p, d
  <2>6. order[1 + d] \in answer
    BY <1>2, <2>1
  <2>7. PurgeOne[1 + 0] = "deleteBody" /\ PurgeOne[1 + 1] = "deleteArtifact" /\ PurgeOne[1 + 2] = Audit
    BY <1>6
  <2> QED
    BY <2>1, <2>2, <2>3, <2>4, <2>6, <2>7 DEF PurgeOps, Audit
<1>8. 3 * m > 0 => calls[1].op = "deleteBody"
  <2> SUFFICES ASSUME 3 * m > 0 PROVE calls[1].op = "deleteBody"
    OBVIOUS
  <2>1. 1 \in 1..(3 * m) /\ 1 + ((1 - 1) % 3) = 1
    BY <1>1
  <2> QED
    BY <1>5, <1>6, <2>1
<1> QED
  BY <1>4, <1>5, <1>7, <1>8 DEF m, calls

(* The calls of a purge for the records of its listing: each body just before  *)
(* its record.                                                                 *)
PurgeList(r, answer, list) ==
  /\ Len(list) \in Nat /\ Len(list) > 0 /\ list = [i \in 1..Len(list) |-> list[i]]
  /\ \A k \in 1..Len(list) :
       /\ DOMAIN list[k] = CallFields /\ list[k].op \in PurgeOps /\ list[k].id = r
       /\ list[k].org = asked[r].args.org /\ list[k].val = asked[r].args.val
       /\ \E x \in answer : list[k].on = x.id
       /\ list[k].op = "deleteBody" =>
            k + 1 \in 1..Len(list) /\ list[k + 1].op = "deleteArtifact" /\ list[k + 1].on = list[k].on
       /\ list[k].op = "deleteArtifact" =>
            k - 1 \in 1..Len(list) /\ list[k - 1].op = "deleteBody" /\ list[k - 1].on = list[k].on
  /\ list[1].op = "deleteBody"

(* A purge has listed its records, and its calls begin. *)
Begins(r, answer) == status'[r] = "busy" /\ PurgeList(r, answer, todo'[r])

LEMMA ListingMoves ==
  ASSUME Control, NEW r \in Request, status[r] = "busy", NEW result, Answered(r, Head(todo[r]), result),
         Head(todo[r]).op = "listArtifactsBefore", IsFiniteSet(result.answer)
  PROVE  Alone(r) /\ (Ends(r) \/ Begins(r, result.answer))
<1> DEFINE c == Head(todo[r])
           rest == Remaining(r, c, result)
           calls == PurgeCalls(r, c, result.answer)
           n == 3 * Cardinality(result.answer)
<1>1. /\ DOMAIN todo = Request /\ DOMAIN status = Request
      /\ todo' = [todo EXCEPT ![r] = rest]
      /\ status' = [status EXCEPT ![r] =
           IF rest # <<>> THEN "busy" ELSE IF ~Failed(c, result) THEN "ok"
           ELSE IF result.refused THEN "failed" ELSE "missing"]
  BY DEF Control, Answered
<1>2. /\ Alone(r) /\ todo'[r] = rest /\ (rest # <<>> => status'[r] = "busy")
      /\ (rest = <<>> => status'[r] \in {"ok", "missing", "failed"})
  BY <1>1 DEF Alone
<1>3. rest = <<>> \/ rest = calls
  BY DEF Remaining
<1> HIDE DEF rest
<1>4. CASE rest = <<>>
  BY <1>2, <1>4 DEF Ends
<1>5. CASE rest # <<>> /\ rest = calls
  <2> HIDE DEF c
  <2>1. /\ n \in Nat /\ calls = [k \in 1..n |-> calls[k]]
        /\ \A k \in 1..n :
             /\ DOMAIN calls[k] = CallFields /\ calls[k].op \in PurgeOps /\ calls[k].id = r
             /\ calls[k].org = asked[r].args.org /\ calls[k].val = asked[r].args.val
             /\ \E x \in result.answer : calls[k].on = x.id
             /\ calls[k].op = "deleteBody" =>
                  k + 1 \in 1..n /\ calls[k + 1].op = "deleteArtifact" /\ calls[k + 1].on = calls[k].on
             /\ calls[k].op = "deleteArtifact" =>
                  k - 1 \in 1..n /\ calls[k - 1].op = "deleteBody" /\ calls[k - 1].on = calls[k].on
        /\ n > 0 => calls[1].op = "deleteBody"
    BY PurgeCallFacts
  <2> HIDE DEF n, calls
  <2>2. Len(calls) = n /\ (n = 0 => calls = <<>>)
    BY <2>1, ListFacts
  <2>3. n > 0
    BY <1>5, <2>1, <2>2
  <2>4. todo'[r] = calls /\ status'[r] = "busy"
    BY <1>2, <1>5
  <2>5. PurgeList(r, result.answer, calls)
    BY <2>1, <2>2, <2>3, ZenonT(60) DEF PurgeList
  <2>6. Begins(r, result.answer)
    BY <2>4, <2>5 DEF Begins
  <2> QED
    BY <1>2, <2>6
<1> QED
  BY <1>3, <1>4, <1>5

LEMMA BeginsShape ==
  ASSUME Control, NEW r \in Request, status[r] = "busy", Head(todo[r]).op = "listArtifactsBefore",
         Alone(r), NEW answer, Begins(r, answer), UNCHANGED asked
  PROVE  /\ \A q \in Request : Shape(q)'
         /\ DOMAIN todo'[r] = 1..Len(todo'[r]) /\ Head(todo'[r]) = todo'[r][1]
         /\ \A op \in Once \cup {"listArtifactsBefore"} : ~Pending(r, op)'
<1>1. Route(r) = "postPurge" /\ Shape(r)
  BY BusyFacts, PendingOps DEF Control
<1>2. ASSUME NEW q \in Request, q # r PROVE Shape(q)'
  <2>1. Shape(q) /\ todo'[q] = todo[q] /\ status'[q] = status[q]
    BY <1>2 DEF Control, Alone
  <2>2. /\ Route(q)' = Route(q) /\ OnRoute(q)' = OnRoute(q)
        /\ Purging(q)' = Purging(q) /\ Listing(q)' = Listing(q)
    BY <2>1 DEF Route, OnRoute, Purging, Listing
  <2> QED
    BY <2>1, <2>2 DEF Shape
<1>3. DOMAIN todo'[r] = 1..Len(todo'[r]) /\ Head(todo'[r]) = todo'[r][1]
  BY ListFacts DEF Begins, PurgeList
<1>4. Purging(r)'
  BY <1>3 DEF Purging, Begins, PurgeList
<1>5. Route(r)' = "postPurge" /\ Route(r) \in DOMAIN Routes
  BY <1>1 DEF Route, Shape
<1>6. Shape(r)'
  <2>1. \A i \in DOMAIN todo'[r] :
          DOMAIN todo'[r][i] = CallFields /\ todo'[r][i].id = r /\ todo'[r][i].val = asked'[r].args.val
    BY <1>3 DEF Begins, PurgeList
  <2>2. /\ Len(todo'[r]) \in Nat /\ Len(todo'[r]) > 0 /\ status'[r] = "busy"
        /\ todo'[r] = [i \in 1..Len(todo'[r]) |-> todo'[r][i]]
    BY DEF Begins, PurgeList
  <2> QED
    BY <1>1, <1>4, <1>5, <2>1, <2>2 DEF Shape
<1>7. \A op \in Once \cup {"listArtifactsBefore"} : ~Pending(r, op)'
  <2>1. \A i \in DOMAIN todo'[r] : todo'[r][i].op \in PurgeOps
    BY <1>3 DEF Begins, PurgeList
  <2>2. \A op \in Once \cup {"listArtifactsBefore"} : op \notin PurgeOps
    BY DEF Once, PurgeOps, Audit
  <2> QED
    BY <2>1, <2>2 DEF Pending
<1> QED
  BY <1>2, <1>3, <1>6, <1>7

LEMMA UnmovedShape ==
  ASSUME Control, UNCHANGED <<asked, todo, status>>
  PROVE  /\ \A q \in Request : Shape(q)'
         /\ \A q \in Request : \A op : Pending(q, op)' = Pending(q, op)
BY DEF Control, Shape, Route, OnRoute, Purging, Listing, Pending

LEMMA ArriveShape ==
  ASSUME Control, NEW r \in Request, Arrive(r)
  PROVE  /\ Alone(r) /\ status[r] = "idle" /\ status'[r] = "busy" /\ \A q \in Request : Shape(q)'
         /\ GoodRoute(Route(r), Routes[Route(r)])
         /\ DOMAIN todo'[r] = DOMAIN Routes[Route(r)]
         /\ \A i \in DOMAIN todo'[r] : todo'[r][i].op = Routes[Route(r)][i]
<1> DEFINE ops == Routes[Route(r)]
           calls == Calls(r, ops)
           m == Len(ops)
<1>1. /\ status[r] = "idle" /\ Route(r) \in DOMAIN Routes /\ UNCHANGED asked
      /\ Alone(r) /\ todo'[r] = calls /\ status'[r] = "busy"
  BY DEF Control, Arrive, Route, Alone
<1>2. ASSUME NEW q \in Request, q # r PROVE Shape(q)'
  <2>1. Shape(q) /\ todo'[q] = todo[q] /\ status'[q] = status[q]
    BY <1>1, <1>2 DEF Control, Alone
  <2>2. /\ Route(q)' = Route(q) /\ OnRoute(q)' = OnRoute(q)
        /\ Purging(q)' = Purging(q) /\ Listing(q)' = Listing(q)
    BY <1>1, <2>1 DEF Route, OnRoute, Purging, Listing
  <2> QED
    BY <1>1, <2>1, <2>2 DEF Shape
<1>3. GoodRoute(Route(r), ops)
  BY <1>1, GoodRoutes
<1>4. m \in Nat \ {0} /\ DOMAIN ops = 1..m
  BY <1>3 DEF GoodRoute
<1>5. /\ calls = [i \in 1..m |-> calls[i]]
      /\ \A i \in 1..m :
           /\ DOMAIN calls[i] = CallFields /\ calls[i].op = ops[i] /\ calls[i].id = r
           /\ calls[i].org = asked[r].args.org /\ calls[i].val = asked[r].args.val
  <2>1. calls = [i \in 1..m |-> CallOf(r, ops[i])]
    BY <1>4 DEF Calls
  <2> HIDE DEF calls, m
  <2>2. \A i \in 1..m : calls[i] = CallOf(r, ops[i])
    BY <2>1
  <2> QED
    BY <2>1, <2>2, CallFacts
<1> HIDE DEF calls
<1>6. /\ Len(todo'[r]) = m /\ DOMAIN todo'[r] = 1..m
      /\ todo'[r] = [i \in 1..Len(todo'[r]) |-> todo'[r][i]]
  <2> HIDE DEF m
  <2>1. Len(calls) = m /\ DOMAIN calls = 1..m
    BY <1>4, <1>5, ListFacts
  <2> QED
    BY <1>1, <1>5, <2>1
<1>7. Route(r)' = Route(r)
  BY <1>1 DEF Route
<1>8. Route(r) = "postPurge" => Listing(r)'
  <2> SUFFICES ASSUME Route(r) = "postPurge" PROVE Listing(r)'
    OBVIOUS
  <2>1. ops = <<"listArtifactsBefore">>
    BY <1>3 DEF GoodRoute
  <2> HIDE DEF ops
  <2>2. m = 1 /\ ops[1] = "listArtifactsBefore"
    BY <2>1
  <2> QED
    BY <1>1, <1>5, <1>6, <2>2 DEF Listing
<1>9. OnRoute(r)'
  <2>1. \A i \in 1..m : i + (m - m) = i
    BY <1>4
  <2> QED
    BY <1>1, <1>4, <1>5, <1>6, <1>7, <2>1 DEF OnRoute
<1>10. Shape(r)'
  BY <1>1, <1>4, <1>5, <1>6, <1>7, <1>8, <1>9 DEF Shape
<1> QED
  BY <1>1, <1>2, <1>3, <1>4, <1>5, <1>6, <1>10

-----------------------------------------------------------------------------
(* What the statements do to the tables of the properties.                     *)

LEMMA ListingStatement ==
  ASSUME NEW c, NEW d, NEW x, c.op = "listArtifactsBefore", IsFiniteSet(DOMAIN d.artifacts)
  PROVE  LET answer == Statement(c, d, x).answer
         IN /\ IsFiniteSet(answer)
            /\ \A y \in answer : y.id \in DOMAIN d.artifacts /\ d.artifacts[y.id].org = c.org
<1> DEFINE old == {i \in Mine(d, "artifacts", c) : d.artifacts[i].val.old}
           answer == {Record(i, d.artifacts[i]) : i \in old}
           f == [i \in old |-> Record(i, d.artifacts[i])]
<1>1. Statement(c, d, x).answer = answer
  BY DEF Statement, Methods, SqlArtifacts, Artifacts, Result
<1>2. old \subseteq DOMAIN d.artifacts /\ \A i \in old : d.artifacts[i].org = c.org
  BY DEF Mine
<1>3. IsFiniteSet(old)
  BY <1>2, FS_Subset
<1>4. f \in Surjection(old, answer)
  BY DEF Surjection
<1>5. IsFiniteSet(answer)
  BY <1>3, <1>4, FS_Surjection
<1>6. \A y \in answer : \E i \in old : y.id = i
  BY DEF Record
<1> QED
  BY <1>1, <1>2, <1>5, <1>6

LEMMA CreateArtifactStatement ==
  ASSUME NEW c, NEW d, NEW x, c.op = "createArtifact", Tables \subseteq DOMAIN d
  PROVE  LET rows == Statement(c, d, x).store.artifacts
         IN /\ DOMAIN rows = DOMAIN d.artifacts \cup {c.id}
            /\ rows[c.id].org = c.org
            /\ \A i \in DOMAIN d.artifacts : i # c.id => rows[i] = d.artifacts[i]
<1>1. "artifacts" \in DOMAIN d
  BY DEF Tables
<1>2. Statement(c, d, x) = Insert(d, "artifacts", c, c.val)
  BY DEF Statement, Methods, SqlArtifacts, Artifacts
<1> QED
  BY <1>1, <1>2 DEF Insert, Result, Keep, RowOf

LEMMA DeleteArtifactStatement ==
  ASSUME NEW c, NEW d, NEW x, c.op = "deleteArtifact", Tables \subseteq DOMAIN d
  PROVE  LET rows == Statement(c, d, x).store.artifacts
         IN /\ (c.on \in DOMAIN d.artifacts => d.artifacts[c.on].org = c.org) =>
                 DOMAIN rows = DOMAIN d.artifacts \ {c.on}
            /\ \A i \in DOMAIN rows : rows[i] = d.artifacts[i]
<1>1. "artifacts" \in DOMAIN d
  BY DEF Tables
<1>2. Statement(c, d, x) = Artifacts(c, d)
  BY DEF Statement, Methods, SqlArtifacts
<1>3. Mine(d, "artifacts", c) = {i \in DOMAIN d.artifacts : d.artifacts[i].org = c.org}
  BY DEF Mine
<1>4. CASE c.on \in Mine(d, "artifacts", c)
  <2>1. Artifacts(c, d).store = [d EXCEPT !.artifacts = [i \in DOMAIN @ \ {c.on} |-> @[i]]]
    BY <1>4 DEF Artifacts, Result
  <2> QED
    BY <1>1, <1>2, <1>3, <1>4, <2>1
<1>5. CASE c.on \notin Mine(d, "artifacts", c)
  <2>1. Artifacts(c, d).store = d
    BY <1>5 DEF Artifacts, Missing, Result
  <2> QED
    BY <1>2, <1>3, <1>5, <2>1
<1> QED
  BY <1>4, <1>5

LEMMA SaveStatement ==
  ASSUME NEW c, NEW d, NEW x, c.op = "updateTestManifest", Tables \subseteq DOMAIN d
  PROVE  LET rows == Statement(c, d, x).store.versions
         IN \/ rows = d.versions
            \/ /\ DOMAIN rows = DOMAIN d.versions \cup {c.id}
               /\ rows[c.id].val = [at |-> x.began, after |-> x.seen]
               /\ \A i \in DOMAIN d.versions : i # c.id => rows[i] = d.versions[i]
<1>1. "versions" \in DOMAIN d
  BY DEF Tables
<1>2. Statement(c, d, x) = SqlManifests(c, d, x)
  BY DEF Statement, Methods
<1>3. CASE x.found = {}
  BY <1>2, <1>3 DEF SqlManifests, Missing, Result
<1>4. CASE x.found # {}
  <2> DEFINE row == RowOf([c EXCEPT !.of = c.on], [at |-> x.began, after |-> x.seen])
  <2>1. Statement(c, d, x).store = Keep(d, "versions", c.id, row)
    BY <1>2, <1>4 DEF SqlManifests, Result, CreatedAt
  <2>2. row.val = [at |-> x.began, after |-> x.seen]
    BY DEF RowOf
  <2> HIDE DEF row
  <2> QED
    BY <1>1, <2>1, <2>2 DEF Keep
<1> QED
  BY <1>3, <1>4

LEMMA CreateJobStatement ==
  ASSUME NEW c, NEW d, NEW x, c.op = "createAiWorkerJob", Tables \subseteq DOMAIN d,
         IsFiniteSet(DOMAIN d.jobs)
  PROVE  LET rows == Statement(c, d, x).store.jobs
         IN /\ DOMAIN rows = DOMAIN d.jobs \cup {c.id}
            /\ JobOk(rows[c.id])
            /\ \A i \in DOMAIN d.jobs : i # c.id => rows[i] = d.jobs[i]
<1> DEFINE val == [status |-> "queued", expired |-> FALSE, attempt |-> 0, place |-> Cardinality(DOMAIN d.jobs)]
<1>1. "jobs" \in DOMAIN d
  BY DEF Tables
<1>2. Statement(c, d, x) = Insert(d, "jobs", c, val)
  BY DEF Statement, Methods, SqlAiJobs, AiWorkers
<1>3. Cardinality(DOMAIN d.jobs) \in Nat
  BY FS_CardinalityType
<1>4. JobOk(RowOf(c, val))
  BY <1>3 DEF JobOk, RowOf, RowFields, JobFields
<1> HIDE DEF val
<1> QED
  BY <1>1, <1>2, <1>4 DEF Insert, Result, Keep

LEMMA LeaseStatement ==
  ASSUME NEW c, NEW d, NEW x, c.op = "leaseAiWorkerJob", Tables \subseteq DOMAIN d,
         \A i \in DOMAIN d.jobs : JobOk(d.jobs[i])
  PROVE  LET rows == Statement(c, d, x).store.jobs
         IN /\ DOMAIN rows = DOMAIN d.jobs
            /\ \A i \in DOMAIN d.jobs :
                 /\ JobOk(rows[i])
                 /\ i \notin x.found \cup x.pick => rows[i] = d.jobs[i]
                 /\ i \notin x.pick => rows[i].val.attempt = d.jobs[i].val.attempt
<1> DEFINE swept == [i \in DOMAIN d.jobs |->
                      IF i \in x.found THEN [d.jobs[i] EXCEPT !.val.status = "queued"] ELSE d.jobs[i]]
           s == Statement(c, d, x).store
<1>1. "jobs" \in DOMAIN d
  BY DEF Tables
<1>2. \A i \in DOMAIN swept :
        /\ JobOk(swept[i]) /\ (i \notin x.found => swept[i] = d.jobs[i])
        /\ swept[i].val.attempt = d.jobs[i].val.attempt
  BY DEF JobOk, RowFields, JobFields
<1>3. CASE x.pick = {}
  <2>1. s = [d EXCEPT !.jobs = swept]
    BY <1>3 DEF Statement, Methods, SqlAiJobs, Missing, Result
  <2>2. s.jobs = swept
    BY <1>1, <2>1
  <2> QED
    BY <1>2, <1>3, <2>2
<1>4. CASE x.pick # {}
  <2> DEFINE i == CHOOSE j \in x.pick : TRUE
             row == Leased(swept[i])
  <2>1. s = [d EXCEPT !.jobs = [swept EXCEPT ![i] = row]]
    BY <1>4 DEF Statement, Methods, SqlAiJobs, Result
  <2>2. i \in x.pick
    BY <1>4, SMTT(30)
  <2>3. i \in DOMAIN swept => JobOk(row)
    <3> SUFFICES ASSUME i \in DOMAIN swept PROVE JobOk(row)
      OBVIOUS
    <3> DEFINE old == swept[i]
    <3>1. JobOk(old)
      BY <1>2
    <3> HIDE DEF old
    <3> QED
      BY <3>1 DEF JobOk, RowFields, JobFields, Leased, old
  <2> HIDE DEF i, swept
  <2>4. s.jobs = [swept EXCEPT ![i] = row] /\ DOMAIN swept = DOMAIN d.jobs
    BY <1>1, <2>1 DEF swept
  <2> HIDE DEF row, s
  <2> QED
    BY <1>2, <2>2, <2>3, <2>4 DEF s
<1> QED
  BY <1>3, <1>4

LEMMA CompleteStatement ==
  ASSUME NEW c, NEW d, NEW x, c.op = "completeAiWorkerJob", Tables \subseteq DOMAIN d,
         \A i \in DOMAIN d.jobs : JobOk(d.jobs[i]), {"attempt", "place"} \cap DOMAIN c.val = {}
  PROVE  LET rows == Statement(c, d, x).store.jobs
         IN /\ DOMAIN rows = DOMAIN d.jobs
            /\ \A i \in DOMAIN d.jobs :
                 /\ JobOk(rows[i]) /\ rows[i].val.attempt = d.jobs[i].val.attempt
                 /\ i # c.on => rows[i] = d.jobs[i]
<1> DEFINE s == Statement(c, d, x).store
<1>1. "jobs" \in DOMAIN d
  BY DEF Tables
<1>2. s = AiWorkers(c, d).store
  BY DEF Statement, Methods, SqlAiJobs
<1>3. s = d \/ (c.on \in DOMAIN d.jobs /\ s = Keep(d, "jobs", c.on, [d.jobs[c.on] EXCEPT !.val = Over(c.val, @)]))
  <2>1. \/ s = Missing(d).store
        \/ c.on \in Mine(d, "jobs", c) /\ s = Merge(d, "jobs", c, c.val).store
    BY <1>2 DEF AiWorkers
  <2>2. Missing(d).store = d
    BY DEF Missing, Result
  <2>3. c.on \in Mine(d, "jobs", c) =>
          c.on \in DOMAIN d.jobs /\ Merge(d, "jobs", c, c.val).store = Keep(d, "jobs", c.on, [d.jobs[c.on] EXCEPT !.val = Over(c.val, @)])
    BY DEF Merge, Result, Mine
  <2> QED
    BY <2>1, <2>2, <2>3
<1>4. CASE s = d
  BY <1>4
<1>5. CASE c.on \in DOMAIN d.jobs /\ s = Keep(d, "jobs", c.on, [d.jobs[c.on] EXCEPT !.val = Over(c.val, @)])
  <2> DEFINE row == [d.jobs[c.on] EXCEPT !.val = Over(c.val, @)]
  <2>1. JobOk(row) /\ row.val.attempt = d.jobs[c.on].val.attempt
    BY <1>5 DEF JobOk, RowFields, JobFields, Over
  <2>2. s.jobs = [i \in DOMAIN d.jobs \cup {c.on} |-> IF i = c.on THEN row ELSE d.jobs[i]]
    BY <1>1, <1>5 DEF Keep
  <2>3. DOMAIN s.jobs = DOMAIN d.jobs
    BY <1>5, <2>2
  <2> HIDE DEF row
  <2>4. ASSUME NEW i \in DOMAIN d.jobs
        PROVE  /\ JobOk(s.jobs[i]) /\ s.jobs[i].val.attempt = d.jobs[i].val.attempt
               /\ i # c.on => s.jobs[i] = d.jobs[i]
    BY <2>1, <2>2
  <2> QED
    BY <2>3, <2>4, SMTT(30)
<1> QED
  BY <1>3, <1>4, <1>5

-----------------------------------------------------------------------------
(* The steps, as far as the properties are concerned.                          *)

(* Nothing happens to the transactions of others but that they are overtaken. *)
SameTx(q) ==
  /\ DOMAIN tx'[q] = DOMAIN tx[q] /\ tx'[q].began = tx[q].began /\ tx'[q].seen = tx[q].seen
  /\ tx'[q].done = tx[q].done /\ tx'[q].found = tx[q].found /\ tx'[q].pick = tx[q].pick
TxFields == {"began", "seen", "done", "found", "pick", "overtaken"}
Serves(r, answer) ==
  /\ Alone(r) /\ UNCHANGED asked
  /\ Moves(r) \/ (Head(todo[r]).op = "listArtifactsBefore" /\ Begins(r, answer))

LEMMA NoTransactionFacts ==
  DOMAIN NoTransaction = TxFields /\ NoTransaction.done = 0
BY DEF NoTransaction, TxFields

LEMMA OvertakenFacts ==
  ASSUME Control, NEW q \in Request, tx'[q] = tx[q] \/ tx'[q] = [tx[q] EXCEPT !.overtaken = TRUE]
  PROVE  SameTx(q)
BY DEF Control, TxShape, SameTx

LEMMA ServesShape ==
  ASSUME Control, NEW r \in Request, status[r] = "busy", NEW answer, Serves(r, answer)
  PROVE  \A q \in Request : Shape(q)'
BY MovesShape, BeginsShape DEF Serves

(* A transaction that commits, in the words of the invariant. *)
Commits(r) ==
  LET c == Head(todo[r])
  IN /\ status[r] = "busy" /\ c.op \notin {"putBody", "deleteBody"} /\ UNCHANGED <<bodies, clock>>
     /\ tx[r].done = FirstStatements(c)
     /\ tx[r].done = 0 => ~Waits(c, db, Held(r))
     /\ DOMAIN tx' = Request /\ tx'[r] = NoTransaction
     /\ \A q \in Request : q # r => SameTx(q)
     /\ DOMAIN db' = DOMAIN db
     /\ c.op # "updateTestManifest" => db'.versions = db.versions
     /\ c.op \notin JobWrites => db'.jobs = db.jobs
     /\ c.op \notin {"createArtifact", "deleteArtifact"} => db'.artifacts = db.artifacts
     /\ c.op # Audit => db' = Statement(c, db, tx[r]).store
     /\ \E answer : /\ Serves(r, answer)
                    /\ c.op = "listArtifactsBefore" => answer = Statement(c, db, tx[r]).answer

(* The statements of a transaction succeed, or one of them breaks a constraint *)
(* and the transaction is rolled back.                                         *)
Accepted(r, ok) == Commit(r, ok) /\ Transaction(CallNow(r), db, tx[r]) = Statement(CallNow(r), db, tx[r])
Rejected(r, ok) == Commit(r, ok) /\ Breaks(CallNow(r), db)
LEMMA CommitCases ==
  ASSUME NEW r, NEW ok, Commit(r, ok)
  PROVE  Accepted(r, ok) \/ Rejected(r, ok)
BY DEF Accepted, Rejected, Transaction

LEMMA CommitFacts ==
  ASSUME Control, IsFiniteSet(DOMAIN db.artifacts), NEW r \in Request, NEW ok, Accepted(r, ok)
  PROVE  Commits(r)
<1> DEFINE c0 == Head(todo[r])
           c == IF c0.op = Audit THEN [c0 EXCEPT !.id = AuditId(r, c0), !.val = [route |-> asked[r].route]] ELSE c0
           sql == Statement(c, db, tx[r])
<1>1. /\ status[r] = "busy" /\ InRepository(c0) /\ UNCHANGED <<asked, bodies, clock>>
      /\ tx[r].done = FirstStatements(c) /\ ~(tx[r].done = 0 /\ Waits(c, db, Held(r)))
      /\ db' = sql.store
      /\ IF ok THEN Answered(r, c0, sql)
         ELSE status' = [status EXCEPT ![r] = "failed"] /\ todo' = [todo EXCEPT ![r] = <<>>]
  BY DEF Accepted, Commit, CallNow
<1>2. tx' = [q \in Request |-> IF q = r THEN NoTransaction
               ELSE IF q \in Beside(r, c) /\ db' # db THEN [tx[q] EXCEPT !.overtaken = TRUE] ELSE tx[q]]
  BY DEF Accepted, Commit, CallNow
<1>3. DOMAIN c0 = CallFields
  BY <1>1, BusyFacts
<1>4. c.op = c0.op /\ (c0.op # Audit => c = c0)
  BY <1>3 DEF CallFields
<1> HIDE DEF c0, c
<1>5. InRepository(c)
  BY <1>1, <1>4 DEF InRepository
<1>6. FirstStatements(c) = FirstStatements(c0)
  BY <1>4 DEF FirstStatements
<1>7. tx[r].done = 0 => ~Waits(c0, db, Held(r))
  BY <1>1, <1>4 DEF Waits, Audit
<1>8. /\ DOMAIN db' = DOMAIN db
      /\ c0.op # "updateTestManifest" => db'.versions = db.versions
      /\ c0.op \notin JobWrites => db'.jobs = db.jobs
      /\ c0.op \notin {"createArtifact", "deleteArtifact"} => db'.artifacts = db.artifacts
  BY <1>1, <1>4, <1>5, StatementFrame DEF Control
<1>9. /\ DOMAIN tx' = Request /\ tx'[r] = NoTransaction
      /\ \A q \in Request : q # r => SameTx(q)
  BY <1>2, OvertakenFacts
<1>10. c0.op = "listArtifactsBefore" => c = c0 /\ IsFiniteSet(sql.answer)
  BY <1>4, ListingStatement DEF Audit
<1>11. Serves(r, sql.answer)
  <2>1. CASE ok
    <3>1. Answered(r, c0, sql)
      BY <1>1, <2>1
    <3> HIDE DEF sql
    <3>2. CASE c0.op # "listArtifactsBefore"
      BY <1>1, <3>1, <3>2, AnsweredMoves DEF Serves, Moves, c0
    <3>3. CASE c0.op = "listArtifactsBefore"
      BY <1>1, <1>10, <3>1, <3>3, ListingMoves DEF Serves, Moves, c0
    <3> QED
      BY <3>2, <3>3
  <2>2. CASE ~ok
    <3>1. DOMAIN todo = Request /\ DOMAIN status = Request
      BY DEF Control
    <3> QED
      BY <1>1, <2>2, <3>1 DEF Serves, Moves, Alone, Ends
  <2> QED
    BY <2>1, <2>2
<1>12. c0.op \notin {"putBody", "deleteBody"}
  BY <1>1 DEF InRepository, Methods
<1> QED
  BY <1>1, <1>4, <1>6, <1>7, <1>8, <1>9, <1>10, <1>11, <1>12, SMTT(30) DEF Commits, c0

(* A call of the artifact store or of GitHub. *)
CallsOut(r) ==
  LET c == Head(todo[r])
  IN /\ status[r] = "busy" /\ UNCHANGED <<tx, db, clock, asked>> /\ Moves(r)
     /\ FirstStatements(c) = 0
     /\ c.op \notin {"createArtifact", "deleteArtifact", "createAiWorkerJob"}
     /\ c.op \in {"putBody", "deleteBody"} /\ Len(todo[r]) > 1 => GoesOn(r) \/ status'[r] = "failed"
     /\ bodies' = IF c.op = "putBody" THEN bodies \cup {r}
                  ELSE IF c.op = "deleteBody" THEN bodies \ {c.on} ELSE bodies

LEMMA ExternalFacts ==
  ASSUME Control, NEW r \in Request, External(r)
  PROVE  CallsOut(r)
<1> DEFINE c == Head(todo[r])
<1>1. status[r] = "busy" /\ UNCHANGED <<tx, db, clock, asked>> /\ c.id = r
  BY BusyFacts DEF External
<1>2. PutBody(r, c) \/ GetBody(r, c) \/ DeleteBody(r, c) \/ OnGitHub(r, c)
  BY DEF External
<1>3. /\ \E result : Answered(r, c, result) /\ (c.op \in {"putBody", "deleteBody"} => ~result.refused)
      /\ c.op \in {"putBody", "getBody", "deleteBody"} \cup GitHubReads \cup GitHubWrites
      /\ bodies' = IF c.op = "putBody" THEN bodies \cup {r}
                   ELSE IF c.op = "deleteBody" THEN bodies \ {c.on} ELSE bodies
  <2> HIDE DEF c
  <2>1. CASE PutBody(r, c)
    BY <1>1, <2>1 DEF PutBody, Missing, Result
  <2>2. CASE GetBody(r, c)
    BY <2>2 DEF GetBody
  <2>3. CASE DeleteBody(r, c)
    BY <2>3 DEF DeleteBody, Missing, Result
  <2>4. CASE OnGitHub(r, c)
    <3>1. c.op \in GitHubReads \cup GitHubWrites /\ UNCHANGED bodies
      BY <2>4 DEF OnGitHub
    <3>2. \E result : Answered(r, c, result)
      BY <2>4 DEF OnGitHub
    <3>3. c.op \notin {"putBody", "deleteBody"}
      BY <3>1 DEF GitHubReads, GitHubWrites
    <3> QED
      BY <3>1, <3>2, <3>3
  <2> QED
    BY <1>2, <2>1, <2>2, <2>3, <2>4
<1>4. /\ FirstStatements(c) = 0
      /\ c.op \notin {"createArtifact", "deleteArtifact", "createAiWorkerJob", "listArtifactsBefore"}
  BY <1>3 DEF FirstStatements, GitHubReads, GitHubWrites
<1>5. Moves(r)
  BY <1>1, <1>3, <1>4, AnsweredMoves
<1>6. c.op \in {"putBody", "deleteBody"} /\ Len(todo[r]) > 1 => GoesOn(r)
  BY <1>1, <1>3, AnsweredGoesOn
<1> QED
  BY <1>1, <1>3, <1>4, <1>5, <1>6 DEF CallsOut

(* A transaction that is rolled back. *)
Halts(r) ==
  /\ status[r] = "busy" /\ UNCHANGED <<db, bodies, clock, asked>> /\ Moves(r) /\ Ends(r) /\ status'[r] = "failed"
  /\ DOMAIN tx' = Request /\ tx'[r] = NoTransaction /\ \A q \in Request : q # r => SameTx(q)

LEMMA BreakFacts ==
  ASSUME Control, NEW r \in Request, Break(r)
  PROVE  Halts(r)
BY DEF Control, Break, Halts, Moves, Alone, Ends, SameTx

(* So is one that breaks a constraint. *)
LEMMA RejectedStops ==
  ASSUME Control, NEW r \in Request, NEW ok, Rejected(r, ok)
  PROVE  /\ status[r] = "busy" /\ UNCHANGED <<asked, db, mem, bodies, clock, diverged, disagreed>>
         /\ todo' = [todo EXCEPT ![r] = <<>>] /\ status' = [status EXCEPT ![r] = "failed"]
         /\ tx'[r] = NoTransaction /\ \A q \in Request : q # r => tx'[q] = tx[q]
         /\ todo'[r] = <<>> /\ DOMAIN tx' = Request
<1> DEFINE c == CallNow(r)
           sql == Transaction(c, db, tx[r])
<1>1. sql.store = db /\ sql.refused
  BY DEF Rejected, Transaction, Refused
<1>2. /\ status[r] = "busy" /\ UNCHANGED <<asked, bodies, clock>>
      /\ db' = sql.store /\ mem' = IF sql.refused THEN mem ELSE Memory(c, mem).store
      /\ tx' = [q \in Request |-> IF q = r THEN NoTransaction
                                  ELSE IF q \in Beside(r, c) /\ db' # db THEN [tx[q] EXCEPT !.overtaken = TRUE] ELSE tx[q]]
      /\ IF ok THEN Answered(r, Head(todo[r]), sql)
         ELSE status' = [status EXCEPT ![r] = "failed"] /\ todo' = [todo EXCEPT ![r] = <<>>]
  BY DEF Rejected, Commit
<1>3. diverged' = diverged /\ disagreed' = disagreed
  BY <1>1 DEF Rejected, Commit
<1> HIDE DEF sql, c
<1>4. Failed(Head(todo[r]), sql) /\ Remaining(r, Head(todo[r]), sql) = <<>>
  BY <1>1 DEF Failed, Remaining
<1>5. todo' = [todo EXCEPT ![r] = <<>>] /\ status' = [status EXCEPT ![r] = "failed"]
  BY <1>1, <1>2, <1>4 DEF Answered
<1> QED
  BY <1>1, <1>2, <1>3, <1>5 DEF Control

LEMMA RejectedFacts ==
  ASSUME Control, NEW r \in Request, NEW ok, Rejected(r, ok)
  PROVE  Halts(r)
BY RejectedStops DEF Control, Halts, Moves, Alone, Ends, SameTx

(* The effect of a call whose answer is lost. *)
LEMMA LoseAnswerFacts ==
  ASSUME Control, IsFiniteSet(DOMAIN db.artifacts), NEW r \in Request, LoseAnswer(r)
  PROVE  Commits(r) \/ Halts(r) \/ CallsOut(r)
<1>1. CASE Commit(r, FALSE)
  BY <1>1, CommitCases, CommitFacts, RejectedFacts
<1>2. CASE ~Commit(r, FALSE)
  <2> DEFINE c == Head(todo[r])
  <2>1. /\ status[r] = "busy" /\ UNCHANGED <<tx, db, clock, asked>> /\ ~InRepository(c)
        /\ bodies' = CASE c.op = "putBody" -> bodies \cup {c.id}
                       [] c.op = "deleteBody" -> bodies \ {c.on} [] OTHER -> bodies
        /\ status' = [status EXCEPT ![r] = "failed"] /\ todo' = [todo EXCEPT ![r] = <<>>]
    BY <1>2 DEF LoseAnswer
  <2>2. c.id = r
    BY <2>1, BusyFacts
  <2>3. DOMAIN todo = Request /\ DOMAIN status = Request
    BY DEF Control
  <2>4. Moves(r)
    BY <2>1, <2>3 DEF Moves, Alone, Ends
  <2>7. status'[r] = "failed"
    BY <2>1, <2>3
  <2> HIDE DEF c
  <2>5. FirstStatements(c) = 0 /\ c.op \notin {"createArtifact", "deleteArtifact", "createAiWorkerJob"}
    BY <2>1 DEF FirstStatements, InRepository, Methods
  <2>6. bodies' = IF c.op = "putBody" THEN bodies \cup {r}
                  ELSE IF c.op = "deleteBody" THEN bodies \ {c.on} ELSE bodies
    BY <2>1, <2>2
  <2> QED
    BY <2>1, <2>4, <2>5, <2>6, <2>7 DEF CallsOut, c
<1> QED
  BY <1>1, <1>2

(* The first statements. *)
Looks(r) ==
  LET c == Head(todo[r])
  IN /\ status[r] = "busy" /\ UNCHANGED <<asked, todo, status, db, bodies>>
     /\ tx[r].done < FirstStatements(c) /\ ~Waits(c, db, Held(r))
     /\ DOMAIN tx' = Request /\ DOMAIN tx'[r] = TxFields /\ \A q \in Request : q # r => SameTx(q)
     /\ \/ /\ tx[r].done = 0 /\ tx'[r].done = 1 /\ clock' = clock + 1
           /\ tx'[r].began = clock /\ tx'[r].seen = DOMAIN db.versions /\ tx'[r].pick = {}
           /\ tx'[r].found \in Finds(c, db)
        \/ /\ tx[r].done = 1 /\ tx'[r].done = 2 /\ UNCHANGED clock
           /\ tx'[r].began = tx[r].began /\ tx'[r].seen = tx[r].seen /\ tx'[r].found = tx[r].found
           /\ LET free == Free(db, c, tx[r], Held(r))
              IN tx'[r].pick = IF free = {} THEN {} ELSE {First(db.jobs, free)}

LEMMA FirstStatementFacts ==
  ASSUME Control, NEW r \in Request, FirstStatement(r)
  PROVE  Looks(r)
<1> DEFINE c == Head(todo[r])
<1>1. /\ status[r] = "busy" /\ UNCHANGED <<asked, todo, status, db, bodies>>
      /\ tx[r].done < FirstStatements(c) /\ ~Waits(c, db, Held(r))
      /\ Find1(r, c) \/ Find2(r, c)
  BY DEF FirstStatement
<1>2. DOMAIN tx = Request /\ DOMAIN tx[r] = TxFields
  BY DEF Control, TxShape, TxFields
<1> HIDE DEF c
<1>3. CASE Find1(r, c)
  <2>1. PICK found \in Finds(c, db) :
          tx' = [tx EXCEPT ![r] = [began |-> clock, seen |-> DOMAIN db.versions, done |-> 1,
                                   found |-> found, pick |-> {}, overtaken |-> FALSE]]
    BY <1>3 DEF Find1
  <2> QED
    BY <1>1, <1>2, <1>3, <2>1 DEF Find1, Looks, SameTx, TxFields, c
<1>4. CASE Find2(r, c)
  <2> DEFINE free == Free(db, c, tx[r], Held(r))
             pick == IF free = {} THEN {} ELSE {First(db.jobs, free)}
             over == tx[r].overtaken \/ Beside(r, c) # {}
  <2>1. tx' = [tx EXCEPT ![r] = [tx[r] EXCEPT !.done = 2, !.pick = pick, !.overtaken = over]]
    BY <1>4 DEF Find2
  <2>2. tx[r].done = 1 /\ UNCHANGED clock
    BY <1>4 DEF Find2
  <2> HIDE DEF over, pick
  <2>3. /\ DOMAIN tx'[r] = TxFields /\ tx'[r].done = 2 /\ tx'[r].pick = pick
        /\ tx'[r].began = tx[r].began /\ tx'[r].seen = tx[r].seen /\ tx'[r].found = tx[r].found
        /\ DOMAIN tx' = Request /\ \A q \in Request : q # r => SameTx(q)
    BY <1>2, <2>1 DEF TxFields, SameTx
  <2> QED
    BY <1>1, <2>2, <2>3 DEF Looks, c, pick
<1> QED
  BY <1>1, <1>3, <1>4

(* A lease runs out. *)
RunsOut(j) ==
  /\ j \in DOMAIN db.jobs /\ db.jobs[j].val.status = "leased" /\ ~db.jobs[j].val.expired
  /\ db' = [db EXCEPT !.jobs[j].val.expired = TRUE]
  /\ DOMAIN tx' = Request /\ \A q \in Request : SameTx(q)
  /\ UNCHANGED <<asked, todo, status, bodies, clock>>

LEMMA LeaseRunsOutFacts ==
  ASSUME Control, NEW j, LeaseRunsOut(j)
  PROVE  RunsOut(j)
BY OvertakenFacts DEF LeaseRunsOut, RunsOut

Rests == UNCHANGED <<asked, todo, status, tx, db, bodies, clock>>

LEMMA Kinds ==
  ASSUME IInv, [Next]_vars
  PROVE  \/ \E r \in Request : Arrive(r) \/ Looks(r) \/ Commits(r) \/ CallsOut(r) \/ Halts(r)
         \/ \E j \in DOMAIN db.jobs : RunsOut(j)
         \/ Rests
<1>1. Control /\ IsFiniteSet(DOMAIN db.artifacts)
  BY DEF IInv, BodiesKept
<1>2. ASSUME NEW r \in Request, Serve(r)
      PROVE  Looks(r) \/ Commits(r) \/ Halts(r) \/ CallsOut(r)
  BY <1>1, <1>2, FirstStatementFacts, CommitCases, CommitFacts, RejectedFacts, ExternalFacts DEF Serve
<1>3. CASE UNCHANGED vars
  BY <1>3 DEF vars, Rests
<1> QED
  BY <1>1, <1>2, <1>3, BreakFacts, LoseAnswerFacts, LeaseRunsOutFacts DEF Next

-----------------------------------------------------------------------------
(* Control.                                                                    *)

(* What the properties use of the stores at the beginning.                   *)
LEMMA SeedFacts ==
  /\ \A t \in Tables : t \notin {"members", "audit"} => Request \cap DOMAIN Seed.db[t] = {}
  /\ \A r \in Request : r \notin DOMAIN Seed.db.versions /\ r \notin DOMAIN Seed.db.jobs /\ r \notin DOMAIN Seed.db.artifacts
  /\ IsFiniteSet(DOMAIN Seed.db.jobs) /\ IsFiniteSet(DOMAIN Seed.db.artifacts)
  /\ \A j \in DOMAIN Seed.db.jobs : JobOk(Seed.db.jobs[j])
<1>1. \A t \in Tables \ {"members", "audit"} : Request \cap DOMAIN Seed.db[t] = {}
  BY SeedAssumption
<1>2. /\ "versions" \in Tables \ {"members", "audit"} /\ "jobs" \in Tables \ {"members", "audit"}
      /\ "artifacts" \in Tables \ {"members", "audit"}
  BY DEF Tables
<1>3. /\ Request \cap DOMAIN Seed.db.versions = {} /\ Request \cap DOMAIN Seed.db.jobs = {}
      /\ Request \cap DOMAIN Seed.db.artifacts = {}
  BY <1>1, <1>2
<1>4. \A j \in DOMAIN Seed.db.jobs : JobRow(Seed.db.jobs[j])
  BY SeedAssumption
<1>5. \A row : JobRow(row) => JobOk(row)
  BY DEF JobRow, JobOk, RowFields, JobFields
<1>6. IsFiniteSet(DOMAIN Seed.db.jobs) /\ IsFiniteSet(DOMAIN Seed.db.artifacts)
  BY SeedAssumption
<1> QED
  BY <1>1, <1>3, <1>4, <1>5, <1>6

LEMMA ControlInit == Init => Control
<1> SUFFICES ASSUME Init PROVE Control
  OBVIOUS
<1>1. \A r \in Request : todo[r] = <<>> /\ status[r] = "idle" /\ tx[r] = NoTransaction
  BY DEF Init
<1>2. Tables \subseteq DOMAIN db
  BY SeedAssumption DEF Init
<1>3. \A r \in Request : Shape(r)
  BY <1>1 DEF Shape
<1>4. \A r \in Request : TxShape(r)
  BY <1>1 DEF TxShape, NoTransaction
<1> QED
  BY <1>2, <1>3, <1>4 DEF Control, Init

LEMMA OtherTxShape ==
  ASSUME Control, NEW q \in Request, SameTx(q), todo'[q] = todo[q], status'[q] = status[q]
  PROVE  TxShape(q)'
<1>1. TxShape(q)
  BY DEF Control
<1> QED
  BY <1>1 DEF TxShape, SameTx

LEMMA ControlStep == IInv /\ [Next]_vars => Control'
<1> SUFFICES ASSUME IInv, [Next]_vars PROVE Control'
  OBVIOUS
<1>1. /\ Control /\ asked \in Scenario /\ Tables \subseteq DOMAIN db /\ clock \in Nat
      /\ DOMAIN todo = Request /\ DOMAIN status = Request /\ DOMAIN tx = Request
  BY DEF IInv, Control
<1>2. ASSUME NEW r \in Request, Arrive(r) PROVE Control'
  <2>1. UNCHANGED <<asked, tx, db, clock>> /\ status[r] = "idle"
    BY <1>2 DEF Arrive
  <2>2. Alone(r) /\ \A q \in Request : Shape(q)'
    BY <1>1, <1>2, ArriveShape
  <2>3. ASSUME NEW q \in Request PROVE TxShape(q)'
    <3>1. CASE q = r
      BY <1>1, <2>1, <3>1 DEF Control, TxShape
    <3>2. CASE q # r
      BY <1>1, <2>1, <2>2, <3>2, OtherTxShape DEF Alone, SameTx
    <3> QED
      BY <3>1, <3>2
  <2> QED
    BY <1>1, <2>1, <2>2, <2>3 DEF Control, Alone
<1>3. ASSUME NEW r \in Request, Looks(r) PROVE Control'
  <2>1. \A q \in Request : Shape(q)'
    BY <1>1, <1>3, UnmovedShape DEF Looks
  <2>2. ASSUME NEW q \in Request PROVE TxShape(q)'
    <3>1. CASE q = r
      <4>1. FirstStatements(Head(todo[r])) \in {0, 1, 2}
        BY DEF FirstStatements
      <4>2. tx[r].done \in Nat /\ tx'[r].done = tx[r].done + 1 /\ DOMAIN tx'[r] = TxFields
        BY <1>1, <1>3 DEF Looks, Control, TxShape
      <4>3. /\ tx[r].done < FirstStatements(Head(todo[r])) /\ status[r] = "busy"
            /\ UNCHANGED <<todo, status>>
        BY <1>3 DEF Looks
      <4> QED
        BY <3>1, <4>1, <4>2, <4>3 DEF TxShape, TxFields
    <3>2. CASE q # r
      BY <1>1, <1>3, <3>2, OtherTxShape DEF Looks
    <3> QED
      BY <3>1, <3>2
  <2>3. clock' \in Nat
    BY <1>1, <1>3 DEF Looks
  <2> QED
    BY <1>1, <1>3, <2>1, <2>2, <2>3 DEF Control, Looks
<1>4. ASSUME NEW r \in Request, Commits(r) PROVE Control'
  <2>1. PICK answer : Serves(r, answer)
    BY <1>4 DEF Commits
  <2>2. Alone(r) /\ UNCHANGED asked /\ \A q \in Request : Shape(q)'
    BY <1>1, <1>4, <2>1, ServesShape DEF Serves, Commits
  <2>3. ASSUME NEW q \in Request PROVE TxShape(q)'
    <3>1. CASE q = r
      BY <1>4, <3>1, NoTransactionFacts DEF TxShape, TxFields, Commits
    <3>2. CASE q # r
      BY <1>1, <1>4, <2>2, <3>2, OtherTxShape DEF Commits, Alone
    <3> QED
      BY <3>1, <3>2
  <2> QED
    BY <1>1, <1>4, <2>2, <2>3 DEF Control, Commits, Alone
<1>5. ASSUME NEW r \in Request, CallsOut(r) PROVE Control'
  <2>1. Alone(r) /\ UNCHANGED <<asked, tx, db, clock>> /\ \A q \in Request : Shape(q)'
    BY <1>1, <1>5, MovesShape DEF CallsOut, Moves
  <2>2. ASSUME NEW q \in Request PROVE TxShape(q)'
    <3>1. CASE q = r
      <4>1. TxShape(r) /\ tx[r].done = 0
        BY <1>1, <1>5 DEF Control, TxShape, CallsOut
      <4> QED
        BY <2>1, <3>1, <4>1 DEF TxShape
    <3>2. CASE q # r
      BY <1>1, <2>1, <3>2, OtherTxShape DEF SameTx, Alone
    <3> QED
      BY <3>1, <3>2
  <2> QED
    BY <1>1, <2>1, <2>2 DEF Control, Alone
<1>6. ASSUME NEW r \in Request, Halts(r) PROVE Control'
  <2>1. Alone(r) /\ UNCHANGED <<asked, db, clock>> /\ \A q \in Request : Shape(q)'
    BY <1>1, <1>6, MovesShape DEF Halts, Moves
  <2>2. ASSUME NEW q \in Request PROVE TxShape(q)'
    <3>1. CASE q = r
      BY <1>6, <3>1, NoTransactionFacts DEF TxShape, TxFields, Halts
    <3>2. CASE q # r
      BY <1>1, <1>6, <2>1, <3>2, OtherTxShape DEF Halts, Alone
    <3> QED
      BY <3>1, <3>2
  <2> QED
    BY <1>1, <1>6, <2>1, <2>2 DEF Control, Halts, Alone
<1>7. ASSUME NEW j \in DOMAIN db.jobs, RunsOut(j) PROVE Control'
  <2>1. UNCHANGED <<asked, todo, status, clock>> /\ DOMAIN db' = DOMAIN db /\ DOMAIN tx' = Request
    BY <1>7 DEF RunsOut
  <2>2. \A q \in Request : Shape(q)'
    BY <1>1, <2>1, UnmovedShape
  <2>3. \A q \in Request : TxShape(q)'
    BY <1>1, <1>7, <2>1, OtherTxShape DEF RunsOut
  <2> QED
    BY <1>1, <2>1, <2>2, <2>3 DEF Control
<1>8. CASE Rests
  <2>1. \A q \in Request : Shape(q)'
    BY <1>1, <1>8, UnmovedShape DEF Rests
  <2>2. \A q \in Request : TxShape(q)'
    BY <1>1, <1>8, OtherTxShape DEF Rests, SameTx
  <2> QED
    BY <1>1, <1>8, <2>1, <2>2 DEF Control, Rests
<1> QED
  BY <1>2, <1>3, <1>4, <1>5, <1>6, <1>7, <1>8, Kinds

LEMMA ServesPending ==
  ASSUME Control, NEW r \in Request, status[r] = "busy", NEW answer, Serves(r, answer)
  PROVE  /\ status'[r] # "idle" /\ Pending(r, Head(todo[r]).op)
         /\ \A op \in Once : Pending(r, op)' => Pending(r, op) /\ Head(todo[r]).op # op
         /\ \A q \in Request : q # r =>
              status'[q] = status[q] /\ todo'[q] = todo[q] /\ \A op : Pending(q, op)' = Pending(q, op)
<1>1. Pending(r, Head(todo[r]).op)
  BY BusyFacts DEF Pending
<1>2. \A q \in Request : q # r =>
        status'[q] = status[q] /\ todo'[q] = todo[q] /\ \A op : Pending(q, op)' = Pending(q, op)
  BY DEF Serves, Alone, Pending
<1>3. CASE Moves(r)
  <2>1. status'[r] # "idle"
    BY <1>3 DEF Moves, Ends, GoesOn
  <2> QED
    BY <1>1, <1>2, <1>3, <2>1, MovesPending
<1>4. CASE Head(todo[r]).op = "listArtifactsBefore" /\ Alone(r) /\ Begins(r, answer)
  <2>1. status'[r] # "idle"
    BY <1>4 DEF Begins, PurgeList
  <2>2. UNCHANGED asked
    BY DEF Serves
  <2>3. \A op \in Once : ~Pending(r, op)'
    BY <1>4, <2>2, BeginsShape
  <2> QED
    BY <1>1, <1>2, <2>1, <2>3
<1> QED
  BY <1>3, <1>4 DEF Serves

LEMMA MovesServes ==
  ASSUME NEW r \in Request, Moves(r), UNCHANGED asked
  PROVE  Serves(r, {})
BY DEF Moves, Serves

-----------------------------------------------------------------------------
(* The manifests.                                                              *)

LEMMA SavesInit == Init => SavesInOrder
<1> SUFFICES ASSUME Init PROVE SavesInOrder
  OBVIOUS
<1>1. \A r \in Request : status[r] = "idle" /\ tx[r].done = 0
  BY DEF Init, NoTransaction
<1>2. db = Seed.db /\ clock = 1
  BY DEF Init
<1>3. \A r \in Request : r \notin DOMAIN db.versions
  BY <1>2, SeedFacts
<1>4. \A v \in DOMAIN db.versions : db.versions[v].val.at = 0 /\ db.versions[v].val.after = {}
  BY <1>2, SeedAssumption
<1> QED
  BY <1>1, <1>2, <1>3, <1>4 DEF SavesInOrder, Saves, Doing

(* A request that knows of no new versions. *)
LEMMA SavesKept ==
  ASSUME Control, NEW q \in Request, Saves(q), db'.versions = db.versions, clock' = clock,
         tx'[q].done > 0 => SameTx(q) /\ todo'[q] = todo[q],
         status'[q] = "idle" => status[q] = "idle",
         Pending(q, "updateTestManifest")' => status[q] = "idle" \/ Pending(q, "updateTestManifest")
  PROVE  Saves(q)'
BY DEF Saves, Doing, SameTx

LEMMA SavesStep == IInv /\ [Next]_vars => SavesInOrder'
<1> SUFFICES ASSUME IInv, [Next]_vars PROVE SavesInOrder'
  OBVIOUS
<1> DEFINE rows == db.versions
           Before(u, at) == u \in DOMAIN rows /\ rows[u].val.at < at
<1>1. /\ Control /\ clock \in Nat /\ \A q \in Request : Saves(q) /\ TxShape(q)
      /\ \A v \in DOMAIN rows : /\ rows[v].val.at \in Nat /\ rows[v].val.at < clock
                                /\ \A u \in rows[v].val.after : Before(u, rows[v].val.at)
  BY DEF IInv, Control, SavesInOrder
<1>2. ASSUME db'.versions = rows, clock' = clock, \A q \in Request : Saves(q)'
      PROVE  SavesInOrder'
  BY <1>1, <1>2 DEF SavesInOrder
<1>3. ASSUME NEW r \in Request, Arrive(r) PROVE SavesInOrder'
  <2>1. status[r] = "idle" /\ UNCHANGED <<tx, db, clock>> /\ tx[r].done = 0
    BY <1>1, <1>3 DEF Arrive, TxShape
  <2>2. Alone(r) /\ status'[r] = "busy"
    BY <1>1, <1>3, ArriveShape
  <2>3. ASSUME NEW q \in Request PROVE Saves(q)'
    BY <1>1, <2>1, <2>2, <2>3, SavesKept DEF Alone, SameTx, Pending
  <2> QED
    BY <1>2, <2>1, <2>3
<1>4. ASSUME NEW r \in Request, Looks(r) PROVE SavesInOrder'
  <2>1. UNCHANGED <<todo, status, db>> /\ \A q \in Request : q # r => SameTx(q)
    BY <1>4 DEF Looks
  <2>2. clock' \in {clock, clock + 1}
    BY <1>4 DEF Looks
  <2>3. \A q \in Request : \A op : Pending(q, op)' = Pending(q, op)
    BY <2>1 DEF Pending
  <2>4. ASSUME NEW q \in Request, q # r PROVE Saves(q)'
    BY <1>1, <2>1, <2>2, <2>3, <2>4 DEF Saves, Doing, SameTx
  <2>5. Saves(r)'
    <3>1. CASE Head(todo[r]).op # "updateTestManifest"
      BY <1>1, <2>1, <2>3, <3>1 DEF Saves, Doing
    <3>2. CASE Head(todo[r]).op = "updateTestManifest"
      <4>1. FirstStatements(Head(todo[r])) = 1
        BY <3>2 DEF FirstStatements
      <4>2. tx'[r].began = clock /\ clock' = clock + 1 /\ tx'[r].seen = DOMAIN rows
        BY <1>1, <1>4, <4>1 DEF Looks, TxShape
      <4>3. \A u \in DOMAIN rows : rows[u].val.at < clock
        BY <1>1
      <4> QED
        BY <1>1, <2>1, <2>3, <4>2, <4>3 DEF Saves
    <3> QED
      BY <3>1, <3>2
  <2> QED
    BY <1>1, <2>1, <2>2, <2>4, <2>5 DEF SavesInOrder
<1>5. ASSUME NEW r \in Request, Commits(r) PROVE SavesInOrder'
  <2> DEFINE c == Head(todo[r])
  <2>1. PICK answer : Serves(r, answer)
    BY <1>5 DEF Commits
  <2>2. status[r] = "busy" /\ clock' = clock /\ tx'[r] = NoTransaction /\ \A q \in Request : q # r => SameTx(q)
    BY <1>5 DEF Commits
  <2>3. /\ status'[r] # "idle" /\ Pending(r, c.op)
        /\ Pending(r, "updateTestManifest")' => Pending(r, "updateTestManifest") /\ c.op # "updateTestManifest"
        /\ \A q \in Request : q # r =>
             status'[q] = status[q] /\ todo'[q] = todo[q] /\ \A op : Pending(q, op)' = Pending(q, op)
    BY <1>1, <2>1, <2>2, ServesPending DEF Once
  <2>4. tx'[r].done = 0
    BY <2>2, NoTransactionFacts
  <2>5. CASE db'.versions = rows
    <3>1. ASSUME NEW q \in Request PROVE Saves(q)'
      BY <1>1, <2>2, <2>3, <2>4, <2>5, <3>1, SavesKept
    <3> QED
      BY <1>2, <2>2, <2>5, <3>1
  <2>6. CASE db'.versions # rows
    <3>1. c.op = "updateTestManifest" /\ db' = Statement(c, db, tx[r]).store
      BY <1>5, <2>6 DEF Commits, Audit
    <3>2. tx[r].done > 0
      BY <1>5, <3>1 DEF Commits, FirstStatements
    <3>3. Doing(r, "updateTestManifest") /\ r \notin DOMAIN rows /\ c.id = r
      BY <1>1, <2>2, <2>3, <3>1, <3>2, BusyFacts DEF Doing, Saves
    <3>4. /\ tx[r].began \in Nat /\ tx[r].began < clock
          /\ \A u \in tx[r].seen : Before(u, tx[r].began)
      BY <1>1, <3>3 DEF Saves
    <3>5. /\ DOMAIN db'.versions = DOMAIN rows \cup {r}
          /\ db'.versions[r].val.at = tx[r].began /\ db'.versions[r].val.after = tx[r].seen
          /\ \A i \in DOMAIN rows : db'.versions[i] = rows[i]
      <4> DEFINE new == Statement(c, db, tx[r]).store.versions
      <4>1. Tables \subseteq DOMAIN db
        BY <1>1 DEF Control
      <4> HIDE DEF c
      <4>2. \/ new = db.versions
            \/ /\ DOMAIN new = DOMAIN db.versions \cup {c.id}
               /\ new[c.id].val = [at |-> tx[r].began, after |-> tx[r].seen]
               /\ \A i \in DOMAIN db.versions : i # c.id => new[i] = db.versions[i]
        BY <3>1, <4>1, SaveStatement
      <4>3. db'.versions = new
        BY <3>1
      <4> HIDE DEF new
      <4> QED
        BY <2>6, <3>3, <4>2, <4>3
    <3>6. ASSUME NEW q \in Request PROVE Saves(q)'
      <4>1. CASE q = r
        BY <2>3, <2>4, <3>1, <4>1 DEF Saves, Doing
      <4>2. CASE q # r
        BY <1>1, <2>2, <2>3, <3>3, <3>5, <4>2 DEF Saves, Doing, SameTx
      <4> QED
        BY <4>1, <4>2
    <3>7. ASSUME NEW v \in DOMAIN db'.versions
          PROVE  /\ db'.versions[v].val.at \in Nat /\ db'.versions[v].val.at < clock'
                 /\ \A u \in db'.versions[v].val.after :
                      u \in DOMAIN db'.versions /\ db'.versions[u].val.at < db'.versions[v].val.at
      <4>1. CASE v = r
        BY <2>2, <3>3, <3>4, <3>5, <4>1
      <4>2. CASE v # r
        BY <1>1, <2>2, <3>3, <3>5, <4>2
      <4> QED
        BY <4>1, <4>2
    <3> QED
      BY <3>6, <3>7 DEF SavesInOrder
  <2> QED
    BY <2>5, <2>6
<1>6. ASSUME NEW r \in Request, CallsOut(r) \/ Halts(r) PROVE SavesInOrder'
  <2>1. /\ status[r] = "busy" /\ UNCHANGED <<db, clock>> /\ Serves(r, {})
        /\ \A q \in Request : q # r => SameTx(q)
    BY <1>6, MovesServes DEF CallsOut, Halts, SameTx
  <2>2. tx'[r].done = 0
    <3>1. CASE CallsOut(r)
      BY <1>1, <3>1 DEF CallsOut, TxShape
    <3>2. CASE Halts(r)
      BY <3>2, NoTransactionFacts DEF Halts
    <3> QED
      BY <1>6, <3>1, <3>2
  <2>3. ASSUME NEW q \in Request PROVE Saves(q)'
    <3>1. /\ status'[r] # "idle"
          /\ Pending(r, "updateTestManifest")' => Pending(r, "updateTestManifest")
          /\ q # r => status'[q] = status[q] /\ todo'[q] = todo[q] /\ \A op : Pending(q, op)' = Pending(q, op)
      BY <1>1, <2>1, ServesPending DEF Once
    <3> QED
      BY <1>1, <2>1, <2>2, <3>1, SavesKept
  <2> QED
    BY <1>2, <2>1, <2>3
<1>7. ASSUME NEW j \in DOMAIN db.jobs, RunsOut(j) PROVE SavesInOrder'
  <2>1. UNCHANGED <<todo, status, clock>> /\ db'.versions = rows /\ \A q \in Request : SameTx(q)
    BY <1>7 DEF RunsOut
  <2>2. ASSUME NEW q \in Request PROVE Saves(q)'
    BY <1>1, <2>1, SavesKept DEF Pending
  <2> QED
    BY <1>2, <2>1, <2>2
<1>8. CASE Rests
  <2>1. ASSUME NEW q \in Request PROVE Saves(q)'
    BY <1>1, <1>8, SavesKept DEF Rests, Pending, SameTx
  <2> QED
    BY <1>2, <1>8, <2>1 DEF Rests
<1> QED
  BY <1>3, <1>4, <1>5, <1>6, <1>7, <1>8, Kinds

LEMMA SavesSafe == SavesInOrder => LaterSaveServed
<1> SUFFICES ASSUME SavesInOrder, NEW test \in DOMAIN db.tests,
                    NEW served \in Newest(db, VersionsOf(db, test)), NEW v \in VersionsOf(db, test),
                    served \in db.versions[v].val.after
             PROVE  FALSE
  BY DEF LaterSaveServed
<1>1. /\ v \in DOMAIN db.versions /\ db.versions[v].val.at \in Nat
      /\ served \in DOMAIN db.versions /\ db.versions[served].val.at \in Nat
      /\ db.versions[served].val.at < db.versions[v].val.at
  BY DEF SavesInOrder, VersionsOf
<1>2. db.versions[v].val.at <= db.versions[served].val.at
  BY DEF Newest
<1> QED
  BY <1>1, <1>2

-----------------------------------------------------------------------------
(* The leases of AI worker jobs.                                               *)

LEMMA FirstIsOpen ==
  ASSUME NEW jobs, NEW open, open # {}, \A i \in open : jobs[i].val.place \in Nat
  PROVE  First(jobs, open) \in open
<1> DEFINE R == {ss \in Nat \X Nat : ss[1] < ss[2]}
           places == {jobs[i].val.place : i \in open}
<1>1. IsWellFoundedOn(R, Nat)
  BY NatLessThanWellFounded DEF OpToRel
<1>2. places \subseteq Nat /\ places # {}
  OBVIOUS
<1> HIDE DEF R
<1>3. PICK n \in places : \A m \in places : ~(<<m, n>> \in R)
  BY <1>1, <1>2, WFMin
<1>4. ASSUME NEW m \in places PROVE n <= m
  <2>1. m \in Nat /\ n \in Nat
    BY <1>2
  <2>2. <<m, n>> \in Nat \X Nat /\ <<m, n>>[1] = m /\ <<m, n>>[2] = n
    BY <2>1
  <2> HIDE DEF places
  <2>3. ~(m < n)
    BY <1>3, <2>2 DEF R
  <2> QED
    BY <2>1, <2>3
<1>5. PICK i \in open : jobs[i].val.place = n
  BY <1>3
<1>6. \A j \in open : jobs[i].val.place <= jobs[j].val.place
  BY <1>4, <1>5
<1> QED
  BY <1>6 DEF First

LEMMA HeldFacts ==
  ASSUME Control, NEW r \in Request, NEW q \in Request, q # r, Polls(q)
  PROVE  Locked(q) \subseteq Held(r)
<1>1. q \in Open \ {r} /\ Head(todo[q]).op = "leaseAiWorkerJob"
  BY DEF Control, TxShape, Polls, Doing, Open
<1> QED
  BY <1>1 DEF Held, Locked

LEMMA LeasesInit == Init => LeasesApart
<1> SUFFICES ASSUME Init PROVE LeasesApart
  OBVIOUS
<1>1. \A r \in Request : status[r] = "idle" /\ tx[r].done = 0
  BY DEF Init, NoTransaction
<1>2. db = Seed.db
  BY DEF Init
<1>3. /\ \A r \in Request : r \notin DOMAIN db.jobs
      /\ IsFiniteSet(DOMAIN db.jobs)
  BY <1>2, SeedFacts
<1>4. \A j \in DOMAIN db.jobs : JobOk(db.jobs[j])
  BY <1>2, SeedFacts
<1> QED
  BY <1>1, <1>3, <1>4 DEF LeasesApart, Polling, Polls, Doing

(* What a transaction does to the jobs as it commits: a job locked by another  *)
(* poll keeps its row, and one whose lease lasts its number of attempts.       *)
LEMMA CommitJobs ==
  ASSUME IInv, NEW r \in Request, Commits(r)
  PROVE  /\ IsFiniteSet(DOMAIN db'.jobs) /\ \A j \in DOMAIN db'.jobs : JobOk(db'.jobs[j])
         /\ \/ DOMAIN db'.jobs = DOMAIN db.jobs
            \/ Head(todo[r]).op = "createAiWorkerJob" /\ DOMAIN db'.jobs = DOMAIN db.jobs \cup {r}
         /\ \A q \in Request : q # r /\ Polls(q) =>
              \A j \in Locked(q) : j \in DOMAIN db.jobs => db'.jobs[j] = db.jobs[j]
         /\ \A j \in DOMAIN db.jobs :
              db.jobs[j].val.status = "leased" /\ ~db.jobs[j].val.expired =>
                db'.jobs[j].val.attempt = db.jobs[j].val.attempt
<1> DEFINE c == Head(todo[r])
           x == tx[r]
           jobs == db.jobs
           new == Statement(c, db, x).store.jobs
<1>1. /\ Control /\ Tables \subseteq DOMAIN db /\ status[r] = "busy" /\ c.id = r /\ c.val = asked[r].args.val
      /\ x.done = FirstStatements(c) /\ (x.done = 0 => ~Waits(c, db, Held(r)))
  BY BusyFacts DEF IInv, Control, Commits
<1>2. /\ IsFiniteSet(DOMAIN jobs) /\ \A j \in DOMAIN jobs : JobOk(jobs[j])
      /\ \A q \in Request : Polling(q)
      /\ \A p, q \in Request : p # q /\ Polls(p) /\ Polls(q) => Locked(p) \cap Locked(q) = {}
  BY DEF IInv, LeasesApart
<1>3. CASE c.op \notin JobWrites
  <2>1. db'.jobs = jobs
    BY <1>3 DEF Commits
  <2> QED
    BY <1>2, <2>1
<1>4. ASSUME c.op \in JobWrites PROVE db'.jobs = new
  BY <1>4 DEF Commits, JobWrites, Audit
<1>5. CASE c.op = "createAiWorkerJob"
  <2>1. r \notin DOMAIN jobs
    <3>1. Pending(r, "createAiWorkerJob")
      BY <1>1, <1>5, BusyFacts DEF Pending
    <3> QED
      BY <1>2, <3>1 DEF Polling
  <2> HIDE DEF c, x
  <2>2. /\ DOMAIN new = DOMAIN jobs \cup {r}
        /\ JobOk(new[r])
        /\ \A i \in DOMAIN jobs : i # r => new[i] = jobs[i]
    BY <1>1, <1>2, <1>5, CreateJobStatement
  <2>3. db'.jobs = new
    BY <1>4, <1>5 DEF JobWrites
  <2>4. IsFiniteSet(DOMAIN jobs \cup {r})
    BY <1>2, FS_AddElement
  <2> HIDE DEF new, jobs
  <2>5. \A j \in DOMAIN jobs : db'.jobs[j] = jobs[j]
    BY <2>1, <2>2, <2>3
  <2>6. /\ IsFiniteSet(DOMAIN db'.jobs) /\ \A j \in DOMAIN db'.jobs : JobOk(db'.jobs[j])
        /\ DOMAIN db'.jobs = DOMAIN jobs \cup {r}
    BY <1>2, <2>2, <2>3, <2>4, <2>5
  <2> QED
    BY <1>5, <2>5, <2>6 DEF jobs, c
<1>6. CASE c.op = "leaseAiWorkerJob"
  <2>1. Polls(r)
    BY <1>1, <1>6 DEF Polls, Doing, FirstStatements
  <2>2. \A j \in x.pick : jobs[j].val.status = "queued" \/ Expired(jobs[j])
    BY <1>2, <2>1 DEF Polling
  <2> HIDE DEF c
  <2>3. /\ DOMAIN new = DOMAIN jobs
        /\ \A i \in DOMAIN jobs :
             /\ JobOk(new[i])
             /\ i \notin x.found \cup x.pick => new[i] = jobs[i]
             /\ i \notin x.pick => new[i].val.attempt = jobs[i].val.attempt
    BY <1>1, <1>2, <1>6, LeaseStatement
  <2>4. db'.jobs = new
    BY <1>4, <1>6 DEF JobWrites
  <2> HIDE DEF new
  <2>5. \A q \in Request : q # r /\ Polls(q) => \A j \in Locked(q) : j \in DOMAIN jobs => db'.jobs[j] = jobs[j]
    BY <1>2, <2>1, <2>3, <2>4 DEF Locked
  <2>6. \A j \in DOMAIN jobs : jobs[j].val.status = "leased" /\ ~jobs[j].val.expired =>
          db'.jobs[j].val.attempt = jobs[j].val.attempt
    BY <2>2, <2>3, <2>4 DEF Expired
  <2> QED
    BY <1>2, <2>3, <2>4, <2>5, <2>6
<1>7. CASE c.op = "completeAiWorkerJob"
  <2>1. c.on \notin Held(r)
    BY <1>1, <1>7 DEF FirstStatements, Waits
  <2>2. {"attempt", "place"} \cap DOMAIN c.val = {}
    <3>1. Route(r) = "postComplete"
      BY <1>1, <1>7, PendingOps, BusyFacts
    <3> QED
      BY <1>1, <3>1, CompletionAssumption DEF Control, Route
  <2> HIDE DEF c, x
  <2>3. /\ DOMAIN new = DOMAIN jobs
        /\ \A i \in DOMAIN jobs :
             /\ JobOk(new[i]) /\ new[i].val.attempt = jobs[i].val.attempt
             /\ i # c.on => new[i] = jobs[i]
    BY <1>1, <1>2, <1>7, <2>2, CompleteStatement
  <2>4. db'.jobs = new
    BY <1>4, <1>7 DEF JobWrites
  <2> HIDE DEF new
  <2>5. \A q \in Request : q # r /\ Polls(q) => \A j \in Locked(q) : j \in DOMAIN jobs => db'.jobs[j] = jobs[j]
    BY <1>1, <2>1, <2>3, <2>4, HeldFacts
  <2> QED
    BY <1>2, <2>3, <2>4, <2>5
<1> QED
  BY <1>3, <1>5, <1>6, <1>7 DEF JobWrites

(* What is known of a poll stays known while the rows it locks keep what makes *)
(* them locked, and it stays out of the way of a request that makes no job.    *)
LEMMA PollingKept ==
  ASSUME NEW q \in Request, Polling(q),
         tx'[q].done > 0 => SameTx(q) /\ todo'[q] = todo[q],
         status'[q] = "idle" => status[q] = "idle",
         Pending(q, "createAiWorkerJob")' => status[q] = "idle" \/ Pending(q, "createAiWorkerJob"),
         status[q] = "idle" \/ Pending(q, "createAiWorkerJob") =>
           (q \in DOMAIN db'.jobs => q \in DOMAIN db.jobs
            \/ (status'[q] # "idle" /\ ~Pending(q, "createAiWorkerJob")')),
         Polls(q) => \A j \in Locked(q) : j \in DOMAIN db.jobs =>
           /\ j \in DOMAIN db'.jobs
           /\ db'.jobs[j].val.status = db.jobs[j].val.status
           /\ Expired(db.jobs[j]) => Expired(db'.jobs[j])
  PROVE  Polling(q)'
<1>1. ASSUME status'[q] = "idle" \/ Pending(q, "createAiWorkerJob")' PROVE q \notin DOMAIN db'.jobs
  BY <1>1 DEF Polling
<1>2. ASSUME Polls(q)' PROVE Polls(q) /\ tx'[q].found = tx[q].found /\ tx'[q].pick = tx[q].pick
  BY <1>2 DEF Polls, Doing, SameTx
<1>3. ASSUME Polls(q)', NEW j \in tx'[q].found PROVE j \in DOMAIN db'.jobs /\ Expired(db'.jobs[j])
  BY <1>2, <1>3 DEF Polling, Locked
<1>4. ASSUME Polls(q)', NEW j \in tx'[q].pick
      PROVE  j \in DOMAIN db'.jobs /\ (db'.jobs[j].val.status = "queued" \/ j \in tx'[q].found)
  BY <1>2, <1>4 DEF Polling, Locked
<1> QED
  BY <1>1, <1>3, <1>4 DEF Polling, Expired

LEMMA LeasesStep == IInv /\ [Next]_vars => LeasesApart'
<1> SUFFICES ASSUME IInv, [Next]_vars PROVE LeasesApart'
  OBVIOUS
<1>1. /\ Control /\ \A q \in Request : Polling(q) /\ TxShape(q)
      /\ IsFiniteSet(DOMAIN db.jobs) /\ \A j \in DOMAIN db.jobs : JobOk(db.jobs[j])
      /\ \A p, q \in Request : p # q /\ Polls(p) /\ Polls(q) => Locked(p) \cap Locked(q) = {}
  BY DEF IInv, Control, LeasesApart
<1>2. ASSUME NEW p \in Request, NEW q \in Request, p # q, Polls(p)', Polls(q)',
             tx'[p].done > 0 => SameTx(p) /\ todo'[p] = todo[p],
             tx'[q].done > 0 => SameTx(q) /\ todo'[q] = todo[q]
      PROVE  Locked(p)' \cap Locked(q)' = {}
  BY <1>1, <1>2 DEF Polls, Doing, Locked, SameTx
<1>3. ASSUME \A q \in Request : tx'[q].done > 0 => SameTx(q) /\ todo'[q] = todo[q],
             \A q \in Request : Polling(q)',
             IsFiniteSet(DOMAIN db'.jobs), \A j \in DOMAIN db'.jobs : JobOk(db'.jobs[j])
      PROVE  LeasesApart'
  <2>1. \A p, q \in Request : p # q /\ Polls(p)' /\ Polls(q)' => Locked(p)' \cap Locked(q)' = {}
    BY <1>2, <1>3
  <2> QED
    BY <1>3, <2>1 DEF LeasesApart, JobOk
<1>4. ASSUME NEW r \in Request, Arrive(r) PROVE LeasesApart'
  <2>1. status[r] = "idle" /\ UNCHANGED <<tx, db>> /\ tx[r].done = 0
    BY <1>1, <1>4 DEF Arrive, TxShape
  <2>2. Alone(r) /\ status'[r] = "busy"
    BY <1>1, <1>4, ArriveShape
  <2>3. \A q \in Request : tx'[q].done > 0 => SameTx(q) /\ todo'[q] = todo[q]
    BY <2>1, <2>2 DEF Alone, SameTx
  <2>4. ASSUME NEW q \in Request PROVE Polling(q)'
    BY <1>1, <2>1, <2>2, <2>3, PollingKept DEF Alone, Pending
  <2> QED
    BY <1>1, <1>3, <2>1, <2>3, <2>4
<1>5. ASSUME NEW r \in Request, Looks(r) PROVE LeasesApart'
  <2> DEFINE c == Head(todo[r])
  <2>1. UNCHANGED <<todo, status, db>> /\ \A q \in Request : q # r => SameTx(q)
    BY <1>5 DEF Looks
  <2>2. \A q \in Request : \A op : Pending(q, op)' = Pending(q, op)
    BY <2>1 DEF Pending
  <2>3. \A q \in Request : q # r => Polling(q)' /\ Polls(q)' = Polls(q) /\ Locked(q)' = Locked(q)
    BY <1>1, <2>1, <2>2 DEF Polling, Polls, Doing, SameTx, Locked, Expired
  <2>4. CASE c.op # "leaseAiWorkerJob"
    <3>1. ~Polls(r)' /\ Polling(r)'
      BY <1>1, <2>1, <2>2, <2>4 DEF Polling, Polls, Doing
    <3> QED
      BY <1>1, <2>1, <2>3, <3>1 DEF LeasesApart, JobOk
  <2>5. CASE c.op = "leaseAiWorkerJob"
    <3>1. ~Waits(c, db, Held(r))
      BY <1>5 DEF Looks
    <3>2. \/ tx'[r].found = Overdue(db, c) /\ tx'[r].pick = {}
          \/ /\ Polls(r) /\ tx'[r].found = tx[r].found
             /\ LET free == Free(db, c, tx[r], Held(r))
                IN tx'[r].pick = IF free = {} THEN {} ELSE {First(db.jobs, free)}
      BY <1>5, <2>5 DEF Looks, Polls, Doing, Finds, Methods
    <3>3. \A q \in Request : q # r /\ Polls(q) => Locked(q) \subseteq Held(r)
      BY <1>1, HeldFacts
    <3>4. CASE tx'[r].found = Overdue(db, c) /\ tx'[r].pick = {}
      <4>1. \A q \in Request : q # r /\ Polls(q) => Locked(q) \cap Locked(r)' = {}
        BY <2>5, <3>1, <3>3, <3>4 DEF Waits, Locked
      <4>2. Polling(r)'
        BY <1>1, <2>1, <2>2, <3>4 DEF Polling, Overdue, Mine
      <4> QED
        BY <1>1, <2>1, <2>3, <4>1, <4>2 DEF LeasesApart, JobOk
    <3>5. CASE /\ Polls(r) /\ tx'[r].found = tx[r].found
               /\ LET free == Free(db, c, tx[r], Held(r))
                  IN tx'[r].pick = IF free = {} THEN {} ELSE {First(db.jobs, free)}
      <4> DEFINE free == Free(db, c, tx[r], Held(r))
      <4>1. \A j \in free : /\ j \in DOMAIN db.jobs /\ j \notin Held(r)
                            /\ db.jobs[j].val.status = "queued" \/ j \in tx[r].found
                            /\ db.jobs[j].val.place \in Nat
        BY <1>1 DEF Free, Mine, JobOk
      <4>2. \A j \in tx'[r].pick : j \in free
        BY <3>5, <4>1, FirstIsOpen
      <4> HIDE DEF free
      <4>3. \A q \in Request : q # r /\ Polls(q) => Locked(q) \cap Locked(r)' = {}
        BY <1>1, <3>3, <3>5, <4>1, <4>2 DEF Locked
      <4>4. Polling(r)'
        BY <1>1, <2>1, <2>2, <3>5, <4>1, <4>2 DEF Polling, Expired
      <4> QED
        BY <1>1, <2>1, <2>3, <4>3, <4>4 DEF LeasesApart, JobOk
    <3> QED
      BY <3>2, <3>4, <3>5
  <2> QED
    BY <2>4, <2>5
<1>6. ASSUME NEW r \in Request, Commits(r) PROVE LeasesApart'
  <2> DEFINE c == Head(todo[r])
  <2>1. PICK answer : Serves(r, answer)
    BY <1>6 DEF Commits
  <2>2. status[r] = "busy" /\ tx'[r] = NoTransaction /\ \A q \in Request : q # r => SameTx(q)
    BY <1>6 DEF Commits
  <2>3. /\ status'[r] # "idle"
        /\ Pending(r, "createAiWorkerJob")' => Pending(r, "createAiWorkerJob") /\ c.op # "createAiWorkerJob"
        /\ \A q \in Request : q # r =>
             status'[q] = status[q] /\ todo'[q] = todo[q] /\ \A op : Pending(q, op)' = Pending(q, op)
    BY <1>1, <2>1, <2>2, ServesPending DEF Once
  <2>4. tx'[r].done = 0
    BY <2>2, NoTransactionFacts
  <2>5. \A q \in Request : tx'[q].done > 0 => SameTx(q) /\ todo'[q] = todo[q]
    BY <2>2, <2>3, <2>4
  <2>6. /\ IsFiniteSet(DOMAIN db'.jobs) /\ \A j \in DOMAIN db'.jobs : JobOk(db'.jobs[j])
        /\ \/ DOMAIN db'.jobs = DOMAIN db.jobs
           \/ c.op = "createAiWorkerJob" /\ DOMAIN db'.jobs = DOMAIN db.jobs \cup {r}
        /\ \A q \in Request : q # r /\ Polls(q) =>
             \A j \in Locked(q) : j \in DOMAIN db.jobs => db'.jobs[j] = db.jobs[j]
    BY <1>6, CommitJobs
  <2>7. ASSUME NEW q \in Request PROVE Polling(q)'
    <3>1. CASE q = r
      BY <1>1, <2>2, <2>3, <2>4, <2>6, <3>1 DEF Polling, Polls, Doing
    <3>2. CASE q # r
      BY <1>1, <2>2, <2>3, <2>6, <3>2, PollingKept
    <3> QED
      BY <3>1, <3>2
  <2> QED
    BY <1>3, <2>5, <2>6, <2>7
<1>7. ASSUME NEW r \in Request, CallsOut(r) \/ Halts(r) PROVE LeasesApart'
  <2>1. /\ status[r] = "busy" /\ UNCHANGED db /\ Serves(r, {})
        /\ \A q \in Request : q # r => SameTx(q)
    BY <1>7, MovesServes DEF CallsOut, Halts, SameTx
  <2>2. tx'[r].done = 0
    <3>1. CASE CallsOut(r)
      BY <1>1, <3>1 DEF CallsOut, TxShape
    <3>2. CASE Halts(r)
      BY <3>2, NoTransactionFacts DEF Halts
    <3> QED
      BY <1>7, <3>1, <3>2
  <2>3. /\ status'[r] # "idle"
        /\ Pending(r, "createAiWorkerJob")' => Pending(r, "createAiWorkerJob")
        /\ \A q \in Request : q # r =>
             status'[q] = status[q] /\ todo'[q] = todo[q] /\ \A op : Pending(q, op)' = Pending(q, op)
    BY <1>1, <2>1, ServesPending DEF Once
  <2>4. \A q \in Request : tx'[q].done > 0 => SameTx(q) /\ todo'[q] = todo[q]
    BY <2>1, <2>2, <2>3
  <2>5. ASSUME NEW q \in Request PROVE Polling(q)'
    BY <1>1, <2>1, <2>3, <2>4, PollingKept
  <2> QED
    BY <1>1, <1>3, <2>1, <2>4, <2>5
<1>8. ASSUME NEW j \in DOMAIN db.jobs, RunsOut(j) PROVE LeasesApart'
  <2>1. UNCHANGED <<todo, status>> /\ \A q \in Request : SameTx(q)
    BY <1>8 DEF RunsOut
  <2>2. /\ DOMAIN db'.jobs = DOMAIN db.jobs
        /\ \A i \in DOMAIN db.jobs :
             /\ JobOk(db'.jobs[i]) /\ db'.jobs[i].val.status = db.jobs[i].val.status
             /\ Expired(db.jobs[i]) => Expired(db'.jobs[i])
    <3>1. "jobs" \in DOMAIN db /\ JobOk(db.jobs[j])
      BY <1>1 DEF Control, Tables
    <3>2. db'.jobs = [db.jobs EXCEPT ![j].val.expired = TRUE]
      BY <1>8, <3>1 DEF RunsOut
    <3>3. \A i \in DOMAIN db.jobs : i # j => db'.jobs[i] = db.jobs[i]
      BY <3>2
    <3>4. db'.jobs[j] = [db.jobs[j] EXCEPT !.val.expired = TRUE]
      BY <3>2
    <3>5. db'.jobs[j].val = [db.jobs[j].val EXCEPT !.expired = TRUE]
      BY <3>1, <3>4 DEF JobOk, RowFields
    <3>6. JobOk(db'.jobs[j]) /\ db'.jobs[j].val.status = db.jobs[j].val.status /\ db'.jobs[j].val.expired
      BY <3>1, <3>4, <3>5 DEF JobOk, RowFields, JobFields
    <3> QED
      BY <1>1, <3>2, <3>3, <3>6 DEF Expired
  <2>3. ASSUME NEW q \in Request PROVE Polling(q)'
    BY <1>1, <2>1, <2>2, PollingKept DEF Pending
  <2> QED
    BY <1>1, <1>3, <2>1, <2>2, <2>3
<1>9. CASE Rests
  <2>1. ASSUME NEW q \in Request PROVE Polling(q)'
    BY <1>1, <1>9, PollingKept DEF Rests, Pending, SameTx
  <2> QED
    BY <1>1, <1>3, <1>9, <2>1 DEF Rests, SameTx
<1> QED
  BY <1>4, <1>5, <1>6, <1>7, <1>8, <1>9, Kinds

(* No step gives a job whose lease lasts to another poll. *)
LEMMA LeaseKeptStep ==
  ASSUME IInv, [Next]_vars, NEW j \in DOMAIN db.jobs,
         db.jobs[j].val.status = "leased", ~db.jobs[j].val.expired
  PROVE  db'.jobs[j].val.attempt = db.jobs[j].val.attempt
<1>1. ASSUME NEW r \in Request, Commits(r) PROVE db'.jobs[j].val.attempt = db.jobs[j].val.attempt
  BY <1>1, CommitJobs
<1>2. ASSUME NEW i \in DOMAIN db.jobs, RunsOut(i) PROVE db'.jobs[j].val.attempt = db.jobs[j].val.attempt
  <2>1. "jobs" \in DOMAIN db /\ JobOk(db.jobs[i])
    BY DEF IInv, Control, Tables, LeasesApart
  <2>2. db'.jobs = [db.jobs EXCEPT ![i].val.expired = TRUE]
    BY <1>2, <2>1 DEF RunsOut
  <2>3. CASE i # j
    BY <2>2, <2>3
  <2>4. CASE i = j
    <3>1. db'.jobs[j] = [db.jobs[j] EXCEPT !.val.expired = TRUE]
      BY <2>2, <2>4
    <3>2. db'.jobs[j].val = [db.jobs[j].val EXCEPT !.expired = TRUE]
      BY <2>1, <2>4, <3>1 DEF JobOk, RowFields
    <3> QED
      BY <3>2
  <2> QED
    BY <2>3, <2>4
<1>3. ASSUME UNCHANGED db PROVE db'.jobs[j].val.attempt = db.jobs[j].val.attempt
  BY <1>3
<1>4. ASSUME NEW r \in Request, Arrive(r) \/ Looks(r) \/ CallsOut(r) \/ Halts(r) PROVE UNCHANGED db
  BY <1>4 DEF Arrive, Looks, CallsOut, Halts
<1>5. Rests => UNCHANGED db
  BY DEF Rests
<1> QED
  BY <1>1, <1>2, <1>3, <1>4, <1>5, Kinds

-----------------------------------------------------------------------------
(* The bodies of artifacts and their records.                                  *)

LEMMA BodiesInit == Init => BodiesKept
<1> SUFFICES ASSUME Init PROVE BodiesKept
  OBVIOUS
<1>1. \A r \in Request : status[r] = "idle" /\ DOMAIN todo[r] = {} 
  BY DEF Init
<1>2. db = Seed.db /\ bodies = Seed.bodies
  BY DEF Init
<1>3. /\ bodies = DOMAIN db.artifacts /\ IsFiniteSet(DOMAIN db.artifacts)
      /\ \A r \in Request : r \notin DOMAIN db.artifacts
  BY <1>2, SeedFacts, SeedAssumption
<1> QED
  BY <1>1, <1>3 DEF BodiesKept, Uploads, Purges, Pending

(* Where an upload stands. *)
LEMMA UploadOrder ==
  ASSUME Control, NEW r \in Request, status[r] = "busy"
  PROVE  /\ Head(todo[r]).op = "putBody" => Route(r) = "postArtifacts" /\ Len(todo[r]) > 1
         /\ Head(todo[r]).op = "createArtifact" => Route(r) = "postArtifacts" /\ ~Pending(r, "putBody")
         /\ Route(r) = "postArtifacts" /\ Head(todo[r]).op # "createArtifact" => Pending(r, "putBody")
<1>0. Head(todo[r]).op \in {"putBody", "createArtifact"} => Route(r) = "postArtifacts"
  BY PendingOps, BusyFacts
<1> SUFFICES ASSUME Route(r) = "postArtifacts"
             PROVE  /\ Head(todo[r]).op = "putBody" => Len(todo[r]) > 1
                    /\ Head(todo[r]).op = "createArtifact" => ~Pending(r, "putBody")
                    /\ Head(todo[r]).op # "createArtifact" => Pending(r, "putBody")
  BY <1>0
<1> DEFINE ops == Routes[Route(r)]
           m == Len(todo[r])
<1>1. /\ m \in Nat /\ m > 0 /\ DOMAIN todo[r] = 1..m
      /\ Head(todo[r]) = todo[r][1]
  BY BusyFacts
<1>2. /\ ops = <<"getRun", "putBody", "createArtifact">>
      /\ m <= Len(ops)
      /\ \A i \in 1..m : todo[r][i].op = ops[i + (Len(ops) - m)]
  BY <1>1, OnRouteFacts DEF GoodRoute
<1> HIDE DEF ops
<1>3. Len(ops) = 3 /\ ops[1] = "getRun" /\ ops[2] = "putBody" /\ ops[3] = "createArtifact"
  BY <1>2
<1> HIDE DEF m
<1>4. m \in 1..3
  BY <1>1, <1>2, <1>3
<1>5. todo[r][1].op = ops[1 + (3 - m)]
  BY <1>2, <1>3, <1>4
<1>6. CASE m = 1
  <2>1. todo[r][1].op = "createArtifact"
    BY <1>3, <1>5, <1>6
  <2> QED
    BY <1>1, <1>6, <2>1 DEF Pending
<1>7. CASE m = 2
  <2>1. todo[r][1].op = "putBody"
    BY <1>3, <1>5, <1>7
  <2> QED
    BY <1>1, <1>7, <2>1 DEF Pending, m
<1>8. CASE m = 3
  <2>1. todo[r][1].op = "getRun" /\ todo[r][2].op = "putBody"
    BY <1>2, <1>3, <1>8
  <2> QED
    BY <1>1, <1>8, <2>1 DEF Pending
<1> QED
  BY <1>4, <1>6, <1>7, <1>8

(* A purge goes from the body to the record, and keeps its calls. *)
LEMMA PurgeOrder ==
  ASSUME Control, NEW r \in Request, status[r] = "busy", Moves(r)
  PROVE  /\ \A i \in DOMAIN todo'[r] : todo'[r][i].op \in {"deleteBody", "deleteArtifact"} =>
              i + 1 \in DOMAIN todo[r] /\ todo'[r][i] = todo[r][i + 1]
         /\ status'[r] = "busy" /\ Head(todo'[r]).op = "deleteArtifact" =>
              Head(todo[r]).op = "deleteBody" /\ Head(todo[r]).on = Head(todo'[r]).on
<1>1. CASE Ends(r)
  <2>1. DOMAIN todo'[r] = {} /\ status'[r] # "busy"
    BY <1>1 DEF Ends
  <2> QED
    BY <2>1
<1>2. CASE GoesOn(r)
  <2> DEFINE n == Len(todo'[r])
  <2>1. /\ n \in Nat /\ n > 0 /\ todo'[r] = [i \in 1..n |-> todo'[r][i]] /\ DOMAIN todo[r] = 1..(n + 1)
        /\ \A i \in 1..n : /\ todo'[r][i].op = todo[r][i + 1].op
                           /\ Head(todo[r]).op \in PurgeOps => todo'[r][i] = todo[r][i + 1]
    <3>1. /\ n \in Nat /\ n > 0 /\ n = Len(todo[r]) - 1 /\ todo'[r] = [i \in 1..n |-> todo'[r][i]]
          /\ \A i \in 1..n : /\ todo'[r][i].op = todo[r][i + 1].op
                             /\ Head(todo[r]).op \in PurgeOps => todo'[r][i] = todo[r][i + 1]
      BY <1>2 DEF GoesOn
    <3>2. Len(todo[r]) \in Nat /\ DOMAIN todo[r] = 1..Len(todo[r])
      BY BusyFacts
    <3> HIDE DEF n
    <3>3. Len(todo[r]) = n + 1
      BY <3>1, <3>2
    <3> QED
      BY <3>1, <3>2, <3>3
  <2>2. DOMAIN todo'[r] = 1..n /\ Head(todo'[r]) = todo'[r][1]
    <3> HIDE DEF n
    <3> QED
      BY <2>1, ListFacts
  <2> HIDE DEF n
  <2>3. ASSUME NEW i \in 1..n, todo'[r][i].op \in {"deleteBody", "deleteArtifact"}
        PROVE  i + 1 \in DOMAIN todo[r] /\ todo'[r][i] = todo[r][i + 1] /\ Purging(r)
    <3>1. i + 1 \in DOMAIN todo[r] /\ todo[r][i + 1].op \in {"deleteBody", "deleteArtifact"}
      BY <2>1, <2>3
    <3>2. Purging(r)
      BY <3>1, PendingOps
    <3>3. Head(todo[r]).op \in PurgeOps
      BY <3>2, BusyFacts DEF Purging
    <3> QED
      BY <2>1, <3>1, <3>2, <3>3
  <2>4. ASSUME Head(todo'[r]).op = "deleteArtifact"
        PROVE  Head(todo[r]).op = "deleteBody" /\ Head(todo[r]).on = Head(todo'[r]).on
    <3>1. 1 \in 1..n /\ 1 + 1 = 2
      BY <2>1
    <3>2. 2 \in DOMAIN todo[r] /\ todo'[r][1] = todo[r][2] /\ Purging(r) /\ todo[r][2].op = "deleteArtifact"
      BY <2>2, <2>3, <2>4, <3>1
    <3>3. todo[r][1].op = "deleteBody" /\ todo[r][1].on = todo[r][2].on
      BY <3>2 DEF Purging
    <3> QED
      BY <2>2, <3>2, <3>3, BusyFacts
  <2> QED
    BY <2>2, <2>3, <2>4
<1> QED
  BY <1>1, <1>2 DEF Moves

LEMMA MadeStays ==
  ASSUME Control, NEW r \in Request, status[r] = "busy", NEW answer, Serves(r, answer), NEW a, Made(a)
  PROVE  Made(a)'
<1>1. /\ status'[r] # "idle"
      /\ \A op \in {"putBody", "createArtifact"} : Pending(r, op)' => Pending(r, op)
      /\ \A q \in Request : q # r => status'[q] = status[q] /\ \A op : Pending(q, op)' = Pending(q, op)
  BY ServesPending DEF Once
<1> QED
  BY <1>1 DEF Made

(* A served call keeps what is known of uploads if it stores only what its     *)
(* name says.                                                                  *)
LEMMA UploadsStep ==
  ASSUME Control, \A q \in Request : Uploads(q), NEW r \in Request, status[r] = "busy",
         NEW answer, Serves(r, answer),
         bodies' \subseteq bodies \cup {r}, r \in bodies' => r \in bodies \/ Head(todo[r]).op = "putBody",
         DOMAIN db'.artifacts \subseteq DOMAIN db.artifacts \cup {r},
         r \in DOMAIN db'.artifacts => r \in DOMAIN db.artifacts \/ Head(todo[r]).op = "createArtifact",
         \A q \in Request : Pending(q, "createArtifact") /\ q \in bodies => q \in bodies',
         Head(todo[r]).op = "putBody" => r \in bodies' \/ Ends(r)
  PROVE  \A q \in Request : Uploads(q)'
<1>1. /\ status'[r] # "idle"
      /\ \A op \in {"putBody", "createArtifact"} : Pending(r, op)' => Pending(r, op) /\ Head(todo[r]).op # op
      /\ \A q \in Request : q # r => status'[q] = status[q] /\ \A op : Pending(q, op)' = Pending(q, op)
  BY ServesPending DEF Once
<1>2. \A q \in Request : Route(q)' = Route(q)
  BY DEF Serves, Route
<1>3. ASSUME NEW q \in Request, q # r PROVE Uploads(q)'
  BY <1>1, <1>2, <1>3 DEF Uploads
<1>4. ASSUME Route(r) # "postArtifacts" \/ Pending(r, "putBody")'
      PROVE  r \notin bodies' \cup DOMAIN db'.artifacts
  <2>1. r \notin bodies \cup DOMAIN db.artifacts
    BY <1>1, <1>4 DEF Uploads
  <2>2. Head(todo[r]).op \notin {"putBody", "createArtifact"}
    BY <1>1, <1>4, UploadOrder
  <2> QED
    BY <2>1, <2>2
<1>5. ASSUME Pending(r, "createArtifact")'
      PROVE  r \notin DOMAIN db'.artifacts /\ (r \in bodies' \/ Pending(r, "putBody")')
  <2>1. /\ Pending(r, "createArtifact") /\ Head(todo[r]).op # "createArtifact"
        /\ r \notin DOMAIN db.artifacts /\ (r \in bodies \/ Pending(r, "putBody"))
    BY <1>1, <1>5 DEF Uploads
  <2>2. r \notin DOMAIN db'.artifacts
    BY <2>1
  <2>3. Moves(r)
    <3>1. CASE Head(todo[r]).op = "listArtifactsBefore" /\ Begins(r, answer)
      <4>1. UNCHANGED asked /\ Alone(r)
        BY DEF Serves
      <4>2. ~Pending(r, "createArtifact")'
        BY <3>1, <4>1, BeginsShape DEF Once
      <4> QED
        BY <1>5, <4>2
    <3> QED
      BY <3>1 DEF Serves
  <2>4. ~Ends(r)
    BY <1>5 DEF Ends, Pending
  <2>5. GoesOn(r)
    BY <2>3, <2>4 DEF Moves
  <2>6. CASE r \in bodies
    BY <2>1, <2>2, <2>6
  <2>7. CASE Head(todo[r]).op = "putBody"
    BY <2>2, <2>4, <2>7
  <2>8. CASE Pending(r, "putBody") /\ Head(todo[r]).op # "putBody"
    BY <2>2, <2>3, <2>5, <2>8, MovesPending
  <2> QED
    BY <2>1, <2>6, <2>7, <2>8
<1>6. Uploads(r)'
  BY <1>1, <1>2, <1>4, <1>5 DEF Uploads
<1> QED
  BY <1>3, <1>6

(* It keeps what is known of purges if it leaves alone the artifacts that are  *)
(* made.                                                                       *)
LEMMA PurgesStep ==
  ASSUME Control, \A q \in Request : Purges(q), NEW r \in Request, status[r] = "busy", Moves(r), UNCHANGED asked,
         \A a : Made(a) /\ a \in bodies' => a \in bodies,
         \A a : Made(a) /\ a \in DOMAIN db'.artifacts =>
           a \in DOMAIN db.artifacts /\ db'.artifacts[a].org = db.artifacts[a].org,
         Head(todo[r]).op = "deleteBody" => Head(todo[r]).on \notin bodies' \/ Ends(r)
  PROVE  \A q \in Request : Purges(q)'
<1>1. Serves(r, {}) /\ Alone(r)
  BY MovesServes DEF Moves
<1>2. \A a : Made(a) => Made(a)'
  BY <1>1, MadeStays
<1>3. ASSUME NEW q \in Request, q # r PROVE Purges(q)'
  <2>1. todo'[q] = todo[q] /\ status'[q] = status[q]
    BY <1>1, <1>3 DEF Alone
  <2>2. \A i \in DOMAIN todo[q] : todo[q][i].op \in {"deleteBody", "deleteArtifact"} =>
          /\ Made(todo[q][i].on)
          /\ todo[q][i].on \in DOMAIN db.artifacts => db.artifacts[todo[q][i].on].org = todo[q][i].org
    BY DEF Purges
  <2>3. status[q] = "busy" /\ Head(todo[q]).op = "deleteArtifact" => Head(todo[q]).on \notin bodies'
    <3>1. status[q] = "busy" => 1 \in DOMAIN todo[q] /\ Head(todo[q]) = todo[q][1]
      BY BusyFacts
    <3> QED
      BY <2>2, <3>1 DEF Purges
  <2> QED
    BY <1>2, <2>1, <2>2, <2>3 DEF Purges
<1>4. Purges(r)'
  <2>1. ASSUME NEW i \in DOMAIN todo'[r], todo'[r][i].op \in {"deleteBody", "deleteArtifact"},
               NEW a, a = todo'[r][i].on
        PROVE  Made(a)' /\ (a \in DOMAIN db'.artifacts => db'.artifacts[a].org = todo'[r][i].org)
    <3>1. i + 1 \in DOMAIN todo[r] /\ todo'[r][i] = todo[r][i + 1]
      BY <2>1, PurgeOrder
    <3>2. /\ Made(todo[r][i + 1].on)
          /\ todo[r][i + 1].on \in DOMAIN db.artifacts =>
               db.artifacts[todo[r][i + 1].on].org = todo[r][i + 1].org
      BY <2>1, <3>1 DEF Purges
    <3>3. Made(a) /\ (a \in DOMAIN db.artifacts => db.artifacts[a].org = todo'[r][i].org)
      BY <2>1, <3>1, <3>2
    <3> QED
      BY <1>2, <3>3
  <2>2. status'[r] = "busy" /\ Head(todo'[r]).op = "deleteArtifact" => Head(todo'[r]).on \notin bodies'
    BY PurgeOrder DEF Ends
  <2> QED
    BY <2>1, <2>2 DEF Purges, Made
<1> QED
  BY <1>3, <1>4

(* A body without a record is of an upload under way or failed. *)
LEMMA OrphansStep ==
  ASSUME Control, NEW r \in Request, Uploads(r), status[r] = "busy", NEW answer, Serves(r, answer),
         \A b \in bodies \ DOMAIN db.artifacts :
           b \in Request /\ Route(b) = "postArtifacts" /\ status[b] \in {"busy", "failed"},
         bodies' \subseteq bodies \cup {r},
         r \in bodies' => r \in bodies \/ (Head(todo[r]).op = "putBody" /\ status'[r] \in {"busy", "failed"}),
         \A b \in bodies' : b \in DOMAIN db.artifacts => b \in DOMAIN db'.artifacts,
         Head(todo[r]).op = "createArtifact" => r \in DOMAIN db'.artifacts \/ status'[r] = "failed"
  PROVE  \A b \in bodies' \ DOMAIN db'.artifacts :
           b \in Request /\ Route(b)' = "postArtifacts" /\ status'[b] \in {"busy", "failed"}
<1> SUFFICES ASSUME NEW b \in bodies' \ DOMAIN db'.artifacts
             PROVE  b \in Request /\ Route(b) = "postArtifacts" /\ status'[b] \in {"busy", "failed"}
  BY DEF Serves, Route
<1>1. b \notin DOMAIN db.artifacts
  OBVIOUS
<1>2. CASE b # r
  BY <1>1, <1>2 DEF Serves, Alone
<1>3. CASE b = r /\ r \notin bodies
  BY <1>3, UploadOrder
<1>4. CASE b = r /\ r \in bodies
  <2>1. Route(r) = "postArtifacts" /\ ~Pending(r, "putBody")
    BY <1>1, <1>4 DEF Uploads
  <2>2. Head(todo[r]).op = "createArtifact"
    BY <2>1, UploadOrder
  <2> QED
    BY <1>4, <2>1, <2>2
<1> QED
  BY <1>2, <1>3, <1>4

LEMMA DeletingKept ==
  ASSUME NEW r \in Request, NEW q \in Request, q # r, NEW a, Deleting(q, a), Alone(r), UNCHANGED asked
  PROVE  Deleting(q, a)'
BY DEF Deleting, Alone, Route

(* A served call keeps bodies and records together if it stores and deletes    *)
(* only what its name says, and a record without a body is what it deletes.    *)
LEMMA BodiesServed ==
  ASSUME Control, BodiesKept, NEW r \in Request, status[r] = "busy", Moves(r), UNCHANGED asked,
         bodies' \subseteq bodies \cup {r},
         r \in bodies' => r \in bodies \/ (Head(todo[r]).op = "putBody" /\ status'[r] \in {"busy", "failed"}),
         DOMAIN db'.artifacts \subseteq DOMAIN db.artifacts \cup {r},
         r \in DOMAIN db'.artifacts => r \in DOMAIN db.artifacts \/ Head(todo[r]).op = "createArtifact",
         \A a \in DOMAIN db.artifacts : a \in DOMAIN db'.artifacts => db'.artifacts[a].org = db.artifacts[a].org,
         \A q \in Request : Pending(q, "createArtifact") /\ q \in bodies => q \in bodies',
         Head(todo[r]).op = "putBody" => r \in bodies' \/ Ends(r),
         Head(todo[r]).op = "createArtifact" => r \in DOMAIN db'.artifacts \/ status'[r] = "failed",
         Head(todo[r]).op = "deleteBody" => Head(todo[r]).on \notin bodies' \/ Ends(r),
         \A b \in bodies' : b \in DOMAIN db.artifacts => b \in DOMAIN db'.artifacts,
         \A a \in DOMAIN db'.artifacts \ bodies' :
           \/ a \in DOMAIN db.artifacts \ bodies /\ ~(Head(todo[r]).op = "deleteArtifact" /\ Head(todo[r]).on = a)
           \/ Deleting(r, a)'
  PROVE  BodiesKept'
<1> DEFINE c == Head(todo[r])
<1>1. Serves(r, {}) /\ Alone(r) /\ Pending(r, c.op)
  BY MovesServes, ServesPending DEF Moves
<1>2. /\ IsFiniteSet(DOMAIN db.artifacts)
      /\ \A q \in Request : Uploads(q) /\ Purges(q)
      /\ \A a \in DOMAIN db.artifacts \ bodies : \E q \in Request : Deleting(q, a)
      /\ \A b \in bodies \ DOMAIN db.artifacts :
           b \in Request /\ Route(b) = "postArtifacts" /\ status[b] \in {"busy", "failed"}
  BY DEF BodiesKept
<1>3. IsFiniteSet(DOMAIN db'.artifacts)
  BY <1>2, FS_AddElement, FS_Subset
<1>4. \A q \in Request : Uploads(q)'
  BY <1>1, <1>2, UploadsStep
<1>5. \A q \in Request : Purges(q)'
  <2>1. c.op \in {"putBody", "createArtifact"} => ~Made(r)
    BY <1>1 DEF Made
  <2>2. \A a : Made(a) /\ a \in bodies' => a \in bodies
    BY <2>1
  <2>3. \A a : Made(a) /\ a \in DOMAIN db'.artifacts =>
          a \in DOMAIN db.artifacts /\ db'.artifacts[a].org = db.artifacts[a].org
    BY <2>1
  <2> QED
    BY <1>2, <2>2, <2>3, PurgesStep
<1>6. \A b \in bodies' \ DOMAIN db'.artifacts :
        b \in Request /\ Route(b)' = "postArtifacts" /\ status'[b] \in {"busy", "failed"}
  BY <1>1, <1>2, OrphansStep
<1>7. ASSUME NEW a \in DOMAIN db'.artifacts \ bodies' PROVE \E q \in Request : Deleting(q, a)'
  <2>1. CASE Deleting(r, a)'
    BY <2>1
  <2>2. CASE a \in DOMAIN db.artifacts \ bodies /\ ~(c.op = "deleteArtifact" /\ c.on = a)
    <3>1. PICK q \in Request : Deleting(q, a)
      BY <1>2, <2>2
    <3>2. q # r
      BY <2>2, <3>1 DEF Deleting
    <3> QED
      BY <1>1, <3>1, <3>2, DeletingKept
  <2> QED
    BY <1>7, <2>1, <2>2
<1> QED
  BY <1>3, <1>4, <1>5, <1>6, <1>7 DEF BodiesKept

LEMMA BodiesSame ==
  ASSUME BodiesKept, UNCHANGED <<asked, todo, status, bodies>>, db'.artifacts = db.artifacts
  PROVE  BodiesKept'
<1>1. \A q \in Request : /\ Route(q)' = Route(q) /\ \A op : Pending(q, op)' = Pending(q, op)
                         /\ \A a : Deleting(q, a)' = Deleting(q, a)
  BY DEF Route, Pending, Deleting
<1>2. \A a : Made(a)' = Made(a)
  BY <1>1 DEF Made
<1>3. \A q \in Request : Uploads(q)' = Uploads(q)
  BY <1>1 DEF Uploads
<1>4. \A q \in Request : Purges(q)' = Purges(q)
  BY <1>2 DEF Purges, Made, Pending
<1> QED
  BY <1>1, <1>3, <1>4 DEF BodiesKept

(* A purge begins with records whose uploads are over. *)
LEMMA PurgeBegins ==
  ASSUME Control, BodiesKept, NEW r \in Request, status[r] = "busy", Head(todo[r]).op = "listArtifactsBefore",
         NEW answer, Serves(r, answer), Begins(r, answer), UNCHANGED bodies, db'.artifacts = db.artifacts,
         \A y \in answer : y.id \in DOMAIN db.artifacts /\ db.artifacts[y.id].org = Head(todo[r]).org
  PROVE  BodiesKept'
<1>1. Alone(r) /\ UNCHANGED asked
  BY DEF Serves
<1>2. /\ IsFiniteSet(DOMAIN db.artifacts)
      /\ \A q \in Request : Uploads(q) /\ Purges(q)
      /\ \A a \in DOMAIN db.artifacts \ bodies : \E q \in Request : Deleting(q, a)
      /\ \A b \in bodies \ DOMAIN db.artifacts :
           b \in Request /\ Route(b) = "postArtifacts" /\ status[b] \in {"busy", "failed"}
  BY DEF BodiesKept
<1>3. \A q \in Request : Uploads(q)'
  BY <1>2, UploadsStep
<1>4. \A b \in bodies' \ DOMAIN db'.artifacts :
        b \in Request /\ Route(b)' = "postArtifacts" /\ status'[b] \in {"busy", "failed"}
  BY <1>2, OrphansStep
<1>5. ASSUME NEW a \in DOMAIN db'.artifacts \ bodies' PROVE \E q \in Request : Deleting(q, a)'
  <2>1. PICK q \in Request : Deleting(q, a)
    BY <1>2
  <2>2. q # r
    BY <2>1 DEF Deleting
  <2> QED
    BY <1>1, <2>1, <2>2, DeletingKept
<1>6. \A a \in DOMAIN db.artifacts : Made(a)
  BY <1>2 DEF Uploads, Made
<1>7. \A a : Made(a) => Made(a)'
  BY MadeStays
<1>8. ASSUME NEW q \in Request, q # r PROVE Purges(q)'
  <2>1. todo'[q] = todo[q] /\ status'[q] = status[q]
    BY <1>1, <1>8 DEF Alone
  <2>2. \A i \in DOMAIN todo[q] : todo[q][i].op \in {"deleteBody", "deleteArtifact"} =>
          /\ Made(todo[q][i].on)
          /\ todo[q][i].on \in DOMAIN db.artifacts => db.artifacts[todo[q][i].on].org = todo[q][i].org
    BY <1>2 DEF Purges
  <2>3. status[q] = "busy" /\ Head(todo[q]).op = "deleteArtifact" => Head(todo[q]).on \notin bodies
    BY <1>2 DEF Purges
  <2> QED
    BY <1>7, <2>1, <2>2, <2>3 DEF Purges
<1>9. Purges(r)'
  <2>1. Head(todo[r]).org = asked[r].args.org
    BY PendingOps, BusyFacts DEF Listing
  <2>2. DOMAIN todo'[r] = 1..Len(todo'[r]) /\ Head(todo'[r]) = todo'[r][1]
    BY <1>1, BeginsShape
  <2>3. ASSUME NEW i \in DOMAIN todo'[r], NEW a, a = todo'[r][i].on
        PROVE  Made(a)' /\ (a \in DOMAIN db'.artifacts => db'.artifacts[a].org = todo'[r][i].org)
    <3>1. todo'[r][i].org = asked[r].args.org /\ \E y \in answer : a = y.id
      BY <2>2, <2>3 DEF Begins, PurgeList
    <3>2. a \in DOMAIN db.artifacts /\ db.artifacts[a].org = asked[r].args.org
      BY <2>1, <3>1
    <3> QED
      BY <1>6, <1>7, <3>1, <3>2
  <2>4. Head(todo'[r]).op = "deleteBody"
    BY <2>2 DEF Begins, PurgeList
  <2> QED
    BY <2>3, <2>4 DEF Purges, Made
<1> QED
  BY <1>2, <1>3, <1>4, <1>5, <1>8, <1>9 DEF BodiesKept

LEMMA BodiesStep == IInv /\ [Next]_vars => BodiesKept'
<1> SUFFICES ASSUME IInv, [Next]_vars PROVE BodiesKept'
  OBVIOUS
<1>1. /\ Control /\ BodiesKept /\ Tables \subseteq DOMAIN db
      /\ IsFiniteSet(DOMAIN db.artifacts)
      /\ \A q \in Request : Uploads(q) /\ Purges(q)
      /\ \A a \in DOMAIN db.artifacts \ bodies : \E q \in Request : Deleting(q, a)
  BY DEF IInv, Control, BodiesKept
<1>2. ASSUME NEW r \in Request, Arrive(r) PROVE BodiesKept'
  <2> DEFINE ops == Routes[Route(r)]
  <2>1. /\ UNCHANGED <<asked, db, bodies>> /\ Alone(r) /\ status[r] = "idle" /\ status'[r] = "busy"
        /\ GoodRoute(Route(r), ops)
        /\ DOMAIN todo'[r] = DOMAIN ops /\ \A i \in DOMAIN todo'[r] : todo'[r][i].op = ops[i]
    BY <1>1, <1>2, ArriveShape DEF Arrive
  <2>2. \A q \in Request : Route(q)' = Route(q)
    BY <2>1 DEF Route
  <2>3. \A q \in Request : q # r => /\ todo'[q] = todo[q] /\ status'[q] = status[q]
                                    /\ \A op : Pending(q, op)' = Pending(q, op)
    BY <2>1 DEF Alone, Pending
  <2> HIDE DEF ops
  <2>4. r \notin bodies \cup DOMAIN db.artifacts
    BY <1>1, <2>1 DEF Uploads
  <2>5. Pending(r, "createArtifact")' => Pending(r, "putBody")'
    <3> SUFFICES ASSUME NEW i \in DOMAIN ops, ops[i] = "createArtifact" PROVE Pending(r, "putBody")'
      BY <2>1 DEF Pending
    <3>1. Route(r) = "postArtifacts"
      BY <2>1 DEF GoodRoute
    <3>2. ops = <<"getRun", "putBody", "createArtifact">>
      BY <2>1, <3>1 DEF GoodRoute
    <3>3. 2 \in DOMAIN ops /\ ops[2] = "putBody"
      BY <3>2
    <3> QED
      BY <2>1, <3>3 DEF Pending
  <2>6. \A a : Made(a) => a # r /\ Made(a)'
    BY <2>1, <2>3 DEF Made
  <2>7. ASSUME NEW q \in Request PROVE Uploads(q)'
    <3>1. CASE q = r
      BY <2>1, <2>4, <2>5, <3>1 DEF Uploads
    <3>2. CASE q # r
      BY <1>1, <2>1, <2>2, <2>3, <3>2 DEF Uploads
    <3> QED
      BY <3>1, <3>2
  <2>8. Purges(r)'
    <3>1. \A i \in DOMAIN todo'[r] : todo'[r][i].op \notin {"deleteBody", "deleteArtifact"}
      BY <2>1 DEF GoodRoute
    <3>2. 1 \in DOMAIN todo'[r]
      BY <2>1 DEF GoodRoute
    <3>3. Head(todo'[r]) = todo'[r][1]
      <4>1. Shape(r)'
        BY <1>1, <1>2, ArriveShape
      <4>2. Len(todo'[r]) \in Nat /\ todo'[r] = [i \in 1..Len(todo'[r]) |-> todo'[r][i]] /\ Len(todo'[r]) > 0
        BY <2>1, <4>1 DEF Shape
      <4> QED
        BY <4>2, ListFacts
    <3> QED
      BY <3>1, <3>2, <3>3 DEF Purges
  <2>9. ASSUME NEW q \in Request, q # r PROVE Purges(q)'
    <3>1. \A i \in DOMAIN todo[q] : todo[q][i].op \in {"deleteBody", "deleteArtifact"} =>
            /\ Made(todo[q][i].on)
            /\ todo[q][i].on \in DOMAIN db.artifacts => db.artifacts[todo[q][i].on].org = todo[q][i].org
      BY <1>1 DEF Purges
    <3>2. status[q] = "busy" /\ Head(todo[q]).op = "deleteArtifact" => Head(todo[q]).on \notin bodies
      BY <1>1 DEF Purges
    <3> QED
      BY <2>1, <2>3, <2>6, <2>9, <3>1, <3>2 DEF Purges
  <2>10. \A a \in DOMAIN db.artifacts \ bodies : \E q \in Request : Deleting(q, a)'
    <3> SUFFICES ASSUME NEW a \in DOMAIN db.artifacts \ bodies PROVE \E q \in Request : Deleting(q, a)'
      OBVIOUS
    <3>1. PICK q \in Request : Deleting(q, a)
      BY <1>1
    <3>2. q # r
      BY <2>1, <3>1 DEF Deleting
    <3> QED
      BY <2>1, <3>1, <3>2, DeletingKept
  <2>11. \A b \in bodies \ DOMAIN db.artifacts :
           b \in Request /\ Route(b)' = "postArtifacts" /\ status'[b] \in {"busy", "failed"}
    BY <1>1, <2>1, <2>2, <2>3 DEF BodiesKept
  <2> QED
    BY <1>1, <2>1, <2>7, <2>8, <2>9, <2>10, <2>11 DEF BodiesKept
<1>3. ASSUME NEW r \in Request, Looks(r) PROVE BodiesKept'
  BY <1>1, <1>3, BodiesSame DEF Looks
<1>4. ASSUME NEW r \in Request, Commits(r) PROVE BodiesKept'
  <2> DEFINE c == Head(todo[r])
             new == Statement(c, db, tx[r])
  <2>1. PICK answer : Serves(r, answer) /\ (c.op = "listArtifactsBefore" => answer = new.answer)
    BY <1>4 DEF Commits
  <2>2. /\ status[r] = "busy" /\ UNCHANGED <<bodies, asked>> /\ c.id = r /\ Pending(r, c.op)
        /\ c.op # Audit => db' = new.store
        /\ c.op \notin {"createArtifact", "deleteArtifact"} => db'.artifacts = db.artifacts
    BY <1>1, <1>4, <2>1, BusyFacts, ServesPending DEF Commits, Serves
  <2>3. c.op # "putBody" /\ c.op # "deleteBody"
    BY <1>4 DEF Commits
  <2>4. CASE c.op = "listArtifactsBefore" /\ Begins(r, answer)
    <3>1. \A y \in new.answer : y.id \in DOMAIN db.artifacts /\ db.artifacts[y.id].org = c.org
      <4> HIDE DEF c
      <4> QED
        BY <1>1, <2>4, ListingStatement
    <3> QED
      BY <1>1, <2>1, <2>2, <2>4, <3>1, PurgeBegins
  <2>5. CASE Moves(r) /\ c.op \notin {"createArtifact", "deleteArtifact"}
    BY <1>1, <2>2, <2>3, <2>5, BodiesServed
  <2>6. CASE Moves(r) /\ c.op = "createArtifact"
    <3>1. r \in bodies /\ r \notin DOMAIN db.artifacts
      BY <1>1, <2>2, <2>6, UploadOrder DEF Uploads
    <3>2. /\ DOMAIN db'.artifacts = DOMAIN db.artifacts \cup {r}
          /\ \A i \in DOMAIN db.artifacts : i # r => db'.artifacts[i] = db.artifacts[i]
      <4>1. c.op # Audit
        BY <2>6 DEF Audit
      <4> HIDE DEF c
      <4> QED
        BY <1>1, <2>2, <2>6, <4>1, CreateArtifactStatement
    <3> QED
      BY <1>1, <2>2, <2>6, <3>1, <3>2, BodiesServed
  <2>7. CASE Moves(r) /\ c.op = "deleteArtifact"
    <3>1. /\ c.on \notin bodies
          /\ c.on \in DOMAIN db.artifacts => db.artifacts[c.on].org = c.org
      BY <1>1, <2>2, <2>7, BusyFacts DEF Purges
    <3>2. /\ DOMAIN db'.artifacts = DOMAIN db.artifacts \ {c.on}
          /\ \A i \in DOMAIN db'.artifacts : db'.artifacts[i] = db.artifacts[i]
      <4>1. c.op # Audit
        BY <2>7 DEF Audit
      <4> HIDE DEF c
      <4> DEFINE rows == Statement(c, db, tx[r]).store.artifacts
      <4>2. DOMAIN rows = DOMAIN db.artifacts \ {c.on} /\ \A i \in DOMAIN rows : rows[i] = db.artifacts[i]
        BY <1>1, <2>7, <3>1, DeleteArtifactStatement
      <4>3. db'.artifacts = rows
        BY <2>2, <4>1
      <4> HIDE DEF rows
      <4> QED
        BY <4>2, <4>3
    <3> QED
      BY <1>1, <2>2, <2>7, <3>1, <3>2, BodiesServed
  <2> QED
    BY <2>1, <2>4, <2>5, <2>6, <2>7 DEF Serves
<1>5. ASSUME NEW r \in Request, CallsOut(r) PROVE BodiesKept'
  <2> DEFINE c == Head(todo[r])
  <2>1. /\ status[r] = "busy" /\ UNCHANGED <<db, asked>> /\ Moves(r)
        /\ c.op \notin {"createArtifact", "deleteArtifact"}
        /\ c.op \in {"putBody", "deleteBody"} /\ Len(todo[r]) > 1 => GoesOn(r) \/ status'[r] = "failed"
        /\ bodies' = IF c.op = "putBody" THEN bodies \cup {r}
                     ELSE IF c.op = "deleteBody" THEN bodies \ {c.on} ELSE bodies
    BY <1>5 DEF CallsOut
  <2>2. CASE c.op \notin {"putBody", "deleteBody"}
    BY <1>1, <2>1, <2>2, BodiesServed
  <2>3. CASE c.op = "putBody"
    <3>1. status'[r] \in {"busy", "failed"}
      BY <1>1, <2>1, <2>3, UploadOrder DEF GoesOn
    <3> QED
      BY <1>1, <2>1, <2>3, <3>1, BodiesServed
  <2>4. CASE c.op = "deleteBody"
    <3>1. /\ 1 \in DOMAIN todo[r] /\ DOMAIN todo[r] = 1..Len(todo[r]) /\ Len(todo[r]) \in Nat /\ c = todo[r][1]
      BY <1>1, <2>1, BusyFacts
    <3>2. Route(r) = "postPurge" /\ Purging(r) /\ Made(c.on)
      BY <1>1, <2>1, <2>4, <3>1, PendingOps DEF Purges
    <3>3. 2 \in DOMAIN todo[r] /\ todo[r][2].op = "deleteArtifact" /\ todo[r][2].on = c.on
      <4>1. 1 + 1 = 2
        OBVIOUS
      <4> QED
        BY <2>4, <3>1, <3>2, <4>1 DEF Purging
    <3>4. GoesOn(r) \/ status'[r] = "failed"
      BY <2>1, <2>4, <3>1, <3>3
    <3>5. ASSUME NEW a, a = c.on PROVE Deleting(r, a)'
      <4>1. Route(r)' = "postPurge"
        BY <2>1, <3>2 DEF Route
      <4>2. CASE status'[r] = "failed"
        BY <4>1, <4>2 DEF Deleting
      <4>3. CASE GoesOn(r)
        <5>1. Len(todo'[r]) \in Nat /\ Len(todo'[r]) > 0 /\ todo'[r] = [i \in 1..Len(todo'[r]) |-> todo'[r][i]]
          BY <4>3 DEF GoesOn
        <5>2. Head(todo'[r]) = todo'[r][1] /\ 1 \in 1..Len(todo'[r])
          BY <5>1, ListFacts
        <5>3. c.op \in PurgeOps /\ 1 + 1 = 2
          BY <2>4 DEF PurgeOps
        <5>4. todo'[r][1] = todo[r][2]
          BY <4>3, <5>2, <5>3 DEF GoesOn
        <5> QED
          BY <3>3, <3>5, <4>1, <4>3, <5>2, <5>4 DEF Deleting, GoesOn
      <4> QED
        BY <3>4, <4>2, <4>3
    <3>6. \A q \in Request : Pending(q, "createArtifact") /\ q \in bodies => q \in bodies'
      BY <2>1, <2>4, <3>2 DEF Made
    <3> QED
      BY <1>1, <2>1, <2>4, <3>5, <3>6, BodiesServed
  <2> QED
    BY <2>2, <2>3, <2>4
<1>6. ASSUME NEW r \in Request, Halts(r) PROVE BodiesKept'
  <2>1. /\ status[r] = "busy" /\ UNCHANGED <<db, bodies, asked>> /\ Moves(r) /\ Ends(r) /\ status'[r] = "failed"
    BY <1>6 DEF Halts
  <2>2. Head(todo[r]).op = "deleteArtifact" => Route(r) = "postPurge"
    BY <1>1, <2>1, PendingOps, BusyFacts
  <2>3. \A a : Head(todo[r]).op = "deleteArtifact" => Deleting(r, a)'
    BY <2>1, <2>2 DEF Deleting, Route
  <2> QED
    BY <1>1, <2>1, <2>3, BodiesServed
<1>7. ASSUME NEW j \in DOMAIN db.jobs, RunsOut(j) PROVE BodiesKept'
  <2>1. db'.artifacts = db.artifacts
    BY <1>1, <1>7 DEF RunsOut, Tables
  <2> QED
    BY <1>1, <1>7, <2>1, BodiesSame DEF RunsOut
<1>8. CASE Rests
  BY <1>1, <1>8, BodiesSame DEF Rests
<1> QED
  BY <1>2, <1>3, <1>4, <1>5, <1>6, <1>7, <1>8, Kinds

(* While the purge of a record without a body stands at that record, its call  *)
(* to delete it is still to come.                                              *)
LEMMA BodiesSafe == Control /\ BodiesKept => BodiesAndRecords
<1> SUFFICES ASSUME Control, BodiesKept PROVE BodiesAndRecords
  OBVIOUS
<1>1. ASSUME NEW a \in DOMAIN db.artifacts \ bodies
      PROVE  \E r \in Request :
               /\ asked[r].route = "postPurge"
               /\ status[r] = "failed"
                  \/ \E i \in DOMAIN todo[r] : todo[r][i].op = "deleteArtifact" /\ todo[r][i].on = a
  <2>1. PICK r \in Request : Deleting(r, a)
    BY DEF BodiesKept
  <2>2. status[r] = "busy" => 1 \in DOMAIN todo[r] /\ Head(todo[r]) = todo[r][1]
    BY BusyFacts
  <2> QED
    BY <2>1, <2>2 DEF Deleting, Route
<1>2. \A b \in bodies \ DOMAIN db.artifacts :
        b \in Request /\ asked[b].route = "postArtifacts" /\ status[b] \in {"busy", "failed"}
  BY DEF BodiesKept, Route
<1> QED
  BY <1>1, <1>2 DEF BodiesAndRecords

-----------------------------------------------------------------------------
(* The two repositories.                                                       *)

(* The tables that are the same in both, row by row. *)
Plain == Tables \ ApartTables
Equal(d, m) == Tables \subseteq DOMAIN d /\ Tables \subseteq DOMAIN m /\ \A t \in Plain : m[t] = d[t]
Alike(a, b) == a.answer = b.answer /\ a.refused = b.refused /\ \A t \in Plain : b.store[t] = a.store[t]

LEMMA PlainTables ==
  /\ Plain = {"organizations", "users", "sessions", "members", "projects", "tests", "runs", "artifacts", "audit",
              "workers", "plugins", "pluginVersions", "secrets", "repositories", "schedules", "changes", "repairs", "pulls"}
  /\ Plain \subseteq Tables
BY DEF Plain, Tables, ApartTables

(* The operations on one table give one answer on equal tables. *)
LEMMA OneAnswer ==
  ASSUME NEW d, NEW m, Equal(d, m), NEW t \in Plain, NEW c, NEW val, NEW answer
  PROVE  /\ Alike(Result(d, answer), Result(m, answer))
         /\ Alike(Missing(d), Missing(m))
         /\ Alike(Refused(d), Refused(m))
         /\ Mine(d, t, c) = Mine(m, t, c)
         /\ Alike(Find(d, t, c), Find(m, t, c))
         /\ Alike(List(d, t, c), List(m, t, c))
<1>1. m[t] = d[t] /\ \A u \in Plain : m[u] = d[u]
  BY DEF Equal
<1>2. Mine(d, t, c) = Mine(m, t, c)
  BY <1>1 DEF Mine
<1> QED
  BY <1>1, <1>2 DEF Alike, Result, Missing, Refused, Find, List

LEMMA KeepTwice ==
  ASSUME NEW d, NEW m, Equal(d, m), NEW t \in Plain, NEW i, NEW row
  PROVE  /\ \A u \in Plain : Keep(m, t, i, row)[u] = Keep(d, t, i, row)[u]
         /\ \A answer : Alike(Result(Keep(d, t, i, row), answer), Result(Keep(m, t, i, row), answer))
<1>1. /\ t \in DOMAIN d /\ t \in DOMAIN m /\ \A u \in Plain : u \in DOMAIN d /\ u \in DOMAIN m /\ m[u] = d[u]
  BY PlainTables DEF Equal
<1>2. \A u \in Plain : Keep(m, t, i, row)[u] = Keep(d, t, i, row)[u]
  BY <1>1 DEF Keep
<1> QED
  BY <1>2 DEF Alike, Result

LEMMA OneChange ==
  ASSUME NEW d, NEW m, Equal(d, m), NEW t \in Plain, NEW c, NEW val
  PROVE  /\ Alike(Insert(d, t, c, val), Insert(m, t, c, val))
         /\ Alike(Merge(d, t, c, val), Merge(m, t, c, val))
<1>1. m[t] = d[t] /\ Mine(d, t, c) = Mine(m, t, c)
  BY OneAnswer, SMTT(30) DEF Equal
<1>2. Alike(Insert(d, t, c, val), Insert(m, t, c, val))
  BY KeepTwice DEF Insert
<1>3. CASE c.on \notin Mine(d, t, c)
  BY <1>1, <1>2, <1>3, OneAnswer DEF Merge
<1>4. CASE c.on \in Mine(d, t, c)
  BY <1>1, <1>2, <1>4, KeepTwice DEF Merge
<1> QED
  BY <1>2, <1>3, <1>4

(* What the methods of the plain tables write, in the in-process repository.  *)
LEMMA PlainFrame ==
  ASSUME NEW m, NEW t \in Plain, NEW c, NEW val, NEW answer, NEW i, NEW row
  PROVE  /\ Frame(m, Result(m, answer).store, Plain) /\ Frame(m, Missing(m).store, Plain)
         /\ Frame(m, Refused(m).store, Plain)
         /\ Frame(m, Find(m, t, c).store, Plain) /\ Frame(m, List(m, t, c).store, Plain)
         /\ Frame(m, Insert(m, t, c, val).store, Plain) /\ Frame(m, Merge(m, t, c, val).store, Plain)
         /\ Frame(m, Keep(m, t, i, row), Plain)
<1>1. /\ Frame(m, Insert(m, t, c, val).store, {t}) /\ Frame(m, Merge(m, t, c, val).store, {t})
      /\ Frame(m, Keep(m, t, i, row), {t})
  BY InsertFrame, MergeFrame, KeepFrame
<1>2. {t} \subseteq Plain
  OBVIOUS
<1> QED
  BY <1>1, <1>2, AnswersFrame, WiderFrame

(* A method of the plain tables: the answers agree, and the plain tables stay  *)
(* equal and the others alone.                                                 *)
InStep(c, sql, memory, d, m) ==
  LET store == IF sql.refused THEN m ELSE memory.store
  IN /\ Agree(c, sql, memory)
     /\ Frame(d, sql.store, Plain) /\ Frame(m, store, Plain \cup {"rotated"})
     /\ \A t \in Plain : store[t] = sql.store[t]

Paired(sql, memory, d, m) ==
  /\ Alike(sql, memory) /\ (sql.refused => sql.store = d)
  /\ Frame(d, sql.store, Plain) /\ Frame(m, memory.store, Plain)

LEMMA PairedInStep ==
  ASSUME NEW c, NEW d, NEW m, NEW sql, NEW memory, Paired(sql, memory, d, m), Equal(d, m),
         c.op \notin {"getRun", "getRunResult", "createSecret", "listSecrets"}
  PROVE  InStep(c, sql, memory, d, m)
<1>1. Agree(c, sql, memory)
  BY DEF Agree, Paired, Alike
<1>2. Frame(m, m, Plain \cup {"rotated"})
  BY SameFrame
<1>3. Frame(m, memory.store, Plain \cup {"rotated"})
  BY WiderFrame DEF Paired
<1> QED
  BY <1>1, <1>2, <1>3 DEF InStep, Paired, Alike, Equal

LEMMA PairedOps ==
  ASSUME NEW d, NEW m, Equal(d, m), NEW t \in Plain, NEW c, NEW val, NEW answer, NEW i, NEW row
  PROVE  /\ Paired(Result(d, answer), Result(m, answer), d, m) /\ Paired(Missing(d), Missing(m), d, m)
         /\ Paired(Refused(d), Refused(m), d, m)
         /\ Paired(Find(d, t, c), Find(m, t, c), d, m) /\ Paired(List(d, t, c), List(m, t, c), d, m)
         /\ Paired(Insert(d, t, c, val), Insert(m, t, c, val), d, m)
         /\ Paired(Merge(d, t, c, val), Merge(m, t, c, val), d, m)
         /\ Paired(Result(Keep(d, t, i, row), answer), Result(Keep(m, t, i, row), answer), d, m)
<1>1. /\ ~Result(d, answer).refused /\ ~Missing(d).refused /\ Refused(d).store = d
      /\ ~Find(d, t, c).refused /\ ~List(d, t, c).refused /\ ~Insert(d, t, c, val).refused
      /\ ~Merge(d, t, c, val).refused /\ ~Result(Keep(d, t, i, row), answer).refused
  BY DEF Result, Missing, Refused, Find, List, Insert, Merge
<1>2. /\ Frame(d, Result(Keep(d, t, i, row), answer).store, Plain)
      /\ Frame(m, Result(Keep(m, t, i, row), answer).store, Plain)
  BY PlainFrame DEF Result
<1> QED
  BY <1>1, <1>2, OneAnswer, OneChange, KeepTwice, PlainFrame DEF Paired

(* Organizations, users, sessions and memberships. *)
LEMMA AccountsInStep ==
  ASSUME NEW c, NEW d, NEW m, Equal(d, m), c.op \in Methods.accounts, Referenced(d, m),
         c.op = "addOrganizationMembership" => c.of \in DOMAIN d.users
  PROVE  InStep(c, SqlAccounts(c, d), Accounts(c, m), d, m)
<1> DEFINE sql == SqlAccounts(c, d)
           memory == Accounts(c, m)
<1>1. /\ m.organizations = d.organizations /\ m.users = d.users /\ m.sessions = d.sessions /\ m.members = d.members
      /\ "organizations" \in Plain /\ "users" \in Plain /\ "sessions" \in Plain /\ "members" \in Plain
  BY PlainTables DEF Equal
<1>2. SUFFICES Paired(sql, memory, d, m)
  BY PairedInStep DEF Methods
<1>3. CASE c.op = "createOrganization"
  BY <1>1, <1>3, PairedOps DEF SqlAccounts, Accounts
<1>4. CASE c.op = "upsertGitHubUser"
  <2> DEFINE same == {u \in DOMAIN d.users : d.users[u].key = c.key}
             row == RowOf([c EXCEPT !.org = None], c.val)
             u == CHOOSE x \in same : TRUE
  <2>1. CASE same = {}
    <3>1. sql = Insert(d, "users", [c EXCEPT !.org = None], c.val)
      BY <1>4, <2>1 DEF SqlAccounts
    <3>2. memory = Result(Keep(m, "users", c.id, row), {Record(c.id, row)})
      BY <1>1, <1>4, <2>1 DEF Accounts
    <3>3. sql = Result(Keep(d, "users", c.id, row), {Record(c.id, row)})
      BY <3>1 DEF Insert
    <3> QED
      BY <1>1, <3>2, <3>3, PairedOps
  <2>2. CASE same # {}
    <3>1. sql = Result(Keep(d, "users", u, row), {Record(u, row)})
      BY <1>4, <2>2 DEF SqlAccounts
    <3>2. memory = Result(Keep(m, "users", u, row), {Record(u, row)})
      BY <1>1, <1>4, <2>2 DEF Accounts
    <3> QED
      BY <1>1, <3>1, <3>2, PairedOps
  <2> QED
    BY <2>1, <2>2
<1>5. CASE c.op = "createAuthSession"
  BY <1>1, <1>5, PairedOps DEF SqlAccounts, Accounts
<1>6. CASE c.op = "getAuthSession"
  <2> DEFINE k == [c EXCEPT !.org = None]
  <2>1. Find(m, "sessions", k).answer = Find(d, "sessions", k).answer
    <3> HIDE DEF k
    <3> QED
      BY <1>1 DEF Find, Mine, Result
  <2>2. /\ sql = Result(d, {x \in Find(d, "sessions", k).answer : ~x.val.expired})
        /\ memory = Result(m, {x \in Find(m, "sessions", k).answer : ~x.val.expired})
    BY <1>6 DEF SqlAccounts, Accounts
  <2> QED
    BY <1>1, <2>1, <2>2, PairedOps
<1>7. CASE c.op = "addOrganizationMembership"
  BY <1>1, <1>7, PairedOps DEF SqlAccounts, Accounts
<1>8. CASE c.op = "isOrganizationMember"
  BY <1>1, <1>8, PairedOps DEF SqlAccounts, Accounts
<1>9. CASE c.op = "listOrganizationsForUser"
  <2> DEFINE joined == {Record(e[1], d.organizations[e[1]]) : e \in {x \in DOMAIN d.members : x[2] = c.of}}
             filtered == {Record(o, d.organizations[o]) :
                            o \in {x \in DOMAIN d.organizations : <<x, c.of>> \in DOMAIN d.members}}
  <2>1. \A e \in DOMAIN d.members : e = <<e[1], e[2]>> /\ e[1] \in DOMAIN d.organizations
    BY DEF Referenced
  <2>2. joined \subseteq filtered
    BY <2>1
  <2>3. ASSUME NEW o \in DOMAIN d.organizations, <<o, c.of>> \in DOMAIN d.members
        PROVE  Record(o, d.organizations[o]) \in joined
    <3> DEFINE e == <<o, c.of>>
    <3>1. e[1] = o /\ e[2] = c.of
      OBVIOUS
    <3> QED
      BY <2>3, <3>1
  <2>4. joined = filtered
    BY <2>2, <2>3
  <2>5. sql = Result(d, joined) /\ memory = Result(m, filtered)
    BY <1>1, <1>9 DEF SqlAccounts, Accounts
  <2> HIDE DEF joined, filtered
  <2> QED
    BY <1>1, <2>4, <2>5, PairedOps
<1>10. CASE c.op = "listOrganizationMembers"
  BY <1>1, <1>10, PairedOps DEF SqlAccounts, Accounts
<1>11. CASE c.op = "getOrganization"
  BY <1>1, <1>11, PairedOps DEF SqlAccounts, Accounts
<1> QED
  BY <1>3, <1>4, <1>5, <1>6, <1>7, <1>8, <1>9, <1>10, <1>11 DEF Methods

LEMMA TestsInStep ==
  ASSUME NEW c, NEW d, Equal(d, mem), c.op \in Methods.tests
  PROVE  InStep(c, ProjectsAndTests(c, d), ProjectsAndTests(c, mem), d, mem)
<1>1. "projects" \in Plain /\ "tests" \in Plain
  BY PlainTables
<1>2. CASE c.op = "createProject"
  BY <1>1, <1>2, PairedOps, PairedInStep DEF ProjectsAndTests
<1>3. CASE c.op = "createTest"
  BY <1>1, <1>3, PairedOps, PairedInStep DEF ProjectsAndTests
<1>4. CASE c.op \in {"listProjects", "getProject", "listTests", "getTest"}
  BY <1>1, <1>4, PairedOps, PairedInStep DEF ProjectsAndTests
<1> QED
  BY <1>2, <1>3, <1>4 DEF Methods

LEMMA RunsInStep ==
  ASSUME NEW c, NEW d, NEW m, Equal(d, m), c.op \in Methods.runs
  PROVE  InStep(c, SqlRuns(c, d), Runs(c, m), d, m)
<1>1. "runs" \in Plain /\ m.runs = d.runs
  BY PlainTables DEF Equal
<1>2. CASE c.op \in {"createRun", "listRuns", "updateRun"}
  BY <1>1, <1>2, PairedOps, PairedInStep DEF SqlRuns, Runs
<1>3. CASE c.op = "getRun"
  <2> DEFINE sql == SqlRuns(c, d)
             memory == Runs(c, m)
             rows == {Record(i, d.runs[i]) : i \in DOMAIN d.runs \cap {c.on}}
  <2>1. sql = Find(d, "runs", c) /\ memory = Result(m, rows)
    BY <1>1, <1>3 DEF SqlRuns, Runs
  <2>2. sql.answer = {x \in rows : x.org = c.org}
    BY <2>1 DEF Find, Result, Mine, Record
  <2>3. Agree(c, sql, memory)
    BY <1>3, <2>1, <2>2 DEF Agree, Result
  <2>4. sql.store = d /\ ~sql.refused /\ memory.store = m
    BY <2>1 DEF Find, Result
  <2> QED
    BY <2>3, <2>4, SameFrame DEF InStep, Equal
<1> QED
  BY <1>2, <1>3 DEF Methods

LEMMA ArtifactsInStep ==
  ASSUME NEW c, NEW d, NEW m, Equal(d, m), c.op \in Methods.artifacts
  PROVE  InStep(c, SqlArtifacts(c, d), Artifacts(c, m), d, m)
<1>1. /\ "artifacts" \in Plain /\ "audit" \in Plain /\ m.artifacts = d.artifacts
      /\ Mine(d, "artifacts", c) = Mine(m, "artifacts", c)
  BY PlainTables, OneAnswer, SMTT(30) DEF Equal
<1>2. SUFFICES Paired(SqlArtifacts(c, d), Artifacts(c, m), d, m)
  BY PairedInStep DEF Methods
<1>3. CASE c.op = "createArtifact"
  BY <1>1, <1>3, PairedOps DEF SqlArtifacts, Artifacts
<1>4. CASE c.op = "listArtifacts"
  BY <1>1, <1>4, PairedOps DEF SqlArtifacts, Artifacts
<1>5. CASE c.op = "listArtifactsBefore"
  BY <1>1, <1>5, PairedOps DEF SqlArtifacts, Artifacts
<1>6. CASE c.op = "deleteArtifact"
  <2>1. CASE c.on \notin Mine(d, "artifacts", c)
    BY <1>1, <1>6, <2>1, PairedOps DEF SqlArtifacts, Artifacts
  <2>2. CASE c.on \in Mine(d, "artifacts", c)
    <3> DEFINE rest == [i \in DOMAIN d.artifacts \ {c.on} |-> d.artifacts[i]]
    <3>1. /\ SqlArtifacts(c, d) = Result([d EXCEPT !.artifacts = rest], {c.on})
          /\ Artifacts(c, m) = Result([m EXCEPT !.artifacts = rest], {c.on})
      BY <1>1, <1>6, <2>2 DEF SqlArtifacts, Artifacts
    <3> HIDE DEF rest
    <3>2. \A u \in Plain : u \in DOMAIN d /\ u \in DOMAIN m /\ m[u] = d[u]
      BY PlainTables DEF Equal
    <3>3. Alike(Result([d EXCEPT !.artifacts = rest], {c.on}), Result([m EXCEPT !.artifacts = rest], {c.on}))
      BY <3>2 DEF Alike, Result
    <3>4. Frame(d, [d EXCEPT !.artifacts = rest], Plain) /\ Frame(m, [m EXCEPT !.artifacts = rest], Plain)
      <4>1. Frame(d, [d EXCEPT !.artifacts = rest], {"artifacts"}) /\ Frame(m, [m EXCEPT !.artifacts = rest], {"artifacts"})
        BY UpdateFrame
      <4>2. {"artifacts"} \subseteq Plain
        BY <1>1
      <4> QED
        BY <4>1, <4>2, WiderFrame
    <3> QED
      BY <3>1, <3>3, <3>4 DEF Paired, Result
  <2> QED
    BY <2>1, <2>2
<1>7. CASE c.op = "getArtifact"
  BY <1>1, <1>7, PairedOps DEF SqlArtifacts, Artifacts
<1>8. CASE c.op = "recordAuditEvent"
  BY <1>1, <1>8, PairedOps DEF SqlArtifacts, Artifacts
<1>9. CASE c.op = "listAuditEvents"
  BY <1>1, <1>9, PairedOps DEF SqlArtifacts, Artifacts
<1> QED
  BY <1>3, <1>4, <1>5, <1>6, <1>7, <1>8, <1>9 DEF Methods

(* Plugins: a version belongs to the organization of its plugin, so the two    *)
(* look for a second publication among the same rows.                          *)
LEMMA PluginsInStep ==
  ASSUME NEW c, NEW d, Equal(d, mem), Referenced(d, mem), DOMAIN c = CallFields, c.op \in Methods.plugins
  PROVE  InStep(c, SqlPlugins(c, d), Plugins(c, mem), d, mem)
<1>1. /\ "plugins" \in Plain /\ "pluginVersions" \in Plain /\ mem.pluginVersions = d.pluginVersions
      /\ Mine(d, "plugins", c) = Mine(mem, "plugins", c)
      /\ Mine(d, "pluginVersions", c) = Mine(mem, "pluginVersions", c)
  BY PlainTables, OneAnswer DEF Equal
<1>2. CASE c.op = "createPlugin"
  BY <1>1, <1>2, PairedOps, PairedInStep DEF SqlPlugins, Plugins
<1>3. CASE c.op = "listPlugins"
  BY <1>1, <1>3, PairedOps, PairedInStep DEF SqlPlugins, Plugins
<1>4. CASE c.op = "listPluginVersions"
  BY <1>1, <1>4, PairedOps, PairedInStep DEF SqlPlugins, Plugins
<1>5. CASE c.op = "publishPluginVersion"
  <2> DEFINE rows == d.pluginVersions
             k == [c EXCEPT !.of = c.on, !.key = c.val.version]
             sql == SqlPlugins(c, d)
             memory == Plugins(c, mem)
  <2>1. k.org = c.org /\ k.of = c.on /\ k.key = c.val.version
    BY DEF CallFields
  <2>2. SUFFICES Paired(sql, memory, d, mem)
    BY <1>5, PairedInStep
  <2>3. CASE c.on \notin Mine(d, "plugins", c)
    BY <1>1, <1>5, <2>3, PairedOps DEF SqlPlugins, Plugins
  <2>4. CASE c.on \in Mine(d, "plugins", c)
    <3>1. d.plugins[c.on].org = c.org
      BY <2>4 DEF Mine
    <3>2. \A v \in DOMAIN rows : rows[v].of = c.on => rows[v].org = c.org
      BY <3>1 DEF Referenced
    <3> DEFINE again == \E v \in DOMAIN rows : rows[v].of = c.on /\ rows[v].key = c.val.version
    <3>3. sql = IF Taken(rows, k) THEN Refused(d) ELSE Insert(d, "pluginVersions", k, c.val)
      BY <1>5, <2>4 DEF SqlPlugins
    <3>4. memory = IF again THEN Refused(mem) ELSE Insert(mem, "pluginVersions", k, c.val)
      BY <1>1, <1>5, <2>4 DEF Plugins
    <3> HIDE DEF k
    <3>5. Taken(rows, k) <=> again
      BY <2>1, <3>2 DEF Taken
    <3> HIDE DEF sql, memory, again
    <3>6. CASE again
      BY <1>1, <3>3, <3>4, <3>5, <3>6, PairedOps
    <3>7. CASE ~again
      BY <1>1, <3>3, <3>4, <3>5, <3>7, PairedOps
    <3> QED
      BY <3>6, <3>7
  <2> QED
    BY <2>3, <2>4
<1> QED
  BY <1>2, <1>3, <1>4, <1>5 DEF Methods

(* Two secrets on one row differ in their mask and in rotatedAt only. *)
Bare(x) == [f \in DOMAIN x \ {"mask", "rotated"} |-> x[f]]
LEMMA BareSecret ==
  ASSUME NEW d, NEW m, m.secrets = d.secrets, NEW i
  PROVE  Bare(SqlSecret(d, i)) = Bare(MySecret(m, i))
<1> DEFINE row == d.secrets[i]
<1>1. \A mask, rotated : Bare(SecretRecord(i, row, mask, rotated)) =
        [f \in {"id", "org", "of", "key", "val"} |-> SecretRecord(i, row, {}, FALSE)[f]]
  BY DEF SecretRecord, Bare
<1> QED
  BY <1>1 DEF SqlSecret, MySecret

LEMMA BareRecord ==
  ASSUME NEW d, NEW m, m.secrets = d.secrets, NEW i
  PROVE  Unmasked({SqlSecret(d, i)}) = Unmasked({MySecret(m, i)})
<1>1. \A x : Unmasked({x}) = {Bare(x)}
  BY DEF Unmasked, Bare
<1> QED
  BY <1>1, BareSecret

LEMMA BareSecrets ==
  ASSUME NEW d, NEW m, m.secrets = d.secrets, NEW rows
  PROVE  Unmasked({SqlSecret(d, i) : i \in rows}) = Unmasked({MySecret(m, i) : i \in rows})
<1>1. \A answer : Unmasked(answer) = {Bare(x) : x \in answer}
  BY DEF Unmasked, Bare
<1>2. {Bare(x) : x \in {SqlSecret(d, i) : i \in rows}} = {Bare(x) : x \in {MySecret(m, i) : i \in rows}}
  BY BareSecret
<1> QED
  BY <1>1, <1>2

LEMMA SecretsInStep ==
  ASSUME NEW c, NEW d, NEW m, Equal(d, m), c.op \in Methods.secrets
  PROVE  InStep(c, SqlSecrets(c, d), Secrets(c, m), d, m)
<1>1. "secrets" \in Plain /\ m.secrets = d.secrets /\ Mine(d, "secrets", c) = Mine(m, "secrets", c)
  BY PlainTables, OneAnswer DEF Equal
<1>2. CASE c.op = "getSecretValue"
  <2> DEFINE answer == {d.secrets[i].val.value : i \in {y \in Mine(d, "secrets", c) \cap {c.on} : Stored(d.secrets[y].val)}}
  <2>1. SqlSecrets(c, d) = Result(d, answer) /\ Secrets(c, m) = Result(m, answer)
    BY <1>1, <1>2 DEF SqlSecrets, Secrets
  <2> HIDE DEF answer
  <2> QED
    BY <1>1, <1>2, <2>1, PairedOps, PairedInStep
<1>3. CASE c.op = "createSecret"
  <2> DEFINE newD == Insert(d, "secrets", c, c.val).store
             newM == Insert(m, "secrets", c, c.val).store
  <2>1. SqlSecrets(c, d) = Result(newD, {SqlSecret(newD, c.id)}) /\ Secrets(c, m) = Result(newM, {MySecret(newM, c.id)})
    BY <1>3 DEF SqlSecrets, Secrets
  <2>2. Alike(Insert(d, "secrets", c, c.val), Insert(m, "secrets", c, c.val))
    BY <1>1, OneChange
  <2>3. Frame(d, newD, Plain) /\ Frame(m, newM, Plain)
    BY <1>1, PlainFrame
  <2>4. \A t \in Plain : newM[t] = newD[t]
    BY <2>2 DEF Alike
  <2> HIDE DEF newD, newM
  <2>5. Frame(m, newM, Plain \cup {"rotated"})
    BY <2>3, WiderFrame
  <2>6. newM.secrets = newD.secrets
    BY <1>1, <2>4
  <2>7. Unmasked({SqlSecret(newD, c.id)}) = Unmasked({MySecret(newM, c.id)})
    BY <2>6, BareRecord
  <2> QED
    BY <1>3, <2>1, <2>3, <2>4, <2>5, <2>7 DEF InStep, Agree, Result
<1>4. CASE c.op = "listSecrets"
  <2> DEFINE rows == Mine(d, "secrets", c)
             listD == {SqlSecret(d, i) : i \in rows}
             listM == {MySecret(m, i) : i \in rows}
  <2>1. SqlSecrets(c, d) = Result(d, listD) /\ Secrets(c, m) = Result(m, listM)
    BY <1>1, <1>4 DEF SqlSecrets, Secrets
  <2> HIDE DEF rows
  <2>2. Unmasked(listD) = Unmasked(listM)
    <3>1. m.secrets = d.secrets
      BY <1>1
    <3> QED
      BY <3>1, BareSecrets
  <2> HIDE DEF listD, listM
  <2>3. InStep(c, Result(d, listD), Result(m, listM), d, m)
    BY <1>4, <2>2, SameFrame DEF InStep, Agree, Result, Equal
  <2> QED
    BY <2>1, <2>3
<1>5. CASE c.op = "rotateSecret"
  <2>1. CASE c.on \notin Mine(d, "secrets", c)
    BY <1>1, <1>5, <2>1, PairedOps, PairedInStep DEF SqlSecrets, Secrets
  <2>2. CASE c.on \in Mine(d, "secrets", c)
    <3> DEFINE newD == Merge(d, "secrets", c, c.val).store
               merged == Merge(m, "secrets", c, c.val).store
               newM == [merged EXCEPT !.rotated = @ \cup {c.on}]
    <3>1. SqlSecrets(c, d) = Result(newD, {RotatedSecret(newD, c)}) /\ Secrets(c, m) = Result(newM, {RotatedSecret(newM, c)})
      BY <1>1, <1>5, <2>2 DEF SqlSecrets, Secrets
    <3>2. Alike(Merge(d, "secrets", c, c.val), Merge(m, "secrets", c, c.val))
      BY <1>1, OneChange
    <3>3. Frame(d, newD, Plain) /\ Frame(m, merged, Plain)
      BY <1>1, PlainFrame
    <3>4. /\ \A t \in Plain : merged[t] = newD[t]
          /\ Frame(d, newD, Plain) /\ Frame(m, merged, Plain)
      BY <3>2, <3>3 DEF Alike
    <3> HIDE DEF newD, merged
    <3>5. "rotated" \notin Plain /\ \A t \in Plain : t \in DOMAIN m
      BY PlainTables DEF Equal
    <3>6. /\ \A t \in Plain : newM[t] = newD[t]
          /\ Frame(m, newM, Plain \cup {"rotated"})
      BY <3>4, <3>5 DEF Frame
    <3> HIDE DEF newM
    <3>7. RotatedSecret(newD, c) = RotatedSecret(newM, c)
      BY <1>1, <3>6 DEF RotatedSecret
    <3>8. InStep(c, Result(newD, {RotatedSecret(newD, c)}), Result(newM, {RotatedSecret(newM, c)}), d, m)
      BY <1>5, <3>4, <3>6, <3>7 DEF InStep, Agree, Result
    <3> QED
      BY <3>1, <3>8
  <2> QED
    BY <2>1, <2>2
<1> QED
  BY <1>2, <1>3, <1>4, <1>5 DEF Methods

LEMMA ChangesInStep ==
  ASSUME NEW c, NEW d, NEW m, Equal(d, m), c.op \in Methods.changes
  PROVE  InStep(c, SqlChanges(c, d), SchedulesAndChanges(c, m), d, m)
<1>1. /\ "repositories" \in Plain /\ "schedules" \in Plain /\ "changes" \in Plain
      /\ "repairs" \in Plain /\ "pulls" \in Plain
  BY PlainTables
<1>2. SUFFICES Paired(SqlChanges(c, d), SchedulesAndChanges(c, m), d, m)
  BY PairedInStep DEF Methods
<1>3. CASE c.op \in {"createRepository", "getRepository", "listRepositories"}
  BY <1>1, <1>3, PairedOps DEF SqlChanges, SchedulesAndChanges
<1>4. CASE c.op \in {"updateRepository", "updateChangeRequest"}
  BY <1>1, <1>4, PairedOps DEF SqlChanges, SchedulesAndChanges
<1>5. CASE c.op \in {"createSchedule", "listSchedules", "createChangeRequest"}
  BY <1>1, <1>5, PairedOps DEF SqlChanges, SchedulesAndChanges
<1>6. CASE c.op \in {"listChangeRequests", "getChangeRequest", "createRepair", "createPullRequest"}
  BY <1>1, <1>6, PairedOps DEF SqlChanges, SchedulesAndChanges
<1> QED
  BY <1>3, <1>4, <1>5, <1>6 DEF Methods

JobOps == {"createAiWorkerJob", "leaseAiWorkerJob", "completeAiWorkerJob", "listAiWorkerJobs"}
LEMMA WorkersInStep ==
  ASSUME NEW c, NEW d, Equal(d, mem), NEW x, c.op \in Methods.workers \ JobOps
  PROVE  InStep(c, SqlAiJobs(c, d, x), AiWorkers(c, mem), d, mem)
<1>1. "workers" \in Plain
  BY PlainTables
<1>2. CASE c.op = "createAiWorker"
  <2>1. SqlAiJobs(c, d, x) = Insert(d, "workers", c, c.val) /\ AiWorkers(c, mem) = Insert(mem, "workers", c, c.val)
    BY <1>2, SMTT(30) DEF SqlAiJobs, AiWorkers
  <2> QED
    BY <1>1, <1>2, <2>1, PairedOps, PairedInStep
<1>3. CASE c.op \in {"listAiWorkers", "findAiWorker", "heartbeatAiWorker"}
  BY <1>1, <1>3, PairedOps, PairedInStep DEF SqlAiJobs, AiWorkers
<1> QED
  BY <1>2, <1>3 DEF Methods, JobOps

(* The methods of the plain tables together. *)
PlainOps == Methods.accounts \cup Methods.tests \cup Methods.runs \cup Methods.artifacts \cup Methods.plugins
            \cup Methods.secrets \cup Methods.changes \cup (Methods.workers \ JobOps)
LEMMA PlainInStep ==
  ASSUME NEW c, NEW d, NEW x, Equal(d, mem), Referenced(d, mem), DOMAIN c = CallFields, c.op \in PlainOps,
         c.op = "addOrganizationMembership" => c.of \in DOMAIN d.users
  PROVE  InStep(c, Statement(c, d, x), Memory(c, mem), d, mem)
<1>1. CASE c.op \in Methods.accounts
  <2>1. Statement(c, d, x) = SqlAccounts(c, d) /\ Memory(c, mem) = Accounts(c, mem)
    BY <1>1, ZenonT(60) DEF Statement, Memory, Methods
  <2> QED
    BY <1>1, <2>1, AccountsInStep
<1>2. CASE c.op \in Methods.tests
  <2>1. Statement(c, d, x) = ProjectsAndTests(c, d) /\ Memory(c, mem) = ProjectsAndTests(c, mem)
    BY <1>2, ZenonT(60) DEF Statement, Memory, Methods
  <2> QED
    BY <1>2, <2>1, TestsInStep
<1>3. CASE c.op \in Methods.runs
  <2>1. Statement(c, d, x) = SqlRuns(c, d) /\ Memory(c, mem) = Runs(c, mem)
    BY <1>3 DEF Statement, Memory, Methods
  <2> QED
    BY <1>3, <2>1, RunsInStep
<1>4. CASE c.op \in Methods.artifacts
  <2>1. Statement(c, d, x) = SqlArtifacts(c, d) /\ Memory(c, mem) = Artifacts(c, mem)
    BY <1>4 DEF Statement, Memory, Methods
  <2> QED
    BY <1>4, <2>1, ArtifactsInStep
<1>5. CASE c.op \in Methods.plugins
  <2>1. Statement(c, d, x) = SqlPlugins(c, d) /\ Memory(c, mem) = Plugins(c, mem)
    BY <1>5 DEF Statement, Memory, Methods
  <2> QED
    BY <1>5, <2>1, PluginsInStep
<1>6. CASE c.op \in Methods.secrets
  <2>1. Statement(c, d, x) = SqlSecrets(c, d) /\ Memory(c, mem) = Secrets(c, mem)
    BY <1>6 DEF Statement, Memory, Methods
  <2> QED
    BY <1>6, <2>1, SecretsInStep
<1>7. CASE c.op \in Methods.changes
  <2>1. Statement(c, d, x) = SqlChanges(c, d) /\ Memory(c, mem) = SchedulesAndChanges(c, mem)
    BY <1>7 DEF Statement, Memory, Methods
  <2> QED
    BY <1>7, <2>1, ChangesInStep
<1>8. CASE c.op \in Methods.workers \ JobOps
  <2>1. Statement(c, d, x) = SqlAiJobs(c, d, x) /\ Memory(c, mem) = AiWorkers(c, mem)
    BY <1>8, ZenonT(60) DEF Statement, Memory, Methods
  <2> QED
    BY <1>8, <2>1, WorkersInStep
<1> QED
  BY <1>1, <1>2, <1>3, <1>4, <1>5, <1>6, <1>7, <1>8 DEF PlainOps

-----------------------------------------------------------------------------
(* Manifests: rows with a time on one side, a list of saves on the other.      *)

LEMMA NewestIsLast ==
  ASSUME NEW d, NEW m, NEW test, SameManifests(d, m, test), \A v \in DOMAIN d.versions : d.versions[v].val.at \in Nat
  PROVE  LET all == Versions(m, test)
         IN Newest(d, VersionsOf(d, test)) = IF all = <<>> THEN {} ELSE {all[Len(all)]}
<1> DEFINE all == Versions(m, test)
           n == Len(all)
           at(v) == d.versions[v].val.at
           rows == VersionsOf(d, test)
<1>1. /\ n \in Nat /\ all = [i \in 1..n |-> all[i]] /\ rows = {all[i] : i \in 1..n}
      /\ \A i, j \in 1..n : i < j => at(all[i]) < at(all[j])
      /\ \A i \in 1..n : at(all[i]) \in Nat
  <2>1. /\ n \in Nat /\ all = [i \in 1..n |-> all[i]] /\ rows = {all[i] : i \in 1..n}
        /\ \A i, j \in 1..n : i < j => at(all[i]) < at(all[j])
    BY DEF SameManifests
  <2>2. rows \subseteq DOMAIN d.versions
    BY DEF VersionsOf
  <2> HIDE DEF all, rows, n
  <2> QED
    BY <2>1, <2>2
<1>2. Newest(d, rows) = {v \in rows : \A w \in rows : at(w) <= at(v)}
  BY DEF Newest
<1> HIDE DEF all, rows, n, at
<1>3. CASE n = 0
  <2>1. all = <<>> /\ rows = {}
    BY <1>1, <1>3
  <2> QED
    BY <1>2, <2>1 DEF all, rows
<1>4. CASE n # 0
  <2>1. all # <<>>
    BY <1>1, <1>4 DEF n
  <2>2. \A i \in 1..n : i # n => at(all[i]) < at(all[n])
    BY <1>1, <1>4
  <2>3. all[n] \in Newest(d, rows)
    BY <1>1, <1>2, <1>4, <2>2
  <2>4. ASSUME NEW v \in Newest(d, rows) PROVE v = all[n]
    <3>1. PICK i \in 1..n : v = all[i]
      BY <1>1, <1>2
    <3>2. at(all[n]) <= at(all[i])
      BY <1>1, <1>2, <1>4, <3>1
    <3> QED
      BY <1>1, <1>4, <2>2, <3>1, <3>2
  <2>5. Newest(d, rows) = {all[n]}
    BY <2>3, <2>4
  <2> QED
    BY <2>1, <2>5 DEF all, rows, n
<1> QED
  BY <1>3, <1>4

LEMMA PlaceIsNumber ==
  ASSUME NEW d, NEW m, NEW test, SameManifests(d, m, test), \A v \in DOMAIN d.versions : d.versions[v].val.at \in Nat,
         NEW k \in 1..Len(Versions(m, test))
  PROVE  LET all == Versions(m, test)
         IN Cardinality({w \in VersionsOf(d, test) : d.versions[w].val.at <= d.versions[all[k]].val.at}) = k
<1> DEFINE all == Versions(m, test)
           n == Len(all)
           at(v) == d.versions[v].val.at
           rows == VersionsOf(d, test)
           upTo == {w \in rows : at(w) <= at(all[k])}
           f == [i \in 1..k |-> all[i]]
<1>1. /\ n \in Nat /\ rows = {all[i] : i \in 1..n}
      /\ \A i, j \in 1..n : i < j => at(all[i]) < at(all[j])
      /\ \A i \in 1..n : at(all[i]) \in Nat
  <2>1. /\ n \in Nat /\ rows = {all[i] : i \in 1..n}
        /\ \A i, j \in 1..n : i < j => at(all[i]) < at(all[j])
    BY DEF SameManifests
  <2>2. rows \subseteq DOMAIN d.versions
    BY DEF VersionsOf
  <2> HIDE DEF all, rows, n
  <2> QED
    BY <2>1, <2>2
<1>2. k \in Nat /\ k \in 1..n
  BY <1>1
<1>3. upTo = {all[i] : i \in 1..k}
  <2> HIDE DEF at, all, rows, n
  <2>1. \A i \in 1..k : i \in 1..n /\ at(all[i]) <= at(all[k])
    BY <1>1, <1>2
  <2>2. \A i \in 1..n : at(all[i]) <= at(all[k]) => i \in 1..k
    BY <1>1, <1>2
  <2> QED
    BY <1>1, <2>1, <2>2
<1>4. \A i, j \in 1..k : all[i] = all[j] => i = j
  <2> HIDE DEF at, all, rows, n
  <2> QED
    BY <1>1, <1>2
<1> HIDE DEF at, all, rows, n
<1>5. f \in Bijection(1..k, upTo)
  <2>1. f \in Surjection(1..k, upTo)
    BY <1>3 DEF Surjection
  <2>2. f \in Injection(1..k, upTo)
    BY <1>3, <1>4 DEF Injection, IsInjective
  <2> QED
    BY <2>1, <2>2 DEF Bijection
<1>6. ExistsBijection(1..k, upTo)
  BY <1>5 DEF ExistsBijection
<1> HIDE DEF upTo
<1>7. Cardinality(upTo) = k
  BY <1>2, <1>6, FS_CountingElements
<1> QED
  BY <1>7 DEF upTo, at, all, rows

(* The list of a test's versions, whose rows are of the test's organization.  *)
LEMMA VersionLists ==
  ASSUME NEW d, NEW m, NEW c, NEW x, c.on \in DOMAIN d.tests => SameManifests(d, m, c.on),
         Referenced(d, m), m.tests = d.tests,
         \A v \in DOMAIN d.versions : d.versions[v].val.at \in Nat, c.op = "listManifestVersions"
  PROVE  SqlManifests(c, d, x).answer = ManifestsOf(c, m).answer
<1> DEFINE all == Versions(m, c.on)
           rows == {v \in VersionsOf(d, c.on) : d.versions[v].org = c.org}
           place(v) == Cardinality({w \in rows : d.versions[w].val.at <= d.versions[v].val.at})
<1>1. SqlManifests(c, d, x).answer = {<<place(v), v>> : v \in rows}
  BY DEF SqlManifests, Result
<1>2. Mine(m, "tests", c) = Mine(d, "tests", c)
  BY DEF Mine
<1>3. CASE c.on \notin Mine(d, "tests", c)
  <2>1. rows = {}
    BY <1>3 DEF Referenced, VersionsOf, Mine
  <2>2. ManifestsOf(c, m).answer = {}
    BY <1>2, <1>3 DEF ManifestsOf, Missing, Result
  <2> QED
    BY <1>1, <2>1, <2>2
<1>4. CASE c.on \in Mine(d, "tests", c)
  <2>1. rows = VersionsOf(d, c.on)
    BY <1>4 DEF Referenced, VersionsOf, Mine
  <2>0. SameManifests(d, m, c.on)
    BY <1>4 DEF Mine
  <2>2. rows = {all[n] : n \in 1..Len(all)} /\ DOMAIN all = 1..Len(all)
    BY <2>0, <2>1 DEF SameManifests
  <2>3. ManifestsOf(c, m).answer = {<<n, all[n]>> : n \in DOMAIN all}
    BY <1>2, <1>4, SMTT(30) DEF ManifestsOf, Result
  <2>4. \A n \in 1..Len(all) : place(all[n]) = n
    <3> SUFFICES ASSUME NEW n \in 1..Len(all) PROVE place(all[n]) = n
      OBVIOUS
    <3>1. Cardinality({w \in VersionsOf(d, c.on) : d.versions[w].val.at <= d.versions[all[n]].val.at}) = n
      BY <2>0, PlaceIsNumber
    <3> QED
      BY <2>1, <3>1
  <2> HIDE DEF all, rows, place
  <2> QED
    BY <1>1, <2>2, <2>3, <2>4
<1> QED
  BY <1>3, <1>4

(* A save: its row is the newest, and its name the last of the list.           *)
LEMMA SaveAppends ==
  ASSUME NEW d, NEW m, NEW test, NEW id, NEW row, row.of = test, "versions" \in DOMAIN d, "versions" \in DOMAIN m,
         id \notin DOMAIN d.versions
  PROVE  LET kept == Keep(d, "versions", id, row)
             stored == Keep(m, "versions", test, Append(Versions(m, test), id))
         IN /\ \A u : u # test /\ SameManifests(d, m, u) => SameManifests(kept, stored, u)
            /\ /\ SameManifests(d, m, test) /\ row.val.at \in Nat
               /\ \A v \in VersionsOf(d, test) : d.versions[v].val.at < row.val.at
               => SameManifests(kept, stored, test)
<1> DEFINE kept == Keep(d, "versions", id, row)
           stored == Keep(m, "versions", test, Append(Versions(m, test), id))
<1>1. /\ DOMAIN kept.versions = DOMAIN d.versions \cup {id} /\ kept.versions[id] = row
      /\ \A v \in DOMAIN d.versions : kept.versions[v] = d.versions[v]
  BY DEF Keep
<1>2. Versions(stored, test) = Append(Versions(m, test), id)
  BY DEF Keep, Versions
<1>3. \A u : u # test => Versions(stored, u) = Versions(m, u)
  BY DEF Keep, Versions
<1>4. ASSUME NEW u, u # test, SameManifests(d, m, u) PROVE SameManifests(kept, stored, u)
  <2> HIDE DEF kept, stored
  <2>1. VersionsOf(kept, u) = VersionsOf(d, u)
    BY <1>1, <1>4 DEF VersionsOf
  <2>2. Versions(stored, u) = Versions(m, u)
    BY <1>3, <1>4
  <2> DEFINE all == Versions(m, u)
  <2>3. \A i \in 1..Len(all) : all[i] \in DOMAIN d.versions
    BY <1>4 DEF SameManifests, VersionsOf
  <2> HIDE DEF all
  <2>4. \A i \in 1..Len(all) : kept.versions[all[i]] = d.versions[all[i]]
    BY <1>1, <2>3
  <2> QED
    BY <1>4, <2>1, <2>2, <2>4 DEF SameManifests, all
<1>5. ASSUME SameManifests(d, m, test), row.val.at \in Nat,
             \A v \in VersionsOf(d, test) : d.versions[v].val.at < row.val.at
      PROVE  SameManifests(kept, stored, test)
  <2> DEFINE all == Versions(m, test)
             n == Len(all)
             more == Append(all, id)
  <2> HIDE DEF kept, stored
  <2>1. /\ n \in Nat /\ all = [i \in 1..n |-> all[i]] /\ VersionsOf(d, test) = {all[i] : i \in 1..n}
        /\ \A i, j \in 1..n : i < j => d.versions[all[i]].val.at < d.versions[all[j]].val.at
    BY <1>5 DEF SameManifests
  <2>2. \A i \in 1..n : all[i] \in DOMAIN d.versions /\ all[i] \in VersionsOf(d, test)
    BY <2>1 DEF VersionsOf
  <2>3. VersionsOf(kept, test) = VersionsOf(d, test) \cup {id}
    BY <1>1 DEF VersionsOf
  <2> HIDE DEF all
  <2>4. Len(more) = n + 1 /\ more = [i \in 1..(n + 1) |-> more[i]] /\ more[n + 1] = id /\ \A i \in 1..n : more[i] = all[i]
    <3> DEFINE S == {all[i] : i \in 1..n} \cup {id}
    <3>1. all \in Seq(S) /\ id \in S
      BY <2>1
    <3> HIDE DEF S
    <3>2. Len(more) = Len(all) + 1 /\ more \in Seq(S)
      BY <3>1
    <3>3. \A i \in 1..Len(all) : more[i] = all[i]
      BY <3>1
    <3>4. more[Len(all) + 1] = id
      BY <3>1
    <3> HIDE DEF more
    <3>5. more = [i \in 1..Len(more) |-> more[i]]
      BY <3>2
    <3> QED
      BY <3>2, <3>3, <3>4, <3>5
  <2> HIDE DEF more, n
  <2>5. VersionsOf(kept, test) = {more[i] : i \in 1..(n + 1)}
    <3>1. \A v \in VersionsOf(d, test) : \E i \in 1..(n + 1) : v = more[i]
      BY <2>1, <2>4, SMTT(30)
    <3>2. n + 1 \in 1..(n + 1) /\ \A i \in 1..(n + 1) : i = n + 1 \/ i \in 1..n
      BY <2>1
    <3>3. \A i \in 1..(n + 1) : more[i] \in VersionsOf(d, test) \cup {id}
      BY <2>1, <2>4, <3>2
    <3> QED
      BY <2>3, <2>4, <3>1, <3>2, <3>3
  <2>6. ASSUME NEW i \in 1..(n + 1), NEW j \in 1..(n + 1), i < j
        PROVE  kept.versions[more[i]].val.at < kept.versions[more[j]].val.at
    <3>1. i \in 1..n /\ kept.versions[more[i]] = d.versions[all[i]]
      <4>1. i \in 1..n
        BY <2>1, <2>6
      <4>2. more[i] = all[i] /\ all[i] \in DOMAIN d.versions
        BY <2>2, <2>4, <4>1
      <4> QED
        BY <1>1, <4>1, <4>2
    <3>2. CASE j = n + 1
      BY <1>1, <1>5, <2>2, <2>4, <3>1, <3>2
    <3>3. CASE j # n + 1
      <4>1. j \in 1..n /\ kept.versions[more[j]] = d.versions[all[j]]
        <5>1. j \in 1..n
          BY <2>1, <3>3
        <5>2. more[j] = all[j] /\ all[j] \in DOMAIN d.versions
          BY <2>2, <2>4, <5>1
        <5> QED
          BY <1>1, <5>1, <5>2
      <4> QED
        BY <2>1, <2>6, <3>1, <4>1
    <3> QED
      BY <3>2, <3>3
  <2>7. Versions(stored, test) = more
    BY <1>2 DEF more, all
  <2> QED
    BY <2>1, <2>4, <2>5, <2>6, <2>7 DEF SameManifests
<1> QED
  BY <1>4, <1>5

Beyond(apart, object, excused) == IF excused THEN apart \cup {object} ELSE apart
OfTests(s, d) ==
  \A v \in DOMAIN s.versions : s.versions[v].of \in DOMAIN d.tests /\ d.tests[s.versions[v].of].org = s.versions[v].org

LEMMA ManifestsInStep ==
  ASSUME NEW c, NEW d, NEW m, NEW x, NEW apart, NEW excused \in BOOLEAN, c.op \in Methods.manifests, DOMAIN c = CallFields,
         Equal(d, m), Referenced(d, m), SameVersions(d, m, apart),
         \A v \in DOMAIN d.versions : d.versions[v].val.at \in Nat,
         c.op = "updateTestManifest" =>
           c.id \notin DOMAIN d.versions /\ x.began \in Nat /\ x.found = Mine(d, "tests", c) \cap {c.on},
         ~excused => /\ <<"versions", c.on>> \notin apart
                     /\ c.op = "updateTestManifest" => \A v \in VersionsOf(d, c.on) : d.versions[v].val.at < x.began
  PROVE  LET sql == SqlManifests(c, d, x)
             memory == ManifestsOf(c, m)
         IN /\ ~sql.refused /\ (~excused => Agree(c, sql, memory))
            /\ Frame(d, sql.store, {"versions"}) /\ Frame(m, memory.store, {"versions"})
            /\ SameVersions(sql.store, memory.store, Beyond(apart, <<"versions", c.on>>, excused))
            /\ OfTests(sql.store, d)
            /\ DOMAIN memory.store.versions \subseteq DOMAIN d.tests
<1> DEFINE sql == SqlManifests(c, d, x)
           memory == ManifestsOf(c, m)
           all == Versions(m, c.on)
           beyond == Beyond(apart, <<"versions", c.on>>, excused)
           Goal == /\ ~sql.refused /\ (~excused => Agree(c, sql, memory))
                   /\ Frame(d, sql.store, {"versions"}) /\ Frame(m, memory.store, {"versions"})
                   /\ SameVersions(sql.store, memory.store, beyond)
                   /\ OfTests(sql.store, d)
                   /\ DOMAIN memory.store.versions \subseteq DOMAIN d.tests
<1> SUFFICES Goal
  OBVIOUS
<1>1. /\ m.tests = d.tests /\ Mine(m, "tests", c) = Mine(d, "tests", c)
      /\ "versions" \in DOMAIN d /\ "versions" \in DOMAIN m /\ "tests" \in DOMAIN d /\ "tests" \in DOMAIN m
  BY PlainTables, OneAnswer DEF Equal, Tables
<1>2. ~excused /\ c.on \in DOMAIN d.tests => SameManifests(d, m, c.on)
  BY DEF SameVersions
<1>3. SameVersions(d, m, beyond)
  BY DEF SameVersions, Beyond
<1>4. OfTests(d, d) /\ DOMAIN m.versions \subseteq DOMAIN d.tests
  BY DEF Referenced, OfTests
<1>5. \A answer, other : Agree(c, Result(d, answer), Result(m, other)) <=> answer = other
  BY DEF Agree, Methods, Result
<1>6. ASSUME sql.store = d, memory.store = m, ~sql.refused, ~excused => Agree(c, sql, memory)
      PROVE  Goal
  BY <1>3, <1>4, <1>6, SameFrame
<1>7. CASE c.op = "getTestManifest"
  <2>1. CASE c.on \notin Mine(d, "tests", c)
    <3>1. sql = Result(d, {}) /\ memory = Result(m, {})
      BY <1>1, <1>7, <2>1 DEF SqlManifests, ManifestsOf, Missing
    <3>2. ~excused => Agree(c, sql, memory)
      BY <1>5, <3>1
    <3>3. sql.store = d /\ memory.store = m /\ ~sql.refused
      BY <3>1 DEF Result
    <3> HIDE DEF Goal
    <3> QED
      BY <1>6, <3>2, <3>3
  <2>2. CASE c.on \in Mine(d, "tests", c)
    <3> DEFINE newest == Newest(d, VersionsOf(d, c.on))
               last == IF all = <<>> THEN {} ELSE {all[Len(all)]}
    <3>1. sql = Result(d, newest) /\ memory = Result(m, last)
      BY <1>1, <1>7, <2>2 DEF SqlManifests, ManifestsOf
    <3>2. c.on \in DOMAIN d.tests
      BY <2>2 DEF Mine
    <3>3. ~excused => newest = last
      BY <1>2, <3>2, NewestIsLast
    <3>4. ~excused => Agree(c, sql, memory)
      BY <1>5, <3>1, <3>3
    <3>5. sql.store = d /\ memory.store = m /\ ~sql.refused
      BY <3>1 DEF Result
    <3> HIDE DEF Goal
    <3> QED
      BY <1>6, <3>4, <3>5
  <2> QED
    BY <2>1, <2>2
<1>8. CASE c.op = "listManifestVersions"
  <2>1. sql = Result(d, sql.answer)
    BY <1>8 DEF SqlManifests, Result
  <2>2. memory = Result(m, memory.answer)
    BY <1>8 DEF ManifestsOf, Missing, Result
  <2>3. ~excused => sql.answer = memory.answer
    BY <1>1, <1>2, <1>8, VersionLists
  <2> HIDE DEF sql, memory
  <2>4. sql.store = d /\ memory.store = m /\ ~sql.refused
    BY <2>1, <2>2 DEF Result
  <2>5. ~excused => Agree(c, sql, memory)
    BY <1>5, <2>1, <2>2, <2>3
  <2> HIDE DEF Goal
  <2> QED
    BY <1>6, <2>4, <2>5
<1>9. CASE c.op = "updateTestManifest"
  <2>1. CASE c.on \notin Mine(d, "tests", c)
    <3>1. x.found = {}
      BY <1>9, <2>1
    <3>2. sql = Result(d, {}) /\ memory = Result(m, {})
      BY <1>1, <1>9, <2>1, <3>1 DEF SqlManifests, ManifestsOf, Missing
    <3>3. ~excused => Agree(c, sql, memory)
      BY <1>5, <3>2
    <3>4. sql.store = d /\ memory.store = m /\ ~sql.refused
      BY <3>2 DEF Result
    <3> HIDE DEF Goal
    <3> QED
      BY <1>6, <3>3, <3>4
  <2>2. CASE c.on \in Mine(d, "tests", c)
    <3> DEFINE row == RowOf([c EXCEPT !.of = c.on], [at |-> x.began, after |-> x.seen])
               kept == Keep(d, "versions", c.id, row)
               stored == Keep(m, "versions", c.on, Append(all, c.id))
    <3>1. x.found # {}
      BY <1>9, <2>2
    <3>2. sql = Result(kept, {c.id}) /\ memory = Result(stored, {c.id})
      BY <1>1, <1>9, <2>2, <3>1 DEF SqlManifests, ManifestsOf, CreatedAt
    <3>3. row.of = c.on /\ row.org = c.org /\ row.val.at = x.began
      BY DEF RowOf, CallFields
    <3>4. c.on \in DOMAIN d.tests /\ d.tests[c.on].org = c.org
      BY <2>2 DEF Mine
    <3> HIDE DEF row
    <3>5. /\ \A u : u # c.on /\ SameManifests(d, m, u) => SameManifests(kept, stored, u)
          /\ ~excused => SameManifests(kept, stored, c.on)
      BY <1>1, <1>2, <1>9, <3>3, <3>4, SaveAppends
    <3>6. Frame(d, kept, {"versions"}) /\ Frame(m, stored, {"versions"})
      BY KeepFrame
    <3>7. kept.tests = d.tests
      BY <1>1, <3>6 DEF Frame
    <3>8. /\ DOMAIN kept.versions = DOMAIN d.versions \cup {c.id} /\ kept.versions[c.id] = row
          /\ \A v \in DOMAIN d.versions : kept.versions[v] = d.versions[v]
      BY <1>1, <1>9 DEF Keep
    <3>9. DOMAIN stored.versions = DOMAIN m.versions \cup {c.on}
      BY <1>1 DEF Keep
    <3> HIDE DEF kept, stored
    <3>10. SameVersions(kept, stored, beyond)
      BY <3>5, <3>7 DEF SameVersions, Beyond
    <3>11. OfTests(kept, d)
      BY <1>4, <3>3, <3>4, <3>8 DEF OfTests
    <3>12. Agree(c, sql, memory)
      BY <1>9, <3>2 DEF Agree, Result
    <3>13. sql.store = kept /\ memory.store = stored /\ ~sql.refused
      BY <3>2 DEF Result
    <3> HIDE DEF sql, memory
    <3> QED
      BY <1>4, <3>4, <3>6, <3>9, <3>10, <3>11, <3>12, <3>13
  <2> QED
    BY <2>1, <2>2
<1> QED
  BY <1>7, <1>8, <1>9 DEF Methods

-----------------------------------------------------------------------------
(* Reports of runs.                                                            *)

(* A save of a report: its rows replace those that were found, and its steps   *)
(* the steps of their names.                                                   *)
LEMMA ReportSaved ==
  ASSUME NEW d, NEW m, NEW c, NEW x, DOMAIN c = CallFields, c.op = "saveRunResult",
         "results" \in DOMAIN d, "steps" \in DOMAIN d, "results" \in DOMAIN m,
         c.id \notin DOMAIN d.results, \A i \in x.found \cap DOMAIN d.results : d.results[i].of = c.on
  PROVE  LET kept == SqlResults(c, d, x).store
             stored == Results(c, m).store
         IN /\ Frame(d, kept, {"results", "steps"}) /\ Frame(m, stored, {"results"})
            /\ DOMAIN kept.results = (DOMAIN d.results \ x.found) \cup {c.id} /\ kept.results[c.id].of = c.on
            /\ DOMAIN stored.results = DOMAIN m.results \cup {c.on}
            /\ \A run : run # c.on /\ SameReport(d, m, run) => SameReport(kept, stored, run)
            /\ x.found = {i \in DOMAIN d.results : d.results[i].of = c.on} => SameReport(kept, stored, c.on)
<1> DEFINE kept == SqlResults(c, d, x).store
           stored == Results(c, m).store
           row == RowOf([c EXCEPT !.of = c.on], {})
           report == [meta |-> c.id, steps |-> {<<y, c.id>> : y \in c.val.steps}]
           names == {<<c.on, y>> : y \in c.val.steps}
           steps == Over([k \in names |-> c.id], d.steps)
           others == DOMAIN d.results \ x.found
           left == [d EXCEPT !.results = [i \in others |-> d.results[i]], !.steps = steps]
<1>1. SqlResults(c, d, x) = Result(Keep(left, "results", c.id, row), {c.id})
  BY DEF SqlResults
<1>2. Results(c, m) = Result(Keep(m, "results", c.on, report), {c.id})
  BY DEF Results
<1>3. row.of = c.on
  BY DEF RowOf, CallFields
<1>4. /\ DOMAIN left = DOMAIN d /\ left.steps = steps /\ left.results = [i \in others |-> d.results[i]]
      /\ \A t \in DOMAIN d : t \notin {"results", "steps"} => left[t] = d[t]
  <2> HIDE DEF steps, others
  <2> QED
    OBVIOUS
<1>5. /\ DOMAIN steps = names \cup DOMAIN d.steps /\ \A k \in names : steps[k] = c.id
      /\ \A k \in DOMAIN d.steps : k \notin names => steps[k] = d.steps[k]
  BY DEF Over
<1> HIDE DEF row, report, left, steps
<1>6. /\ DOMAIN kept = DOMAIN d /\ kept.steps = steps
      /\ DOMAIN kept.results = others \cup {c.id} /\ kept.results[c.id] = row
      /\ \A i \in others : i # c.id => kept.results[i] = d.results[i]
      /\ \A t \in DOMAIN d : t \notin {"results", "steps"} => kept[t] = d[t]
  BY <1>1, <1>4 DEF Keep, Result
<1>7. /\ DOMAIN stored = DOMAIN m /\ DOMAIN stored.results = DOMAIN m.results \cup {c.on} /\ stored.results[c.on] = report
      /\ \A i \in DOMAIN m.results : i # c.on => stored.results[i] = m.results[i]
      /\ \A t \in DOMAIN m : t # "results" => stored[t] = m[t]
  BY <1>2 DEF Keep, Result
<1> HIDE DEF kept, stored
<1>9. ASSUME NEW run, run # c.on, SameReport(d, m, run) PROVE SameReport(kept, stored, run)
  <2>1. {i \in DOMAIN kept.results : kept.results[i].of = run} = {i \in DOMAIN d.results : d.results[i].of = run}
    <3>1. \A i \in others : i # c.id /\ kept.results[i] = d.results[i]
      BY <1>6
    <3>2. \A i \in DOMAIN d.results : d.results[i].of = run => i \in others
      BY <1>9
    <3> QED
      BY <1>3, <1>6, <1>9, <3>1, <3>2
  <2>2. (run \in DOMAIN stored.results <=> run \in DOMAIN m.results)
        /\ (run \in DOMAIN m.results => stored.results[run] = m.results[run])
    BY <1>7, <1>9
  <2>3. \A y : <<run, y>> \in DOMAIN d.steps => <<run, y>> \in DOMAIN kept.steps /\ kept.steps[<<run, y>>] = d.steps[<<run, y>>]
    <3> TAKE y
    <3>1. <<run, y>> \notin names
      BY <1>9
    <3> HIDE DEF names
    <3> QED
      BY <1>5, <1>6, <3>1
  <2> QED
    BY <1>9, <2>1, <2>2, <2>3 DEF SameReport
<1>10. ASSUME x.found = {i \in DOMAIN d.results : d.results[i].of = c.on} PROVE SameReport(kept, stored, c.on)
  <2>1. {i \in DOMAIN kept.results : kept.results[i].of = c.on} = {c.id}
    BY <1>3, <1>6, <1>10
  <2>2. c.on \in DOMAIN stored.results /\ stored.results[c.on].meta = c.id
    BY <1>7 DEF report
  <2>3. ASSUME NEW z \in stored.results[c.on].steps
        PROVE  z = <<z[1], z[2]>> /\ <<c.on, z[1]>> \in DOMAIN kept.steps /\ kept.steps[<<c.on, z[1]>>] = z[2]
    <3>1. PICK y \in c.val.steps : z = <<y, c.id>>
      BY <1>7 DEF report
    <3>2. z[1] = y /\ z[2] = c.id
      BY <3>1
    <3>3. <<c.on, y>> \in names
      OBVIOUS
    <3> QED
      BY <1>5, <1>6, <3>1, <3>2, <3>3
  <2> QED
    BY <2>1, <2>2, <2>3 DEF SameReport
<1> QED
  BY <1>3, <1>6, <1>7, <1>9, <1>10 DEF Frame, kept, stored

LEMMA ResultsInStep ==
  ASSUME NEW c, NEW d, NEW m, NEW x, NEW apart, NEW excused \in BOOLEAN, c.op \in Methods.results, DOMAIN c = CallFields,
         Equal(d, m), "steps" \in DOMAIN d, SameReports(d, m, apart),
         c.op = "saveRunResult" =>
           c.id \notin DOMAIN d.results /\ \A i \in x.found \cap DOMAIN d.results : d.results[i].of = c.on,
         ~excused => <<"results", c.on>> \notin apart /\ x.found \in Finds(c, d)
  PROVE  LET sql == SqlResults(c, d, x)
             memory == Results(c, m)
         IN /\ ~sql.refused /\ (~excused => Agree(c, sql, memory))
            /\ Frame(d, sql.store, {"results", "steps"}) /\ Frame(m, memory.store, {"results"})
            /\ SameReports(sql.store, memory.store, Beyond(apart, <<"results", c.on>>, excused))
<1> DEFINE sql == SqlResults(c, d, x)
           memory == Results(c, m)
           beyond == Beyond(apart, <<"results", c.on>>, excused)
           rows == {i \in DOMAIN d.results : d.results[i].of = c.on}
<1>1. "results" \in DOMAIN d /\ "results" \in DOMAIN m
  BY DEF Equal, Tables
<1>2. \A run : <<"results", run>> \in apart \/ SameReport(d, m, run)
  <2> SUFFICES ASSUME NEW run, run \notin DOMAIN m.results \cup {d.results[i].of : i \in DOMAIN d.results}
               PROVE  SameReport(d, m, run)
    BY DEF SameReports
  <2>1. \A i \in DOMAIN d.results : d.results[i].of # run
    OBVIOUS
  <2> QED
    BY <2>1 DEF SameReport
<1>3. CASE c.op = "saveRunResult"
  <2>1. ~excused => x.found = rows
    BY <1>3 DEF Finds, Methods
  <2>2. /\ Frame(d, sql.store, {"results", "steps"}) /\ Frame(m, memory.store, {"results"})
        /\ \A run : run # c.on /\ SameReport(d, m, run) => SameReport(sql.store, memory.store, run)
        /\ x.found = rows => SameReport(sql.store, memory.store, c.on)
    BY <1>1, <1>3, ReportSaved
  <2>3. sql.answer = {c.id} /\ sql.refused = FALSE /\ memory.answer = {c.id} /\ memory.refused = FALSE
    BY <1>3 DEF SqlResults, Results, Result
  <2> HIDE DEF sql, memory, rows
  <2>4. Agree(c, sql, memory)
    BY <1>3, <2>2, <2>3 DEF Agree
  <2>5. SameReports(sql.store, memory.store, beyond)
    BY <1>2, <2>1, <2>2 DEF SameReports, Beyond
  <2> QED
    BY <2>2, <2>3, <2>4, <2>5 DEF sql, memory
<1>4. CASE c.op = "getRunResult"
  <2> DEFINE stepsOf(run) == {<<k[2], d.steps[k]>> : k \in {y \in DOMAIN d.steps : y[1] = run}}
             answer == {[meta |-> i, steps |-> stepsOf(c.on)] : i \in x.found}
             reports == {m.results[i] : i \in DOMAIN m.results \cap {c.on}}
  <2>1. sql = Result(d, answer) /\ memory = Result(m, reports)
    BY <1>4 DEF SqlResults, Results
  <2>2. sql.store = d /\ memory.store = m /\ ~sql.refused /\ sql.answer = answer /\ memory.answer = reports
    BY <2>1 DEF Result
  <2>3. SameReports(d, m, beyond)
    BY <1>2 DEF SameReports, Beyond
  <2>4. ASSUME ~excused PROVE Agree(c, sql, memory)
    <3>1. SameReport(d, m, c.on) /\ x.found \in (IF rows = {} THEN {{}} ELSE {{i} : i \in rows})
      BY <1>2, <1>4, <2>4 DEF Finds, Methods
    <3>2. CASE c.on \notin DOMAIN m.results
      <4>1. rows = {} /\ x.found = {} /\ reports = {}
        BY <3>1, <3>2 DEF SameReport
      <4>2. sql.answer = {} /\ memory.answer = {}
        BY <2>2, <4>1
      <4> HIDE DEF sql, memory
      <4> QED
        BY <1>4, <4>2 DEF Agree
    <3>3. CASE c.on \in DOMAIN m.results
      <4> DEFINE report == m.results[c.on]
      <4>1. rows = {report.meta}
        BY <3>1, <3>3 DEF SameReport
      <4>2. x.found = {report.meta}
        BY <3>1, <4>1
      <4>3. reports = {report} /\ answer = {[meta |-> report.meta, steps |-> stepsOf(c.on)]}
        BY <3>3, <4>2
      <4>4. report.steps \subseteq stepsOf(c.on)
        <5> SUFFICES ASSUME NEW z \in report.steps PROVE z \in stepsOf(c.on)
          OBVIOUS
        <5>1. z = <<z[1], z[2]>> /\ <<c.on, z[1]>> \in DOMAIN d.steps /\ d.steps[<<c.on, z[1]>>] = z[2]
          BY <3>1, <3>3 DEF SameReport
        <5> DEFINE k == <<c.on, z[1]>>
        <5>2. k[1] = c.on /\ k[2] = z[1]
          OBVIOUS
        <5>3. k \in {y \in DOMAIN d.steps : y[1] = c.on} /\ z = <<k[2], d.steps[k]>>
          BY <5>1, <5>2
        <5> HIDE DEF k
        <5> QED
          BY <5>3
      <4> DEFINE given == [meta |-> report.meta, steps |-> stepsOf(c.on)]
      <4>5. given.meta = report.meta /\ given.steps = stepsOf(c.on)
        OBVIOUS
      <4>6. sql.answer = {given} /\ memory.answer = {report}
        BY <2>2, <4>3
      <4> HIDE DEF sql, memory, report, given, stepsOf
      <4> QED
        BY <1>4, <4>4, <4>5, <4>6 DEF Agree
    <3> QED
      BY <3>2, <3>3
  <2> HIDE DEF sql, memory
  <2> QED
    BY <2>2, <2>3, <2>4, SameFrame DEF sql, memory
<1> QED
  BY <1>3, <1>4 DEF Methods

(* Storage policies. *)
LEMMA PoliciesInStep ==
  ASSUME NEW c, NEW d, NEW m, NEW x, NEW apart, NEW excused \in BOOLEAN, c.op \in Methods.policies,
         Equal(d, m), SamePolicies(d, m, apart),
         ~excused => <<"policies", c.org>> \notin apart /\ x.found \in Finds(c, d)
  PROVE  LET sql == SqlStoragePolicies(c, d, x)
             memory == StoragePolicies(c, m)
         IN /\ ~excused => Agree(c, sql, memory)
            /\ sql.refused => excused /\ sql.store = d
            /\ Frame(d, sql.store, {"policies"}) /\ Frame(m, memory.store, {"policies"})
            /\ ~sql.refused => SamePolicies(sql.store, memory.store, Beyond(apart, <<"policies", c.org>>, excused))
<1> DEFINE sql == SqlStoragePolicies(c, d, x)
           memory == StoragePolicies(c, m)
           current == IF x.found = {} THEN DefaultPolicy ELSE CHOOSE p \in x.found : TRUE
           policy == IF c.op = "getStoragePolicy" THEN current ELSE Over(c.val, current)
           given == IF c.op = "getStoragePolicy" THEN PolicyOf(m, c) ELSE Over(c.val, PolicyOf(m, c))
           stored == Keep(m, "policies", c.org, given)
           kept == Keep(d, "policies", c.org, policy)
<1>1. /\ memory = Result(stored, {given})
      /\ sql = IF x.found = {} /\ c.org \in DOMAIN d.policies THEN Refused(d)
               ELSE IF c.op = "getStoragePolicy" /\ x.found # {} THEN Result(d, {policy})
               ELSE Result(kept, {policy})
  BY DEF SqlStoragePolicies, StoragePolicies
<1>2. "policies" \in DOMAIN d /\ "policies" \in DOMAIN m
  BY DEF Equal, Tables
<1>3. /\ \A org : <<"policies", org>> \in apart \/ SamePolicy(d, m, org)
  BY DEF SamePolicies, SamePolicy
<1>4. ASSUME ~excused
      PROVE  /\ SamePolicy(d, m, c.org) /\ policy = given
             /\ ~(x.found = {} /\ c.org \in DOMAIN d.policies)
             /\ x.found # {} => c.org \in DOMAIN d.policies /\ current = d.policies[c.org]
  <2>1. SamePolicy(d, m, c.org)
    BY <1>3, <1>4
  <2>2. x.found = IF c.org \in DOMAIN d.policies THEN {d.policies[c.org]} ELSE {}
    BY <1>4 DEF Finds, Methods
  <2>3. current = PolicyOf(m, c)
    BY <2>1, <2>2 DEF SamePolicy, PolicyOf
  <2> QED
    BY <2>1, <2>2, <2>3
<1>5. /\ Frame(m, stored, {"policies"}) /\ Frame(d, kept, {"policies"})
      /\ DOMAIN kept.policies = DOMAIN d.policies \cup {c.org} /\ kept.policies[c.org] = policy
      /\ DOMAIN stored.policies = DOMAIN m.policies \cup {c.org} /\ stored.policies[c.org] = given
      /\ \A org \in DOMAIN d.policies : org # c.org => kept.policies[org] = d.policies[org]
      /\ \A org \in DOMAIN m.policies : org # c.org => stored.policies[org] = m.policies[org]
  <2> HIDE DEF policy, given
  <2>1. Frame(m, stored, {"policies"}) /\ Frame(d, kept, {"policies"})
    BY KeepFrame
  <2> QED
    BY <1>2, <2>1 DEF Keep
<1>6. ~excused => ~sql.refused /\ Agree(c, sql, memory)
  <2> SUFFICES ASSUME ~excused PROVE ~sql.refused /\ Agree(c, sql, memory)
    OBVIOUS
  <2>1. sql.answer = {policy} /\ sql.refused = FALSE /\ memory.answer = {given} /\ memory.refused = FALSE
    BY <1>1, <1>4 DEF Result
  <2> HIDE DEF sql, memory, policy, given
  <2> QED
    BY <1>4, <2>1 DEF Agree, Methods
<1>7. sql.refused => sql.store = d
  BY <1>1 DEF Result, Refused
<1>8. /\ memory.store = stored
      /\ \/ sql.store = kept
         \/ sql.store = d /\ (~sql.refused => x.found # {} /\ c.op = "getStoragePolicy")
  <2>1. CASE x.found = {} /\ c.org \in DOMAIN d.policies
    BY <1>1, <2>1 DEF Result, Refused
  <2>2. CASE ~(x.found = {} /\ c.org \in DOMAIN d.policies) /\ c.op = "getStoragePolicy" /\ x.found # {}
    BY <1>1, <2>2 DEF Result, Refused
  <2>3. CASE ~(x.found = {} /\ c.org \in DOMAIN d.policies) /\ ~(c.op = "getStoragePolicy" /\ x.found # {})
    <3>1. sql = Result(kept, {policy}) /\ memory = Result(stored, {given})
      BY <1>1, <2>3
    <3> HIDE DEF sql, memory, kept, stored
    <3> QED
      BY <2>3, <3>1 DEF Result
  <2> QED
    BY <2>1, <2>2, <2>3
<1>9. ASSUME ~sql.refused PROVE SamePolicies(sql.store, memory.store, Beyond(apart, <<"policies", c.org>>, excused))
  <2>1. ASSUME NEW org, org # c.org, SamePolicy(d, m, org) PROVE SamePolicy(sql.store, memory.store, org)
    <3> HIDE DEF sql, memory, stored, kept
    <3> QED
      BY <1>5, <1>8, <2>1 DEF SamePolicy
  <2>2. ASSUME ~excused PROVE SamePolicy(sql.store, memory.store, c.org)
    <3>1. CASE sql.store = kept
      <4> HIDE DEF sql, memory, stored, kept, policy, given
      <4> QED
        BY <1>4, <1>5, <1>8, <2>2, <3>1 DEF SamePolicy
    <3>2. CASE sql.store # kept
      <4>1. x.found # {} /\ c.op = "getStoragePolicy" /\ sql.store = d
        BY <1>8, <1>9, <3>2
      <4>2. c.org \in DOMAIN d.policies /\ policy = d.policies[c.org]
        BY <1>4, <2>2, <4>1
      <4> HIDE DEF sql, memory, stored, kept, policy, given
      <4> QED
        BY <1>4, <1>5, <1>8, <2>2, <4>1, <4>2 DEF SamePolicy
    <3> QED
      BY <3>1, <3>2
  <2> HIDE DEF sql, memory
  <2> QED
    BY <1>3, <2>1, <2>2 DEF SamePolicies, Beyond
<1>10. Frame(d, sql.store, {"policies"}) /\ Frame(m, memory.store, {"policies"})
  <2> HIDE DEF sql, memory, kept, stored
  <2> QED
    BY <1>5, <1>8, SameFrame
<1> HIDE DEF sql, memory
<1> QED
  BY <1>6, <1>7, <1>9, <1>10 DEF sql, memory

-----------------------------------------------------------------------------
(* The jobs of AI workers.                                                     *)

Its(d, c) == {j \in Mine(d, "jobs", c) : d.jobs[j].of = c.on}
OpenJobs(d, c, found) == {j \in Its(d, c) : d.jobs[j].val.status = "queued" \/ j \in found}
NextJob(d, c, found) ==
  LET open == OpenJobs(d, c, found) IN IF open = {} THEN {} ELSE {First(d.jobs, open)}
Swept(row) == [row EXCEPT !.val.status = "queued"]
Silent(c) == {"attempt", "place"} \cap DOMAIN c.val = {}
Locks(c, d, x) == x.found \cup x.pick \subseteq Its(d, c)
Given(open, record) == IF open THEN {record} ELSE {}
WithJob(jobs, j, row) == [jobs EXCEPT ![j] = row]
Patched(row, patch) == [row EXCEPT !.val = Over(patch, @)]

LEMMA JobRows ==
  ASSUME NEW row, JobOk(row)
  PROVE  /\ JobOk(Swept(row)) /\ Swept(row).org = row.org /\ Swept(row).of = row.of
         /\ Swept(row).val.status = "queued" /\ Swept(row).val.place = row.val.place
         /\ JobOk(Leased(row)) /\ Leased(row).org = row.org /\ Leased(row).of = row.of
         /\ \A patch : {"attempt", "place"} \cap DOMAIN patch = {} =>
              JobOk(Patched(row, patch)) /\ Patched(row, patch).org = row.org /\ Patched(row, patch).of = row.of
<1>1. JobOk(Swept(row)) /\ Swept(row).org = row.org /\ Swept(row).of = row.of
      /\ Swept(row).val.status = "queued" /\ Swept(row).val.place = row.val.place
  BY DEF JobOk, RowFields, JobFields, Swept
<1>2. JobOk(Leased(row)) /\ Leased(row).org = row.org /\ Leased(row).of = row.of
  BY DEF JobOk, RowFields, JobFields, Leased
<1>3. ASSUME NEW patch, {"attempt", "place"} \cap DOMAIN patch = {}
      PROVE  JobOk(Patched(row, patch)) /\ Patched(row, patch).org = row.org /\ Patched(row, patch).of = row.of
  BY <1>3 DEF JobOk, RowFields, JobFields, Patched, Over
<1> QED
  BY <1>1, <1>2, <1>3

(* What a call may do to the jobs: those of another organization stay as they  *)
(* are, and none changes hands.                                                *)
JobsChange(c, jobs, new) ==
  /\ DOMAIN new = DOMAIN jobs \cup (IF c.op = "createAiWorkerJob" THEN {c.id} ELSE {})
  /\ \A j \in DOMAIN new : JobOk(new[j]) /\ (j \notin DOMAIN jobs => new[j].org = c.org)
  /\ \A j \in DOMAIN jobs : /\ new[j].org = jobs[j].org /\ new[j].of = jobs[j].of
                            /\ jobs[j].org # c.org => new[j] = jobs[j]

LEMMA JobsStay ==
  ASSUME NEW c, NEW jobs, c.op # "createAiWorkerJob", \A j \in DOMAIN jobs : JobOk(jobs[j])
  PROVE  JobsChange(c, jobs, jobs)
BY DEF JobsChange

LEMMA JobCreated ==
  ASSUME NEW c, NEW s, "jobs" \in DOMAIN s, c.op = "createAiWorkerJob", c.id \notin DOMAIN s.jobs,
         IsFiniteSet(DOMAIN s.jobs), \A j \in DOMAIN s.jobs : JobOk(s.jobs[j])
  PROVE  LET row == RowOf(c, [status |-> "queued", expired |-> FALSE, attempt |-> 0, place |-> Cardinality(DOMAIN s.jobs)])
         IN /\ AiWorkers(c, s) = Result(Keep(s, "jobs", c.id, row), {Record(c.id, row)})
            /\ Keep(s, "jobs", c.id, row).jobs = [x \in DOMAIN s.jobs \cup {c.id} |-> IF x = c.id THEN row ELSE s.jobs[x]]
            /\ JobsChange(c, s.jobs, Keep(s, "jobs", c.id, row).jobs)
<1> DEFINE val == [status |-> "queued", expired |-> FALSE, attempt |-> 0, place |-> Cardinality(DOMAIN s.jobs)]
           row == RowOf(c, val)
           new == Keep(s, "jobs", c.id, row).jobs
<1>1. AiWorkers(c, s) = Result(Keep(s, "jobs", c.id, row), {Record(c.id, row)})
  BY DEF AiWorkers, Insert
<1>2. Cardinality(DOMAIN s.jobs) \in Nat
  BY FS_CardinalityType
<1>3. JobOk(row) /\ row.org = c.org
  BY <1>2 DEF JobOk, RowOf, RowFields, JobFields
<1> HIDE DEF row
<1>4. new = [x \in DOMAIN s.jobs \cup {c.id} |-> IF x = c.id THEN row ELSE s.jobs[x]]
  BY DEF Keep
<1>5. JobsChange(c, s.jobs, new)
  BY <1>3, <1>4 DEF JobsChange
<1> QED
  BY <1>1, <1>4, <1>5 DEF row

Completes(c, s) ==
  LET row == Patched(s.jobs[c.on], c.val)
      new == WithJob(s.jobs, c.on, row)
      open == c.on \in Mine(s, "jobs", c) /\ s.jobs[c.on].val.status = "leased"
  IN /\ AiWorkers(c, s).store.jobs = IF open THEN new ELSE s.jobs
     /\ AiWorkers(c, s).answer = Given(open, Record(c.on, row))
     /\ AiWorkers(c, s).refused = FALSE
     /\ Frame(s, AiWorkers(c, s).store, {"jobs"})
     /\ JobsChange(c, s.jobs, AiWorkers(c, s).store.jobs)

LEMMA JobCompleted ==
  ASSUME NEW c, NEW s, "jobs" \in DOMAIN s, c.op = "completeAiWorkerJob", Silent(c),
         \A j \in DOMAIN s.jobs : JobOk(s.jobs[j])
  PROVE  Completes(c, s)
<1> DEFINE row == Patched(s.jobs[c.on], c.val)
           new == WithJob(s.jobs, c.on, row)
           open == c.on \in Mine(s, "jobs", c) /\ s.jobs[c.on].val.status = "leased"
<1>1. CASE ~open
  <2>1. AiWorkers(c, s) = Missing(s)
    BY <1>1 DEF AiWorkers
  <2>2. JobsChange(c, s.jobs, s.jobs)
    BY JobsStay
  <2>3. Missing(s).store = s /\ Missing(s).answer = {} /\ Missing(s).refused = FALSE
    BY DEF Missing, Result
  <2> QED
    BY <1>1, <2>1, <2>2, <2>3, SameFrame DEF Given, Completes
<1>2. CASE open
  <2>1. AiWorkers(c, s) = Result(Keep(s, "jobs", c.on, row), {Record(c.on, row)})
    BY <1>2 DEF AiWorkers, Merge, Patched
  <2>2. c.on \in DOMAIN s.jobs /\ s.jobs[c.on].org = c.org
    BY <1>2 DEF Mine
  <2>3. JobOk(row) /\ row.org = c.org /\ row.of = s.jobs[c.on].of
    BY <2>2, JobRows DEF Silent
  <2> HIDE DEF row
  <2>4. Keep(s, "jobs", c.on, row).jobs = [x \in DOMAIN s.jobs \cup {c.on} |-> IF x = c.on THEN row ELSE s.jobs[x]]
    BY DEF Keep
  <2>5. Keep(s, "jobs", c.on, row).jobs = new
    BY <2>2, <2>4 DEF WithJob
  <2>6. DOMAIN new = DOMAIN s.jobs /\ new[c.on] = row /\ \A j \in DOMAIN s.jobs : j # c.on => new[j] = s.jobs[j]
    BY <2>2 DEF WithJob
  <2> HIDE DEF new
  <2>7. JobsChange(c, s.jobs, new)
    BY <2>2, <2>3, <2>6 DEF JobsChange
  <2>8. Frame(s, Keep(s, "jobs", c.on, row), {"jobs"})
    BY KeepFrame
  <2>9. /\ AiWorkers(c, s).store = Keep(s, "jobs", c.on, row) /\ AiWorkers(c, s).answer = {Record(c.on, row)}
        /\ AiWorkers(c, s).refused = FALSE
    BY <2>1 DEF Result
  <2> QED
    BY <1>2, <2>5, <2>7, <2>8, <2>9 DEF new, row, Given, Completes
<1> QED
  BY <1>1, <1>2

Picked(x) == CHOOSE j \in x.pick : TRUE
QueuedAgain(d, x) == [j \in DOMAIN d.jobs |-> IF j \in x.found THEN Swept(d.jobs[j]) ELSE d.jobs[j]]

(* A lease in the database: what was found is queued again, and what was       *)
(* picked is leased.                                                           *)
LeasesInSql(c, d, x) ==
  LET swept == QueuedAgain(d, x)
      i == Picked(x)
      sql == SqlAiJobs(c, d, x)
  IN /\ sql.store.jobs = IF x.pick = {} THEN swept ELSE WithJob(swept, i, Leased(swept[i]))
     /\ sql.answer = Given(x.pick # {}, Record(i, Leased(swept[i])))
     /\ sql.refused = FALSE /\ Frame(d, sql.store, {"jobs"})
     /\ JobsChange(c, d.jobs, sql.store.jobs)

LEMMA SqlLease ==
  ASSUME NEW c, NEW d, NEW x, "jobs" \in DOMAIN d, c.op = "leaseAiWorkerJob",
         Locks(c, d, x), \A j \in DOMAIN d.jobs : JobOk(d.jobs[j])
  PROVE  LeasesInSql(c, d, x)
<1> DEFINE swept == QueuedAgain(d, x)
           i == Picked(x)
           sql == SqlAiJobs(c, d, x)
           row == Leased(swept[i])
           new == WithJob(swept, i, row)
<1>1. \A j \in x.found \cup x.pick : j \in DOMAIN d.jobs /\ d.jobs[j].org = c.org
  BY DEF Locks, Its, Mine
<1>2. \A j \in DOMAIN d.jobs : /\ JobOk(swept[j]) /\ swept[j].org = d.jobs[j].org /\ swept[j].of = d.jobs[j].of
                               /\ j \notin x.found => swept[j] = d.jobs[j]
  BY JobRows DEF QueuedAgain
<1>3. sql = IF x.pick = {} THEN Result([d EXCEPT !.jobs = swept], {}) ELSE Result([d EXCEPT !.jobs = new], {Record(i, row)})
  BY DEF SqlAiJobs, Missing, Swept, Picked, QueuedAgain, WithJob
<1>4. DOMAIN swept = DOMAIN d.jobs
  BY DEF QueuedAgain
<1>5. JobsChange(c, d.jobs, swept)
  <2> HIDE DEF swept
  <2> QED
    BY <1>1, <1>2, <1>4 DEF JobsChange
<1>6. x.pick # {} => JobsChange(c, d.jobs, new)
  <2> SUFFICES ASSUME x.pick # {} PROVE JobsChange(c, d.jobs, new)
    OBVIOUS
  <2>1. i \in DOMAIN d.jobs /\ d.jobs[i].org = c.org
    BY <1>1 DEF Picked
  <2> HIDE DEF i
  <2>2. JobOk(swept[i]) /\ swept[i].org = d.jobs[i].org /\ swept[i].of = d.jobs[i].of
    BY <1>2, <2>1
  <2> HIDE DEF swept
  <2>3. JobOk(row) /\ row.org = c.org /\ row.of = d.jobs[i].of
    BY <2>1, <2>2, JobRows
  <2> HIDE DEF row
  <2>4. DOMAIN new = DOMAIN d.jobs /\ new[i] = row /\ \A j \in DOMAIN d.jobs : j # i => new[j] = swept[j]
    BY <1>4, <2>1 DEF WithJob
  <2> HIDE DEF new
  <2> QED
    BY <1>1, <1>2, <2>1, <2>3, <2>4 DEF JobsChange
<1> HIDE DEF swept, i, row, new
<1>7. /\ sql.store = IF x.pick = {} THEN [d EXCEPT !.jobs = swept] ELSE [d EXCEPT !.jobs = new]
      /\ sql.answer = IF x.pick = {} THEN {} ELSE {Record(i, row)}
      /\ sql.refused = FALSE
  BY <1>3 DEF Result
<1> HIDE DEF sql
<1>8. sql.store.jobs = (IF x.pick = {} THEN swept ELSE new) /\ Frame(d, sql.store, {"jobs"})
  <2>1. \A v : Frame(d, [d EXCEPT !["jobs"] = v], {"jobs"}) /\ [d EXCEPT !["jobs"] = v]["jobs"] = v
    BY UpdateFrame
  <2>2. CASE x.pick = {}
    BY <1>7, <2>1, <2>2
  <2>3. CASE x.pick # {}
    BY <1>7, <2>1, <2>3
  <2> QED
    BY <2>2, <2>3
<1> QED
  BY <1>5, <1>6, <1>7, <1>8 DEF swept, i, row, new, sql, Given, LeasesInSql

(* A lease in the in-process repository. *)
LeasesInMemory(c, s) ==
  LET swept == Requeued(s, c)
      open == {j \in DOMAIN swept : swept[j].org = c.org /\ swept[j].of = c.on /\ swept[j].val.status = "queued"}
      i == First(swept, open)
      memory == AiWorkers(c, s)
  IN /\ memory.store.jobs = IF open = {} THEN swept ELSE WithJob(swept, i, Leased(swept[i]))
     /\ memory.answer = Given(open # {}, Record(i, Leased(swept[i])))
     /\ memory.refused = FALSE /\ Frame(s, memory.store, {"jobs"})
     /\ JobsChange(c, s.jobs, memory.store.jobs)

LEMMA MemoryLease ==
  ASSUME NEW c, NEW s, "jobs" \in DOMAIN s, c.op = "leaseAiWorkerJob", \A j \in DOMAIN s.jobs : JobOk(s.jobs[j])
  PROVE  LeasesInMemory(c, s)
<1> DEFINE swept == Requeued(s, c)
           open == {j \in DOMAIN swept : swept[j].org = c.org /\ swept[j].of = c.on /\ swept[j].val.status = "queued"}
           i == First(swept, open)
           memory == AiWorkers(c, s)
           row == Leased(swept[i])
           new == WithJob(swept, i, row)
<1>1. DOMAIN swept = DOMAIN s.jobs
  BY DEF Requeued
<1>2. \A j \in DOMAIN s.jobs : /\ JobOk(swept[j]) /\ swept[j].org = s.jobs[j].org /\ swept[j].of = s.jobs[j].of
                               /\ s.jobs[j].org # c.org => swept[j] = s.jobs[j]
  <2>1. \A j \in DOMAIN s.jobs : swept[j] = IF s.jobs[j].org = c.org /\ s.jobs[j].of = c.on /\ Expired(s.jobs[j])
                                             THEN Swept(s.jobs[j]) ELSE s.jobs[j]
    BY DEF Requeued, Swept
  <2> HIDE DEF swept
  <2> QED
    BY <2>1, JobRows
<1>3. memory = IF open = {} THEN Result([s EXCEPT !.jobs = swept], {}) ELSE Result([s EXCEPT !.jobs = new], {Record(i, row)})
  BY DEF AiWorkers, Missing, WithJob
<1> HIDE DEF swept
<1>4. JobsChange(c, s.jobs, swept)
  BY <1>1, <1>2 DEF JobsChange
<1>5. open # {} => JobsChange(c, s.jobs, new)
  <2> SUFFICES ASSUME open # {} PROVE JobsChange(c, s.jobs, new)
    OBVIOUS
  <2>0. i \in open
    <3>1. \A j \in open : swept[j].val.place \in Nat
      BY <1>1, <1>2, SMTT(30) DEF JobOk
    <3> QED
      BY <3>1, FirstIsOpen
  <2>1. i \in DOMAIN s.jobs /\ s.jobs[i].org = c.org
    BY <1>1, <1>2, <2>0
  <2> HIDE DEF i, open
  <2>2. JobOk(swept[i]) /\ swept[i].org = s.jobs[i].org /\ swept[i].of = s.jobs[i].of
    BY <1>2, <2>1
  <2>3. JobOk(row) /\ row.org = c.org /\ row.of = s.jobs[i].of
    BY <2>1, <2>2, JobRows
  <2> HIDE DEF row
  <2>4. DOMAIN new = DOMAIN s.jobs /\ new[i] = row /\ \A j \in DOMAIN s.jobs : j # i => new[j] = swept[j]
    BY <1>1, <2>1 DEF WithJob
  <2> HIDE DEF new
  <2> QED
    BY <1>2, <2>1, <2>3, <2>4 DEF JobsChange
<1> HIDE DEF i, row, new, open
<1>6. /\ memory.store = IF open = {} THEN [s EXCEPT !.jobs = swept] ELSE [s EXCEPT !.jobs = new]
      /\ memory.answer = IF open = {} THEN {} ELSE {Record(i, row)}
      /\ memory.refused = FALSE
  BY <1>3 DEF Result
<1> HIDE DEF memory
<1>7. memory.store.jobs = (IF open = {} THEN swept ELSE new) /\ Frame(s, memory.store, {"jobs"})
  <2>1. \A v : Frame(s, [s EXCEPT !["jobs"] = v], {"jobs"}) /\ [s EXCEPT !["jobs"] = v]["jobs"] = v
    BY UpdateFrame
  <2>2. CASE open = {}
    BY <1>6, <2>1, <2>2
  <2>3. CASE open # {}
    BY <1>6, <2>1, <2>3
  <2> QED
    BY <2>2, <2>3
<1> QED
  BY <1>4, <1>5, <1>6, <1>7 DEF swept, i, row, new, open, memory, Given, LeasesInMemory

(* The jobs of the other organizations stay as they are in both, so the jobs   *)
(* are the same if those of c.org are.                                         *)
LEMMA JobsTogether ==
  ASSUME NEW c, NEW d, NEW m, NEW s, NEW t, NEW apart, NEW excused \in BOOLEAN, SameJobs(d, m, apart),
         JobsChange(c, d.jobs, s.jobs), JobsChange(c, m.jobs, t.jobs),
         ~excused => \A j \in DOMAIN s.jobs : s.jobs[j].org = c.org => t.jobs[j] = s.jobs[j]
  PROVE  SameJobs(s, t, Beyond(apart, <<"jobs", c.org>>, excused))
<1>1. DOMAIN t.jobs = DOMAIN s.jobs
  BY DEF SameJobs, JobsChange
<1>2. ASSUME NEW j \in DOMAIN s.jobs
      PROVE  t.jobs[j].org = s.jobs[j].org /\ (s.jobs[j].org # c.org /\ <<"jobs", s.jobs[j].org>> \notin apart => t.jobs[j] = s.jobs[j])
  <2>1. CASE j \in DOMAIN d.jobs
    <3>1. /\ m.jobs[j].org = d.jobs[j].org /\ j \in DOMAIN m.jobs
          /\ <<"jobs", d.jobs[j].org>> \notin apart => m.jobs[j] = d.jobs[j]
      BY <2>1 DEF SameJobs
    <3>2. /\ s.jobs[j].org = d.jobs[j].org /\ (d.jobs[j].org # c.org => s.jobs[j] = d.jobs[j])
          /\ t.jobs[j].org = m.jobs[j].org /\ (m.jobs[j].org # c.org => t.jobs[j] = m.jobs[j])
      BY <2>1, <3>1 DEF JobsChange
    <3> QED
      BY <3>1, <3>2
  <2>2. CASE j \notin DOMAIN d.jobs
    <3>1. j \notin DOMAIN m.jobs /\ j \in DOMAIN t.jobs
      BY <1>1, <2>2 DEF SameJobs
    <3> QED
      BY <2>2, <3>1 DEF JobsChange
  <2> QED
    BY <2>1, <2>2
<1>3. ASSUME NEW j \in DOMAIN s.jobs, <<"jobs", s.jobs[j].org>> \notin Beyond(apart, <<"jobs", c.org>>, excused)
      PROVE  t.jobs[j] = s.jobs[j]
  <2>1. <<"jobs", s.jobs[j].org>> \notin apart /\ (s.jobs[j].org = c.org => ~excused)
    BY <1>3 DEF Beyond
  <2> QED
    BY <1>2, <2>1
<1> QED
  BY <1>1, <1>2, <1>3 DEF SameJobs

(* First depends on nothing but the places of the jobs that are open. *)
LEMMA FirstByPlace ==
  ASSUME NEW f, NEW g, NEW open, \A i \in open : f[i].val.place = g[i].val.place
  PROVE  First(f, open) = First(g, open)
BY DEF First

(* A lease that nobody came between is the same lease in both. *)
LEMMA LeasesAlike ==
  ASSUME NEW c, NEW d, NEW m, NEW x, c.op = "leaseAiWorkerJob", "jobs" \in DOMAIN d, "jobs" \in DOMAIN m,
         DOMAIN m.jobs = DOMAIN d.jobs, \A j \in DOMAIN d.jobs : m.jobs[j].org = d.jobs[j].org,
         \A j \in DOMAIN d.jobs : d.jobs[j].org = c.org => m.jobs[j] = d.jobs[j],
         \A j \in DOMAIN d.jobs : JobOk(d.jobs[j]), \A j \in DOMAIN m.jobs : JobOk(m.jobs[j]),
         x.found = Overdue(d, c), x.pick = NextJob(d, c, x.found), Locks(c, d, x)
  PROVE  LET sql == SqlAiJobs(c, d, x)
             memory == AiWorkers(c, m)
         IN /\ sql.answer = memory.answer
            /\ \A j \in DOMAIN d.jobs : d.jobs[j].org = c.org => memory.store.jobs[j] = sql.store.jobs[j]
<1> DEFINE swept == QueuedAgain(d, x)
           i == Picked(x)
           sql == SqlAiJobs(c, d, x)
           wiped == Requeued(m, c)
           open == {j \in DOMAIN wiped : wiped[j].org = c.org /\ wiped[j].of = c.on /\ wiped[j].val.status = "queued"}
           k == First(wiped, open)
           memory == AiWorkers(c, m)
           wide == OpenJobs(d, c, x.found)
<1>1. /\ sql.store.jobs = IF x.pick = {} THEN swept ELSE WithJob(swept, i, Leased(swept[i]))
      /\ sql.answer = Given(x.pick # {}, Record(i, Leased(swept[i])))
  <2>1. LeasesInSql(c, d, x)
    BY SqlLease, SMTT(30)
  <2> QED
    BY <2>1 DEF LeasesInSql
<1>2. /\ memory.store.jobs = IF open = {} THEN wiped ELSE WithJob(wiped, k, Leased(wiped[k]))
      /\ memory.answer = Given(open # {}, Record(k, Leased(wiped[k])))
  <2>1. LeasesInMemory(c, m)
    BY MemoryLease
  <2> QED
    BY <2>1 DEF LeasesInMemory
<1>3. DOMAIN wiped = DOMAIN d.jobs /\ DOMAIN swept = DOMAIN d.jobs
  BY DEF Requeued, QueuedAgain
<1>4. ASSUME NEW j \in DOMAIN d.jobs, d.jobs[j].org = c.org PROVE wiped[j] = swept[j]
  <2>1. m.jobs[j] = d.jobs[j] /\ j \in DOMAIN m.jobs
    BY <1>4
  <2>2. j \in x.found <=> d.jobs[j].of = c.on /\ Expired(d.jobs[j])
    BY <1>4 DEF Overdue, Mine
  <2> QED
    BY <1>4, <2>1, <2>2 DEF Requeued, Swept, QueuedAgain
<1>5. \A j \in DOMAIN d.jobs : /\ swept[j].org = d.jobs[j].org /\ swept[j].of = d.jobs[j].of
                               /\ swept[j].val.place = d.jobs[j].val.place
                               /\ swept[j].val.status = "queued" <=> d.jobs[j].val.status = "queued" \/ j \in x.found
  BY JobRows DEF QueuedAgain
<1>6. \A j \in DOMAIN d.jobs : wiped[j].org = d.jobs[j].org
  <2>1. \A j \in DOMAIN d.jobs : wiped[j].org = m.jobs[j].org
    BY JobRows DEF Requeued, Swept
  <2> QED
    BY <2>1
<1> HIDE DEF swept, wiped
<1>7. open = wide
  BY <1>3, <1>4, <1>5, <1>6 DEF OpenJobs, Its, Mine
<1>8. open # {} => k = First(d.jobs, wide)
  <2>1. \A j \in open : wiped[j].val.place = d.jobs[j].val.place
    BY <1>3, <1>4, <1>5, <1>6
  <2> HIDE DEF open, wide
  <2> QED
    BY <1>7, <2>1, FirstByPlace
<1>9. x.pick = IF open = {} THEN {} ELSE {k}
  BY <1>7, <1>8 DEF NextJob
<1>10. open # {} => i = k /\ x.pick # {}
  BY <1>9 DEF Picked
<1>11. open # {} => k \in DOMAIN d.jobs /\ d.jobs[k].org = c.org
  BY <1>9 DEF Locks, Its, Mine
<1>12. open # {} => wiped[k] = swept[i]
  BY <1>4, <1>10, <1>11
<1> HIDE DEF open, k, i, wide, sql, memory
<1>13. sql.answer = memory.answer
  BY <1>1, <1>2, <1>9, <1>10, <1>12 DEF Given
<1>14. ASSUME NEW j \in DOMAIN d.jobs, d.jobs[j].org = c.org PROVE memory.store.jobs[j] = sql.store.jobs[j]
  <2>1. CASE open = {}
    BY <1>1, <1>2, <1>4, <1>9, <1>14, <2>1
  <2>2. CASE open # {}
    <3>1. /\ sql.store.jobs = WithJob(swept, k, Leased(swept[k]))
          /\ memory.store.jobs = WithJob(wiped, k, Leased(swept[k]))
      BY <1>1, <1>2, <1>10, <1>12, <2>2
    <3> QED
      BY <1>3, <1>4, <1>14, <3>1 DEF WithJob
  <2> QED
    BY <2>1, <2>2
<1> QED
  BY <1>13, <1>14 DEF sql, memory

LEMMA JobsInStep ==
  ASSUME NEW c, NEW d, NEW m, NEW x, NEW apart, NEW excused \in BOOLEAN, c.op \in JobOps,
         Equal(d, m), SameJobs(d, m, apart), IsFiniteSet(DOMAIN d.jobs),
         \A j \in DOMAIN d.jobs : JobOk(d.jobs[j]), \A j \in DOMAIN m.jobs : JobOk(m.jobs[j]),
         c.op = "createAiWorkerJob" => c.id \notin DOMAIN d.jobs,
         c.op = "completeAiWorkerJob" => Silent(c),
         c.op = "leaseAiWorkerJob" => Locks(c, d, x),
         ~excused => /\ <<"jobs", c.org>> \notin apart
                     /\ c.op = "leaseAiWorkerJob" => x.found = Overdue(d, c) /\ x.pick = NextJob(d, c, x.found)
  PROVE  LET sql == SqlAiJobs(c, d, x)
             memory == AiWorkers(c, m)
         IN /\ ~sql.refused /\ (~excused => Agree(c, sql, memory))
            /\ Frame(d, sql.store, {"jobs"}) /\ Frame(m, memory.store, {"jobs"})
            /\ SameJobs(sql.store, memory.store, Beyond(apart, <<"jobs", c.org>>, excused))
            /\ JobsChange(c, d.jobs, sql.store.jobs) /\ JobsChange(c, m.jobs, memory.store.jobs)
<1> DEFINE sql == SqlAiJobs(c, d, x)
           memory == AiWorkers(c, m)
           beyond == Beyond(apart, <<"jobs", c.org>>, excused)
<1>1. "jobs" \in DOMAIN d /\ "jobs" \in DOMAIN m
  BY DEF Equal, Tables
<1>2. /\ DOMAIN m.jobs = DOMAIN d.jobs /\ \A j \in DOMAIN d.jobs : m.jobs[j].org = d.jobs[j].org
      /\ ~excused => \A j \in DOMAIN d.jobs : d.jobs[j].org = c.org => m.jobs[j] = d.jobs[j]
  BY DEF SameJobs
<1>3. \A a, b : Agree(c, a, b) <=> a.answer = b.answer /\ a.refused = b.refused
  BY DEF Agree, JobOps
<1>4. CASE c.op = "listAiWorkerJobs"
  <2>1. sql = List(d, "jobs", c) /\ memory = List(m, "jobs", c)
    BY <1>4 DEF SqlAiJobs, AiWorkers
  <2>2. /\ sql.store = d /\ sql.refused = FALSE /\ sql.answer = {Record(i, d.jobs[i]) : i \in Mine(d, "jobs", c)}
        /\ memory.store = m /\ memory.refused = FALSE /\ memory.answer = {Record(i, m.jobs[i]) : i \in Mine(m, "jobs", c)}
    BY <2>1 DEF List, Result
  <2>3. ~excused => sql.answer = memory.answer
    <3>1. Mine(m, "jobs", c) = Mine(d, "jobs", c)
      BY <1>2 DEF Mine
    <3>2. ~excused => \A i \in Mine(d, "jobs", c) : m.jobs[i] = d.jobs[i]
      BY <1>2 DEF Mine
    <3> QED
      BY <2>2, <3>1, <3>2
  <2>4. JobsChange(c, d.jobs, d.jobs) /\ JobsChange(c, m.jobs, m.jobs)
    BY <1>4, JobsStay
  <2> HIDE DEF sql, memory
  <2>5. SameJobs(sql.store, memory.store, beyond)
    BY <1>2, <2>2, <2>4, JobsTogether
  <2> QED
    BY <1>3, <2>2, <2>3, <2>4, <2>5, SameFrame DEF sql, memory
<1>5. CASE c.op = "createAiWorkerJob"
  <2> DEFINE val == [status |-> "queued", expired |-> FALSE, attempt |-> 0, place |-> Cardinality(DOMAIN d.jobs)]
             row == RowOf(c, val)
  <2>1. c.id \notin DOMAIN d.jobs
    BY <1>5
  <2>2. /\ AiWorkers(c, d) = Result(Keep(d, "jobs", c.id, row), {Record(c.id, row)})
        /\ Keep(d, "jobs", c.id, row).jobs = [i \in DOMAIN d.jobs \cup {c.id} |-> IF i = c.id THEN row ELSE d.jobs[i]]
        /\ JobsChange(c, d.jobs, Keep(d, "jobs", c.id, row).jobs)
    BY <1>1, <1>5, <2>1, JobCreated
  <2>3. /\ AiWorkers(c, m) = Result(Keep(m, "jobs", c.id, row), {Record(c.id, row)})
        /\ Keep(m, "jobs", c.id, row).jobs = [i \in DOMAIN m.jobs \cup {c.id} |-> IF i = c.id THEN row ELSE m.jobs[i]]
        /\ JobsChange(c, m.jobs, Keep(m, "jobs", c.id, row).jobs)
    <3>1. c.id \notin DOMAIN m.jobs /\ IsFiniteSet(DOMAIN m.jobs) /\ DOMAIN m.jobs = DOMAIN d.jobs
      BY <1>2, <2>1
    <3> HIDE DEF row
    <3>2. row = RowOf(c, [status |-> "queued", expired |-> FALSE, attempt |-> 0, place |-> Cardinality(DOMAIN m.jobs)])
      BY <3>1 DEF row
    <3> QED
      BY <1>1, <1>5, <3>1, <3>2, JobCreated, SMTT(30)
  <2>4. sql = AiWorkers(c, d)
    BY <1>5 DEF SqlAiJobs
  <2> HIDE DEF row
  <2>5. Frame(d, Keep(d, "jobs", c.id, row), {"jobs"}) /\ Frame(m, Keep(m, "jobs", c.id, row), {"jobs"})
    BY KeepFrame
  <2>6. /\ sql.store = Keep(d, "jobs", c.id, row) /\ sql.answer = {Record(c.id, row)} /\ sql.refused = FALSE
        /\ memory.store = Keep(m, "jobs", c.id, row) /\ memory.answer = {Record(c.id, row)} /\ memory.refused = FALSE
    BY <2>2, <2>3, <2>4 DEF Result
  <2> HIDE DEF sql, memory
  <2>7. ~excused => \A j \in DOMAIN sql.store.jobs : sql.store.jobs[j].org = c.org => memory.store.jobs[j] = sql.store.jobs[j]
    BY <1>2, <2>2, <2>3, <2>6
  <2>8. SameJobs(sql.store, memory.store, beyond)
    BY <2>2, <2>3, <2>6, <2>7, JobsTogether
  <2> QED
    BY <1>3, <2>2, <2>3, <2>5, <2>6, <2>8 DEF sql, memory
<1>6. CASE c.op = "completeAiWorkerJob"
  <2> DEFINE row(s) == Patched(s.jobs[c.on], c.val)
             new(s) == WithJob(s.jobs, c.on, row(s))
             done(s) == c.on \in Mine(s, "jobs", c) /\ s.jobs[c.on].val.status = "leased"
  <2>1. sql = AiWorkers(c, d)
    BY <1>6 DEF SqlAiJobs
  <2>2. /\ sql.store.jobs = IF done(d) THEN new(d) ELSE d.jobs
        /\ sql.answer = Given(done(d), Record(c.on, row(d)))
        /\ sql.refused = FALSE /\ Frame(d, sql.store, {"jobs"}) /\ JobsChange(c, d.jobs, sql.store.jobs)
    <3>1. Completes(c, d)
      BY <1>1, <1>6, JobCompleted
    <3> QED
      BY <2>1, <3>1 DEF Completes
  <2>3. /\ memory.store.jobs = IF done(m) THEN new(m) ELSE m.jobs
        /\ memory.answer = Given(done(m), Record(c.on, row(m)))
        /\ memory.refused = FALSE /\ Frame(m, memory.store, {"jobs"}) /\ JobsChange(c, m.jobs, memory.store.jobs)
    <3>1. Completes(c, m)
      BY <1>1, <1>6, JobCompleted
    <3> QED
      BY <3>1 DEF Completes
  <2>4. Mine(m, "jobs", c) = Mine(d, "jobs", c)
    BY <1>2 DEF Mine
  <2>5. ~excused => (done(m) <=> done(d)) /\ (done(d) => m.jobs[c.on] = d.jobs[c.on] /\ row(m) = row(d))
    BY <1>2, <2>4 DEF Mine
  <2> HIDE DEF row, done, sql, memory
  <2>6. ~excused => sql.answer = memory.answer
    BY <2>2, <2>3, <2>5 DEF Given
  <2>7. ASSUME ~excused, NEW j \in DOMAIN sql.store.jobs, sql.store.jobs[j].org = c.org
        PROVE  memory.store.jobs[j] = sql.store.jobs[j]
    <3>1. j \in DOMAIN d.jobs /\ d.jobs[j].org = c.org /\ m.jobs[j] = d.jobs[j]
      BY <1>2, <1>6, <2>2, <2>7 DEF JobsChange
    <3>2. CASE done(d)
      BY <1>2, <2>2, <2>3, <2>5, <2>7, <3>1, <3>2 DEF WithJob
    <3>3. CASE ~done(d)
      BY <2>2, <2>3, <2>5, <2>7, <3>1, <3>3
    <3> QED
      BY <3>2, <3>3
  <2>8. SameJobs(sql.store, memory.store, beyond)
    BY <2>2, <2>3, <2>7, JobsTogether
  <2> QED
    BY <1>3, <2>2, <2>3, <2>6, <2>8 DEF sql, memory
<1>7. CASE c.op = "leaseAiWorkerJob"
  <2>1. sql.refused = FALSE /\ Frame(d, sql.store, {"jobs"}) /\ JobsChange(c, d.jobs, sql.store.jobs)
    BY <1>1, <1>7, SqlLease DEF LeasesInSql
  <2>2. memory.refused = FALSE /\ Frame(m, memory.store, {"jobs"}) /\ JobsChange(c, m.jobs, memory.store.jobs)
    BY <1>1, <1>7, MemoryLease DEF LeasesInMemory
  <2>3. ~excused => /\ sql.answer = memory.answer
                    /\ \A j \in DOMAIN d.jobs : d.jobs[j].org = c.org => memory.store.jobs[j] = sql.store.jobs[j]
    BY <1>1, <1>2, <1>7, LeasesAlike
  <2> HIDE DEF sql, memory
  <2>4. ~excused => \A j \in DOMAIN sql.store.jobs : sql.store.jobs[j].org = c.org => memory.store.jobs[j] = sql.store.jobs[j]
    BY <1>7, <2>1, <2>3 DEF JobsChange
  <2>5. SameJobs(sql.store, memory.store, beyond)
    BY <2>1, <2>2, <2>4, JobsTogether
  <2> QED
    BY <1>3, <2>1, <2>2, <2>3, <2>5 DEF sql, memory
<1> QED
  BY <1>4, <1>5, <1>6, <1>7 DEF JobOps

-----------------------------------------------------------------------------
(* What a handler knows when it comes to a call.                               *)

(* A member is added to the organization that was just created, and a manifest *)
(* is saved for the test that was just created or for one that is named.       *)
Preceded(route, ops) ==
  /\ \A i \in DOMAIN ops :
       /\ ops[i] = "addOrganizationMembership" => route = "postOrganizations"
       /\ ops[i] = "updateTestManifest" => IF i = 1 THEN route = "putManifest" ELSE ops[i - 1] = "createTest"
  /\ route = "postOrganizations" => ops = <<"createOrganization", "addOrganizationMembership">>

LEMMA PrecededRoutes ==
  ASSUME NEW x \in DOMAIN Routes
  PROVE  Preceded(x, Routes[x])
<1>1. PICK group \in RouteGroups : x \in DOMAIN group
  BY DEF Routes
<1> DEFINE chosen == CHOOSE g \in RouteGroups : x \in DOMAIN g
<1>2. chosen \in RouteGroups /\ x \in DOMAIN chosen /\ Routes[x] = chosen[x]
  BY <1>1 DEF Routes
<1> HIDE DEF chosen
<1>3. \A y \in DOMAIN SessionRoutes : Preceded(y, SessionRoutes[y])
  BY DEF SessionRoutes, Preceded
<1>4. \A y \in DOMAIN AccountRoutes : Preceded(y, AccountRoutes[y])
  BY DEF AccountRoutes, Preceded, Audit
<1>5. \A y \in DOMAIN PolicyRoutes : Preceded(y, PolicyRoutes[y])
  BY DEF PolicyRoutes, Preceded, Audit
<1>6. \A y \in DOMAIN AiWorkerRoutes : Preceded(y, AiWorkerRoutes[y])
  BY DEF AiWorkerRoutes, Preceded, Audit
<1>7. \A y \in DOMAIN PluginRoutes : Preceded(y, PluginRoutes[y])
  BY DEF PluginRoutes, Preceded, Audit
<1>8. \A y \in DOMAIN SecretRoutes : Preceded(y, SecretRoutes[y])
  BY DEF SecretRoutes, Preceded, Audit
<1>9. \A y \in DOMAIN TestRoutes : Preceded(y, TestRoutes[y])
  BY DEF TestRoutes, Preceded
<1>10. \A y \in DOMAIN RepositoryRoutes : Preceded(y, RepositoryRoutes[y])
  BY DEF RepositoryRoutes, Preceded
<1>11. \A y \in DOMAIN GitHubWriteRoutes : Preceded(y, GitHubWriteRoutes[y])
  BY DEF GitHubWriteRoutes, Preceded, Audit
<1>12. \A y \in DOMAIN ManifestRoutes : Preceded(y, ManifestRoutes[y])
  BY DEF ManifestRoutes, Preceded
<1>13. \A y \in DOMAIN ChangeRoutes : Preceded(y, ChangeRoutes[y])
  BY DEF ChangeRoutes, Preceded
<1>14. \A y \in DOMAIN ResultRoutes : Preceded(y, ResultRoutes[y])
  BY DEF ResultRoutes, Preceded
<1>15. \A y \in DOMAIN NotifyRoutes : Preceded(y, NotifyRoutes[y])
  BY DEF NotifyRoutes, Preceded
<1>16. \A y \in DOMAIN ArtifactRoutes : Preceded(y, ArtifactRoutes[y])
  BY DEF ArtifactRoutes, Preceded
<1>17. \A g \in RouteGroups : \A y \in DOMAIN g : Preceded(y, g[y])
  BY <1>3, <1>4, <1>5, <1>6, <1>7, <1>8, <1>9, <1>10, <1>11, <1>12, <1>13, <1>14, <1>15, <1>16 DEF RouteGroups
<1> QED
  BY <1>2, <1>17

(* The handler of r has the rest of its calls before it, told what it was answered. *)
Told(r) ==
  \E answer : \A i \in DOMAIN todo'[r] :
    i + 1 \in DOMAIN todo[r] /\ todo'[r][i] = Informed(Head(todo[r]), answer, todo[r][i + 1])

LEMMA AnsweredTold ==
  ASSUME Control, NEW r \in Request, status[r] = "busy", NEW result, Answered(r, Head(todo[r]), result),
         Head(todo[r]).op # "listArtifactsBefore"
  PROVE  Told(r) /\ (todo'[r] # <<>> => ~Failed(Head(todo[r]), result))
<1> DEFINE c == Head(todo[r])
           rest == Remaining(r, c, result)
           n == Len(todo[r]) - 1
           tail == [i \in 1 .. n |-> Informed(c, result.answer, todo[r][i + 1])]
<1>1. todo'[r] = rest
  BY DEF Control, Answered
<1>2. n \in Nat /\ DOMAIN todo[r] = 1 .. (n + 1)
  BY BusyFacts
<1>3. rest = <<>> \/ (rest = tail /\ ~Failed(c, result))
  BY DEF Remaining
<1>4. CASE rest = <<>>
  <2>1. DOMAIN todo'[r] = {}
    BY <1>1, <1>4
  <2> QED
    BY <1>1, <1>4, <2>1 DEF Told
<1>5. CASE rest # <<>>
  <2>1. \A i \in 1 .. n : i + 1 \in 1 .. (n + 1)
    BY <1>2
  <2>2. DOMAIN tail = 1 .. n /\ \A i \in 1 .. n : tail[i] = Informed(c, result.answer, todo[r][i + 1])
    OBVIOUS
  <2> HIDE DEF tail, n, rest
  <2> QED
    BY <1>1, <1>2, <1>3, <1>5, <2>1, <2>2 DEF Told
<1> QED
  BY <1>4, <1>5

LEMMA EndsTold ==
  ASSUME NEW r, todo'[r] = <<>>
  PROVE  Told(r)
<1>1. DOMAIN todo'[r] = {}
  OBVIOUS
<1> QED
  BY <1>1 DEF Told

LEMMA InformedOf ==
  ASSUME NEW c, NEW answer, NEW next, DOMAIN next = CallFields
  PROVE  LET told == Informed(c, answer, next)
         IN /\ c.op # "upsertGitHubUser" => told.of = next.of
            /\ c.op = "createOrganization" => told.org = c.id
            /\ c.op = "createTest" => told.on = c.id
<1>1. c.op = "createOrganization" => Informed(c, answer, next) = [next EXCEPT !.org = c.id]
  BY DEF Informed, Creates
<1>2. c.op = "createTest" => Informed(c, answer, next) = [next EXCEPT !.on = c.id]
  BY DEF Informed, Creates
<1>3. c.op # "upsertGitHubUser" =>
        \/ Informed(c, answer, next) \in {next, [next EXCEPT !.org = c.id], [next EXCEPT !.on = c.id], [next EXCEPT !.on = c.of]}
  BY DEF Informed
<1>4. \A v : /\ [next EXCEPT !.org = v].of = next.of /\ [next EXCEPT !.org = v].org = v
             /\ [next EXCEPT !.on = v].of = next.of /\ [next EXCEPT !.on = v].on = v
  BY DEF CallFields
<1> QED
  BY <1>1, <1>2, <1>3, <1>4, ZenonT(60)

-----------------------------------------------------------------------------
(* What a statement may have changed.                                          *)

(* Each table is written by the methods of its part alone. *)
LEMMA PartFrame ==
  ASSUME NEW c, NEW d, NEW x, InRepository(c), Tables \subseteq DOMAIN d
  PROVE  LET s == Statement(c, d, x).store
         IN /\ DOMAIN s = DOMAIN d
            /\ c.op \notin Methods.accounts => \A t \in AccountTables : s[t] = d[t]
            /\ c.op \notin Methods.tests => s.tests = d.tests
            /\ c.op \notin Methods.manifests => s.versions = d.versions
            /\ c.op \notin Methods.results => s.results = d.results
            /\ c.op \notin Methods.policies => s.policies = d.policies
            /\ c.op \notin Methods.plugins => s.plugins = d.plugins /\ s.pluginVersions = d.pluginVersions
            /\ c.op \notin JobOps => s.jobs = d.jobs
<1> DEFINE s == Statement(c, d, x).store
           Wide(T) == /\ "tests" \notin T => s.tests = d.tests
                      /\ "versions" \notin T => s.versions = d.versions
                      /\ "results" \notin T => s.results = d.results
                      /\ "policies" \notin T => s.policies = d.policies
                      /\ "plugins" \notin T => s.plugins = d.plugins /\ s.pluginVersions = d.pluginVersions
                      /\ AccountTables \cap T = {} => \A t \in AccountTables : s[t] = d[t]
<1>1. /\ "tests" \in DOMAIN d /\ "versions" \in DOMAIN d /\ "results" \in DOMAIN d /\ "policies" \in DOMAIN d
      /\ "plugins" \in DOMAIN d /\ "pluginVersions" \in DOMAIN d /\ AccountTables \subseteq DOMAIN d
  BY DEF Tables, AccountTables
<1>2. ASSUME NEW T, Frame(d, s, T), "pluginVersions" \in T => "plugins" \in T PROVE Wide(T)
  BY <1>1, <1>2 DEF Frame
<1>3. DOMAIN s = DOMAIN d /\ (c.op \notin JobWrites => s.jobs = d.jobs)
  BY StatementFrame
<1>4. c.op \notin JobOps => s.jobs = d.jobs
  BY <1>3 DEF JobWrites, JobOps
<1> HIDE DEF s, Wide
<1>5. CASE c.op \in Methods.accounts
  <2>1. Statement(c, d, x) = SqlAccounts(c, d)
    BY <1>5 DEF Statement, Methods
  <2>2. Wide(AccountTables)
    BY <1>2, <1>5, <2>1, AccountsFrame DEF AccountTables, s
  <2> QED
    BY <1>3, <1>4, <1>5, <2>2 DEF Wide, AccountTables, s
<1>6. CASE c.op \in Methods.tests
  <2>1. Wide({"projects", "tests"})
    BY <1>2, <1>6, TestsFrame DEF Statement, Methods, s
  <2> QED
    BY <1>3, <1>4, <1>6, <2>1 DEF Wide, AccountTables, s
<1>7. CASE c.op \in Methods.manifests
  <2>1. Statement(c, d, x) = SqlManifests(c, d, x)
    BY <1>7 DEF Statement, Methods
  <2>2. Wide({"versions"})
    BY <1>2, <1>7, <2>1, ManifestsFrame DEF s
  <2> QED
    BY <1>3, <1>4, <1>7, <2>2 DEF Wide, AccountTables, s
<1>8. CASE c.op \in Methods.runs
  <2>1. Wide({"runs"})
    BY <1>2, <1>8, RunsFrame DEF Statement, Methods, s
  <2> QED
    BY <1>3, <1>4, <2>1 DEF Wide, AccountTables, s
<1>9. CASE c.op \in Methods.results
  <2>1. Wide({"results", "steps"})
    BY <1>2, <1>9, ResultsFrame DEF Statement, Methods, s
  <2> QED
    BY <1>3, <1>4, <1>9, <2>1 DEF Wide, AccountTables, s
<1>10. CASE c.op \in Methods.artifacts
  <2>1. Statement(c, d, x) = SqlArtifacts(c, d)
    BY <1>10 DEF Statement, Methods
  <2>2. Wide({"artifacts", "audit"})
    BY <1>2, <1>10, <2>1, ArtifactsFrame DEF s
  <2> QED
    BY <1>3, <1>4, <2>2 DEF Wide, AccountTables, s
<1>11. CASE c.op \in Methods.policies
  <2>1. Wide({"policies"})
    BY <1>2, <1>11, PoliciesFrame DEF Statement, Methods, s
  <2> QED
    BY <1>3, <1>4, <1>11, <2>1 DEF Wide, AccountTables, s
<1>12. CASE c.op \in Methods.workers
  <2>1. Statement(c, d, x) = SqlAiJobs(c, d, x)
    BY <1>12 DEF Statement, Methods
  <2>2. Wide({"workers", "jobs"})
    BY <1>2, <1>12, <2>1, WorkersFrame DEF s
  <2> QED
    BY <1>3, <1>4, <2>2 DEF Wide, AccountTables, s
<1>13. CASE c.op \in Methods.plugins
  <2>1. Wide({"plugins", "pluginVersions"})
    BY <1>2, <1>13, PluginsFrame DEF Statement, Methods, s
  <2> QED
    BY <1>3, <1>4, <1>13, <2>1 DEF Wide, AccountTables, s
<1>14. CASE c.op \in Methods.secrets
  <2>1. Wide({"secrets"})
    BY <1>2, <1>14, SecretsFrame DEF Statement, Methods, s
  <2> QED
    BY <1>3, <1>4, <2>1 DEF Wide, AccountTables, s
<1>15. CASE c.op \in Methods.changes
  <2>1. Wide(ChangeTables)
    BY <1>2, <1>15, ChangesFrame DEF Statement, Methods, ChangeTables, s
  <2> QED
    BY <1>3, <1>4, <2>1 DEF Wide, AccountTables, ChangeTables, s
<1>16. DOMAIN Methods = {"accounts", "tests", "manifests", "runs", "results", "artifacts", "policies",
                         "workers", "plugins", "secrets", "changes"}
  BY DEF Methods
<1> QED
  BY <1>5, <1>6, <1>7, <1>8, <1>9, <1>10, <1>11, <1>12, <1>13, <1>14, <1>15, <1>16 DEF InRepository

(* A table to which only one method adds a record, of the identifier it brings. *)
Grows(old, new, c, op) ==
  /\ c.op # op => new = old
  /\ DOMAIN old \subseteq DOMAIN new /\ DOMAIN new \subseteq DOMAIN old \cup {c.id}
  /\ \A i \in DOMAIN old : i # c.id => new[i] = old[i]
WritesMembers(c, d, s) ==
  \A e \in DOMAIN s.members : e \in DOMAIN d.members \/ (c.op = "addOrganizationMembership" /\ e = <<c.org, c.of>>)
WritesPluginVersions(c, d, s) ==
  \A v \in DOMAIN s.pluginVersions :
    \/ v \in DOMAIN d.pluginVersions /\ s.pluginVersions[v] = d.pluginVersions[v]
    \/ s.pluginVersions[v].of = c.on /\ s.pluginVersions[v].org = c.org /\ c.on \in Mine(d, "plugins", c)
WritesVersions(c, d, s) ==
  /\ Grows(d.versions, s.versions, c, "updateTestManifest")
  /\ c.id \in DOMAIN s.versions => s.versions[c.id].of = c.on \/ s.versions = d.versions
WritesResults(c, x, d, s) ==
  \/ s.results = d.results
  \/ /\ c.op = "saveRunResult" /\ DOMAIN s.results = (DOMAIN d.results \ x.found) \cup {c.id}
     /\ s.results[c.id].of = c.on /\ \A i \in DOMAIN d.results \ x.found : i # c.id => s.results[i] = d.results[i]
WritesPolicies(c, d, s) ==
  \/ s.policies = d.policies
  \/ /\ c.op \in Methods.policies /\ DOMAIN s.policies = DOMAIN d.policies \cup {c.org}
     /\ \A o \in DOMAIN d.policies : o # c.org => s.policies[o] = d.policies[o]
Written(c, x, d, s) ==
  /\ DOMAIN s = DOMAIN d
  /\ Grows(d.tests, s.tests, c, "createTest") /\ Grows(d.plugins, s.plugins, c, "createPlugin")
  /\ Grows(d.organizations, s.organizations, c, "createOrganization")
  /\ DOMAIN d.users \subseteq DOMAIN s.users
  /\ WritesMembers(c, d, s) /\ WritesPluginVersions(c, d, s)
  /\ WritesVersions(c, d, s) /\ WritesResults(c, x, d, s) /\ WritesPolicies(c, d, s)
  /\ c.op \notin JobOps => s.jobs = d.jobs

LEMMA KeepGrows ==
  ASSUME NEW d, NEW t \in DOMAIN d, NEW c, NEW row
  PROVE  /\ Grows(d[t], Keep(d, t, c.id, row)[t], c, c.op)
         /\ c.id \in DOMAIN Keep(d, t, c.id, row)[t] /\ Keep(d, t, c.id, row)[t][c.id] = row
BY DEF Grows, Keep

LEMMA SameGrows == \A old, c, op : Grows(old, old, c, op)
BY DEF Grows

LEMMA AccountsWrite ==
  ASSUME NEW c, NEW d, c.op \in Methods.accounts, Tables \subseteq DOMAIN d, DOMAIN c = CallFields
  PROVE  LET s == SqlAccounts(c, d).store
         IN /\ Grows(d.organizations, s.organizations, c, "createOrganization")
            /\ DOMAIN d.users \subseteq DOMAIN s.users /\ WritesMembers(c, d, s)
            /\ c.op = "createOrganization" => c.id \in DOMAIN s.organizations
<1> DEFINE s == SqlAccounts(c, d).store
<1>1. "organizations" \in DOMAIN d /\ "users" \in DOMAIN d /\ "members" \in DOMAIN d
  BY DEF Tables
<1>2. \A i, row : /\ Frame(d, Keep(d, "organizations", i, row), {"organizations"})
                  /\ Frame(d, Keep(d, "users", i, row), {"users"})
                  /\ Frame(d, Keep(d, "members", i, row), {"members"})
                  /\ Frame(d, Keep(d, "sessions", i, row), {"sessions"})
  BY KeepFrame
<1>3. \A i, row : /\ DOMAIN Keep(d, "users", i, row).users = DOMAIN d.users \cup {i}
                  /\ DOMAIN Keep(d, "members", i, row).members = DOMAIN d.members \cup {i}
  BY <1>1 DEF Keep
<1>4. CASE c.op = "createOrganization"
  <2> DEFINE k == [c EXCEPT !.org = c.id]
  <2>1. s = Keep(d, "organizations", k.id, RowOf(k, c.val)) /\ k.id = c.id
    BY <1>4 DEF SqlAccounts, Accounts, Insert, Result, CallFields
  <2> HIDE DEF k, s
  <2>2. /\ Grows(d["organizations"], s["organizations"], c, "createOrganization")
        /\ c.id \in DOMAIN s["organizations"]
    BY <1>1, <1>4, <2>1, KeepGrows
  <2>3. s.users = d.users /\ s.members = d.members
    BY <1>1, <1>2, <2>1 DEF Frame
  <2> QED
    BY <2>2, <2>3 DEF s, WritesMembers
<1>5. CASE c.op = "upsertGitHubUser"
  <2>1. \E u, row : s = Keep(d, "users", u, row)
    BY <1>5 DEF SqlAccounts, Insert, Result
  <2> HIDE DEF s
  <2>2. s.organizations = d.organizations /\ s.members = d.members /\ DOMAIN d.users \subseteq DOMAIN s.users
    BY <1>1, <1>2, <1>3, <2>1 DEF Frame
  <2> QED
    BY <1>5, <2>2, SameGrows DEF s, WritesMembers
<1>6. CASE c.op = "createAuthSession"
  <2>1. \E i, row : s = Keep(d, "sessions", i, row)
    BY <1>6 DEF SqlAccounts, Accounts, Insert, Result
  <2> HIDE DEF s
  <2>2. s.organizations = d.organizations /\ s.members = d.members /\ s.users = d.users
    BY <1>1, <1>2, <2>1 DEF Frame
  <2> QED
    BY <1>6, <2>2, SameGrows DEF s, WritesMembers
<1>7. CASE c.op = "addOrganizationMembership"
  <2>1. s = d \/ \E row : s = Keep(d, "members", <<c.org, c.of>>, row)
    BY <1>7 DEF SqlAccounts, Accounts, Result, Missing
  <2> HIDE DEF s
  <2>2. /\ s.organizations = d.organizations /\ s.users = d.users
        /\ DOMAIN s.members \subseteq DOMAIN d.members \cup {<<c.org, c.of>>}
    BY <1>1, <1>2, <1>3, <2>1 DEF Frame
  <2> QED
    BY <1>7, <2>2, SameGrows DEF s, WritesMembers
<1>8. CASE c.op \in {"getAuthSession", "isOrganizationMember", "listOrganizationsForUser", "listOrganizationMembers", "getOrganization"}
  <2>1. s = d
    BY <1>8 DEF SqlAccounts, Accounts, Result, List
  <2> HIDE DEF s
  <2> QED
    BY <1>8, <2>1, SameGrows DEF s, WritesMembers
<1> QED
  BY <1>4, <1>5, <1>6, <1>7, <1>8 DEF Methods

LEMMA TestsWrite ==
  ASSUME NEW c, NEW d, c.op \in Methods.tests, Tables \subseteq DOMAIN d
  PROVE  LET sql == ProjectsAndTests(c, d)
         IN /\ Grows(d.tests, sql.store.tests, c, "createTest")
            /\ c.op = "createTest" /\ ~sql.refused => c.id \in DOMAIN sql.store.tests
<1> DEFINE sql == ProjectsAndTests(c, d)
<1>1. "tests" \in DOMAIN d /\ "projects" \in DOMAIN d
  BY DEF Tables
<1>2. CASE c.op = "createTest"
  <2>1. \/ sql.store = d /\ sql.refused
        \/ sql.store = Keep(d, "tests", c.id, RowOf(c, c.val))
    BY <1>2 DEF ProjectsAndTests, Insert, Refused, Result
  <2>2. /\ Grows(d["tests"], Keep(d, "tests", c.id, RowOf(c, c.val))["tests"], c, "createTest")
        /\ c.id \in DOMAIN Keep(d, "tests", c.id, RowOf(c, c.val))["tests"]
    BY <1>1, <1>2, KeepGrows
  <2> HIDE DEF sql
  <2> QED
    BY <2>1, <2>2, SameGrows DEF sql
<1>3. CASE c.op # "createTest"
  <2>1. Frame(d, sql.store, {"projects"})
    <3>1. CASE c.op = "createProject"
      BY <3>1, InsertFrame DEF ProjectsAndTests
    <3>2. CASE c.op \in {"listProjects", "getProject", "listTests", "getTest"}
      BY <3>2, AnswersFrame DEF ProjectsAndTests
    <3> QED
      BY <1>3, <3>1, <3>2 DEF Methods
  <2> HIDE DEF sql
  <2>2. sql.store.tests = d.tests
    BY <1>1, <2>1 DEF Frame
  <2> QED
    BY <1>3, <2>2, SameGrows DEF sql
<1> QED
  BY <1>2, <1>3

LEMMA PluginsWrite ==
  ASSUME NEW c, NEW d, c.op \in Methods.plugins, Tables \subseteq DOMAIN d, DOMAIN c = CallFields
  PROVE  LET s == SqlPlugins(c, d).store
         IN Grows(d.plugins, s.plugins, c, "createPlugin") /\ WritesPluginVersions(c, d, s)
<1> DEFINE s == SqlPlugins(c, d).store
<1>1. "plugins" \in DOMAIN d /\ "pluginVersions" \in DOMAIN d
  BY DEF Tables
<1>2. CASE s = d
  <2> HIDE DEF s
  <2> QED
    BY <1>2, SameGrows DEF s, WritesPluginVersions
<1>3. CASE c.op = "createPlugin" /\ s # d
  <2>1. s = Keep(d, "plugins", c.id, RowOf(c, c.val))
    BY <1>3 DEF SqlPlugins, Plugins, Insert, Result
  <2> HIDE DEF s
  <2>2. Grows(d["plugins"], s["plugins"], c, "createPlugin")
    BY <1>1, <1>3, <2>1, KeepGrows
  <2>3. s.pluginVersions = d.pluginVersions
    BY <1>1, <2>1, KeepFrame DEF Frame
  <2> QED
    BY <2>2, <2>3 DEF s, WritesPluginVersions
<1>4. CASE c.op = "publishPluginVersion" /\ s # d
  <2> DEFINE k == [c EXCEPT !.of = c.on, !.key = c.val.version]
             row == RowOf(k, c.val)
  <2>1. k.id = c.id /\ row.of = c.on /\ row.org = c.org
    BY DEF CallFields, RowOf
  <2>2. s = Keep(d, "pluginVersions", k.id, row) /\ c.on \in Mine(d, "plugins", c)
    BY <1>4 DEF SqlPlugins, Insert, Refused, Missing, Result
  <2> HIDE DEF s, k, row
  <2>3. s.plugins = d.plugins
    BY <1>1, <2>2, KeepFrame DEF Frame
  <2>4. /\ \A v \in DOMAIN s.pluginVersions : v # c.id => v \in DOMAIN d.pluginVersions /\ s.pluginVersions[v] = d.pluginVersions[v]
        /\ s.pluginVersions[c.id] = row
    BY <1>1, <2>1, <2>2 DEF Keep
  <2>5. WritesPluginVersions(c, d, s)
    BY <2>1, <2>2, <2>4 DEF WritesPluginVersions
  <2> QED
    BY <1>4, <2>3, <2>5, SameGrows DEF s
<1>5. c.op \in {"listPlugins", "listPluginVersions"} => s = d
  BY DEF SqlPlugins, Plugins, List, Result
<1> QED
  BY <1>2, <1>3, <1>4, <1>5 DEF Methods

LEMMA ManifestsWrite ==
  ASSUME NEW c, NEW d, NEW x, c.op \in Methods.manifests, Tables \subseteq DOMAIN d, DOMAIN c = CallFields
  PROVE  WritesVersions(c, d, SqlManifests(c, d, x).store)
<1> DEFINE s == SqlManifests(c, d, x).store
           row == RowOf([c EXCEPT !.of = c.on], [at |-> CreatedAt(x), after |-> x.seen])
<1>1. s = d \/ (c.op = "updateTestManifest" /\ s = Keep(d, "versions", c.id, row))
  BY DEF SqlManifests, Methods, Missing, Result
<1>2. row.of = c.on /\ "versions" \in DOMAIN d
  BY DEF RowOf, CallFields, Tables
<1> HIDE DEF s, row
<1>3. CASE s = d
  BY <1>3, SameGrows DEF WritesVersions, s
<1>4. CASE c.op = "updateTestManifest" /\ s = Keep(d, "versions", c.id, row)
  <2>1. Grows(d["versions"], s["versions"], c, "updateTestManifest") /\ s["versions"][c.id] = row
    BY <1>2, <1>4, KeepGrows
  <2> QED
    BY <1>2, <2>1 DEF WritesVersions, s
<1> QED
  BY <1>1, <1>3, <1>4

LEMMA ResultsWrite ==
  ASSUME NEW c, NEW d, NEW x, c.op \in Methods.results, Tables \subseteq DOMAIN d, DOMAIN c = CallFields, "steps" \in DOMAIN d
  PROVE  WritesResults(c, x, d, SqlResults(c, d, x).store)
<1> DEFINE s == SqlResults(c, d, x).store
           others == DOMAIN d.results \ x.found
           rest == [i \in others |-> d.results[i]]
           row == RowOf([c EXCEPT !.of = c.on], {})
           steps == Over([k \in {<<c.on, y>> : y \in c.val.steps} |-> c.id], d.steps)
           kept == [d EXCEPT !.results = rest, !.steps = steps]
<1>1. CASE c.op = "getRunResult"
  <2>1. s = d
    BY <1>1 DEF SqlResults, Result
  <2> HIDE DEF s
  <2> QED
    BY <2>1 DEF WritesResults, s
<1>2. CASE c.op = "saveRunResult"
  <2>1. s = Keep(kept, "results", c.id, row)
    BY <1>2 DEF SqlResults, Result
  <2>2. row.of = c.on /\ "results" \in DOMAIN d
    BY DEF RowOf, CallFields, Tables
  <2> HIDE DEF s, row, rest, steps
  <2>3. kept.results = rest /\ "results" \in DOMAIN kept
    BY <2>2
  <2> HIDE DEF kept
  <2>4. s.results = [i \in DOMAIN rest \cup {c.id} |-> IF i = c.id THEN row ELSE rest[i]]
    BY <2>1, <2>3 DEF Keep
  <2>5. DOMAIN rest = others /\ \A i \in others : rest[i] = d.results[i]
    BY DEF rest
  <2> QED
    BY <1>2, <2>2, <2>4, <2>5 DEF WritesResults, s
<1> QED
  BY <1>1, <1>2 DEF Methods

LEMMA PoliciesWrite ==
  ASSUME NEW c, NEW d, NEW x, c.op \in Methods.policies, Tables \subseteq DOMAIN d
  PROVE  WritesPolicies(c, d, SqlStoragePolicies(c, d, x).store)
<1> DEFINE s == SqlStoragePolicies(c, d, x).store
<1>1. s = d \/ \E policy : s = Keep(d, "policies", c.org, policy)
  BY DEF SqlStoragePolicies, Refused, Result
<1>2. "policies" \in DOMAIN d
  BY DEF Tables
<1> HIDE DEF s
<1>3. CASE s = d
  BY <1>3 DEF WritesPolicies, s
<1>4. ASSUME NEW policy, s = Keep(d, "policies", c.org, policy) PROVE WritesPolicies(c, d, s)
  BY <1>2, <1>4 DEF WritesPolicies, Keep
<1> QED
  BY <1>1, <1>3, <1>4 DEF s

LEMMA StatementWrites ==
  ASSUME NEW c, NEW d, NEW x, InRepository(c), Tables \subseteq DOMAIN d, "steps" \in DOMAIN d, DOMAIN c = CallFields
  PROVE  Written(c, x, d, Statement(c, d, x).store)
<1> DEFINE s == Statement(c, d, x).store
<1>1. /\ DOMAIN s = DOMAIN d
      /\ c.op \notin Methods.accounts => \A t \in AccountTables : s[t] = d[t]
      /\ c.op \notin Methods.tests => s.tests = d.tests
      /\ c.op \notin Methods.manifests => s.versions = d.versions
      /\ c.op \notin Methods.results => s.results = d.results
      /\ c.op \notin Methods.policies => s.policies = d.policies
      /\ c.op \notin Methods.plugins => s.plugins = d.plugins /\ s.pluginVersions = d.pluginVersions
      /\ c.op \notin JobOps => s.jobs = d.jobs
  BY PartFrame
<1>2. /\ Grows(d.organizations, s.organizations, c, "createOrganization")
      /\ DOMAIN d.users \subseteq DOMAIN s.users /\ WritesMembers(c, d, s)
  <2>1. CASE c.op \in Methods.accounts
    <3>1. Statement(c, d, x) = SqlAccounts(c, d)
      BY <2>1 DEF Statement, Methods
    <3> QED
      BY <2>1, <3>1, AccountsWrite
  <2>2. CASE c.op \notin Methods.accounts
    <3>1. s.organizations = d.organizations /\ s.users = d.users /\ s.members = d.members
      BY <1>1, <2>2 DEF AccountTables
    <3> HIDE DEF s
    <3> QED
      BY <3>1, SameGrows DEF WritesMembers, s
  <2> QED
    BY <2>1, <2>2
<1>3. Grows(d.tests, s.tests, c, "createTest")
  <2>1. CASE c.op \in Methods.tests
    <3>1. Statement(c, d, x) = ProjectsAndTests(c, d)
      BY <2>1 DEF Statement, Methods
    <3> QED
      BY <2>1, <3>1, TestsWrite
  <2> QED
    BY <1>1, <2>1, SameGrows
<1>4. WritesVersions(c, d, s)
  <2>1. CASE c.op \in Methods.manifests
    <3>1. Statement(c, d, x) = SqlManifests(c, d, x)
      BY <2>1 DEF Statement, Methods
    <3> QED
      BY <2>1, <3>1, ManifestsWrite
  <2>2. CASE c.op \notin Methods.manifests
    <3>1. s.versions = d.versions
      BY <1>1, <2>2
    <3> HIDE DEF s
    <3> QED
      BY <3>1, SameGrows DEF WritesVersions, s
  <2> QED
    BY <2>1, <2>2
<1>5. WritesResults(c, x, d, s)
  <2>1. CASE c.op \in Methods.results
    <3>1. Statement(c, d, x) = SqlResults(c, d, x)
      BY <2>1 DEF Statement, Methods
    <3> QED
      BY <2>1, <3>1, ResultsWrite
  <2>2. CASE c.op \notin Methods.results
    BY <1>1, <2>2 DEF WritesResults
  <2> QED
    BY <2>1, <2>2
<1>6. WritesPolicies(c, d, s)
  <2>1. CASE c.op \in Methods.policies
    <3>1. Statement(c, d, x) = SqlStoragePolicies(c, d, x)
      BY <2>1 DEF Statement, Methods
    <3> QED
      BY <2>1, <3>1, PoliciesWrite
  <2>2. CASE c.op \notin Methods.policies
    BY <1>1, <2>2 DEF WritesPolicies
  <2> QED
    BY <2>1, <2>2
<1>7. Grows(d.plugins, s.plugins, c, "createPlugin") /\ WritesPluginVersions(c, d, s)
  <2>1. CASE c.op \in Methods.plugins
    <3>1. Statement(c, d, x) = SqlPlugins(c, d)
      BY <2>1 DEF Statement, Methods
    <3> QED
      BY <2>1, <3>1, PluginsWrite
  <2>2. CASE c.op \notin Methods.plugins
    <3>1. s.plugins = d.plugins /\ s.pluginVersions = d.pluginVersions
      BY <1>1, <2>2
    <3> HIDE DEF s
    <3> QED
      BY <3>1, SameGrows DEF WritesPluginVersions, s
  <2> QED
    BY <2>1, <2>2
<1> HIDE DEF s
<1> QED
  BY <1>1, <1>2, <1>3, <1>4, <1>5, <1>6, <1>7 DEF Written, s

(* What a row belongs to stays there. *)
LEMMA ReferencedKept ==
  ASSUME NEW c, NEW x, NEW d, NEW m, NEW s, NEW t, Referenced(d, m), Written(c, x, d, s),
         c.op = "createTest" => c.id \notin DOMAIN d.tests,
         c.op = "createPlugin" => c.id \notin DOMAIN d.plugins,
         c.op = "addOrganizationMembership" => c.org \in DOMAIN d.organizations,
         \A v \in DOMAIN s.versions : s.versions[v].of \in DOMAIN d.tests /\ d.tests[s.versions[v].of].org = s.versions[v].org,
         DOMAIN t.versions \subseteq DOMAIN d.tests
  PROVE  Referenced(s, t)
<1>1. /\ DOMAIN d.tests \subseteq DOMAIN s.tests /\ \A i \in DOMAIN d.tests : s.tests[i] = d.tests[i]
      /\ DOMAIN d.plugins \subseteq DOMAIN s.plugins /\ \A i \in DOMAIN d.plugins : s.plugins[i] = d.plugins[i]
      /\ DOMAIN d.organizations \subseteq DOMAIN s.organizations
  BY DEF Written, Grows
<1>2. \A v \in DOMAIN s.versions : s.versions[v].of \in DOMAIN s.tests /\ s.tests[s.versions[v].of].org = s.versions[v].org
  BY <1>1
<1>3. ASSUME NEW v \in DOMAIN s.pluginVersions
      PROVE  LET plugin == s.pluginVersions[v].of
             IN plugin \in DOMAIN s.plugins /\ s.plugins[plugin].org = s.pluginVersions[v].org
  <2>1. CASE v \in DOMAIN d.pluginVersions /\ s.pluginVersions[v] = d.pluginVersions[v]
    BY <1>1, <2>1 DEF Referenced
  <2>2. CASE s.pluginVersions[v].of = c.on /\ s.pluginVersions[v].org = c.org /\ c.on \in Mine(d, "plugins", c)
    BY <1>1, <2>2 DEF Mine
  <2> QED
    BY <2>1, <2>2 DEF Written, WritesPluginVersions
<1>4. ASSUME NEW e \in DOMAIN s.members PROVE e = <<e[1], e[2]>> /\ e[1] \in DOMAIN s.organizations
  <2>1. CASE e \in DOMAIN d.members
    BY <1>1, <2>1 DEF Referenced
  <2>2. CASE c.op = "addOrganizationMembership" /\ e = <<c.org, c.of>>
    BY <1>1, <2>2
  <2> QED
    BY <2>1, <2>2 DEF Written, WritesMembers
<1> QED
  BY <1>1, <1>2, <1>3, <1>4 DEF Referenced

(* The data stay the same where nothing is written, and may come apart further. *)
LEMMA SameElsewhere ==
  ASSUME NEW d, NEW m, NEW s, NEW t, NEW apart, NEW beyond, apart \subseteq beyond
  PROVE  /\ SameReports(d, m, apart) /\ s.results = d.results /\ s.steps = d.steps /\ t.results = m.results
              => SameReports(s, t, beyond)
         /\ SamePolicies(d, m, apart) /\ s.policies = d.policies /\ t.policies = m.policies => SamePolicies(s, t, beyond)
         /\ SameJobs(d, m, apart) /\ s.jobs = d.jobs /\ t.jobs = m.jobs => SameJobs(s, t, beyond)
         /\ SameVersions(d, m, apart) /\ s.versions = d.versions /\ t.versions = m.versions /\ s.tests = d.tests
              => SameVersions(s, t, beyond)
<1>1. ASSUME SameReports(d, m, apart), s.results = d.results, s.steps = d.steps, t.results = m.results
      PROVE  SameReports(s, t, beyond)
  <2>1. \A run : SameReport(d, m, run) => SameReport(s, t, run)
    BY <1>1 DEF SameReport
  <2> QED
    BY <1>1, <2>1 DEF SameReports
<1>2. ASSUME SamePolicies(d, m, apart), s.policies = d.policies, t.policies = m.policies
      PROVE  SamePolicies(s, t, beyond)
  BY <1>2 DEF SamePolicies, SamePolicy
<1>3. ASSUME SameJobs(d, m, apart), s.jobs = d.jobs, t.jobs = m.jobs PROVE SameJobs(s, t, beyond)
  BY <1>3 DEF SameJobs
<1>4. ASSUME SameVersions(d, m, apart), s.versions = d.versions, t.versions = m.versions, s.tests = d.tests
      PROVE  SameVersions(s, t, beyond)
  <2>1. \A test : Versions(t, test) = Versions(m, test) /\ VersionsOf(s, test) = VersionsOf(d, test)
    BY <1>4 DEF Versions, VersionsOf
  <2>2. \A test : SameManifests(d, m, test) => SameManifests(s, t, test)
    BY <1>4, <2>1 DEF SameManifests
  <2> QED
    BY <1>4, <2>2 DEF SameVersions
<1> QED
  BY <1>1, <1>2, <1>3, <1>4

(* A new test has no manifest in either. *)
LEMMA NewTestSame ==
  ASSUME NEW c, NEW d, NEW m, NEW s, NEW t, NEW apart, NEW beyond, apart \subseteq beyond,
         SameVersions(d, m, apart), Referenced(d, m), Grows(d.tests, s.tests, c, "createTest"),
         c.op = "createTest" => c.id \notin DOMAIN d.tests,
         s.versions = d.versions, t.versions = m.versions
  PROVE  SameVersions(s, t, beyond)
<1>1. \A test : Versions(t, test) = Versions(m, test) /\ VersionsOf(s, test) = VersionsOf(d, test)
  BY DEF Versions, VersionsOf
<1>2. \A test : SameManifests(d, m, test) => SameManifests(s, t, test)
  BY <1>1 DEF SameManifests
<1>3. ASSUME NEW test, test \notin DOMAIN d.tests PROVE SameManifests(d, m, test)
  <2>1. VersionsOf(d, test) = {} /\ Versions(m, test) = <<>>
    BY <1>3 DEF Referenced, VersionsOf, Versions
  <2>2. Len(<<>>) = 0 /\ <<>> = [i \in 1 .. 0 |-> <<>>[i]] /\ {<<>>[i] : i \in 1 .. 0} = {}
    <3>1. 1 .. 0 = {}
      OBVIOUS
    <3> QED
      BY <3>1
  <2> QED
    BY <2>1, <2>2 DEF SameManifests
<1>4. \A test \in DOMAIN s.tests : <<"versions", test>> \in beyond \/ SameManifests(d, m, test)
  BY <1>3 DEF SameVersions
<1> QED
  BY <1>2, <1>4 DEF SameVersions

-----------------------------------------------------------------------------
(* The two repositories: the inductive invariant.                              *)

(* Identifiers are new until their record is made. *)
Fresh(r) ==
  /\ status[r] = "idle" \/ Pending(r, "createTest") => r \notin DOMAIN db.tests
  /\ status[r] = "idle" \/ Pending(r, "createPlugin") => r \notin DOMAIN db.plugins
  /\ status[r] = "idle" \/ Pending(r, "saveRunResult") =>
       r \notin DOMAIN db.results /\ \A q \in Request : Doing(q, "saveRunResult") => r \notin tx[q].found
(* What a call refers to is there. *)
Knows(r) ==
  /\ \A i \in DOMAIN todo[r] : todo[r][i].op = "addOrganizationMembership" => todo[r][i].of \in DOMAIN Seed.db.users
  /\ status[r] = "busy" =>
       LET c == Head(todo[r])
       IN /\ c.op = "addOrganizationMembership" => c.org \in DOMAIN db.organizations
          /\ c.op = "updateTestManifest" /\ c.on \in Request => c.on \in DOMAIN db.tests
(* What a transaction has found is still so, unless another one came between. *)
StillSo(c, d, x) ==
  /\ c.op = "updateTestManifest" => x.found = Mine(d, "tests", c) \cap {c.on}
  /\ c.op = "saveRunResult" => \A i \in x.found \cap DOMAIN d.results : d.results[i].of = c.on
  /\ c.op = "leaseAiWorkerJob" => Locks(c, d, x)
  /\ ~x.overtaken =>
       /\ x.found \in Finds(c, d)
       /\ c.op = "updateTestManifest" => \A v \in VersionsOf(d, c.on) : d.versions[v].val.at < x.began
       /\ c.op = "leaseAiWorkerJob" /\ x.done = 2 => x.pick = NextJob(d, c, x.found)
Current(r) == tx[r].done > 0 => StillSo(Head(todo[r]), db, tx[r])
(* The two repositories hold the same data. *)
DataKept ==
  /\ Tables \subseteq DOMAIN mem /\ "steps" \in DOMAIN db
  /\ SameData(db, mem, diverged) /\ Referenced(db, mem)
  /\ DOMAIN Seed.db.users \subseteq DOMAIN db.users
  /\ \A j \in DOMAIN mem.jobs : JobOk(mem.jobs[j])
  /\ disagreed = {}
Mirrored == DataKept /\ \A r \in Request : Fresh(r) /\ Knows(r) /\ Current(r)

(* A transaction that commits, with both repositories. *)
Excused(r, c) == tx[r].overtaken \/ Object(c) \in diverged
Settles(r, c) ==
  LET sql == Statement(c, db, tx[r])
  IN /\ status[r] = "busy" /\ InRepository(c) /\ DOMAIN c = CallFields
     /\ c.op = Head(todo[r]).op /\ (c.op # Audit => c = Head(todo[r]))
     /\ tx[r].done = FirstStatements(c)
     /\ db' = sql.store /\ mem' = IF sql.refused THEN mem ELSE Memory(c, mem).store
     /\ diverged' = IF Excused(r, c) /\ ~sql.refused THEN diverged \cup {Object(c)} ELSE diverged
     /\ disagreed' = IF Excused(r, c) \/ Agree(c, sql, Memory(c, mem)) \/ (sql.refused /\ Breaks(c, db))
                     THEN disagreed ELSE disagreed \cup {c.op}
     /\ tx' = [q \in Request |-> IF q = r THEN NoTransaction
                                 ELSE IF q \in Beside(r, c) /\ db' # db THEN [tx[q] EXCEPT !.overtaken = TRUE] ELSE tx[q]]
     /\ c.op # "listArtifactsBefore" => Told(r) /\ (todo'[r] # <<>> => ~sql.refused)

LEMMA CommitSettles ==
  ASSUME Control, NEW r \in Request, NEW ok, Accepted(r, ok)
  PROVE  \E c : Settles(r, c)
<1> DEFINE c0 == Head(todo[r])
           c == IF c0.op = Audit THEN [c0 EXCEPT !.id = AuditId(r, c0), !.val = [route |-> asked[r].route]] ELSE c0
           sql == Statement(c, db, tx[r])
<1>1. /\ status[r] = "busy" /\ InRepository(c0)
      /\ tx[r].done = FirstStatements(c)
      /\ db' = sql.store /\ mem' = IF sql.refused THEN mem ELSE Memory(c, mem).store
      /\ diverged' = IF Excused(r, c) /\ ~sql.refused THEN diverged \cup {Object(c)} ELSE diverged
      /\ disagreed' = IF Excused(r, c) \/ Agree(c, sql, Memory(c, mem)) \/ (sql.refused /\ Breaks(c, db))
                      THEN disagreed ELSE disagreed \cup {c.op}
      /\ tx' = [q \in Request |-> IF q = r THEN NoTransaction
                                  ELSE IF q \in Beside(r, c) /\ db' # db THEN [tx[q] EXCEPT !.overtaken = TRUE] ELSE tx[q]]
      /\ IF ok THEN Answered(r, c0, sql)
         ELSE status' = [status EXCEPT ![r] = "failed"] /\ todo' = [todo EXCEPT ![r] = <<>>]
  BY SMTT(30) DEF Accepted, Commit, CallNow, Excused
<1>2. DOMAIN c0 = CallFields
  BY <1>1, BusyFacts
<1>3. c.op = c0.op /\ (c0.op # Audit => c = c0) /\ DOMAIN c = CallFields
  BY <1>2 DEF CallFields
<1> HIDE DEF c
<1>4. InRepository(c)
  BY <1>1, <1>3 DEF InRepository
<1>5. c.op # "listArtifactsBefore" => Told(r) /\ (todo'[r] # <<>> => ~sql.refused)
  <2> HIDE DEF sql
  <2>1. CASE ok
    <3>1. c0.op # "listArtifactsBefore" => Told(r) /\ (todo'[r] # <<>> => ~Failed(c0, sql))
      BY <1>1, <2>1, AnsweredTold
    <3> QED
      BY <1>3, <3>1 DEF Failed
  <2>2. CASE ~ok
    <3>1. todo'[r] = <<>>
      BY <1>1, <2>2 DEF Control
    <3> QED
      BY <3>1, EndsTold
  <2> QED
    BY <2>1, <2>2
<1>6. Settles(r, c)
  BY <1>1, <1>3, <1>4, <1>5 DEF Settles
<1> QED
  BY <1>6, SMTT(30)

(* What the call of a transaction that commits is about. *)
LEMMA SettlesFacts ==
  ASSUME Control, "steps" \in DOMAIN db, NEW r \in Request, NEW c, Settles(r, c)
  PROVE  /\ Written(c, tx[r], db, db') /\ DOMAIN db' = DOMAIN db
         /\ c.op # Audit => c.id = r /\ c.val = asked[r].args.val
         /\ Pending(r, c.op) /\ tx'[r] = NoTransaction
         /\ \A q \in Request : q # r => SameTx(q)
<1>1. /\ status[r] = "busy" /\ InRepository(c) /\ DOMAIN c = CallFields
      /\ c.op = Head(todo[r]).op /\ (c.op # Audit => c = Head(todo[r]))
      /\ db' = Statement(c, db, tx[r]).store
      /\ tx' = [q \in Request |-> IF q = r THEN NoTransaction
                                  ELSE IF q \in Beside(r, c) /\ db' # db THEN [tx[q] EXCEPT !.overtaken = TRUE] ELSE tx[q]]
  BY DEF Settles
<1>2. Tables \subseteq DOMAIN db
  BY DEF Control
<1>3. Written(c, tx[r], db, db')
  BY <1>1, <1>2, StatementWrites
<1>4. c.op # Audit => c.id = r /\ c.val = asked[r].args.val
  BY <1>1, BusyFacts
<1>5. Pending(r, c.op)
  BY <1>1, BusyFacts DEF Pending
<1>6. tx'[r] = NoTransaction /\ \A q \in Request : q # r => SameTx(q)
  BY <1>1, OvertakenFacts
<1>7. DOMAIN db' = DOMAIN db
  BY <1>3 DEF Written
<1> QED
  BY <1>3, <1>4, <1>5, <1>6, <1>7

(* What a call needs when its transaction commits. *)
Ready(r, c) ==
  /\ c.op = "addOrganizationMembership" => c.of \in DOMAIN db.users /\ c.org \in DOMAIN db.organizations
  /\ c.op = "createTest" => c.id \notin DOMAIN db.tests
  /\ c.op = "createPlugin" => c.id \notin DOMAIN db.plugins
  /\ c.op = "updateTestManifest" =>
       c.id \notin DOMAIN db.versions /\ tx[r].began \in Nat /\ tx[r].found = Mine(db, "tests", c) \cap {c.on}
  /\ c.op = "saveRunResult" =>
       c.id \notin DOMAIN db.results /\ \A i \in tx[r].found \cap DOMAIN db.results : db.results[i].of = c.on
  /\ c.op = "createAiWorkerJob" => c.id \notin DOMAIN db.jobs
  /\ c.op = "completeAiWorkerJob" => Silent(c)
  /\ c.op = "leaseAiWorkerJob" => Locks(c, db, tx[r])
  /\ ~Excused(r, c) =>
       /\ Object(c) \notin diverged
       /\ c.op \in Methods.results \cup Methods.policies => tx[r].found \in Finds(c, db)
       /\ c.op = "updateTestManifest" => \A v \in VersionsOf(db, c.on) : db.versions[v].val.at < tx[r].began
       /\ c.op = "leaseAiWorkerJob" => tx[r].found = Overdue(db, c) /\ tx[r].pick = NextJob(db, c, tx[r].found)

LEMMA CommitReady ==
  ASSUME IInv, Mirrored, NEW r \in Request, NEW c, Settles(r, c)
  PROVE  Ready(r, c)
<1> DEFINE x == tx[r]
<1>1. /\ status[r] = "busy" /\ DOMAIN c = CallFields
      /\ c.op = Head(todo[r]).op /\ (c.op # Audit => c = Head(todo[r])) /\ x.done = FirstStatements(c)
  BY DEF Settles
<1>2. Control /\ DataKept /\ Fresh(r) /\ Knows(r) /\ Current(r) /\ Saves(r) /\ Polling(r)
  BY DEF IInv, Mirrored, SavesInOrder, LeasesApart
<1>3. c.op # Audit => c.id = r
  BY <1>1, <1>2, BusyFacts
<1>4. Pending(r, c.op)
  BY <1>1, <1>2, BusyFacts DEF Pending
<1>5. ASSUME c.op = "addOrganizationMembership" PROVE c.of \in DOMAIN db.users /\ c.org \in DOMAIN db.organizations
  <2>1. c = Head(todo[r]) /\ 1 \in DOMAIN todo[r] /\ Head(todo[r]) = todo[r][1]
    BY <1>1, <1>2, <1>5, BusyFacts DEF Audit
  <2> QED
    BY <1>1, <1>2, <1>5, <2>1 DEF Knows, DataKept
<1>6. /\ c.op = "createTest" => c.id \notin DOMAIN db.tests
      /\ c.op = "createPlugin" => c.id \notin DOMAIN db.plugins
      /\ c.op = "updateTestManifest" => c.id \notin DOMAIN db.versions
      /\ c.op = "saveRunResult" => c.id \notin DOMAIN db.results
      /\ c.op = "createAiWorkerJob" => c.id \notin DOMAIN db.jobs
  BY <1>2, <1>3, <1>4 DEF Fresh, Saves, Polling, Audit
<1>7. c.op \in {"updateTestManifest", "saveRunResult", "leaseAiWorkerJob"} \cup Methods.results \cup Methods.policies =>
        x.done > 0 /\ c = Head(todo[r])
  BY <1>1 DEF FirstStatements, Audit, Methods
<1>8. c.op = "updateTestManifest" => x.began \in Nat /\ x.found = Mine(db, "tests", c) \cap {c.on}
  BY <1>2, <1>7 DEF Saves, Doing, Current, StillSo
<1>9. c.op = "saveRunResult" => \A i \in x.found \cap DOMAIN db.results : db.results[i].of = c.on
  BY <1>2, <1>7 DEF Current, StillSo
<1>10. c.op = "leaseAiWorkerJob" => Locks(c, db, x)
  BY <1>2, <1>7 DEF Current, StillSo
<1>11. c.op = "completeAiWorkerJob" => Silent(c)
  <2>1. SUFFICES ASSUME c.op = "completeAiWorkerJob" PROVE Silent(c)
    OBVIOUS
  <2>2. c = Head(todo[r]) /\ c.val = asked[r].args.val
    BY <1>1, <1>2, <2>1, BusyFacts DEF Audit
  <2>3. Route(r) = "postComplete"
    BY <1>1, <1>2, <2>1, <2>2, PendingOps, BusyFacts
  <2> QED
    BY <1>2, <2>2, <2>3, CompletionAssumption DEF Control, Route, Silent
<1>12. ASSUME ~Excused(r, c)
       PROVE  /\ Object(c) \notin diverged
              /\ c.op \in Methods.results \cup Methods.policies => x.found \in Finds(c, db)
              /\ c.op = "updateTestManifest" => \A v \in VersionsOf(db, c.on) : db.versions[v].val.at < x.began
              /\ c.op = "leaseAiWorkerJob" => x.found = Overdue(db, c) /\ x.pick = NextJob(db, c, x.found)
  <2>1. ~x.overtaken /\ Object(c) \notin diverged
    BY <1>12 DEF Excused
  <2>2. /\ c.op \in Methods.results \cup Methods.policies => x.found \in Finds(c, db)
        /\ c.op = "updateTestManifest" => \A v \in VersionsOf(db, c.on) : db.versions[v].val.at < x.began
    BY <1>2, <1>7, <2>1 DEF Current, StillSo
  <2>3. ASSUME c.op = "leaseAiWorkerJob" PROVE x.found = Overdue(db, c) /\ x.pick = NextJob(db, c, x.found)
    <3>1. x.done = 2 /\ x.done > 0 /\ c = Head(todo[r])
      BY <1>1, <2>3 DEF FirstStatements, Audit
    <3>2. Finds(c, db) = {Overdue(db, c)}
      BY <2>3 DEF Finds, Methods
    <3> QED
      BY <1>2, <2>1, <2>3, <3>1, <3>2 DEF Current, StillSo
  <2> QED
    BY <2>1, <2>2, <2>3
<1> QED
  BY <1>5, <1>6, <1>8, <1>9, <1>10, <1>11, <1>12 DEF Ready

(* The transactions that write what the two repositories may hold apart.       *)
LEMMA PartsOf ==
  ASSUME NEW c, NEW d, NEW m, NEW x
  PROVE  /\ c.op \in Methods.manifests => Statement(c, d, x) = SqlManifests(c, d, x) /\ Memory(c, m) = ManifestsOf(c, m)
                                          /\ Object(c) = <<"versions", c.on>>
         /\ c.op \in Methods.results => Statement(c, d, x) = SqlResults(c, d, x) /\ Memory(c, m) = Results(c, m)
                                        /\ Object(c) = <<"results", c.on>>
         /\ c.op \in Methods.policies => Statement(c, d, x) = SqlStoragePolicies(c, d, x)
                                         /\ Memory(c, m) = StoragePolicies(c, m) /\ Object(c) = <<"policies", c.org>>
         /\ c.op \in JobOps => Statement(c, d, x) = SqlAiJobs(c, d, x) /\ Memory(c, m) = AiWorkers(c, m)
                               /\ Object(c) = <<"jobs", c.org>>
<1>1. c.op \in Methods.manifests => Statement(c, d, x) = SqlManifests(c, d, x) /\ Memory(c, m) = ManifestsOf(c, m)
                                    /\ Object(c) = <<"versions", c.on>>
  BY DEF Statement, Memory, Object, Methods
<1>2. c.op \in Methods.results => Statement(c, d, x) = SqlResults(c, d, x) /\ Memory(c, m) = Results(c, m)
                                  /\ Object(c) = <<"results", c.on>>
  BY DEF Statement, Memory, Object, Methods
<1>3. c.op \in Methods.policies => Statement(c, d, x) = SqlStoragePolicies(c, d, x)
                                   /\ Memory(c, m) = StoragePolicies(c, m) /\ Object(c) = <<"policies", c.org>>
  BY DEF Statement, Memory, Object, Methods
<1>4. c.op \in JobOps => Statement(c, d, x) = SqlAiJobs(c, d, x) /\ Memory(c, m) = AiWorkers(c, m)
                         /\ Object(c) = <<"jobs", c.org>>
  BY ZenonT(60) DEF Statement, Memory, Object, Methods, JobOps
<1> QED
  BY <1>1, <1>2, <1>3, <1>4

LEMMA SameIsEqual ==
  ASSUME DataKept, Control
  PROVE  Equal(db, mem)
BY DEF DataKept, Control, SameData, Equal, Plain

(* In a frame without the plain tables they stay equal. *)
LEMMA EqualKept ==
  ASSUME NEW d, NEW m, NEW s, NEW t, NEW T, NEW U, Equal(d, m), Frame(d, s, T), Frame(m, t, U),
         T \cap Plain = {}, U \cap Plain = {}
  PROVE  Equal(s, t) /\ \A u \in Plain : s[u] = d[u]
BY PlainTables DEF Equal, Frame

(* A commit keeps the data of the two repositories together. *)
LEMMA PlainData ==
  ASSUME Control, DataKept, NEW r \in Request, NEW c, Settles(r, c), Ready(r, c), Written(c, tx[r], db, db'), c.op \in PlainOps
  PROVE  DataKept'
<1> DEFINE sql == Statement(c, db, tx[r])
           memory == Memory(c, mem)
<1>1. /\ DOMAIN c = CallFields /\ db' = sql.store /\ mem' = IF sql.refused THEN mem ELSE memory.store
      /\ diverged \subseteq diverged'
      /\ Agree(c, sql, memory) \/ (sql.refused /\ Breaks(c, db)) => disagreed' = disagreed
  BY DEF Settles
<1>2. Equal(db, mem)
  BY SameIsEqual
<1>3. /\ SameVersions(db, mem, diverged) /\ SameReports(db, mem, diverged) /\ SamePolicies(db, mem, diverged)
      /\ SameJobs(db, mem, diverged) /\ Referenced(db, mem) /\ Tables \subseteq DOMAIN mem /\ "steps" \in DOMAIN db
      /\ \A j \in DOMAIN mem.jobs : JobOk(mem.jobs[j])
      /\ disagreed = {} /\ DOMAIN Seed.db.users \subseteq DOMAIN db.users /\ Tables \subseteq DOMAIN db
  BY DEF DataKept, SameData, Control
<1>4. InStep(c, sql, memory, db, mem)
  BY <1>1, <1>2, <1>3, PlainInStep DEF Ready
<1> HIDE DEF sql, memory
<1>5. /\ Agree(c, sql, memory)
      /\ Frame(db, db', Plain) /\ Frame(mem, mem', Plain \cup {"rotated"}) /\ \A t \in Plain : mem'[t] = db'[t]
  BY <1>1, <1>4 DEF InStep
<1>6. /\ "steps" \notin Plain /\ \A t \in ApartTables : t \in Tables /\ t \notin Plain \cup {"rotated"}
  BY DEF Plain, ApartTables, Tables
<1>7. /\ db'.versions = db.versions /\ db'.results = db.results /\ db'.policies = db.policies /\ db'.jobs = db.jobs
      /\ db'.steps = db.steps
      /\ mem'.versions = mem.versions /\ mem'.results = mem.results /\ mem'.policies = mem.policies /\ mem'.jobs = mem.jobs
  BY <1>3, <1>5, <1>6 DEF Frame, ApartTables
<1>8. DOMAIN db' = DOMAIN db /\ DOMAIN mem' = DOMAIN mem
  BY <1>5 DEF Frame
<1>9. SameReports(db', mem', diverged') /\ SamePolicies(db', mem', diverged') /\ SameJobs(db', mem', diverged')
  BY <1>1, <1>3, <1>7, SameElsewhere
<1>10. SameVersions(db', mem', diverged')
  BY <1>1, <1>3, <1>7, NewTestSame DEF Ready, Written
<1>11. Referenced(db', mem')
  <2>1. /\ \A v \in DOMAIN db'.versions :
             db'.versions[v].of \in DOMAIN db.tests /\ db.tests[db'.versions[v].of].org = db'.versions[v].org
        /\ DOMAIN mem'.versions \subseteq DOMAIN db.tests
    BY <1>3, <1>7 DEF Referenced
  <2> QED
    BY <1>3, <2>1, ReferencedKept DEF Ready
<1>12. disagreed' = {}
  BY <1>1, <1>3, <1>5
<1>13. DOMAIN Seed.db.users \subseteq DOMAIN db'.users
  BY <1>3 DEF Written
<1>14. SameData(db', mem', diverged')
  BY <1>5, <1>9, <1>10 DEF SameData, Plain
<1> QED
  BY <1>3, <1>7, <1>8, <1>11, <1>12, <1>13, <1>14 DEF DataKept

(* The data, put together from what was written and what was not. *)
LEMMA ApartData ==
  ASSUME DataKept, NEW c, NEW x, NEW T, NEW U, Equal(db, mem), Written(c, x, db, db'), Frame(db, db', T), Frame(mem, mem', U),
         T \cap Plain = {}, U \cap Plain = {}, disagreed' = {}, "steps" \in DOMAIN db, c.op # "createTest",
         c.op # "createPlugin", c.op # "addOrganizationMembership",
         SameVersions(db', mem', diverged'), SameReports(db', mem', diverged'), SamePolicies(db', mem', diverged'),
         SameJobs(db', mem', diverged'),
         OfTests(db', db), DOMAIN mem'.versions \subseteq DOMAIN db.tests, \A j \in DOMAIN mem'.jobs : JobOk(mem'.jobs[j])
  PROVE  DataKept'
<1>1. Equal(db', mem') /\ \A u \in Plain : db'[u] = db[u]
  BY EqualKept
<1>2. DOMAIN db' = DOMAIN db /\ DOMAIN mem' = DOMAIN mem
  BY DEF Frame
<1>3. Referenced(db', mem')
  <2>1. Referenced(db, mem)
    BY DEF DataKept
  <2> QED
    BY <2>1, ReferencedKept DEF OfTests
<1>4. DOMAIN Seed.db.users \subseteq DOMAIN db'.users
  BY DEF DataKept, Written
<1>5. SameData(db', mem', diverged')
  BY <1>1 DEF SameData, Equal, Plain
<1> QED
  BY <1>2, <1>3, <1>4, <1>5 DEF DataKept

LEMMA ManifestData ==
  ASSUME Control, SavesInOrder, DataKept, NEW r \in Request, NEW c, Settles(r, c), Ready(r, c), Written(c, tx[r], db, db'),
         c.op \in Methods.manifests
  PROVE  DataKept'
<1> DEFINE sql == SqlManifests(c, db, tx[r])
           memory == ManifestsOf(c, mem)
           excused == Excused(r, c)
<1>1. Statement(c, db, tx[r]) = sql /\ Memory(c, mem) = memory /\ Object(c) = <<"versions", c.on>>
  BY PartsOf
<1>2. Equal(db, mem)
  BY SameIsEqual
<1>3. /\ SameVersions(db, mem, diverged) /\ SameReports(db, mem, diverged) /\ SamePolicies(db, mem, diverged)
      /\ SameJobs(db, mem, diverged) /\ Referenced(db, mem) /\ Tables \subseteq DOMAIN mem /\ "steps" \in DOMAIN db
      /\ \A j \in DOMAIN mem.jobs : JobOk(mem.jobs[j])
      /\ disagreed = {} /\ Tables \subseteq DOMAIN db
  BY DEF DataKept, SameData, Control
<1>4. /\ \A v \in DOMAIN db.versions : db.versions[v].val.at \in Nat
      /\ DOMAIN c = CallFields /\ excused \in BOOLEAN
  BY DEF SavesInOrder, Settles, Excused
<1>5. /\ c.op = "updateTestManifest" =>
           c.id \notin DOMAIN db.versions /\ tx[r].began \in Nat /\ tx[r].found = Mine(db, "tests", c) \cap {c.on}
      /\ ~excused => /\ <<"versions", c.on>> \notin diverged
                     /\ c.op = "updateTestManifest" => \A v \in VersionsOf(db, c.on) : db.versions[v].val.at < tx[r].began
  BY <1>1 DEF Ready
<1>6. /\ db' = sql.store /\ mem' = IF sql.refused THEN mem ELSE memory.store
      /\ diverged' = IF excused /\ ~sql.refused THEN diverged \cup {<<"versions", c.on>>} ELSE diverged
      /\ excused \/ Agree(c, sql, memory) => disagreed' = disagreed
  BY <1>1 DEF Settles
<1> HIDE DEF excused
<1>7. /\ ~sql.refused /\ (~excused => Agree(c, sql, memory))
      /\ Frame(db, sql.store, {"versions"}) /\ Frame(mem, memory.store, {"versions"})
      /\ SameVersions(sql.store, memory.store, Beyond(diverged, <<"versions", c.on>>, excused))
      /\ OfTests(sql.store, db)
      /\ DOMAIN memory.store.versions \subseteq DOMAIN db.tests
  BY <1>2, <1>3, <1>4, <1>5, ManifestsInStep
<1> HIDE DEF sql, memory
<1>8. /\ mem' = memory.store /\ diverged' = Beyond(diverged, <<"versions", c.on>>, excused) /\ disagreed' = {}
  BY <1>3, <1>6, <1>7 DEF Beyond
<1>9. /\ db'.results = db.results /\ db'.policies = db.policies /\ db'.jobs = db.jobs /\ db'.steps = db.steps
      /\ mem'.results = mem.results /\ mem'.policies = mem.policies /\ mem'.jobs = mem.jobs /\ diverged \subseteq diverged'
  BY <1>3, <1>6, <1>7, <1>8 DEF Frame, Tables, Beyond
<1>10. SameReports(db', mem', diverged') /\ SamePolicies(db', mem', diverged') /\ SameJobs(db', mem', diverged')
  BY <1>3, <1>9, SameElsewhere
<1>11. SameVersions(db', mem', diverged')
  BY <1>6, <1>7, <1>8
<1>12. OfTests(db', db)
  BY <1>6, <1>7
<1>13. {"versions"} \cap Plain = {} /\ c.op \notin {"createTest", "createPlugin", "addOrganizationMembership"}
  BY DEF Plain, ApartTables, Methods
<1>14. Frame(db, db', {"versions"}) /\ Frame(mem, mem', {"versions"}) /\ DOMAIN mem'.versions \subseteq DOMAIN db.tests
  BY <1>6, <1>7, <1>8
<1>15. \A j \in DOMAIN mem'.jobs : JobOk(mem'.jobs[j])
  BY <1>3, <1>9
<1> QED
  BY <1>2, <1>3, <1>8, <1>10, <1>11, <1>12, <1>13, <1>14, <1>15, ApartData

(* What the data are made of, for the transactions on the tables held apart.   *)
DataFacts ==
  /\ Equal(db, mem)
  /\ SameVersions(db, mem, diverged) /\ SameReports(db, mem, diverged) /\ SamePolicies(db, mem, diverged)
  /\ SameJobs(db, mem, diverged) /\ Tables \subseteq DOMAIN mem /\ "steps" \in DOMAIN db
  /\ OfTests(db, db) /\ DOMAIN mem.versions \subseteq DOMAIN db.tests
  /\ \A j \in DOMAIN mem.jobs : JobOk(mem.jobs[j])
  /\ disagreed = {} /\ Tables \subseteq DOMAIN db

LEMMA KeptFacts ==
  ASSUME Control, DataKept
  PROVE  DataFacts
BY SameIsEqual DEF DataFacts, DataKept, SameData, Referenced, OfTests, Control

LEMMA ResultData ==
  ASSUME Control, DataKept, NEW r \in Request, NEW c, Settles(r, c), Ready(r, c), Written(c, tx[r], db, db'),
         c.op \in Methods.results
  PROVE  DataKept'
<1> DEFINE sql == SqlResults(c, db, tx[r])
           memory == Results(c, mem)
           excused == Excused(r, c)
           object == <<"results", c.on>>
<1>1. Statement(c, db, tx[r]) = sql /\ Memory(c, mem) = memory /\ Object(c) = object
  BY PartsOf
<1>2. DataFacts /\ DOMAIN c = CallFields /\ excused \in BOOLEAN
  BY KeptFacts DEF Settles, Excused
<1>3. /\ c.op = "saveRunResult" =>
           c.id \notin DOMAIN db.results /\ \A i \in tx[r].found \cap DOMAIN db.results : db.results[i].of = c.on
      /\ ~excused => object \notin diverged /\ tx[r].found \in Finds(c, db)
  BY <1>1 DEF Ready
<1>4. /\ db' = sql.store /\ mem' = IF sql.refused THEN mem ELSE memory.store
      /\ diverged' = IF excused /\ ~sql.refused THEN diverged \cup {object} ELSE diverged
      /\ excused \/ Agree(c, sql, memory) => disagreed' = disagreed
  BY <1>1 DEF Settles
<1> HIDE DEF excused
<1>5. /\ ~sql.refused /\ (~excused => Agree(c, sql, memory))
      /\ Frame(db, sql.store, {"results", "steps"}) /\ Frame(mem, memory.store, {"results"})
      /\ SameReports(sql.store, memory.store, Beyond(diverged, object, excused))
  BY <1>2, <1>3, ResultsInStep DEF DataFacts
<1> HIDE DEF sql, memory, object
<1>6. mem' = memory.store /\ diverged' = Beyond(diverged, object, excused) /\ disagreed' = {}
  BY <1>2, <1>4, <1>5 DEF Beyond, DataFacts
<1>7. /\ db'.versions = db.versions /\ db'.policies = db.policies /\ db'.jobs = db.jobs /\ db'.tests = db.tests
      /\ mem'.versions = mem.versions /\ mem'.policies = mem.policies /\ mem'.jobs = mem.jobs /\ diverged \subseteq diverged'
  BY <1>2, <1>4, <1>5, <1>6 DEF Frame, Tables, Beyond, DataFacts
<1>8. SameVersions(db', mem', diverged') /\ SamePolicies(db', mem', diverged') /\ SameJobs(db', mem', diverged')
  BY <1>2, <1>7, SameElsewhere DEF DataFacts
<1>9. SameReports(db', mem', diverged')
  BY <1>4, <1>5, <1>6
<1>10. /\ {"results", "steps"} \cap Plain = {} /\ {"results"} \cap Plain = {}
       /\ c.op \notin {"createTest", "createPlugin", "addOrganizationMembership"}
  BY DEF Plain, ApartTables, Methods, Tables
<1>11. Frame(db, db', {"results", "steps"}) /\ Frame(mem, mem', {"results"})
  BY <1>4, <1>5, <1>6
<1>12. OfTests(db', db) /\ DOMAIN mem'.versions \subseteq DOMAIN db.tests /\ \A j \in DOMAIN mem'.jobs : JobOk(mem'.jobs[j])
  BY <1>2, <1>7 DEF OfTests, DataFacts
<1> QED
  BY <1>2, <1>6, <1>8, <1>9, <1>10, <1>11, <1>12, ApartData DEF DataFacts

LEMMA PolicyData ==
  ASSUME Control, DataKept, NEW r \in Request, NEW c, Settles(r, c), Ready(r, c), Written(c, tx[r], db, db'),
         c.op \in Methods.policies
  PROVE  DataKept'
<1> DEFINE sql == SqlStoragePolicies(c, db, tx[r])
           memory == StoragePolicies(c, mem)
           excused == Excused(r, c)
           object == <<"policies", c.org>>
<1>1. Statement(c, db, tx[r]) = sql /\ Memory(c, mem) = memory /\ Object(c) = object
  BY PartsOf
<1>2. DataFacts /\ DOMAIN c = CallFields /\ excused \in BOOLEAN
  BY KeptFacts DEF Settles, Excused
<1>3. ~excused => object \notin diverged /\ tx[r].found \in Finds(c, db)
  BY <1>1 DEF Ready
<1>4. /\ db' = sql.store /\ mem' = IF sql.refused THEN mem ELSE memory.store
      /\ diverged' = IF excused /\ ~sql.refused THEN diverged \cup {object} ELSE diverged
      /\ excused \/ Agree(c, sql, memory) => disagreed' = disagreed
  BY <1>1 DEF Settles
<1> HIDE DEF excused
<1>5. /\ ~excused => Agree(c, sql, memory)
      /\ sql.refused => excused /\ sql.store = db
      /\ Frame(db, sql.store, {"policies"}) /\ Frame(mem, memory.store, {"policies"})
      /\ ~sql.refused => SamePolicies(sql.store, memory.store, Beyond(diverged, object, excused))
  BY <1>2, <1>3, PoliciesInStep DEF DataFacts
<1> HIDE DEF sql, memory, object
<1>6. disagreed' = {}
  BY <1>2, <1>4, <1>5 DEF DataFacts
<1>7. CASE sql.refused
  <2>1. db' = db /\ mem' = mem /\ diverged' = diverged
    BY <1>4, <1>5, <1>7
  <2> QED
    BY <1>6, <2>1 DEF DataKept
<1>8. CASE ~sql.refused
  <2>1. mem' = memory.store /\ diverged' = Beyond(diverged, object, excused)
    BY <1>4, <1>8 DEF Beyond
  <2>2. /\ db'.versions = db.versions /\ db'.results = db.results /\ db'.jobs = db.jobs /\ db'.tests = db.tests
        /\ db'.steps = db.steps
        /\ mem'.versions = mem.versions /\ mem'.results = mem.results /\ mem'.jobs = mem.jobs /\ diverged \subseteq diverged'
    BY <1>2, <1>4, <1>5, <2>1 DEF Frame, Tables, Beyond, DataFacts
  <2>3. SameVersions(db', mem', diverged') /\ SameReports(db', mem', diverged') /\ SameJobs(db', mem', diverged')
    BY <1>2, <2>2, SameElsewhere DEF DataFacts
  <2>4. SamePolicies(db', mem', diverged')
    BY <1>4, <1>5, <1>8, <2>1
  <2>5. {"policies"} \cap Plain = {} /\ c.op \notin {"createTest", "createPlugin", "addOrganizationMembership"}
    BY DEF Plain, ApartTables, Methods, Tables
  <2>6. Frame(db, db', {"policies"}) /\ Frame(mem, mem', {"policies"})
    BY <1>4, <1>5, <2>1
  <2>7. OfTests(db', db) /\ DOMAIN mem'.versions \subseteq DOMAIN db.tests /\ \A j \in DOMAIN mem'.jobs : JobOk(mem'.jobs[j])
    BY <1>2, <2>2 DEF OfTests, DataFacts
  <2> QED
    BY <1>2, <1>6, <2>3, <2>4, <2>5, <2>6, <2>7, ApartData DEF DataFacts
<1> QED
  BY <1>7, <1>8

LEMMA JobData ==
  ASSUME Control, LeasesApart, DataKept, NEW r \in Request, NEW c, Settles(r, c), Ready(r, c), Written(c, tx[r], db, db'),
         c.op \in JobOps
  PROVE  DataKept' /\ JobsChange(c, db.jobs, db'.jobs)
<1> DEFINE sql == SqlAiJobs(c, db, tx[r])
           memory == AiWorkers(c, mem)
           excused == Excused(r, c)
           object == <<"jobs", c.org>>
<1>1. Statement(c, db, tx[r]) = sql /\ Memory(c, mem) = memory /\ Object(c) = object
  BY PartsOf
<1>2. DataFacts /\ DOMAIN c = CallFields /\ excused \in BOOLEAN
  BY KeptFacts DEF Settles, Excused
<1>3. /\ c.op = "createAiWorkerJob" => c.id \notin DOMAIN db.jobs
      /\ c.op = "completeAiWorkerJob" => Silent(c)
      /\ c.op = "leaseAiWorkerJob" => Locks(c, db, tx[r])
      /\ ~excused => /\ object \notin diverged
                     /\ c.op = "leaseAiWorkerJob" => tx[r].found = Overdue(db, c) /\ tx[r].pick = NextJob(db, c, tx[r].found)
      /\ IsFiniteSet(DOMAIN db.jobs) /\ \A j \in DOMAIN db.jobs : JobOk(db.jobs[j])
  BY <1>1 DEF Ready, LeasesApart
<1>4. /\ db' = sql.store /\ mem' = IF sql.refused THEN mem ELSE memory.store
      /\ diverged' = IF excused /\ ~sql.refused THEN diverged \cup {object} ELSE diverged
      /\ excused \/ Agree(c, sql, memory) => disagreed' = disagreed
  BY <1>1 DEF Settles
<1> HIDE DEF excused
<1>5. /\ ~sql.refused /\ (~excused => Agree(c, sql, memory))
      /\ Frame(db, sql.store, {"jobs"}) /\ Frame(mem, memory.store, {"jobs"})
      /\ SameJobs(sql.store, memory.store, Beyond(diverged, object, excused))
      /\ JobsChange(c, db.jobs, sql.store.jobs) /\ JobsChange(c, mem.jobs, memory.store.jobs)
  BY <1>2, <1>3, JobsInStep DEF DataFacts
<1> HIDE DEF sql, memory, object
<1>6. mem' = memory.store /\ diverged' = Beyond(diverged, object, excused) /\ disagreed' = {}
  BY <1>2, <1>4, <1>5 DEF Beyond, DataFacts
<1>7. /\ db'.versions = db.versions /\ db'.policies = db.policies /\ db'.results = db.results /\ db'.tests = db.tests
      /\ db'.steps = db.steps
      /\ mem'.versions = mem.versions /\ mem'.policies = mem.policies /\ mem'.results = mem.results
      /\ diverged \subseteq diverged'
  BY <1>2, <1>4, <1>5, <1>6 DEF Frame, Tables, Beyond, DataFacts
<1>8. SameVersions(db', mem', diverged') /\ SamePolicies(db', mem', diverged') /\ SameReports(db', mem', diverged')
  BY <1>2, <1>7, SameElsewhere DEF DataFacts
<1>9. SameJobs(db', mem', diverged')
  BY <1>4, <1>5, <1>6
<1>10. {"jobs"} \cap Plain = {} /\ c.op \notin {"createTest", "createPlugin", "addOrganizationMembership"}
  BY DEF Plain, ApartTables, JobOps, Tables
<1>11. Frame(db, db', {"jobs"}) /\ Frame(mem, mem', {"jobs"})
  BY <1>4, <1>5, <1>6
<1>12. OfTests(db', db) /\ DOMAIN mem'.versions \subseteq DOMAIN db.tests
  BY <1>2, <1>7 DEF OfTests, DataFacts
<1>13. \A j \in DOMAIN mem'.jobs : JobOk(mem'.jobs[j])
  BY <1>5, <1>6 DEF JobsChange
<1>14. JobsChange(c, db.jobs, db'.jobs)
  BY <1>4, <1>5
<1> QED
  BY <1>2, <1>6, <1>8, <1>9, <1>10, <1>11, <1>12, <1>13, <1>14, ApartData DEF DataFacts

LEMMA CommitData ==
  ASSUME IInv, Mirrored, NEW r \in Request, NEW c, Settles(r, c)
  PROVE  DataKept' /\ Written(c, tx[r], db, db') /\ (c.op \in JobOps => JobsChange(c, db.jobs, db'.jobs))
<1>1. Control /\ SavesInOrder /\ LeasesApart /\ DataKept /\ Ready(r, c) /\ Written(c, tx[r], db, db')
  BY CommitReady, SettlesFacts DEF IInv, Mirrored, DataKept
<1>2. InRepository(c)
  BY DEF Settles
<1>3. \/ c.op \in PlainOps \/ c.op \in Methods.manifests \/ c.op \in Methods.results \/ c.op \in Methods.policies
      \/ c.op \in JobOps
  BY <1>2 DEF InRepository, PlainOps, Methods
<1>4. c.op \in PlainOps \cup Methods.manifests \cup Methods.results \cup Methods.policies => c.op \notin JobOps
  BY DEF PlainOps, Methods, JobOps
<1> QED
  BY <1>1, <1>3, <1>4, PlainData, ManifestData, ResultData, PolicyData, JobData

-----------------------------------------------------------------------------
(* What a transaction has found is still so after another one's commit.        *)

LEMMA TestsFound ==
  ASSUME NEW c, NEW d, NEW s, NEW e, Grows(d.tests, s.tests, c, "createTest"), c.op = "createTest" => c.id # e.on
  PROVE  Mine(s, "tests", e) \cap {e.on} = Mine(d, "tests", e) \cap {e.on}
BY DEF Grows, Mine

ReportsOf(d, run) == {i \in DOMAIN d.results : d.results[i].of = run}
LEMMA ReportsFound ==
  ASSUME NEW c, NEW x, NEW d, NEW s, NEW run, WritesResults(c, x, d, s), c.op = "saveRunResult" => c.on # run,
         c.op = "saveRunResult" =>
           c.id \notin DOMAIN d.results /\ \A i \in x.found \cap DOMAIN d.results : d.results[i].of = c.on
  PROVE  ReportsOf(s, run) = ReportsOf(d, run)
<1>1. CASE s.results = d.results
  BY <1>1 DEF ReportsOf
<1>2. CASE /\ c.op = "saveRunResult" /\ DOMAIN s.results = (DOMAIN d.results \ x.found) \cup {c.id}
           /\ s.results[c.id].of = c.on /\ \A i \in DOMAIN d.results \ x.found : i # c.id => s.results[i] = d.results[i]
  BY <1>2 DEF ReportsOf
<1> QED
  BY <1>1, <1>2 DEF WritesResults

LEMMA JobsFound ==
  ASSUME NEW c, NEW d, NEW s, NEW e, JobsChange(c, d.jobs, s.jobs), c.org # e.org
  PROVE  /\ Its(s, e) = Its(d, e) /\ \A j \in Its(d, e) : s.jobs[j] = d.jobs[j]
         /\ Overdue(s, e) = Overdue(d, e) /\ \A found : NextJob(s, e, found) = NextJob(d, e, found)
<1>1. \A j \in DOMAIN d.jobs : j \in DOMAIN s.jobs /\ s.jobs[j].org = d.jobs[j].org /\ s.jobs[j].of = d.jobs[j].of
                               /\ (d.jobs[j].org # c.org => s.jobs[j] = d.jobs[j])
  BY DEF JobsChange
<1>2. \A j \in DOMAIN s.jobs : j \in DOMAIN d.jobs \/ s.jobs[j].org = c.org
  BY DEF JobsChange
<1>3. Mine(s, "jobs", e) = Mine(d, "jobs", e) /\ \A j \in Mine(d, "jobs", e) : s.jobs[j] = d.jobs[j]
  BY <1>1, <1>2 DEF Mine
<1>4. Its(s, e) = Its(d, e) /\ \A j \in Its(d, e) : s.jobs[j] = d.jobs[j]
  BY <1>3 DEF Its
<1>5. Overdue(s, e) = Overdue(d, e)
  BY <1>3 DEF Overdue
<1>6. ASSUME NEW found PROVE NextJob(s, e, found) = NextJob(d, e, found)
  <2>1. OpenJobs(s, e, found) = OpenJobs(d, e, found)
    BY <1>4 DEF OpenJobs
  <2>2. \A j \in OpenJobs(d, e, found) : s.jobs[j].val.place = d.jobs[j].val.place
    BY <1>4 DEF OpenJobs
  <2>3. First(s.jobs, OpenJobs(d, e, found)) = First(d.jobs, OpenJobs(d, e, found))
    BY <2>2, FirstByPlace
  <2> QED
    BY <2>1, <2>3 DEF NextJob
<1> QED
  BY <1>4, <1>5, <1>6

LEMMA JobsUnmoved ==
  ASSUME NEW d, NEW s, NEW e, s.jobs = d.jobs
  PROVE  /\ Its(s, e) = Its(d, e) /\ Overdue(s, e) = Overdue(d, e)
         /\ \A found : NextJob(s, e, found) = NextJob(d, e, found)
BY DEF Its, Mine, Overdue, NextJob, OpenJobs

LEMMA LocksKept ==
  ASSUME NEW c, NEW d, NEW s, NEW e, NEW x, NEW y, Locks(e, d, x), y.found = x.found, y.pick = x.pick,
         s.jobs = d.jobs \/ JobsChange(c, d.jobs, s.jobs)
  PROVE  Locks(e, s, y)
<1>1. CASE s.jobs = d.jobs
  BY <1>1, JobsUnmoved DEF Locks
<1>2. CASE JobsChange(c, d.jobs, s.jobs)
  <2>1. \A j \in DOMAIN d.jobs : j \in DOMAIN s.jobs /\ s.jobs[j].org = d.jobs[j].org /\ s.jobs[j].of = d.jobs[j].of
    BY <1>2 DEF JobsChange
  <2> QED
    BY <2>1 DEF Locks, Its, Mine
<1> QED
  BY <1>1, <1>2

(* What is found by a transaction on another object. *)
Finding == {"updateTestManifest", "saveRunResult", "getRunResult", "getStoragePolicy", "updateStoragePolicy", "leaseAiWorkerJob"}
LEMMA FindsKept ==
  ASSUME NEW c, NEW x, NEW d, NEW s, NEW e, Written(c, x, d, s), c.op \in JobOps => JobsChange(c, d.jobs, s.jobs),
         c.op = "createTest" => c.id # e.on,
         c.op = "saveRunResult" =>
           c.id \notin DOMAIN d.results /\ \A i \in x.found \cap DOMAIN d.results : d.results[i].of = c.on,
         c.op = "updateTestManifest" => c.id \notin DOMAIN d.versions,
         e.op \in Finding, Object(e) # Object(c)
  PROVE  /\ Finds(e, s) = Finds(e, d)
         /\ e.op = "updateTestManifest" =>
              \A v \in VersionsOf(s, e.on) : v \in VersionsOf(d, e.on) /\ s.versions[v] = d.versions[v]
         /\ e.op = "leaseAiWorkerJob" => \A found : NextJob(s, e, found) = NextJob(d, e, found)
<1>1. CASE e.op = "updateTestManifest"
  <2>1. \A q : Finds(e, q) = {Mine(q, "tests", e) \cap {e.on}}
    BY <1>1 DEF Finds, Methods
  <2>a. Grows(d.tests, s.tests, c, "createTest")
    BY DEF Written
  <2>b. Mine(s, "tests", e) \cap {e.on} = Mine(d, "tests", e) \cap {e.on}
    BY <2>a, TestsFound
  <2>2. Finds(e, s) = Finds(e, d)
    BY <2>1, <2>b
  <2>3. c.op = "updateTestManifest" => c.on # e.on
    BY <1>1 DEF Object, Methods
  <2>4. Grows(d.versions, s.versions, c, "updateTestManifest") /\ (c.id \in DOMAIN s.versions => s.versions[c.id].of = c.on \/ s.versions = d.versions)
    BY DEF Written, WritesVersions
  <2>5. \A v \in VersionsOf(s, e.on) : v \in VersionsOf(d, e.on) /\ s.versions[v] = d.versions[v]
    <3>1. CASE s.versions = d.versions
      BY <3>1 DEF VersionsOf
    <3>2. CASE s.versions # d.versions
      <4>1. c.op = "updateTestManifest" /\ c.id \notin DOMAIN d.versions /\ c.on # e.on
        BY <2>3, <2>4, <3>2 DEF Grows
      <4>2. \A v \in DOMAIN s.versions : v = c.id \/ (v \in DOMAIN d.versions /\ s.versions[v] = d.versions[v])
        BY <2>4, <4>1 DEF Grows
      <4> QED
        BY <2>4, <3>2, <4>1, <4>2 DEF VersionsOf
    <3> QED
      BY <3>1, <3>2
  <2> QED
    BY <1>1, <2>2, <2>5
<1>2. CASE e.op \in {"saveRunResult", "getRunResult"}
  <2>1. c.op = "saveRunResult" => c.on # e.on
    BY <1>2 DEF Object, Methods
  <2>2. ReportsOf(s, e.on) = ReportsOf(d, e.on)
    BY <2>1, ReportsFound DEF Written
  <2>3. \A q : Finds(e, q) = IF e.op = "saveRunResult" THEN {ReportsOf(q, e.on)}
                            ELSE IF ReportsOf(q, e.on) = {} THEN {{}} ELSE {{i} : i \in ReportsOf(q, e.on)}
    BY <1>2 DEF Finds, ReportsOf, Methods
  <2>4. Finds(e, s) = Finds(e, d)
    BY <2>2, <2>3
  <2> QED
    BY <1>2, <2>4
<1>3. CASE e.op \in {"getStoragePolicy", "updateStoragePolicy"}
  <2>1. c.op \in Methods.policies => c.org # e.org
    BY <1>3 DEF Object, Methods
  <2>2. (e.org \in DOMAIN s.policies <=> e.org \in DOMAIN d.policies)
        /\ (e.org \in DOMAIN d.policies => s.policies[e.org] = d.policies[e.org])
    BY <2>1 DEF Written, WritesPolicies
  <2>3. \A q : Finds(e, q) = {IF e.org \in DOMAIN q.policies THEN {q.policies[e.org]} ELSE {}}
    BY <1>3 DEF Finds, Methods
  <2>4. Finds(e, s) = Finds(e, d)
    BY <2>2, <2>3
  <2> QED
    BY <1>3, <2>4
<1>4. CASE e.op = "leaseAiWorkerJob"
  <2>1. /\ Overdue(s, e) = Overdue(d, e) /\ \A found : NextJob(s, e, found) = NextJob(d, e, found)
    <3>1. CASE c.op \in JobOps
      <4>1. c.org # e.org
        BY <1>4, <3>1 DEF Object, Methods, JobOps
      <4> QED
        BY <3>1, <4>1, JobsFound
    <3>2. CASE c.op \notin JobOps
      BY <3>2, JobsUnmoved DEF Written
    <3> QED
      BY <3>1, <3>2
  <2>2. \A q : Finds(e, q) = {Overdue(q, e)}
    BY <1>4 DEF Finds, Methods
  <2> QED
    BY <1>4, <2>1, <2>2
<1> QED
  BY <1>1, <1>2, <1>3, <1>4 DEF Finding

LEMMA StillAfter ==
  ASSUME NEW c, NEW x, NEW d, NEW s, NEW e, NEW y, NEW z, Written(c, x, d, s), c.op \in JobOps => JobsChange(c, d.jobs, s.jobs),
         c.op = "createTest" /\ e.op = "updateTestManifest" => c.id # e.on,
         c.op = "saveRunResult" =>
           c.id \notin DOMAIN d.results /\ \A i \in x.found \cap DOMAIN d.results : d.results[i].of = c.on,
         c.op = "updateTestManifest" => c.id \notin DOMAIN d.versions,
         c.op = "saveRunResult" /\ e.op = "saveRunResult" => c.id \notin y.found,
         e.op \in Finding, StillSo(e, d, y),
         z.found = y.found, z.pick = y.pick, z.began = y.began, z.done = y.done,
         z.overtaken \/ (z.overtaken = y.overtaken /\ Object(e) # Object(c))
  PROVE  StillSo(e, s, z)
<1>1. e.op = "updateTestManifest" => z.found = Mine(s, "tests", e) \cap {e.on}
  BY TestsFound DEF StillSo, Written
<1>2. e.op = "saveRunResult" => \A i \in z.found \cap DOMAIN s.results : s.results[i].of = e.on
  BY DEF StillSo, Written, WritesResults
<1>3. e.op = "leaseAiWorkerJob" => Locks(e, s, z)
  <2>1. s.jobs = d.jobs \/ JobsChange(c, d.jobs, s.jobs)
    BY DEF Written
  <2> QED
    BY <2>1, LocksKept DEF StillSo
<1>4. ASSUME ~z.overtaken
      PROVE  /\ z.found \in Finds(e, s)
             /\ e.op = "updateTestManifest" => \A v \in VersionsOf(s, e.on) : s.versions[v].val.at < z.began
             /\ e.op = "leaseAiWorkerJob" /\ z.done = 2 => z.pick = NextJob(s, e, z.found)
  <2>1. ~y.overtaken /\ Object(e) # Object(c)
    BY <1>4
  <2>2. CASE c.op = "createTest" /\ c.id = e.on
    <3>1. e.op # "updateTestManifest" /\ c.op \notin JobOps
      BY <2>2 DEF JobOps
    <3>2. s.results = d.results /\ s.policies = d.policies /\ s.jobs = d.jobs
      BY <2>2, <3>1 DEF Written, WritesResults, WritesPolicies, Methods
    <3>3. Finds(e, s) = Finds(e, d) /\ NextJob(s, e, y.found) = NextJob(d, e, y.found)
      <4>1. Overdue(s, e) = Overdue(d, e) /\ NextJob(s, e, y.found) = NextJob(d, e, y.found)
        BY <3>2, JobsUnmoved
      <4> QED
        BY <3>1, <3>2, <4>1 DEF Finds, Finding, Methods
    <3> QED
      BY <2>1, <3>1, <3>3 DEF StillSo
  <2>3. CASE c.op = "createTest" => c.id # e.on
    <3>1. /\ Finds(e, s) = Finds(e, d)
          /\ e.op = "updateTestManifest" =>
               \A v \in VersionsOf(s, e.on) : v \in VersionsOf(d, e.on) /\ s.versions[v] = d.versions[v]
          /\ e.op = "leaseAiWorkerJob" => \A found : NextJob(s, e, found) = NextJob(d, e, found)
      BY <2>1, <2>3, FindsKept
    <3> QED
      BY <2>1, <3>1 DEF StillSo
  <2> QED
    BY <2>2, <2>3
<1> QED
  BY <1>1, <1>2, <1>3, <1>4 DEF StillSo

LEMMA CommitCurrent ==
  ASSUME IInv, Mirrored, NEW r \in Request, NEW c, Settles(r, c), Alone(r), NEW q \in Request
  PROVE  Current(q)'
<1>1. CASE q = r
  <2>1. tx'[r] = NoTransaction
    BY SettlesFacts DEF IInv, Mirrored, DataKept
  <2> QED
    BY <1>1, <2>1, NoTransactionFacts DEF Current
<1>2. CASE q # r
  <2> DEFINE e == Head(todo[q])
  <2> SUFFICES ASSUME tx'[q].done > 0 PROVE StillSo(e, db', tx'[q])
    <3>1. Head(todo'[q]) = e
      BY <1>2 DEF Alone
    <3> QED
      BY <3>1 DEF Current
  <2>1. /\ Control /\ Fresh(r) /\ Fresh(q) /\ Knows(q) /\ Current(q) /\ DataKept /\ TxShape(q) /\ Ready(r, c)
        /\ DOMAIN tx = Request
    BY CommitReady DEF IInv, Mirrored, Control
  <2>2. /\ SameTx(q) /\ Pending(r, c.op) /\ (c.op # Audit => c.id = r)
        /\ Written(c, tx[r], db, db') /\ (c.op \in JobOps => JobsChange(c, db.jobs, db'.jobs))
    BY <1>2, <2>1, SettlesFacts, CommitData DEF DataKept
  <2>3. tx[q].done > 0 /\ status[q] = "busy" /\ q \in Open /\ tx[q].done <= FirstStatements(e) /\ StillSo(e, db, tx[q])
    BY <2>1, <2>2 DEF SameTx, TxShape, Open, Current
  <2>4. e.op \in Finding
    BY <2>1, <2>3 DEF FirstStatements, Finding, TxShape
  <2>5. tx'[q] = IF q \in Beside(r, c) /\ db' # db THEN [tx[q] EXCEPT !.overtaken = TRUE] ELSE tx[q]
    BY <1>2 DEF Settles
  <2>6. q \in Beside(r, c) <=> Object(e) = Object(c)
    BY <1>2, <2>3 DEF Beside
  <2>7. c.op = "createTest" /\ e.op = "updateTestManifest" => c.id # e.on
    BY <2>1, <2>2, <2>3 DEF Knows, Fresh, Audit
  <2>8. c.op = "saveRunResult" /\ e.op = "saveRunResult" => c.id \notin tx[q].found
    BY <2>1, <2>2, <2>3 DEF Fresh, Audit, Doing
  <2>9. CASE db' = db
    BY <2>3, <2>5, <2>9
  <2>10. CASE db' # db
    <3>1. tx'[q].overtaken \/ (tx'[q].overtaken = tx[q].overtaken /\ Object(e) # Object(c))
      BY <2>1, <2>5, <2>6, <2>10 DEF TxShape
    <3>2. tx'[q].found = tx[q].found /\ tx'[q].pick = tx[q].pick /\ tx'[q].began = tx[q].began /\ tx'[q].done = tx[q].done
      BY <2>2 DEF SameTx
    <3>3. /\ c.op = "saveRunResult" =>
               c.id \notin DOMAIN db.results /\ \A i \in tx[r].found \cap DOMAIN db.results : db.results[i].of = c.on
          /\ c.op = "updateTestManifest" => c.id \notin DOMAIN db.versions
      BY <2>1 DEF Ready
    <3> HIDE DEF e
    <3> QED
      BY <2>2, <2>3, <2>4, <2>7, <2>8, <3>1, <3>2, <3>3, StillAfter
  <2> QED
    BY <2>9, <2>10
<1> QED
  BY <1>1, <1>2

LEMMA HeldElsewhere ==
  ASSUME Control, NEW r \in Request, NEW c, Beside(r, c) = {}, c.op = "leaseAiWorkerJob", \A q \in Request : Current(q)
  PROVE  Held(r) \cap Its(db, c) = {}
<1> SUFFICES ASSUME NEW j \in Held(r), j \in Its(db, c) PROVE FALSE
  OBVIOUS
<1>1. PICK q \in Open \ {r} : Head(todo[q]).op = "leaseAiWorkerJob" /\ j \in tx[q].found \cup tx[q].pick
  BY DEF Held
<1>2. Current(q) /\ tx[q].done > 0 /\ q \in Request
  BY <1>1 DEF Open
<1>3. Locks(Head(todo[q]), db, tx[q])
  BY <1>1, <1>2 DEF Current, StillSo
<1>4. db.jobs[j].org = Head(todo[q]).org
  BY <1>1, <1>3 DEF Locks, Its, Mine
<1>5. db.jobs[j].org = c.org
  BY DEF Its, Mine
<1>6. Object(Head(todo[q])) = <<"jobs", Head(todo[q]).org>> /\ Object(c) = <<"jobs", c.org>>
  BY <1>1, PartsOf DEF JobOps
<1> QED
  BY <1>1, <1>4, <1>5, <1>6 DEF Beside

LEMMA LookCurrent ==
  ASSUME IInv, Mirrored, NEW r \in Request, FirstStatement(r), NEW q \in Request
  PROVE  Current(q)'
<1> DEFINE c == Head(todo[r])
<1>1. /\ Control /\ SavesInOrder /\ \A p \in Request : Current(p)
      /\ DOMAIN tx = Request /\ DOMAIN tx[r] = TxFields
  BY DEF IInv, Mirrored, Control, TxShape, TxFields
<1>2. /\ UNCHANGED <<db, todo>> /\ tx[r].done < FirstStatements(c) /\ (Find1(r, c) \/ Find2(r, c))
  BY DEF FirstStatement
<1>3. CASE q # r
  <2>1. tx'[q] = tx[q]
    BY <1>1, <1>2, <1>3 DEF Find1, Find2
  <2> QED
    BY <1>1, <1>2, <2>1, SMTT(30) DEF Current
<1>4. CASE q = r
  <2> SUFFICES StillSo(c, db, tx'[r])
    BY <1>2, <1>4 DEF Current
  <2> HIDE DEF c
  <2>1. CASE Find1(r, c)
    <3>1. PICK found \in Finds(c, db) :
            tx' = [tx EXCEPT ![r] = [began |-> clock, seen |-> DOMAIN db.versions, done |-> 1,
                                     found |-> found, pick |-> {}, overtaken |-> FALSE]]
      BY <2>1 DEF Find1
    <3>2. /\ tx'[r].began = clock /\ tx'[r].done = 1 /\ tx'[r].found = found /\ tx'[r].pick = {}
          /\ tx'[r].overtaken = FALSE
      BY <1>1, <3>1
    <3>3. c.op = "updateTestManifest" => found = Mine(db, "tests", c) \cap {c.on}
      BY <3>1 DEF Finds, Methods
    <3>4. c.op = "saveRunResult" => \A i \in found : db.results[i].of = c.on
      BY <3>1 DEF Finds, Methods
    <3>5. c.op = "leaseAiWorkerJob" => found \subseteq Its(db, c)
      BY <3>1 DEF Finds, Methods, Overdue, Its
    <3>6. \A v \in VersionsOf(db, c.on) : db.versions[v].val.at < clock
      BY <1>1 DEF SavesInOrder, VersionsOf
    <3> QED
      BY <3>1, <3>2, <3>3, <3>4, <3>5, <3>6 DEF StillSo, Locks
  <2>2. CASE Find2(r, c)
    <3> DEFINE free == Free(db, c, tx[r], Held(r))
               pick == IF free = {} THEN {} ELSE {First(db.jobs, free)}
               over == tx[r].overtaken \/ Beside(r, c) # {}
    <3>1. tx' = [tx EXCEPT ![r] = [tx[r] EXCEPT !.done = 2, !.pick = pick, !.overtaken = over]] /\ tx[r].done = 1
      BY <2>2 DEF Find2
    <3> HIDE DEF over, pick
    <3>2. tx'[r].pick = pick /\ tx'[r].overtaken = over /\ tx'[r].found = tx[r].found /\ tx'[r].done = 2
      BY <1>1, <3>1 DEF TxFields
    <3>3. c.op = "leaseAiWorkerJob"
      BY <1>2, <3>1 DEF FirstStatements
    <3>4. StillSo(c, db, tx[r])
      BY <1>1, <3>1 DEF Current, c
    <3>5. free \subseteq Its(db, c)
      BY DEF Free, Its
    <3>6. IsFiniteSet(DOMAIN db.jobs) /\ \A j \in DOMAIN db.jobs : JobOk(db.jobs[j])
      BY DEF IInv, LeasesApart
    <3>7. pick \subseteq free
      <4>1. free \subseteq DOMAIN db.jobs
        BY <3>5 DEF Its, Mine
      <4> HIDE DEF free
      <4>3. \A i \in free : db.jobs[i].val.place \in Nat
        BY <3>6, <4>1 DEF JobOk
      <4>2. free # {} => First(db.jobs, free) \in free
        BY <4>3, FirstIsOpen
      <4> QED
        BY <4>2 DEF pick
    <3>8. Locks(c, db, tx'[r])
      BY <3>2, <3>3, <3>4, <3>5, <3>7 DEF StillSo, Locks
    <3>9. ASSUME ~over PROVE tx[r].found \in Finds(c, db) /\ pick = NextJob(db, c, tx[r].found)
      <4>1. ~tx[r].overtaken /\ Beside(r, c) = {}
        BY <3>9 DEF over
      <4>2. Held(r) \cap Its(db, c) = {}
        BY <1>1, <3>3, <4>1, HeldElsewhere
      <4>3. free = OpenJobs(db, c, tx[r].found)
        BY <4>2 DEF Free, OpenJobs, Its
      <4> QED
        BY <3>4, <4>1, <4>3 DEF StillSo, NextJob, pick
    <3> QED
      BY <3>2, <3>3, <3>8, <3>9 DEF StillSo
  <2> QED
    BY <1>2, <2>1, <2>2
<1> QED
  BY <1>3, <1>4

(* The lease of a job runs out in both repositories. *)
Lapsed(row) == [row EXCEPT !.val.expired = TRUE]
LapsedIn(jobs, new, j) ==
  /\ DOMAIN new = DOMAIN jobs /\ new[j] = Lapsed(jobs[j]) /\ \A i \in DOMAIN jobs : i # j => new[i] = jobs[i]
  /\ \A i \in DOMAIN jobs : JobOk(new[i]) /\ new[i].org = jobs[i].org /\ new[i].of = jobs[i].of
LEMMA RunsOutJobs ==
  ASSUME NEW jobs, NEW j \in DOMAIN jobs, \A i \in DOMAIN jobs : JobOk(jobs[i])
  PROVE  LapsedIn(jobs, [jobs EXCEPT ![j].val.expired = TRUE], j)
<1> DEFINE row == [jobs[j] EXCEPT !.val.expired = TRUE]
           new == [jobs EXCEPT ![j].val.expired = TRUE]
<1>1. new = [jobs EXCEPT ![j] = row]
  OBVIOUS
<1>2. JobOk(row) /\ row.org = jobs[j].org /\ row.of = jobs[j].of
  <2> DEFINE val == [jobs[j].val EXCEPT !.expired = TRUE]
  <2>1. row = [jobs[j] EXCEPT !.val = val]
    OBVIOUS
  <2>2. DOMAIN val = DOMAIN jobs[j].val /\ val.place = jobs[j].val.place
    OBVIOUS
  <2> HIDE DEF val
  <2>3. JobOk(jobs[j])
    OBVIOUS
  <2>4. DOMAIN row = DOMAIN jobs[j] /\ row.val = val /\ row.org = jobs[j].org /\ row.of = jobs[j].of
    BY <2>1, <2>3 DEF JobOk, RowFields
  <2> HIDE DEF row
  <2> QED
    BY <2>2, <2>3, <2>4 DEF JobOk
<1> HIDE DEF row, new
<1>3. DOMAIN new = DOMAIN jobs /\ new[j] = row /\ \A i \in DOMAIN jobs : i # j => new[i] = jobs[i]
  BY <1>1
<1> QED
  <2>1. LapsedIn(jobs, new, j)
    BY <1>2, <1>3 DEF row, Lapsed, LapsedIn
  <2> QED
    BY <2>1 DEF new

LEMMA RunsOutData ==
  ASSUME IInv, Mirrored, NEW j, LeaseRunsOut(j)
  PROVE  DataKept'
<1>1. /\ j \in DOMAIN db.jobs /\ UNCHANGED <<diverged, disagreed>>
      /\ db' = [db EXCEPT !.jobs[j].val.expired = TRUE] /\ mem' = [mem EXCEPT !.jobs[j].val.expired = TRUE]
  BY DEF LeaseRunsOut
<1>2. DataFacts /\ DataKept
  BY KeptFacts DEF IInv, Mirrored
<1>3. SameJobs(db, mem, diverged) /\ \A i \in DOMAIN db.jobs : JobOk(db.jobs[i])
  BY <1>2 DEF DataFacts, IInv, LeasesApart
<1>4. DOMAIN mem.jobs = DOMAIN db.jobs /\ \A i \in DOMAIN mem.jobs : JobOk(mem.jobs[i])
  BY <1>2, <1>3 DEF DataFacts, SameJobs
<1>5. "jobs" \in DOMAIN db /\ "jobs" \in DOMAIN mem
  BY <1>2 DEF DataFacts, Tables
<1> DEFINE rows == [db.jobs EXCEPT ![j].val.expired = TRUE]
           held == [mem.jobs EXCEPT ![j].val.expired = TRUE]
<1>6. db' = [db EXCEPT !.jobs = rows] /\ mem' = [mem EXCEPT !.jobs = held]
  BY <1>1
<1>7. LapsedIn(db.jobs, rows, j) /\ LapsedIn(mem.jobs, held, j)
  BY <1>1, <1>3, <1>4, RunsOutJobs
<1> HIDE DEF rows, held
<1>8. /\ DOMAIN rows = DOMAIN db.jobs /\ rows[j] = Lapsed(db.jobs[j]) /\ held[j] = Lapsed(mem.jobs[j])
      /\ \A i \in DOMAIN db.jobs :
           /\ rows[i].org = db.jobs[i].org
           /\ i # j => rows[i] = db.jobs[i] /\ held[i] = mem.jobs[i]
      /\ DOMAIN held = DOMAIN mem.jobs /\ \A i \in DOMAIN mem.jobs : JobOk(held[i]) /\ held[i].org = mem.jobs[i].org
  BY <1>4, <1>7 DEF LapsedIn
<1>9. db'.jobs = rows /\ mem'.jobs = held
  BY <1>5, <1>6
<1>10. Frame(db, db', {"jobs"}) /\ Frame(mem, mem', {"jobs"})
  BY <1>6, UpdateFrame
<1>11. SameJobs(db', mem', diverged')
  <2>1. \A i \in DOMAIN db.jobs :
          mem.jobs[i].org = db.jobs[i].org /\ (<<"jobs", db.jobs[i].org>> \notin diverged => mem.jobs[i] = db.jobs[i])
    BY <1>3 DEF SameJobs
  <2>2. ASSUME NEW i \in DOMAIN db.jobs
        PROVE  held[i].org = rows[i].org /\ (<<"jobs", rows[i].org>> \notin diverged => held[i] = rows[i])
    <3>1. /\ i \in DOMAIN mem.jobs /\ mem.jobs[i].org = db.jobs[i].org
          /\ held[i].org = mem.jobs[i].org /\ rows[i].org = db.jobs[i].org
      BY <1>4, <1>8, <2>1
    <3>2. ASSUME <<"jobs", rows[i].org>> \notin diverged PROVE held[i] = rows[i]
      <4>1. mem.jobs[i] = db.jobs[i]
        BY <2>1, <3>1, <3>2
      <4> QED
        BY <1>8, <4>1
    <3> QED
      BY <3>1, <3>2
  <2>3. diverged' = diverged
    BY <1>1
  <2>4. DOMAIN rows = DOMAIN db.jobs /\ DOMAIN held = DOMAIN db.jobs
    BY <1>4, <1>8
  <2> QED
    BY <1>9, <2>2, <2>3, <2>4 DEF SameJobs
<1>12. \A j_1 \in DOMAIN mem'.jobs : JobOk(mem'.jobs[j_1])
  BY <1>8, <1>9
<1>13. /\ db'.versions = db.versions /\ db'.policies = db.policies /\ db'.results = db.results /\ db'.tests = db.tests
       /\ db'.steps = db.steps /\ db'.users = db.users
       /\ mem'.versions = mem.versions /\ mem'.policies = mem.policies /\ mem'.results = mem.results
       /\ DOMAIN db' = DOMAIN db /\ DOMAIN mem' = DOMAIN mem /\ diverged' = diverged
  BY <1>1, <1>2, <1>10 DEF Frame, Tables, DataFacts
<1>14. SameVersions(db', mem', diverged') /\ SamePolicies(db', mem', diverged') /\ SameReports(db', mem', diverged')
  BY <1>2, <1>13, SameElsewhere DEF DataFacts
<1>15. {"jobs"} \cap Plain = {}
  BY DEF Plain, ApartTables
<1>16. Equal(db', mem') /\ \A u \in Plain : db'[u] = db[u]
  BY <1>2, <1>10, <1>15, EqualKept DEF DataFacts
<1>17. SameData(db', mem', diverged')
  BY <1>11, <1>14, <1>16, SMTT(30) DEF SameData, Equal, Plain
<1>18. Referenced(db', mem')
  <2>1. Referenced(db, mem)
    BY <1>2 DEF DataKept
  <2>2. /\ db'.tests = db.tests /\ db'.plugins = db.plugins /\ db'.pluginVersions = db.pluginVersions
        /\ db'.members = db.members /\ db'.organizations = db.organizations
    BY <1>16, PlainTables
  <2> QED
    BY <1>13, <2>1, <2>2 DEF Referenced
<1> QED
  BY <1>1, <1>2, <1>12, <1>13, <1>17, <1>18 DEF DataKept, DataFacts

LEMMA RunsOutCurrent ==
  ASSUME IInv, Mirrored, NEW j, LeaseRunsOut(j), NEW q \in Request
  PROVE  Current(q)'
<1> DEFINE e == Head(todo[q])
<1>1. /\ db' = [db EXCEPT !.jobs[j].val.expired = TRUE] /\ UNCHANGED todo /\ j \in DOMAIN db.jobs
      /\ tx'[q] = IF q \in Open /\ e.op = "leaseAiWorkerJob" THEN [tx[q] EXCEPT !.overtaken = TRUE] ELSE tx[q]
  BY DEF LeaseRunsOut
<1>2. Control /\ TxShape(q) /\ Current(q) /\ SameTx(q) /\ "jobs" \in DOMAIN db
  BY <1>1, OvertakenFacts DEF IInv, Mirrored, Control, Tables
<1> SUFFICES ASSUME tx'[q].done > 0 PROVE StillSo(e, db', tx'[q])
  BY <1>1 DEF Current
<1>3. tx[q].done > 0 /\ q \in Open /\ StillSo(e, db, tx[q]) /\ tx[q].done <= FirstStatements(e)
  BY <1>2 DEF SameTx, TxShape, Open, Current
<1> HIDE DEF e
<1>4. e.op \in Finding
  BY <1>2, <1>3 DEF FirstStatements, Finding, TxShape
<1> DEFINE rows == [db.jobs EXCEPT ![j].val.expired = TRUE]
<1>5. db' = [db EXCEPT !.jobs = rows]
  BY <1>1
<1>6. \A i \in DOMAIN db.jobs : JobOk(db.jobs[i])
  BY DEF IInv, LeasesApart
<1>7. DOMAIN rows = DOMAIN db.jobs /\ \A i \in DOMAIN db.jobs : rows[i].org = db.jobs[i].org /\ rows[i].of = db.jobs[i].of
  BY <1>1, <1>6, RunsOutJobs DEF LapsedIn
<1> HIDE DEF rows
<1>8. db'.jobs = rows
  BY <1>2, <1>5
<1>9. CASE e.op = "leaseAiWorkerJob"
  <2>1. tx'[q].overtaken /\ tx'[q].found = tx[q].found /\ tx'[q].pick = tx[q].pick
    BY <1>1, <1>2, <1>3, <1>9 DEF TxShape
  <2>2. Locks(e, db', tx'[q])
    BY <1>3, <1>7, <1>8, <1>9, <2>1 DEF StillSo, Locks, Its, Mine
  <2> QED
    BY <1>9, <2>1, <2>2 DEF StillSo
<1>10. CASE e.op # "leaseAiWorkerJob"
  <2>1. tx'[q] = tx[q]
    BY <1>1, <1>10
  <2>2. db'.tests = db.tests /\ db'.results = db.results /\ db'.policies = db.policies /\ db'.versions = db.versions
    BY <1>5
  <2>3. Mine(db', "tests", e) = Mine(db, "tests", e) /\ VersionsOf(db', e.on) = VersionsOf(db, e.on)
    BY <2>2 DEF Mine, VersionsOf
  <2>4. Finds(e, db') = Finds(e, db)
    BY <1>4, <1>10, <2>2, <2>3 DEF Finds, Finding, Methods
  <2> QED
    BY <1>3, <1>10, <2>1, <2>2, <2>3, <2>4 DEF StillSo
<1> QED
  BY <1>9, <1>10

(* The other steps leave the repositories alone. *)
Still == UNCHANGED <<db, mem, diverged, disagreed>>

LEMMA StillData ==
  ASSUME DataKept, Still
  PROVE  DataKept'
BY DEF DataKept, Still

LEMMA StillCurrent ==
  ASSUME NEW q \in Request, Current(q), UNCHANGED db, tx'[q].done > 0 => tx'[q] = tx[q] /\ todo'[q] = todo[q]
  PROVE  Current(q)'
BY DEF Current

(* The handler of r goes on, or ends, and no repository takes part.            *)
Leaves(r) ==
  LET c == Head(todo[r])
  IN /\ status[r] = "busy" /\ Still /\ UNCHANGED asked /\ Moves(r) /\ Told(r)
     /\ todo'[r] = <<>> \/ ~InRepository(c)
     /\ tx'[r].done = 0 /\ \A q \in Request : q # r => tx'[q] = tx[q]

LEMMA ExternalLeaves ==
  ASSUME Control, NEW r \in Request, External(r)
  PROVE  Leaves(r)
<1> DEFINE c == Head(todo[r])
<1>1. status[r] = "busy" /\ Still /\ UNCHANGED <<asked, tx>>
  BY DEF External, Still
<1>2. CallsOut(r)
  BY ExternalFacts
<1>3. PutBody(r, c) \/ GetBody(r, c) \/ DeleteBody(r, c) \/ OnGitHub(r, c)
  BY DEF External
<1>4. (\E result : Answered(r, c, result)) /\ c.op \in {"putBody", "getBody", "deleteBody"} \cup GitHubReads \cup GitHubWrites
  <2> HIDE DEF c
  <2> QED
    BY <1>3 DEF PutBody, GetBody, DeleteBody, OnGitHub
<1>5. ~InRepository(c) /\ c.op # "listArtifactsBefore"
  BY <1>4, SMTT(30) DEF InRepository, Methods, GitHubReads, GitHubWrites
<1>6. Told(r)
  BY <1>1, <1>4, <1>5, AnsweredTold
<1>7. tx'[r].done = 0
  <2>1. TxShape(r)
    BY DEF Control
  <2> QED
    BY <1>1, <1>2, <2>1 DEF CallsOut, TxShape
<1> QED
  BY <1>1, <1>2, <1>5, <1>6, <1>7 DEF Leaves, CallsOut

LEMMA BreakLeaves ==
  ASSUME Control, NEW r \in Request, Break(r)
  PROVE  Leaves(r)
<1>1. /\ status[r] = "busy" /\ todo' = [todo EXCEPT ![r] = <<>>] /\ tx' = [tx EXCEPT ![r] = NoTransaction]
      /\ UNCHANGED asked /\ Still
  BY DEF Break, Still
<1>2. Moves(r)
  BY BreakFacts DEF Halts
<1>3. todo'[r] = <<>> /\ tx'[r] = NoTransaction /\ \A q \in Request : q # r => tx'[q] = tx[q]
  BY <1>1 DEF Control
<1>4. Told(r)
  BY <1>3, EndsTold
<1> QED
  BY <1>1, <1>2, <1>3, <1>4, NoTransactionFacts DEF Leaves

LEMMA RejectedLeaves ==
  ASSUME Control, NEW r \in Request, NEW ok, Rejected(r, ok)
  PROVE  Leaves(r)
<1>1. /\ status[r] = "busy" /\ UNCHANGED asked /\ Still
      /\ todo'[r] = <<>> /\ tx'[r] = NoTransaction /\ \A q \in Request : q # r => tx'[q] = tx[q]
  BY RejectedStops DEF Still
<1>2. Moves(r) /\ Told(r)
  BY <1>1, RejectedFacts, EndsTold DEF Halts
<1> QED
  BY <1>1, <1>2, NoTransactionFacts DEF Leaves

LEMMA LoseAnswerLeaves ==
  ASSUME Control, NEW r \in Request, LoseAnswer(r), ~Commit(r, FALSE)
  PROVE  Leaves(r)
<1> DEFINE c == Head(todo[r])
<1>1. /\ status[r] = "busy" /\ UNCHANGED <<asked, tx>> /\ Still /\ ~InRepository(c)
      /\ status' = [status EXCEPT ![r] = "failed"] /\ todo' = [todo EXCEPT ![r] = <<>>]
  BY DEF LoseAnswer, Still
<1>2. DOMAIN todo = Request /\ DOMAIN status = Request /\ TxShape(r)
  BY DEF Control
<1>3. Moves(r) /\ todo'[r] = <<>>
  BY <1>1, <1>2 DEF Moves, Alone, Ends
<1>4. Told(r)
  BY <1>3, EndsTold
<1>5. FirstStatements(c) = 0
  BY <1>1 DEF FirstStatements, InRepository, Methods
<1>6. tx'[r].done = 0
  BY <1>1, <1>2, <1>5 DEF TxShape
<1> QED
  BY <1>1, <1>3, <1>4, <1>6 DEF Leaves

LEMMA Steps ==
  ASSUME IInv, [Next]_vars
  PROVE  \/ \E r \in Request : Arrive(r) \/ FirstStatement(r) \/ Leaves(r)
         \/ \E r \in Request : Commits(r) /\ \E c : Settles(r, c)
         \/ \E j \in DOMAIN db.jobs : LeaseRunsOut(j)
         \/ UNCHANGED vars
<1>1. Control /\ IsFiniteSet(DOMAIN db.artifacts)
  BY DEF IInv, BodiesKept
<1>2. \A r \in Request : \A ok : Commit(r, ok) => Leaves(r) \/ (Commits(r) /\ \E c : Settles(r, c))
  BY <1>1, CommitCases, CommitFacts, CommitSettles, RejectedLeaves
<1>3. \A r \in Request : External(r) \/ Break(r) => Leaves(r)
  BY <1>1, ExternalLeaves, BreakLeaves
<1>4. \A r \in Request : LoseAnswer(r) => Commit(r, FALSE) \/ Leaves(r)
  BY <1>1, LoseAnswerLeaves
<1>5. \A r \in Request : Serve(r) => FirstStatement(r) \/ Commit(r, TRUE) \/ External(r)
  BY DEF Serve
<1> QED
  BY <1>2, <1>3, <1>4, <1>5 DEF Next

(* No step makes the record of another request, or of one that has arrived and
   makes it no more.                                                           *)
Awaits(q, op) == status[q] = "idle" \/ Pending(q, op)

LEMMA FreshKept ==
  ASSUME NEW q \in Request, Fresh(q),
         \A op \in {"createTest", "createPlugin", "saveRunResult"} : Awaits(q, op)' => Awaits(q, op),
         Awaits(q, "createTest")' /\ q \in DOMAIN db'.tests => q \in DOMAIN db.tests,
         Awaits(q, "createPlugin")' /\ q \in DOMAIN db'.plugins => q \in DOMAIN db.plugins,
         Awaits(q, "saveRunResult")' /\ q \in DOMAIN db'.results => q \in DOMAIN db.results,
         \A p \in Request : Doing(p, "saveRunResult")' =>
           (Doing(p, "saveRunResult") /\ tx'[p].found = tx[p].found) \/ tx'[p].found \subseteq DOMAIN db.results
  PROVE  Fresh(q)'
BY DEF Fresh, Awaits

LEMMA DoingKept ==
  ASSUME NEW p \in Request, SameTx(p), todo'[p] = todo[p], NEW op, Doing(p, op)'
  PROVE  Doing(p, op) /\ tx'[p].found = tx[p].found
BY DEF SameTx, Doing

LEMMA CommitFresh ==
  ASSUME IInv, Mirrored, NEW r \in Request, NEW c, Commits(r), Settles(r, c), NEW q \in Request
  PROVE  Fresh(q)'
<1>1. Control /\ "steps" \in DOMAIN db /\ Fresh(q)
  BY DEF IInv, Mirrored, DataKept
<1>2. /\ Written(c, tx[r], db, db') /\ tx'[r] = NoTransaction
      /\ (c.op # Audit => c.id = r) /\ \A p \in Request : p # r => SameTx(p)
  BY <1>1, SettlesFacts
<1>3. c.op = Head(todo[r]).op /\ status[r] = "busy"
  BY DEF Settles
<1>4. PICK answer : Serves(r, answer)
  BY DEF Commits
<1>5. /\ status'[r] # "idle" /\ (\A op \in Once : Pending(r, op)' => Pending(r, op) /\ c.op # op)
      /\ \A p \in Request : p # r =>
           status'[p] = status[p] /\ todo'[p] = todo[p] /\ \A op : Pending(p, op)' = Pending(p, op)
  BY <1>1, <1>3, <1>4, ServesPending
<1>6. {"createTest", "createPlugin", "saveRunResult"} \subseteq Once /\ Audit \notin Once
  BY DEF Once, Audit
<1>7. \A op \in {"createTest", "createPlugin", "saveRunResult"} : Awaits(q, op)' => Awaits(q, op) /\ (c.op = op => c.id # q)
  <2> SUFFICES ASSUME NEW op \in {"createTest", "createPlugin", "saveRunResult"}, Awaits(q, op)'
               PROVE  Awaits(q, op) /\ (c.op = op => c.id # q)
    OBVIOUS
  <2>1. CASE q = r
    BY <1>5, <1>6, <2>1 DEF Awaits
  <2>2. CASE q # r
    BY <1>2, <1>5, <1>6, <2>2 DEF Awaits
  <2> QED
    BY <2>1, <2>2
<1>8. \A p \in Request : Doing(p, "saveRunResult")' => Doing(p, "saveRunResult") /\ tx'[p].found = tx[p].found
  <2> SUFFICES ASSUME NEW p \in Request, Doing(p, "saveRunResult")'
               PROVE  Doing(p, "saveRunResult") /\ tx'[p].found = tx[p].found
    OBVIOUS
  <2>1. p # r
    BY <1>2, NoTransactionFacts DEF Doing
  <2> QED
    BY <1>2, <1>5, <2>1, DoingKept
<1>9. Awaits(q, "createTest")' /\ q \in DOMAIN db'.tests => q \in DOMAIN db.tests
  BY <1>2, <1>7 DEF Written, Grows
<1>10. Awaits(q, "createPlugin")' /\ q \in DOMAIN db'.plugins => q \in DOMAIN db.plugins
  BY <1>2, <1>7 DEF Written, Grows
<1>11. Awaits(q, "saveRunResult")' /\ q \in DOMAIN db'.results => q \in DOMAIN db.results
  BY <1>2, <1>7 DEF Written, WritesResults
<1> QED
  BY <1>1, <1>7, <1>8, <1>9, <1>10, <1>11, FreshKept

LEMMA LookFresh ==
  ASSUME IInv, Mirrored, NEW r \in Request, FirstStatement(r), NEW q \in Request
  PROVE  Fresh(q)'
<1> DEFINE c == Head(todo[r])
<1>1. Control /\ Fresh(q)
  BY DEF IInv, Mirrored
<1>2. Looks(r)
  BY <1>1, FirstStatementFacts
<1>3. /\ UNCHANGED <<todo, status, db>> /\ tx[r].done < FirstStatements(c) /\ \A p \in Request : p # r => SameTx(p)
      /\ tx[r].done = 0 => tx'[r].found \in Finds(c, db)
  BY <1>2 DEF Looks
<1>4. \A op : Awaits(q, op)' => Awaits(q, op)
  BY <1>3 DEF Awaits, Pending
<1>5. \A p \in Request : Doing(p, "saveRunResult")' =>
        (Doing(p, "saveRunResult") /\ tx'[p].found = tx[p].found) \/ tx'[p].found \subseteq DOMAIN db.results
  <2> SUFFICES ASSUME NEW p \in Request, Doing(p, "saveRunResult")'
               PROVE  (Doing(p, "saveRunResult") /\ tx'[p].found = tx[p].found) \/ tx'[p].found \subseteq DOMAIN db.results
    OBVIOUS
  <2>1. CASE p # r
    BY <1>3, <2>1, DoingKept
  <2>2. CASE p = r
    <3>1. c.op = "saveRunResult"
      BY <1>3, <2>2 DEF Doing
    <3>2. TxShape(r)
      BY <1>1 DEF Control
    <3> HIDE DEF c
    <3>3. FirstStatements(c) = 1
      BY <3>1 DEF FirstStatements
    <3>5. Finds(c, db) = {{i \in DOMAIN db.results : db.results[i].of = c.on}}
      BY <3>1 DEF Finds, Methods
    <3>4. tx[r].done = 0
      BY <1>3, <3>2, <3>3 DEF TxShape
    <3> QED
      BY <1>3, <2>2, <3>5, <3>4
  <2> QED
    BY <2>1, <2>2
<1> QED
  BY <1>1, <1>3, <1>4, <1>5, FreshKept

LEMMA LeaveFresh ==
  ASSUME IInv, Mirrored, NEW r \in Request, Leaves(r), NEW q \in Request
  PROVE  Fresh(q)'
<1>1. Control /\ Fresh(q)
  BY DEF IInv, Mirrored
<1>2. /\ status[r] = "busy" /\ UNCHANGED db /\ UNCHANGED asked /\ Moves(r)
      /\ tx'[r].done = 0 /\ \A p \in Request : p # r => tx'[p] = tx[p]
  BY DEF Leaves, Still
<1>3. Serves(r, {})
  BY <1>2, MovesServes
<1>4. /\ status'[r] # "idle" /\ (\A op \in Once : Pending(r, op)' => Pending(r, op))
      /\ \A p \in Request : p # r =>
           status'[p] = status[p] /\ todo'[p] = todo[p] /\ \A op : Pending(p, op)' = Pending(p, op)
  BY <1>1, <1>2, <1>3, ServesPending
<1>5. \A op \in {"createTest", "createPlugin", "saveRunResult"} : Awaits(q, op)' => Awaits(q, op)
  BY <1>4 DEF Awaits, Once
<1>6. \A p \in Request : Doing(p, "saveRunResult")' => Doing(p, "saveRunResult") /\ tx'[p].found = tx[p].found
  BY <1>2, <1>4 DEF Doing
<1> QED
  BY <1>1, <1>2, <1>5, <1>6, FreshKept

LEMMA ArriveFresh ==
  ASSUME IInv, Mirrored, NEW r \in Request, Arrive(r), NEW q \in Request
  PROVE  Fresh(q)'
<1>1. Control /\ Fresh(q) /\ TxShape(r)
  BY DEF IInv, Mirrored, Control
<1>2. Alone(r) /\ status[r] = "idle" /\ status'[r] = "busy"
  BY <1>1, ArriveShape
<1>3. UNCHANGED <<tx, db>>
  BY DEF Arrive
<1>4. \A op : Awaits(q, op)' => Awaits(q, op)
  BY <1>2 DEF Alone, Awaits, Pending
<1>5. \A p \in Request : Doing(p, "saveRunResult")' => Doing(p, "saveRunResult") /\ tx'[p].found = tx[p].found
  <2>1. tx[r].done = 0
    BY <1>1, <1>2 DEF TxShape
  <2> QED
    BY <1>2, <1>3, <2>1 DEF Alone, Doing
<1> QED
  BY <1>1, <1>3, <1>4, <1>5, FreshKept

LEMMA RunsOutFresh ==
  ASSUME IInv, Mirrored, NEW j, LeaseRunsOut(j), NEW q \in Request
  PROVE  Fresh(q)'
<1>1. Control /\ Fresh(q)
  BY DEF IInv, Mirrored
<1>2. RunsOut(j)
  BY <1>1, LeaseRunsOutFacts
<1>3. UNCHANGED <<todo, status>> /\ db'.tests = db.tests /\ db'.plugins = db.plugins /\ db'.results = db.results
      /\ \A p \in Request : SameTx(p)
  BY <1>2 DEF RunsOut
<1>4. \A op : Awaits(q, op)' => Awaits(q, op)
  BY <1>3 DEF Awaits, Pending
<1>5. \A p \in Request : Doing(p, "saveRunResult")' => Doing(p, "saveRunResult") /\ tx'[p].found = tx[p].found
  BY <1>3, DoingKept
<1> QED
  BY <1>1, <1>3, <1>4, <1>5, FreshKept

(* What a call refers to was made by the call before it.                       *)
LEMMA KnowsKept ==
  ASSUME NEW q \in Request, Knows(q), todo'[q] = todo[q], status'[q] = status[q],
         DOMAIN db.organizations \subseteq DOMAIN db'.organizations, DOMAIN db.tests \subseteq DOMAIN db'.tests
  PROVE  Knows(q)'
BY DEF Knows

LEMMA KnowsAtEnd ==
  ASSUME NEW r \in Request, todo'[r] = <<>>, status'[r] # "busy"
  PROVE  Knows(r)'
BY DEF Knows

LEMMA KnowsPurge ==
  ASSUME NEW r \in Request, NEW answer, Begins(r, answer)
  PROVE  Knows(r)'
<1> DEFINE list == todo'[r]
<1>1. PurgeList(r, answer, list)
  BY DEF Begins
<1>2. /\ Len(list) \in Nat /\ Len(list) > 0 /\ list = [i \in 1..Len(list) |-> list[i]]
      /\ \A k \in 1..Len(list) : list[k].op \in PurgeOps
  <2> HIDE DEF list
  <2> QED
    BY <1>1 DEF PurgeList
<1>3. DOMAIN list = 1..Len(list) /\ Head(list) = list[1]
  <2> HIDE DEF list
  <2> QED
    BY <1>2, ListFacts
<1>4. \A k \in DOMAIN list : list[k].op \notin {"addOrganizationMembership", "updateTestManifest"}
  BY <1>2, <1>3 DEF PurgeOps, Audit
<1> QED
  BY <1>2, <1>3, <1>4 DEF Knows

LEMMA KnowsMoves ==
  ASSUME Control, NEW r \in Request, status[r] = "busy", Knows(r), Moves(r),
         Head(todo[r]).op # "listArtifactsBefore" => Told(r),
         Head(todo[r]).op = "createOrganization" /\ todo'[r] # <<>> => r \in DOMAIN db'.organizations,
         Head(todo[r]).op = "createTest" /\ todo'[r] # <<>> => r \in DOMAIN db'.tests
  PROVE  Knows(r)'
<1> DEFINE c == Head(todo[r])
           ops == Routes[Route(r)]
           new == todo'[r]
<1>1. CASE Ends(r)
  <2>1. todo'[r] = <<>> /\ status'[r] # "busy"
    BY <1>1 DEF Ends
  <2> QED
    BY <2>1, KnowsAtEnd
<1>2. CASE GoesOn(r)
  <2>1. /\ c.op # "listArtifactsBefore" /\ Len(new) \in Nat /\ Len(new) > 0
        /\ new = [i \in 1..Len(new) |-> new[i]] /\ Len(new) = Len(todo[r]) - 1
        /\ \A i \in 1..Len(new) : new[i].op = todo[r][i + 1].op
    BY <1>2 DEF GoesOn
  <2>2. /\ Len(todo[r]) \in Nat /\ DOMAIN todo[r] = 1..Len(todo[r]) /\ c = todo[r][1] /\ 1 \in DOMAIN todo[r]
        /\ c.id = r
    BY BusyFacts
  <2>3. DOMAIN new = 1..Len(new) /\ Head(new) = new[1] /\ new # <<>>
    <3> HIDE DEF new
    <3> QED
      BY <2>1, ListFacts
  <2>4. \A i \in DOMAIN new : i \in Nat \ {0} /\ i + 1 \in DOMAIN todo[r] /\ new[i].op = todo[r][i + 1].op
    <3> HIDE DEF new, c
    <3> QED
      BY <2>1, <2>2, <2>3
  <2>5. PICK answer : \A i \in DOMAIN new : i + 1 \in DOMAIN todo[r] /\ new[i] = Informed(c, answer, todo[r][i + 1])
    BY <2>1 DEF Told
  <2>6. CASE Route(r) = "postPurge"
    <3>1. \A i \in DOMAIN new : new[i].op \notin Once
      BY <2>4, <2>6, PendingOps
    <3>2. \A i \in DOMAIN new : new[i].op \notin {"addOrganizationMembership", "updateTestManifest"}
      BY <3>1 DEF Once
    <3>3. 1 \in DOMAIN new
      <4> HIDE DEF new
      <4> QED
        BY <2>1, <2>3
    <3> QED
      BY <2>3, <3>2, <3>3 DEF Knows
  <2>7. CASE Route(r) # "postPurge"
    <3>1. Route(r) \in DOMAIN Routes
      BY DEF Control, Shape
    <3>2. Preceded(Route(r), ops)
      BY <3>1, PrecededRoutes
    <3>3. /\ GoodRoute(Route(r), ops) /\ Len(todo[r]) <= Len(ops)
          /\ \A i \in DOMAIN todo[r] :
               /\ i + (Len(ops) - Len(todo[r])) \in DOMAIN ops
               /\ todo[r][i].op = ops[i + (Len(ops) - Len(todo[r]))]
      BY <2>7, OnRouteFacts
    <3>4. Len(ops) \in Nat /\ DOMAIN ops = 1..Len(ops)
      BY <3>3 DEF GoodRoute
    <3>5. \A i \in DOMAIN new : new[i].op = "addOrganizationMembership" => i = 1 /\ c.op = "createOrganization"
      <4> SUFFICES ASSUME NEW i \in DOMAIN new, new[i].op = "addOrganizationMembership"
                   PROVE  i = 1 /\ c.op = "createOrganization"
        OBVIOUS
      <4> DEFINE k == Len(ops) - Len(todo[r])
      <4>1. i + 1 + k \in DOMAIN ops /\ ops[i + 1 + k] = "addOrganizationMembership" /\ c.op = ops[1 + k] /\ k \in Nat
            /\ i \in Nat \ {0}
        <5>1. i \in Nat \ {0} /\ i + 1 \in DOMAIN todo[r] /\ todo[r][i + 1].op = "addOrganizationMembership"
          BY <2>4
        <5>2. /\ (i + 1) + k \in DOMAIN ops /\ todo[r][i + 1].op = ops[(i + 1) + k]
              /\ todo[r][1].op = ops[1 + k]
          BY <2>2, <3>3, <5>1
        <5>3. k \in Nat
          <6> HIDE DEF ops
          <6> QED
            BY <2>2, <3>3, <3>4
        <5> HIDE DEF k, ops, new
        <5> QED
          BY <2>2, <5>1, <5>2, <5>3
      <4>2. ops = <<"createOrganization", "addOrganizationMembership">>
        BY <3>2, <4>1 DEF Preceded
      <4> HIDE DEF ops, k, c, new
      <4>3. i + 1 + k = 2
        BY <4>1, <4>2
      <4>4. i = 1 /\ k = 0
        BY <4>1, <4>3
      <4> QED
        BY <4>1, <4>2, <4>4
    <3>6. \A i \in DOMAIN new : i = 1 /\ new[i].op = "updateTestManifest" => c.op = "createTest"
      <4> SUFFICES ASSUME NEW i \in DOMAIN new, i = 1, new[i].op = "updateTestManifest"
                   PROVE  c.op = "createTest"
        OBVIOUS
      <4> DEFINE k == Len(ops) - Len(todo[r])
      <4>1. 2 + k \in DOMAIN ops /\ ops[2 + k] = "updateTestManifest" /\ c.op = ops[1 + k] /\ k \in Nat
        <5>1. 1 + 1 \in DOMAIN todo[r] /\ todo[r][1 + 1].op = "updateTestManifest"
          BY <2>4
        <5>2. /\ (1 + 1) + k \in DOMAIN ops /\ todo[r][1 + 1].op = ops[(1 + 1) + k]
              /\ todo[r][1].op = ops[1 + k]
          BY <2>2, <3>3, <5>1
        <5>3. k \in Nat
          <6> HIDE DEF ops
          <6> QED
            BY <2>2, <3>3, <3>4
        <5> HIDE DEF k, ops, new
        <5> QED
          BY <2>2, <5>1, <5>2, <5>3
      <4>2. 2 + k # 1 /\ (2 + k) - 1 = 1 + k
        <5> HIDE DEF k
        <5> QED
          BY <4>1
      <4> QED
        BY <3>2, <4>1, <4>2 DEF Preceded
    <3>7. \A i \in DOMAIN new : DOMAIN todo[r][i + 1] = CallFields
      BY <2>4 DEF Control, Shape
    <3> HIDE DEF c, new, ops
    <3>8. \A i \in DOMAIN new : new[i].op = "addOrganizationMembership" => new[i].of = todo[r][i + 1].of /\ new[i].org = r
      <4> SUFFICES ASSUME NEW i \in DOMAIN new, new[i].op = "addOrganizationMembership"
                   PROVE  new[i].of = todo[r][i + 1].of /\ new[i].org = r
        OBVIOUS
      <4>1. c.op = "createOrganization" /\ new[i] = Informed(c, answer, todo[r][i + 1])
        BY <2>5, <3>5
      <4> QED
        BY <2>2, <3>7, <4>1, InformedOf
    <3>9. \A i \in DOMAIN new : i = 1 /\ new[i].op = "updateTestManifest" => new[i].on = r
      <4> SUFFICES ASSUME NEW i \in DOMAIN new, i = 1, new[i].op = "updateTestManifest"
                   PROVE  new[i].on = r
        OBVIOUS
      <4>1. c.op = "createTest" /\ new[i] = Informed(c, answer, todo[r][i + 1])
        BY <2>5, <3>6
      <4> QED
        BY <2>2, <3>7, <4>1, InformedOf
    <3>10. 1 \in DOMAIN new
      BY <2>1, <2>3
    <3>11. \A i \in DOMAIN new : new[i].op = "addOrganizationMembership" => new[i].of \in DOMAIN Seed.db.users
      BY <2>4, <3>8 DEF Knows
    <3>12. new[1].op = "addOrganizationMembership" => new[1].org \in DOMAIN db'.organizations
      BY <2>3, <3>5, <3>8, <3>10 DEF c, new
    <3>13. new[1].op = "updateTestManifest" => new[1].on \in DOMAIN db'.tests
      BY <2>3, <3>6, <3>9, <3>10 DEF c, new
    <3> QED
      BY <2>3, <3>11, <3>12, <3>13 DEF Knows, new
  <2> QED
    BY <2>6, <2>7
<1> QED
  BY <1>1, <1>2 DEF Moves

LEMMA KnowsArrival ==
  ASSUME Control, NEW r \in Request, Arrive(r)
  PROVE  Knows(r)'
<1> DEFINE ops == Routes[Route(r)]
           new == todo'[r]
<1>1. /\ Route(r) \in DOMAIN Routes /\ new = Calls(r, ops) /\ asked \in Scenario
  BY DEF Arrive, Control, Route
<1>2. Preceded(Route(r), ops) /\ GoodRoute(Route(r), ops)
  BY <1>1, PrecededRoutes, GoodRoutes
<1>3. DOMAIN ops = 1..Len(ops) /\ Len(ops) \in Nat \ {0}
  BY <1>2 DEF GoodRoute
<1>4. new = [i \in 1..Len(ops) |-> CallOf(r, ops[i])]
  <2> HIDE DEF new, ops
  <2> QED
    BY <1>1, <1>3 DEF Calls
<1>5. \A i \in 1..Len(ops) : new[i].op = ops[i] /\ new[i].on = asked[r].args.on /\ new[i].of = asked[r].args.of
  <2> HIDE DEF new, ops
  <2> QED
    BY <1>4 DEF CallOf
<1>6. Len(new) = Len(ops) /\ DOMAIN new = DOMAIN ops /\ Head(new) = new[1] /\ 1 \in DOMAIN ops
  <2> HIDE DEF new, ops
  <2>1. new = [i \in 1..Len(ops) |-> new[i]]
    BY <1>4
  <2> QED
    BY <1>3, <2>1, ListFacts
<1>7. /\ Route(r) = "putManifest" => asked[r].args.on \notin Request
      /\ Route(r) = "postOrganizations" => asked[r].args.of \in DOMAIN Seed.db.users
  BY <1>1, ReferencesAssumption DEF Route
<1> HIDE DEF new, ops
<1>8. \A i \in DOMAIN new : new[i].op = "addOrganizationMembership" => new[i].of \in DOMAIN Seed.db.users
  BY <1>2, <1>3, <1>5, <1>6, <1>7 DEF Preceded
<1>9. new[1].op # "addOrganizationMembership"
  BY <1>2, <1>3, <1>5, <1>6, SMTT(30) DEF Preceded
<1>10. new[1].op = "updateTestManifest" => new[1].on \notin Request
  BY <1>2, <1>3, <1>5, <1>6, <1>7 DEF Preceded
<1> QED
  BY <1>6, <1>8, <1>9, <1>10 DEF Knows, new

LEMMA CommitMakes ==
  ASSUME Control, NEW r \in Request, NEW c, Settles(r, c)
  PROVE  /\ c.op = "createOrganization" => r \in DOMAIN db'.organizations
         /\ c.op = "createTest" /\ todo'[r] # <<>> => r \in DOMAIN db'.tests
<1>1. /\ status[r] = "busy" /\ DOMAIN c = CallFields /\ db' = Statement(c, db, tx[r]).store
      /\ c.op # Audit => c = Head(todo[r])
      /\ c.op # "listArtifactsBefore" /\ todo'[r] # <<>> => ~Statement(c, db, tx[r]).refused
  BY DEF Settles
<1>2. c.op # Audit => c.id = r
  BY <1>1, BusyFacts
<1>3. Tables \subseteq DOMAIN db
  BY DEF Control
<1>4. ASSUME c.op = "createOrganization"
      PROVE  r \in DOMAIN db'.organizations
  <2>1. c.op \in Methods.accounts /\ c.id = r
    BY <1>2, <1>4 DEF Methods, Audit
  <2>2. Statement(c, db, tx[r]) = SqlAccounts(c, db)
    BY <1>4, <2>1 DEF Statement, Methods
  <2> QED
    BY <1>1, <1>3, <1>4, <2>1, <2>2, AccountsWrite
<1>5. ASSUME c.op = "createTest", todo'[r] # <<>>
      PROVE  r \in DOMAIN db'.tests
  <2>1. c.op \in Methods.tests /\ c.id = r /\ c.op # "listArtifactsBefore"
    BY <1>2, <1>5 DEF Methods, Audit
  <2>2. Statement(c, db, tx[r]) = ProjectsAndTests(c, db)
    BY <1>5, <2>1 DEF Statement, Methods
  <2> QED
    BY <1>1, <1>3, <1>5, <2>1, <2>2, TestsWrite
<1> QED
  BY <1>4, <1>5

LEMMA CommitKnows ==
  ASSUME IInv, Mirrored, NEW r \in Request, NEW c, Commits(r), Settles(r, c), NEW q \in Request
  PROVE  Knows(q)'
<1>1. Control /\ "steps" \in DOMAIN db /\ Knows(q)
  BY DEF IInv, Mirrored, DataKept
<1>2. Written(c, tx[r], db, db')
  BY <1>1, SettlesFacts
<1>3. DOMAIN db.organizations \subseteq DOMAIN db'.organizations /\ DOMAIN db.tests \subseteq DOMAIN db'.tests
  BY <1>2 DEF Written, Grows
<1>4. c.op = Head(todo[r]).op /\ status[r] = "busy" /\ (c.op # "listArtifactsBefore" => Told(r))
  BY DEF Settles
<1>5. PICK answer : Serves(r, answer)
  BY DEF Commits
<1>6. CASE q # r
  BY <1>1, <1>3, <1>5, <1>6, KnowsKept DEF Serves, Alone
<1>7. CASE q = r /\ Moves(r)
  BY <1>1, <1>4, <1>7, CommitMakes, KnowsMoves
<1>8. CASE q = r /\ Begins(r, answer)
  BY <1>8, KnowsPurge
<1> QED
  BY <1>5, <1>6, <1>7, <1>8 DEF Serves

LEMMA LeaveKnows ==
  ASSUME IInv, Mirrored, NEW r \in Request, Leaves(r), NEW q \in Request
  PROVE  Knows(q)'
<1> DEFINE c == Head(todo[r])
<1>1. Control /\ Knows(q)
  BY DEF IInv, Mirrored
<1>2. /\ status[r] = "busy" /\ UNCHANGED db /\ Moves(r) /\ Told(r)
      /\ todo'[r] = <<>> \/ ~InRepository(c)
  BY DEF Leaves, Still
<1>3. c.op \in {"createOrganization", "createTest"} => InRepository(c)
  BY DEF InRepository, Methods
<1>4. CASE q # r
  BY <1>1, <1>2, <1>4, KnowsKept DEF Moves, Alone
<1>5. CASE q = r
  BY <1>1, <1>2, <1>3, <1>5, KnowsMoves
<1> QED
  BY <1>4, <1>5

LEMMA ArriveKnows ==
  ASSUME IInv, Mirrored, NEW r \in Request, Arrive(r), NEW q \in Request
  PROVE  Knows(q)'
<1>1. Control /\ Knows(q)
  BY DEF IInv, Mirrored
<1>2. Alone(r) /\ UNCHANGED db
  BY <1>1, ArriveShape DEF Arrive
<1>3. CASE q # r
  BY <1>1, <1>2, <1>3, KnowsKept DEF Alone
<1>4. CASE q = r
  BY <1>1, <1>4, KnowsArrival
<1> QED
  BY <1>3, <1>4

(* Every step keeps the two repositories the same.                             *)
LEMMA MirroredInit == Init => Mirrored
<1> SUFFICES ASSUME Init
             PROVE  Mirrored
  OBVIOUS
<1>1. /\ db = Seed.db /\ mem = Seed.mem /\ diverged = {} /\ disagreed = {}
      /\ \A r \in Request : todo[r] = <<>> /\ status[r] = "idle" /\ tx[r] = NoTransaction
  BY DEF Init
<1>2. /\ DOMAIN Seed.db = Tables \cup {"steps"} /\ DOMAIN Seed.mem = Tables \cup {"rotated"}
      /\ SameData(Seed.db, Seed.mem, {}) /\ Referenced(Seed.db, Seed.mem)
      /\ \A t \in Tables \ {"members", "audit"} : Request \cap DOMAIN Seed.db[t] = {}
  BY SeedAssumption
<1>3. \A j \in DOMAIN mem.jobs : JobOk(mem.jobs[j])
  <2>1. SameJobs(Seed.db, Seed.mem, {})
    BY <1>2 DEF SameData
  <2>2. DOMAIN Seed.mem.jobs = DOMAIN Seed.db.jobs /\ \A j \in DOMAIN Seed.db.jobs : Seed.mem.jobs[j] = Seed.db.jobs[j]
    BY <2>1 DEF SameJobs
  <2> QED
    BY <1>1, <2>2, SeedFacts
<1>4. DataKept
  BY <1>1, <1>2, <1>3 DEF DataKept
<1>5. \A r \in Request : Fresh(r)
  <2>1. {"tests", "plugins", "results"} \subseteq Tables \ {"members", "audit"}
    BY DEF Tables
  <2>2. \A r \in Request : r \notin DOMAIN db.tests /\ r \notin DOMAIN db.plugins /\ r \notin DOMAIN db.results
    BY <1>1, <1>2, <2>1
  <2>3. \A r \in Request : ~Doing(r, "saveRunResult")
    BY <1>1, NoTransactionFacts DEF Doing
  <2> QED
    BY <2>2, <2>3 DEF Fresh
<1>6. \A r \in Request : Knows(r)
  BY <1>1 DEF Knows
<1>7. \A r \in Request : Current(r)
  BY <1>1, NoTransactionFacts DEF Current
<1> QED
  BY <1>4, <1>5, <1>6, <1>7 DEF Mirrored

LEMMA MirroredStep == IInv /\ Mirrored /\ [Next]_vars => Mirrored'
<1> SUFFICES ASSUME IInv, Mirrored, [Next]_vars
             PROVE  Mirrored'
  OBVIOUS
<1>1. Control /\ DataKept /\ \A q \in Request : Fresh(q) /\ Knows(q) /\ Current(q)
  BY DEF IInv, Mirrored
<1>2. ASSUME NEW r \in Request, Arrive(r)
      PROVE  Mirrored'
  <2>1. /\ Still /\ UNCHANGED <<tx, db>> /\ Alone(r) /\ TxShape(r) /\ status[r] = "idle"
    BY <1>1, <1>2, ArriveShape DEF Arrive, Still, Control
  <2>2. tx[r].done = 0
    BY <2>1 DEF TxShape
  <2>3. \A q \in Request : Current(q)'
    <3> SUFFICES ASSUME NEW q \in Request
                 PROVE  Current(q)'
      OBVIOUS
    <3>1. tx'[q].done > 0 => tx'[q] = tx[q] /\ todo'[q] = todo[q]
      BY <2>1, <2>2 DEF Alone
    <3> QED
      BY <1>1, <2>1, <3>1, StillCurrent
  <2> QED
    BY <1>1, <1>2, <2>1, <2>3, StillData, ArriveFresh, ArriveKnows DEF Mirrored
<1>3. ASSUME NEW r \in Request, FirstStatement(r)
      PROVE  Mirrored'
  <2>1. Still /\ UNCHANGED <<todo, status, db>>
    BY <1>3 DEF FirstStatement, Still
  <2>2. \A q \in Request : Knows(q)'
    BY <1>1, <2>1, KnowsKept
  <2> QED
    BY <1>1, <1>3, <2>1, <2>2, StillData, LookFresh, LookCurrent DEF Mirrored
<1>4. ASSUME NEW r \in Request, Leaves(r)
      PROVE  Mirrored'
  <2>1. Still /\ UNCHANGED db /\ Alone(r) /\ tx'[r].done = 0 /\ \A q \in Request : q # r => tx'[q] = tx[q]
    BY <1>4 DEF Leaves, Still, Moves
  <2>2. \A q \in Request : Current(q)'
    <3> SUFFICES ASSUME NEW q \in Request
                 PROVE  Current(q)'
      OBVIOUS
    <3>1. tx'[q].done > 0 => tx'[q] = tx[q] /\ todo'[q] = todo[q]
      BY <2>1 DEF Alone
    <3> QED
      BY <1>1, <2>1, <3>1, StillCurrent
  <2> QED
    BY <1>1, <1>4, <2>1, <2>2, StillData, LeaveFresh, LeaveKnows DEF Mirrored
<1>5. ASSUME NEW r \in Request, Commits(r), NEW c, Settles(r, c)
      PROVE  Mirrored'
  <2>1. Alone(r)
    BY <1>5 DEF Commits, Serves
  <2> QED
    BY <1>5, <2>1, CommitData, CommitFresh, CommitKnows, CommitCurrent DEF Mirrored
<1>6. ASSUME NEW j \in DOMAIN db.jobs, LeaseRunsOut(j)
      PROVE  Mirrored'
  <2>1. UNCHANGED <<todo, status>> /\ db'.organizations = db.organizations /\ db'.tests = db.tests
    <3>1. RunsOut(j)
      BY <1>1, <1>6, LeaseRunsOutFacts
    <3> QED
      BY <3>1 DEF RunsOut
  <2>2. \A q \in Request : Knows(q)'
    BY <1>1, <2>1, KnowsKept
  <2> QED
    BY <1>6, <2>2, RunsOutData, RunsOutFresh, RunsOutCurrent DEF Mirrored
<1>7. CASE UNCHANGED vars
  BY <1>1, <1>7 DEF vars, Mirrored, DataKept, Fresh, Knows, Current, Pending, Doing
<1> QED
  BY <1>2, <1>3, <1>4, <1>5, <1>6, <1>7, Steps

-----------------------------------------------------------------------------
(* The theorems.                                                               *)

(* In every reachable state: handlers make the calls of their routes in order, *)
(* transactions know what they have found and keep it locked, saves, leases    *)
(* and bodies are as the parts of IInv say.                                    *)
THEOREM Inductive == Spec => []IInv
<1>1. Init => IInv
  BY ControlInit, SavesInit, LeasesInit, BodiesInit DEF IInv
<1>2. IInv /\ [Next]_vars => IInv'
  BY ControlStep, SavesStep, LeasesStep, BodiesStep DEF IInv
<1> QED
  BY <1>1, <1>2, PTL DEF Spec

(* A manifest that was saved after another one had been committed is never     *)
(* hidden by that one, whatever saves overlap, whatever breaks, and although   *)
(* the order of the rows is that of the BEGINs and not of the commits.         *)
THEOREM NoSaveIsHidden == Spec => []LaterSaveServed
<1>1. IInv => LaterSaveServed
  BY SavesSafe DEF IInv
<1> QED
  BY <1>1, Inductive, PTL

(* An AI worker job whose lease lasts is given to no other poll, however many  *)
(* polls, reports and expiries interleave and wherever calls fail.             *)
THEOREM NoLeaseIsTaken == Spec => AiLeaseKept
<1>1. IInv /\ [Next]_vars
        => [\A j \in DOMAIN db.jobs :
              db.jobs[j].val.status = "leased" /\ ~db.jobs[j].val.expired =>
                db'.jobs[j].val.attempt = db.jobs[j].val.attempt]_vars
  BY LeaseKeptStep
<1> QED
  BY <1>1, Inductive, PTL DEF Spec, AiLeaseKept

(* The body and the record of an artifact come and go together but for an      *)
(* upload or a purge that stands between its two calls or has failed there:    *)
(* no overlap of uploads, purges and reads leaves one without the other.       *)
THEOREM BodiesComeWithRecords == Spec => []BodiesAndRecords
<1>1. IInv => BodiesAndRecords
  BY BodiesSafe DEF IInv
<1> QED
  BY <1>1, Inductive, PTL

(* Two transactions that do not overlap on one object are answered alike by
   PostgreSQL and by the in-process repository, for every number of requests, of
   routes asked and of faults, except that PostgreSQL refuses what a foreign key or
   a unique index of the schema forbids, and that the mask and rotatedAt of secrets
   created and listed are not compared.                                         *)
THEOREM RepositoriesAgree == Spec => []PostgresAgrees
<1>1. Init => Mirrored
  BY MirroredInit
<1>2. IInv /\ Mirrored /\ [Next]_vars => Mirrored'
  BY MirroredStep
<1>3. Mirrored => PostgresAgrees
  BY DEF Mirrored, DataKept, PostgresAgrees
<1> QED
  BY <1>1, <1>2, <1>3, Inductive, PTL DEF Spec
=============================================================================
