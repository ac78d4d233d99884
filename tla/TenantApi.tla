------------------------------- MODULE TenantApi -------------------------------
(* The HTTP handlers of the server that work on a tenant's data                *)
(* (src/apps/server/src/index.ts:729-1411): what each one calls, in which      *)
(* order, and what it makes of the answers.  Requests are served concurrently; *)
(* a handler suspends at every call.  The calls go to the repository on        *)
(* PostgreSQL (PostgresRepository), to the artifact store and to GitHub.       *)
(*                                                                             *)
(* mem is a history variable: the in-process repository, given each call at    *)
(* the moment its transaction commits.  The two are meant to be the same       *)
(* repository; `disagreed` collects the calls that they answer differently     *)
(* although no transaction on the same object overlapped.                      *)
(*                                                                             *)
(* A request that is refused for its body (400), its tenant header (401, 403)  *)
(* or because no GitHub App is configured (503) is refused before its first    *)
(* write, and is not modelled.  POST /runs and the runner protocol are the     *)
(* subject of RunLifecycle and Triggers.                                       *)
(*                                                                             *)
(* A call may fail before or after its effect (a connection that breaks, a     *)
(* server that stops): MaxFaults bounds how often.                             *)
EXTENDS PostgresRepository, Functions

CONSTANTS Request, Scenario, Seed, MaxFaults

ASSUME FaultsAreCounted == MaxFaults \in Nat

\* d and m, a store of PostgreSQL and one of the in-process repository, hold the same
\* data, but for the objects in `apart`.
SameManifests(d, m, test) ==
  LET all == Versions(m, test)
  IN /\ Len(all) \in Nat /\ all = [i \in 1 .. Len(all) |-> all[i]]
     /\ VersionsOf(d, test) = {all[i] : i \in 1 .. Len(all)}
     /\ \A i, j \in 1 .. Len(all) : i < j => d.versions[all[i]].val.at < d.versions[all[j]].val.at
SameReport(d, m, run) ==
  /\ {i \in DOMAIN d.results : d.results[i].of = run} = IF run \in DOMAIN m.results THEN {m.results[run].meta} ELSE {}
  /\ run \in DOMAIN m.results => \A x \in m.results[run].steps :
       x = <<x[1], x[2]>> /\ <<run, x[1]>> \in DOMAIN d.steps /\ d.steps[<<run, x[1]>>] = x[2]
SamePolicy(d, m, org) ==
  /\ org \in DOMAIN d.policies <=> org \in DOMAIN m.policies
  /\ org \in DOMAIN d.policies => d.policies[org] = m.policies[org]
SameJobs(d, m, apart) ==
  /\ DOMAIN m.jobs = DOMAIN d.jobs
  /\ \A j \in DOMAIN d.jobs :
       m.jobs[j].org = d.jobs[j].org /\ (<<"jobs", d.jobs[j].org>> \notin apart => m.jobs[j] = d.jobs[j])
ApartTables == {"versions", "results", "policies", "jobs"}
SameVersions(d, m, apart) == \A test \in DOMAIN d.tests : <<"versions", test>> \in apart \/ SameManifests(d, m, test)
SameReports(d, m, apart) ==
  \A run \in DOMAIN m.results \cup {d.results[i].of : i \in DOMAIN d.results} :
    <<"results", run>> \in apart \/ SameReport(d, m, run)
SamePolicies(d, m, apart) ==
  \A org \in DOMAIN d.policies \cup DOMAIN m.policies : <<"policies", org>> \in apart \/ SamePolicy(d, m, org)
SameData(d, m, apart) ==
  /\ \A t \in Tables \ ApartTables : m[t] = d[t]
  /\ SameVersions(d, m, apart) /\ SameReports(d, m, apart) /\ SamePolicies(d, m, apart) /\ SameJobs(d, m, apart)
\* What a row belongs to is there, and in the organization of the row.
Referenced(d, m) ==
  /\ \A v \in DOMAIN d.versions : d.versions[v].of \in DOMAIN d.tests /\ d.tests[d.versions[v].of].org = d.versions[v].org
  /\ DOMAIN m.versions \subseteq DOMAIN d.tests
  /\ \A v \in DOMAIN d.pluginVersions :
       LET plugin == d.pluginVersions[v].of
       IN plugin \in DOMAIN d.plugins /\ d.plugins[plugin].org = d.pluginVersions[v].org
  /\ \A e \in DOMAIN d.members : e = <<e[1], e[2]>> /\ e[1] \in DOMAIN d.organizations
\* An AI worker job as it is stored.
JobRow(row) ==
  /\ DOMAIN row = {"org", "of", "key", "val"}
  /\ {"status", "expired", "attempt", "place"} \subseteq DOMAIN row.val /\ row.val.place \in Nat

\* The stores at the beginning: they hold the same data, every artifact has its body,
\* the identifiers are not those that are made later, and the manifests were saved
\* before any request.
ASSUME SeedAssumption ==
  /\ DOMAIN Seed.db = Tables \cup {"steps"} /\ DOMAIN Seed.mem = Tables \cup {"rotated"}
  /\ SameData(Seed.db, Seed.mem, {}) /\ Referenced(Seed.db, Seed.mem)
  /\ Seed.bodies = DOMAIN Seed.db.artifacts
  /\ IsFiniteSet(DOMAIN Seed.db.artifacts) /\ IsFiniteSet(DOMAIN Seed.db.jobs)
  /\ \A t \in Tables \ {"members", "audit"} : Request \cap DOMAIN Seed.db[t] = {}
  /\ \A v \in DOMAIN Seed.db.versions : Seed.db.versions[v].val.at = 0 /\ Seed.db.versions[v].val.after = {}
  /\ \A j \in DOMAIN Seed.db.jobs : JobRow(Seed.db.jobs[j])
\* The report that completes an AI worker job says nothing of its attempts or its place.
ASSUME CompletionAssumption ==
  \A play \in Scenario, r \in Request :
    play[r].route = "postComplete" => {"attempt", "place"} \cap DOMAIN play[r].args.val = {}
\* Identifiers are random: a request names none that another one is about to make.  Who
\* creates an organization is signed in.
ASSUME ReferencesAssumption ==
  \A play \in Scenario, r \in Request :
    /\ play[r].route = "putManifest" => play[r].args.on \notin Request
    /\ play[r].route = "postOrganizations" => play[r].args.of \in DOMAIN Seed.db.users

VARIABLES
  asked,      \* the requests: a route and the arguments of its calls
  todo,       \* the calls each handler has yet to make
  status,     \* idle, busy, or the answer: ok, missing (404), failed
  tx,         \* the transaction each request is in
  db, mem,    \* what PostgreSQL has committed; the in-process repository
  bodies,     \* artifact bodies in the artifact store
  github,     \* what has been done on GitHub
  clock,      \* counts BEGINs
  diverged,   \* objects changed by overlapping transactions
  disagreed, faults
vars == <<asked, todo, status, tx, db, mem, bodies, github, clock, diverged, disagreed, faults>>

-------------------------------------------------------------------------------
(* The routes, in the order of the source: the calls a handler makes when each  *)
(* is answered well.                                                            *)
Audit == "recordAuditEvent"

\* Under AUTH_REQUIRED two reads precede every handler; they are modelled for the
\* routes whose answer depends on them.  A login ends in a user and a session.
SessionRoutes == [
  getCallback |-> <<"github.getAuthenticatedUser", "upsertGitHubUser", "createAuthSession">>,
  getOrganization |-> <<"getAuthSession", "isOrganizationMember", "getOrganization">>]
AccountRoutes == [
  postOrganizations |-> <<"createOrganization", "addOrganizationMembership">>,
  getMyOrganizations |-> <<"listOrganizationsForUser">>,
  postProjects |-> <<"getOrganization", "createProject", Audit>>,
  getProjects |-> <<"listProjects">>, getMembers |-> <<"listOrganizationMembers">>, getAuditLogs |-> <<"listAuditEvents">>]
PolicyRoutes == [
  getStoragePolicy |-> <<"getStoragePolicy">>,
  putStoragePolicy |-> <<"updateStoragePolicy", Audit>>]
AiWorkerRoutes == [
  postAiWorkers |-> <<"createAiWorker", Audit>>,
  getAiWorkers |-> <<"listAiWorkers">>,
  postHeartbeat |-> <<"heartbeatAiWorker", Audit>>,
  postAiWorkerJobs |-> <<"findAiWorker", "createAiWorkerJob", Audit>>,
  getAiWorkerJobs |-> <<"listAiWorkerJobs">>,
  postLease |-> <<"heartbeatAiWorker", "leaseAiWorkerJob", Audit>>,
  postComplete |-> <<"completeAiWorkerJob", Audit>>]
PluginRoutes == [
  postPlugins |-> <<"createPlugin", "publishPluginVersion", Audit>>,
  getPlugins |-> <<"listPlugins">>,
  postPluginVersions |-> <<"publishPluginVersion", Audit>>,
  getPluginVersions |-> <<"listPluginVersions">>]
SecretRoutes == [
  postSecrets |-> <<"createSecret", Audit>>,
  getSecrets |-> <<"listSecrets">>,
  postRotate |-> <<"rotateSecret", Audit>>]
TestRoutes == [
  postTests |-> <<"getProject", "createTest", "updateTestManifest">>,
  getTests |-> <<"listTests">>, getProject |-> <<"getProject">>]
RepositoryRoutes == [
  postRepositories |-> <<"createRepository">>,
  getRepositories |-> <<"listRepositories">>,
  postSync |-> <<"getRepository", "github.getRepository", "updateRepository">>,
  getBranches |-> <<"getRepository", "github.listBranches">>,
  getContents |-> <<"getRepository", "github.getFileContent">>,
  getCompare |-> <<"getRepository", "github.compareBranches">>]
GitHubWriteRoutes == [
  postBranches |-> <<"getRepository", "github.createBranch", Audit>>,
  putContents |-> <<"getRepository", "github.commitFile", Audit>>,
  getPulls |-> <<"getRepository", "github.listPullRequests">>,
  postGitHubPulls |-> <<"getRepository", "github.createPullRequest", "createPullRequest">>]
ManifestRoutes == [
  getManifest |-> <<"getTest", "getTestManifest">>,
  getManifestVersions |-> <<"getTest", "listManifestVersions">>,
  putManifest |-> <<"updateTestManifest">>]
ChangeRoutes == [
  postChanges |-> <<"createChangeRequest">>,
  getChanges |-> <<"listChangeRequests">>,
  patchChange |-> <<"getChangeRequest", "updateChangeRequest">>]
ResultRoutes == [
  getRuns |-> <<"listRuns">>,
  getResult |-> <<"getRun", "getRunResult">>,
  postImport |-> <<"getRun", "saveRunResult", "updateRun">>,
  postRepair |-> <<"getRun", "createRepair">>]
NotifyRoutes == [
  postNotify |-> <<"getRun", "getRepository", "github.createCheckRun", "github.createCommitStatus", "github.createIssueComment">>,
  postPulls |-> <<"createPullRequest">>]
ArtifactRoutes == [
  postArtifacts |-> <<"getRun", "putBody", "createArtifact">>,
  getArtifacts |-> <<"getRun", "listArtifacts">>,
  postPurge |-> <<"listArtifactsBefore">>,
  getArtifact |-> <<"getArtifact", "getBody">>]
PurgeOne == <<"deleteBody", "deleteArtifact", Audit>>

RouteGroups == {SessionRoutes, AccountRoutes, PolicyRoutes, AiWorkerRoutes, PluginRoutes, SecretRoutes, TestRoutes,
                RepositoryRoutes, GitHubWriteRoutes, ManifestRoutes, ChangeRoutes, ResultRoutes, NotifyRoutes, ArtifactRoutes}
Routes == [route \in UNION {DOMAIN group : group \in RouteGroups} |->
             (CHOOSE group \in RouteGroups : route \in DOMAIN group)[route]]

\* The answers a handler turns into 401, 403 or 404.
Lookups == {"getAuthSession", "isOrganizationMember", "getOrganization", "findAiWorker", "getProject", "getTest",
            "getRun", "getRepository", "getChangeRequest", "getArtifact", "getBody", "heartbeatAiWorker",
            "completeAiWorkerJob", "publishPluginVersion", "rotateSecret", "updateTestManifest", "updateRepository",
            "getRunResult"}
Creates == {"createProject", "createAiWorker", "createAiWorkerJob", "createPlugin", "createSecret", "createTest"}

-------------------------------------------------------------------------------
(* The handlers.                                                               *)
CallOf(r, op) ==
  LET args == asked[r].args
  IN [op |-> op, id |-> r, org |-> args.org, on |-> args.on, of |-> args.of, key |-> args.key, val |-> args.val]
Calls(r, ops) == [i \in DOMAIN ops |-> CallOf(r, ops[i])]
AuditId(r, c) == <<r, c.on>>

Init ==
  /\ asked \in Scenario
  /\ todo = [r \in Request |-> <<>>] /\ status = [r \in Request |-> "idle"]
  /\ tx = [r \in Request |-> NoTransaction]
  /\ db = Seed.db /\ mem = Seed.mem /\ bodies = Seed.bodies /\ github = {}
  /\ clock = 1 /\ diverged = {} /\ disagreed = {} /\ faults = 0

Arrive(r) ==
  /\ status[r] = "idle" /\ asked[r].route \in DOMAIN Routes
  /\ status' = [status EXCEPT ![r] = "busy"]
  /\ todo' = [todo EXCEPT ![r] = Calls(r, Routes[asked[r].route])]
  /\ UNCHANGED <<asked, tx, db, mem, bodies, github, clock, diverged, disagreed, faults>>

\* What a created record is called is known when it is created; a notification
\* names its repository beside its run; a purge has three calls for each record.
Informed(c, answer, next) ==
  CASE c.op = "createOrganization" -> [next EXCEPT !.org = c.id]
    [] c.op \in Creates -> [next EXCEPT !.on = c.id]
    [] c.op = "upsertGitHubUser" -> [next EXCEPT !.of = (CHOOSE u \in answer : TRUE).id]
    [] c.op = "getRun" /\ next.op = "getRepository" -> [next EXCEPT !.on = c.of]
    [] OTHER -> next
PurgeRecordFirst(r, c, answer) ==     \* mutant: the record before the body
  LET order == CHOOSE s \in [1 .. Cardinality(answer) -> answer] : {s[i] : i \in DOMAIN s} = answer
      ops == <<"deleteArtifact", "deleteBody", Audit>>
  IN [k \in 1 .. 3 * Cardinality(answer) |->
        [CallOf(r, ops[1 + ((k - 1) % 3)]) EXCEPT !.on = order[1 + ((k - 1) \div 3)].id]]
\* The three calls for each record, in some order of the records.
PurgeCalls(r, c, answer) ==
  LET order == CHOOSE s \in [1 .. Cardinality(answer) -> answer] : {s[i] : i \in DOMAIN s} = answer
  IN [k \in 1 .. 3 * Cardinality(answer) |->
        [CallOf(r, PurgeOne[1 + ((k - 1) % 3)]) EXCEPT !.on = order[1 + ((k - 1) \div 3)].id]]
Failed(c, result) ==
  \/ result.refused
  \/ c.op \in Lookups /\ result.answer = {}
Remaining(r, c, result) ==
  IF Failed(c, result) \/ (c.op = "leaseAiWorkerJob" /\ result.answer = {}) THEN <<>>
  ELSE IF c.op = "listArtifactsBefore" THEN PurgeCalls(r, c, result.answer)
  ELSE [i \in 1 .. Len(todo[r]) - 1 |-> Informed(c, result.answer, todo[r][i + 1])]
AnsweredOk(r, c, result) ==           \* mutant: the error is caught and forgotten
  LET rest == Remaining(r, c, result)
  IN /\ todo' = [todo EXCEPT ![r] = rest]
     /\ status' = [status EXCEPT ![r] = IF rest # <<>> THEN "busy" ELSE "ok"]
\* The handler of r goes on with the answer to its call c.
Answered(r, c, result) ==
  LET rest == Remaining(r, c, result)
  IN /\ todo' = [todo EXCEPT ![r] = rest]
     /\ status' = [status EXCEPT ![r] =
          IF rest # <<>> THEN "busy" ELSE IF ~Failed(c, result) THEN "ok"
          ELSE IF result.refused THEN "failed" ELSE "missing"]

-------------------------------------------------------------------------------
(* Calls of the repository.                                                    *)
InRepository(c) == \E part \in DOMAIN Methods : c.op \in Methods[part]
Object(c) ==
  CASE c.op \in Methods.policies -> <<"policies", c.org>>
    [] c.op \in Methods.manifests -> <<"versions", c.on>>
    [] c.op \in Methods.results -> <<"results", c.on>>
    [] c.op \in {"leaseAiWorkerJob", "createAiWorkerJob", "completeAiWorkerJob", "listAiWorkerJobs"} -> <<"jobs", c.org>>
    [] OTHER -> <<c.op, c.id>>
Open == {r \in Request : status[r] = "busy" /\ tx[r].done > 0}
Beside(r, c) == {q \in Open \ {r} : Object(Head(todo[q])) = Object(c)}
Held(r) == UNION {tx[q].found \cup tx[q].pick : q \in {x \in Open \ {r} : Head(todo[x]).op = "leaseAiWorkerJob"}}

\* The first statements, one after the other.
Find1(r, c) ==
  /\ tx[r].done = 0
  /\ \E found \in Finds(c, db) :
       tx' = [tx EXCEPT ![r] = [began |-> clock, seen |-> DOMAIN db.versions, done |-> 1,
                                found |-> found, pick |-> {}, overtaken |-> FALSE]]
  /\ clock' = clock + 1
Find2(r, c) ==
  /\ tx[r].done = 1
  /\ LET free == Free(db, c, tx[r], Held(r))
     IN tx' = [tx EXCEPT ![r].done = 2, ![r].pick = IF free = {} THEN {} ELSE {First(db.jobs, free)},
                             ![r].overtaken = @ \/ Beside(r, c) # {}]
  /\ UNCHANGED clock
FirstStatement(r) ==
  /\ status[r] = "busy" /\ InRepository(Head(todo[r]))
  /\ LET c == Head(todo[r])
     IN /\ tx[r].done < FirstStatements(c) /\ ~Waits(c, db, Held(r))
        /\ Find1(r, c) \/ Find2(r, c)
  /\ UNCHANGED <<asked, todo, status, db, mem, bodies, github, diverged, disagreed, faults>>

\* Two answers agree when they are equal; PostgreSQL may still serve steps of an
\* earlier report, the in-process getRun leaves the tenant to its caller, and each
\* has its own mask and rotatedAt for a secret that is created or listed.
Unmasked(answer) == {[f \in DOMAIN x \ {"mask", "rotated"} |-> x[f]] : x \in answer}
Agree(c, sql, memory) ==
  CASE c.op = "getRun" -> sql.answer = {x \in memory.answer : x.org = c.org}
    [] c.op = "getRunResult" ->
         /\ {x.meta : x \in sql.answer} = {x.meta : x \in memory.answer}
         /\ \A x \in sql.answer, y \in memory.answer : y.steps \subseteq x.steps
    [] c.op \in {"createSecret", "listSecrets"} ->
         Unmasked(sql.answer) = Unmasked(memory.answer) /\ sql.refused = memory.refused
    [] OTHER -> sql.answer = memory.answer /\ sql.refused = memory.refused

\* The call that r makes; that of an audit event says what it is about.
CallNow(r) ==
  LET c == Head(todo[r]) IN IF c.op = Audit THEN [c EXCEPT !.id = AuditId(r, c), !.val = [route |-> asked[r].route]] ELSE c
\* The last statement and COMMIT.  ok says whether the handler gets the answer.
Commit(r, ok) ==
  /\ status[r] = "busy" /\ todo[r] # <<>> /\ InRepository(Head(todo[r]))
  /\ LET c == CallNow(r)
         sql == Transaction(c, db, tx[r])
         memory == Memory(c, mem)
         rivals == Beside(r, c)
         excused == tx[r].overtaken \/ Object(c) \in diverged
     IN /\ tx[r].done = FirstStatements(c) /\ ~(tx[r].done = 0 /\ Waits(c, db, Held(r)))
        /\ db' = sql.store
        /\ mem' = IF sql.refused THEN mem ELSE memory.store
        /\ diverged' = IF excused /\ ~sql.refused THEN diverged \cup {Object(c)} ELSE diverged
        /\ disagreed' = IF excused \/ Agree(c, sql, memory) \/ (sql.refused /\ Breaks(c, db))
                        THEN disagreed ELSE disagreed \cup {c.op}
        /\ tx' = [q \in Request |-> IF q = r THEN NoTransaction
                                    ELSE IF q \in rivals /\ db' # db THEN [tx[q] EXCEPT !.overtaken = TRUE] ELSE tx[q]]
        /\ IF ok THEN Answered(r, Head(todo[r]), sql) ELSE status' = [status EXCEPT ![r] = "failed"] /\ todo' = [todo EXCEPT ![r] = <<>>]
  /\ UNCHANGED <<asked, bodies, github, clock>>

-------------------------------------------------------------------------------
(* Calls of the artifact store and of GitHub.                                   *)
PutBody(r, c) == c.op = "putBody" /\ bodies' = bodies \cup {c.id} /\ UNCHANGED github /\ Answered(r, c, Missing(bodies))
GetBody(r, c) ==
  c.op = "getBody" /\ UNCHANGED <<bodies, github>> /\ Answered(r, c, Result(bodies, bodies \cap {c.on}))
\* Deleting a body that is gone succeeds.
DeleteBody(r, c) == c.op = "deleteBody" /\ bodies' = bodies \ {c.on} /\ UNCHANGED github /\ Answered(r, c, Missing(bodies))

\* GitHub refuses a second branch of one name, a second pull request for one head,
\* and a second commit made over one version (sha) of a file.
GitHubReads == {"github.getAuthenticatedUser", "github.getRepository", "github.listBranches", "github.getFileContent",
                "github.compareBranches", "github.listPullRequests"}
GitHubWrites == {"github.createBranch", "github.commitFile", "github.createPullRequest",
                 "github.createCheckRun", "github.createCommitStatus", "github.createIssueComment"}
OnGitHub(r, c) ==
  /\ c.op \in GitHubReads \cup GitHubWrites
  /\ UNCHANGED bodies
  /\ IF /\ c.op \in {"github.createBranch", "github.createPullRequest", "github.commitFile"}
        /\ \E x \in github : x.op = c.op /\ x.key = c.key
     THEN UNCHANGED github /\ Answered(r, c, Refused(github))
     ELSE /\ github' = IF c.op \in GitHubReads THEN github ELSE github \cup {[op |-> c.op, key |-> c.key, by |-> r]}
          /\ Answered(r, c, Missing(github))
External(r) ==
  /\ status[r] = "busy"
  /\ LET c == Head(todo[r]) IN PutBody(r, c) \/ GetBody(r, c) \/ DeleteBody(r, c) \/ OnGitHub(r, c)
  /\ UNCHANGED <<asked, tx, db, mem, clock, diverged, disagreed, faults>>

-------------------------------------------------------------------------------
(* Faults and time.                                                            *)
\* The call fails and its transaction is rolled back.
Break(r) ==
  /\ status[r] = "busy" /\ faults < MaxFaults
  /\ faults' = faults + 1
  /\ status' = [status EXCEPT ![r] = "failed"] /\ todo' = [todo EXCEPT ![r] = <<>>]
  /\ tx' = [tx EXCEPT ![r] = NoTransaction]
  /\ UNCHANGED <<asked, db, mem, bodies, github, clock, diverged, disagreed>>
\* The call has its effect and its answer is lost.
LoseAnswer(r) ==
  /\ faults < MaxFaults /\ faults' = faults + 1
  /\ \/ Commit(r, FALSE)
     \/ /\ status[r] = "busy" /\ ~InRepository(Head(todo[r]))
        /\ LET c == Head(todo[r])
           IN /\ bodies' = CASE c.op = "putBody" -> bodies \cup {c.id} [] c.op = "deleteBody" -> bodies \ {c.on} [] OTHER -> bodies
              /\ github' = IF c.op \in GitHubWrites THEN github \cup {[op |-> c.op, key |-> c.key, by |-> r]} ELSE github
        /\ status' = [status EXCEPT ![r] = "failed"] /\ todo' = [todo EXCEPT ![r] = <<>>]
        /\ UNCHANGED <<asked, tx, db, mem, clock, diverged, disagreed>>

\* Five minutes pass: the lease of an AI worker job runs out.  A poll that has begun
\* compares with the time of its BEGIN.  (At the very instant of expiry PostgreSQL
\* still keeps the lease, < against <=.)
LeaseRunsOut(j) ==
  /\ j \in DOMAIN db.jobs /\ db.jobs[j].val.status = "leased" /\ ~db.jobs[j].val.expired
  /\ db' = [db EXCEPT !.jobs[j].val.expired = TRUE]
  /\ mem' = [mem EXCEPT !.jobs[j].val.expired = TRUE]
  /\ tx' = [r \in Request |-> IF r \in Open /\ Head(todo[r]).op = "leaseAiWorkerJob"
                             THEN [tx[r] EXCEPT !.overtaken = TRUE] ELSE tx[r]]
  /\ UNCHANGED <<asked, todo, status, bodies, github, clock, diverged, disagreed, faults>>

Serve(r) == FirstStatement(r) \/ (Commit(r, TRUE) /\ UNCHANGED faults) \/ External(r)
Next ==
  \/ \E r \in Request : Arrive(r) \/ Serve(r) \/ Break(r) \/ LoseAnswer(r)
  \/ \E j \in DOMAIN db.jobs : LeaseRunsOut(j)
Spec == Init /\ [][Next]_vars

-------------------------------------------------------------------------------
(* What the handlers promise.                                                  *)

\* The repository on PostgreSQL answers every call as the in-process one does at
\* that moment, unless transactions on the one object overlapped, and but for what
\* Agree leaves open; it refuses besides what a constraint of the schema forbids, a
\* row that is not there or columns that are taken (postgres.ts against
\* InMemoryTenantRepository).
PostgresAgrees == disagreed = {}

\* The manifest served is none that another committed save came after: a save that
\* began when an earlier one was committed is never hidden by it (postgres.ts:133-156).
LaterSaveServed ==
  \A test \in DOMAIN db.tests :
    LET rows == VersionsOf(db, test)
    IN \A served \in Newest(db, rows) : \A v \in rows : served \notin db.versions[v].val.after

\* A job whose lease has not run out is given to no other poll, however the polls of
\* one worker overlap (FOR UPDATE SKIP LOCKED, postgres.ts:315-324).
AiLeaseKept ==
  [][\A j \in DOMAIN db.jobs :
       db.jobs[j].val.status = "leased" /\ ~db.jobs[j].val.expired => db'.jobs[j].val.attempt = db.jobs[j].val.attempt]_vars

Ops(r) == Range(Routes[asked[r].route])
Asked(r) == asked[r].route \in DOMAIN Routes /\ status[r] # "idle"
CreatedIn == [createOrganization |-> "organizations", createAuthSession |-> "sessions", createProject |-> "projects",
              createTest |-> "tests", createAiWorker |-> "workers", createAiWorkerJob |-> "jobs", createPlugin |-> "plugins",
              publishPluginVersion |-> "pluginVersions", createSecret |-> "secrets", createRepository |-> "repositories",
              createChangeRequest |-> "changes", createRepair |-> "repairs", createPullRequest |-> "pulls",
              updateTestManifest |-> "versions"]
PatchedIn == [completeAiWorkerJob |-> "jobs", rotateSecret |-> "secrets", updateRepository |-> "repositories",
              updateChangeRequest |-> "changes", updateRun |-> "runs"]
\* A patch is there, or a later one of another request.
PatchIsThere(r, op) ==
  \E q \in Request :
    /\ Asked(q) /\ op \in Ops(q) /\ asked[q].args.on = asked[r].args.on
    /\ LET row == db[PatchedIn[op]][asked[r].args.on].val
       IN \A f \in DOMAIN row \cap DOMAIN asked[q].args.val : row[f] = asked[q].args.val[f]
\* The effects of the repository calls and of the GitHub calls of r.
Effects(r) ==
  /\ \A op \in Ops(r) \cap DOMAIN CreatedIn : r \in DOMAIN db[CreatedIn[op]]
  /\ "addOrganizationMembership" \in Ops(r) => <<r, asked[r].args.of>> \in DOMAIN db.members
  /\ \A op \in Ops(r) \cap DOMAIN PatchedIn : PatchIsThere(r, op)
  /\ "updateStoragePolicy" \in Ops(r) => asked[r].args.org \in DOMAIN db.policies
  /\ \A op \in Ops(r) \cap GitHubWrites : \E x \in github : x.op = op /\ x.by = r
EventsOf(r) == {e \in DOMAIN db.audit : e[1] = r}

\* An audit event says nothing that has not happened: what it names exists, was
\* changed, is on GitHub, or, after a purge, is gone with its body.  A request
\* answered well has all its effects and, on the audited routes, its event; one that
\* was refused, with no call that broke, has none.
AnsweredIsWhole ==
  \A r \in Request : Asked(r) =>
    /\ \A e \in EventsOf(r) :
         IF asked[r].route = "postPurge" THEN e[2] \notin bodies \cup DOMAIN db.artifacts ELSE Effects(r)
    /\ status[r] = "ok" => /\ Effects(r)
                           /\ Audit \in Ops(r) /\ asked[r].route # "postLease" => EventsOf(r) # {}
    /\ status[r] \in {"missing", "failed"} /\ faults = 0 =>
         /\ \A t \in Tables \ {"members", "audit"} : r \notin DOMAIN db[t]
         /\ EventsOf(r) = {} /\ r \notin bodies /\ \A x \in github : x.by # r

\* An artifact's record and its body come and go together, but for an upload or a
\* purge that stands between its two calls or has failed there (index.ts:1353-1391).
BodiesAndRecords ==
  /\ \A a \in DOMAIN db.artifacts \ bodies : \E r \in Request :
       asked[r].route = "postPurge" /\ (status[r] = "failed" \/ \E i \in DOMAIN todo[r] : todo[r][i].op = "deleteArtifact" /\ todo[r][i].on = a)
  /\ \A b \in bodies \ DOMAIN db.artifacts :
       b \in Request /\ asked[b].route = "postArtifacts" /\ status[b] \in {"busy", "failed"}

===============================================================================
