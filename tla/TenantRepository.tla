--------------------------- MODULE TenantRepository ---------------------------
(* The tenant repository as the in-process implementation defines it           *)
(* (InMemoryTenantRepository, src/apps/server/src/index.ts:239).  Its methods  *)
(* run to their end without a suspension point, so each is a function from the *)
(* store and the arguments of the call to the new store and the answer.  The   *)
(* module has no variables: TenantApi runs these functions beside the          *)
(* PostgreSQL repository and compares what the two answer and keep.            *)
(*                                                                             *)
(* A call is a record.  op names the method, org is the tenant, id the         *)
(* identifier a created record gets (a random UUID in the code), on the record *)
(* the call is about, of the record a created one belongs to, key its name     *)
(* where the schema of the database cares for names, val its contents or the   *)
(* patch, a function from field names.  An answer is a set of records: empty   *)
(* for `undefined`, the records themselves for a list.                         *)
EXTENDS Naturals, Sequences, FiniteSets

CONSTANT None

\* The Maps the class keeps; a Map is a function from identifiers to records.  A
\* record has no times (createdAt, updatedAt, startedAt, endedAt), but for whether a
\* secret has a rotatedAt, an AI worker a heartbeat and an artifact an old enough
\* createdAt, and a member no login; a list is a set.
Tables == {"organizations", "users", "sessions", "members", "projects", "tests", "versions",
           "runs", "results", "artifacts", "audit", "policies", "workers", "jobs", "plugins",
           "pluginVersions", "secrets", "repositories", "schedules", "changes", "repairs", "pulls"}

\* The methods of the interface, by the part of the store they are about.
Methods ==
  [accounts |-> {"createOrganization", "getOrganization", "upsertGitHubUser", "createAuthSession",
                 "getAuthSession", "addOrganizationMembership", "isOrganizationMember",
                 "listOrganizationsForUser", "listOrganizationMembers"},
   tests |-> {"createProject", "listProjects", "getProject", "createTest", "listTests", "getTest"},
   manifests |-> {"getTestManifest", "updateTestManifest", "listManifestVersions"},
   runs |-> {"createRun", "getRun", "listRuns", "updateRun"},
   results |-> {"saveRunResult", "getRunResult"},
   artifacts |-> {"createArtifact", "listArtifacts", "listArtifactsBefore", "deleteArtifact",
                  "getArtifact", "recordAuditEvent", "listAuditEvents"},
   policies |-> {"getStoragePolicy", "updateStoragePolicy"},
   workers |-> {"createAiWorker", "listAiWorkers", "findAiWorker", "heartbeatAiWorker", "createAiWorkerJob",
                "leaseAiWorkerJob", "completeAiWorkerJob", "listAiWorkerJobs"},
   plugins |-> {"createPlugin", "listPlugins", "publishPluginVersion", "listPluginVersions"},
   secrets |-> {"createSecret", "listSecrets", "rotateSecret", "getSecretValue"},
   changes |-> {"createRepository", "getRepository", "listRepositories", "updateRepository",
                "createSchedule", "listSchedules", "createChangeRequest", "listChangeRequests",
                "getChangeRequest", "updateChangeRequest", "createRepair", "createPullRequest"}]

Result(store, answer) == [store |-> store, answer |-> answer, refused |-> FALSE]
Missing(store) == Result(store, {})
Refused(store) == [store |-> store, answer |-> {}, refused |-> TRUE]

Record(i, row) == [id |-> i, org |-> row.org, of |-> row.of, key |-> row.key, val |-> row.val]
RowOf(c, val) == [org |-> c.org, of |-> c.of, key |-> c.key, val |-> val]
Keep(store, t, i, row) ==
  [store EXCEPT ![t] = [x \in DOMAIN store[t] \cup {i} |-> IF x = i THEN row ELSE store[t][x]]]
\* The fields of f, and those of g that f does not have.
Over(f, g) == [x \in DOMAIN f \cup DOMAIN g |-> IF x \in DOMAIN f THEN f[x] ELSE g[x]]
Mine(store, t, c) == {i \in DOMAIN store[t] : store[t][i].org = c.org}

Insert(store, t, c, val) == Result(Keep(store, t, c.id, RowOf(c, val)), {Record(c.id, RowOf(c, val))})
Find(store, t, c) == Result(store, {Record(i, store[t][i]) : i \in Mine(store, t, c) \cap {c.on}})
List(store, t, c) == Result(store, {Record(i, store[t][i]) : i \in Mine(store, t, c)})
\* A patch names the fields it changes; the others keep what they have.
Merge(store, t, c, patch) ==
  IF c.on \notin Mine(store, t, c) THEN Missing(store)
  ELSE LET row == [store[t][c.on] EXCEPT !.val = Over(patch, @)]
       IN Result(Keep(store, t, c.on, row), {Record(c.on, row)})

\* Organizations, users, sessions and memberships.  A membership is the pair of
\* an organization and a user; one for an unknown user is not recorded.
Accounts(c, s) ==
  CASE c.op = "createOrganization" -> Insert(s, "organizations", [c EXCEPT !.org = c.id], c.val)
    [] c.op = "upsertGitHubUser" ->
         LET known == {u \in DOMAIN s.users : s.users[u].key = c.key}
             u == IF known = {} THEN c.id ELSE CHOOSE x \in known : TRUE
             row == RowOf([c EXCEPT !.org = None], c.val)
         IN Result(Keep(s, "users", u, row), {Record(u, row)})
    [] c.op = "createAuthSession" -> Insert(s, "sessions", [c EXCEPT !.org = None], [expired |-> FALSE])
    [] c.op = "getAuthSession" ->
         Result(s, {x \in Find(s, "sessions", [c EXCEPT !.org = None]).answer : ~x.val.expired})
    [] c.op = "addOrganizationMembership" ->
         IF c.of \notin DOMAIN s.users THEN Missing(s)
         ELSE Result(Keep(s, "members", <<c.org, c.of>>, RowOf(c, c.val)), {})
    [] c.op = "isOrganizationMember" ->
         Result(s, {Record(m, s.members[m]) : m \in DOMAIN s.members \cap {<<c.org, c.of>>}})
    [] c.op = "listOrganizationsForUser" ->
         Result(s, {Record(o, s.organizations[o]) :
                      o \in {x \in DOMAIN s.organizations : <<x, c.of>> \in DOMAIN s.members}})
    [] c.op = "listOrganizationMembers" -> List(s, "members", c)
    [] c.op = "getOrganization" ->
         Result(s, {Record(o, s.organizations[o]) : o \in DOMAIN s.organizations \cap {c.org}})

ProjectsAndTests(c, s) ==
  CASE c.op = "createProject" -> Insert(s, "projects", c, c.val)
    [] c.op = "listProjects" -> List(s, "projects", c)
    [] c.op = "getProject" -> Find(s, "projects", c)
    [] c.op = "createTest" -> Insert(s, "tests", c, c.val)
    [] c.op = "listTests" -> List(s, "tests", c)
    [] c.op = "getTest" -> Find(s, "tests", c)

\* manifests holds the latest one, manifestVersions all of them, oldest first
\* and numbered as they came: here one sequence of the saves.
Versions(s, i) == IF i \in DOMAIN s.versions THEN s.versions[i] ELSE <<>>
ManifestsOf(c, s) ==
  IF c.on \notin Mine(s, "tests", c) THEN Missing(s)
  ELSE LET all == Versions(s, c.on)
       IN CASE c.op = "getTestManifest" -> Result(s, IF all = <<>> THEN {} ELSE {all[Len(all)]})
            [] c.op = "listManifestVersions" -> Result(s, {<<n, all[n]>> : n \in DOMAIN all})
            [] c.op = "updateTestManifest" ->
                 Result(Keep(s, "versions", c.on, Append(all, c.id)), {c.id})

\* getRun takes the organization and ignores it.
Runs(c, s) ==
  CASE c.op = "createRun" -> Insert(s, "runs", c, [status |-> "queued"])
    [] c.op = "getRun" -> Result(s, {Record(i, s.runs[i]) : i \in DOMAIN s.runs \cap {c.on}})
    [] c.op = "listRuns" -> List(s, "runs", c)
    [] c.op = "updateRun" -> Merge(s, "runs", c, [status |-> c.val.status])

\* The last report of a run replaces the one before.  A report is named by the
\* save that brought it; val is the set of its steps.
Results(c, s) ==
  CASE c.op = "saveRunResult" ->
         Result(Keep(s, "results", c.on, [meta |-> c.id, steps |-> {<<x, c.id>> : x \in c.val.steps}]), {c.id})
    [] c.op = "getRunResult" -> Result(s, {s.results[i] : i \in DOMAIN s.results \cap {c.on}})

Artifacts(c, s) ==
  CASE c.op = "createArtifact" -> Insert(s, "artifacts", c, c.val)
    [] c.op = "listArtifacts" ->
         Result(s, {Record(i, s.artifacts[i]) : i \in {x \in Mine(s, "artifacts", c) : s.artifacts[x].of = c.on}})
    [] c.op = "listArtifactsBefore" ->
         Result(s, {Record(i, s.artifacts[i]) : i \in {x \in Mine(s, "artifacts", c) : s.artifacts[x].val.old}})
    [] c.op = "deleteArtifact" ->
         IF c.on \notin Mine(s, "artifacts", c) THEN Missing(s)
         ELSE Result([s EXCEPT !.artifacts = [i \in DOMAIN @ \ {c.on} |-> @[i]]], {c.on})
    [] c.op = "getArtifact" -> Find(s, "artifacts", c)
    [] c.op = "recordAuditEvent" -> Result(Keep(s, "audit", c.id, RowOf([c EXCEPT !.key = c.on], c.val)), {})
    [] c.op = "listAuditEvents" -> List(s, "audit", c)

\* The first look at a policy stores the defaults.
DefaultPolicy == [successRetentionDays |-> 30, failureRetentionDays |-> 180]
PolicyOf(s, c) == IF c.org \in DOMAIN s.policies THEN s.policies[c.org] ELSE DefaultPolicy
StoragePolicies(c, s) ==
  LET policy == IF c.op = "getStoragePolicy" THEN PolicyOf(s, c) ELSE Over(c.val, PolicyOf(s, c))
  IN Result(Keep(s, "policies", c.org, policy), {policy})

\* An AI worker job is queued, leased until its lease runs out, or over.
Expired(row) == row.val.status = "leased" /\ row.val.expired
Requeued(s, c) == [i \in DOMAIN s.jobs |->
  IF s.jobs[i].org = c.org /\ s.jobs[i].of = c.on /\ Expired(s.jobs[i])
  THEN [s.jobs[i] EXCEPT !.val.status = "queued"] ELSE s.jobs[i]]
Leased(row) == [row EXCEPT !.val.status = "leased", !.val.expired = FALSE, !.val.attempt = @ + 1]
First(jobs, open) == CHOOSE i \in open : \A j \in open : jobs[i].val.place <= jobs[j].val.place
AiWorkers(c, s) ==
  CASE c.op = "createAiWorker" -> Insert(s, "workers", c, c.val)
    [] c.op = "listAiWorkers" -> List(s, "workers", c)
    [] c.op = "findAiWorker" -> Find(s, "workers", [c EXCEPT !.on = c.of])   \* listAiWorkers().some
    [] c.op = "heartbeatAiWorker" -> Merge(s, "workers", c, [heartbeat |-> TRUE])
    [] c.op = "createAiWorkerJob" ->
         Insert(s, "jobs", c, [status |-> "queued", expired |-> FALSE, attempt |-> 0, place |-> Cardinality(DOMAIN s.jobs)])
    [] c.op = "leaseAiWorkerJob" ->
         LET swept == Requeued(s, c)
             open == {i \in DOMAIN swept : swept[i].org = c.org /\ swept[i].of = c.on /\ swept[i].val.status = "queued"}
         IN IF open = {} THEN Missing([s EXCEPT !.jobs = swept])
            ELSE LET i == First(swept, open)
                     row == Leased(swept[i])
                 IN Result([s EXCEPT !.jobs = [swept EXCEPT ![i] = row]], {Record(i, row)})
    [] c.op = "completeAiWorkerJob" ->
         IF c.on \in Mine(s, "jobs", c) /\ s.jobs[c.on].val.status = "leased"
         THEN Merge(s, "jobs", c, c.val) ELSE Missing(s)
    [] c.op = "listAiWorkerJobs" -> List(s, "jobs", c)

\* A second publication of one version throws.
Plugins(c, s) ==
  CASE c.op = "createPlugin" -> Insert(s, "plugins", c, c.val)
    [] c.op = "listPlugins" -> List(s, "plugins", c)
    [] c.op = "publishPluginVersion" ->
         IF c.on \notin Mine(s, "plugins", c) THEN Missing(s)
         ELSE IF \E v \in DOMAIN s.pluginVersions :
                   s.pluginVersions[v].of = c.on /\ s.pluginVersions[v].key = c.val.version THEN Refused(s)
         ELSE Insert(s, "pluginVersions", [c EXCEPT !.of = c.on, !.key = c.val.version], c.val)
    [] c.op = "listPluginVersions" ->
         Result(s, {Record(i, s.pluginVersions[i]) :
                      i \in {x \in Mine(s, "pluginVersions", c) : s.pluginVersions[x].of = c.on}})

\* val.value is what the ciphertext decrypts to, kept if the secret was given one.
\* An answer carries a mask of it and whether the record has a rotatedAt; `rotated`
\* holds the identifiers of the records that have.
NoValue == <<"external">>
Redacted == <<"redacted">>
Masked(value) == <<"masked", value>>        \* its first two and last two characters
Stored(val) == "value" \in DOMAIN val
Shown(val) == [f \in DOMAIN val \ {"value"} |-> val[f]]
SecretRecord(i, row, mask, rotated) ==
  [id |-> i, org |-> row.org, of |-> row.of, key |-> row.key, val |-> Shown(row.val), mask |-> mask, rotated |-> rotated]
MaskOf(val) == IF Stored(val) THEN Masked(val.value) ELSE NoValue
MySecret(s, i) == SecretRecord(i, s.secrets[i], MaskOf(s.secrets[i].val), i \in s.rotated)
RotatedSecret(s, c) == SecretRecord(c.on, s.secrets[c.on], Masked(c.val.value), TRUE)
Secrets(c, s) ==
  CASE c.op = "createSecret" ->
         LET new == Insert(s, "secrets", c, c.val).store IN Result(new, {MySecret(new, c.id)})
    [] c.op = "listSecrets" -> Result(s, {MySecret(s, i) : i \in Mine(s, "secrets", c)})
    [] c.op = "rotateSecret" ->
         IF c.on \notin Mine(s, "secrets", c) THEN Missing(s)
         ELSE LET new == [Merge(s, "secrets", c, c.val).store EXCEPT !.rotated = @ \cup {c.on}]
              IN Result(new, {RotatedSecret(new, c)})
    [] c.op = "getSecretValue" ->
         Result(s, {s.secrets[i].val.value : i \in {x \in Mine(s, "secrets", c) \cap {c.on} : Stored(s.secrets[x].val)}})

SchedulesAndChanges(c, s) ==
  CASE c.op = "createRepository" -> Insert(s, "repositories", c, c.val)
    [] c.op = "getRepository" -> Find(s, "repositories", c)
    [] c.op = "listRepositories" -> List(s, "repositories", c)
    [] c.op = "updateRepository" -> Merge(s, "repositories", c, c.val)
    [] c.op = "createSchedule" -> Insert(s, "schedules", c, c.val)
    [] c.op = "listSchedules" -> List(s, "schedules", c)
    [] c.op = "createChangeRequest" -> Insert(s, "changes", c, Over([status |-> "open"], c.val))
    [] c.op = "listChangeRequests" -> List(s, "changes", c)
    [] c.op = "getChangeRequest" -> Find(s, "changes", c)
    [] c.op = "updateChangeRequest" -> Merge(s, "changes", c, c.val)
    [] c.op = "createRepair" -> Insert(s, "repairs", c, c.val)
    [] c.op = "createPullRequest" -> Insert(s, "pulls", c, c.val)

Memory(c, s) ==
  CASE c.op \in Methods.accounts -> Accounts(c, s)
    [] c.op \in Methods.tests -> ProjectsAndTests(c, s)
    [] c.op \in Methods.manifests -> ManifestsOf(c, s)
    [] c.op \in Methods.runs -> Runs(c, s)
    [] c.op \in Methods.results -> Results(c, s)
    [] c.op \in Methods.artifacts -> Artifacts(c, s)
    [] c.op \in Methods.policies -> StoragePolicies(c, s)
    [] c.op \in Methods.workers -> AiWorkers(c, s)
    [] c.op \in Methods.plugins -> Plugins(c, s)
    [] c.op \in Methods.secrets -> Secrets(c, s)
    [] c.op \in Methods.changes -> SchedulesAndChanges(c, s)
===============================================================================
