-------------------------- MODULE PostgresRepository --------------------------
(* The same repository on PostgreSQL (PostgresTenantRepository,                *)
(* src/apps/server/src/postgres.ts:12).  Every method is one transaction under *)
(* READ COMMITTED.  A method of one statement is one step: its locks and the   *)
(* unique indexes make overlapping executions of it the same as one after the  *)
(* other.  The six methods whose first statements find something that later    *)
(* ones use take a step for each of those statements and one for the rest with *)
(* the COMMIT; what they found is kept in a record of the transaction:         *)
(*   began      the time of BEGIN, which now() is throughout the transaction   *)
(*   seen       the manifest versions that were there then (for the properties)*)
(*   done       how many of its first statements have been executed            *)
(*   found      what they returned: rows to delete, a row read, rows locked    *)
(*   pick       the job row locked by SELECT ... FOR UPDATE SKIP LOCKED        *)
(*   overtaken  whether another transaction changed the same object meanwhile  *)
(* The tables are those of TenantRepository, except that test_versions has a   *)
(* row for each save, and a report is a row of test_results plus rows of       *)
(* step_results.  created_at of the other tables orders their lists, and the   *)
(* jobs of an AI worker: two that are created by overlapping transactions are  *)
(* ordered here by COMMIT, there by BEGIN.                                     *)
EXTENDS TenantRepository

NoTransaction == [began |-> 0, seen |-> {}, done |-> 0, found |-> {}, pick |-> {}, overtaken |-> FALSE]

\* infra/postgres/migrations.  A row names rows that must be there, its organization
\* first, and some of its columns together are unique.  An INSERT that would break
\* such a constraint fails, and so does the UPDATE that gives a repository the
\* github_repository_id of another one.  Where the method has found the row it
\* belongs to in the organization of the call (updateTestManifest,
\* publishPluginVersion) there is nothing to break.
Owned == {"addOrganizationMembership", "createProject", "createTest", "createRun", "saveRunResult", "createArtifact",
          "recordAuditEvent", "createAiWorker", "createAiWorkerJob", "createPlugin", "createSecret", "createRepository",
          "createSchedule", "createChangeRequest", "createRepair", "createPullRequest"}
\* The other row a new one names: in which table, and its identifier.
Parent(c) ==
  CASE c.op \in {"addOrganizationMembership", "createAuthSession"} -> <<"users", c.of>>
    [] c.op \in {"createTest", "createSecret"} -> <<"projects", c.of>>
    [] c.op \in {"createRun", "createSchedule"} -> <<"tests", c.of>>
    [] c.op = "createArtifact" -> <<"runs", c.of>>
    [] c.op \in {"saveRunResult", "createRepair"} -> <<"runs", c.on>>
    [] c.op = "createAiWorkerJob" -> <<"workers", c.of>>
    [] OTHER -> <<"-", None>>
\* UNIQUE (organization_id, ..., name)
Named == [createProject |-> "projects", createTest |-> "tests", createAiWorker |-> "workers", createPlugin |-> "plugins"]
Taken(rows, c) == \E i \in DOMAIN rows : rows[i].org = c.org /\ rows[i].of = c.of /\ rows[i].key = c.key
\* No method creates an environment, so a secret that names one names none that is
\* there.  A policy is inserted by the first call that looks for it.
Breaks(c, db) ==
  \/ c.op \in Owned /\ c.org \notin DOMAIN db.organizations
  \/ c.op \in Methods.policies /\ c.org \notin DOMAIN db.organizations \cup DOMAIN db.policies
  \/ Parent(c)[2] # None /\ Parent(c)[2] \notin DOMAIN db[Parent(c)[1]]
  \/ c.op = "createSecret" /\ "environment" \in DOMAIN c.val
  \/ c.op \in DOMAIN Named /\ Taken(db[Named[c.op]], c)
  \/ /\ c.op = "updateRepository" /\ c.on \in Mine(db, "repositories", c) /\ "githubId" \in DOMAIN c.val
     /\ \E i \in Mine(db, "repositories", c) \ {c.on} :
          /\ "githubId" \in DOMAIN db.repositories[i].val
          /\ db.repositories[i].val.githubId = c.val.githubId

\* Users, sessions and memberships are read and written without a tenant.
SqlAccounts(c, db) ==
  CASE c.op = "upsertGitHubUser" ->              \* ON CONFLICT DO UPDATE
         LET same == {u \in DOMAIN db.users : db.users[u].key = c.key}
             row == RowOf([c EXCEPT !.org = None], c.val)
         IN IF same = {} THEN Insert(db, "users", [c EXCEPT !.org = None], c.val)
            ELSE LET u == CHOOSE x \in same : TRUE
                 IN Result(Keep(db, "users", u, row), {Record(u, row)})
    [] c.op = "listOrganizationsForUser" ->      \* INNER JOIN organization_memberships
         Result(db, {Record(m[1], db.organizations[m[1]]) : m \in {x \in DOMAIN db.members : x[2] = c.of}})
    [] OTHER -> Accounts(c, db)

\* SELECT id FROM tests, then the INSERT, whose created_at is the time of BEGIN.
\* The manifest served is the row with the last created_at, and a version's
\* number is its place among the rows.
VersionsOf(db, test) == {v \in DOMAIN db.versions : db.versions[v].of = test}
Newest(db, rows) == {v \in rows : \A w \in rows : db.versions[w].val.at <= db.versions[v].val.at}
CreatedWithTheTest(tx) == 0           \* mutant: created_at copied from the test
CreatedAt(tx) == tx.began             \* DEFAULT now()
SqlManifests(c, db, tx) ==
  CASE c.op = "updateTestManifest" ->
         IF tx.found = {} THEN Missing(db)
         ELSE Result(Keep(db, "versions", c.id, RowOf([c EXCEPT !.of = c.on], [at |-> CreatedAt(tx), after |-> tx.seen])), {c.id})
    [] c.op = "getTestManifest" ->
         IF c.on \notin Mine(db, "tests", c) THEN Missing(db) ELSE Result(db, Newest(db, VersionsOf(db, c.on)))
    [] c.op = "listManifestVersions" ->
         LET rows == {v \in VersionsOf(db, c.on) : db.versions[v].org = c.org}
             place(v) == Cardinality({w \in rows : db.versions[w].val.at <= db.versions[v].val.at})
         IN Result(db, {<<place(v), v>> : v \in rows})

\* COALESCE: a field that the patch leaves out keeps its value.
SqlRuns(c, db) ==
  CASE c.op = "getRun" -> Find(db, "runs", c)
    [] c.op = "updateRun" -> Merge(db, "runs", c, [status |-> c.val.status])
    [] OTHER -> Runs(c, db)

\* DELETE the earlier rows, INSERT the report, upsert its steps.  No index makes
\* the run unique in test_results; the steps of an earlier report stay.
SqlResults(c, db, tx) ==
  CASE c.op = "saveRunResult" ->
         LET others == DOMAIN db.results \ tx.found
             kept == [db EXCEPT !.results = [i \in others |-> @[i]],
                                !.steps = Over([x \in {<<c.on, y>> : y \in c.val.steps} |-> c.id], @)]
         IN Result(Keep(kept, "results", c.id, RowOf([c EXCEPT !.of = c.on], {})), {c.id})
    [] c.op = "getRunResult" ->
         Result(db, {[meta |-> i, steps |-> {<<x[2], db.steps[x]>> : x \in {y \in DOMAIN db.steps : y[1] = c.on}}] :
                       i \in tx.found})

SqlArtifacts(c, db) == Artifacts(c, db)

\* The SELECT, and with it the default, come first; the UPDATE writes all fields.
SqlStoragePolicies(c, db, tx) ==
  LET current == IF tx.found = {} THEN DefaultPolicy ELSE CHOOSE p \in tx.found : TRUE
      policy == IF c.op = "getStoragePolicy" THEN current ELSE Over(c.val, current)
  IN IF tx.found = {} /\ c.org \in DOMAIN db.policies THEN Refused(db)   \* two inserts of one key
     ELSE IF c.op = "getStoragePolicy" /\ tx.found # {} THEN Result(db, {policy})
     ELSE Result(Keep(db, "policies", c.org, policy), {policy})

\* Rows another transaction holds are waited for by UPDATE and passed over by
\* SELECT ... SKIP LOCKED.
Overdue(db, c) == {i \in Mine(db, "jobs", c) : db.jobs[i].of = c.on /\ Expired(db.jobs[i])}
FreeOrHeld(db, c, tx, held) ==        \* mutant: no FOR UPDATE
  {i \in Mine(db, "jobs", c) : db.jobs[i].of = c.on /\ (db.jobs[i].val.status = "queued" \/ i \in tx.found)}
Free(db, c, tx, held) ==
  {i \in Mine(db, "jobs", c) \ held : db.jobs[i].of = c.on /\ (db.jobs[i].val.status = "queued" \/ i \in tx.found)}
SqlAiJobs(c, db, tx) ==
  LET swept == [i \in DOMAIN db.jobs |-> IF i \in tx.found THEN [db.jobs[i] EXCEPT !.val.status = "queued"] ELSE db.jobs[i]]
  IN CASE c.op = "leaseAiWorkerJob" ->
            IF tx.pick = {} THEN Missing([db EXCEPT !.jobs = swept])
            ELSE LET i == CHOOSE j \in tx.pick : TRUE
                     row == Leased(swept[i])
                 IN Result([db EXCEPT !.jobs = [swept EXCEPT ![i] = row]], {Record(i, row)})
       [] OTHER -> AiWorkers(c, db)

\* UNIQUE (organization_id, plugin_id, version)
SqlPlugins(c, db) ==
  CASE c.op = "publishPluginVersion" ->
         LET version == [c EXCEPT !.of = c.on, !.key = c.val.version]
         IN IF c.on \notin Mine(db, "plugins", c) THEN Missing(db)
            ELSE IF Taken(db.pluginVersions, version) THEN Refused(db)
            ELSE Insert(db, "pluginVersions", version, c.val)
    [] OTHER -> Plugins(c, db)

\* rotated_at is set with encrypted_value.  A row read back is shown without its
\* value, only a rotation shows the mask of the one it was given.
SqlSecret(db, i) ==
  LET val == db.secrets[i].val
  IN SecretRecord(i, db.secrets[i], IF Stored(val) THEN Redacted ELSE NoValue, Stored(val))
SqlSecrets(c, db) ==
  CASE c.op = "createSecret" ->
         LET new == Insert(db, "secrets", c, c.val).store IN Result(new, {SqlSecret(new, c.id)})
    [] c.op = "listSecrets" -> Result(db, {SqlSecret(db, i) : i \in Mine(db, "secrets", c)})
    [] c.op = "rotateSecret" ->
         IF c.on \notin Mine(db, "secrets", c) THEN Missing(db)
         ELSE LET new == Merge(db, "secrets", c, c.val).store
              IN Result(new, {RotatedSecret(new, c)})
    [] OTHER -> Secrets(c, db)

SqlChangesWhole(c, db) ==             \* mutant: no COALESCE
  CASE c.op \in {"updateRepository", "updateChangeRequest"} ->
         LET t == IF c.op = "updateRepository" THEN "repositories" ELSE "changes"
         IN IF c.on \notin Mine(db, t, c) THEN Missing(db)
            ELSE Result([db EXCEPT ![t][c.on].val = c.val], {Record(c.on, [db[t][c.on] EXCEPT !.val = c.val])})
    [] OTHER -> SchedulesAndChanges(c, db)
\* Repositories, schedules, change requests, repairs and pull requests.
SqlChanges(c, db) ==
  CASE c.op \in {"updateRepository", "updateChangeRequest"} ->
         Merge(db, IF c.op = "updateRepository" THEN "repositories" ELSE "changes", c, c.val)
    [] OTHER -> SchedulesAndChanges(c, db)

\* The methods that find something first: how many such statements they have, and
\* what one may return.
FirstStatements(c) ==
  CASE c.op = "leaseAiWorkerJob" -> 2
    [] c.op \in {"updateTestManifest", "saveRunResult", "getRunResult", "getStoragePolicy", "updateStoragePolicy"} -> 1
    [] OTHER -> 0
Finds(c, db) ==
  CASE c.op = "updateTestManifest" -> {Mine(db, "tests", c) \cap {c.on}}
    [] c.op = "saveRunResult" -> {{i \in DOMAIN db.results : db.results[i].of = c.on}}
    [] c.op = "getRunResult" ->                       \* rows[0] of an unordered SELECT
         LET rows == {i \in DOMAIN db.results : db.results[i].of = c.on}
         IN IF rows = {} THEN {{}} ELSE {{i} : i \in rows}
    [] c.op \in Methods.policies -> {IF c.org \in DOMAIN db.policies THEN {db.policies[c.org]} ELSE {}}
    [] c.op = "leaseAiWorkerJob" -> {Overdue(db, c)}
\* A statement that needs a row another transaction holds waits for its end.
Waits(c, db, held) ==
  \/ c.op = "completeAiWorkerJob" /\ c.on \in held
  \/ c.op = "leaseAiWorkerJob" /\ Overdue(db, c) \cap held # {}

Statement(c, db, tx) ==
  CASE c.op \in Methods.accounts -> SqlAccounts(c, db)
    [] c.op \in Methods.tests -> ProjectsAndTests(c, db)
    [] c.op \in Methods.manifests -> SqlManifests(c, db, tx)
    [] c.op \in Methods.runs -> SqlRuns(c, db)
    [] c.op \in Methods.results -> SqlResults(c, db, tx)
    [] c.op \in Methods.artifacts -> SqlArtifacts(c, db)
    [] c.op \in Methods.policies -> SqlStoragePolicies(c, db, tx)
    [] c.op \in Methods.workers -> SqlAiJobs(c, db, tx)
    [] c.op \in Methods.plugins -> SqlPlugins(c, db)
    [] c.op \in Methods.secrets -> SqlSecrets(c, db)
    [] c.op \in Methods.changes -> SqlChanges(c, db)
\* A statement that breaks a constraint fails, and the transaction is rolled back.
Transaction(c, db, tx) == IF Breaks(c, db) THEN Refused(db) ELSE Statement(c, db, tx)
===============================================================================
