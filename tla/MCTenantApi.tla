------------------------------ MODULE MCTenantApi ------------------------------
(* A tenant o1 with one of everything, and pairs of requests about the same     *)
(* things, some for o2, which no organization is, and for a project p0 that is  *)
(* not there.  Three plays of three requests have a read after two overlapping  *)
(* saves, after two overlapping imports, and a report beside two polls.         *)
EXTENDS TenantApi, TLC

Row(of, key, val) == [org |-> "o1", of |-> of, key |-> key, val |-> val]
Job(st, exp, place) == Row("w1", "-", [status |-> st, expired |-> exp, attempt |-> 1, place |-> place])
Both == [t \in Tables |->
  CASE t = "organizations" -> "o1" :> Row("-", "-", "acme")
    [] t = "users" -> "u1" :> [Row("-", "gh1", "login") EXCEPT !.org = None]
    [] t = "sessions" -> "k1" :> [Row("u1", "-", [expired |-> FALSE]) EXCEPT !.org = None]
                      @@ "k0" :> [Row("u1", "-", [expired |-> TRUE]) EXCEPT !.org = None]
    [] t = "members" -> <<"o1", "u1">> :> Row("u1", "-", "owner")
    [] t = "projects" -> "p1" :> Row("-", "shop", "-")
    [] t = "tests" -> "t1" :> Row("p1", "login", "-")
    [] t = "runs" -> "n1" :> Row("t1", "-", [status |-> "running"])
    [] t = "artifacts" -> "a1" :> Row("n1", "-", [old |-> TRUE]) @@ "a2" :> Row("n1", "-", [old |-> FALSE])
    [] t = "workers" -> "w1" :> Row("-", "agent", [heartbeat |-> FALSE])
    [] t = "jobs" -> "j1" :> Job("leased", FALSE, 1) @@ "j2" :> [Job("queued", FALSE, 2) EXCEPT !.val.attempt = 0]
    [] t = "plugins" -> "g1" :> Row("-", "click", "-")
    [] t = "pluginVersions" -> "g1v1" :> Row("g1", "1", [version |-> "1"])
    [] t = "secrets" -> "s1" :> Row(None, "token", [value |-> "old"])
    [] t = "repositories" -> "h1" :> Row("-", "-", [branch |-> "-"]) @@ "h2" :> Row("-", "-", [branch |-> "-", githubId |-> 7])
    [] t = "changes" -> "c1" :> Row("-", "-", [status |-> "open", title |-> "t"])
    [] OTHER -> <<>>]
MCSeed ==
  [db |-> [Both EXCEPT !.versions = "v0" :> Row("t1", "-", [at |-> 0, after |-> {}])] @@ [steps |-> <<>>],
   mem |-> [Both EXCEPT !.versions = "t1" :> <<"v0">>] @@ [rotated |-> {}], bodies |-> {"a1", "a2"}]

Ask(route, on, of, key, val) == [route |-> route, args |-> [org |-> "o1", on |-> on, of |-> of, key |-> key, val |-> val]]
Elsewhere(request) == [request EXCEPT !.args.org = "o2"]
Nothing == Ask("none", "-", "-", "-", "-")

\* Requests about one part of the store, in groups.
Groups == {
  <<Ask("getCallback", "-", "-", "gh1", "login"), Ask("getCallback", "-", "-", "gh2", "login"),
    Ask("getOrganization", "k1", "u1", "-", "-"), Ask("getOrganization", "k0", "u1", "-", "-"),
    Ask("postOrganizations", "-", "u1", "-", "-"), Ask("getMyOrganizations", "-", "u1", "-", "-"),
    Ask("getMembers", "-", "-", "-", "-")>>,
  <<Ask("postProjects", "-", "-", "new", "-"), Ask("getProjects", "-", "-", "-", "-"), Elsewhere(Ask("postProjects", "-", "-", "new", "-")),
    Ask("postTests", "p1", "p1", "new", "-"), Ask("postTests", "p0", "p0", "other", "-"),
    Ask("getTests", "-", "-", "-", "-"), Ask("getAuditLogs", "-", "-", "-", "-")>>,
  <<Ask("putStoragePolicy", "o1", "-", "-", [successRetentionDays |-> 7]), Ask("putStoragePolicy", "o1", "-", "-", [failureRetentionDays |-> 9]),
    Ask("getStoragePolicy", "o1", "-", "-", "-"), Elsewhere(Ask("getStoragePolicy", "o2", "-", "-", "-")),
    Elsewhere(Ask("putStoragePolicy", "o2", "-", "-", [failureRetentionDays |-> 9]))>>,
  <<Ask("postAiWorkers", "-", "-", "agent", "-"), Ask("postAiWorkers", "-", "-", "new", "-"), Ask("getAiWorkers", "-", "-", "-", "-"),
    Ask("postHeartbeat", "w1", "-", "-", "-"), Ask("postAiWorkerJobs", "-", "w1", "-", "-"), Ask("getAiWorkerJobs", "-", "-", "-", "-"),
    Ask("postLease", "w1", "-", "-", "-"), Ask("postComplete", "j1", "-", "-", [status |-> "completed"]),
    Elsewhere(Ask("postComplete", "j1", "-", "-", [status |-> "failed"])), Elsewhere(Ask("postAiWorkers", "-", "-", "agent", "-"))>>,
  <<Ask("postPlugins", "-", "-", "click", [version |-> "1"]), Ask("postPlugins", "-", "-", "new", [version |-> "1"]),
    Ask("getPlugins", "-", "-", "-", "-"), Ask("postPluginVersions", "g1", "-", "-", [version |-> "1"]),
    Ask("postPluginVersions", "g1", "-", "-", [version |-> "2"]), Ask("getPluginVersions", "g1", "-", "-", "-"),
    Elsewhere(Ask("postPlugins", "-", "-", "click", [version |-> "1"]))>>,
  <<Ask("postSecrets", "-", None, "token", [value |-> "a"]), Ask("postSecrets", "-", "p1", "token", [reference |-> "vault"]),
    Ask("postSecrets", "-", "p0", "token", [value |-> "a"]), Ask("postSecrets", "-", None, "token", [value |-> "a", environment |-> "e1"]),
    Ask("postRotate", "s1", "-", "-", [value |-> "b"]), Elsewhere(Ask("postRotate", "s1", "-", "-", [value |-> "c"])),
    Ask("getSecrets", "-", "-", "-", "-"), Elsewhere(Ask("postSecrets", "-", None, "token", [value |-> "a"]))>>,
  <<Ask("postRepositories", "-", "-", "-", [branch |-> "-"]), Ask("postSync", "h1", "-", "-", [branch |-> "main", githubId |-> 7]),
    Ask("postSync", "h2", "-", "-", [branch |-> "main", githubId |-> 7]), Elsewhere(Ask("postRepositories", "-", "-", "-", [branch |-> "-"])),
    Ask("getRepositories", "-", "-", "-", "-"), Ask("getBranches", "h1", "-", "-", "-"), Ask("postBranches", "h1", "-", "fix", "-"),
    Ask("putContents", "h1", "-", "file at sha", "-"), Ask("postGitHubPulls", "h1", "-", "fix", "-"), Ask("getPulls", "h0", "-", "-", "-")>>,
  <<Ask("getManifest", "t1", "-", "-", "-"), Ask("getManifestVersions", "t1", "-", "-", "-"), Ask("putManifest", "t1", "-", "-", "-"),
    Ask("putManifest", "t0", "-", "-", "-"), Ask("postChanges", "-", "-", "-", [title |-> "n"]), Ask("getChanges", "-", "-", "-", "-"),
    Elsewhere(Ask("postChanges", "-", "-", "-", [title |-> "n"])),
    Ask("patchChange", "c1", "-", "-", [status |-> "approved"]), Ask("patchChange", "c1", "-", "-", [status |-> "rejected"])>>,
  <<Ask("getRuns", "-", "-", "-", "-"), Ask("getResult", "n1", "-", "-", "-"), Ask("postImport", "n1", "-", "-", [status |-> "passed", steps |-> {"x"}]),
    Ask("postImport", "n1", "-", "-", [status |-> "failed", steps |-> {"x", "y"}]), Ask("postRepair", "n1", "-", "-", "-"),
    Ask("postNotify", "n1", "h1", "sha", "-"), Ask("postPulls", "-", "-", "-", "-"), Elsewhere(Ask("postPulls", "-", "-", "-", "-")), Elsewhere(Ask("getResult", "n1", "-", "-", "-"))>>,
  <<Ask("postArtifacts", "n1", "n1", "-", [old |-> TRUE]), Ask("postArtifacts", "n1", "n1", "-", [old |-> FALSE]),
    Ask("getArtifacts", "n1", "-", "-", "-"), Ask("postPurge", "-", "-", "-", "-"), Ask("getArtifact", "a1", "-", "-", "-")>>}

Play(a, b, c) == ("r1" :> a) @@ ("r2" :> b) @@ ("r3" :> c)
Pairs == UNION {{Play(g[i], g[j], Nothing) : <<i, j>> \in {<<x, y>> \in (DOMAIN g) \X (DOMAIN g) : x <= y}} : g \in Groups}
Put == Ask("putManifest", "t1", "-", "-", "-")
Lease == Ask("postLease", "w1", "-", "-", "-")
Import(steps) == Ask("postImport", "n1", "-", "-", [status |-> "passed", steps |-> steps])
Triples == {Play(Put, Put, Ask("getManifest", "t1", "-", "-", "-")), Play(Lease, Lease, Ask("postComplete", "j1", "-", "-", [status |-> "completed"])),
            Play(Import({"x", "y"}), Import({"x"}), Ask("getResult", "n1", "-", "-", "-"))}
MCScenario == Pairs \cup Triples
===============================================================================
