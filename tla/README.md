# Open Test Pilot: specifications, model checks and proofs

This directory holds TLA+ modules for the parts of Open Test Pilot in which
several actors share state, or one actor's state outlives a wait: the execution
queue, the life of a test run, the AI workers' jobs and repairs, the schedule
daemon and the webhooks, the tenant repository with the routes over it, the
interpreter of manifests beside the generated test, and the web console.
Each definition is translated from the TypeScript source; `PROJECT.json` maps it
to its lines. TLC checks the models on small instances, TLAPS proves the
theorems for every value of the constants.

    tlc -workers 2 -config RedisQueueRaces.cfg MCRedisQueue     one run
    tlapm MemoryQueueProofs.tla                                 one proof module

## 1. The system

A client posts a run to the **server**. The server stores it in the **tenant
repository** (PostgreSQL, or memory) and puts a job in the **execution queue**
(Redis, or memory). **Runners** poll the server for a lease, execute the job in a
container and report. Runs are also started by the **schedule daemon**, by
**GitHub webhooks** and through the MCP server and the CLI. **AI workers** poll
the server for jobs of their own, repair a manifest and publish the repair as a
pull request.

| component | state | operations | what is hard |
|---|---|---|---|
| `packages/scheduler` (`Scheduler`) | Maps of waiting and leased jobs, one object per organization | enqueue, leaseNext (with the sweep of expired leases), complete, cancel | moves between Maps, the order sweep / limit / choice, expiry at the boundary |
| `packages/queue-adapter` `MemoryExecutionQueue` | runners, schedulers, a Map of job records by id for all organizations | the `ExecutionQueue` methods | ids reused, or shared by organizations; records that disagree with the scheduler |
| `packages/queue-adapter` `RedisExecutionQueue` | job keys, two sorted sets per organization, a lock key | the same, as sequences of Redis commands | every interleaving of two servers' commands; lock expiry; a server that stops in between |
| `apps/server` run and job routes | none of their own: each route awaits queue and repository in turn | POST runs, lease, cancel, complete, results/import, POST jobs | other requests between two awaits; crashes; failing calls |
| `apps/server/postgres.ts` | runs, test_results, step_results, ... | each method is one transaction | writes without a condition on the status read before |
| `apps/runner` | the position of the loop | register, then heartbeat, lease, execute, upload, complete | leases that expire under a running execution; errors end the process |
| `apps/scheduler`, `packages/trigger-adapter` | the minute each schedule was last triggered in, in memory | pollOnce every 60 s: list, match the cron, trigger, remember | overlapping polls, lost answers, one failing schedule, restarts |
| trigger and webhook routes | a Set of delivery ids per server process | accept, deduplicate; create a run, enqueue it, audit | failure after the id is remembered or between the writes, restart, two replicas |
| `apps/ai-worker`, its routes | ai_worker_jobs, workspace directories, branches on GitHub | register, heartbeat, lease, execute, publish, complete | jobs bound to a worker id that is gone, reports repeated in a catch block, retries of half-done work |
| `TenantRepository`: `InMemoryTenantRepository`, `PostgresTenantRepository` | 24 Maps and lists; the tables behind them | some 60 methods | two implementations that must be the same; transactions that overlap, created_at as the order of versions |
| the other tenant routes, `packages/storage-adapter`, `packages/github-adapter` | artifact bodies, what is on GitHub | repositories, manifests, changes, plugins, secrets, policies, results, artifacts, audit | two stores and GitHub in one handler; what is left when the second of three calls fails |
| `packages/playwright-adapter` (interpreter) | variables, loop and call scopes, promises still running | control actions, steps | signals that are exceptions, branches nobody waits for |
| `packages/generator` | none | writes a Playwright test for a manifest | the test must do what the interpreter does |
| `apps/web` | React state of the page, local storage shared by tabs, object URLs | thirteen lists loaded at once, about thirty clicks, effects with cleanup, OAuth | answers out of order, late or lost; a screen left meanwhile; a second tab or user |
| adapters, parsers, importers, reports, CLI, MCP server | little or none | conversions, single requests | nothing concurrent |

Every component, with its status, is listed in `PROJECT.json`; so is every hazard,
at its line. What makes the modelled ones correct:

- **queue**: a job is in one place; an accepted job is never lost; a lease is
  exclusive and honoured until it expires; an expired one is taken back; a job that ended
  stays ended; limits and priorities are respected.
- **runs**: the stored status and result of a run are those its job ended with;
  a run has one last status; every queued job ends.
- **AI jobs**: a job is executed once; what is recorded of it is true and stays; two repairs of one
  request keep apart; a job whose worker lives ends.
- **triggers**: the daemon remembers no minute for which nothing was queued; a run is started twice only
  with a cause; a poll that ends well has missed nothing; a run without a job has a handler that was cut off.
- **tenant data**: the two repositories answer alike; a later save is served; leases of AI jobs are exclusive;
  a good answer has all its effects, a refusal none, an audit event is true; bodies and records go together.
- **manifests**: what a step has entered it leaves; steps do not overlap; failures are reported; bounds hold;
  the generated test does what the interpreter does.
- **console**: the page is about the selected run; it comes to rest; it saves a text under its own test; at rest it
  shows what the server holds; sessions are not mixed up.

## 2. The modules

    JobQueue              what an ExecutionQueue promises (abstract)
      ^ implemented by
    MemoryQueue           MemoryExecutionQueue + Scheduler
    RedisQueue            RedisExecutionQueue, one action per Redis command
      ^ used by
    RunLifecycle          server handlers + runner loops + repository, over JobQueue
    AiWorker              ai_worker_jobs + daemons + the repair workflow + GitHub branches
    Cron                  the operators of packages/trigger-adapter
      ^ used by
    Triggers              schedule daemon + trigger and webhook routes of two replicas
    TenantRepository      the in-process repository, as functions on a store
      ^ extended by
    PostgresRepository    the same methods as transactions of statements
      ^ used by
    TenantApi             the tenant routes, over both repositories, artifact store, GitHub
    Manifest              interpreter and generated test, one machine
    ConsoleState          the page, the network, the server behind fetch, React's commit
      ^ extended by
    ConsoleApp, ConsoleScreens    the handlers of App and of its screens
    Session               signing in: tabs, local storage, GitHub, the OAuth routes
      ^ composed in
    WebConsole            App, screens and signing in, with the properties
    MC...                 constants for TLC
    ...Proofs             theorems about the module of that name

**JobQueue.** `phase[k]` and `holder[k]` for each job; `Submit`, `Reclaim` (a set of
leases is taken back), `ReclaimAndGrant` (lease: sweep, then one grant), `Finish`, `Withdraw`. It
says nothing about storage, priorities or the time a lease lasts.

**MemoryQueue.** `queued` and `lease` are the two Maps of every `Scheduler`, `record`
is `MemoryExecutionQueue.jobs`, `runnerOrg` the registrations. A call is one action, because
the code has no await inside it. `LeaseJob` is the whole `lease` call: sweep of the
organization's expired leases (they wait again), limit check, choice by priority and age, new
lease. A *job* of the model is a submission; `IdOf` gives it the id the client chose, so
the constants decide whether ids are reused or shared. `lease[k].left` is the time left; at 0
the lease is expired, as `expiresAt <= now` is. `silence` counts how long a runner has sent no heartbeat; the
code's `heartbeatAt` is written and never read, which is what one run shows.

**RedisQueue.** `job` is the job keys, `queue` and `leases` the sorted sets of one
organization, `lock` the lock key with its expiry; `pc` and `call` are a call in progress. Each
action is one Redis command with the code up to the next await. `lease` takes the lock, sweeps
(GET, ZREM, SET, ZADD for each expired id), scans (`Window` ids), takes (ZREM, SET, ZADD) and unlocks;
`enqueue`, `complete` and `cancel` take no lock, and an id is the client's, so that several enqueues of one id may be
under way. `Crash` ends a call between two commands.
`registerRunner`, `listRunners` and `heartbeat` touch runner keys on which no other
method's outcome depends.

**RunLifecycle.** A *handler* is a request in flight; each action is the code from one
await to the next, so any other handler can run in between. `phase` and
`holder` are the queue by its contract; `status` and `result` are `runs.status` and `test_results`.
`runner` is the loop of `runRunnerLoop`; an error answer ends the process, as it
does in the code, and `RunnerRestarts` starts it again. `ServerCrash` drops all requests in
flight and keeps queue and repository; `HandlerThrows` is an awaited call that fails. The queue
here is the contract: with the Redis queue it is kept only by calls that do not overlap
(section 3), so what RunLifecycle shows of overlapping *handlers* holds of the in-process
queue, and of Redis outside the races found there.

**AiWorker.** `job` is the table `ai_worker_jobs`; its methods are transactions, so a route is one action.
`daemon[d].at` is the position of `runAiWorkerDaemon` and, inside a job, of `processAiWorkerJob` and
`executeRepairWorkflow`: workspace, agent, proposal, validation, execution, then the three requests of
`publishRepairProposal`, each of which may fail with or without its effect. `done` is the part of the result
that says what passed. `workspace` is the directories a daemon has cloned into, `branch` what GitHub keeps. `sent`
is `complete` requests on their way: the one of the try block and the one of the catch block may be answered,
refused with 404, lost before or after they are served, and overtake each other. `Start` registers a new
worker id, as each start of the process does; `Die` ends a daemon anywhere.

**Triggers.** `poll[p]` is one call of `pollOnce`: the organizations and schedules it still has before it and the
request it waits for. `StartPoll` starts one whenever the timer fires, whether or not the last one has ended, except
while the daemon's first one is awaited (`warm`). `Due` is the condition of the loop, with `CronMatches` of Cron and
what makes it throw. `request[r]` is a handler at one of the replicas: the trigger of poll and schedule, or the n-th
sending of a delivery. Both go through `CreateRun`, `Enqueue` (or `QueueDeclines`, `MarkFailed`) and `AuditRun`,
which are `enqueueTriggeredRun` await by await. `seen` is each replica's Set of delivery ids. `PollFails` loses an
answer while the handler goes on; `RestartDaemon` and `RestartServer` empty what is kept in memory. `boot`, `life` and
`overlapped` are history variables of the properties.

**TenantRepository, PostgresRepository, TenantApi.** A method of the in-process class is an operator from a store
and a call to a new store and an answer. On PostgreSQL a method of one statement is one step; the six methods whose
first statements find what later ones use take a step for each of those and one for the rest with the COMMIT, and
`tx[r]` keeps what they found, with the time of BEGIN and the rows they have locked. `Routes` lists for each handler
its calls in order; `Arrive` begins a request, `FirstStatement`, `Commit` and `External` (artifact store, GitHub) are
its calls, `Answered` is what the handler makes of an answer: the next call, or 404, or 500, or success. `Break` fails a
call before its effect and rolls back, `LoseAnswer` after it. `Breaks` says what the foreign keys and unique indexes
of infra/postgres/migrations refuse: `Transaction` then fails and is rolled back. `mem` is the in-process repository given each call at
the moment its transaction commits; where the two answer differently, although no transaction on the same object
overlapped and no constraint refused, the call is put in `disagreed`.

**Manifest.** A thread is a stack of frames: a block of actions, a loop, retry, try, call, or a join of branches. `Execute`
performs or enters the next action, the other actions of `Resume` take a finished or abandoned block back to the frame
under it. `signal` is an exception on its way: an error, or `break`, `continue` and `return`, which are exceptions
in the interpreter and statements in the generated test. The rules are shared and look at `mode` where the two
differ; a run is interpreted first, then generated if `Compiles` says that TypeScript accepts the test. All steps are generated into one
function body and the cases of a `switch` into one block, so `Compiles` and `Iterations` go by blocks: a generated while counts in a
`whileAttempts` that it declares in the block around it and increments at the end of its body. `Condition` is the value of six forms of condition,
which the interpreter and the generated `resolveCondition` read differently. A branch that
lost a race, or whose sibling failed, is a thread that goes on.

**ConsoleState, ConsoleApp, ConsoleScreens.** `ui` is every useState and useRef that a handler looks at; `net` the
requests under way, each with the closure that will get its answer: `cut` says that its component was unmounted or its
effect cleaned up. `Commit` is what React does when a handler has set state: it unmounts the screen that is left,
mounts the new one, and runs the cleanups and effects whose dependencies changed. `srv` answers each request in one
step, or refuses it: a result that is not there (`ServeResult`), GitHub's branches, pull requests, synchronization and new
branches for a repository outside `env.github`, one that is on another provider, not configured, or that GitHub refuses (`OnGitHub`).
`Break` lets any request fail, whatever the network. The two GETs that fill the manifest editor are one request. `env` chooses what a behaviour is about: the screens visited, a network that keeps the order or one that
reorders and loses, live or demo data. `evidenceNo` is the identity of an evidence object, which is what the
effect for object URLs depends on.

**Session.** `tab[t]` is a tab's location and the React state of its page, `stored` the session in local storage,
`auth` the states, sessions and organizations of the server. `Page` is Root's choice between its four
pages; `LoadPage` is a full load, which keeps only location and storage. `Approve` and `Deny` are GitHub's redirect
back. `Mishap` empties the Set of OAuth states (a restart, or another replica, whose Set does not have them), ends a
session, or loses an answer.

## 3. The runs

| run | shows | bounds |
|---|---|---|
| `memory_reused_ids` | `RecordsAgree`, `LeaseHonoured` when an ended id is submitted again | 2 organizations, 2 runners, 3 submissions of which two share an id, leases of 2 ticks |
| `memory_one_org` | `ConcurrencyRespected`, `NoOvertaking`, `KeepsContract` (refines JobQueue), and `ExpiredIsReclaimed` under fairness | 3 jobs competing for 2 runners, of limits 0 (which the code reads as 1) and 2, one unable to run the most urgent job |
| `redis_races` | `OneInSection`, `NothingLost`, `LeaseExclusive`, `EndedStays` at every interleaving of commands, enqueues of one id included | 2 calls in flight (symmetric), 2 jobs, 2 runners, clock up to 2, a lock that outlasts the call |
| `redis_sequential` | `KeepsContractInTurn` when calls do not overlap and any of them may stop half-way, its lock left behind | 1 call at a time, 2 jobs, a scan window of 1, clock up to 4 |
| `run_safety` | `RepositoryFollowsQueue`, `OneOutcome` with server and runner crashes and failing calls | 3 requests in flight for one run, 2 runners, 1 expiry |
| `run_liveness` | `JobsEnd` with expiring leases and imports | 2 requests in flight, 2 runners, 1 expiry, no faults |
| `ai_worker` | `AttemptedOnce`, `RecordIsTrue`, `RecordedOnce`, `ProposalsAreSeparate`, and `JobsEnd` under fairness | 2 daemons (one publishes), 2 worker ids, 2 repairs of one request, leases of 1 tick |
| `triggers` | `RememberedIsQueued`, `RepeatsHaveACause`, `StrandedOnlyByCut`, `CompletePollMissesNone`, `EverythingEnds` | 3 polls in 2 minutes over 3 schedules of 2 organizations, or a delivery sent twice, 2 replicas, 1 fault |
| `tenant` | `PostgresAgrees`, `LaterSaveServed`, `AnsweredIsWhole`, `BodiesAndRecords`, `AiLeaseKept` | every pair of requests of the ten groups in MCTenantApi and three triples, 1 fault; organizations, projects and GitHub ids the database does not know or has already |
| `manifest` | `StepsDontOverlap`, `StepsLeaveInOrder`, `FailureIsReported`, `BoundsHold`, `GeneratedAgrees` | two steps; in the first a control action around another around a leaf, and a second leaf beside the inner one; six conditions, with the variable set and unset; whiles side by side; bounds of 2; runs of 12 leaf actions |
| `console` | `EvidenceOfSelected`, `QuietAtRest`, `SavesItsOwnText`, `AtRestAgrees`, `SessionsStayApart`, and `CallbackEnds` under fairness | 2 to 4 clicks on each group of screens, 1 failing request, every set of repositories that GitHub answers about; 2 tabs, 2 users, 2 OAuth states, 1 reload, 1 mishap |
| `memory_heartbeat` | **violated**: "reassignment after heartbeat loss" (docs/RUNNER_PROTOCOL.md) | as `memory_one_org` |

*Why the bounds are enough.* Every conflict of the queues is between two calls, or between
two calls and the passing of time, over one or two jobs: a job overtaken, one that shares an id, the
one swept while another is taken. A second runner is what a lost lease passes to. Three
requests are what a run can have at once that matter: the report of a runner that lost its lease, the report of
the runner that holds it, and a cancellation. Two worker ids let one daemon restart, or two live side by side, and two jobs
of one request are what a retry is. Clocks are bounded; leases and locks are kept short
enough that each expires in the middle of every call where the property is about that.
`LockTTL = 9` in the race run is longer than any call of the model: the properties hold *if* a lease call
ends within the lock's 5 seconds, which the code does not enforce.

*triggers.* Three polls are two that overlap and one after them, or two in one minute and one in the next. One schedule is due
in every minute, one only in the second, and one has an expression that the server accepts and the daemon cannot evaluate. Polls
and deliveries touch no common state but the schedules, so a behaviour has the one kind or the other (the
constraint `OneKind`; `StoredFirst` lets only one schedule arrive while polls go on). *tenant.* Two requests that touch different parts of the store
do not meet, so the pairs are formed within groups; three routes that read as others do (`getProject`, `getContents`, `getCompare`) are not asked for. The triples are the cases of
three: two saves and a read, two lease polls and a report, two imports and a read. *manifest.* A signal's way is decided by
the control action around it and the one around that; the rules look no further. `MaxTrace` cuts off only the generated while
whose continue passes over its counting, or that has a while among its children, which need not end. Which of its leaf actions fail is one of
four sets (`FirstFails`), among them the empty one. *console.* The clicks suffice for a second
request of each kind to be sent before the first is answered and one more action after that; a session is lost by one mishap. The App
and signing in are checked side by side because the App keeps nothing of the session but its token and is mounted anew after each sign-in.

*Fairness.* `memory_one_org`: weak fairness of `LeaseJob(r)`; `runRunnerLoop` polls for ever and the
in-process call never waits. `run_liveness`: weak fairness of every handler's next step (an await
returns) and strong fairness of every runner's loop: an execution ends, because `executeInDocker`
stops the container at its timeout; a process that ends is started again, because runners are a
Deployment of the Helm chart; and a request is accepted eventually, though the model's bound on requests
in flight may be used up by others for a while. `ai_worker`: weak fairness of `Work(d)`, a live daemon's own
next step: the loop polls every few seconds, `runCommand` kills a command at its timeout and `fetch` gives up.
`triggers`: weak fairness of what is under way, polls and handlers: a promise that can settle settles. `console`: weak fairness of
the answers to the requests of a page (`SessionFairness`).
Clients, users, timers and faults are never fair. The other runs have safety properties only.

*Where code and documents part.* The run `memory_heartbeat` is a finding: a heartbeat does not extend a lease, so a job that outlasts
`leaseDurationMs` runs twice, although docs/RUNNER_PROTOCOL.md:5 says "reassignment after heartbeat loss". The other disagreements met while
modelling are described here; the properties of the passing runs are stated around them, and so show that the code does nothing worse.

- *The holder is not checked* when a job is completed, where docs/RUNNER_PROTOCOL.md:3 says that runners "close the lease" they acquired: the
  first runner's late report ends the second one's lease, whose own report then gets 404 and ends its process.
  `OneOutcome` and `JobsEnd` hold all the same.
- *A cancellation is overwritten* by the lease handler's `updateRun(running)` when it comes between that handler's awaits; the test at
  apps/server/src/index.test.ts:116 ("cancels a queued run") knows cancellation as the end of a run. `OneOutcome` says that nothing else undoes a last status.
- *In Redis, `cancel` is overwritten by a lease in progress* (packages/queue-adapter/src/index.test.ts:41, of the in-process queue: "without allowing a later lease"), and
  `complete` between the sweep's GET and its SET likewise. `EndedStays` says that only calls that have looked at the key do so.
- *In Redis, two overlapping enqueues of one id* both find no key and are both accepted, where apps/server/src/index.ts:1441
  answers "job already queued or leased" to the second. POST /jobs takes the client's id. The late SET writes `queued` over whatever the job has become since: a job that is
  leased is leased again under its holder, one that ended is executed again. `LeaseExclusive` and `EndedStays` allow exactly that SET.
- *In Redis, a server that stops inside `lease`* leaves a job in neither sorted set, which no lease call finds again
  (docs/RUNNER_PROTOCOL.md:7 calls the queue durable). `redis_sequential` shows that it harms no other job.
- *Polls overlap*: `setInterval` does not wait, and two polls of one minute trigger a schedule twice, where
  apps/scheduler/src/index.test.ts:5 and the plan of 2026-07-17 (docs/superpowers/plans, line 120) promise minute-level duplicate
  prevention. `RepeatsHaveACause` holds while they do not overlap.
- *A generated while with a continue in it has no bound*, nor has one with a while directly among its children, whose `whileAttempts` hides
  the outer one at the increment; docs/MANIFEST_DSL_SPEC.md:5 says "Bounds are mandatory for loops and retries".
  `BoundsHold` says that every other loop and retry keeps its bound.
- *A generated test may not compile, or decide otherwise than the interpreter*: two whiles in one block (in two steps, or in two cases of a switch) declare `whileAttempts`
  twice; the generated `resolveCondition` does not know `!`, compares numbers where the interpreter compares texts and the other way round, and
  does not see the default values of variables. `GeneratedAgrees` is about tests that compile and conditions on whether a variable is set, and its
  `Portable` names the other differences.
- *The manifest editor keeps the text of the test before* while another one's loads, and after that load has failed: opened for a second test while
  the first one's text loads, or when the second one's GET fails, it may store the one's text under the other.
  `SavesItsOwnText` says that these, and a network that reorders answers, are the only ways.
- *The GitHub screen keeps the branches and pull requests of the repository chosen before* when those of the new one are refused (another provider, no App
  configured, an error of GitHub). `AtRestAgrees` compares them where GitHub answers. It is about pages on which no request has failed otherwise: after a
  failure the page goes on showing what it had.

Smaller ones: the Redis `lease` has no counterpart of the
limit check of `Scheduler.leaseNext`; the in-process queue accepts an id whose job has ended again, Redis does not. The two
repositories differ where `Agree` and `Breaks` say. PostgreSQL serves the steps of an earlier report with a later one; the in-process `getRun` leaves the
tenant to its caller; a secret that is created or listed is masked as `[REDACTED]` by PostgreSQL, which dates its first value as a rotation, and with its first and last characters in
memory. Only the database refuses a second row of a name, a second repository with one GitHub id in an organization, and rows that name an
organization, project, environment, test, run or worker that is not there. Not compared are times, the order of lists, the logins in a list
of members, a `capacityBytes` of null, identifiers that are no UUIDs, reports with unnamed or repeated steps, the order of two
AI worker jobs created by overlapping transactions, and the instant of a lease's expiry (`<` in one, `<=` in the other).

Each property of a passing run has a mutant in the module (a definition named after the bug,
above the definition it replaces): with it TLC finds the property violated.

## 4. The proofs

| module | theorem | statement |
|---|---|---|
| JobQueueProofs | `HoldersAreAble` | a job is held exactly while it is leased, by a runner that may run it |
| MemoryQueueProofs | `Typing` | types |
| | `JobsAreInOnePlace` | `OnePlace` |
| | `LimitsAreRespected` | `ConcurrencyRespected` |
| | `NoJobIsLost` | `RecordsAgree` |
| | `LeasesAreHonoured` | `LeaseHonoured` (every step) |
| | `NoJobIsOvertaken` | `NoOvertaking` (every step) |
| | `ImplementsContract` | with ids never reused, MemoryQueue implements JobQueue |
| RedisQueueProofs | `Typing`, `NoKeyMissing` | types; no sorted set and no call refers to a key that is not there |
| | `LockExcludes` | `OneInSection` while locks outlast lease calls, crashes included |
| | `LeasesAreExclusive` | `LeaseExclusive` (every step) while locks outlast lease calls, crashes and overlapping enqueues included |
| | `NoJobIsLost` | `NothingLost` while locks outlast lease calls, if no call dies half-way |
| | `EndedJobsStay` | `EndedStays` (every step), nothing assumed of the lock |
| | `ShortRunsOutlast` | a behaviour shorter than the PX of the lock satisfies the hypothesis of these |
| | `SequentialCallsKeepContract` | calls that do not overlap implement JobQueue, although each may die between two commands |
| AiWorkerProofs | `Typing` | types |
| | `OneAttempt` | `AttemptedOnce` |
| | `Recorded` | `RecordedOnce` (every step) |
| | `SeparateProposals` | `ProposalsAreSeparate` |
| | `TrueRecords` | `RecordIsTrue` |
| RunLifecycleProofs | `Typing` | types |
| | `RepositoryIsFaithful` | `RepositoryFollowsQueue` |
| | `LastStatusIsUnique` | `OneOutcome` (every step) |
| TriggersProofs | `Typing` | types |
| | `OnlyCutsStrand` | `StrandedOnlyByCut` |
| | `WhatIsRememberedIsQueued` | `RememberedIsQueued` |
| | `NoRepeatWithoutCause` | `RepeatsHaveACause` |
| | `ACompletePollMissesNone` | `CompletePollMissesNone` (every step), where each organization is listed once |
| WebConsoleProofs | `SigningInIsSound` | what a page, the storage and a request name is at the server and of one user |
| | `NoSessionIsMixedUp` | `SessionsStayApart` |
| | `ConsoleIsSound` | what the page says, shows and waits for belong together |
| | `ScreenIsOfTheSelectedRun` | `EvidenceOfSelected` |
| | `PageComesToRest` | `QuietAtRest` |
| | `TextsStayWithTheirTests` | `SavesItsOwnText` |
| TenantApiProofs | `Inductive` | handlers make the calls of their routes in order; transactions know what they have found |
| | `NoSaveIsHidden` | `LaterSaveServed` |
| | `NoLeaseIsTaken` | `AiLeaseKept` (every step) |
| | `BodiesComeWithRecords` | `BodiesAndRecords` |
| | `RepositoriesAgree` | `PostgresAgrees`, whatever constraints refuse |

The types of these modules are proved and not repeated in the runs.

*Assumptions*: those of the modules (finite sets of jobs and runners, lease durations of at
least one tick, a constant `None` that is not a job, a runner or a status, requests that are not deliveries and polls at once, a
deployment with a user), and three about the requests and the store of TenantApi. `SeedAssumption`: the store a server boots with has each
artifact's body, its identifiers are none of those a request makes, its manifests were saved before any request, and it holds the same
data in both repositories, with what a row refers to there (the foreign keys of infra/postgres/migrations; a comparison has to begin from equal data).
`CompletionAssumption`: the report of a completion carries no attempt and no place (`completeAiWorkerJob` writes the status and the result it is given, and no more).
`ReferencesAssumption`: a PUT of a manifest does not name a test that another request is about to create (identifiers are random), and
who creates an organization is a user (`authenticatedUsers`, apps/server/src/index.ts:729).
And one about the server of the console, `SeedAssumption` of ConsoleState: when the page is opened, the records are of
the types the API returns, and each manifest is stored under its own test (else `SavesItsOwnText` fails before anything is clicked).
TLC evaluates each on the runs.

*MemoryQueue.* `OnePlace` follows from the types alone. `RecordsAgree` needs `OnePlace`: two live
submissions of one id would share a record. The limit needs an argument about
cardinalities: a grant adds one lease to a set the guard found smaller than the limit, after a sweep that
only removes some. The refinement maps each call to one step of
the contract; `lease` maps to `ReclaimAndGrant` when something is granted and to `Reclaim` when not.

*RedisQueue.* The commands of several calls interleave, so an invariant has to say what a call in progress knows. `Keys`: the
ids it goes on with have their keys. `Exclusion`: only one call is inside the lock, and while it is there the lock key
exists. `Leasing`: what the call inside the
lock has read is still true of the id it is about, or the job is no longer leased (`Sweeps`, `Takes`), although reports, cancellations and enqueues,
which take no lock, write in between: they end jobs or put them back to queued, but never lease one. `Keys` holds always; `Exclusion`
and `Leasing` hold while no lease call outlasts the PX of its lock, the hypothesis `LockOutlasts`. The code does not
enforce that, and the theorems say what depends on it: with a call longer than its lock a second one gets in, whose lock the first
one's DEL then removes. `NothingLost` also needs that the lease set and the key of a
leased job tell of the same lease (`SetsAgree`), and with it that no call dies between two commands (`~CrashesAllowed`): a server that
stops between `zrem` and `zadd` leaves its job in neither sorted set. The contract is kept
by calls that do not overlap (`~Overlap`), whatever their number; `Sequential` says that nothing has changed since the call read it.

*RunLifecycle.* `RepositoryFollowsQueue` is not inductive: a handler that has settled the job and not
yet stored the outcome must know that the queue still says so when it comes back. `HandlersKnow`
says what a handler knows at each await, `PostedOnce` that a job cannot enter the queue a
second time, so that a final phase is never left. Their conjunction `IInv` has one lemma for each action.

The second half of `OneOutcome` is about a lease handler between its two awaits (`Starting`): only a grant puts a handler
there, and the queue grants no job whose phase is final, as the phase of a run with a last status is. Every other step
either writes a final status or starts nothing (`StartsNothing`).

*AiWorker.* `AttemptedOnce` follows from where leases can be: while a daemon lives, the only leased job of its worker
id is the one it is at (`Leases`), so the sweep of a polling daemon finds nothing; and no other daemon has that id
(`Ids`). A report in flight names a job of its sender's id (`KnownJobs`), so its arrival, however late, keeps that.
The lesson of the theorem is two-sided: no job runs twice, and a job whose daemon has died is never taken up
again, because the lease's expiry only helps a worker that polls under the old id. `SeparateProposals` adds what a
daemon has done between two requests to GitHub (`OwnBranch`); `TrueRecords` follows the result from the workflow
(`Sound`) through the message (`Backed`) to the table.

*Triggers.* `Requests` ties a poll to its requests: the request of a poll and a schedule makes that schedule's run and no
other, and a poll goes on only past requests that were accepted. With it `Remembered` is inductive, and `RememberedIsQueued`
follows. `RepeatsHaveACause` has two halves. For schedules: polls start in the order of their numbers (`InTurn`), and
while they do not overlap, what was sent in the daemon's present life stays remembered with a minute no earlier
(`StillRemembered`), so that a later poll of that minute skips it unless the earlier one was aborted. For deliveries: a server has seen
what it let through since it booted (`SeenOnce`). `CompletePollMissesNone` needs that a
schedule shown to a running poll is still to come, or is waited for, or has been accepted in a poll of that minute (`Covers`), and that the
organizations still to come are not those already asked for (`SentBefore`). The last part is why it has the hypothesis
that no organization is listed twice: `listOrganizations` returns rows of a table with a primary key, and the model has one request
for each poll and schedule.

*Session.* `SignedIn` is about reference and ownership at once: every session and organization a page, the storage or a
request under way names exists at the server, and belongs to the user of the session it goes with; a request is on the page
that sent it, under the session it was sent with or none. The server's lists only grow, which carries that over every step of other tabs.
`SessionsStayApart` follows. The theorems are about the composed module, so no step of the App disturbs it.

*App and screens.* The invariant (`ConsoleOk`) relates the page to the requests under way, so it has to survive a commit, in which React
runs five effects on what a handler has left. The proof is in two halves. `CommitOk`: if a handler leaves a page and requests that agree
but for the selection and the evidence (`Rest`), the commit brings them to agree again; each effect has a lemma (`ScreenShown`, `RunStage`,
`ArtifactStage` and so on) for what it finds and what it leaves. Then each handler, some sixty, is shown to leave such a page; most change nothing the
invariant is about (`Mild`). The parts: `Quiet`, a busy page waits for an answer that nobody has cut off, or for a timer; `Asked` and
`RunShown`, a request of the run effect that is not cut off is about the selected run, and what is shown is that run's unless one is under way;
`Fetches`, an object URL is owned by the current artifacts effect or is among those of fetches still under way, the fetches cut off are of earlier
evidence than the one that is not, and so their end revokes no URL on show; `OwnTexts`, the text in the editor is the open test's
unless a manifest is loading or the editor has gone `astray`, in one of the two ways told in section 3, and so is every text on its way to be stored. That the list has the selected run (`RunsListed`), although the first load replaces the list,
and that the editor's test exists at the server (`EditorTyped`), complete it. Numbers of requests play no part: `QuietAtRest` and
`EvidenceOfSelected` hold on a network that reorders and loses answers, and the proofs are about that network too.

*Tenant.* The requests interleave statement by statement, so `Control` comes first: what a handler has yet to do is a tail of its route's
calls, or, for a purge, a list in which each body's deletion stands directly before its record's; a transaction is open only for the
call its handler is at. Lemmas about the statements say which tables each can change (`Frame`), so that each part below looks only at the calls
that reach its table. `SavesInOrder`: what a save has seen committed began before the save did, which is the reason the order by `created_at`
(PostgreSQL's `now()`, the time of BEGIN) serves no older save over a newer one. `LeasesApart`: what one poll has found overdue or picked no
other has (the sweep's UPDATE waits for held rows, the pick is `FOR UPDATE SKIP LOCKED`), a completion waits for them too, and a held row stays as it was found; so a
poll writes only jobs whose lease is over. `BodiesKept`: a record without its body belongs to a purge that stands between the two
deletions or failed there, a body without its record to an upload that stands or failed between its two; uploads do not disturb purges,
since their identifiers are fresh, nor purges uploads, since a purge only has what was recorded when it listed.

`RepositoriesAgree` compares two implementations, so its invariant (`Mirrored`) first says that they hold the same data (`SameData`): eighteen
tables are equal; the manifests of a test, rows ordered by time on one side, are the list on the other; the reports of a run, rows
and rows of steps, are the one report kept in memory; policies and AI worker jobs are the same. Overlapping transactions may leave an
object different for good (two saves in the order of their BEGINs, not of their commits), so each of these four holds but for the
objects in `diverged`, and a difference never spreads from one object to another. Then what a transaction found is still so when it commits, unless
another one on the same object came between (`Current`): the rows its first statements returned are those they would return now, and the job
it picked is the next one. Each method then has a lemma that its two versions answer alike on equal data and keep the data equal (`InStep` and the
like). A call that breaks a constraint is rolled back and changes neither repository, so there is nothing to compare (`RejectedStops`); what refers to a row
finds it, for the joins, because the constraints admit no other row (`Referenced`, `Knows`), and records are made once (`Fresh`).

*Only model-checked.*
- `AnsweredIsWhole` of the tenant modules, which compares an answer with all the rows and events it promised.
- Manifest: it declares RECURSIVE operators over the tree of actions, whose theorems would need induction over data.
- `AtRestAgrees` of the console, which compares the whole page at rest with the server: its invariant would have to say, of the requests in the order
  of their numbers, what the page will show when those still under way have been answered.
- The liveness properties: fairness and ENABLED are outside the prover's reach.

## 5. Not modelled, and the plan

Open among the proofs are `AnsweredIsWhole`, which needs what a handler has done so far next to what it has yet to do, and `AtRestAgrees`,
which needs the page as it will be when the numbered requests ahead have been answered.

Code that could still be modelled: POST /jobs (a client's own job for any run id), `runAiWorkerOnce`, the S3 adapter's listing. Left out
of RunLifecycle because its theorems name a job by its run, of AiWorker because it is one turn of a loop that is there,
and of TenantApi because no route calls it.

Left out on purpose, with the reason in `PROJECT.json`: manifest schema, parser and migrator, source analyzer, importers, results and reports,
the authorization decision and the secret encryption (functions of one input, better served by tests); browser, device
and API adapters (one external call per operation); local runner (the interpreter again); notification adapter, agent protocol, CLI and
MCP server (no shared state); the console's texts, filters and layout; deployment
files (configuration, used here to justify restarts and replicas).
