# TokenFx: a verification project

TokenFx turns the transcripts of Claude Code sessions into a local dashboard and,
for teams, pushes their aggregates to a central server. This directory holds TLA+
models of its stateful parts and of the computations its pages rest on, the TLC
configurations that check them, and TLAPS proofs. `PROJECT.json` lists every run,
its properties, the lines each definition translates, the hazards and the theorems.

Contents: [inventory](#1-inventory) · [modules](#2-modules) · [runs](#3-runs) ·
[disagreements](#4-where-the-code-and-its-documents-disagree) ·
[proofs](#5-proofs) · [limits](#6-what-is-only-checked-and-what-is-not-modelled) ·
[plan](#7-plan)

## 1. Inventory

### Local side (one machine, one SQLite file, several processes)

| component | state | operations | module |
|---|---|---|---|
| transcript ingestion (`lib/ingest/writer.ts`, `auto.ts`, `reconcile.ts`, `lib/db/migrate.ts`) | `sessions`, `turns`, `tool_calls`, `ingested_files`; the `inflight` promise of a page load | `ensureFreshIngest`, `ingestAll`, `ingestSingleFile`, `writeSession`, `reconcileSession`, `migrate` | `LocalIngest` |
| watcher (`lib/ingest/watcher.ts`, `instrumentation.ts`) | the handle on `globalThis`, one promise chain for each path | register, start, replace, stop, file events, backfill | `WatcherLife`, `LocalIngest` |
| git outcomes (`lib/ingest/git/*`) | `session_outcomes`, a rate limit in memory | sweep, evaluate, look up merges and reverts | `GitOutcomes` |
| reporter (`lib/reporter/*`) | `reporter_pushed_sessions`, `reporter_queue` | `runReporter`: select, sanitize, hash, post with retries, mark, enqueue | `ReporterSync`, `PushContract` |
| costs and OTEL (`pricing.ts`, `queries/overview.ts`, `session.ts`, `otel.ts`, `outcomes.ts`, `recompute-costs.ts`) | `otel_scrapes`, `cost_calibration` | queries over a snapshot, the repair of costs | `LocalCosts`, `CostCalibration` |
| effectiveness (`scoring.ts`, `queries/effectiveness*.ts`, `regression.ts`, `heatmap.ts`) | none | scores, aggregates, quartiles, trends, heatmap | `LocalEffort` |
| quota, search, share | `user_settings`, a full-text index | windows, calibration, search pages, redaction | `LocalQuota` |

### Central server (one Node process, PostgreSQL at READ COMMITTED, a pg pool)

| component | state | operations | module |
|---|---|---|---|
| ingest endpoint (`app/api/ingest/route.ts`) | `sessions_agg` and its children, rate buckets | `POST` | `ReporterSync`, `RateLimits` |
| onboarding (`queries/redeem.ts`, `auth/auth.ts`, `sso-auto-provision.ts`) | `onboarding_invites.used_count`, `users`, `user_machines`, `onboarding_redemption_log`, `auth_event_log` | `redeemInvite`, the `signIn` callback, `evaluateAutoProvision` | `Onboarding` |
| invites (`queries/invites.ts`, `manager/invites/*`, `flash-cookie.ts`) | `onboarding_invites`, `onboarding_audit_log`, the idempotency cache, a browser's cookie | create, show, clear, revoke | `InviteConsole`, `Onboarding` |
| administrators (`machines.ts`, `offboard.ts`, `admin/users/actions.ts`) | `user_machines.revoked_at`, `users`, audit log | revoke, change a role, offboard | `AdminOps` |
| manager pages that write (`_drilldown/render.tsx`, `manager-dismissed.ts`, `manager-alerts.ts`) | drill-down audit, notifications, dismissals, acknowledgements | open, announce, dismiss, acknowledge | `AdminOps` |
| cron jobs (`lib/cron/*`) | `team_metrics_daily`, `team_outcomes_daily`, `manager_anomalies`, `cron_runs` | two rollups, detection, clean-up, retention | `CronJobs`, `ManagerMetrics` |
| limiters (`rate-limit.ts`, the bucket of the ingest, `pre-existing-binding-email.ts`) | counters in memory | one decision for a request | `RateLimits` |
| guards (`csrf-origin-guard.ts`, `auth.config.ts`, `bearer-auth.ts`, `match-email-pattern.ts`, ...) | none | one decision for a request | `AccessGuards` |
| dashboards (`overview.ts`, `teams.ts`, `manager-v2.ts`, `me-visibility.ts`, `audit-log.ts`, ...) | none | queries over a snapshot, exports | `SpendViews`, `TeamViews` |
| the database (`lib/db/schema.ts`, `migrate.ts`) | tables, keys, the role of the connections | what a row may be, what the role may do | `CentralSchema` |

### What is hard, and what makes each component correct

* **Reporter and ingest endpoint.** Local writers commit between the SELECTs of a run
  and while it is posting; the reply is lost after the server committed; an attempt that was given up arrives
  later; runs overlap and crash; a key is revoked between the lookup and the
  transaction. Correct means: an acknowledged payload was stored, a changed
  session is pushed again until it is acknowledged, a session a run skips is up to
  date on the server, and a revoked key stores nothing new.
* **Onboarding.** Two ways of using up an invite interleave at every statement, one
  trusting a value it read and the other an SQL increment; the invite is matched
  without a lock and locked later; a transaction asks for a second connection;
  every statement may fail. Correct means: no invite over-used or used after its
  revocation, an exact count, a key exactly when its acceptance is logged, one
  row per identity, and an answer to every call.
* **Invites.** Insert, audit row and cache entry are three steps, the URL travels in
  a cookie, the server restarts. Correct means: a token that can be seen was
  audited, a retry is answered from the cache, and no URL outlives its cookie.
* **Administrators and managers.** Reads and writes of overlapping requests and of a
  redeem interleave at READ COMMITTED. Correct means: a departed user has no live
  key, an effect has its audit row, and a row is of the request that had the effect or
  of one it overtook, nobody sees a developer unrecorded or reaches into another organisation.
* **Cron jobs.** Each commits statement by statement, beside pushes, itself and the
  other jobs; processes die. Correct means: the rollups catch up, the prune
  forgets no table and takes nothing recent.
* **Limiters and guards.** Several dimensions are charged together; timestamps are
  pruned lazily; the same rule is written in several places. Correct means: limits
  hold, `Retry-After` is honest, and the copies of a rule agree.
* **Local ingestion and its watcher.** Files grow between stat, parse and record;
  several processes ingest the same file; two transactions make one change;
  processes die and restart; three gates decide that there is nothing to do; a start
  of the watcher awaits twice before it publishes its handle. Correct means: no
  gate hides a turn, totals count what is stored, an ingest that reports no error
  is complete, and every watcher can be stopped.
* **Outcomes.** git and GitHub are asked for seconds while the repository, the
  session and another process's sweep go on. Correct means: a row tells what was
  true at some moment of its evaluation, and one broken session stops no sweep.
* **Views.** The same number is computed in several places, over windows that do
  not quite match. Correct means: pages, charts, totals and exports agree.

Everything of this kind found in the code, with its line, is in `PROJECT.json`
under `hazards`, with the properties that cover it, or why none does.

## 2. Modules

Each component has a module with its constants, named assumptions, actions,
specification and properties. Theorems are in `...Proofs` modules: ReporterSync, Onboarding and
the local components have one each (`LocalProofs`), the jobs, administrators, console, limiters and
guards share `ServerPartsProofs`, the views of the server and of the local pages have `ViewsProofs`
and `LocalViewsProofs` over the sums of `CostProofs`, and `ServerProofs` is about `MCServer`. An
`MC...` module composes components and holds the definitions its `.cfg` files
substitute. Operators marked "Mutant of X" are wrong versions of the definition X
that PROJECT.json uses to show that a property can fail; no specification uses them.

### PushContract and ReporterSync

`PushContract` says what the push pipeline promises, without runs, requests or
clocks: the local database is edited (`Edit`), the server comes to hold sanitized
aggregates whose every part the database really had (`Deliver`), and the reporter records
what the server received or refuses (`Acknowledge`). It does not promise that the parts are
of one moment, which the code does not; `StoresWhole` is that, where the writers are quiet. `ReporterSync` is the pipeline: one
machine's database, its reporter runs, the network and the server. Its
`ImplementsContract` instantiates the contract with two history variables, the
aggregates produced and those received.

* A *payload* stands for a sanitized aggregate and for its hash: the code only
  compares hashes. Contents may return to an earlier payload, since a rating can be
  toggled back.
* A payload is a function of its *parts*: the row, which `CANDIDATES_SQL` reads, and one part
  for each of the SELECTs in `Reads` (the models, tools, ratings and subagents of the code).
* `Ingest`, `Rate`, `Evaluate`, `OtelUpdate` are the local writers, one SQLite
  transaction each. They differ in the parts they change and in the timestamp they renew;
  `OtelUpdate` renews none. It also stands for what `writeSession` commits after its first
  transaction: the reconciled totals and the OTEL cost of the session.
* `Candidate` is `CANDIDATES_SQL`. `StartRun` is that SELECT, with the pushed hashes it joins;
  `ReadNext` is each later one, which overwrites its part for every candidate (`Refreshed`)
  with what the database has by then; `AfterRead` sanitizes and hashes after the last;
  `SendChunk`, `Resend`, `NetworkError`, `RetryableReply`, `PermanentFailure`,
  `MarkBatchPushed`, `EnqueueEntry` are the batch loop and `pushBatch`.
* `Authenticate` and `CommitBatch` are the two halves of `POST` that another
  request or a revocation can come between; `ServerError` is everything that makes
  it answer 5xx or 429.
* The clock counts milliseconds coarsely: several steps can share a tick, so the
  strict and non-strict comparisons of the SQL matter. `Overlap` is `ONE_HOUR_MS`.
* `Quiet = TRUE` restricts the writers: none commits during a run, nor within the
  same tick as the last mark. `ReplyLoss = TRUE` lets a reply be lost after the commit
  and a request outlive its attempt. Runs that need one of these restrictions say
  so below; section 4 says what happens without it.

### InviteLedger and Onboarding

`InviteLedger` says what onboarding promises, without statements, transactions, locks
or a pool: an invite is issued (`Issue`) and may be revoked (`Revoke`); who accepts it
takes one of its remaining uses, gets the account it admits and, by token, a key, in one
step (`AcceptToken`, `AcceptIdentity`); a server of one org also opens accounts uninvited
(`Bootstrap`); an identity comes to an account by its own sign-in (`Bind`).
`ImplementsLedger` maps `Onboarding` to it by its committed tables: the invites created and
revoked, the calls that the redemption log says took a use of each, the rows of `users` with
their identities, and `user_machines`. What is under way is not visible in them. The ledger
has no clock: the code looks at the expiry under the row lock and commits later, so that an
acceptance may become visible after the instant of expiry.

`Onboarding` is the server in front of PostgreSQL. An action is one SQL statement, or the part of a
transaction nobody else can see.

* A transaction keeps the user row it writes in `draft` and publishes it at COMMIT.
  Row locks (`InviteHeld`, `RowHeld`, `SsoHeld`) and the unique indexes (`Taken`)
  block and fail as PostgreSQL's do.
* `conn` says that a call holds a connection of the pool: from BEGIN to COMMIT, and
  during a statement that may wait for a lock. `FreeConnection` bounds the pool.
* `BeginRedeem ... LogRejection` is `redeemInvite`; `LoadUserBySsoIdentity ...
  BootstrapInsert` is the `signIn` callback; `MatchInvite ... LogSsoRejection` is
  `evaluateAutoProvision` with `provisionInTx`; `CreateInvite`, `ReadInvite`,
  `RevokeInvite`, `AuditRevoke` is the manager's side as the invites' users see it.
* With `Faults = TRUE` any statement may fail, and a `key_id` may collide.
* Addresses are model values; `Canon` lower-cases, `Pattern` is what an invite's
  pattern matches, `AddressOf` is what the provider says.
* The three rejections that only depend on the claims of one request (issuer,
  unverified e-mail, public domain) are one outcome here, and operators of
  `AccessGuards`.

`OnlyInvited` is stated of the ledger and read through the same mapping: with several
orgs whoever has an account was invited, and a key is of the account its call accepted.

### LocalIngest, GitOutcomes and WatcherLife, composed by MCLocal

`LocalIngest`: transcripts, the SQLite tables, and the processes that ingest.

* A transcript is the sequence of the times its turns were appended at; its mtime
  is the last one. `stored[f]` counts the turns that are rows, `counted[f]` those
  the session's totals include, `recorded[f]` is the mtime in `ingested_files`.
* Between two awaits a Node process runs one call only: `Busy` and `Ready` let other
  calls of the process in exactly at the awaits. Processes interleave freely, at
  every statement or transaction.
* `BeginPage`, `StatAll`, `CheckFresh` are `ensureFreshIngest`; `Migrate`,
  `ListFiles`, `EndLoop` are `ingestAll`; `StatFile` to `RecordFile` and `SkipFile`
  are `ingestSingleFile`; `BeginWatch` is a file event.
* `Crash` and `Restart` kill a process anywhere; its next `getDb()` migrates, which
  reconciles every session.
* `want` is a history variable: what was on disk when a call began. So is `unreconciled`: the
  sessions whose reconciliation threw, or was cut short by a crash, since they were last
  reconciled.
* Assumed: two appends to one file never share an mtime (it has sub-millisecond
  resolution); files only grow.

`GitOutcomes`: `runOutcomeSweep` and `evaluateSession`. A sweep takes the stale
sessions one after the other. An evaluation enumerates the commits (`ReadCommits`),
reads their diffs and the reverts (`CountChanges`), asks for the pull requests of one
commit after another, newest first, with the cache and the rate-limit window
(`LookUp`), and stores a row (`WriteOutcome`). Between any two of these the user commits and
reverts, colleagues merge, the repository disappears, GitHub refuses, and the
other process's sweep stores its own row.

`WatcherLife`: `register` and `startWatcher` with their three awaits (the close of the
old watcher, the import of chokidar, its initial scan), the handle on `globalThis`,
and `stop`.

`MCLocal` gives a behaviour one `focus`: page loads, file events, a backfill, a race
of two processes for one file, sweeps, registrations, or one bounded input for
the views below.

### LocalCosts, LocalEffort, LocalQuota and CostCalibration

The queries and pure functions of the local pages, as operators over one snapshot
of the database; `CostCalibration` is shared with the server. Each module ends with
what the tables and the forms may hold (`LocalFits`, `QuotaFits`, ...) and the agreements that
TLC checks for every bounded input and `LocalViewsProofs` has for every input, grouped into `LocalViewsAgree`:
pages cover the list without gap or repeat, percentages add up to 100, aggregates
are the means of what they aggregate, charts add up to totals, the SQL cost of a
session is the one JavaScript computes but for the two cases section 4 names, the
repair of costs agrees with an ingest, resets lie ahead and a cycle's usage is that of
its turns, saving one setting keeps the rest, a search finds all that match, and a
redacted document shows no text.

### CronJobs, AdminOps, InviteConsole, RateLimits, composed by MCServer

* `CronJobs`: one action for each statement of the five jobs (`ResolveWindowStarts`,
  `SelectGroups`, `UpsertGroups`, `AnalyzeTeams`, `InsertAnomaly`, `ClearAuditIps`,
  `PruneNotifications`, `PruneSessionGroup`, `PruneTable`, `PruneCronRuns`), the rows
  of `cron_runs` across faults and crashes, pushes, and midnight. A rollup row keeps
  the versions of the sessions it was computed from; what it computes of them is
  `ManagerMetrics`. `role` is the database role the server connects as: with the
  restricted one, `CentralSchema` refuses deletes on the append-only tables.
* `AdminOps`: a request is authorised, reads, writes with its audit row, and, for a
  drill-down, announces after the answer; any step may fail. History variables name the
  request whose UPDATE revoked a key or anonymised a user (`revokedBy`, `departedBy`) and
  those that had read a row when another request changed it (`overtaken`).
* `InviteConsole`: `Submit`, `CreateInviteRow`, `WriteAuditCreate`,
  `CreateInviteAnswer`; `FindInvite`, `RevokeInvite`, `WriteAuditRevoke`; the page that
  shows the URL and the call that clears its cookie; restarts.
* `RateLimits`: `Admit` and `Refuse` are one call of `checkRateLimits`; `Ingest` is the
  fixed window of the ingest route; `BeginMail` and `EndMail` surround the await of a
  mail. A list of timestamps is the set of its hits, since it is only appended to, in
  the order of time, and filtered. Calls that share a key are assumed to be limited
  alike (`SharedAssumption`): the routes that count truncated addresses are, and the
  sign-ins count whole ones.
* `MCServer` gives a behaviour one `focus`: cron, admin, console, rate, or one
  bounded input for the guards (`GuardsAgree`) and the views (`ViewsAgree`).

### AccessGuards, ManagerMetrics, SpendViews, TeamViews, CentralSchema

`AccessGuards` has each guard as an operator over a request and the environment, and
the agreements between guards that say the same thing twice: the rules an invite is
judged by (written four times), the origin checks, the layers of the middleware,
the secrets. The least of the rows of an address whose role is known stands for the first
element of the filtered list. `input` is the request; `GuardRequests` has every request the
guards may be asked about, of which `MCServer` takes a bounded part (`GuardInputs`, which TLC
evaluates). `SpendViews` and `TeamViews` are the queries of the manager's, the
developer's and the exports' pages over one snapshot; their agreements are that
the overview adds up, that team page and overview agree, filters partition a
roster, a drill-down shows what the developer sees of himself, audit pages cover the
log and equal the export, dismissals hide alerts, and nothing crosses organisations.
`Optional` is a value or `None`.

## 3. Runs

Deadlock is not checked (`CHECK_DEADLOCK FALSE`): the calls and the clock of a run are
bounded, so the system may stop. That no call is stuck is a liveness property instead.

| run | question | instance | result |
|---|---|---|---|
| `server` | do the server's jobs, administrators, console, limiters, guards and views keep their promises | see the bounds of `MCServer` below | 14 invariants and 2 temporal properties hold, among them `PruneLeavesNothing`, `DepartedKeysAreLate`, `AuditMatches`, `TokensAudited`, `LimitsHold`, `GuardsAgree`, `ViewsAgree`, `RollupsCatchUp` |
| `server_rollups` | the same for the metrics rollup when a pushed session's owner has no team | one rollup, two sessions | `RollupsCatchUp` violated |
| `server_revocations` | does a revoked machine have one audit row | two revocations of one prefix, the rest as in `server` | `OneRowPerRevocation` violated |
| `reporter_delivery` | is a mark always backed by storage, is the contract implemented | 1 session of two parts, 2 overlapping runs, 2 requests, 2 attempts, lost and late replies, writers of three kinds that commit between SELECTs as anywhere | `TypeOK`, `MarkedWasStored`, `ImplementsContract` hold |
| `reporter_quiet` | is any change forgotten, any skipped session stale, any stored aggregate torn | 3 sessions in chunks of 2, one payload the sanitizer refuses, one the server refuses, a queue of one entry | `NoLostUpdate`, `Agreement`, `StoresWhole` hold with quiet writers and no reply lost after a commit |
| `reporter_live` | is every change acknowledged in the end | 2 sessions in chunks of 1, lost replies, crashes, stopping at the first failed chunk | `ChangeIsAcknowledged` holds |
| `reporter_race` | `NoLostUpdate` with a re-ingest during a run | 1 session, 1 run | violated |
| `onboarding_sso` | the unlocked match against the lock; over-use and keys; is an acceptance one step; does anybody get in uninvited | 2 sign-ins and a redeem, 2 orgs, 2 invites of 1 use, expiry, a revocation, failures | `TypeOK`, `UsesAccounted`, `NeverOverRedeemed`, `KeyIffAccepted`, `OnlyInvited`, `RevokedAdmitsNobody`, `ImplementsLedger` hold |
| `onboarding_live` | does every call get an answer; one row per identity | 1 org, an invite of 2 uses, 2 sign-ins, a redeem and a revocation, 5 connections, an address spelled in upper case, failures | `EveryCallAnswered`, `OneUserPerIdentity` hold |
| `onboarding_pool` | the same with as many sign-ins as connections | 2 sign-ins, 2 connections | `EveryCallAnswered` violated |
| `local_safety` | gates, totals and completeness; outcomes; the watcher; the views | see the bounds of `MCLocal` below | `TypeOK`, `RecordedIsStored`, `TotalsExact`, `IngestIsComplete`, `OutcomesTruthful`, `SweepIsComplete`, `WatchersAccounted`, `LocalViewsAgree` hold |
| `local_gate` | does reloading the page show what was on disk | 1 page, 2 files of 2 sessions | `PageIsFresh` violated |

What the properties of `server` say, by focus:

* cron: `PruneLeavesNothing` (a prune that ends "ok" forgot no table), `RecentRowsKept`
  (no prune, however late it runs, takes a row of the retained window),
  `RollupsCatchUp` (once pushes stop, the rollups of the rolling window come
  to be computed from what is stored);
* admin: `DepartedKeysAreLate`; `AuditMatches` (each revocation and each departure is of a
  request that left its row, and each row is of the request whose UPDATE had that effect, or of
  one that had read the row before another's UPDATE changed it); `ViewsAreAudited`;
  `TenantsApart`;
* console: `TokensAudited`, `RetryIsAnswered`, `UrlShownShortly`;
* rate: `LimitsHold` (the sliding windows, the fixed window's double budget at a
  boundary, the mails), `CountersTrue` (pruning never forgets a call the window still
  counts), `RetryAfterHonest` (a caller that waits what it was told is let through by
  the dimension that refused it, if nothing else came);
* input: `GuardsAgree`, `ViewsAgree`; `ServerTypeOK` for all of them.

### Bounds, and why they are enough

* Two sessions per chunk and three in all are the least for a full chunk, a partial
  one and two chunks; two values of a part are the least for a content that changes and
  comes back, and two parts, read by two SELECTs, for a payload of two moments. Two
  overlapping runs and two requests give every order of an abandoned attempt, a retry and a
  second run. What `reporter_delivery` asks does not depend on the timestamps: its clock
  stands, so that a session is always within the one-hour overlap and every run takes it.
  The other three move the clock with `Overlap = 0`, where a session leaves the overlap at the
  first tick, and one tick before and one after a mark are what the comparisons need.
* Two calls against one use are the least that can over-use an invite; a redeem and two
  sign-ins have both writers of `used_count`, and one of them twice. Two identities, two
  spellings and two orgs are the least that can collide within and across the unique
  indexes. At most one of the calls is a redeem: all take their use under the same row lock,
  and the theorems have any number of each. The pool runs use as many connections as calls,
  and one more.
* `MCLocal`: two files of one session are the least for totals that one file's ingest
  spoils; two processes with three calls give every overtaking of stat, parse, write
  and record (three turns in all). Of the steps that may throw, the run fails
  migrations, writes and reconciliations: a parse failure leaves the same state as a failed
  write, and a failure to record the same state as a crash before it. A page beside an
  ingest of every file meets a migration that fails; processes die and files are skipped
  where one of the two calls is a watcher's. Sweeps have two processes, two sessions (the
  evaluation of one may throw), two commits of which one may revert the other, two
  pull requests, four instants: enough for a commit before, in and after a session
  and a verdict that is overtaken. A directory that disappears is met by the sweeps of
  one process; two that race do so over one session, in a repository that stays. Three registrations are the least of which two overlap
  and a third replaces what they left.
* `MCServer`: two organisations, three teams, four users, two sessions of different
  days and four days let a window pass a session while a job runs; one fault lets
  each statement fail once. The pairs and triples of jobs run together are listed in
  `CronSchedules`: two runs of one job, a rollup beside the prune (undisturbed: each
  of the two meets its fault alone), each with pushes. `AskedTogether` lists the
  administrators' requests that meet. Four keys with two prefixes allow a prefix of
  two keys. Three submissions with two revocations, a cache and a cookie of one minute, two minutes and one restart let every entry expire. The limits are
  one or two calls in windows of two to four ticks, two ticks to a second, over
  seven ticks: a window opens, fills, slides and is pruned.
* Views are checked for every small snapshot (up to a few sessions over the edges of
  the windows), guards for every combination of the values they tell apart.
* Model values are symmetric where interchangeable: sessions, runs and requests in
  ReporterSync (and the values of a part, where none is refused and no part is the ratings,
  which begin as `Unrated`), calls in Onboarding. The liveness runs use no symmetry.

### Fairness

* ReporterSync: `launchd` or `systemd` starts the unit every hour (`StartInterval`
  in `scripts/install-reporter.sh`), and a live process takes its next step: weak
  fairness of starting, of reading a reply and of enqueueing, strong fairness of each later SELECT, so
  that runs are not all killed while they read; no request stays in
  flight for ever: weak fairness of the server's step. Strong fairness says that
  runs are not all killed before they post, that the server is in time for some of
  the requests still waited for, and that not every reply is lost; without one of
  these no protocol delivers. Writers, failures, revocation and clock owe nothing.
* Onboarding: strong fairness of the steps of each call, since a connection or a
  row lock may be taken and released many times while a call waits, and both pg's
  queue and PostgreSQL's lock queue are first-come first-served. Beginning a call,
  failing and revoking owe nothing.
* CronJobs: weak fairness of starting and continuing a rollup: the scheduler calls its
  route every day and a live process proceeds. Faults and crashes are bounded and owe
  nothing, nor do pushes or the other jobs.

## 4. Where the code and its documents disagree

Five runs end in a counterexample and are listed as findings:

1. `reporter_race`. `markBatchPushed` stamps `pushed_at` with the time of the mark
   instead of that of the SELECT. A change committed while the batch was in flight is
   older than `pushed_at`; once the session is an hour old, no branch of
   `CANDIDATES_SQL` finds it again.
2. `onboarding_pool`. `provisionInTx` holds a connection and calls
   `writeAuthEvent`, which takes another one through `getDb()`. With as many first
   sign-ins as connections, one waits for a connection and the others, holding the
   rest, for its row lock.
3. `local_gate`. The page gate compares the newest mtime with the newest
   `ingested_at` of any session. A turn appended to one file after it was
   stat'ed, before another file is stored, is older than that and stays invisible
   until some transcript changes.
4. `server_rollups`. The query of `aggregate-team-metrics.ts` does not leave out users
   without a team, as that of the outcomes does. One session of such a user violates
   the NOT NULL of `team_metrics_daily.team_id` and fails the one statement that
   writes the groups of every organisation, every day its window holds the session.
5. `server_revocations`. `revokeMachineCore` awaits the guarded UPDATE and does not look at
   how many rows it changed (`machines.ts:168`). A revocation whose machine another request
   revoked since its SELECT changes nothing, yet writes a second `machine-revoked` row and
   answers "revoked". `.specs/machine-revocation-ui.md:106` says that revoking twice is a
   no-op, and `:86` asks for exactly one row. `AuditMatches` says how far this goes: such a row
   is of a request that was overtaken between its SELECT and its UPDATE, and of no other.

Behaviours of the models that the passing runs keep out by a stated restriction, that
a property allows for in its wording, or that no document of the repository promises
otherwise. None has a run of its own.

Pushing:

* Without `Quiet`, and with the OTEL writer even with it, `NoLostUpdate` fails:
  the sweep at the end of `ingestAll` and `recompute-costs` change a payload and no
  timestamp (`lib/ingest/writer.ts:495-511`).
* Without `Quiet`, `StoresWhole` fails: a re-ingest or a rating that commits between two of the
  SELECTs of a run (`lib/reporter/runner.ts:390-400`) makes a payload that mixes two states of
  the session. The write is older than the `pushed_at` of the mark, as in finding 1: once the
  session is an hour old, no run corrects it.
* With `ReplyLoss`, `Agreement` fails in two ways. The reply to B is lost after the
  commit, the content returns to A, and the run skips it because A is the marked hash.
  Or an abandoned attempt carrying A arrives after B was stored and marked.
* The offline queue is only written: no code drains it, and a run that fails again
  enqueues the same sessions again until the cap drops the oldest.

Onboarding and invites:

* The accepted row of `auth_event_log` is committed on a connection of its own and
  survives the rollback of its transaction; `AcceptedLogHasUser` therefore speaks of
  `onboarding_redemption_log`.
* `auth.ts:201` says that the unique index over (org, provider, subject) guarantees
  one row globally. Over two orgs it does not: two sign-ins of one identity, each
  matching the invite of another org at the moment it looks, insert two rows, and
  every later sign-in throws. `OneUserPerIdentity` is checked on a server with one org.
* The bootstrap inserts the address as the provider spells it, while redeem and
  auto-provision use lower case: two rows for one person's address.
* The fill of an invited user updates by address alone and overwrites a binding
  committed since the row was read; a redeem fills a team on the strength of an
  unlocked read and overwrites a team filled meanwhile.
* A `key_id` collision cannot be retried: the transaction is already aborted, so
  the second INSERT fails with 25P02 and the call answers "infra".
* A redeem admits at the very instant of expiry, where a sign-in refuses.
* `extractEmailVerified` is documented to prefer the id_token's claim and reads the
  direct field first (`auth-helpers.ts:168`).
* Two concurrent revocations of an invite write two audit rows.
* Two overlapping submissions of one form mint two invites: the comment in
  `invite-create-form.tsx:62` that a double click gets the cached result holds only
  after the first answer.
* `flash-cookie.ts:5` says the URL is shown exactly once; the page reads the cookie and
  does not delete it, so that a reload before the clearing call shows it again.

Administrators, limits and retention:

* A redeem that read the user before an offboarding leaves a live key of a departed
  user (`DepartedKeysAreLate` bounds it to redeems under way). Two concurrent offboardings
  of a user write two rows, as finding 5 has it of machines; no document asks for one. Two
  administrators who offboard each
  other at once leave an organisation without one. A notification keeps the text
  of its reason after the manager was offboarded.
* The counters hold up to 2·limit+1 timestamps, one more than the comment at
  `rate-limit.ts:26` says, and keys are never dropped. Requests without a trusted
  address share one bucket. Three mails to one address in a day
  (`pre-existing-binding-email.ts:9`) can become more when sends overlap.
* With the restricted role of SECURITY.md, the prune and offboarding always fail:
  they delete from or update append-only tables.

Server views:

* The drill-down shows list prices where team page and overview show effective costs;
  the overview falls back to the organisation's calibration and the team page does not.
* What makes a session good is written once for the developer (`avg_rating >= 4 OR
  cache_hit_ratio >= 0.6`, `me-visibility.ts:148`) and once in the SQL of the rollup the manager
  reads (a composite score of 60, or a rating that is not negative,
  `aggregate-team-metrics.ts:260`). Ratings are -1 to 1 (`packages/shared/src/reporter/types.ts:55`),
  so the developer's first test is never met, and the two shares are of different things, although
  `me-visibility.ts:124` promises "the SAME numbers their manager sees". No property relates the
  two: nothing is true of both.
* The effectiveness page of an organisation prints a ratio as a percentage without
  multiplying by 100, and counts teams without data as 0 in its means.

Local side:

* When `reconcileSession` throws after `writeSession`'s transaction (SQLITE_BUSY),
  the file is reported as skipped, the totals of the session are those of one
  file, and the page gate sees a fresh `ingested_at`; the next migration, or the next
  ingest of a file of that session, repairs them. `TotalsExact` excepts such a session until
  then, and only then.
* `watcher.ts:305` says there are never two chokidar instances; two registrations that
  overlap leave two, one of which nobody can stop.
* Outcomes: `last_evaluated_at` is the time of the write, so turns stored later, with an
  end before it, never trigger another evaluation; a slow sweep of another process
  can store a verdict for an older end over a newer one and mark it fresh. Reverts and
  merges after the evaluation are never counted, a rate limit at a re-evaluation
  erases an earlier count, and a row with a status only is not evaluated again until
  the session grows (`.specs/outcome-integration-git.md:34` says future runs do). The
  message of a plain `git revert` never matches the heuristic, and git's whole
  seconds lose a commit made in the first second of a session.
* The daily accept rate adds up cumulative samples (`overview.ts:321` against
  `otel.ts:14`). The SQL cost and the JavaScript cost of a session differ where OTEL
  measured nothing and where the calibration has a rate for the family only.
* `recompute-costs` forgets the batch tier. The pages of sessions beyond an offset of
  10,000 start over. The heatmap drops a first day that is a week of its own. The card of
  outcomes is hidden when no session produced anything, though its third list is
  about just those (`.specs/outcome-integration-git.md:93`).
* Two tabs of the quota page overwrite each other's thresholds; the five-hour window
  is estimated on a grid that starts at the last long pause, while `quota.ts:286`
  speaks of the first message after the previous window.

## 5. Proofs

The theorems hold for every value of the constants allowed by the named
assumptions of the modules, with any number of sessions, calls, invites,
registrations, files, processes, commits, keys, failures and crashes. `PROJECT.json`
lists them with the property each states. What the assumptions ask beyond the shapes
of constants is said below. The pattern is the same everywhere: the property is
seldom inductive; an invariant says what the steps under way know; the initial state
has it, every step keeps it, and it implies the property.

**ReporterSyncProofs.** `TypeOK` is not inductive: a run about to post again must
have an attempt left, which is `PushRoom`; `TypeInv` adds it. `MarkedWasStored` is not
inductive either: a run that reads a 2xx reply marks its chunk, so the induction has to know
what that reply means. `MarkInv` adds that only a waiting run has a request and a
reply (`WaitOnly`), that a request carries the chunk of the run that waits for it
(`SameBatch`), and that a run with a 2xx reply has a chunk the server stored
(`ReplyStored`). `CommitBatch` establishes `ReplyStored` through `SameBatch`; the
steps after which a run waits for nothing are treated together (`ReleasingStep`).
`ContractImplemented` is the refinement: `Init` maps to the contract's, a local
writer's step is an `Edit`, `CommitBatch` a `Deliver` of the items it accepts,
`MarkBatchPushed` an `Acknowledge`, and every other step a stutter, given `MarkInv`
and `Provenance`: what a run has read or has in flight was produced part by part, and is
sanitized once it has all been read. A run that is reading has a SELECT left, on sessions that
exist (`ReadRoom`, in `TypeInv`). `RevocationDrains` says of
every step that once the key is revoked, only requests that were authenticated before are left to
commit (`RevokedOnlyDrains`); it is the guard of one step, and only proved.

`StoresWholeAlways` (`StoresWhole`), `NothingForgotten` (`NoLostUpdate`) and `AgreementAlways`
(`Agreement`) have the restrictions of their run as hypotheses: `Quiet` for all, no OTEL writer for
the last two, and for the third no reply lost after a commit; without them section 4 shows them to
be false. `HoldInv` says that what a run holds is what the database gives now
(`HeldPresent`), that an idle run holds nothing (`IdleEmpty`), and that a request in flight is of
aggregates the database had (`InFlightWhole`), however late it arrives. `QuietInv` adds that a session whose content is not the one
marked has a timestamp later than its mark (`ChangeStamped`). `AgreeInv` adds that each
request in flight is waited for by a run without a reply, and has an id of its own
(`NetInv`), that a run with a 2xx reply finds its chunk on the server (`Landed`), and that
the mark of a session is what the server has, unless a run is about to make it so
(`MarkFollows`).

**OnboardingProofs.** `TypeInv` is `TypeOK` with the shapes of calls: whoever has begun
knows its invite, address or identity, and a row `upsertUserForInvite` found is still
there (`FoundShape`). `LockInv` says that the lock of an invite has one holder, and that
what the holder saw under the lock is still so: the invite is not revoked, has a use
left, and `seen` is its `used_count`. This is why writing a value read earlier agrees
with the SQL increment, and why a revocation, which waits for the lock, cannot be
overtaken. `NeverOverRedeemed` and `RevokedAdmitsNobody` follow from `UseInv`
(`TypeInv`, `LockInv` and the bound). For `UsesAccounted`, `RowWhenDone` says that a
call writes its row of the log as it ends, so every commit adds a row that was not there,
and `CountInv` keeps the log finite and its count equal to `used_count`.

`KeyInv` treats `KeyIffAccepted` and `AcceptedLogHasUser` together: a transaction about
to mint a key or to commit has a user's row in its draft or finds it in the table
(`DraftShape`), and a row the log has of a sign-in is of one that began (`SsoRows`).
`IdentityInv` adds what the unique index does not show while transactions are open: a
sign-in whose draft carries an identity is alone with it, and no visible row of its org has
it (`SignInDrafts`); the draft of a redeem has the identity of the row it replaces, which
no other open transaction writes (`RedeemDrafts`). `OneRowPerIdentityAlways` is the result for
any number of orgs. `OneUserPerIdentityAlways` needs one org: over two, section 4 has the
counterexample.

`LedgerImplemented` is the refinement. The step of the ledger is the COMMIT (`CommitRedeem`,
`CommitProvision`), the insert of the bootstrap, or the fill; what was read and judged
statements earlier has to be so still when it is taken. `LedgerInv` adds two conjuncts to
`CountInv` and `IdentityInv` for that. `Admitted`: a call that has passed the checks holds
an invite that exists, whose pattern admits its address and, for a sign-in, whose providers
permit its identity; these never change. `RowDrafts`: the draft of a redeem carries
the identity of the row it will replace, or none where it opens one; and a sign-in that is
about to commit a row still finds none there and is alone with it, because it holds the
entry of the index.
With `LockInv` (not revoked, a use left) and `RowWhenDone` (its use is its only one) each
commit is an `AcceptToken` or an `AcceptIdentity` (`CommitRedeemAccepts`,
`CommitProvisionAccepts`). The use taken is counted by the log, which agrees with
`used_count` by `CountInv`. `BootstrapInsertOpens` and `FillSsoBinds` treat the two statements
without a transaction, and every other step leaves the tables of the ledger alone.

`OnlyInvited` is inductive in the ledger and mentions nothing else, so it is proved of the
five steps of the ledger (`LedgerInvites`) and holds of onboarding by `LedgerStep`.

**LocalProofs.** `RecordedIsStored` is `recorded[f] <= Mtime(f)` with the turns up to
the recorded mtime stored (`GateSound`). A call that is going to record an mtime must
already have parsed at least what that mtime covers, which is `CallSound`; it
holds because the file is stat'ed before it is read, and files only grow. With it
`GateSound` is inductive for any interleaving of processes. `IngestIsComplete` adds
`CallOwes`: of the turns `want` demands, those of the files a call has dealt with are
stored, unless it has reported a failure. `TotalsExact` is inductive relative to these
invariants, whichever steps throw: it excepts the sessions that are owed a
reconciliation (`Torn`), and every one that reconciles takes its session off that list.

For the watcher that starts such calls, `WatcherInv` counts the live
watchers with the calls that are about to open one: they exceed the registrations that
overlapped another by one at most, and by none when nobody holds a live handle
(`RoomToStart`); and as long as no two calls overlapped, a call under way is alone and
the attached watcher is the published one (`OneAtATime`).

What a row of the outcomes tells is about the past: it speaks of the commits and
merges up to a moment. Instants that are known never change (`Grows`), so that what a row
or an evaluation under way says stays true, and only the steps that read, count, look up
and write need a proof. `GitInv` is the types (`GitTypeOK`), that no instant lies ahead
(`PastFit`), that each stored row tells the truth (`OutcomesFit`), and that each
evaluation under way will (`SweepsFit`): the merges it has counted were made by now, and
those it passed over were not made when the commits were read, unless a look-up failed.
`SweepIsComplete` speaks of a sweep's last step and follows from what `RowsFit` says of the
sessions it is done with. `GitAssumption` asks for finitely many commits, and finitely many
pull requests of each.

`LocalIsEach` says that a behaviour of `MCLocal` is one of `LocalIngest`, of `GitOutcomes` and of
`WatcherLife`, which share no variable; `LocalKeepsPromises` carries their properties over.

`LocalViewsAlwaysAgree` is `LocalViewsAgree` of the composed local side. The input of a behaviour
stays what it was, each conjunct is a theorem of `LocalViewsProofs`, and that every input
`MCLocal` enumerates fits what those theorems ask is the assumption `InputsFit`, which TLC evaluates.

**LocalViewsProofs.** One theorem for each of the agreements of `LocalCosts`, `LocalEffort` and
`LocalQuota`, for any snapshot, transcript, settings, query or text that fits, where TLC has the inputs
of `MCLocal`. Again there are no steps; each group has an argument of its own.

* Windows and totals (`WindowsAlwaysAddUp`, `OtelAlwaysAddsUp`, `SharesAlwaysAddUp`, `ChartsAlwaysAddUp`,
  `OutcomesAlwaysAddUp`, `WeeksAlwaysAddUp`, `AggregatesAreAlwaysMeans`): what two views add up is written
  as a `Sigma` of the same rows, split by day, label, family, type or stage.
  Where the windows of two views do not quite match, the agreement names the rows between them.
* Costs (`CostsAlwaysAgree`, `RepairAlwaysMatchesIngest`): the two computations are compared before and
  after they round.
* Percents (`PercentsAlwaysAddUp`): the units that flooring leaves over are fewer than the parts, and the
  parts with the largest remainders take one each (`UnitsAddUp`).
* Pages (`LinksAlwaysReachAll`, `PagesAlwaysCoverSessions`, `SearchAlwaysFindsAll`): a sorted list holds each
  element at one place (`PlacesInList`), and the offsets of the pages partition the places.
* Ranks (`QuartilesAlwaysApart`, `TrendsAreAlwaysRates`): a quarter is an interval of ranks.
* Regression (`FitIsAlwaysSound`): r² is at most one by Cauchy and Schwarz over the moments
  of the points (`MomentsOfPoints`, `SigmaOfSquares`), and one when the points are on a line.
* Heatmap (`HeatmapAlwaysCoversDays`) and scores (`ScoresAreAlwaysSound`): arithmetic of weeks, and of each signal
  beside the others.
* Quota (`ResetsAreAlwaysAhead`, `UsageIsAlwaysOfCycle`, `SavesAlwaysKeepTheRest`): the next of a series of
  instants a window apart is ahead by a window at most (`NextIsAhead`), the estimate is such an instant, and
  so is the end of a block that runs (`EstimateIsAhead`). The blocks are a fixed point, which `BlockStarts`
  chooses; that there is one is `BlocksExist`, by the least number of hours without any.
* Sharing (`RedactionAlwaysHides`): the text is a concatenation of lists of lists; that it has a
  definite value is `FlatExists`, and what holds of two pieces holds of both together (`HidesBoth`).

What they ask is stated beside the agreements, as the code writes the tables:

* `LocalFits`: finitely many sessions with ids of their own, started by now, costs and counts
  that are not negative (the sums and counters that `writer.ts` stores), rates within the bounds which
  `IsRateInBounds` guards and `RecomputedFits` shows of the calibration.
* `TurnsFit`: as many turns as `turn_count` says, each with the subagent type of its calls.
* `ScrapesFit`: a later scrape of a counter is no smaller (`lib/queries/otel.ts:8`). A restart of Claude Code,
  which would begin at zero again, is therefore outside of the theorems about OTEL.
* `OutcomeRowsFit`: no reverted commit without a commit (`reverts` counts some of the `commits`).
* `FewTools`: ten tools at most, the `LIMIT` of the leaderboard, which cuts off the calls of others.
* `QuotaFits`, `SearchFits`: turns that have been; keys of their own in the index before and after the write.
* `ShareFits`, `SignalsFit`, `PointsFit`, `DaysFit`, `RowsAreRecords`: shapes of lists and records, and
  the consecutive days the queries fill with zeros.
* `PagesAlwaysCoverSessions` is about lists whose last page is within `MAX_OFFSET`; section 4 says what
  happens beyond.

**ServerPartsProofs.** The components of the server that `MCServer` composes, each of its own
specification.

*CronJobs.* `CronFit` is `CronTypeOK` with what a job under way knows (`CallsFit`): its windows and
cutoffs lie within a day of today's, since a job goes on past one midnight at most.
`RecentRowsKept` follows from it. For `PruneLeavesNothing`, `PruneProgress` says that the
tables a prune has already deleted from hold no row older than its cutoff; they stay clean
(`StaysClean`), since pushes, rollups and the detection, however late, write rows of
days that are retained. `WindowsAssumption` asks that the rollups look back no further than
the retention, as 90 days and 12 months do, and that it is a day at least.

*AdminOps.* `AdminShape` says what a request has established where it stands: the
machine or the user it read belongs to its organisation, the reason is one of the
form's, and the key a redeem will insert is nobody's yet. `DepartedKeysAreLate` follows
from `LateInv`: a redeem that read a user who has departed since holds a key that is
already counted as late. `AuditMatches` and `TenantsApart` are inductive with the shapes and
with what makes an audit row true (`AuditInv`): a request that is to write what another has
written since it read it was overtaken (`ReadsOvertaken`), and a row is of a request that is
over and found a key of its own organisation (`RowsAreOver`), so that what the row names does
not change any more. `ViewsAreAudited` counts: announced rows are no more than rows, and rows
are counted by their unique keys (`ViewInv`). `RequestsAssumption` says what a request may
name; a redeem mints a key of its own.

*InviteConsole.* `ConsoleInv` follows a token on its way: an invite a request
holds exists (`StatesSound`), an entry of the cache (`CacheSound`), a cookie
(`CookieSound`) and a URL on display (`DisplaySound`) belong to an invite whose creation
was audited and to the browser that made it; `RemembersSound` and `RetrySound` say
that what this process answered is in its cache until it expires.

*RateLimits.* `SlidingInv` says of each key that the counter holds a part of what
was admitted, and all of it that the window still counts (`KeyTrue`); the test of a call
is therefore a test of the history, whatever was pruned before and by whichever route.
`CountersTrue`, `RetryAfterHonest` and the sliding part of `LimitsHold` follow. For the
bucket of the ingest route, the hits since it opened are no more than its count, those of
the window before it opened no more than one budget, and every later window is covered by
the two (`BucketInv`): hence twice the limit. For the mails, `HistoryKept` says that what
is stored, and what a mail under way read, are mails that were sent and include all that a
window still counts; it holds until two are under way at once, which is the exception
`MailsLimited` makes.

*AccessGuards.* `GuardsAlwaysAgree` is `GuardsAgree` of every request in `GuardRequests`: any
instants, uses, patterns, headers, secrets and rows of an address, however many. There are no
steps; each rule is reduced to the condition under which it lets the request through, and
the conditions are compared. Only the callback that picks a user's oldest row needs more,
namely that a set of numbers has a least one (`LeastOf`). `HeaderAssumption` says that a
missing header, date or role is none of the strings.

**CostProofs.** What the views of both sides rest on. A sum is a fold that takes the elements of a
set in an order it chooses. `Sigma` is that fold as a recursive function over the subsets: it exists for
every finite set (`SumExists`), and which element it takes first does not matter (`SigmaTakes`). What follows
is used throughout: the sum of a union of disjoint sets (`SigmaUnion`), a sum split by a key
(`SigmaByKey`), monotony (`SigmaGrows`), factors (`SigmaTimes`), squares (`SigmaOfSquares`), and what the ranks
of a finite set take (`RanksAreTaken`). Each goes by induction over finite sets; the induction theorems of the
library take an operator, so `SetsByElements` is one that takes a set of sets, from the least
number of elements. `RecomputedFits` says that `RecomputePerUserCalibration` leaves rates within the
bounds, of any sessions.

**ViewsProofs.** Each agreement of `SpendViews` and `TeamViews` is proved of every snapshot, log
and sample, where TLC has those of `MCServer`. There are no steps here; the work is sums.

* Adding up: the overview splits the sessions of an organisation by day, by team and by source, a
  team's page by member and by project, a mix of tools by day and by user. Each total is
  written as a `Sigma` of the same rows (`OverviewAsSums`, `PageAsSums`, `ToolCounts`), and
  `SigmaByKey` does the rest.
* Spikes: with `n` values, the excess of one over the mean and the sum of squares obey the inequality
  of Cauchy and Schwarz (`SigmaOfSquares`, from `SquareOfSum`), so that a value three deviations
  above the mean needs nine others at least.
* Radar: normalising an axis keeps its order (`AxisKeepsOrder`), and a team at its top is at 100
  however many tie.
* Pages and exports: `LogPages` says what a page of a filtered log holds, for any offset;
  `PageParams` that every page an export within its cap could be cut into is one the parameter reaches.
  The filter is `Kept`, a fold, since the prover knows nothing of the standard `SelectSeq`.

What is assumed of a snapshot is `SnapshotFits` in `TeamViews`, which the code justifies. `StoredFits`:
finite tables with their primary keys (`apps/server/lib/db/schema.ts`); amounts and counts that are
not negative, which the payload's schemas demand (`packages/shared/src/reporter/types.ts`);
teams and users of the same organisation; and of a day with a rollup a share of good sessions, since a
group is only upserted when it has a session. `RatesFit` (`CostCalibration`): rates within the bounds, which is what
`RecomputePerUserCalibration` leaves of any such sessions (`RecomputedFits`).
`TeamPageMatchesOverview` also needs lists that are not cut off (`NothingCutOff`), and
exports a cap that the pages reach (`ROW_CAP` is 10 000 rows, and there are 10 001 pages of 50).
`NoneIsNoAnswer` says of `None` what NULL is: no number, no role, no record. None of it restricts the
runs: that each snapshot of `MCServer` has `StoredFits` and `NothingCutOff` is the assumption
`SnapshotsFit`, which TLC evaluates.

**ServerProofs.** The theorems above speak of one component. `MCServer` lets a behaviour take the
steps of one, and the jobs and the administrators connect under the same `role`.
`JobsKeepRole` and `AdministratorsKeepRole` say that neither changes it, hence a step of one
component is a stutter of the others (`ServerStepIsEach`), and a behaviour of the server is
one of each (`ServerIsEach`). `ServerTypeCorrect` and `ServerKeepsPromises` follow without another
induction; `ServerGuardsAgree` and `ServerViewsAgree` follow from the fact that the request of a
behaviour stays what it was. That this request is one of `GuardRequests`, or a snapshot that fits, is
the assumption `GuardInputs`, or `SnapshotsFit`: they are about the literals of `MCServer`, whose
membership in `STRING` the prover does not decide, and TLC evaluates them.

## 6. What is only checked, and what is not modelled

Only model-checked: liveness (`ChangeIsAcknowledged`, `EveryCallAnswered`, `RollupsCatchUp`), which rests
on fairness and ENABLED and which the prover does not treat. Every other property of a passing run is
also a theorem.

Not modelled, by component, with the reason: see `components` in `PROJECT.json`. In
short: installation, seeding and the stub of an identity provider run once, with
nobody beside them; rendering keeps no state; e-mail transport, git and gh are
modelled by their answers, not by their output; signatures are taken to be sound.

Left out of the modelled components: the sanitizer's field rules (a payload is
either refused or not), the composite score of a session in the SQL of the metrics
rollup, body limits of the endpoint, the wording of answers, and the rounding of
floating-point numbers (ratios are exact fractions or thousandths; where the code
rounds before it compares, so does the model). In LocalIngest, the
text of a turn: an older parse written over a newer one counts as the newer turns
staying. In CentralSchema, columns and indexes no property tells apart.

## 7. Plan

Done: all components but the set-up tools have a module, at the depth their row in
`PROJECT.json` names; the abstract specifications of the push pipeline and of onboarding are
proved to be implemented; every safety property that a passing run checks of a stateful module, and
the agreements of the guards, of the server's views and of the local pages, are theorems, under the
restrictions section 5 names, and the composed modules inherit the theorems of their parts.

Worth doing next:

1. The text of a turn in LocalIngest, to say what an older parse takes back.
2. All four SELECTs of a run in one instance, instead of one of them at a time.
