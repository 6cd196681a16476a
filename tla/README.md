# PromptMetrics in TLA+

PromptMetrics is a registry for LLM prompts: an Express server that versions prompts,
serves them, proxies completions to LLM providers and records what happened.  It runs on
one Node process per deployment, over SQLite or PostgreSQL, with the content of the
prompts in the file system, in a GitHub repository or in S3, and optionally with Redis.

The code is short and its handlers look sequential.  What makes it hard is that every
`await` on real I/O lets other handlers, timers and jobs in, that the same handler is one
uninterrupted step on one backend and six steps on another, and that a logical write is
spread over a table, a content store and a cache with nothing that commits them together.
The models keep exactly that: which steps exist, what each one reads and writes, and who
may come in between.

Contents: [1 The system](#1-the-system) · [2 Plan](#2-plan) ·
[3 Modules](#3-modules-and-the-code) · [4 Runs](#4-runs) · [5 Proofs](#5-proofs) ·
[6 What is not covered](#6-what-is-not-covered)

## 1 The system

### 1.1 Inventory

| component | state it keeps | operations |
|---|---|---|
| prompt registry (`prompt.service.ts`, `promptmetrics-reconciliation.job.ts`, drivers) | `prompts` rows (`pending`/`active`, workspace, `active_version_id`), the content store | `createPrompt`, `runReconcile` |
| prompt serving (`prompt.service.ts`, `cache.service.ts`, `redis.service.ts`) | LRU and Redis entries per workspace, name and version | `getPrompt`, `setCachedPrompt`, `invalidatePrompt` |
| GitHub driver (`promptmetrics-github-driver.ts`, `promptmetrics-git-sync.job.ts`, webhook) | the repository, its tags, the local clone, a circuit breaker | `createPrompt`, `getPrompt`, `sync` |
| database adapters (`sqlite.adapter.ts`, `postgres.adapter.ts`) | the one SQLite connection and its open transaction; the PostgreSQL pool | `prepare().run/get/all`, `transaction`, `close` |
| audit log (`audit-log.service.ts`, audit middleware, shutdown) | the memory buffer, the batches under way, `audit_logs` | `enqueue`, `flush`, `start`, `stop`, `shutdown` |
| rate limiter (`rate-limit-per-key.middleware.ts`) | `rate_limits` rows or Redis counters | `rateLimitPerKey` |
| playground (`playground.service.ts`, `budget.service.ts`, `circuit-breaker.service.ts`) | breaker per provider, the models cache, `logs` as the ledger | `chatCompletion`, `streamChatCompletion`, `listModels` |
| provider adapters (`services/providers`) | none | `chatCompletion`, `streamChatCompletion`, `listModels` |
| A/B tests (`ab-test.service.ts`, `ab-test.engine.ts`) | `ab_tests`, `ab_test_results`, the promoted pointer | `createTest`, `runTest`, `promoteWinner`, `deleteTest` |
| evaluations, eval runs, datasets | `evaluations`, `evaluation_results`, `eval_runs`, `datasets`, `dataset_rows` | create, complete, fail, list, delete |
| labels (`label.service.ts`) | `prompt_labels` | `createLabel` (upsert), `deleteLabel` |
| traces, runs, logs | `traces`, `spans`, `runs`, `logs` | create, update, delete, list |
| compliance (`compliance.service.ts`, `compliance.engine.ts`, scanners) | `compliance_scores` | `scanPrompt`, `listScores` (keyset and offset pages) |
| metrics (`metrics.service.ts`) | none | SQL aggregates |
| API keys, authentication, tenancy | `api_keys` (`last_used_at`, `expires_at`) | `authenticateApiKey`, create, revoke |
| boot and migrations (`server.ts`, `migrations/`, the scripts `migrate` and `init-db`) | the schema, the `migrations` table | `initSchema`, `up` and `logMigration` |
| HTTP layer (`app.ts`, routes, controllers, validation) | none across requests | routing |
| dashboard (`ui/src`) | a query cache, the open page with its controls, the session cookie and CSRF token, the playground store; the proxy's session table | list, page, filter, select, mutate, log in, run and cancel a stream |
| command line, scripts, clients | none the server depends on | callers of the HTTP API |

### 1.2 How the parts interact

* A request passes the routers in the order in which `createApp` mounts them, all at `/`.
  Each router on its way runs authentication and the rate limiter, so one request may be
  charged more than once.
* `createPrompt` opens a transaction, marks the row `pending`, calls the driver, marks the
  row `active`, commits and invalidates the cache.  The driver keeps its own index with a
  second `withTransaction` when it is networked (S3, GitHub).
* `getPrompt` reads the table (membership, promoted pointer), the cache, the driver, and
  fills the cache.
* The reconciliation job walks over rows that were `pending` for two minutes and either
  activates or deletes each one, depending on what the driver finds.
* The GitHub driver writes through GitHub's API and reads from a local clone that the sync
  job, the webhook and the deep health check pull.
* `promoteWinner` writes the pointer `getPrompt` reads; it and all successful requests
  enqueue audit entries; the shutdown drains them and closes the database.
* A playground call reads the budget from the `logs` table, goes through a breaker to the
  provider and writes the log row that the next budget check counts.
* A streamed answer passes the adapter, the controller, the dashboard's proxy and the panel;
  each of them cuts and joins what it reads, and each side may stop first.
* The dashboard reads and changes the tables through its proxy, and shows what its query
  cache holds; a successful mutation invalidates some of that.
* Every program that opens the database first brings its schema up to date, and several may
  do so at once, one of them while another already serves.

### 1.3 What is hard, and what correctness means

Two facts of the runtime decide every interleaving, and each module states which applies:

1. **Synchronous chains.**  better-sqlite3 and `fs.*Sync` never leave the event loop.  A
   chain of awaits over them runs to its end before any other callback.  On PostgreSQL,
   S3, GitHub and Redis each await is a point where anyone may come in.  The variable
   `turn` names the chain that is still running.
2. **Transactions.**  `SqliteAdapter.transaction` brackets *the connection*, which all
   handlers share; `PostgresAdapter.transaction` brackets *a client*, which the services
   do not use (they prepare their statements on the pool).  The first makes transactions
   collide, and whatever another handler writes meanwhile joins the one that is open and is
   undone with it; the second makes them ineffective.

| component | correct when |
|---|---|
| registry | an acknowledged version is served, unchanged, for good; nothing active lacks content; nothing stays pending; a create fails only when something failed |
| serving | no read answers another version than asked, misses an acknowledged one that no overlapping create has reset, or stays stale |
| GitHub driver | a version is acknowledged once, stays in the repository under a tag that contains it, and reaches the clone |
| pool | no client leaks; calls end unless transactions hold every client |
| audit | no entry vanishes but with a transaction that is rolled back; none is written twice on SQLite; a graceful exit drains |
| limiter | each counter of a window, the row's and Redis's, admits the limit and refuses nobody before; the row is never ahead of the truth |
| playground | the overspend is bounded; charges match completions; a call ends although the provider hangs |
| A/B tests, labels | what is promoted won; on SQLite a promotion is all or nothing; no result outlives its test |
| telemetry, datasets, evaluations | no row is left without its parent; a span stays in its trace's workspace; a dataset counts its rows |
| compliance | pages neither skip nor repeat a score while scores arrive |
| API keys | the stamp lags the last use by less than the debounce |
| boot | no row is lost, what is recorded is applied, a backfill spares later promotions, servers listen in the end |
| dashboard | a confirmed change is shown; nobody is stranded beyond the last page; a stream is shown in order and, without an error, as far as it came; a run ends |

`PROJECT.json` lists the hazards, each at its line with the property that would catch it,
or with the reason why none does yet.

## 2 Plan

Order: what an acknowledged write promises first, then what readers see, then the parts
that share resources, then the parts that are plain tables.

| # | module | composes | status |
|---|---|---|---|
| 1 | `VersionStore` (abstract), `PromptRegistry` | registry, drivers, adapters, job | done, proved |
| 2 | `PromptServing` | registry's creates, cache, Redis, promotion | done, proved |
| 3 | `AuditQueue` | buffer, database, shutdown | done, proved |
| 4 | `RateLimit` | limiter, writer transaction, routers | done, proved |
| 5 | `PgPool` | services, drivers, pool | done, proved |
| 6 | `Playground` | budget, breaker, provider, ledger | done, proved |
| 7 | `GithubDriver` | registry, GitHub, clone, sync, job | done, proved |
| 8 | `Experiments` | A/B tests, their evaluation scores and the label a promotion sets, on both databases | done, proved |
| 9 | `Telemetry` | traces, spans and runs; datasets, evaluations and eval runs; score pages; API keys | done, proved |
| 10 | `Migrations`, `Boot` | the 25 migrations, umzug's storage, two programs, crashes, the writes of a server that is up | done, proved |
| 11 | `Dashboard` | pages, query cache, mutations, proxy and sessions | done, proved |
| 12 | `Streams` | adapters, controller, proxy, panel, store | done, proved |
| 13 | proofs of `AuditQueue`, `RateLimit`, `Telemetry`, `PromptServing`, `Dashboard` | | done |
| 14 | a second workspace in `Experiments` | the label upsert that ignores the workspace | open |
| 15 | proofs of `Boot` | `NoRowLost`, `BackfillSparesPromotions`, `RecordedIsApplied` | done |
| 16 | pure algorithms | rule engine, version orders, bucketing, each against a reference definition | open |

The abstract specification is `VersionStore` (published versions never change).  A counter
that admits at most its limit per window, and a promotion as one step, would be worth
stating for `RateLimit` and `Experiments` on SQLite.

## 3 Modules and the code

`PROJECT.json` maps each definition to its lines.  An action carries the name of the code
it stands for where there is one.  Definitions marked `Mutant:` are not used by the
models: each is a plausible bug of the definition below it, and a property is expected to
fail when it takes that definition's place.

**`VersionStore`** — what clients are promised: under a key nothing is published until one
create call publishes its content, which then never changes.

**`PromptRegistry`** — `rows` is the `prompts` table as the connection sees it, `tx` the
table at SQLite's open `BEGIN`, `store` what the driver would find, `pc` where each create
stands.  `Begin`, `SelectExisting`, `UpsertPending`, `DriverWrites`/`DriverFails`,
`DriverIndexes` (the networked drivers' own transaction), `Activate` and `Commit` are the
statements of `createPrompt` in order; `Rollback` is the adapter's catch block, with and
without effect.  `JobReads`, `JobLooks`, `JobApplies` are the three awaits of
`runReconcile`, `RowAges` its two minutes.  A content is the call that wrote it.  A failed
write may leave the old content, the new one or none (`Leftovers`).  `Crash` restarts the
process; an open SQLite transaction is undone by it.

**`PromptServing`** — one prompt of one workspace: `data` (rows, pointers, store), `cache`
(Redis, LRU, whether Redis is up), readers and creates.  `Request` to `Fill` are the
awaits of `getPrompt`; `CreateBegin` is the duplicate check of `createPrompt` and
`UpsertPending` its upsert, between which another create of the same version may activate
the row (`Calls` are pairs of a version and a number), so the upsert may take an
acknowledged version back to pending.  `Invalidate` and `DeleteKeys` are `KEYS` and `DEL`;
`RedisExpires` and `LruDrops` the two kinds of expiry.  Versions are numbers in the order
of their tags as strings, so *newest* means the largest tag, as in the filesystem driver.

**`GithubDriver`** — `rows`, the repository (`repo`, `tags`), the clone (`files`,
`fileTags`), the requests and, as chains of their own, the content calls (`gh`) that outlive
a request when the breaker times out.  `Put`, `ReadHead` and `CreateTag` are the loop
body of `createGithubContent`, `Throttled` its 429 branch, `Revert` the catch block of
`createPrompt`.  Reads go to the clone only, so `InClone` is what `getPrompt` finds.
It is modelled on PostgreSQL: on SQLite every create with this driver fails (4.2).

**`PgPool`** — the clients, who holds which (`tx`, `lent`) and the queue.  A call is one of
three kinds: plain statements, a service transaction (its statements go to the pool), a
transaction that uses the adapter it is given.

**`AuditQueue`** — `buffer`, the `batch` of each flush, how often each entry is in the
table.  `TakeBatch` is `splice`, `Requeue` is `unshift`; the shutdown is `Signal`,
`ShutdownFlush`, `CloseDb`, `Exit`, twice if there are two signals.  `tx` is the
transaction that another handler has open on SQLite's one connection and `joined` the
entries inserted in it: `Undo`, its rollback, takes their rows (`undone`).  There are two
such handlers: `createPrompt` with a networked driver, which leaves its transaction open
while it waits (`CreateBegins`; the database is then called `shared`) and always rolls back
there (4.2); and `promoteWinner`, which enqueues inside its transaction, so that an entry
that fills the buffer starts the flush there (`PromoteEnqueues`), the first insert before
its COMMIT (`PromotionEnds`) and the others after it.  `flush` swallows the
error of an insert, so `flushWithRetry` never retries or drops, and there is no variable
for what it would drop.

**`RateLimit`** — one key.  Time is counted in half windows.  `CheckSqlite` is the whole
transaction, `PgUpdate`, `PgSelect`, `PgInsert` its statements one by one, `RedisIncr` the
pipeline; `CheckFails` and `RedisFails` admit.  `store` is the database, and where Redis is
configured (`redis`) it comes and goes (`RedisSwitches`): each check asks `getRedisClient()`
anew, and counts there or in the database.  The store `shared` is SQLite with a handler that
keeps the connection in a transaction, which makes the limiter's own `BEGIN` fail.

**`Playground`** — one workspace, one provider.  `CheckBudget`, `Fire`, the outcomes of the
call, `Log`.  `LateAnswer` is the call that nobody waits for any more.  A stream first
makes a whole completion through the breaker (the connection test of
`streamChatCompletion`) and then streams; `StreamDone` ends the generator at its `yield`.

**`Experiments`** — `db` holds the tables one transaction spans: `ab_tests`,
`ab_test_results`, the pointers and the `production` label; `saved` is `db` at SQLite's
open `BEGIN`, so `Throw` is the adapter's rollback, and on PostgreSQL it undoes nothing.
Each request is a chain of statements: `RunReads`, `RunInserts`, `RunCompletes` for
`runTest`; `PromoteBegins` to `PromoteRecords`, the three steps of `createLabel` and
`PromoteCommits` for `promoteWinner`; `DeletesResults` and `DeletesTest` for `deleteTest`.
The statistics are an arbitrary winner, except where they cannot be: a test linked to an
evaluation is scored only when both its versions are the evaluation's `version_tag`, and
two equal arrays tie.  The registry appears as `RegistryActivates` and, on PostgreSQL where
an overlapping create resets an active row, `RegistryReopens`.

**`Telemetry`** — the services that write one row at a time, a statement per step.  `req` is
where each client's handler stands and what it has read so far.  A behaviour is of one
*scene*, the tables it exercises: `traces` (with spans and runs and the cascades of
migration 024), `evaluations` (with results, eval runs and datasets), `scores` (scans
against keyset and offset walks), `keys` (authentication with expiry and debounced stamp).
`Turn` lets a SQLite handler run through, because none of these awaits real I/O there;
on PostgreSQL any two interleave.  A walk is a request for each page, so on both databases
scans come in between two pages (`Between`).  `StatementFails` ends a handler half way: what it
committed stays, since the transaction of `createDataset` brackets another client.
`touched` holds the ids a deletion has begun on, for the properties only.

**`Migrations`, `Boot`** — `Migrations` writes each of the 25 scripts as the statements it
executes, grouped by what commits at once (`Exec`: each statement on SQLite, the whole
`exec` on PostgreSQL), with what a statement does to a schema (`Works`, `Effect`) and what a
unit does (`Outcomes`, a recursive function over its statements).  `Boot` runs them:
`Start` reads the migrations table once, `Up` is one commit, `LogMigration` the separate
record, `Listen` and `Exit` the two ways on; `Crash` and another program may come between
any two.  A database starts empty or with the first 15 or 20 migrations behind it and
rows in its tables, among them one that the old schema admitted and the new one does not.
A server that listens promotes, relabels and writes spans.

**`Dashboard`** — one tab.  `Pages` has each page's query keys and what its mutations
invalidate, `*Controls` which controls it offers in which state, `After` what a control does
to the page.  `Press` sends a mutation; `Carry`, `CarryLate` are the proxy and the API,
`Hear` the mutation's answer, `Serve` and `Get` a query's; `GiveUp` and `TimeOut` are the
client's timeouts, `Other` another user, `Save`/`Login`/`Logout`/`SessionEnds` the session
and its token.  The library behind the query cache is external and modelled from how the
pages use it.  `Hear` invalidates the detail of the row that is open *then*, as the pages
do; the detail of the row that was changed, if that is another, goes to `missed`.  A reload
empties the cache and resets the screen, but for what the page keeps in the URL (`InUrl`).

**`Streams`** — one answer from the provider to the panel as pieces of lines, read in any
portions: `AdapterReads` (Ollama cuts the bytes itself, the others get whole events),
`PanelReads`, both with what they keep of an unfinished line.  The provider's stream ends in
one of `Tails`: with `done`, without it, and Ollama's also with an error line or within a
line; `AdapterEnds` takes any of them for the end of the answer.  `ServerFails` is what is
thrown: the client libraries' errors, a lost connection.  `ClickRun`, `Cancel`, `Clear`,
`Leave`, `Return` and `Reload` are the user; `StreamTimesOut` is the browser's timer.

`MCConsole` composes `Telemetry` with `Dashboard`, `MCPlayground` composes `Playground` with
`Streams`.  Their halves share no variable (what the tables do to a page is `Dashboard`'s
own `Other`), so a behaviour is of one part, chosen at its start, while the other stands
still: the product of the two would add states and no behaviour.  The other `MC*` modules
only name the model values.

## 4 Runs

### 4.1 Runs that must hold

| run | instance | distinct states | shows |
|---|---|---|---|
| `registry_default` | SQLite + filesystem; 3 creates, 2 keys, 1 workspace, 2 mishaps | 666 (symmetry) | acknowledged versions are served, a create fails only on a fault, and the write path implements `VersionStore` |
| `registry_networked` | PostgreSQL + S3; 2 creates, 1 key, 2 workspaces, 2 overlapping job runs, 1 mishap | 103 k | no active row without its object; every pending row is activated or removed in the end |
| `prompt_serving` | 2 versions, 3 creates, two of one version, of which 2 overlap, 1 reader, 1 fault, local and networked | 381 k | acknowledged versions found unless all are reset, freshness, healing |
| `github_driver` | 2 creates of 1 version, 1 sync, 2 attempts, 2 faults | 341 k | acknowledged once, kept, reaches the clone |
| `pg_pool` | 3 calls of up to 2 statements, 2 clients | 171 k | no leak, the one way to block, termination otherwise |
| `audit_queue` | 3 entries, buffer of 2, 2 flushes, 2 signals, 1 fault, SQLite, SQLite with a networked driver, PostgreSQL | 64 k | nothing vanishes but with a rollback, nothing twice, drained, persisted |
| `rate_limit` | 3 requests of 2 checks, limit 2, 3 ticks, 1 fault, all databases, with Redis that comes or goes twice and without | 2.4 M (symmetry) | limit of each counter, no early refusal |
| `experiments` | 1 test of any two of 2 versions, 3 requests, 2 seconds, 1 fault, both databases | 709 k (symmetry) | what is promoted won; all or nothing on SQLite; no orphan results |
| `playground` | server: 3 requests of both kinds, budget 2; panel: 3 tokens, 2 streams, both kinds of provider | 214 k | bounded overspend, right charges, calls end; output in order and as far as it came, a run ends |
| `boot` | a compiled server and a compiled script, both databases, from migration 0, 15 and 20, 1 crash, 1 write | 55 k | no row lost, the record is true, the backfill spares promotions, servers listen |
| `console` | records: 2 clients, 2 workspaces, 1 trace id, 4 requests, pages of 1 score (the most that is granted) and of 2, 1 fault, 3 seconds, all scenes, both databases; pages: all areas, pages of 1 row, 2 rows, 3 moves, 1 call, 1 other user, 1 lost answer or session | 2.6 M (symmetry) | no orphans, datasets whole, walks complete, stamps fresh; confirmed changes shown, nobody stranded |

Why the bounds are enough for the cases that matter: three creates on two keys give a
call that overlaps a rival on its key and a bystander; two job runs are the overlap that
`setInterval` permits; two creates of one version under way are what resets a row, and a
third, of another version, is one that stays; three ticks, two in the first window and one in
the second, let a check start in one window and end in the next, and two switches let Redis
go and come back within a window; two clients and three calls give exhaustion with a waiter;
two entries fill the buffer, in a promotion's transaction too, and the third arrives during
the flush; a budget of two with
three requests gives requests that pass the check together and one that is refused; two
attempts contain one retry; three requests on one test give a promotion between two runs,
or a run and a promotion that a deletion overtakes, and two seconds give results that are
tied in time and results that are not.  For `boot`, two programs and one crash give both a
program that runs a half-done migration again and one that overtakes the other; `Together`
lets two programs race over the last five migrations, those with the rebuilds.  For the
records, four requests contain a creation, a deletion of it, a second creation under the
same id and a child that was checked in between; walks of one, two and three rows over two
scores and an insert have a page that ends between two scores of one second and one that
the cap cuts.  For the pages, one row per page makes the second row a second page; three
moves open a page, select and press; and one mutation with one foreign change gives an
answer that is older than what it confirms.  A line of two halves and a line feed can be
cut within a chunk and between them; two streams give an answer that comes after another.
Faults are bounded because each property needs one or two to be at risk.  Symmetry is
used in safety runs only, over values that no action tells apart.

What some properties leave to a condition, and why:

* `AckedIsServed`, `FailsOnlyOnFault` and the refinement are checked for the default
  deployment.  PostgreSQL and S3 do not keep them: the rollback is ineffective there and
  rivals interleave.  What that deployment keeps is `ActiveHasContent` and `PendingHeals`.
* `AckedIsFound` excepts, on the networked deployment, a read during which overlapping creates
  have *every* acknowledged version pending: the membership check needs one active row.  Each
  of them activates its row again or fails, and a failure is excepted anyway.
* `WindowLimit` claims the limit of each counter: Redis's, and the row's on SQLite (not on
  `shared`, where a check during another's transaction admits, nor on PostgreSQL, where two
  checks may both reset the row).  The window as a whole keeps it while Redis neither comes
  nor goes, and at most twice the limit otherwise.  `NoPrematureReject` speaks of the counter
  that was asked, PostgreSQL's apart.  Both speak of checks, not of requests: see 1.2.
* `NothingVanishes` excepts entries whose row joined a transaction that was rolled back
  (`undone`), and says when that may be: with a networked driver on SQLite, or on SQLite after
  a failing COMMIT or a kill.  `EventuallyPersisted` excepts the same entries.
* `CacheIsFresh` is for the local deployment; for the networked one, where a fill may race
  an invalidation, `StalenessHeals` says it does not last.
* `PromotionIsWhole` is for SQLite.  On PostgreSQL the statements of `promoteWinner`
  commit one by one: a failure leaves the pointer without the record, and a promotion that
  found no active row may be recorded.  `PromotedWon` and `NoOrphanResult` hold on both.
* `ExactlyOnce` and `GracefulExitDrains` are for SQLite.  On PostgreSQL an insert whose
  answer is lost is repeated, and the batch of a flush under way is lost at exit.  With a
  networked driver on SQLite the exit leaves behind what went with a transaction, the
  inserts of the shutdown's own flush included, which `closeDb()` rolls back.
* `SpanInItsWorkspace` excepts, on PostgreSQL, ids a deletion has begun on: a trace deleted
  between `createSpan`'s check and its insert, and created again by another workspace under
  the same id, gets the span.
* `WalkSeesEach` claims each score once for the cursor; for page numbers at least once, on
  the backend where count and page are one turn, and for limits `parsePagination` grants:
  the service takes a limit that the offset was not computed with
  (`compliance.service.ts:122`), so limits of 101 to 200 skip rows.
* `LastUsedLags` is for SQLite: on PostgreSQL an older request's stamp may come last.
* `RecordedIsApplied` is, on SQLite, for programs that start one after the other; two that
  migrate at once can rebuild a table that the other has already rebuilt.  `BootsInTheEnd`
  excepts that overlap too, and a crash inside a migration that cannot run again: a plain
  `ADD COLUMN` fails on the column it added, and boot fails until someone repairs the table.
  `BackfillSparesPromotions` excepts two programs that boot together.
* `ConfirmedIsShown` excepts forms, which invalidate nothing, queries that were
  invalidated during a fetch that the library does not restart, and, until it is fetched
  again, the detail of a row that was not the open one when its change was answered
  (`missed`): the page invalidates the detail of whichever row is open then.  The list is
  claimed in that case too.  `NotStranded` excepts the runs and traces pages.
* `CleanRunIsWhole` speaks of the tokens that the provider's stream had in whole lines, which
  is the whole answer if the stream had its `done`.  A stream that ends without one looks the
  same on screen.

### 4.2 What the documents say and the code does not

`playground_stream` (`CompletedStreamIsLogged`) is a run that must fail, and `PROJECT.json`
quotes the document under `findings`: the controller leaves its loop at the `done` chunk; the
generator returns at that `yield` and never reaches its `createLog`, so a completed stream
is never logged or charged.

The following are stated in the modules, and TLC refutes each in the instance named here;
they are in no run that is kept.

* `PromptRegistry!FailsOnlyOnFault` with `Backend = "sqlite"` and `Driver = "s3"`: the
  driver's `BEGIN` comes inside the service's on the same connection, and a single create
  without any fault is answered 500.  README.md:122 and docs/architecture.md:5 offer this
  combination.  The GitHub driver opens the same second transaction.
* `PromptServing!AckedIsAlwaysFound`, in the instance of `prompt_serving`: two creates of one
  version pass the duplicate check, the first is answered 201, the second upserts the row
  back to `pending` (`prompt.service.ts:183-194`), and a reader is told 404 although nothing
  failed (`prompt.service.ts:70-75`).
* `AuditQueue!NothingUndone`, in the instance of `audit_queue`: on SQLite with a networked
  driver `createPrompt` waits within its `BEGIN`, the timer's flush inserts on the same
  connection, and the `ROLLBACK` of the creation takes the rows.  `AuditQueue!Drained` fails
  there as well: the shutdown flushes into such a transaction and `closeDb()` ends the
  connection.  docs/CODE_REVIEW.md:376 says that the shutdown flushes the audit logs before
  exiting.
* `RateLimit!AtMostMax`, in the instance of `rate_limit`: two checks are admitted by Redis, it
  goes, and two more are admitted by the database within the same window.
  docs/architecture.md:452 documents the fallback, not that the count starts over.
* `Streams!CleanRunIsComplete`, in the instance of `playground`: the Ollama adapter
  (`ollama.adapter.ts:168-189`) ignores a line that is an error and takes any end of the body
  for the end of the answer; it yields the metrics and `done`, and the panel shows an answer
  that breaks off, with no error.
* `Dashboard!ConfirmedIsAlwaysShown`, in the instance of `console`: open a test, press Run,
  close the dialog, wait for the answer, open the test again.  `ab-tests/page.tsx:97`
  invalidated `["ab-test", null]`, so for a minute the test is shown as it was before the run.
  `Promote` on that page (`:105`) does the same.
* `PromptServing!PromotedIsServed`, in the instance of `prompt_serving`: the subquery for
  `active_version_id` (`prompt.service.ts:83`) may pick an active row without a pointer,
  although README.md:65 says it filters them.
* `Boot!SourceInstallServes`, with `Build <- FromSource`, `Programs = {s1, s2}`,
  `Servers = {s2}`, `Begun = {0}`, `Together = 0`, `MaxCrashes = 0`: `db:init` from source
  records the migrations under names that end in `.sql`, the compiled server looks for names
  that end in `.js`, finds all 25 missing, and fails at the first that cannot run twice.
* `Dashboard!DoneIsConfirmed`, in the instance of `console`: the API answers a `DELETE` with
  204 and no body, `fetchJson` (`ui/src/lib/api.ts:65`) parses it as JSON, and the page
  reports a deletion that was made as failed and does not refresh its list.

Behaviour of the dashboard and of the records that the models have and no property forbids:

* a playground page that is left during a run and returned to sends the request again and
  appends the new answer, because `isRunning` stays true in the store;
* a stalled provider stream never ends in the server, which passes no abort signal on and
  looks at its deadline only when a chunk arrives; the browser's timer ends it on screen;
* a reloaded page has no CSRF token, so mutations are refused until the next login; logging
  out leaves the query cache as it is;
* a scan does not refresh the list of prompts to review; forms refresh nothing;
* the session is created after a request to `/v1/api-keys/me`, which the API does not have;
* an evaluation result may be added to another workspace's evaluation, and blocks its deletion;
* deleting a trace leaves its runs without one (`SET NULL`).

### 4.3 Fairness

Liveness is stated only where the code drives progress, with weak fairness of that step:

* a started chain is resumed when its I/O answers (`PromptRegistry`, `AuditQueue`,
  `PgPool`, the readers of `PromptServing`): Node runs every settled promise's continuation.
  Nothing forces a create of `PromptServing`, or the one whose transaction the audit flush
  meets, to end; a promotion's chain on SQLite has nothing to wait for (`PromotionEnds`);
* `setInterval` starts the reconciliation run, the audit flush and the git sync again and
  again; time passes (`RowAges`), and Redis drops an entry at its TTL;
* the breaker's timer and its reset timer fire, an open request's next step is taken and a
  finished one is logged (`Playground`), but the *provider* is not fair: `CompletionsEnd`
  holds although it hangs.  In the panel only the browser's own timer is fair
  (`StreamTimesOut`): nothing is assumed of the network, the server or the user;
* the pool serves its queue (`PgPool`), and `CallsEnd` assumes that fewer service
  transactions are open than there are clients: `StuckNeedsAllClients` shows why;
* `GithubDriver` assumes polling (no webhook secret) and that git ends, nothing of GitHub
  or the database.  `AckedReachesClone` excepts a clone that a crash broke;
* in `Boot` a program that runs goes on, and one that is down or failed is started again.
  The latter is an assumption about whoever operates it: the repository's compose files
  have no restart policy, so `BootsInTheEnd` says that starting again is enough.

## 5 Proofs

All of them hold for every value of the constants, under the named assumptions of the
module that declares them (distinct markers, naturals, finite sets).

| theorem | statement | argument |
|---|---|---|
| `PromptRegistry_proofs!TypeCorrect` | `Spec => []TypeOK` on every backend and driver | by action |
| `NetworkedActiveHasContent` | with S3, `[]ActiveHasContent` | `ContentInv` |
| `DefaultSafety` | default deployment: `ActiveHasContent`, `PendingIsOwned`, `OneOwner`, `AckedIsServed`, `FailsOnlyOnFault` | `DefaultInv` |
| `OverlapFailsNobody` | default deployment: `FailsOnlyOnFault` | `DefaultInv` |
| `DefaultRefinement` | default deployment: `Spec => Abstract!Spec` | `DefaultInv` + step simulation |
| `GithubDriver_proofs!AckedAtMostOnce`, `RepositoryKeeps` | `AckedOnce`; `AckedStaysInRepo`, `TagNamesContent` | `RepoInv` |
| `PromptServing_proofs!AckedVersionsAreFound`, `LocalCacheIsFresh` | `AckedIsFound`; `CacheIsFresh` | `FoundInv`, `FreshInv` |
| `Database_proofs!NoClientLeaks`, `BlocksOnlyWhenExhausted` | `ClientsComeBack`; `StuckNeedsAllClients` | `IInv` |
| `RowsAreKept`, `PromotionsAreSpared`, `RecordsAreApplied` | `NoRowLost`; `BackfillSparesPromotions`; `RecordedIsApplied`, for any programs, builds and crashes | `RowInv`; `Rigid`; `AppliedInv` |
| `Experiments_proofs!OnlyWinnersArePromoted`, `ResultsHaveTests`, `PromotionsAreWhole` | `PromotedWon`; `NoOrphanResult`, on both databases; `PromotionIsWhole` | `IInv` |
| `Playground_proofs!OverspendBounded`, `ChargesAreRight` | `OverspendIsBounded`; `ChargedAsAnswered` | `IInv` |
| `Playground_proofs!TokensAreInOrder`, `CleanRunsAreWhole` (answers of any length, any cut) | `OutputInOrder`; `CleanRunIsWhole` | `StreamsInv` |
| `Middleware_proofs!EntriesStay`, `RowsAreWrittenOnce`, `ShutdownDrains` | `NothingVanishes`; `ExactlyOnce`; `GracefulExitDrains` | `IInv` |
| `WindowsKeepTheLimit`, `NobodyIsRefusedEarly` | `WindowLimit`; `NoPrematureReject` | `LimiterInv` |
| `Console_proofs!ChildrenHaveParents`, `SpansStayInTheirWorkspace` | `EveryChildHasParent`; `SpanInItsWorkspace` | `IInv` |
| `DatasetsAreWhole`, `LastUsedKeepsUp` | `DatasetIsWhole`; `LastUsedLags` | `WholeInv`, `KeyInv` |
| `WalksSeeEveryScore` (any table, page size and scans between the pages) | `WalkSeesEach` | `WalkInv` |
| `ConfirmedChangesAreShown`, `NobodyIsStranded` | `ConfirmedIsShown`; `NotStranded` | `FreshInv`, `LogsInv` |

`GithubDriver`, `PgPool`, `Playground` and `Experiments` have a `TypeCorrect` of their own,
`AuditQueue` and `RateLimit` prove their types as part of their invariant.  The runs spend their
properties on what is more than a type.  `PendingIsOwned` and `OneOwner` (in `DefaultSafety`)
and `TagNamesContent` (in `RepositoryKeeps`) are proved and in no run.

Why the invariants have to be stronger:

* `ContentInv`: that active rows have content is not preserved alone: a create between its
  write and its activation, a job that has found the content and not yet applied it, and
  the table a rollback returns to must all already be over content.
* `DefaultInv`: in the default deployment the thread belongs to the one call whose
  transaction is open and nobody else has begun (`OneChain`); what that call has done so
  far is a function of where it stands (`Progress`); the committed rows are whole
  (`CommittedIsWhole`) and contain every acknowledged call (`AckedIsCommitted`).  Nothing
  else in the system can then be between two states, and the refinement follows: only
  `Commit` changes what is published, and it publishes once.
* `RepoInv`: the chain is *a content call that returned has made the tag* and *a tag is
  made once* (`OneTagger`), so at most one call per version ever returns and only it can
  be acknowledged or revert; until the tag exists the file that was put stays
  (`PutStays`), so the commit read in between contains it.
* `PgPool!IInv`: the queue holds waiting calls once each, a call's client depends on its
  step, and clients of two calls are apart.
* `Playground!IInv`: the spend alone is not inductive; the spend together with everything
  in flight is (`Counted`), because a request that passes the check does so below the
  budget and is counted in `peak`.
* `Experiments!IInv`: the winner travels from a result row through the request that
  promotes it (`CallJustified`) to the tables (`Justified`), and a rollback brings `saved`
  back, so each of these places must claim only winners the history knows.

* `AuditQueue!IInv`: an entry is at one place at a time (`QueuedOnce`: in the buffer, in the
  rest of one batch, or in the table), which is what `Requeue` and the insert must keep,
  or its row was undone (`Accounted`); for the shutdown, on SQLite only the flush that has
  the turn holds a batch and nothing is enqueued between its `splice` and the exit
  (`OneChain`).  What may be undone follows from whose transaction can be open when
  (`OneConnection`): a creation's with a networked driver only, a promotion's never across a
  shutdown run.
* `RateLimit!LimiterInv`: the counter a check reads *is* the number of checks that it has
  admitted in its window (`RowCountsAll` on SQLite, `HitsCount` on Redis); on a connection
  shared with `createPrompt`'s transaction it may only be too low (`RowCounts`), which is why
  that store refuses nobody early and does not keep the limit.  That the window as a whole
  keeps it while Redis stays as it is comes from `Apart`: one of the two counters is then not
  in use at all.  All of it is claimed until a check first fails.
* `Telemetry!IInv`: a span about to be inserted knows its trace as the property wants it of
  the spans there are (`RequestsKnow`), a deletion under way has announced its id, and a
  trace created under an old id finds no span of the old one because every span has a
  trace: the two properties need each other.

* `PromptServing!FoundInv`: what a reader may expect was acknowledged before it came, and
  what it goes on with is stored: the version it asks for, or one that was promoted
  (`InOrder`: what is acknowledged or active is stored).  Every version that some create
  activated is active, or a create that reset it has still to activate it, until a step
  fails (`AllLive`): that
  is what leaves a membership check without a row only while all of them are reset.
  `FreshInv` adds that in the
  local deployment a request runs through: the newest row it read is at least every
  acknowledged one, and still is when it fills the cache.  That the newest exists is
  `MaxOf`, by the well-foundedness of the subsets of a finite set.
* `Experiments!OneChain`: on SQLite the request that has the turn owns the open
  transaction; what it has done so far (`SoFar`) and what a rollback brings back are each
  whole, so a promotion has its test's row, its label and its record together or not at all.
* `Telemetry!WholeInv`: a dataset counts its rows because the rows in hand of the request
  that creates it are a prefix, and no two requests create the same one.  `KeyInv`: on
  SQLite an authentication judges the row there is, so the stamp it skips was recent.
* `Telemetry!WalkInv`: a row's place is its rank, the number of rows listed before it, and
  each rank is taken once (`ListedIs`: as many rows as ranks).  With the cursor, a score of
  the first ones is seen once if the cursor has passed it and not at all otherwise
  (`SeenByCursor`), whatever is inserted, since a new score has a number above theirs.  With
  page numbers, the ranks of the pages so far have been seen (`SeenByPages`): an insertion
  moves rows towards the end only, so it repeats rows and skips none.
* `Dashboard!FreshInv`: whatever is fresh or on screen, and each answer on its way, was
  read at a revision that meets the news its page owes (`AllFresh`), but for the keys that no
  invalidation has reached (`Exempt`: overtaken by it, or of a row that was not open); news
  arrives together with the invalidation of every other key that owes it.  `RevisionsInv` keeps the
  screen and the mutations to what a page can offer.  `LogsInv`: nobody deletes a log, so
  a page that had rows keeps them.
* `Boot!RowInv`: on SQLite the four statements of a rebuild commit one by one, so the rows
  are where the next statement expects them: while a program is between the renaming and
  the drop the old table is aside and no other program rebuilds that table, and before the
  drop the rows have been copied (`RowsAt`).  That a second program fails at its own
  renaming is what keeps the first one's rows.
* `Boot!LedgerInv` is claimed while no two programs migrate together (`InStep`): the one
  that does has all that is pending, and each build records its migrations in order.  A
  build whose names end in `.sql` would run the backfill of migration 21 again after a
  `.js` build, but never comes so far: migration 2 adds a column that is there
  (`HasOptions`).  `Rigid` is `RowInv` with `LedgerInv`.
* `Boot!AppliedInv`: that recorded migrations are in the schema is not inductive.  What is
  owed is more: also each unit that a program has passed and not yet recorded (`OwedAt`),
  and, before each part of a rebuild, that the table it fills has the columns and the
  constraints that the earlier statements gave (`Ready`).  Of the drop it needs that
  nothing after the program's own migration is recorded (`RecordedBefore`).
* What a migration's script contains enters these proofs through three facts, each shown
  for all 25 scripts on both databases: the statements a migration may have (`Fits`), that
  a part of a rebuild follows the part before it (`SqliteUnits`), and that PostgreSQL's
  units only add (`PostgresUnits`).  `Outcomes` is recursive; what it yields for every unit
  follows from `Ascends`, which takes the least counterexample of an interval instead of
  an induction theorem.

* `Streams!StreamsInv`: both readers are described by what was said and how far they are
  (`Reading`): the whole lines behind them and the pieces they hold of the next.  The
  screen is then a function of the panel's place (`Delivery`), what is written one of the
  adapter's (`Supply`), and the two meet in the adapter's count, which is what the metrics
  report; what follows the last token is one of `Tails`, and all of them end in the same
  metrics and `done`.  That a cut keeps the beginning of a line and gives each whole line once is
  `CutLines`; `Cut` and `OfType` are recursive, and `Ascends` serves here too.

Every invariant and every safety property that a run checks has its theorem.  Only
model-checked: the liveness properties, since fairness and `ENABLED` are beyond the proof
system's backends.

## 6 What is not covered

* Metrics (read-only SQL aggregates) and the list and search queries: they change nothing,
  and what they may see between two writes is what the writers' models contain.  Lists that
  order by `created_at` alone have no tie-break.
* Pure functions: the scoring of a text, the A/B statistics, the rule engine, template
  rendering, the translation of provider requests and errors.  A run needs only what they
  may answer.
* Command line, scripts and client libraries: each command is one request.
* In the dashboard: variable sets, the evaluation tab, the model selector, charts, markup.
  `CompliancePageInner.tsx` is imported by no page.
* The models cache of `listModels`.
* Contents, names, wording, validation, rendering, headers, logging.  The order of version
  tags is the drivers' own and differs between them (largest string in the filesystem,
  first key in S3, numeric in GitHub); it is a fixed order in the models.
* Several server processes over one database, except as overlapping job runs.
* Disk failure and database corruption; a database that loses a committed write.
* On SQLite with a networked driver, other writes than the audit log's that join
  `createPrompt`'s transaction and go with it: the `logs` row a budget check counts, the stamp
  of an API key, a row of telemetry.  `PromptRegistry` and `AuditQueue` have that transaction;
  `Playground`, `Telemetry` and `Experiments` do not.
* In `PromptServing`: the reconciliation job (see `PromptRegistry`, `GithubDriver`).
  `StalenessHeals` is about Redis; an entry that the LRU got during an outage, and that a
  later miss in Redis still finds, is in the model and no property forbids it.
* A job run that deletes a row which became active after its lookup (`PromptRegistry` allows
  it, and no kept property forbids it on the networked deployment).
* In `GithubDriver`: that a late PUT overwrites an acknowledged file's content; only that the
  file is there is claimed.
* A pipeline that the Redis client sends again after a lost connection, which counts a check
  twice.
* A create in a second workspace: the duplicate check looks at the caller's workspace, the
  upsert conflicts on name and version alone, so it takes an acknowledged version's row
  and content over.  `AckedIsServed` is checked with one workspace for that reason.
* Tests linked to an evaluation without a `version_tag`: `HasScores` shows that the query
  compares `NULL` with each version and finds no score, so such a test never completes
  (README.md:66 says they were fixed); no property depends on it.
* Labels of a second workspace, whose upsert would meet the first one's row
  (`label.service.ts:62`).
* Indexes in `Migrations`, and `down()`, which no program calls.
* A failed create may leave a file that unversioned reads list as the latest, if no active
  row of that version exists: allowed by the models, forbidden by no property.
* The content of a version changing upstream (a commit made by hand): the cache has no
  invalidation for it.
