# NETvRF: verification of the music catalogue service

TLA+ models of the service in `src/app`: a FastAPI process that searches two
music platforms, links what they return to canonical entities, and refreshes
those entities by background jobs. The models are checked by TLC on small
instances, and all of their safety and action properties, with the refinements of
the two abstract modules, are proved by TLAPS for every instance. Liveness stays
with TLC.

## The system

| Component | Code | State it keeps | Operations | Model |
| --- | --- | --- | --- | --- |
| Sync enqueue | `services/sync_service.py:58-91`, `tasks/queue.py`, `api/routes/sync.py` | rows of `sync_jobs`; identifiers in the RQ queue (Redis) | `POST /sync/{kind}/{id}` | `SyncJobs` |
| Sync execution | `services/sync_service.py:99-267`, `tasks/sync_jobs.py`, `tasks/worker.py` | the same rows; platform rows; RQ's failed registry | `run_sync_job`, RQ redelivery | `SyncJobs` |
| Job status | `services/sync_service.py:93-97`, `api/routes/jobs.py` | none (reads a row) | `GET /jobs/{id}` | the rows of `SyncJobs` |
| Job rows | `db/repositories/sync_jobs.py`, `db/models/jobs.py` | status, attempts, result, error | create, mark_started, mark_finished, mark_failed | `JobLifecycle` |
| Search and its cache | `services/search_service.py:70-159`, `db/repositories/search_cache.py` | rows of `search_cache` | `GET /search`: hit, stale hit, miss | `SearchCache` |
| Provider fan-out | `services/search_service.py:161-232`, `providers/*/client.py` (search) | threads of one search | requests, retries, timeouts, late answers | `ProviderFanOut` |
| Matching | `services/matching_service.py`, `utils/scoring.py`, `services/search_service.py:234-334` | none (pure) | score, decide, merge, rank | `Scoring`, `Matching` |
| Linking | `services/link_service.py`, `db/models/{links,platform,canonical}.py` | platform rows, canonical rows, links | `persist_match`, `persist_platform_entity` | `Linking`, implementing `Catalogue` |
| Entity details | `services/{artist,release,track}_service.py` | none (reads) | `GET /artists/{id}`, `/releases/{id}`, `/tracks/{id}` | `EntityDetails` |
| Rate limiting | `utils/rate_limit.py`, `api/deps.py:196-239` | Redis counters | `allow` | `RateLimiter` |
| HTTP front | `main.py`, `api/deps.py`, `api/routes`, `core/exceptions.py`, `services/health_service.py` | none | limit, validate, serve, turn exceptions into answers, `/health` | `HttpFront` |
| Web pages | `web/routes.py`, `web/render.py` | what a browser shows | forms, redirects, the reloading job page | `HttpFront`, `JobPage` |
| Migrations, string normalisation, settings, logging, search refresh job | see "Not modelled" | | | |

How they interact. A POST writes a row in the database and pushes its identifier
to Redis; no transaction spans the two. A worker pops the identifier, reads the
row, and writes it and the platform rows. The two processes meet only through
committed rows and the queue. A search asks the providers in threads of its own,
matches what they list, writes platform rows, canonical rows and links, and last
its cache row, all in one transaction; a sync later refreshes the platform rows
that its target is linked to. Pages read what is committed. The limiter and the
queue are the only users of Redis. Nothing in the application deletes rows.

Database sessions are created with `autoflush=False, expire_on_commit=False`
(`db/session.py:50-57`): a loaded row is a snapshot that is never read again in
the same session, and an UPDATE writes what the session believes changed.

How the modules divide the system. Each takes from its neighbours only what
crosses the boundary, and names it:

| From | To | What crosses |
| --- | --- | --- |
| `ProviderFanOut` | `SearchCache!Fetch` | a response, partial if and only if `missing` is not empty |
| `Scoring` | `Matching` | the score of a pair, whether its versions conflict, the ratio of the names |
| `Matching` | `Linking!Merge`, `PersistMatch`, `PersistEntity` | which rows are listed, and any pairing that uses each right row once |
| `Linking` | `EntityDetails` (EXTENDS) | committed rows and links |
| `Linking` | `SyncJobs!FindLinks` | any set of links may be found |
| `SyncJobs` | `JobPage` (EXTENDS) | committed job rows |
| `RateLimiter`, `SearchCache`, `SyncJobs`, `Linking` | `HttpFront` | which of their outcomes an answer can have |

### Hard behaviours and what makes each component correct

* **Sync.** Lookup and insert are two steps (duplicates); the push precedes the
  commit (a worker can be faster than the row); a push may succeed although its
  reply is lost; a worker may die, or lose its session to a database error, after
  it committed `started`; RQ may deliver a job again, and may interrupt an execution
  even after it committed its verdict. Correct means: one executor per job, no
  active row that nobody will settle, verdicts that become visible with the data
  they report and on the page that waits, and that stand once their execution has
  returned.
* **Search cache.** The entry read at the start of a search is overwritten at its
  end from a stale snapshot; two cold misses collide on the unique key; a slow
  search may put an older answer over a newer one; hit counts are lost updates; a
  search may commit and never answer. Correct means: what is served is as recent as
  it claims, and was committed by a search that obtained it.
* **Fan-out.** Timeouts race late answers; the executor's `with` block waits for
  threads that the deadline gave up; a time-out bounds one operation of a request and
  not the request; an error after two of three requests throws the first two answers
  away. Correct means: every platform is either used or called missing, a result is
  of one whole attempt made in time, and the answer comes within a bound that grows
  only with the operations of one given-up thread.
* **Matching.** The merge is greedy in the order of the list; unknown years,
  counts, durations and albums score as something; names in other scripts
  normalise to nothing; an item may be listed twice and kinds may share an id.
  Correct means: no hit is lost, nothing but an earlier hit keeps a pair apart,
  and a match without doubt has no rival and does not rest on what is not known.
* **Linking.** Two searches may look for the links of one pair before either
  commits, and no constraint forbids the second canonical row: only the row locks
  that the upserts before happen to take. A pair whose rows already belong to
  different canonical rows gives the right one a second. Lock orders differ, so
  searches and syncs deadlock. Correct means: however sessions overlap and fail,
  the canonical layer changes as whole searches would change it one by one.
* **Entity pages.** One SELECT each for links and rows, at READ COMMITTED.
  Correct means: a page is never partial and shows what stays true.
* **Rate limiting.** Buckets follow the clock but a key lives from its first
  call, INCR and EXPIRE are two commands, and Redis failures fail open. Correct
  means: no running window lets more than the limit through, and nobody is
  refused for calls of another window.
* **HTTP front.** PostgreSQL and Redis come and go within a request, and so do the
  free connections of the pool that all requests share, which a search holds while
  it waits for providers; rendering and validation are two pieces of code. Correct
  means: `/health` reports what was, an outage of Redis is an error to nobody and
  refuses only syncs, and a form offers what its route takes.

## Plan and what is left

The plan was to model the sync subsystem first, because its failures stay in the
database, then the cache, the limiter, the fan-out, linking with its pages,
matching, and the front; to state what a component promises as an abstract
module where others rely on it (`JobLifecycle`, `Catalogue`); and to prove the
safety properties of each. All of that is done. What could still be added:

* a theorem that says exactly when a reused job is alive: `syncjobs_dead_job` shows
  that it may not be, and the proof of `ActiveBacked` has what is needed to state
  for which schedules and faults it is;
* a safety property of `JobPage`, whose one property so far is that the verdict is
  shown in the end;
* what the models leave out today: the search refresh job once it has an
  implementation, and the provider lookups once they are more than stubs.

## Modules

### JobLifecycle (abstract)

What a client polling one job may see: absent, then queued or failed; started any
number of times, each counted in `attempts`; settled from started, and never started
again. `finished` may still be revoked (`Revoke`: the handler of `execute`, see
below), `failed` is final. One action per writing operation of `SyncJobRepository`.

### SyncJobs (detailed)

One process per POST and one per worker; a job is named after the request that
creates it. The state and the code:

| Variable | Stands for |
| --- | --- |
| `req[r]` | where the request is in `SyncService.enqueue`, its target, and the job of its answer |
| `row[j]` | the *committed* row of `sync_jobs`: status, attempts, `error_json.reason`, the providers listed as updated and `partial` of `result_json` |
| `born` | `created_at`, as a rank: `get_active_for_target` returns the newest active row |
| `queue`, `failedRegistry` | RQ's queue and FailedJobRegistry in Redis |
| `worker[w]` | the job a worker holds, its step in `execute`, the `attempts` it loaded, the links still to do, the current one and its attempt, the links whose platform rows it flushed (`flushed`), counted as updated (`updated`) and gave up (`missed`) |
| `refreshed[j]` | history: platform rows committed on behalf of `j` |
| `faults` | failures injected so far, at most `MaxFaults` |

An uncommitted insert is not in `row`: nobody else can read it. What a worker has
flushed and not committed is in `worker[w].flushed` only.

| Action | Code |
| --- | --- |
| `RefuseUnknownTarget`, `ReuseActiveJob`, `MissActiveJob` | `enqueue` 59-66: 404, 202 with the newest active row, or go on |
| `CreateJob` | 68-73, the flushed INSERT |
| `Schedule`, `ScheduleFails` | 77-80 and `RQSyncJobScheduler.schedule`: pushed; or an exception, after which the push may or may not have happened, and `None` |
| `CommitJob`, `CommitRefusal` | 89-91, and 81-87 with the 503 |
| `AbortRequest` | the process dies or a statement fails before COMMIT: the session is closed, the push stays |
| `Dequeue`, `Ack`, `Requeue` | RQ (external): FIFO delivery, normal end, operator requeue |
| `LoadMissing`, `LoadSettled`, `LoadActive` | `execute` 100-104 |
| `MarkStarted` | 106-107, `attempts` from the loaded row |
| `FindNoLinks`, `FindLinks` | 109-116; links are written by other components, so any set may be found |
| `TakeLink`, `FetchOk`, `FetchRetry`, `GiveUp`, `Persist` | 120-152 with `_fetch_provider_entity` and `_call_with_timeout`; a timeout is a failed attempt, its late answer is dropped; the order of the links is not specified by the relationship |
| `PersistInterrupted` | 121-152: RQ's JobTimeoutException after the flush of a link and inside its `try`: the link is recorded as failed although its row is flushed, counted or not |
| `SettleRefresh` | 154-176, with `Verdict`, `Finished` and `Failed` as `mark_finished` and `mark_failed` leave the row; the worker is then at `answer`, still inside the `try` |
| `ExecutionFails` | the handler, 177-186, with a usable session, for instance after RQ's JobTimeoutException: between two links, between a flushed verdict and its COMMIT (`Interrupted`), or after the COMMIT, before `execute` has returned |
| `LoseExecution` | the worker dies, or a flush error deactivates the session so that the handler raises too: rollback, failed registry |

Points that are easy to miss in the code and that the model depends on:

* A failed flush inside the per-provider `try` (121) is *not* one failed provider.
  It rolls the transaction back and expires the loaded row; the handler's first
  access to `sync_job.kind` raises again, and so does `mark_failed` in the outer
  handler. The execution is lost with what it had flushed, the row stays `started`.
* `ExecutionFails` commits what was flushed before it, and so does the verdict after a
  `PersistInterrupted`: `sync_execution_failed` and `provider_refresh_failed` are the
  verdicts of a failed job that may leave refreshed platform rows.
* The `try` of `execute` (108-176) encloses the `return` that follows each COMMIT of a
  verdict (115, 162, 175). An exception that arrives there makes the handler mark a
  settled row failed and commit it: `finished` becomes `failed`, and the row keeps
  its `result_json` beside the new `error_json`, for `update_status` leaves alone
  what it is given no value for. The window closes when `execute` returns (`Ack`).
* An API request that dies between its COMMIT (90) and the 202 is not told apart from
  one whose 202 was lost on the way: no property depends on the client having read it.

Bounded or abstracted: payloads, timestamps and messages are left out; provider
clients are reduced to answer, error or timeout (the shipped clients raise
`NotImplementedError` in `get_artist`, `get_release` and `get_track`, so in
production today every fetch takes the failure branch); `kind` and `target_id`
form one target; the branch of `enqueue` without a scheduler is unreachable
because `api/deps.py` always provides one. The database is taken as READ
COMMITTED with one transaction per commit; SQLite allows fewer interleavings
(one writer), whose lock timeouts are database errors. Redis is taken as durable
and RQ's delivery as working; the development compose file runs Redis without
persistence, and a Redis restart there loses tokens, which no model covers.

### JobPage (extends SyncJobs)

Browsers on top of the jobs. `page[r]` is what the browser that sent request `r`
shows. `LoadPage` is the redirect of a 303 (`web/routes.py`) and the reload after
three seconds (`web/render.py`, as long as the status shown is not a verdict);
`LoadFails` is an error page, which nothing reloads. The page stops reloading at the
first verdict it sees; one that shows `finished` keeps it when the handler of
`execute` revokes that verdict, and `VerdictShown` says so.

### MCSyncJobs

Instances of both. `Environments` says in which surroundings a run explores the
system: "any"; "serial", in which one request per target is inside `enqueue` at a
time; "operators", who requeue what failed. Requests and workers are
interchangeable and used as symmetry sets in the run without liveness properties.

### SearchCache

One process per search of one cache key (different keys share nothing). A search
carries `now`, taken before its lookup, the snapshot `seen` that its session
holds, and the response it `found`.

| Variable | Stands for |
| --- | --- |
| `clock` | time in coarse ticks; two searches of one tick still have different times |
| `configured` | whether the process has a provider token |
| `row` | the committed row of `search_cache`: response, `is_partial`, `hit_count`, `last_refreshed_at`; `stored` is history |
| `search[s]` | where search `s` is, its `now`, its snapshot, its response |

| Action | Code |
| --- | --- |
| `Begin` | `search` 77-86 |
| `LookupHit`, `LookupMiss`, `Unavailable` | 88-89, 115-119: not expired; nothing usable; nobody to ask, 503 |
| `CommitHit` | 90-103 with `mark_hit`: the snapshot's count plus one, committed |
| `Fetch` | 121: the fan-out ends with some version, partial or not |
| `Reload` | `upsert` 33: a session that holds the row keeps what it loaded |
| `Insert`, `InsertConflict` | `upsert` 34-46 and the flush: created, or `IntegrityError` |
| `Update` | `upsert` 47-57 and the COMMIT of 133: the columns that differ from the snapshot |
| `Answer` | 104-113 and 134-146: the 200 is built and sent after the COMMIT |
| `Fail`, `Restart` | a 500 or the end of the process, at any step: what is not committed is rolled back, and a search whose COMMIT is done (`counted`, `written`) leaves a hit or an entry for which nobody got an answer (`hit_lost`, `write_lost`) |

`Column` is the rule that everything turns on: SQLAlchemy compares an assigned
value with the one it loaded, and leaves the column out of the UPDATE when they
are equal. Flush and commit are one step, since the row is locked between them; commit
and answer are two.
Responses are reduced to a version and the partial flag. The refresh scheduler
that `api/deps.py` provides is a no-op, so a stale hit schedules nothing and
`refresh_queued` is always false.

### RateLimiter

One client address in one namespace (other keys share nothing).

| Variable | Stands for |
| --- | --- |
| `counter`, `deadline` | Redis: the value and the expiry of each bucket's key |
| `call[c]` | where call `c` is in `allow`, when it began, its bucket, its count |

`Begin` is 25-26, `Incr` 29, `Expire` 30-31 and the verdict of 36; `IncrFails` and
`ExpireFails` are 32-34, after which the command may or may not have been executed;
`Crash` is the end of the process; `Tick` lets Redis drop what has expired. A call
may be slower than its window. Redis and the API are taken to have one clock, and
Redis to lose no data. Calls that fail open are not counted against the limit, and
a fixed window lets up to twice the limit through around a boundary: both are the
design, and no property forbids them.

### ProviderFanOut

One live search. Time is counted from its beginning, and passes only when
nothing is due: steps of the program take none.

| Variable | Stands for |
| --- | --- |
| `now` | the time since the fan-out began |
| `configured` | the providers that have a token |
| `phase` | the search waits for all, joins those it gave up, or has answered |
| `call[p]` | the thread of a provider: its attempt, the requests answered in it, its hits with, as history, the attempt that found them, the time of its last step and, as history, the operations its requests took beyond one each (`more`) |
| `results`, `missing` | the platforms used and the platforms called missing |

| Action | Code |
| --- | --- |
| `Start`, `RequestFails`, `Retry` | `_search_provider_with_retries` 211-232: an attempt, an error, the pause, the last error raised |
| `Reply` | one request of `client.search`, item by item: what has no title or no usable id is dropped; after the last kind, the hits are cut at the limit |
| `CollectAll` | `wait` returns with every future done; a future that raised is missing |
| `GiveUp`, `Join` | `wait` returns at the deadline: what is not done is missing and cancelled if it has not begun; then the executor's block waits for the threads that run |
| `Trickle`, `Hang` | `_get_json`: an operation of a request ends in time and another follows; or they follow each other for ever |
| `Tick` | time passes |

`urlopen`'s timeout bounds each operation that blocks (a connection attempt, each read
of the response), and the resolver bounds the name lookup: that is `OpTimeout`, taken
as one value for all of them. Nothing bounds the request, which is why a provider may
`Trickle`, and `Hang` for good. A thread that hangs when the search gives it up holds
the search in the executor's `with` block: the search then never answers. While it
waits for hung threads only, time is no longer counted, for nothing depends on it.
The two clients differ in what they keep of a list:
YouTube search items need an id of the kind asked for, Yandex items any id.

### Scoring

Operators only. Scores are ten-thousandths, as `rounded()` leaves them. A normal
form is the set of its tokens, and `SequenceMatcher`'s ratio any value that the
two sets allow. Where rounding to four digits is a tie, binary fractions decide,
so an operator returns the *set* of values that the code can compute: `Outcomes`
is what a pair may come to. The weights, steps and penalties are those of
`matching_service.py`; `Generated` is the candidate filter, whose pairs are
dropped without a score.

### Matching

| Variable | Stands for |
| --- | --- |
| `youtube`, `yandex` | the hits of the platforms, by kind, in the order listed |
| `alike` | what the scorer says of each pair: one of its outcomes, the same each time it is asked |
| `kind`, `merged` | the kind in turn, and how many of its hits are merged |
| `used` | `used_right_ids` of that kind |
| `items`, `answer` | `merged_results`, and the items ranked |

`MatchNone` and `MatchBest` are the loop of `_merge_kind_results` over the left hits
with `MatchingService._match` (candidates at or above the threshold, stable sort, gap
to the runner-up, conflict); `LeaveOver` the right hits that nobody took; `NextKind`
the next of the three merges; `Answer` the stable `sorted` of 259-262: an item's place
is the number of items before it by decision, then score, then position (`Ahead`).
`OneEntityPerId` says what the search relies on when it looks the entity of a match up
by its `provider_id` (284-288): of one kind, a platform lists an id with one entity
only. Where the gap is exactly the threshold, binary fractions decide. `YoutubeEntity`
says what that client's mappers can fill in: of a video neither duration nor album, of
a playlist no track count, one artist at most.

### Catalogue (abstract)

What a search promises of the canonical layer: its matches take effect all at
once, each as if nobody else were around. A match uses the canonical row of its
left row, else one of its right row, else a new one (`Targets`), and finds what the
matches before it have left (`InTurn`). No right row is matched twice in one search.

### Linking (detailed)

One process per database session: searches, and syncs of the worker.

| Variable | Stands for |
| --- | --- |
| `canon`, `links`, `rows` | committed canonical rows, links, platform rows |
| `pc[s]`, `todo[s]`, `pair[s]`, `cur[s]`, `target[s]` | where a session is: what it still has to persist, its match, its row, the canonical row of the match |
| `held[s]`, `new[s]`, `made[s]` | what it has flushed and not committed; `held` is also what it has locked |

| Action | Code |
| --- | --- |
| `Merge`, `Refresh` | a search has matched what was listed; a worker has loaded the rows of a target |
| `PersistMatch`, `PersistEntity`, `SkipEntity` | the next call of the merge or of the worker's loop; a left row that is listed twice may match twice |
| `Look`, `Update`, `Insert`, `InsertConflict` | `_upsert_platform_*`: SELECT, then UPDATE or INSERT and flush; the row is locked from then on, and a row that others hold is waited for |
| `ResolveLeft`, `ResolveRight`, `CreateCanonical`, `UpsertLinks` | `persist_match`: the left row's canonical row, the right row's, a new one; both links |
| `Commit`, `Fail`, `Deadlock` | the session ends: committed, rolled back by an error, aborted by PostgreSQL because it waits in a cycle |

The upsert always assigns `fetched_at`, so it always issues an UPDATE, and so it
always locks. The uniqueness of left links rests on nothing else: take the write
away (`MutUpdateNothing`) and two searches give one row two canonical rows.

Abstracted: the three kinds have the same code over tables of their own, and one is
modelled; scores, names and payloads of rows are left out. SELECTs see what is
committed and what the session flushed (READ COMMITTED, the isolation PostgreSQL
has by default and that nothing changes).

### EntityDetails (extends Linking)

`page` is one request for an entity's page: `GetModel` and `NotFound` load the row,
`Load` is one of the SELECTs that follow (links, then platform rows, with others
before them), `BuildPlatformMap` picks a row per platform. Between any two of them
searches may commit.

### HttpFront

One request at a time, from the middleware to its answer, while the database and
Redis come and go (`Outage`), and with them `pool`: whether the connection pool has a
connection to give before its time-out. Requests share that pool (5 + 10 connections
by default, `db/session.py:41-47`), endpoints run in forty threads, and a search keeps
its connection from the lookup (88) to the COMMIT (133), across the provider calls;
what the others do to the request followed is that the last connection goes or one
comes back. A statement needs the database and a connection (`Reachable`): without
either it is a 500, and `/health`, which turns every `SQLAlchemyError` into an
error, says 503 (`CheckDatabase`). `Receive`, `Limit`, `Validate` are what happens to
every request; `ServeSearch`, `ServeUi`, `ServeDetail`, `ServeSync` reduce the
endpoints to the outcomes that the other modules find; `CheckDatabase` and
`CheckRedis` are the two probes of `/health`. Parameters are classes that their
validation tells apart, and `Request` contains what the program's own forms
submit. `wasUp` and `wasDown` are history, and so is `response.failed`: a statement
failed although the database was reached.

### MCSearchCache, MCRateLimiter, MCProviderFanOut, MCMatching, MCLinking

Instances for TLC. `MCSearchCache` explores searches that overlap and searches one
after the other in one run. `MCMatching` has two families of worlds: every pair of
entities alone in its search (`Pairs`), and crowds of repeated and interchangeable
releases with a track whose id is that of a release (`Crowds`). `MCLinking` has
four scenarios: two searches that list the same new rows; a history of matches
that contradict each other; pages read while two searches commit; and the worker
against a search, with fairness. It numbers new canonical rows in ascending order
and lets the first of two interchangeable idle searches begin, which removes
duplicates of behaviours and no behaviour; and a left row is listed again only in
the scenario where there is a second right row for it to match.

`Mut...` definitions, in every module, are the mutants of `PROJECT.json`: each is a
definition changed as a plausible bug would change it, and each makes one
property fail.

## Runs

Twelve runs, one for each question.

| Run | Instance | What it shows |
| --- | --- | --- |
| `syncjobs_safety` | 3 requests, 2 workers, 2 targets (1 known), 2 links (1 configured), 2 attempts, 1 fault; "any" and "serial" | all safety properties of jobs, `VerdictStands`, the refinement of `JobLifecycle`; one active job per target where requests for it do not overlap |
| `syncjobs_liveness` | 2 requests, 2 workers, 1 link, 2 attempts, 1 fault, 1 browser; "any" and "operators" | accepted jobs are settled or visibly failed, settled where operators requeue; executions end; the job page comes to show the verdict |
| `syncjobs_duplicate` | violation | two overlapping POSTs make two active jobs |
| `syncjobs_dead_job` | violation, no fault injected | a 202 reuses a job that nothing will run |
| `searchcache` | 3 searches, 2 versions, StaleAfter 1, Ttl 2, times 0 to 3, overlapping and serial | recency of what is served, entries that were committed by who obtained them, lost insert races, counts; one after the other, the entry is the last live answer |
| `searchcache_torn` | violation, 2 ticks | overlapping live searches mix their columns |
| `ratelimiter` | 4 calls, limit 2, window 2, 4 ticks | the window bound, deserved refusals, leaked keys |
| `fanout` | 2 kinds, limit 2, 2 attempts, OpTimeout 2, Backoff 1, Deadline 3, MaxMore 1 | when the answer comes, what it uses, what it calls missing, and that it comes unless a given-up provider hangs |
| `matching` | the worlds of `MCMatching`; thresholds 3500, 6000, 8800, gap 500 | no hit lost, only earlier hits take, no rival, twins match, certainty is earned |
| `linking` | 2 left and 2 right rows, 2 ids, 2 searches, 1 sync, in four scenarios | links, canonical rows and pages are whole; the refinement of `Catalogue`; sessions end |
| `http_front` | every route and class of parameters; database, pool and Redis come and go | `/health` is true, an outage of Redis alone refuses only syncs and is reported |
| `http_form` | violation | the search form submits what its route rejects |

Bounds of the sync runs. Two requests are needed for a race on one target and the
third observes its result; two workers for a double execution; two links for a
partial result and one of them without a provider for `GiveUp` without an attempt;
two attempts for one retry. One fault reaches each failure point; operators may
requeue any number of times, so one fault already gives redelivery of settled,
started and queued jobs, and the one fault that revokes a verdict. The theorems below
remove these bounds for the safety part.

Bounds of the cache and limiter runs. Three searches are one that creates the entry
and two that meet on it, or an overlap and the search that sees its result; the
times 0 to 3 let an entry be fresh, stale, expired and refreshed. The serial mode assumes
that searches for one key do not overlap, which the code does not ensure: it shows
what each search does by itself, and `searchcache_torn` what overlap takes away.
Four calls fill one window and enter the next with a limit of two; four ticks are
two windows and the beginning of a third, so late calls and keys that outlive
their window happen.

Bounds of the fan-out. Two kinds and a limit of two make truncation and a failure
after the first request; two attempts one retry; with a deadline of three and a
time-out of two the deadline falls before, within and after every attempt. `MaxMore`
bounds the operations of a thread beyond one for each request: one is enough for a
request that outlasts `OpTimeout`, `Hang` stands for those without end, and the
theorem holds for any bound. Time is finite because the answer is bounded, which
`AnswerInTime` itself shows.

Bounds of matching. The token sets of `MCMatching` overlap wholly, by four fifths,
by less and not at all, one is empty; years are equal, near and unknown; three
right hits are a match, its rival and a repetition. The thresholds are the
defaults of `core/config.py` in ten-thousandths. Durations are left to the proofs:
the YouTube client lists none.

Bounds of linking. Two left and two right rows are the smallest history in which
both rows of a pair already have different canonical rows; two ids then are
enough, for a third is created only by a third pair. Two searches race; the
worker adds the other lock order.

`CHECK_DEADLOCK FALSE` stands where the system may stop: all requests answered and
the queue empty, all searches or calls done, the answer given. In `linking` and in
the front something can always happen, and the check is on.

Fairness.

* `ProcessFairness` (sync) is weak fairness of every request handler once it is
  past its lookup, and of every worker's steps: the operating system schedules
  them and every provider call returns or is given up (`_call_with_timeout` does not
  join the thread it gives up, other than the search's executor). Faults
  are never fair. A client owes nothing either: an idle request may never start.
  "operators" adds weak fairness of `Requeue`: what the system promises to a team
  that looks after RQ's failed registry. A browser with a reloading page loads it:
  weak fairness of `LoadPage`.
* `ProviderFanOut!FairSpec` is weak fairness of `Due`, what the program does without
  the providers' help: threads are scheduled, pauses end, an operation that blocks for
  `OpTimeout` fails, the deadline is noticed, time passes. Nothing is assumed of
  providers: they need not answer, nor end a response. Hence `SearchAnswers` has the
  exception of a provider that was given up and hangs.
* `MCFairness` (linking, in the scenario that asks for it): a session goes on with
  its work, the database looks for cycles of waits and aborts a session of each
  (weak fairness), and a statement that is again and again granted its row is
  executed (strong fairness: another session may take the row in between).

## Findings

* `syncjobs_duplicate`: the active-job lookup and the insert are not atomic and
  no constraint backs them.
* `syncjobs_dead_job`: because the push precedes the commit, a worker may answer
  `NotFoundError` for a job whose 202 is about to be sent; its row stays queued and
  is what later POSTs are given.
* `searchcache_torn`: `upsert` writes what differs from an old snapshot, so
  `is_partial` may contradict the response beside it (and a complete response may be
  lost to an earlier partial one while its times are kept).
* `http_form`: the search page offers the kind "Any" as an empty value and a limit
  that may be left empty, and its own route answers both with 422.

Met while modelling, without a run:

* the API reports the status `started`, where `README.md:90` of the repository
  names other statuses;
* an unhandled exception is answered outside the correlation middleware, so its 500
  has no `X-Correlation-ID`, which `README.md:156` announces for responses;
* an interruption after the COMMIT of a verdict lets the handler of `execute`
  (`sync_service.py:177-185`) replace it: a client that read `finished` may later read
  `failed` with `sync_execution_failed`, beside a `result_json` that lists what was
  updated. No document promises that verdicts are final, so `VerdictStands` and
  `JobLifecycle` describe it;
* a provider that trickles its response holds the search, and its connection, past
  every time-out (`youtube_music/client.py:71`, `search_service.py:169`); no document
  states a bound for an answer;
* while searches that wait for providers hold all connections of the pool, statements
  of other requests end in 500 and `/health` in 503 with the database up;
* tracks: the YouTube client knows neither duration nor album, an album that only one
  side has counts as a difference, and so the score stays at .875 or below, under
  the default threshold of .88. A YouTube track never matches without doubt a Yandex
  track that has an album (`LoneAlbumIsUncertain`, `AutoMustBeEarned`).

Hazards without a property are three: the limit that all kinds share in the YouTube
client and the collisions of normalised cache keys are what the code does and no
document promises otherwise; the duration penalty cannot be met through the client
and is covered by `FarApartIsUncertain` instead.

## Theorems

Every theorem holds for all values of the constants that satisfy the assumption of
its module: `SyncAssumption` (finitely many requests, at least one attempt; nothing
about workers or links), `SearchAssumption`, `LimiterAssumption`,
`LinkingAssumption` (platforms and sessions are disjoint; the rows that yandex lists
are finite, for a merge ends; left rows, sessions and ids need not be),
`FanOutAssumption`, `ScoringAssumption` and `MatchingAssumption` (finite token sets,
natural thresholds, lists of any length, one entity per id).

**Jobs** (`SyncJobsProofs`). `TypeCorrect` needs `Busy` to be
inductive: the link a worker persists must be a link, the job it gives up a job. The
others are `Exclusive`, `ActiveBacked`, `RefreshIsAtomic`, `AcceptedRecorded`,
`VerdictsStand`, `ImplementsLifecycle`, and `SerialRequestsShareOneJob`, which
is `AtMostOneActiveJob` for `SerialSpec`. `SerialRequestsReuse` is the same fact as
the run states it (`SerialReusesJob`), where the environment is chosen at the start.

The inductive invariant `IInv` has two layers over the types. `TokenInv` follows a
job's identifier: at most one place at a time, none before its request pushed it,
some place between push and commit. It is what makes a worker the only
writer of the row it holds. `RowInv` says what rows mean: a row exists exactly when its
request committed; an unsettled one is clean; what a worker at a given step believes
of its row is true (`HolderKnows`, the clause that makes `attempts + 1` and the
unconditional verdict right) and what it has flushed is what it has counted, unless it
missed a link (`Tallied`); and the three state properties themselves. Each action
then disturbs few conjuncts: pushes and hand-overs move a token and touch no row,
commits and verdicts write one row and move no token. `RowSteps` collects the ways a
row is written: created, started, settled, or settled already and marked failed by a
worker that is still at `answer`. `VerdictsStand` and the refinement, in which that
last way is `Revoke` or a stutter, follow from it: since the holder of a job is the
only one, nobody else can be at `answer` for it. `SerialInv` adds
that what `MissActiveJob` saw stays true while the request is in flight, which is
exactly what a concurrent request breaks.

**Cache** (`SearchCacheProofs`): `TypeCorrect`, `HitsAreRecent`, `ConflictsAreCached`.
`HitIsRecent` is not inductive: an UPDATE may leave the response
column alone and renew the times beside it, and then the response must not be older
than the new times say. `Unsurprised` is the missing fact. While a live search runs,
either the entry still has the response it loaded, and finding it again confirms it,
or somebody stored another since the search began. `RowMoves` lists the ways the
entry changes, and `SoundStays` shows that what a search knows survives each; then
every action only has to establish its own search's facts (`StepKeeps`).

`EntriesAreCommitted` is kept by every step where the same invariant holds; a search
that committed and was cut off before its answer counts as one that committed.
`EntriesAddUp` adds `CountsBounded`: the counter in the entry, and the one in every
snapshot, is at most the number of searches that committed a hit (`Hits`), so no
interleaving can count a hit twice; it may lose one, which the property allows.
`SerialSearchesAgree` is about searches that do not overlap: `SerialInv` says that
what a search has loaded still is the entry, that the partial flag belongs to the
response, that every hit is counted, and that the times in the entry are those of the
last live search.

**Limiter** (`RateLimiterProofs`): `TypeCorrect`, `NeverOverTheLimit`,
`DenialsAreJustified`, `LeaksNeedFaults`. A window bound speaks of how many calls
passed, and a counter only of a number. The bridge is `CountsDiffer`: the counts that
calls of one bucket were given are different, as long as the key of a running window
cannot have been dropped and started anew (`KeyOutlives`). Different counts of at most
`Limit` belong to at most `Limit` calls (`CountsBound`, by an injection).
`CounterBounded` is the other direction: a counter is never more than the calls that
were made, so a refusal had its reasons.

**Linking** (`LinkingProofs`): `TypeCorrect`, `LeftRowsLinkedOnce`,
`CanonicalsAreWhole`, `PagesAreSound`. `Locks` says that sessions hold disjoint rows.
`Sound` says what a session may rely on: it holds both rows of the match whose links it
reads (`PairHeld`), and the rows of every link it has flushed (`LinksHeld`); in its eyes
a left row has one canonical row (`SeenOnce`); what it made will be whole when it
commits (`MadeWhole`). Another session's commit adds links of rows that it held alone,
so it cannot disturb what this one has seen: that is the argument, and it fails
where a row is linked without being written. For pages, `PageSound` follows the SELECTs:
once the row was seen, its links on both platforms were there (`OnBoth`), and the
catalogue only grows.

`SearchesAreSerial` is the refinement of `Catalogue`, step by step: a session's commit
is one `Search` of the catalogue, everything else stutters. The commit must be
explained by matches in turn from the catalogue *as it is at that moment*, though the
session looked at it long before. So `PInv` carries the explanation along: for every
session there are matches `ps` and canonical rows `cs` that account for all it has
flushed (`Explained`), each a legal target after the ones before it. A session's own
step extends them by one or leaves them (`QuietExplained`, `CreateExplained`);
another's commit leaves them legal, because it links only rows that this session does
not hold and makes only rows that this session did not make (`ExplainedStays`, from
`Locks`, `MadeOnce` and `TargetStays`). That no right row is persisted again
(`RightTaken`) bounds the matches by the right rows, by an injection, and that is why
those must be finite.

**Fan-out** (`ProviderFanOutProofs`): `TypeCorrect`, `AnswersInTime`,
`ResultsStaySound`. `Punctual` keeps an account: a thread in attempt `a` that has `n`
answers last acted no later than the deadline, at which it may have begun, plus what
`a - 1` attempts, their pauses and `n` requests may cost (`Spent`) and what it took
beyond one operation for each request (`Granted`). `LateAsOne` keeps the consequence
for the search once the last thread has ended: it is as late as one thread that it
gave up, not as several one after the other. A thread that hangs has no account, and
the theorem excepts it. `OneAttempt` says that a thread's hits are of its present
attempt.

**Scoring** (`ScoringProofs`): facts about every outcome of a pair. `ScoresInRange`;
`NamelessIsUncertain` (two names without tokens: .8 at most); `LoneAlbumIsUncertain`
(.875 at most); `FarApartIsUncertain` (tracks ninety seconds apart: .79 at most, so
the penalty leaves no gap between its two limits); `OtherVersionConflicts`;
`TwinsScoreHigh` (a pair that agrees in all that is known of both: .895 at least, and
no conflict), with the weights that are left after an unknown field and the rounding
of each step accounted for.

**Matching** (`MatchingProofs`): `TakenOnlyByEarlier`, `AutoStandsAlone`,
`AutoMustBeEarned`, the last for thresholds above .875, as the default is. `IInv` says
that every item is made of hits of the lists, that what the scorer says is an outcome
of the pair, that `used` is what the items of the kind in turn took, that youtube's
hits are merged before the rest (`LeftsFirst`), and that hits without a partner are
rejected (`LoneIsRejected`). An item's property speaks of earlier items only, so a step
leaves those there are alone and has to establish the one it appends; the three bounds
of `ScoringProofs` then give the last of the three. `TwinsAreMatched` is the converse
for thresholds up to .895: a pair that agrees in all that is known is matched without
doubt, unless an earlier hit has taken the yandex hit or a rival is within the gap.

`ShowsEveryHit` says that the answer loses no hit and shows none too often. Its
invariant, `SInv`, counts while the merge goes on: every youtube hit merged so far is
in exactly one item (`LeftsShown`); a match is with a hit of the list, and no id is
matched twice (`MatchedOnce`); `used` is just the ids matched (`UsedIsTakenIds`); a
yandex hit that is left over stands alone as often as it was passed (`LonesCounted`);
and the answer is the items in another order (`Answered`). The last is the part about
sorting: `Ahead` is injective into the places there are, hence a bijection, hence the
answer permutes the items and no count changes. `OneEntityPerId` is needed where a match
takes all repetitions of its id at once. `TypeCorrect` follows from the same facts.

**Front** (`HttpFrontProofs`): `HealthTellsTheTruth`, `RedisRefusesOnlySyncs`. The
invariant ties the history to the present: what is up now has been up during the
request, what is down has been down (`Remembers`); which routes reach which check
(`OnRoute`); and what the first probe of `/health` found was so at some time of the
request, though it may no longer be when the second probe runs (`FirstCheck`). An
answer of an endpoint is `Due` if neither property forbids it: a 500 for want of the
database or of a connection, or by a failed statement, a 503 of a sync, and so on.
`RedisRefusesOnlySyncs` also makes `/health` name Redis as failing, and answer 503
exactly when the settings require it.

Model-checked only. The liveness properties (`AcceptedJobResolves`, `WorkersReturn`,
`OperatorsSettle`, `VerdictShown`, `SearchAnswers`, `EverySessionEnds`) rest on fairness,
and with it on ENABLED, which the provers do not handle. The four violations are
behaviours, and TLC shows them. Nothing else that a run checks is without a theorem.
Induction over data is out of reach too: where the code folds over a list, the
models say what each element finds of those before it (`InTurn`) or count what stands
before it (`Ahead`), and the proofs go by the steps of the specification instead.

## Not modelled

* **Provider clients and mappers** (partly). Their searches are modelled: requests,
  dropped items, truncation, errors. `get_artist`, `get_release` and `get_track` are
  stubs that raise. The fields that mappers fill are the inputs of `Matching`.
* **Text normalisation** (partly). Its outcomes are modelled: equal, overlapping and
  disjoint token sets, the empty one, tags. The string processing itself is a pipeline
  of regular expressions and Unicode tables whose only hazards are those outcomes.
* **Settings, logging, middleware** (partly). Settings are constants or choices of the
  initial state; error handlers are in `HttpFront`; logging and its redaction have no
  state that anything reads.
* **Credits, aliases and track lists** of entity pages: read, and written by nothing.
* **HTML**: only what forms submit and what makes a page reload.
* **Migrations**: static DDL. Its constraints are facts that the models use.
* **The search refresh job**: a stub that raises and that nothing schedules.
* Redis losing its data, and a database that loses commits: nothing in the code
  handles either.
