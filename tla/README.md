# A TLA+ model of ait

ait is a gateway in front of LLM providers: it authenticates API keys, resolves a
model name to a provider, forwards the request (streamed or not), and records
every request in DuckDB, from which the admin interface reads its statistics. The
modules here model the parts of it that keep state or run concurrently, the web
console included, check them with TLC on small instances, and prove their safety
properties with TLAPS for instances of every size. Paths below are relative to the repository (`src/`
is the backend).

## 1. Inventory

| Part | State it keeps | Operations that change it | Module |
|---|---|---|---|
| Authentication (`middleware.rs`, `app.rs`) | `api_key_cache`, `negative_key_cache`, `key_revision`, `auth_lookup_permits` | `auth_middleware`, cache cleanup | `ApiKeyAuth` |
| API-key administration (`handlers/apikeys.rs`, `db/store/apikeys.rs`) | table `api_keys` | create, update, delete | `ApiKeyAuth` |
| Model resolution (`handlers/proxy/resolve.rs`) | `model_cache`, `negative_model_cache`, `provider_cache` | `resolve_model_and_provider`, `cached_upstream`, `insert_capped` | `ModelResolve` |
| Model and provider administration (`handlers/models.rs`, `handlers/providers.rs`, `db/store/*`) | tables `models`, `providers` with cascade | create, update, delete | `ModelResolve` |
| Proxy request (`handlers/proxy/mod.rs`, `exec.rs`, `guard.rs`) | one call's phase, its `ProxyLogGuard` | the checks, upstream call, body read, `Drop` | `ProxyRequest` |
| SSE stream (`handlers/proxy/sse.rs`) | buffer, scan position, byte count, timers, usage | `poll_next`, `Drop` | `SseStream` |
| Log pipeline (`db/logger.rs`, `db/logger/writes.rs`) | channel, buffer, transaction, three tables | `log_*`, worker loop, flush, retention, `shutdown` | `LogPipeline`, `EventLog` |
| Query watchdog (`db/watchdog.rs`) | one deadline and one flag, atomics | `run`, `stop`, the polling thread | `QueryWatchdog` |
| Analytics workers (`db/analytics.rs`) | channel, receiver mutex, worker threads, oneshots | query methods, worker loop, `shutdown` | `AnalyticsPool` |
| `run_blocking` (`blocking.rs`) | blocking jobs | run, time out, lose the caller | in `ApiKeyAuth`, `ModelResolve` |
| Start and shutdown (`main.rs`) | cancellation token, signals | serve, graceful and forced exit | `ProcessShutdown`; the streams' side in `SseStream` |
| Loki sink (`db/loki.rs`) | channel, buffer | send, flush, `shutdown` | `ProcessShutdown` |
| SSRF check (`ssrf.rs`) | `ssrf_dns_cache`, `pinned_clients` | check, pin, cache cleanup, saving a provider | `UpstreamAddress` |
| Statistics queries (`handlers/stats.rs`, `handlers/analytics.rs`, `db/analytics/queries.rs`) | none: they read `proxy_log` | three scans per answer, against commits and retention | `StatsQuery` |
| Paged log query (`handlers/logs.rs`, `db/analytics/queries.rs`) | none | COUNT, then SELECT | `LogsPage` |
| Console: log page (`frontend/src/pages/logs.rs`) | page, page size, filter, resource | filter, paging, retry, detail | `LogsPage` |
| Console: provider, model and key pages (`pages/providers.rs`, `models.rs`, `apikeys.rs`, `components/modal.rs`, `table.rs`) | store of rows, modal, resource | reload, add, edit, delete | `ListPage` |
| Console: overview page (`pages/overview.rs`, `time_utils.rs`) | range, force flag, resource | refresh, range, retry; the chart per day | `Overview`; the chart in `StatsQuery` |
| Console: API client (`frontend/src/api.rs`) | `FETCH_CACHE` | cached and forced reads, saves, 401 | `Overview` |
| Access log, DLP, providers, config, errors | none, or read once | | see "Not modelled" |
| Console: shell, texts, drawing | theme, language, toasts | | not modelled |

**How the parts interact.** Everything runs in one process. HTTP requests are tokio
tasks on several threads; each may be dropped at any `await` when its client hangs
up. They share the caches (DashMaps, locked per access), the SQLite pool (through
`run_blocking`, whose job outlives a timeout or a dropped caller) and the log
channel. Four kinds of OS threads run beside them: the log worker, the Loki worker,
the analytics workers, and a watchdog per log or analytics worker. Shutdown cancels
the streams, waits for the requests, then signals and joins the log worker, the Loki
worker and the analytics workers, in this order.

**What is hard.** (a) Cache fills are read-check-insert over several locks and
race the admin calls' commit-then-invalidate. (b) A handler may vanish between two
of its steps, a job may outlive its handler. (c) One record per request has to
come out of three writers (guard, guard's `Drop`, stream) on some twenty exits.
(d) Upstream chunks cut events anywhere. (e) A batch is several statements, each of
which may fail or be interrupted. (f) `join()` has no timeout, so whatever a worker
waits for must come. (g) An answer is made of several statements with commits and
retention in between. (h) The console applies answers in the order they come, to a
store, a cache and a page that may have changed meanwhile. (i) DNS answers, the
addresses checked and the client used belong to different moments. `PROJECT.json`
lists these line by line under `hazards`.

**What makes each part correct.** Authentication: a revoked key stops working, an
existing one is not locked out, permits do not leak. Resolution: a cached model or
client agrees with the tables up to named races. Request and stream: one record,
matching the answer; no byte lost, held back or beyond the cap; no stream asleep
for ever. Log: every event accounted for once, whole batches, a clean shutdown.
Watchdog: overruns end, others are not hit. Analytics: one Shutdown per worker, no
request lost or blocked by another. Shutdown: the process ends after a signal, and
what was handed over before is stored and pushed. Upstream addresses: a request
connects to an address it has checked itself. Statistics and logs: the parts of an
answer disagree in known ways only, and the chart and the pages show every row.
Console: table, overview and cache catch up with what was saved.

## 2. Modules, state and actions

A step is one synchronous stretch of code between two accesses to shared state, so
every interleaving that threads or tasks can produce is a behaviour. Requests, admin
calls and events are one-shot: each element of the set is one call. Names follow
the source. The definitions marked *Mutant* are deliberate errors used to show that
the properties can fail; no specification uses them.

* **ApiKeyAuth.** Request steps: negative lookup, positive lookup (which slides the
  entry), permit, revision load, query, recheck, insert, or the negative length
  check and insert. Admin steps: dispatch, commit, cache removal, (update only)
  negative removal, bump. `AbandonLookup` and `AbandonAdmin` are the 30 s timeout
  of `run_blocking` and the client hanging up: the blocking job stays (`orphanJobs`,
  `"orphan"`) and still commits. Time is the age class of an entry (fresh or
  expired) and one future expiry instant. `raced`, `lost`, `lastBump`, `cacheBy` are
  history variables that the properties speak of and no guard reads.
* **ModelResolve.** The same for the three resolution caches. A row's content is the
  number of the commit that wrote it. `Forget` is expiry, cleanup and eviction at
  once: an entry may disappear at any time. `insert_capped` is one step.
* **SseStream / ProxyRequest.** `SseStream` is `poll_next` with its environment:
  upstream chunks (sequences over line ends and three kinds of content), timers,
  wake-ups, cancellation, a client that takes items or hangs up. The history variables
  `usageSeen` and `unread` say that usage was handed to the client, and how it was if
  nobody looked for it. `ProxyRequest`
  extends it by the request that leads to the stream: `guard` is the
  `ProxyLogGuard`, every early return and every `await` is an action.
* **LogPipeline / EventLog.** The worker is one action per statement of
  `worker_loop` and `flush_events`, and each DuckDB statement may fail; after a failed
  COMMIT, which no ROLLBACK follows, and after a failed ROLLBACK the transaction may be
  open or not. A stored row may age past `retention_days` at any time (`Ages`), rows of
  this run like those of earlier ones, and retention deletes aged rows, each table's
  DELETE on its own, so any part of them. `EventLog` is what the pipeline
  promises without channel, worker or transaction; `LogPipeline` instantiates it
  (`held` is channel and buffer, `lost` is dropped and failed) and implements it.
* **QueryWatchdog.** Both threads with one action per atomic load or store. A
  deadline is named by the operation that armed it; a stuck statement ends by
  interruption or not at all.
* **AnalyticsPool.** The channel as a sequence, the receiver mutex, the workers, the
  calls. A query of `Heavy` need not end. What a query returns is not modelled.
* **ProcessShutdown.** `main()` from the first signal to the exit: the gap in which
  no listener for a second signal exists, the wait (server done, graceful timeout or
  second signal), then each step of `LogManager::shutdown`. A request hands its
  record to the Loki channel and then to the log channel, in two steps, at any time
  until the process is gone. The Loki worker is modelled statement by statement; the
  log worker only by what `LogPipeline` shows of it from outside, and with batches
  that succeed, since what a failed batch loses is that module's matter.
  `Analytics::shutdown` is one step, as `AnalyticsPool` shows that it returns. The
  exit after an error of the server future is left out: `axum::serve` reports none.
* **UpstreamAddress.** A request is resolved (from the cache, or by DNS in two steps),
  checked, and given a client, each in a step of its own, while DNS may change its
  answer before every one of them. Addresses are small bit strings in which each
  notation the code distinguishes has its block (IPv4-compatible, mapped, NAT64,
  public, local), so that the prefix arithmetic is that of the code at 2 and 5 bits
  instead of 32 and 128. Ages are counted up to `CACHE_TTL`.
* **StatsQuery.** The answer to one query: range, three scans, chart. A row is its
  timestamp. Time is counted in units so small a number of which make an hour and a
  day that every alignment of range, bucket and day occurs. The server's time is `Now`;
  the page corrects its range by the browser's clock, which shows any of `Clocks`
  (`AskFromPage`). `NextCount` is the loop of
  `fill_daily_range`: the position in the counts after each day.
* **LogsPage.** The page's signals and its resource, the two statements of the query,
  commits (also out of timestamp order, since a row is stamped before it is queued)
  and retention. `Ties` rows have the same timestamp, and the query, which orders by
  nothing else, may return them in any order, another one for each page. The eleven
  filters are one.
* **ListPage / Overview.** `ListPage` is one of the three list pages with its saves:
  the provider and model pages patch their table from the answers, the key page
  reloads it (`kind`). The store is a function from slots to rows, since a row can be
  there twice (once listed, once pushed by its creation); the order of the rows is left
  out. A save is pending on the server and awaited in the browser
  independently, so it may be made after the browser gave up. `Overview` extends it
  by the overview page and the response cache, which every save empties; the fetch of
  a page that was left runs on and fills the cache.
* **MC modules** hold symmetry sets and sets of chunks and addresses. **...Proofs**
  modules hold the theorems.

## 3. Runs

| Run | Instance | Shows | Properties |
|---|---|---|---|
| `auth` | 2 requests, 2 admin calls, one real key, one bogus token, 1 permit, cache of 1 | staleness and wrong acceptance only through the named races; permits conserved; no key locked out | `TypeOK`, `StaleOnlyThroughRace`, `PermitsConserved`, `NegativeHidesNoKey`, `AcceptedKeyIsLive` |
| `auth_revoked` (violation) | 2 requests, 1 admin call | a deleted row is cached after the revision check | `RevokedRowNeverCached` |
| `resolve` | 2 requests, 2 admin calls, 1 name, 2 providers | stale model, client or 404 only through an overlap; cascade reaches the caches | `StaleModelOnlyThroughRace`, `HiddenModelOnlyThroughRace`, `StaleClientOnlyThroughRace` |
| `proxy` | buffer 4, cap 7, input 8 bytes | one record, its status, stream integrity, cap, wake-up | `ExactlyOneRecord`, `RecordMatchesAnswer`, `NothingHeldBack`, `NoByteLost`, `ReportedUsageIsRecorded`, `ParkedIsWoken` |
| `log` | 3 events over 3 tables, 1 older row, channel 2, batch 2, retention every 2nd flush | conservation, whole batches, clean shutdown, progress, refinement of `EventLog` | `EachEventOnce`, `ShutdownFlushes`, `WholeBatches`, `BufferedIsResolved`, `ImplementsEventLog` |
| `watchdog` | 3 operations of up to 2 statements | whom an interrupt may hit, armed overruns end | `NoFalseAlarm`, `OverrunIsEnded` |
| `analytics` | up to 2 workers, 3 requests (one endless) | one Shutdown per worker, no early request lost, no blocking by a heavy scan, shutdown returns | `EachWorkerOneShutdown`, `NobodyLeftBehind`, `HeavyBlocksNoOther`, `ShutdownReturns` |
| `shutdown` | 2 requests, both channels of 1, Loki batch of 2, 3 signals | what a graceful and a forced exit keep in either log, the process ends | `RecordsSurvive`, `ProcessEnds` |
| `addresses` | 2 requests, 2-bit addresses, 4 DNS answers or none, a cache life of 2 | connections only to verified addresses, no denial after a correction, when the cache hides a change, what prefixes stand for | `ConnectsToVerified`, `CorrectedIsNotDenied`, `QuietHostIsAskedAgain`, `PrefixesMeanIntervals` |
| `stats` | hours of 2 and days of 4 units, 3 zones, 3 rows of 5 times, 64 ranges, and 49 corrected by one of 3 clocks | the served range, how scans disagree, the chart is complete | `ServedRange`, `LaterScansSeeMore`, `ChartShowsAll` |
| `logs_page` | 4 rows of 2 kinds, in pairs of one timestamp, page sizes 1 and 2, skip cap 2 | bar against table, empty pages, a walk through all pages | `BarTellsTheTruth`, `EmptyPageExplained`, `WalkSeesAll` |
| `console` | 1 row, 1 save, both kinds of page, 2 visits, 2 ranges, cache of 1 | table against server, fresh refreshes, no outdated cached answer | `ListAgrees`, `RefreshIsFresh`, `SavedChangeIsSeen` |

**Why the bounds are enough.** The races need one lookup, one change between two of
its steps and one later reader: two requests and two admin calls (create, then
change) have all of them; one permit makes waiting for it happen; a cache of one
makes the negative cap bind. Two providers are needed for a model that moves from
one to the other. The stream's bounds let a boundary be cut at each of its four
bytes, an oversized line be split with and without a line end, and the cap be met
exactly and exceeded. Three events exceed channel and batch and leave a partial batch
at shutdown; two flushes make retention run, on a row of an earlier run and on those
of this run, aged or not. Three watchdog operations let an alarm
be late by one and by two. Two workers and three requests let one scan hang while
another request waits and a third comes after the Shutdowns. With two requests and
channels of one, either channel can be full when its Shutdown is due; three signals
let one fall into the gap and another force the exit. In `addresses` one request
fills the caches and another meets what it left, with a cache life of two ticks so that
an entry can be young, half old and expired; an allow-list entry, blocked and public
addresses in plain and mapped notation, sets of none, one and two are among the
answers. In `stats` the smallest units give ranges that start and end on and off an
hour and a day, longer than the chart fills and longer than is kept, a zone half
an hour off, and a browser's clock that is right, slow by more than an hour or fast.
In `logs_page` the cap of two serves three pages of one and two of two, and cuts the
fourth page of one: walks over three pages of one and over two of two come to their end
with rows pushed to later pages meanwhile, some of them really miss a tied row, and a cut
page is asked for as well. An instance of five rows in pairs of one timestamp, without
filter and cap, has been checked as well (1.1 million states).

In `console` one save that is late, lost or refused meets a reload and both visits'
fetches; the list page alone with two rows and two saves has been checked as well
(967 074 states). Deadlock checking is
off because every instance has finitely many calls and ends.

**Fairness.** Only threads and timers of the process itself are fair: weak fairness
for each step of the log worker, the watchdog thread and the clock it reads, the
worker it guards, the Loki worker (whose push has a timeout), the analytics
workers, the main task with its graceful timeout and the thread inside a
`shutdown()`, and, for a stream, the timer and the polling of a woken task whose
client takes output (`ParkedIsWoken` needs no more). No client, upstream, signal or
admin call is fair, and a stuck or heavy statement ends only if it is
interrupted; in `AnalyticsPool` other queries end. The receiver's mutex need not be fair.

### What the violation says

`auth_revoked`: the check of `key_revision` and the insertion are two steps
(`middleware.rs:114`, `:122`). A delete in between bumps a revision that nobody
looks at any more. The comments there, in `handlers/apikeys.rs:112` and
`CHANGELOG.md:26`, say such a read is dropped. `StaleOnlyThroughRace` states what
is true instead.

### Other observations

The models contain these behaviours; most appear as the exceptions that the
properties name.

* The permit of a key lookup lives in the handler, the job it is meant to count
  (`app.rs:26`) does not: after timeouts more lookup jobs than permits run
  (`orphanJobs` in `ApiKeyAuth`).
* The watchdog has one deadline per `run()`, disarmed by the first interrupt
  (`watchdog.rs:64`), although a flush goes on to ROLLBACK and retention: a second
  statement that hangs is never interrupted.
* No revision guards the negative model cache, so a lookup that read before
  `create_model` committed hides the model after it returned, against
  `handlers/models.rs:104` (the race in `HiddenModelOnlyThroughRace`).
* `insert_capped` evicts at most one entry per insertion and two racing insertions
  may evict the same one; nothing brings the size back, so the small multiple of
  `resolve.rs:45` is no bound.
* A streamed error body that times out is answered 408 and recorded 499 (the
  exception in `RecordMatchesAnswer`). The idle timer of a stream also runs while
  a slow client does not read.
* `finalize_stream` writes the record before it hands on the rest of the buffer
  (`sse.rs:157`, `:159`), and extracts no usage from that rest. An upstream that omits
  the blank line after its last event ends normally, with status 200, and the record
  keeps the estimate that, by `handlers/proxy/mod.rs:449`, "is only used if the
  connection is interrupted". `ReportedUsageIsRecorded` states what is true instead:
  usage is missing only where it was in an event that is not UTF-8 or in that rest, and
  the rest holds a whole event only when a timeout came before it was split off.
* `is_allowed` makes a mapped address plain (`ssrf.rs:182`); against an IPv6 entry
  `ip_in_prefix` then makes the entry plain, too, and cuts its length to 32 (`:301`). So
  `::ffff:10.0.0.0/104` matches 10.0.0.0 only and not, as `:258` has it, the range it
  describes; such a range has to be listed as IPv4. `PrefixesMeanIntervals` states which
  addresses an entry stands for instead, never one without a notation in its range.
* Each check inserts a cached DNS answer again as if it were new (`ssrf.rs:54`), so a
  host that is used more often than every `CACHE_TTL` is never looked up again. A
  lookup without addresses passes the check and is cached, and until it expires each
  request to the host fails with 502 (`ssrf.rs:136`). `builder.resolve` replaces
  the host's earlier entry, so of several addresses one is used and there is no
  failover. The keys of `pinned_clients` carry the address set, so the map is not
  bounded by the number of hosts as `app.rs:59` says, only by expiry.
* Where the browser is half an hour off UTC's hours, the first bucket of a range can
  belong to the day before; `fill_daily_range` never gets past it and the chart shows
  zeros (the exception in `ChartShowsAll`), although `handlers/stats.rs:29` has the
  page fill "exactly the window the aggregates were computed over".
* The page stores the end of a range as it clamped it (`overview.rs:182`, `:203`): an
  end that was an hour ahead stays where it is, and later refreshes do not reach
  beyond it. What the server makes of the range it is asked for depends on its own
  clock only (`ServedRange`).
* `ORDER BY timestamp DESC` (`queries.rs:296`) has no tie-break, so rows of one
  timestamp may be missed, or shown twice, between two pages (the exception in
  `WalkSeesAll`).
* The response cache is emptied when a save is acknowledged; a read that the server
  answered before the save and whose answer comes after is cached, so the next read
  need not observe the save, as `api.rs:160` says it does (the overlap excluded in
  `SavedChangeIsSeen`).
* The exit waits for the analytics workers without a limit; `ProcessEnds` rests on
  their queries ending, which the watchdog does not guarantee for the second statement
  of an operation (above).
* A refresh clicked while a fetch is running loses its force flag when that fetch
  ends, and Retry is not forced.
* On the provider and model pages a reload under an open form disposes of the row
  the form patches: "updated" is shown and the row stays old (`table.rs:173`
  calls it best-effort). A save that overlaps a reload can show a row twice, drop it
  or bring it back, until the next reload (`clean` in `ListAgrees`).
* The bar of the log page ignores the page number that the server answers with, so
  past the skip cap of `handlers/logs.rs` it names a page other than the one shown.

## 4. Proofs

**ApiKeyAuthProofs** proves `TypeOK`, `StaleOnlyThroughRace`, `NegativeHidesNoKey`,
`AcceptedKeyIsLive` and `PermitsConserved` for any finite sets of requests and
keys, any set of admin calls, and any number of permits, from `ConstantsAssumption`
alone. None of them is inductive. `Inv` adds what a lookup in flight knows:
`Absence` (what was found absent stays absent until that key is created, and a
created key is new), `Origins` (who filled an entry has finished, so its revision is
final), `LookupKnows` (an outdated row in hand implies an overlap with the change,
and a revision from before the bump once the bump is made) and `EntryKnows` (the
same of a cache entry, which takes it over at the insertion). Each part has its own
step lemma with one step per action. `PermitsConserved` is separate: it needs the
cardinality of the permit holders when one joins or leaves.

**LogPipelineProofs** proves `TypeOK`, `EachEventOnce`, `ShutdownFlushes`,
`WholeBatches` and that the pipeline implements `EventLog`, for any finite set of
events, channel capacity, batch size and retention interval. The invariant adds
`Transaction` (what has been appended at each place of `flush_events`), `Placed`
(the channel is injective, every event has one place; stored and expired rows are
apart, and what expired had aged), `SignalOrder` (the signal is
sent at most once and early events are ahead of it in the FIFO, so that once it is
taken they are buffered or written) and `Leaving` (the worker leaves only with an
empty buffer). Two lemmas on sequences (what
`Append` and `Tail` do to the range of an injective channel) carry it.
`TypeOK` of this module is checked by TLC only as part of that proof's preparation,
not in a run.

**ModelResolveProofs** proves `TypeOK` and the three staleness invariants for any sets
of requests, admin calls, names and providers. `Inv` adds `Shape` (which call has
which fields set, only ids handed out have rows), `HeldKnows` (a request that holds a
pair the tables have left behind is among the raced) and, per cache, why an entry may
be out of date: its inserter raced, its change was abandoned, or the handler of the
change has still to reach the removal from this very cache (`ModelsPending`,
`NegativesPending`, `ClientPending`). The properties say "unsettled" for the last; the
induction needs to know which removals are still to come, as one handler makes up to
four, in order.

**AnalyticsProofs** proves `TypeOK`, `EachWorkerOneShutdown` and
`NobodyLeftBehind` for any number of workers and any set of calls. The first is
inductive beside `Shape`, with the positions of the Shutdowns in the queue counted
as a finite set (lemmas on what `Append` and `Tail` do to it). The second needs `Flow`:
a request sent in time is run, being run or queued, and every such request is ahead
of all Shutdowns in the FIFO. The module extends two more components, whose names are
distinct from the pool's for that reason, and proves about them:

* *The watchdog*, of `QueryWatchdog`: `NoFalseAlarm` for any number of operations and statements.
  `DogInv` adds that a deadline that is armed or was loaded belongs to an operation that
  has begun, and that the watchdog is about to interrupt only for one that has passed.
* *The statistics query*, of `StatsQuery`: a type invariant, `ServedRange`,
  `LaterScansSeeMore` and `ChartShowsAll` for every log, zone, range, retention and cap. `ScansFollow` says that
  what was scanned lies in the range and, unless retention ran, is still in the log, so
  that the next scan sees it. For the chart: midnights are a whole number of days apart
  (`MidnightsApart`); without a cut hour every day that has rows is a day from the first
  to the last of the range (`DaysInRange`); the rank of a day, the number of earlier days
  with rows, is a bijection, so `AggregateDaily` lists each day at its rank (`Ranks`,
  `DailyFacts`). The position that `fill_daily_range` has reached is then one more than
  the number of days with rows before the current one: this function solves the
  equations of the loop (`TakenFacts`), and they have one solution only, since two would
  differ at a least day (`NextIsUnique`).

**UpstreamAddressProofs** proves a type invariant of its own, `ConnectsToVerified`,
`CorrectedIsNotDenied` and `QuietHostIsAskedAgain` for addresses of any width, any
lists and answers, any lifetime and any number of requests. `Verified` (only sets that
passed are cached), `Corrected` (while DNS answers well whatever a request may still
be given passes), `CacheAges` (a cached answer is at least as old as the silence) and
`SinceRest` (what a request that found the host rested can still be given, from DNS,
from the cache or from another request about to fill it) make them inductive.
`PrefixesMeanIntervals` is a fact of the constants and needs no invariant: equality of
quotients by `2^n` is membership in an interval (`SameQuotient`), an IPv6 entry is to an
IPv4 address what its embedded address is (`EntryOfOtherFamily`), and for the notation
that such a match has in the entry the witness is the prefix's own address with its last bits
replaced (`SwapEnd`, by cases on whether the mask ends before, within or after the
embedded address). `PowerAssumption` states the defining equations of the powers of two,
which the provers lack; their laws follow by least counterexamples.

**ProxyRequestProofs** proves `TypeOK`, `ExactlyOneRecord`, `RecordMatchesAnswer`,
`NothingHeldBack`, `NoByteLost` and `ReportedUsageIsRecorded` for every set of chunks
and every buffer and answer limit. `Responsible` says who owes the record at each
phase (nobody, the guard, the stream); `Bytes` is the balance of what was read,
forwarded and buffered; `Accounted` ties the tokens kept to those handed on, up to the
unread ones, and says that no complete event is unread while the stream runs. `Scan` carries the
incremental search: no boundary lies before the scan position, which stays three bytes
behind the end. Lemmas on sequences show that appending a chunk creates no boundary
there, that taking an event off the front resets the position, and that the first
boundary found is the one a search of the whole buffer finds.

**ProcessShutdownProofs** proves `TypeOK` and `RecordsSurvive` for any finite set of
requests, all capacities and any number of signals. `Stages` (a worker has seen its
Shutdown only if main sent it, and main has gone on only if the worker is gone),
`LogFlow` and `LokiFlow` (where a record taken in time is, at each place of each
worker), `Graceful` (no request is left once an unforced shutdown begins) and
`LokiOnce` (a record is in one place only, hence pushed at most once) are the
invariant.

**ConsoleProofs** proves, of `LogsPage`, a type invariant of its own, `BarTellsTheTruth`,
`EmptyPageExplained` and `WalkSeesAll` for any rows, kinds, page sizes and skip cap.
`Current` ties a fetch and its answer to the signals, `Counts` an answer's total and
number of rows to the log, `Reach` the page number to a row that exists, and `Walk`
says that every row still to be seen has at least as many rows before it as the pages
seen have places, unless it shares its timestamp with another. The lemmas are about the
query: LIMIT and OFFSET return `Min({pp, n - off})` rows; a page that skips no more rows
than are before an untied row, and does not show it, shows only rows before it
(`WindowPasses`); a commit takes no row from before another, and retention, which
deletes the oldest timestamps, none at all; and the
division in `ServedPage` and `LastPage`. The second part is about `Overview` with the
`ListPage` it extends, from `ListAssumption` and `OverviewAssumption`: a type
invariant, `ListAgrees`, `RefreshIsFresh` and `SavedChangeIsSeen` for any rows and ranges,
any number of saves and visits and any size of the cache. `ListAgrees` is far from
inductive. `StoreFollows` says that, unless a reload is due, a clean store shows the
server's table or, when the save the modal waits for has been made, the table from before
it; `ReloadKnows` that a reload without overlap brings the table as it is; `SavesKnown`
what an acknowledgement, a modal and a pushed row tell of the saves. `FetchKnows` carries
the saves that an answer under way counts in until it is cached, and `OwedIsComing` says
that a refresh still owed is forced or being fetched.

The type invariants of these proofs are in no run, except that of `auth`; every
inductive invariant was checked with TLC on the instances of section 3, or smaller
ones, before it was proved. Each theorem rests on the named assumptions of its
component's module and nothing else; those are checked by TLC on
every run. Every invariant of the passing runs is stated by a theorem.

**Only model-checked.** The properties under fairness (`BufferedIsResolved`,
`OverrunIsEnded`, `ParkedIsWoken`, `HeavyBlocksNoOther`, `ShutdownReturns`,
`ProcessEnds`): the prover has no fairness.

## 5. Not modelled

The Loki payload (labels, streams) and its authentication headers; sums of tokens;
the access log and client-address header walk; DLP matching (its verdict is a branch
of `ProxyRequest`); JSON rewriting by the providers; configuration parsing (its values
are the constants here); error formatting; of the console the fields of the forms,
the texts, theme, toasts and the drawing of charts, and days of 23 or 25 hours.
SQLite and DuckDB are external: a statement is atomic and, in DuckDB, may fail; so are
DNS, which may answer differently each time, and leptos' `LocalResource`, of which the
models assume that it runs one fetch at a time and fetches again if it was triggered
meanwhile.

## 6. Plan

Done, in this order: `ApiKeyAuth` with proofs, `LogPipeline` and `EventLog` with
proofs, `QueryWatchdog`, `ModelResolve`, `SseStream` and `ProxyRequest`,
`AnalyticsPool`, `ProcessShutdown`; then `LogsPage`, `StatsQuery`, `ListPage` and
`Overview`, `UpstreamAddress`.

Left to model, if at all: the client-address walk of the access log and
`token_dist_from_sums`, as operators against reference definitions.

Proved, in this order: the theorems of `ApiKeyAuth` and `LogPipeline`, then of
`ModelResolve`, `AnalyticsPool`, `UpstreamAddress`, `ProxyRequest` with `SseStream`,
`ProcessShutdown` and `LogsPage`; at last of `QueryWatchdog`, `StatsQuery`, `ListPage`
with `Overview`, and the prefixes of `UpstreamAddress`.

Left to prove, if at all: action properties that the inductive invariants give at once
(what a worker stored stays stored, a spent revision never returns).
