# perps-indexer in TLA+

A specification of the ingestion core of this repository: what the backfill and
the live process read from S3, what they put in PostgreSQL, what the checkpoint
that links their runs may be trusted for, how fills get their market, and how
the tasks of a process share its connections. TLC checks the modules on small
instances; TLAPS proves the theorems for every value of the constants.

Paths below are relative to the repository (`pipeline.rs` is
`indexer/src/pipeline.rs`, and so on).

## 1. The system

| component | state | operations |
|---|---|---|
| backfill pipeline (`pipeline.rs` 34-356, 522-684) | the window, a checkpoint in memory, a running count, a bounded channel; the fetcher task's position (a time and a cursor) and its list of missing hours | reset the checkpoint over gaps, decide where to start, fetch or skip hours, insert pages, save checkpoints |
| continuous pipeline (`pipeline.rs` 358-520) | a position (time and cursor), a running count | reset over recent gaps, fetch and insert a page, save, wait, shut down |
| S3 source (`ingest/s3_source.rs`) | none: a page is a function of the position, the clock and the bucket | a page of up to eight hours in parallel, a page of one hour, end of data |
| store: inserts (`store.rs` 38-219) | the fills table, open transactions | chunks by COPY, fallback to multi-row VALUES |
| store: checkpoint and gaps (`store.rs` 223-373) | the `ingest_checkpoints` row of source `s3` | load, save, count a range, list missing hours |
| store: statistics, view refresh (`store.rs` 376-503) | - | called by no code |
| connection pool (`main.rs` 72-83, used by `store.rs`, `market.rs`) | connections in use, tasks that wait | acquire, release, drop with an open transaction |
| market registry (`market.rs`, SQL function `get_or_create_market`) | a cache of markets per process, the `markets` table and its id sequence | load, refresh from the API, get or create |
| retry with backoff (`core/src/backoff.rs`, `error.rs`) | the attempt number | try again, give up |
| application, command line (`app.rs`, `main.rs`) | configuration | `backfill`, `run` (optionally a backfill first), `migrate` |
| configuration, telemetry (`core/src`) | - | load, validate; initialise |
| incremental statistics (`incremental_stats.rs`) | - | not compiled: `main.rs` has no `mod` for it |
| periodic backfill (`scripts/backfill-loop.sh`, `docker-compose.yaml`) | the end of its sleep | a window of six hours, then a sleep of six hours |
| schema, views, dashboards, deployment | - | declarations and scripts |

Interactions. A backfill run is two tasks: the fetcher reads pages from S3 and
sends them over a bounded channel; the main task inserts each page and lets the
checkpoint follow. Both use one connection pool. The fetcher is ahead of the main
task by the pages in the channel. Runs follow each other through the two tables
alone. The live process does the same in one task, which Ctrl-C interrupts at any
await; `run --backfill-from` is a backfill and then a live process. Several
processes may run at once (docker-compose runs the periodic backfill as a service
of its own): they share the fills table, the one checkpoint row and the markets
table, and PostgreSQL's unique constraints and row locks are what they interact
through. An insert asks the market registry for the market of every fill, which
may query the table, call the exchange's API and write to the table.

Hard parts: crashes between an insert and the save of its checkpoint; pages in
flight when a checkpoint is saved; retries of partly committed inserts; positions
kept twice, as a time that decides which hours are skipped and as a cursor that
decides what is read; hours that appear in S3 late; errors of one hour of a
parallel page; three thresholds on missing hours (6, 12, 24) over nearly the same
ranges; deadlocks of overlapping inserts; two writers of one checkpoint row
without a lock; a market met by two processes at once; a transaction that waits
for a second connection. `PROJECT.json` lists each hazard at its line with the
properties aimed at it.

What makes each part correct:

- pipelines: the checkpoint never promises hours that were not stored; time and
  cursor agree; the count never exceeds the table; saved positions do not go back;
  runs end, and the live process keeps up; both are readers that crash and lose
  nothing but what was not saved;
- S3 source: the cursor of a page is the hour after those it read, over midnight
  too; errors are reported or the hour is read again;
- inserts: Ok means stored; a row is counted once; calls return;
- market registry: one id per market, whoever asks first; metadata stays;
- connection pool: tasks never all wait for each other;
- commands and scripts: what one part hands to the next through the row is true.

## 2. Modules

    HourlyTime <- S3Source <- FillTable <- Backfill            <- MCBackfill
                                        <- Continuous          <- MCContinuous
              FillTable <- TwoProcesses <- RunCommand          <- MCRunCommand
                                        <- SharedCheckpoint    <- MCSharedCheckpoint
                               Backfill <- PeriodicBackfill    <- MCPeriodicBackfill
                                           Store               <- MCStore
                                           MarketRegistry      <- MCMarketRegistry
                                           ConnectionPool      <- MCConnectionPool
                                           CheckpointedReader

    S3Source, FillTable <- IngestLemmas <- BackfillProofs     (PeriodicBackfill's too)
                                        <- ContinuousProofs
                                        <- CompositionProofs  (RunCommand, SharedCheckpoint)
    StoreProofs, MarketRegistryProofs, ConnectionPoolProofs, CheckpointedReaderProofs

TwoProcesses INSTANCEs Backfill and Continuous on shared tables, and CompositionProofs
their proofs;
Backfill, Continuous and RunCommand INSTANCE CheckpointedReader, which they
implement.

**HourlyTime** - clock arithmetic. A time is a number of ticks; an hour is its
index since the epoch. The string `YYYYMMDD_H` is the record `[date, hour]`,
because the code computes the two fields separately.

**S3Source** - `fetch_page` as an operator of the position, the clock and the
sets of published and failing objects. `HoursUntilNow` follows the cast to
`usize`. `SinglePage` follows the hand-made carry at midnight, `has_more`
included. A fill is its tick; `File[h]` holds fills of hour `h` only, in time
order, so `fills.last()` is the latest.

**FillTable** - the checkpoint and the queries of `store.rs`: `CountIn`
(check_time_range_exists), `Missing` (get_missing_hours, which counts only fills
inside the range and stops before the hour of its end), and `Prefixes`, what an
insert that fails leaves.

**Backfill** - `run_backfill` and `spawn_fetcher`, as a sequence of runs.

| state | code |
|---|---|
| `fills`, `ckpt` | tables `fills`, `ingest_checkpoints` |
| `main` (idle, decide, recv, insert), `mem`, `total`, `updated`, `work` | `run_backfill`: `checkpoint`, `total_processed`, `any_checkpoint_updates`, the batch in hand |
| `fetcher`, `curStart`, `cursor`, `missing`, `page` | `spawn_fetcher`: its program counter, `current_start`, `cursor`, `missing_hours`, the batch to send |
| `reading`, `fetchTries`, `insertTries` | the hour count a call of `fetch_page` began with; `attempts` of `retry_with_backoff` |
| `channel` | the mpsc channel |
| `swallowed`, `stepped`, `base`, `runBase` | history, read by no action |

| action | code |
|---|---|
| `BeginRun` | load the checkpoint; reset and save it when more than `RefreshGap` hours are missing below it |
| `DecideComplete`, `DecideFetch` | lines 92-208: return at once, or choose the start and spawn the fetcher |
| `FetcherInit`, `FetcherReachesEnd`, `FetcherSkips` | the missing list; the loop's exit; a skipped hour |
| `FetchCall`, `FetchReturn`, `FetchError` | a call of `fetch_page` under retries: the clock is read when it starts, the objects when it returns |
| `FetcherSend`, `Recv` | the channel, with its bound |
| `InsertOk`, `InsertError` | `insert_fills` and all that follows it in the loop body, the save (whose timer may be due or not) included; an error after a committed prefix |
| `Finish` | the final save and the fetcher's result |
| `Crash`, `Tick`, `Publish` | the environment |

An error of a query or save leaves `run_backfill` and ends the process: the same
states as `Crash` before or after it. The branch for a closed channel (line 663)
cannot be taken, because the receiver lives until the process ends.

**Continuous** - `run_continuous`: `Start` (load, reset, first position; `ConfigStarts`
are the values `start_from` can have, the default of seven days before loading included),
`FetchCall`/`FetchReturn`/`FetchError`, `InsertOk`, `InsertError`, `Save`,
`Shutdown` (the call in flight is dropped; an insert has committed a prefix),
`Crash`. The waits of 30 and 60 seconds are the state "call", in which time may
pass. S3 errors are `Error::Ingest` or `Error::Validation`, not retryable, so the
last attempt ends the process; database errors are retryable.

**CheckpointedReader** - what both pipelines promise, with no clock, cursor,
channel or page: a reader loads the row (or first lowers what it says), puts hours
into the table, counts new fills, and saves which hours it is done with. It may
crash at any step. `skipped` are the hours nobody promises. Backfill maps
`row.done` to the hours from its first run's start to the hour the saved cursor
names, and its running total and the hours inserted by the main task to
`reader`; what the fetcher has read ahead is hidden. Continuous maps its position
in the same way.

**TwoProcesses** - what the next two share: the state of a backfill and of a live
process, each with its own copy of the checkpoint, over one table and one row.

**RunCommand** - `run --backfill-from` (`main.rs` 108-145): Backfill, and when it
returns Ok, Continuous, over the same tables; restarted when it ends. Its state is
`mode`, the variables of both, and `configFrom`: the configured `start_from`, which is
put aside during the backfill and which the live process uses if it finds no row. When
the configuration has none, it is `LookBack` before the time at which the command
loaded it (`core/src/config.rs` 84-86).

**PeriodicBackfill** - `backfill-loop.sh` around Backfill: `Round` computes the window
from the clock and begins a run, `Running` goes on and sets the alarm of the sleep
when the run ends, whatever its exit code, `RoundCrash` is a dead indexer (the loop
sleeps) or a dead container (restarted at once).

**SharedCheckpoint** - Backfill and Continuous at the same time over one table and one
row, the last writer of which wins. It reuses their steps, three of which hold several
awaits (section 6).

**Store** - `insert_fills` in full, with several writers: chunks, the COPY
transaction, the fallback transactions, the caller's retries; rows are inserted
one by one and held until the transaction ends; a row held by another
transaction is waited for; PostgreSQL aborts a transaction of a cycle of waits;
a commit may take effect and its answer be lost.

**MarketRegistry** - several processes. `cache` is `MarketRegistry.markets`,
`table` and `nextId` the SQL table and its SERIAL sequence.

| action | code |
|---|---|
| `Start`, `LoadMarketsFromDb` | `MarketRegistry::new` |
| `CacheHit`, `CacheMiss` | `get_or_create_market` up to the query |
| `SqlSelect`, `SqlInsert`, `SqlError` | the two statements of the SQL function; the INSERT takes an id of the sequence, conflict or not |
| `ApiMeta`, `PerpsDone`, `ApiSpotMeta`, `UpsertMarket`, `RefreshDone`, `RefreshError` | `refresh_metadata`, market by market in the API's order; its errors are only logged |
| `Relist`, `Crash` | the exchange; the operating system |

**ConnectionPool** - one backfill process: the main task's inserts with the market
lookups inside them, and the fetcher's count, on one pool. A connection dropped
with its transaction open goes back a little later (`Returned`).

**IngestLemmas, \*Proofs** - section 5.

Operators marked `\* mutant` are plausible wrong versions of the definition that
follows them; substituting one must break the property `PROJECT.json` pairs it
with. The specifications do not use them.

## 3. What the runs check

| run | instance | distinct states | shows |
|---|---|---|---|
| `backfill` | MCBackfill.cfg | 658,568 | eight invariants, `SavesMoveForward`, the refinement, `RunEnds` |
| `continuous` | MCContinuous.cfg | 223,201 | four invariants, `LiveSavesMoveForward`, the refinement, `KeepsUp` |
| `store` | MCStore.cfg | 14,680 | four invariants and `EveryCallReturns` |
| `run_command` | MCRunCommand.cfg | 289,628 | the row handed from mode to mode, one reader, `GoesLive` |
| `periodic` | MCPeriodicBackfill.cfg | 961,168 | `LoopCovers` |
| `shared` | MCSharedCheckpoint.cfg | 1,524,422 | `CountBounded`, `BothPassesCovered` |
| `market_registry` | MCMarketRegistry.cfg | 165,145 | three invariants, `MetadataStays`, `PlaceholderReplaced` |
| `pool` | MCConnectionPool.cfg | 1,595 | three invariants, `CallReturns` |
| `backfill_skip`, `backfill_complete`, `backfill_has_more`, `continuous_resume` | | | findings, section 4 |

Backfill.
`CheckpointSound`: every hour a saved checkpoint says has been read is stored,
unless its GET failed inside a parallel page or the fetcher stepped over it.
`CursorAhead`: time and cursor of a position agree.
`RecordsBounded`: `records_processed` never exceeds the table.
`GoBackUnreachable`: the branch at line 147 (24 hours) is dead, the reset at line
60 (12 hours) has always come first.
`EveryPageAdvances`: the guard at 236 refuses no page with fills.
`WindowCovered`: a fetcher that reached the end left out no hour of its window.
`BehindTheClock`: although the cast of a negative hour count makes a page of future
hours parallel, no checkpoint gets ahead of the clock.
`SavesMoveForward`: apart from the reset, saves never go back, over runs and crashes.
`ImplementsReader`: the refinement. `RunEnds`: liveness.

Continuous. `LiveCheckpointSound`, `TimeBehindCursor`, `LiveRecordsBounded` as
above for one task. `LiveSavesMoveForward`: the hour of the saved time and the
count never go back while the process runs. The time itself can, within its
hour: a reset puts it one tick before a gap, where there need be no fill, and at
the end of the data the process reads that hour again. `KeepsUp`: an hour that S3
has, together with those from the checkpoint's base to it, is stored in the end.

Store. `OkMeansStored`, `NoDoubleCount`, `PrefixStored` (what a retry or a restart
finds), `EveryCallReturns`.

RunCommand. `PromiseAcrossModes` and `CountSpansModes`: the row stays true and its
count goes on over changes of mode, restarts and errors. `ImplementsReader`: both
modes together are one reader. `BackfilledBeforeLive`: from an empty database, what
README.md:70 says ("Backfill from date to NOW, then go live"), also when the backfill
leaves no row and the live process begins at its `start_from`. `GoesLive`: liveness.

PeriodicBackfill. `LoopCovers`: rounds that each get to the end of their window, with
windows that meet, leave no hour out, though windows begin and end inside an hour.
SharedCheckpoint. `CountBounded`; `BothPassesCovered`: neither process loses an hour of
its own pass to the other.

MarketRegistry. `OneIdPerMarket` over tables, caches and answers;
`RefreshTakesEffect`: a refresh that ended well is seen in cache and table;
`MetadataStays`: no placeholder overwrites metadata; `PlaceholderReplaced`: liveness,
with its two honest exceptions (section 4).
ConnectionPool. `SomeoneCanMove`: no deadlock inside the process; `NothingKept`: no
connection leaks from a failed call; `CallReturns`: liveness without any timeout.

**Bounds.** Two ticks to an hour (so "one millisecond before" is inside the hour
before), three hours to a day (midnight is crossed twice), pages of three hours,
parallel from two (the code: 8 and 4), thresholds 1 and 2 (12 and 24; live 1 for
6), two fills make an hour complete (1000). The files have hours below that
number, one or two hours late, and in the live instance two hours with no fill in
a row. Channel of one page, two attempts. The backfill instance has two runs over
three windows, one of which ends inside an hour and one of which lies ahead of the
clock, and starts from an empty database or from one of two a live process left
with gaps under its checkpoint; one error or crash, anywhere. The live instance
starts empty or from a checkpoint, with two errors, crashes or shutdowns. RunCommand
has two faults and three runs, because only a fault ends a command; no `start_from` is
configured, and the default lies two and a half hours back, after the date: a backfill
that returns Ok without a row, and a live process that then begins there, both happen. PeriodicBackfill
has pages of four hours and two rounds, which is where the end of one window and
the start of the next meet. SharedCheckpoint has pages of two hours, five hours and
one fault: two runs against one live process. The thresholds keep the order they have
in the code, and every branch of the code is taken within these bounds (each action
of each module fires). In Store, a batch of five rows with chunks of three and
transactions of two gives a fallback of several transactions, a second chunk, a
fill repeated inside the batch, one already stored, and opposite orders in the
two writers; three faults reach two fallbacks and a retry. In MarketRegistry two
processes, a perpetual and a spot market, one change of a listing and six ids let
every race of two lookups and two refreshes happen, and the ids run out.
ConnectionPool has the two connections that the second-connection pattern needs.
`MaxRuns`, `MaxFaults`, `MaxNow`, `MaxVersion` bound the search only.

**Fairness.** Backfill: weak fairness of the main task and of the fetcher. The
tokio runtime schedules a task that can run, and every call they await (S3,
PostgreSQL, a sleep) ends by an answer or a timeout. Nothing is assumed of the
operator who starts runs, of the clock or of the bucket. Continuous: weak
fairness of the process's steps, starting again included, which is what an
operator or supervisor does; none of the clock or bucket, so `KeepsUp` speaks of
hours that are published. RunCommand: the same for the command's tasks and its
restart. Store: weak fairness of each writer's inserts and commits and of
PostgreSQL's deadlock detection; none of errors. MarketRegistry: weak fairness of
calls in progress; strong fairness of the lookup of each market by each process,
because fills of every market keep coming (a process is not always at the point
where it asks, hence strong). ConnectionPool: the main task, the fetcher's count
and the pool's return of dropped connections; none of the timeouts, so that
`CallReturns` does not rest on them.

Deadlock is checked in every run. In Backfill, PeriodicBackfill and Store, `Rest`
and `LoopRest` stand for the end of a bounded behaviour; the others run on.

## 4. Findings

Each is a property quoted from the repository that TLC refutes.

1. `SkipsOnlySufficientHours` (pipeline.rs:575): the last, partial hour of a
   window is never in the missing list, so it is skipped with no data.
2. `MissingHoursAreFetched` (pipeline.rs:113): after the message that all data
   will be fetched, the run returns because the checkpoint is past the window.
3. `NoMoreMeansFuture` (s3_source.rs:470): after hour 23 `has_more` compares a
   time one day late; a backfill that reads that hour as a single page stops at
   midnight.
4. `ResumesWhereItStopped` (schema.md:222): after more than seven days of pause
   the live process resets its checkpoint forward, past hours not read.

Known limits that the properties state as exceptions or conditions, with no run of
their own:

- An hour that fails inside a parallel page is dropped and the checkpoint moves
  past it (`swallowed`), although README.md:11 promises retries: the backoff ends at
  the whole page. So is one that appears in S3 after it was passed (`stepped`).
- The loop never asks again for the window of a failed round (backfill-loop.sh:30),
  and since the sleep begins when a round ends, windows drift apart (lines 3, 34):
  `LoopCovers` is about rounds for which neither happened.
- A live process that restarts beside a backfill resumes at whichever row was saved
  last (store.rs:257), which may be past hours it had not read. The row is one for
  two passes, so SharedCheckpoint states coverage of each pass and not of the row.
- With a checkpoint present, `run --backfill-from` goes on from it and reads gaps
  below it only when there are more than twelve (README.md:70):
  `BackfilledBeforeLive` is checked from an empty database, and proved for one whose row
  says nothing untrue of the hours from the date on.
- Before the first save, a run that finds 1000 fills in every hour of its window returns
  Ok without a row (pipeline.rs:93; store.rs:348), and the live process begins at its
  `start_from`. An insert that was interrupted between two transactions may have left
  1000 fills of an hour that has more: the rest is below that position and nobody reads
  it. `PresentIsWhole` excludes this; in the instance, no hour has more than `MinFills`.
- `backfill_to` given to `run` and no row left: nothing hands the end of that window to
  the live process, which begins at its `start_from`. `StartsInTime` asks that it lies
  at the date or before.
- A placeholder another process has written is loaded into a cache at the start and
  hit from there: no lookup of that process refreshes it. Upserts use up an id of
  the SERIAL sequence each; when it ends, no new market can be written. Both are
  exceptions of `PlaceholderReplaced`.
- The id of a market the API does not list is not cached: each of its fills costs
  a query and a refresh of all metadata (market.rs:253).
- `Config::validate` accepts a pool of one connection, with which no chunk that
  needs a lookup can be written; `SomeoneCanMove` is proved for two or more.

## 5. What is proved

TLAPS checks these for every value of the constants that satisfies the named
assumptions (`TimeAssumption`, `SourceAssumption`, `NoneAssumption`,
`MinFillsAssumption`, `BackfillAssumption`, `ContinuousAssumption`,
`StoreAssumption`, `RegistryAssumption`, `PoolAssumption`, `PartsAssumption`,
`RunAssumption`, `SharedAssumption`, `PeriodAssumption`), each of which TLC evaluates
on the instances. A theorem that needs more says so in its statement:

| theorem | condition | why it is needed |
|---|---|---|
| `GoBackIsDead`, `BackfillImplementsReader`, `PagesAdvance`, `CommandImplementsReader` | `RefreshGap <= GoBackGap` | 12 and 24 in the code; with the opposite order the go-back branch is taken |
| `WindowIsCovered` | `ProperWindows` | an empty window is covered by no page |
| `PagesAdvance` | `WindowsStartOnFills`, `RowsInTime` | below |
| `NeverAheadOfClock` | `RowsBehindClock`; `[]ShortCalls`, an assumption on behaviours | below |
| `LoopLeavesNoHour` | `EmptyDatabase` | a row of another process may begin after the window |
| `DateReachedBeforeLive` | `RowsKeepTheDate`, `StartsInTime`; `[]PresentIsWhole`, an assumption on behaviours | below |
| `TwoAreEnough` | `MaxConnections >= 2` | section 4 |

The instances of `backfill` and `run_command` satisfy the conditions of the theorems
about them, that of `periodic` is the empty database.

**Backfill.**
- `TypeCorrect`: `[]TypeOK`. Not immediate: that a page is well typed needs that
  the maximum of a finite set of naturals is one of them, that cursors round-trip
  through hours, and that `HoursUntilNow` stays in `0..PageHours` (IngestLemmas).
- `CountNeverExceedsTable`: `[]RecordsBounded`. Bounding the saved count alone is not
  inductive: the count in memory and the running total flow into it, so
  `CountsOK` bounds all three. The running total grows by the number of new
  fills, which is exactly what the table grows by.
- `GoBackIsDead`: `[]GoBackUnreachable`. From the reset: after `BeginRun`, at most
  `RefreshGap` hours are missing between the run's start and its checkpoint, and
  the table only grows.
- `SavesGoForward`: `SavesMoveForward`, with `RunAhead`: the checkpoint in memory is
  at least the saved one while a run lasts.
- `CursorStaysAhead`: `[]CursorAhead`. A position travels from the fetcher through the
  page and the channel into memory and the row, so `Positions` says it of all.
- `CheckpointIsSound`: `[]CheckpointSound`. The invariant (`SInv`) adds `Coverage`:
  every hour between the run's base and the fetcher's position was read, stepped
  over, or is in a page that still lies in the fetcher's hand, the channel or the
  main task's, before any page with a later cursor. That is what lets the checkpoint
  follow a page the moment it is inserted.
- `BackfillImplementsReader`: `ImplementsReader`. Needs also that pages come in order
  of time (`Order`), so that the guard at line 236 does not refuse a page (lemma
  `NoneRefused`), and that the go-back branch is dead (`NoGoBack`).
- `WindowIsCovered`: `[]WindowCovered`, from `RInv` and what the end of the fetcher's
  loop says of its position (`EndPart`).
- `PagesAdvance`: `[]EveryPageAdvances`. Until a run's first update, the fetcher reads
  only hours after the time of the checkpoint it loaded, or the hour of that time when
  that is the time of a fill, which then is in the page (`AfterInv`). After it,
  `NoneRefused` applies. The conditions exclude a window that starts on the last tick
  of an hour where there is no fill (a reset may have left the saved time on that very
  tick) and ask that a row there at first has the time of a fill or of a reset. Without
  them the property is false: the first page of such a window is refused. It is
  harmless, nothing is saved or lost.
- `NeverAheadOfClock`: `[]BehindTheClock`. A page of hours that have not come is read in
  parallel, because a negative count is cast. It has no fills, since `HoursGone`: only
  hours that are over are published; unless the call of `fetch_page` lasts until they
  come. `ShortCalls` says that no call outlasts an hour. The code sets no timeout of its
  own on S3, so this is an assumption on the environment and not on a constant: the
  variable `called` records when the last call began. Without it the property is false.
  In the instance the clock moves by half an hour, so that there every call is short.

**Continuous.** `LiveTypeCorrect`, `LiveCountNeverExceedsTable` (`LiveCountsOK`:
the running total is bounded too). `TimeStaysBehind`, `LiveCheckpointIsSound` from
`SoundInv`: the position in memory, as well as the row, promises only hours that are
done, and its time lies before its cursor. `LiveSavesGoForward` and
`LiveImplementsReader` follow from it step by step.

**PeriodicBackfill.** `LoopLeavesNoHour`: `[]LoopCovers`, in BackfillProofs. `LoopInv`
adds four things to `SInv`: pages hold whole hours (`WholePages`); where a fetcher that
is done stands is behind hours that were read or are on their way (`DonePart`); windows
move with the clock, so that no promise begins after one still to come (`Began`); and,
while no round failed, the table has whole hours but for an insert that is tried again,
and the hours that rounds which are over were asked for were read (`Past`).

**RunCommand and SharedCheckpoint.** CompositionProofs INSTANCEs the proofs of the two
parts (BP, LP) and uses their lemmas: a step of the composition is a step of one part.
- `PromiseIsKept`: `[]PromiseAcrossModes`; `CountGoesOn`: `CountSpansModes`. `RunInv` is
  the invariants of both parts and `Apart`: only one runs. A step of one keeps the
  invariant of the other, which is not running, because the row it leaves is one that
  the other can load (`BackfillKeepsLive`, `LiveKeepsBackfill`).
- `CommandImplementsReader`: `ImplementsReader`. `ReadInv` adds what the refinement of
  Backfill needs of its own runs.
- `DateReachedBeforeLive`: `[]BackfilledBeforeLive`. `FromPart` says that the hours from
  the date to where the promise of the row, of the run or of the live process begins are
  done; a reset only lowers where it begins. The hard case is a live process that finds
  no row and begins at its `start_from`, by default seven days before the command loaded
  it: the hours up to there were read by the run before it. That is `StopPart` of
  BackfillProofs: a fetcher ends at the end of its window or at a page without
  `has_more`, and either way every hour up to `ParallelMin` (four) before that end was
  read or is on its way (lemmas `SinglePageIsLate`, `LastPage`, `StoppedIsRead`), because
  the window ended before the call was made. So `StartsInTime` asks that `start_from` is
  at the date or before it, or that the backfill is up to now and `start_from` at least
  four hours old, as the default is: README.md:70 is within it. `RowsKeepTheDate`: a
  row there at first promises nothing false from the date on (else the backfill goes on
  from it). `PresentIsWhole`: section 4.
- `SharedCountBounded`: `[]CountBounded`; `SharedBothCovered`: `[]BothPassesCovered`.
  With two writers nothing more than types, positions and counts holds of the row.
  So each pass is proved as one that never saves: SB and SL are the parts with a row
  that is always empty and a promise that begins where the pass began to read. What the
  other does is then only that the table grows (`OthersPass`).

**CheckpointedReader.** `ReaderKeepsItsWord`: the row and the process are sound
(`ReaderInv`). With the two refinements this gives the same promise to the pipelines by
another way.

**Store.** `StoreTypeCorrect`, `OkIsStored`, `CountedOnce`: any number of writers
and any batches. `Ownership` says that what open transactions hold is
disjoint from the table and from each other, which is what makes rows affected add
up; `Progress` says that the rows before the open transaction are in the table and
those it has passed are there or held, which is what makes the last commit of a
call complete its batch. `CommitsNoHole`: `[]PrefixStored`, with `PrefixInv`: the
table has a prefix of each batch up to a transaction's end.

**MarketRegistry.** `RegistryTypes`: `[]TypeOK`, the end of the id sequence included.
`MarketHasOneId`: `[]OneIdPerMarket`. `RegistryInv` adds what is
known in flight: the id the SQL function returned is the table's, rows have
distinct ids below the sequence. `MetadataIsKept`: `MetadataStays`, by lemma
`RowWritten`: a write keeps the id of a row that is there. `RefreshIsEffective`:
`[]RefreshTakesEffect`, for any number of processes. `EffectInv`: in the middle of a
refresh, the answers that are not left to upsert are in cache and table; the two answers
of a refresh are about different markets; no other process takes a row's metadata away.

**ConnectionPool.** `PoolTypes`: `[]TypeOK`. `TwoAreEnough`:
`MaxConnections >= 2 => []SomeoneCanMove`; `NothingIsKept`: `[]NothingKept`. `PoolInv`
counts, for each control state, what the main task has and whether it waits.

Only model-checked: liveness (`RunEnds`, `KeepsUp`, `EveryCallReturns`, `GoesLive`,
`PlaceholderReplaced`, `CallReturns`), because the prover does not reason about
fairness and ENABLED. Every invariant, action property and refinement of the passing
runs is stated by a theorem, under the conditions above.

## 6. Not modelled

- In SharedCheckpoint, a save of the other process between the awaits that one step of a
  part holds: `BeginRun` (get_checkpoint, get_missing_hours and the save of the reset,
  pipeline.rs 50-85), `InsertOk` of the backfill (insert and save, 224-308), `Start`
  (get_checkpoint, get_missing_hours and save_checkpoint, 363-401). For a process alone
  the steps are as fine as the code's, a crash between the awaits included. The two
  properties checked there do not depend on it: a count is of rows the process itself
  inserted, and a pass is followed in memory.
- Parsing of the three S3 formats, and the exact text of cursors; a cursor that does
  not parse.
- Prices, sizes, addresses: fills of one tick are one fill, and the unique key is
  the tick. The market of a fill matters in MarketRegistry and ConnectionPool alone.
- `get_market_info`, `update_daily_stats`, `refresh_hourly_stats_view`,
  `get_latest_fill_timestamp`, `health_check`: no code calls them.
- Incremental statistics: not compiled.
- Configuration and telemetry: values read once at the start; they are the constants.
- Materialized views, dashboards, deployment other than the loop.
- In ConnectionPool, the live process: it has one task, whose use of the pool is the
  main task's here.

## 7. Plan

1. SharedCheckpoint with more than one live process, and what a restart beside a
   backfill may resume at, as a stated and refuted property.
2. `DateReachedBeforeLive` without `PresentIsWhole`: an interrupted insert before the
   first save, as a stated and refuted property on files with more fills than `MinFills`.
3. The safety parts of the liveness properties as theorems: what each fair step
   brings nearer.
