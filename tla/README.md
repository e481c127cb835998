# Verification of quant_execution

TLA+ models of the trade executor in `src/`, the TLC configurations that check them on small
instances, and proofs, checked by TLAPS, of the theorems that carry the most weight. Paths below
are relative to `src/src/quant_execution/` unless they start with `src/`.

## 1. The system

quant_execution buys and sells on price ticks. Notes armed in a note-taking service say at which
price a symbol is to be bought and at which it is to be sold again. Two executor processes, one
for paper and one for live trading, consume price ticks from Kafka, open a position when a tick
matches a note, close it at its target price or at the market close, and record every trade as
one row of a shared Postgres table. A reporter process aggregates the closed trades of each day
and an API serves the tables.

| Component | State it keeps | Operations | Talks to |
|---|---|---|---|
| Position book, `domain/positions.py` | positions by trade id: state, quantity, two broker order ids; one lock | open, remove, mark_open, claim_exits, claim_all_open, release_exit, snapshot | called by three threads; positions are shared objects, and two of their fields are assigned outside the lock |
| Execution service, `domain/services.py` | `_seen` keys, `_attempts` per signal; one lock | execute, check_exits, liquidate_all, forget, seed | book, broker, cash, writer |
| Live reconciler, `domain/services.py` | its snapshot | reconcile_once: poll and apply each pending entry and exit | book, service, broker, cash, writer |
| Market-close liquidator, `domain/services.py` | `_last_run` | maybe_liquidate | service |
| Watchlist store and refresher, `domain/matching.py` | the snapshot; `_last_run` | load at startup, reload at the open, match | watchlist client; read by the consumer |
| Watchlist client, `clients/watchlist_client.py` | none | fetch_active, page after page | note-taking service |
| Database writer, `repository/async_writer.py`, `trades_repo.py` | bounded FIFO queue, a stop event | insert, update, batches in transactions, stop | all threads of an executor; Postgres |
| Broker client, `clients/alpaca_client.py` | none | submit_order, get_order, with retries | Alpaca |
| Cash client, `clients/cash_client.py` | none | balance, place, capture, release, with retries | cash service |
| Executor process, `workers/executor.py` | the objects above | rehydrate, process_message, start threads | Kafka consumer |
| Kafka consumer, `kafka/consumer.py` | the group's offsets | poll, handle, commit | Kafka |
| P&L reporter, `domain/pnl.py`, `workers/pnl_reporter.py` | `_last_run` per mode | maybe_report: query, aggregate, upsert | the trades table and `daily_pnl` |
| API, `api/` | none | read-only queries | the tables |
| Migrations, `src/alembic/`, `wait_for_table` in `db.py` | the schema | relocate old tables, upgrade, in one transaction under an advisory lock | Postgres; the executors wait for the table |
| Configuration, logging, supervision | settings | start and restart processes | |

One executor has up to five threads. The **consumer** thread handles one tick at a time: entries
first, then exits. The **liquidator** takes every open position at the close. The **reconciler**
(live only) asks the broker about pending entries and exits. The **refresher** replaces the
watchlist. The **writer** applies the writes all the others hand to it. Two locks protect the
book and the keys; what lies between two locked sections, and above all between a remote call
and the assignments that depend on its answer, is open to every other thread.

What is hard here, and hardly reached by the tests of the repository (which drive one object at a
time with fakes): a tick and the close that take one position; a reconciler that applies an
answer about a position other threads have moved on; a reply that is lost after the effect took
place; an order that dies half filled; one of several claimed exits that fails; a signal that
trades several times in a day under keys derived from one another; a full queue, a failing batch
and a stop in the middle of a batch; a schedule that ticks a day off before or after the work,
with a clock that moves on meanwhile; a list that changes while it is paged through; a process
that comes back on a table its last writes never reached; a request that is repeated although it
took effect, or arrives after it was given up; a migration that dies in the middle of a move, or
runs twice. Every one is
listed with its line under `hazards` in `PROJECT.json`.

What correctness means, component by component:

* book and service: an exit is submitted by one thread; no two trades share a key; a signal is
  re-entered only after its previous trade was sold; never more is sold than was bought; every
  working order and every held dollar belongs to somebody; pending entries and exits are resolved;
* writer: writes of a trade stay in order, a row never goes back, and a write that
  is dropped is dropped in one of three known ways;
* watchlist: a load is complete, every session has the list of its day;
* reporter: reports of consecutive days leave no gap, a second report of a day loses only
  trades that are not closed any more, the failure of one mode does not cost the other its row; the figures of a row are what they mean;
* restarts: what a crash forgets is never bought again or sold twice, what the table records
  as out or held is in the book, and a paper position outlives the process that opened it;
* clients: an order is created once, success is reported only of what was done, a call ends;
* migrations: no table with rows is orphaned, revisions become visible together and once.

## 2. The modules

| Module | Models | State |
|---|---|---|
| `Domain` | statuses, ticks, matching, sizing, idempotency keys: pure operators | none |
| `Broker` | Alpaca as `alpaca_client.py` relies on it, and what the market does to an order | `orders` |
| `PositionBook` | each locked method of the book is one operator | `trade pos quantity entryOrder exitOrder` |
| `ExecutionService` | the process: consumer, liquidator, reconciler, market and clock around the book and the keys | the rest of the executor |
| `SignalLifecycle` | the abstract specification: what a process promises about a signal and its trades | `phase signal` |
| `ExecutionSafety` | all properties of the executor, its inductive invariants, its fairness, the refinement mapping | none |
| `ExecutionProofs` | theorems about the executor | none |
| `AsyncDbWriter`, `AsyncDbWriterProofs` | the writer and the rows it writes, with properties; theorems | queue, batch, transaction, table |
| `Watchlist`, `WatchlistProofs` | refresher, store and paging client, with properties; theorems | notes, snapshot, page, clock |
| `PnlReporter`, `PnlReporterProofs` | the reporter and the table it reads, with properties; theorems | rows, schedule, clock |
| `Recovery`, `RecoveryProofs` | `ExecutionService` with a table that may be behind, crashes and `rehydrate_positions`, with properties; theorems | the columns and rows a restart reads |
| `RemoteCall` | the abstract specification of a call to the broker or the cash service | `effect outcome` |
| `ClientRequest`, `ClientRequestProofs` | the retry loop of both HTTP clients, with properties; theorems | loop, request, reply, effects |
| `DailyPnl`, `DailyPnlProofs` | `compute_daily_pnl`, with properties; theorems | the trades read, the sums, the row |
| `Migration`, `MigrationProofs` | `alembic upgrade head` by several migrators, and the executors that wait for it, with properties; theorems | committed and uncommitted tables, lock |
| `MCExecution`, `MCRecovery`, `MCDbWriter`, `MCWatchlist`, `MCPnlReporter` | the instances TLC checks, where a configuration alone does not make one; `ClientRequest`, `DailyPnl` and `Migration` are run as they are | none |

### The executor

One behaviour of `ExecutionService` is one process, paper or live (`Paper`). A step is what a
thread does between two points at which another thread, the broker or the clock can make a
difference: one locked section, or one remote call with the assignments after it. A trade id is a
member of `Trades`; it indexes the book, the rows and the holds.

| Code | Actions |
|---|---|
| `process_message` and the consume loop | `Poll`, then `Dedup`/`SizingFails`/`Enter` for each armed entry, `ClaimExits`, `ExitsDone`; `SkipMessage` is the loop that logs an error and goes on |
| `ExecutionService.execute`, paper | `Enter`, `FillPaper` |
| `execute`, live, `_reserve_cash` | `Enter`, `CashHeld`, `InsufficientFunds`, `ReserveFails`, `ReserveMalformed`, `EntryAccepted`, `EntryFails`, `EntryMalformed`, `ReleaseAfterFailure` |
| `check_exits`, `liquidate_all`, `maybe_liquidate` | `ClaimExits`, `Liquidate` |
| `_submit_exit` | `ExitPaper`, `ExitAccepted` then `LogExit`, `ExitFails`, `ExitMalformed` |
| `forget`, and the key that `execute` composes and takes | `Forget`, `NextKey`, `TakeKey`, inside the actions of the callers |
| `PositionReconciler` | `Snapshot`, `PassOver`, `Fetch`, `FetchMalformed`, `EntryFilled`, `EntryDead`, `ExitFilled`, `ExitDead`, `StillWorking`, `SettleHold` |
| the market and the clock (external) | `MarketFill`, `MarketKill`, `CloseReached`, `NextDay` |

`_submit_exit` is two actions on purpose: the exit order id is assigned to the shared position
before the row update is enqueued, and the reconciler can act in between. The watchlist is replaced
at any time, so `Poll` takes any set of entries that match the tick. `row[t]` is the status the
writes handed over so far leave; that the writer really applies them in that order is what
`AsyncDbWriter` shows, and that they can be lost in a crash is what `Recovery` adds. What may go
wrong in a remote call is the constant `Faults`: a `BrokerError` for an order that exists, a reply
that does not validate (an error no handler catches), a hold that was placed although the call
raised, a settlement that fails. A call that fails with no effect needs no fault: it is always
possible.

`SignalLifecycle` knows neither threads nor broker: a signal of a day has at most one trade that
is not over; it is traded again only when all its trades were closed by an exit; an entry that
came to nothing blocks it; only held positions are closed. `ExecutionSafety` maps the executor to
it (`Phase`), and `LifecycleSpec` is both checked by TLC and proved.

### Crashes and restarts

`Recovery` extends the executor (`Work` is any of its steps) with what survives a crash. `column`
are the columns that `position_from_trade` reads, written by the same steps of the threads that
set the status. `FallBehind` is the moment after which writes no longer reach the table before
the crash: the writer applies them in order, so what a crash loses is a suffix of what was handed
over, and the table is as it was at some earlier moment. A refused insert (`refused`) costs only
itself, which is the writer with batches of one write; what a larger batch loses with it is in
`AsyncDbWriter`. `Restart` is `main` up to the point where the consumer begins: `Rebuild` and
`Seed` are `position_from_trade` and `seed` over the rows in `RehydrateStatuses`. It is one step
because nothing reads the book meanwhile. `RestartBlind` is the same with a table that cannot be
read, for which the code logs an error and starts with an empty book. Orders, holds, the day and
the clock belong to others and survive. Kafka may deliver a message again after the restart; that
is a tick like any other, since `Poll` takes any tick at any time. `held` and `lost` are history
variables of a paper process: the trades some process took into its book and none sold, and those
of which a crash (or the unique index) lost a write. They are what a rebuilt book is compared
with; the rows are not, since a restart takes the rows back together with the book.

### The clients

`_request` of the two clients is the same loop. In `ClientRequest` the server may apply a request
and answer, apply it and fail to answer, refuse it, or handle it after the client has given it up
(`Break`, then `ServeLate`). Requests are named by the attempt that sent them, since what matters
of an order is the `client_order_id` each of them carries: `submit_order` makes one before the
loop (`ClientOrderId`), and the broker refuses an id it has seen (`taken`). `Retry` is what the
loop does after a server error, a transport error or a body that is not JSON. `RemoteCall` is what `ExecutionService` takes a call to be:
without effect, or with one that it is told of or not. `KeepsContract` says that the loop
implements it.

### The writer

Writes of a trade are numbered: 1 is the insert, the rest are updates. A row is the number of the
write it shows. `Loop`, `TakeFirst`, `Nothing`, `TakeMore` are `run_forever` and `_collect_batch`;
`Begin`, `Insert`, `Update`, `Commit`, `Fail` are `_flush` in its transaction, with the unique
index on the key (`Conflicts`) and the rollback that drops the whole batch; `Write` is `insert` and
`update` by any thread, `Stop` and `Die` the end of the process. `lost` and `ignored` are history
variables: the writes that were dropped with an error in the log, and the updates that were
executed and found no row, of which nothing is logged. A commit that took effect and is reported
as failed is a `Commit` here.

### The watchlist

`Load`, `GetPage`, `FetchFails`, `Swap`, `Mark`, `Reload` are the refresher and the client it
calls, in the order of the code; `Edit`, `OpenReached`, `NextDay` are the service and the clock.
`begun`, `kept`, `quiet`, `loadedOn`, `failedOn`, `ready`, `lateStart` are history variables. A load
is counted for the day on which it began (`begun`), however late its list is swapped in.

### The reporter

`Wake` reads the time once for all modes, `Skip`, `Begin`, `Query`, `Upsert`, `ReportFails`,
`Sleep` are one pass of `maybe_report`, `Restart` is supervisord's. `CloseTrade` and `Save` are
the executors: a trade is closed at one time and its row is in the database at a later one. The
query wants rows that are CLOSED, and a live row can be overwritten with EXIT_SUBMITTED after it
was CLOSED (`ClosedIsFinal`, section 5): that is `Overwrite`, once for each trade, and `reopened` is
its history. Such a trade is closed again by the first poll of an executor that is restarted. A row
of `daily_pnl` is the set of trades it aggregates, which is what the window and the upsert decide.

`DailyPnl` is what `compute_daily_pnl` makes of such a set: `Add` is one turn of its loop, and
`Finish` the division and rounding of the row. Amounts are integers in the smallest unit;
`Rounded` is the half-even rounding of `quantize`, and `Unit` says how many products of a price
and a quantity make one unit of a money column. `Or` is Python's `or`, which passes over zero as
well as over `None`: that is where the three quantities of a trade part ways.

### The migrations

A migrator is one transaction: `Begin` takes the advisory lock, `Relocate` moves one owned table
out of `public` at a time, `ReadVersion` is alembic's, `Upgrade` applies one revision, `Commit`
publishes all of it. `UpgradeFails` and `Crash` roll back and free the lock, as Postgres does;
`Redeploy` starts the program once more in a new container. The database may be at any revision
in the old or the new schema, with or without tables of other projects under our names.
`WaitForTable` is `wait_for_table` of an executor, which sees only what is committed.

## 3. The runs

`tlc -config <cfg> <module>` in this directory repeats any of them. The runs that pass:

| Run | Instance | Distinct states | What it shows |
|---|---|---|---|
| `execution_live` | 2 trades, a long and a short entry of one symbol, prices 0..2, one day, no fault | 167,000 | every order that works at the broker, every held dollar and every claimed position stays accounted for (`OrdersKnown`, `HoldsFollowOrders`, `ClaimsAreServed`, `ExclusiveExit`); live rows follow the documented lifecycle except where the reconciler overtakes the record of an exit, and a CLOSED row is written again only there (`LiveRowsAdvance`) |
| `execution_live_faults` | 2 trades, one entry, prices 0..2, all faults, fairness | 74,000 | with lost and malformed replies: `ReentryAfterExit`, the refinement of `SignalLifecycle`, and `EntriesSettle`, `ExitsSettle`, `CloseClaimsAll` |
| `execution_paper` | 4 trades, two notes of one signal, prices 0..3, two days | 198,000 | same-day re-entries, replayed ticks, keys lost to a price that cannot be sized: `KeysUnique` |
| `recovery_live` | 2 trades, one entry, prices 1..2, one day, lost replies, 2 crashes | 1,250,000 | a table that is behind or unreadable, orders that live on while nobody knows them: `NeverRebuys`, `NoOversell`, `RecordedPositionsTracked` |
| `recovery_paper` | 3 trades, one note, prices 1..2, two days, 2 crashes | 1,240,000 | replayed ticks, re-entries and reused keys across restarts: `PaperBookSurvives`, `BookKeysUnique` |
| `writer_writes` | 3 trades, one of them an earlier row whose key is used again, queue 3, batch 2, 3 writes per trade | 21,000 | order (`RowsAdvance`), the three ways a write can be lost (`NothingElseIsLost`), progress (`WritesSettle`) |
| `watchlist_loads` | up to 4 notes in pages of 2, at most 3 pages, edits at any time, failing loads, loads that last past midnight, 3 days | 104,000 | `PagingIsExhaustive`, `ReloadsEachSession` |
| `reporter_days` | 2 modes that close at different times, 1 live trade, whose row may be overwritten, 2 days of 3 steps, failures, 1 restart | 206,000 | `OnlyReopenedLeave`, `NoGap`, `ReportsEachSession` |
| `daily_pnl` | every list of up to 2 trades: 2 symbols, long and short, prices 1 and 3 or none, quantities 0..2 or none | 665,000 | `MatchesReference`, `AddsUp`, `ResultIsProceedsLessCost`, `RowCoherent` |
| `broker_request` | 3 attempts, all three kinds of request | 390 | `OrderedOnce`, `EffectsBounded`, the refinement of `RemoteCall` (`KeepsContract`), `CallEnds` |
| `migration` | 2 migrators, 1 executor, 1 redeployment, all revisions and layouts | 17,600 | `NothingOrphaned`, `CommittedWhole`, `RevisionsOnce`, `MigrationsSucceed`, `MigratorsEnd` |

One more run, `recovery_exit_failed`, ends in a counterexample; section 5 has it. The type
invariants of the executor, the writer, the reporter, the clients and the daily P&L are proved
(section 4), and so are the invariants that only serve a proof (`IndInv`, `WritesInOrder`); the runs
check those that are not. `RecoveryTypeOK` contains the types of the executor.

**Why these bounds.** The executor's threads meet on one position or on one signal: two trades
suffice for a key to be reused or for a second entry to interleave with the exit of the first; the
three and four of the paper runs allow a re-entry after a re-entry, or one on each of two days. Two
crashes let a restart find what an earlier restart restored. An order of two shares has the one
partial fill that matters, and a notional of 2 makes the prices 0..3 reach every case of sizing:
none possible, two shares, one share, no share. Prices on both sides of buy and target make every
entry and exit rule true and false. For the writer a batch of two can fail between its two tasks, a
queue of three can be full while a batch is out, and three writes are an insert and two updates.
Pages of two and four notes give no page, a short one, a full one, a full one followed by an empty
one; three pages are more than the notes can fill unless they change. Two days are what windows and
`_last_run` of the reporter can confuse, a third one lets a load of the watchlist last from one
session into the next with a session before it; three steps a day separate before, at and after a close, and one restart
repeats a report. Two trades are a win and a loss, two wins, or a trade that counts beside one that
does not; the prices differ by an even and by a negative amount, and a unit of two makes halves
that have to be rounded. Three attempts are a first, a middle and a last one. One redeployment lets
a migrator follow on any state that the two first ones left. Bounds are constants (`Trades`,
`MaxDay`, `MaxWrites`, `MaxPages`, `MaxRestarts`, `DayLength`, `MaxCrashes`, `MaxStarts`, and
`MaxTrades` in `DailyPnl`), and each guard that uses one says so.

**Symmetry** is used over trade ids in the runs of invariants and action properties, never in a run
that checks liveness. **Deadlock** is checked except for the writer, whose process may end, for
`DailyPnl`, a function that returns, and for the migrations, which are over when all migrators have
ended. In the other runs the clock and the market stop at their bounds, but a thread that polls can
always poll again.

**Fairness.** Specifications with `Fair` in their name assume:

* every thread takes another step if it can (`WF` of `Consume`, `SubmitExit`, `Liquidate`,
  `Reconcile`, `Work`, `Refresher`, `Reporter`): each is a loop around a bounded wait, whose body
  catches every exception, in a process that supervisord keeps running (the entry for the live
  executor is commented out in `src/supervisord.conf`: it is started by hand);
* an order at the broker is filled or dies (`WF` of `OrderEnds`): the code submits orders with
  `time_in_force` "day", which the broker ends at the latest with its session;
* a broker that is asked again and again gives an answer that can be read some time (`SF` of
  `Fetch`): a failed `get_order` is repeated in the next pass of the reconciler, every few seconds;
* a client that waits goes on (`WF` of `Client`): its requests have a timeout;
* a migrator that is not stopped takes its next statement (`WF` of `Migrate`, for each one); the
  lock is freed by Postgres whenever a transaction ends, however it ends.

Neither ticks nor the clock, edits, writes, closes or saves are required to happen.

**Mutants.** Every property of a passing run has a mutant in `PROJECT.json`: a definition of the
model replaced by a form it could have in a buggy program (a key that is forgotten without its
counter, an exit released without its state, a partial fill taken for a fill, a stack for a
queue, an upsert for an update, a window that starts at midnight, a counter restored one too
high, a status missing at startup, a retry with an id of its own, a lock that outlives its
transaction), under which TLC finds the
property violated. The mutated forms stand in the modules just before what they mutate.

## 4. The proofs

TLC shows the properties on the instances above, TLAPS for every value of the constants that the
named assumptions allow: any set of trades, entries, prices and days, both sizing rules,
either mode, all combinations of faults, any number of crashes; any queue and batch size; any
lists of notes and any page size; any number of modes, days and restarts; any number of attempts;
any database and any number of migrators; lists of trades of any length with any prices and
quantities. The assumptions (`DaysAssumption`, `SizingAssumption`, `PriceAssumption`,
`EntryAssumption`, `TradeAssumption`, `IdAssumption`, `ModeAssumption`, `CrashAssumption`,
`WriterAssumption`, `WatchlistAssumption`, `NotesAssumption`, `ReporterAssumption`,
`AttemptsAssumption`, `MigrationAssumption`, `NumbersAssumption`, `UnitAssumption`) say what the
settings' validation and the types of the code ensure, and that the values standing for `None` are
no trades, order ids or processes; the writer's also says that the unique index holds for the rows
already in the table. Every one is evaluated by TLC in a run.

A safety property is proved from an inductive invariant: the initial states have it, every step
keeps it, and it implies the property. The invariants were checked by TLC before they were proved.

**Executor** (`ExecutionProofs`). `KeysUnique` and `ExclusiveExit` are not inductive: a fresh key
is fresh because no trade's attempt is beyond the counter of its signal, and exits stay exclusive
because the reconciler acts only on positions that have an exit order. `IndInv` is in two parts,
since the first one also outlives a crash:

* `ProcessInv`: `TypeOK`, with what a thread in the middle of an entry has in its hands;
  `EntryUntracked`: a trade is not in the book while it is being entered; `ExclusiveExit`; and
  `PolledPositions`: the position an answer is about is still in the state it was asked in;
* `CurrentKeys`: counters never fall behind, exactly the keys of current attempts are taken, and
  what is being opened or tracked is a current attempt; and `KeysUnique`.

`PolledPositions` is why stale answers do no harm: a pending entry is moved on only by the
reconciler, and an exiting position with an order id is left alone by both threads that submit.
`Refinement` shows that every step of the executor is a step of `SignalLifecycle` or a stutter:
one by one, how each action moves the phase of the trade it acts on and that the phases of all
others stay, which again needs `CurrentKeys`: forgetting a key must not change the phase of
another trade.

The properties that relate the book to the broker rest on `OrdersInv`, inductive together with
`IndInv`. Its heart is `AnswersHold` and `SharesCovered`. An answer that is still to be applied may
be old, and is not wrong: the order has filled at least that much by now, and it ended as reported
if it ended. From this every open position has a completely filled entry and counts its shares,
and every exit order asks for exactly these. `CountersBacked` says that a counter only ever
moved past an attempt that was sold. With so many actions, the proofs are by
variable: a lemma for each variable of each trade says which action changes it and what is true
before and after (`ActiveStep`, `KeySteps`, `FreesKey`, `NewTrade` and their like), and the parts
of the invariant follow from these lemmas without looking at the actions again. Theorems:
`Inductive`, `TypeCorrect`, `KeysAreUnique`, `ExitsAreExclusive`, `Refinement`, `OrdersInductive`,
`NeverOversold`, `ReentryIsAfterExit`, which hold in both modes and under every fault, and

* `ClaimsServed`, unless a reply is malformed: the error of one leaves the loop over the claimed
  positions (section 5), and the theorem says that nothing else strands one;
* `OrdersAreKnown`, unless a reply is lost or malformed, the two ways to create an order and not to
  hear of it;
* `RowsAdvance`, for a live process (a paper row goes from NEW to FILLED in one write, a path of
  its own in SPEC 3.3): a row takes only documented steps, through entry and exit, except between
  an exit order and the record of it (`ExitUnwritten`); a CLOSED row changes only by that record,
  which is the step of `ClosedIsFinal` in section 5. `RowsFit` says where each thread that is about
  to write a row finds it, and `ExitRowsFit` that a position with an exit order has a row that says
  so, unless that is still to be written, and that a closed one is out of the book;
* `HoldsFollow`, without faults: a hold that is placed or settled while the caller hears otherwise
  breaks it by definition. `HoldsFit` follows a hold through the steps of its entry.

**Restarts** (`RecoveryProofs`). `IndInv` does not survive a crash: the counters of closed signals
are gone, keys are used again, and a row may be older than the order it speaks of. What
`RecoveryInv` keeps is

* `ProcessInv` and the order part of `OrdersInv`, kept by every step of a process whether it was
  just created or rebuilt;
* `TablesOK`, of the table that grows and of the older one a restart may find: whatever its age, a
  row tells only what stays true of the orders of its trade (`RowTells`: an order it names exists,
  shares it counts were bought), because orders never lose shares and never vanish. The unique
  index gives one row per key (`OneRowPerKey`), from which a rebuilt book has one trade per key;
* `ActiveKeys`: what is being opened or tracked has taken its key, alone. It replaces
  `CurrentKeys`, and the proof that `Seed` establishes it uses that the highest attempt of the
  restored trades of a signal exists (`AttemptsBounded`), for any set of trades;
* `EarlierSold`: below the counter of a signal, and below each of its trades, there are only
  attempts whose exit has filled. It speaks of orders under the ids composed from keys, since
  orders are what no crash loses; a restart may take the counter back, never past an attempt that
  is not sold;
* `UnloggedExits`, for the moment between an exit order and its row, and, by mode, what the
  theorems on the book and the rows say.

Theorems, for any number of crashes and any faults: `RecoveryInductive`, `RecoveryTypeCorrect`,
`RestartsKeepKeysApart`, `NeverOversoldAcrossCrashes`, `RestartsNeverRebuy`; `RecordedStayTracked`
for the live and `PaperBookOutlivesCrashes` for the paper mode. The first compares rows with
orders, which a paper process does not place. The second follows `held` through crashes: while a
process runs, book and `held` move together, and so do book and rows (`PaperRows`); at a restart a
trade is either one whose row in the table is the row it had, which is FILLED if it was held, or
one of `lost`.

**Writer** (`AsyncDbWriterProofs`). `WritesInOrder` relates the table as the worker sees it, the
batch and the queue: in each a trade's writes increase, and all of the batch comes before all of
the queue. With the types and an empty batch between rounds it is inductive (`WriterInv`).
Theorems: `OrderKept`, `WriterTypes`, and `RowsNeverGoBack` from `OrderKept` at the commit.
`NoOtherLoss` (`LossInv`) needs that numbers of writes stay below what was handed over and that
a write that is lost is lost once: what a failed batch rolls back is then exactly what it
counts as lost. That an update without a row is the only silent loss, and never the first of its
trade, follows from the order: the insert of that trade came earlier, so it is in the row or in
`lost`.

**Watchlist** (`WatchlistProofs`). `WatchInv` says where in the pages the client stands: the offset
is the number of notes it has, which is a whole number of pages as long as it goes on. A list
that did not change meanwhile is its prefix up to the offset, and at a page that is not full the
offset is its length: `AllPagesArrive`, for every list and page size.

**Migrations** (`MigrationProofs`). `MigrationInv` describes the uncommitted tables of a migrator by
what it found: relocation step by step (`Moving`), revision by revision (`Upgraded`). Only the
holder of the lock has a transaction, and the committed tables are of one revision and one layout
(`CommittedInv`), so what it found is still there when it commits. Theorems:
`MigrationInductive`, `TypeCorrect`, `TablesKept`, `WholeCommits`, `EachRevisionOnce`, `NoneFails`,
from every initial database of the model, with any number of migrators and crashes.

**Reporter** (`PnlReporterProofs`). `RInv` says that nothing recorded lies in the future of the
clock, that a row holds only trades inside the window of its day up to its moment, and that what
a query found still covers the row that is there when it is written over. Theorems:
`ReporterTypes`, `OnlyReopenedAreLost` (a second report of a day sees a later moment, and a saved
trade changes only when its row is overwritten), and `NothingBetweenReports`, from the fact that a report is made at or after
the close at which the next window begins (`AfterClose`).

**Clients** (`ClientRequestProofs`). The invariant adds to the types and `EffectsBounded` what a
reply says of the request it answers: an "ok" means that something was applied. `OneOrder` needs
`IdTaken`: once a request for an order took effect, the id that every attempt carries is taken. It
holds because the attempts share one id; with the mutant, in which each makes its own, it is false
after the first `Apply`. In the first attempt nothing is left behind by an earlier one, which
gives `RefusedCallsDoNothing`. `RequestKeepsContract` maps each step to one of `RemoteCall`:
applying a request for the first time is `TakeEffect`, the last turn of the loop `Succeed` or
`Fail`.

**Daily P&L** (`DailyPnlProofs`). `PnlTypes` and `FiguresAddUp` are loop invariants of the pass:
the second one bounds the sum of the wins by their number times the largest, which needs a lemma on
products for each of the three cases of a trade. `ResultFollowsAmounts` compares, for one trade,
the three quantities that the code chooses by different expressions. `StoredRowIsCoherent` carries
the bounds over to the rounded row: rounding half to even is monotone in the quotient
(`RoundedMonotone`: two quotients in the wrong order would both be ties, and rounded to neighbours
that are both even), and off by at most half a divisor (`RoundedNear`). That an empty day is all
zeros needs `NothingCounted` besides: without a counted trade there are no amounts and no symbols.
`PassMatchesReference` compares the loop with sums over sets, which are folds that choose their
elements in an order of their own. What it needs of them, that any element can be taken out first
(`TotalWithout`), is an induction over finite sets. The library's induction theorems cannot be
instantiated here, so the induction is written as a smallest counterexample (`SmallestSet`, from
the well-foundedness of the natural numbers); the recursive function in the fold is shown to exist
the same way (`SumsExist`). `Matches`, the inductive invariant, says of the largest members that
they are members and bounds, of which `Max` and `Min` are consequences.

**Only model-checked.** Liveness, and everything else that rests on fairness or `ENABLED`, is out of
the prover's reach: `EntriesSettle`, `ExitsSettle`, `CloseClaimsAll`, `CallEnds`, `WritesSettle`,
`ReloadsEachSession`, `ReportsEachSession`, `MigratorsEnd`. All other properties of the passing
runs are theorems.

## 5. Claims the code does not keep

Each property here states what a document or a comment says, on the unchanged model of the code,
and TLC finds it violated. The first is a finding and a run of the project; the others have a
configuration of their own that shows the counterexample in the same way.

| Claim | Property, configuration | What happens |
|---|---|---|
| `src/SPEC.md:227`: after EXIT_FAILED the position is "reopened, retried on next trigger / at close"; `domain/positions.py:6`: the book is "rehydrated from open trades at startup" | `FailedExitsTracked`, run `recovery_exit_failed` | EXIT_FAILED is not among the statuses that are loaded: after a restart the shares are in no book |
| `src/SPEC.md:225`: nothing follows CLOSED | `ClosedIsFinal`, `MCExecution_closed_final.cfg` | `_submit_exit` stores the exit order id on the shared position before it enqueues EXIT_SUBMITTED; a fill polled in between enqueues CLOSED first, and the row ends as EXIT_SUBMITTED |
| `domain/positions.py:3`: "Every open position ... is tracked here" | `HoldingsTracked`, `MCExecution_partial_dead.cfg` | an entry order that dies after a partial fill is treated as nothing bought; the shares are in no book |
| `domain/services.py:548`: a rejected exit is "retried on the next trigger or at market close" | `ExitCanBeRetried`, `MCExecution_exit_retry.cfg` | every retry carries the `client_order_id` of the dead order, which the deduplication the client relies on refuses |
| `repository/async_writer.py:93`: "then flush whatever remains" | `FlushesTheRest`, `MCDbWriter_stop.cfg` | after the stop event one more batch is applied, what is beyond it is dropped |
| `domain/matching.py:120`: "Starting before open leaves `_last_run` unset" | `OpenReloadFires`, `MCWatchlist_open.cfg` | the clock is read after the startup load, so an open that passes during the load counts as covered by it |
| `domain/services.py:9`: "nothing is carried past the session" | `NothingCarried`, `MCExecution_carried.cfg` | a tick handled after the liquidation of the day opens a position nobody closes that day |
| `domain/positions.py:1`: the book is the "source of truth for open positions" | `QuantityHeld`, `MCExecution_quantity.cfg` | an exit that dies after a partial fill leaves the position with the shares that are already sold |
| `src/SPEC.md:331`: "failures set `FAILED` and release any hold" | `FailedMeansNoOrder`, `MCExecution_lost_reply.cfg` | the reply to the order is lost: FAILED, hold released, and the order lives |
| `domain/positions.py:8-10`: an exit is "submitted exactly once" | `ClaimsAreServed` with a malformed reply, `MCExecution_malformed.cfg` | the error leaves the loop over the claimed positions; the rest stay EXITING with nobody to submit them |
| `domain/matching.py:72`: "a restart mid-session is never left with an empty watchlist" | `NeverLeftEmpty`, `MCWatchlist_empty.cfg` | the startup load fails, the day is marked as loaded all the same |
| `clients/watchlist_client.py:37`: "Return all active watchlist entries" | `NoActiveNoteMissed`, `MCWatchlist_missed.cfg` | a note is disarmed between two pages, and the next offset skips one that was active throughout |
| `domain/pnl.py:3`: trades of a session go "into a single row" | `CountedOnce`, `MCPnlReporter_once.cfg` | a trade closed between the close and the report is in the row of both days, as the next window starts at the close |
| `domain/pnl.py:3`: "every trade that closed during the session" is in the row of its day, the later report of a restarted reporter included | `ReportsGrow`, `MCPnlReporter_grow.cfg` | a CLOSED row that the first report counted is overwritten with EXIT_SUBMITTED (`ClosedIsFinal`), and the second report of the day no longer finds it |
| `domain/pnl.py:3`: "every trade that closed during the session" | `EveryCloseReported`, `MCPnlReporter_late.cfg` | a trade whose row is saved after the query of its day and whose close lies before the next window is in no row |
| `domain/pnl.py:209`: "daily pnl report failed; will retry" | `FailedReportRetried`, `MCPnlReporter_retry.cfg` | the day was ticked off before the work, nothing tries again |
| `domain/services.py:192`: after a close a re-trigger gets "a new key instead of colliding with this one" | `NoCollisionWithClosed`, `MCRecovery_collision.cfg` | after a restart the counters of closed signals are gone, the next trade takes the key of attempt 0 and the insert of its row is refused |
| `db.py:76`: wait_for_table blocks "so startup never races the migrate step" | `StartsAfterMigration`, `Migration_race.cfg` | on a database of an earlier release the table is found before the migration has run |
| `src/alembic/env.py:24`: "so multiple projects can safely share one database" | `OthersDoNotMatter`, `Migration_foreign.cfg` | a table `trades` of another project in `public` is taken for ours and moved; the revision that creates ours fails, and every migration is rolled back |

One more divergence needs no model: `src/SPEC.md:378` names the session lock `pg_advisory_lock`
with `pg_advisory_unlock`, `env.py` takes the lock of the transaction, which is why a migrator that
dies blocks nobody (`MigratorsEnd`, whose mutant keeps the lock).

## 6. What is abstracted, and what is not modelled

* Prices and quantities are small integers, fractions of shares do not occur (the code buys whole
  shares). Average prices, timestamps, strategy columns and log lines are left out. Paper and
  live share one model; the mode prefix of keys is left out because a process has one mode.
* The prices of exits and the recording of the last price (`record_price`) affect only columns
  that are left out.
* That a repeated POST of an order is refused by the broker, and that the cash service does not
  recognise a repeated hold, is read from the clients' comments, not from those services.
* A crash of `Recovery` loses a suffix of the writes; the finer losses, of a full queue or a
  failing batch, are in `AsyncDbWriter` only. The two are not composed: the product is beyond TLC.
* `list_by_statuses` returns at most 10,000 rows, oldest first, and `list_closed_between` at most
  100,000: the models load every row. Above the limits a restart would leave the youngest positions
  out of the book, and a report the last trades out of its row.
* A paper position whose CLOSED was among the writes a crash lost comes back and is sold a second
  time, in the row only, as no order is placed: `Recovery` has it, and `PaperBookSurvives` excepts
  it with all trades in `lost`.
* A commit that takes effect and is reported as failed is logged as a loss and is none; the model
  has the commit and no log.
* A trade of which a crash left a CASH_HELD row is restored as a pending entry without an order id
  and stays there: the model has it, no property speaks of it.
* Kafka delivers any matching tick at any time, repeated and of an earlier day included; offsets,
  commits and rebalances are not modelled. Messages that cannot be parsed change no state.
* `Decimal` divides with 28 digits before `quantize` rounds; `DailyPnl` rounds once.
* Downgrades, the offline mode of alembic, which prints SQL, and a service whose schema is
  `public`, for which relocation returns at once, are not in `Migration`.
* The settings and their validation are constants and assumptions. The API only reads. Logging and
  packaging have no state.

## 7. Plan

Done: the executor with its abstract specification, its restarts, the writer, the watchlist, the
reporter and its figures, the clients and the migrations, and theorems for every safety property
of the passing runs. What could follow:

1. restarts as an implementation: an abstract specification of a signal across crashes, in which
   what was sold is counted by orders (`EarlierSold`), and the refinement by `Recovery`;
2. an abstract specification of the writer, a table that loses whole batches and never reorders, and
   of a migration, one atomic change of schema and revision, with the refinements proved from
   `WriterInv` and `MigrationInv`;
3. the hazards without a property in the runs: an entry that dies half filled, a CASH_HELD row after
   a crash, the last writes of a process that stops, should the code come to treat them;
4. a `TickConsumer` with offsets, commits and redelivery, should a property come to depend on them.
