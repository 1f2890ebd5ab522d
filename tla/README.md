# Verification of KDR in TLA+

KDR (`src/`) ingests market data from Alpaca, aggregates trades into one-minute
bars, stores them, asks a Bellman model for a decision per bar, shows everything
on a web dashboard and can place orders. This directory holds TLA+ models of the
parts of it where threads, processes, a database and a broker meet, the TLC
configurations that check them on small instances, and proofs checked by TLAPS.

Contents: [1 The system](#1-the-system), [2 Modules](#2-modules),
[3 Runs](#3-runs), [4 Proofs](#4-proofs), [5 What the checks found](#5-what-the-checks-found),
[6 Not modelled](#6-not-modelled), [7 Plan](#7-plan).

## 1 The system

Paths are relative to the repository; `src/x.py` is the Python source.

| component | state | operations | talks to |
|---|---|---|---|
| stream client (`src/stream_client.py`) | stream and flusher thread, `running` | `handle_trade`, `handle_bar`, `flush_ready_bars`, REST polls, `start`, `stop` | buffer, queue, dashboard buffers, state mapper |
| tick buffer (`src/data_buffer.py`) | running bars and tick deques per symbol and minute, one lock | `add_tick`, `get_ready_bars` | called by stream and flusher thread |
| DB writer (`src/db_writer.py`) | `queue.Queue`, `running`, one batch | `_drain_batch`, `_map_bar`, `run`, `run_worker_threads`, `_shutdown` | queue, executor, decision buffer, database |
| database (`src/database.py`) | tables `market_data`, `model_weights`; per-manager interval cache | `add_market_data`, interval prices, history, weights | SQL database |
| trading execution (`src/trading_execution.py`) | order history, net positions, cash | `decide`, `translate_decision`, `execute_decision`, risk limits | model, broker |
| model (`src/model.py`, `src/domain.py`, `src/state_mapper.py`, `src/backtest.py`) | value function weights | `score_actions`, `compute_action`, training, replay | weights store |
| dashboard data (`src/web_server/data_layer.py`) | tick, decision and index buffers with locks, index file, circuit breaker | add/read, flush, summaries | stream client, writer, own `DatabaseManager` |
| dashboard API (`src/web_server/api_layer.py`) | websocket connections, server thread | connect, broadcast, merge of ticks | data layer |
| supervision (`bin/*.sh`) | PID file | start, stop, restart | the process |
| the rest | — | adapters, logging, gatekeeper, reporting, migrations | |

One process runs the pipeline: the stream thread and the flusher's polls feed
ticks to the buffer; the flusher moves finished bars from the buffer to the
queue, the stream puts the exchange's own minute bars there directly; the writer
thread drains the queue in batches, sends one decision per bar to the dashboard
and writes the batch. The main thread starts all of it and shuts it down with a
sentinel on the queue and a cleared flag. All worker threads are daemons.

What is hard, and what each part must guarantee:

* **bar store** — several writers, a check that is stale by the time of the
  commit, statements that fail, commits whose answer is lost, processes that die.
  One row per minute bar; nothing lost to a race; first bar wins; rows permanent.
* **tick buffer** — ticks late and early relative to the host's clock, several
  minutes ready at once. A bar says what its ticks say; no volume counted twice.
* **pipeline** — five threads over one queue; official and flushed bars of one
  minute; batches that fail in the middle; a sentinel met behind bars; joins that
  time out. No bar vanishes; each thread does its job; shutdown ends.
* **interval cache** — writers in other managers; evictions that must notice a
  backfill; reads that fail or last past the minute. Nothing served is older than
  the minute; own writes are seen.
* **weights** — two trainers race for one key; what the live process loads fits
  the vector it scores and was trained for the symbol it decides on.
* **model and backtest** — sizing at a price of zero, ties, a long replay. The paper
  portfolio neither finds nor loses money.
* **orders** — lost answers, statuses that are not fills, limits at a boundary.
* **dashboard** — ticks out of order into a full window with running figures;
  snapshots taken under a lock and written after it by several threads, with crashes
  in between; connections that change while a broadcast awaits; series merged from two
  sources; a circuit breaker read before an await and written after it.
* **supervision** — PID files that outlive processes.

`PROJECT.json` lists every such hazard at its line with the properties that
cover it.

## 2 Modules

| module | models | refines / uses |
|---|---|---|
| `BarTable` | what `add_market_data` promises its callers | abstract |
| `BarStore` | `DatabaseManager.add_market_data` with several writers | refines `BarTable` |
| `BarStoreProofs` | proofs about `BarStore` | extends `BarStore` |
| `Series` | sums, ascending order and filtered sequences, which the code leaves to the database and the interpreter | operators only |
| `SeriesProofs` | induction, and what the operators of `Series` return for every argument | extends `Series` |
| `DataStreamBuffer` | `src/data_buffer.py` | uses `Series` |
| `BarPipeline` | the threads of `src/stream_client.py` and `src/db_writer.py` | extends `DataStreamBuffer`; uses the outcome `BarStore` shows for a single writer |
| `BarPipelineProofs` | proofs about `DataStreamBuffer` and `BarPipeline` | extends `BarPipeline`, `SeriesProofs` |
| `IntervalCache` | the interval-start prices of `src/database.py` with their cache | uses `Series` |
| `IntervalCacheProofs` | proofs about `IntervalCache` | extends `IntervalCache`, `SeriesProofs` |
| `MarketBuffer` | `MarketDataBuffer` of `src/web_server/data_layer.py` | uses `Series` |
| `SymbolDetail` | the page of one symbol: its ticks, its summary, the circuit breaker | extends `MarketBuffer` |
| `SymbolDetailProofs` | proofs about `MarketBuffer` and `SymbolDetail` | extends `SymbolDetail`, `SeriesProofs` |
| `IndexStore` | `IndexStore` of `src/web_server/data_layer.py` with its file | |
| `Dashboard` | the event loop of `src/web_server/api_layer.py` and the threads that use its index store | extends `IndexStore` |
| `DashboardProofs` | proofs about `IndexStore` and `Dashboard` | extends `Dashboard` |
| `DecisionModel` | accounting, score and choice of `src/model.py`, the replay of `src/backtest.py` | operators only; uses `Series` |
| `ModelWeights` | the `model_weights` table of `src/database.py` with several trainers | |
| `Decisions` | training processes, the table, and the pipeline that loads and decides | extends `DecisionModel`, `ModelWeights` |
| `DecisionsProofs` | proofs about `DecisionModel`, `ModelWeights` and `Decisions` | extends `Decisions`, `SeriesProofs` |
| `OrderExecution` | `TradingExecutor.decide_and_execute` of `src/trading_execution.py`, with a broker | |
| `OrderExecutionProofs` | proofs about `OrderExecution` | extends `OrderExecution` |
| `MC*` | instances for TLC | |

### BarStore

`rows` is the table, with the unique index of `MarketDataModel`; a row remembers
the writer, call and position it came from, which stands for its primary key.
`batch` holds only the bar key of each record: `add_market_data` tells records
apart by nothing else. A record without a timestamp has the key `NoKey`, which
the index does not constrain (a NULL column). A call moves through `open`
(session obtained; `_prepare_bars` is pure), `commit` (after
`_stored_bar_keys`), and, after an `IntegrityError`, `retry` (the loop over
`_write_bar`, in order). Every statement may fail (`NoSession`, `CheckFails`,
`CommitFails`, `WriteBarFails`), and a failing commit may have been applied. A
call may be cut off at any point (`Crash`). The rollback needs no action of its
own: an uncommitted transaction leaves no rows.

`BarTable` says the same without checks, transactions and retries: rows of the
batch appear at any time until the answer, never two for one bar, and "ok" is
answered only when every bar of the batch is in the table. The mapping turns any
phase of a call into an unanswered request; `result = "failed"` inside the loop is
not an answer yet.

### DataStreamBuffer

Both methods hold the lock throughout, so each is one action. A Python dict
iterates in insertion order, so the running bars of a symbol are a sequence: the
order decides which of several ready bars `get_ready_bars` returns. `ledger` is a
history variable that says where every tick's volume went. A tick may belong to
any minute up to one ahead of the host's clock: polls repeat old trades, and the
exchange's clock is not this host's.

### BarPipeline

`puts` records every bar ever queued; the queue, the writer's batch, the table,
`lost` and `decisions` hold indices into it, so that two bars of one minute stay
distinguishable. Each thread has a program counter with one action per step that
another thread can see: the flusher's `get_ready_bars` and each `put` are
separate, `_drain_batch` takes items one at a time, and taking the sentinel off
and putting it back are separate. `toPut` is a set: the model lets the flusher queue
the bars of different symbols in any order, the code uses the order of
`symbols`. `add_market_data` is one step with the outcomes that `BarStore` has
for a database with one writer: everything fresh is stored, nothing is, or, when
the check failed and the insert met stored bars, some of it is. `main = "exited"`
ends every thread. SIGKILL at any moment is a prefix of a behaviour and needs no
action.

### IntervalCache

One symbol of one manager: symbols share nothing but the minute of the cache, and
clearing it on a change of minute is the same for each. A bar is its time, an
answer is "the open of bar t" or "the close of bar t", which is finer than its
price. A read is three steps, because the clock goes on and other managers write
between its queries: `LookUp` (`_read_cached_intervals`), `Anchor` (the latest
bar), `Resolve` (`interval_window` and the range query with its search). The
optional last query of the search is part of `Resolve`: it looks before
the earliest target, where the range query did not. Readers of one manager do not
overlap, because `MarketDataBuffer` calls it under its lock. `WriteHere` is a
write of this manager with its eviction; `WriteElsewhere` is one of another
manager, or an own one whose commit was answered with an error. In the
deployed process the dashboard's manager (`get_db_manager`) never writes and the
writer's never reads intervals, so there only `WriteElsewhere` happens.
`origin` is a history variable: what each cached answer was read from. `ytd`
starts at the fixed instant `NewYear`; its rule for a latest bar over a year old
is outside the horizon.

`Outdated` is the eviction rule. It spares entries when the bar belongs to the
running minute, on the ground that such a bar lies at the end of every window.
That fails in one case, which `StaleOnlyAfterReopening` delimits: a duration's
window was empty when it was read (the markets were closed longer than that) and
the answer was anchored to the last session, or to the close before. The first
bar after reopening moves the anchor but evicts nothing, so the old answer is
served until the minute ends.

### MarketBuffer

`add_tick` holds the lock for all it does to the symbol, so it is one action with
three forms: first tick, room in the window, full window. `deque.popleft` comes
before the insertion, hence a tick older than the whole window replaces the
oldest one. `_seed_dashboard` and the stream's snapshots reach the same two
methods in any order. The update of the index strip for index symbols belongs to
`IndexStore`.

### SymbolDetail

`get_symbol_detail` puts together what is in the window and what the database
answers. The pure parts are operators: `MergeTicks` is `_merge_ticks` (two pointers,
the first of each `(timestamp, price)` kept, the last `limit` of the result),
`HistoricalTicks` and `BufferTicks` are its two sources, each cut to the limit in
its own way, and `Summary` is `get_summary` with `_db_only_summary` for a symbol
that has no tick yet. A change is its difference and its percentage, in whole per cents
rounded down; an anchor that is not positive has the percentage 0. The read of
all durations fails as a whole and leaves no table (`<<>>`), and then the page asks a
question of its own for the one duration, which may fail too (`Failed`): a symbol with
ticks falls back on its open, one with a bar only is shown as empty. The latest bar
may have 0 for a price the database has none for. The rows of the database, its
answers per duration and its latest bar are not state: the properties quantify
over them, in every state of the window.

The circuit breaker is state. A query runs on a thread of its own and is awaited for
a second, so several are under way at once; `queries` counts those started while
the breaker was closed, `probes` those started while it was open. `Query` notes the
attempt before the await, `Answered` and `TimedOut` set the flag in whatever order
they come in. `Cool` needs that no query is awaited, because ten seconds
exceed one.

### IndexStore

A version stands for the whole dictionary of indexes. `flush_cache` is four steps:
the flag and the clock are looked at without the lock, the snapshot is taken under
it, the file is truncated when it is opened, and filled when it is closed. Another
thread may do anything in between. What a write leaves over what a second thread
wrote since the truncation may be torn; `load` takes a torn file for none. A flush
that fails is neither repeated nor marked. `Load` is the second load that the
server runs at its start, on top of whatever the other threads have updated.
`spoiled` is a history variable that delimits the property.

### Dashboard

A coroutine runs until it awaits something that is not there, so an action is
the code between two such awaits. `LoopFree` says that no coroutine is in the middle of
its section; a flush is a plain call and holds the loop. A client's handler goes
from `accept` over `init` (built without an await, then awaited) to its registration,
the optional message with the database's figures, and `receive_text`. The
broadcast copies the set of clients, sends to one after the other, and takes
the dead ones out at the end. A `RuntimeError` of a closed connection is not among
the exceptions that `broadcast_json` catches, so it ends the round (`SendRaises`).
`Refresh` is `resolve_market_index`, which updates the store on the way to a message
or a route's answer. The stream's thread, the flusher with its snapshots and the
main thread with its seeding do so with `ProxyTick`; the main thread flushes once
more at exit (`AtExit`), when the daemon threads are still running. `Stop` is the end
of `lifespan`, `Restart` the end of the process at any step, with all that is in
memory lost and the file as it is. `Clients` are the websockets opened before the
process ends.

### DecisionModel

Cash and prices are integers in the smallest unit and quantities in the smallest
part of a share; the code divides floats, the model rounds down, once, where the
movement is sized. `Score` keeps of the value function what tells the candidates of
one bar apart: the position flags and the fraction of cash. The other features of
the successor are the same for every candidate or zero (the successor's previous
prices are its prices). `Score` is multiplied by the portfolio's value, which is the
same for every candidate, to stay among integers. `Decide` holds on a tie, as
`TradingExecutor.decide` does; `ComputeAction` takes the first of the best, as
`BellmanEngine.compute_action` does for the backtest. `Replay` is
`Backtester.replay`, bar by bar.

### ModelWeights and Decisions

A row of the table is known by its layout, the symbols its vector covers. A save is
the query of `_write_weights`, its commit, and, when the unique key refuses an insert,
the rollback and the second attempt; every statement may fail, and a commit that
fails may have been applied. What TD(0) ends with is a choice among
`WeightChoices`. Its layout is a sublist of the symbols in their order
(`Sublists`), because `replay` takes the symbols that have bars.

`StartPipeline` is `load_value_function`, which compares lengths only: a row whose
vector is as long as that of the pipeline's list is taken, all else is dropped.
`MapBar` is `_map_bar` with `build_decision_state`, whose state holds the one
symbol of the bar; when the weights do not have the length of its vector, `np.dot`
raises and no decision is recorded.

### OrderExecution

A decision is two steps: `DecideBuy`/`DecideSell` build the order out of the
executor's cash and the tracker's positions (as `build_decision_state` is given
them), and `Submit` is the answer of `submit_order` with what `record_order` and
the end of `execute_decision` make of it (`Settle`). In between the broker may fill
earlier orders. Which movement the model decides on is left open. An answer
carries filled shares and a price; one without `filled_qty` is read as filled in
full, whatever was filled (`Told`). Its status is `open` for all that the tracker
counts, `canceled` for all that it passes over, `refused` and `error` for the two
records `submit_order` makes up. `StateIsValid` is the validator of
`PortfolioState`. Nothing polls the broker after the answer, so later fills go into
the history variable `unheard`. Quantities and prices are integers; a cap of
`MaxParts`/`Parts` stands for `max_position_pct` and `max_fraction`, whose
defaults agree. In the deployed pipeline only `decide` is called: the rest is the
path that live trading would take.

What the properties delimit: the "strict 20% portfolio capital allocation cap" of
`docs/architecture.md:132` holds for each purchase as long as the tracker was told
of every fill of the symbol. An order that is accepted and filled later is
recorded as nothing bought, and the next decision buys up to the cap again; then only
the cash bounds what is bought, and that is not reduced either. `StakeWithinCap` says
how far this goes: the stake exceeds the cap by the unheard shares at most, and not
at all when the tracker was told of more than there is (an answer without
`filled_qty`). A partial fill answered as canceled moves the cash and not the
position; `CashMovesWithPosition` says that no other answer does.

## 3 Runs

| run | instance | shows |
|---|---|---|
| `bar_store` | 2 writers, 3 keys and `NoKey`, batches of up to 3, 1 call each, fair | types, `OneRowPerBar`, `NoRecordLostToRace`, `FirstOfBatchWins`, `RowsArePermanent`, `CallsReturn`, refinement of `BarTable` |
| `buffer` | 2 symbols, 3 prices, 3 minutes, 4 ticks, deque of 3 | types, `BarsSummariseTicks`, `VolumeConserved` |
| `buffer_ready` | 1 symbol, 3 minutes | violates `ReadyBarsAreReturned` (section 5) |
| `pipeline` | 2 symbols, 2 minutes, 1 trade, 1 official bar, batches of 2, mock and live start, fair | `BarsAccountedFor`, `FirstQueuedWins`, `DecisionsFollowQueue`, `SentinelSurvives`, `WriterLeavesOnlyWhenTold`, `QueuedBarsSettle`, `ClosedMinutesFlush`, `ShutdownCompletes` |
| `interval_cache` | durations of 1 and 2 minutes and `ytd`, 2 instants a minute, 4 minutes | `StalenessBounded`, `BatchedLookupAgrees`, `StaleOnlyAfterReopening` |
| `market_buffer` | window of 3, prices 0 to 3, 3 times, any number of ticks; up to 2 stored bars, a duration of the table and one that is not in it, reads that fail, 2 queries at a time | `RunningFiguresMatch`, `Chronological`, `CurrentPriceIsNewest`, `MergedSeries`, `SummaryAgrees`, `ProbesAlone` |
| `market_buffer_merge` | the same | violates `BufferTakesPrecedence` (section 5) |
| `orders` | 2 symbols, prices 1, 2 and 6, cash 11, cap 1/5, 4 orders | types, `BooksFollowBroker`, `StakeWithinCap`, `CashMovesWithPosition` |
| `dashboard` | 3 threads (event loop, main, stream), 2 clients, 2 index updates, 1 restart | `SettledOnDisk`, `InitFirst`, `NoEndedClientKept` |
| `decisions` | 2 symbols, 2 trainers, 2 weights, prices 0, 1 and 3, every history of up to 4 bars | `TrainingIsKept`, `DecisionsUseOwnWeights`, `ReportsBalance` |
| `decisions_fit` | the same, histories of 1 bar | violates `EveryMappedBarIsDecided` (section 5) |
| `pipeline_drain` | 1 symbol | violates `StopDrainsQueue` (section 5) |

Bounds. `MaxBatch`: a race needs two writers, one shared and one own key, and a
repetition within a batch, which batches of three hold at once. One call each is
enough for the race, for rows that an earlier call left (the other writer's), and
for the liveness property; that a call meets its own earlier rows differs in
nothing, and the safety properties and the refinement are proved for any number of
calls. `MaxTicksPerMinute` 3 with 4 ticks reaches both sides of the deque's
limit. `MaxMinute` 2 lets a late, a current and an early minute be present at
once. The cache's horizon of four
minutes exceeds the longest duration, so every duration is met with an open and a
closed market, and two instants a minute separate a bar's minute from the
instant it is looked up at. Four orders let a purchase follow a fill, a sale and a
late fill of the same symbol; at a price of 6 a fill can cost more than the cash
there is, which cheaper prices reach only after many orders. One trade and one
official bar put two bars of one minute on the queue in either order, in one batch or in
two; `pipeline_drain` has a second official bar. A bar of the other symbol tells
the threads' work per symbol apart. `Sizes` is `{1}`: a tick of size zero
moves nothing the properties look at. On a symbol's page two stored bars
and a window of three hold a coincidence, an overlap and a cut to the limit at once;
prices include 0, which no percentage may be taken of. Two queries are what a race
of the breaker's flag needs. On the dashboard two clients let one leave or close in
the middle of the other's round, and two updates let two flushes overlap and a newer
version be settled before the older is written; the event loop, the main thread
and one more is the least that has a flush of each kind; a restart shows what the next process
loads. Two symbols are the least for a layout that is a proper sublist; four bars
let a symbol be bought, rise, be sold and be bought again. The runs `orders` and
`dashboard`, which check no liveness, take symbols and clients as symmetric. Where
the code really may stop (the
process has ended, a bound is used up) deadlock is not checked.

Fairness. `BarStore!FairSpec`: a call that was entered is scheduled, and every
statement is answered or times out (the driver raises `DBAPIError`, which is one
of the failure actions). `BarPipeline!FairSpec` takes only the shutdown steps of
the main thread for granted: each is a flag, an unbounded `put` or a join with
a timeout. The liveness properties of the other threads carry the fairness of the
one thread they need as an assumption, so that each says which thread must not
hang. Trades, polls, disconnects and stops are never assumed to happen.
`Dashboard` states no fairness: that a registered client is sent the next round
needs that the loop and every handler are scheduled again and again between
steps of the stream's thread; it holds on a smaller instance under strong fairness
of both, and is not among the runs because of its cost.

## 4 Proofs

`BarStoreProofs` proves, for any finite or infinite set of writers and keys and
any bounds:

| theorem | property |
|---|---|
| `TypeCorrectness` | `TypeOK` |
| `UniqueBars` | `OneRowPerBar` |
| `RaceLosesNothing` | `NoRecordLostToRace` |
| `FirstBarWins` | `FirstOfBatchWins` |
| `RowsStay` | `RowsArePermanent` |
| `Refinement` | `ImplementsTable` |

Assumptions: `NoKey` is not a key, the bounds are naturals. The invariant
`IndInv` adds to the properties what a call knows in each phase: that rows are
stamped with a call number that was made, that the keys found stored are stored,
that in the loop every record not in `todo` is in the table or has been given
up, and that only kept positions become rows. `OneRowPerBar` alone is not
inductive only because `Commit` inserts several rows at once, which needs that kept
positions have different keys; `NoRecordLostToRace` needs all of it. The argument
that keeping the first repetition covers every key (`KeptCovers`) takes the least
position of a key, from the well-foundedness of the naturals. The refinement
maps every action to `Ask`, `Serve` or a stutter.

`BarPipelineProofs` is about the buffer on its own (over `BufferSpec`) and about the
pipeline around it (over `Spec`), for any symbols, prices, sizes, length of the deques
and of a batch.

| theorem | property |
|---|---|
| `BufferIsTyped` | `BufferTypeOK` |
| `BarsAgreeWithTicks` | `BarsSummariseTicks` |
| `NoVolumeIsLost` | `VolumeConserved` |
| `BufferInPipeline` | the three, over `Spec` |
| `PipelineIsTyped` | `PipelineTypeOK` |
| `NoBarVanishes` | `BarsAccountedFor` |
| `FirstQueuedBecomesRow` | `FirstQueuedWins` |
| `DecisionsInOrder` | `DecisionsFollowQueue` |
| `StopRequestSurvives` | `SentinelSurvives` |
| `WriterStaysUntilTold` | `WriterLeavesOnlyWhenTold` |

The buffer's invariant `BufferInv` says, a symbol at a time, that the running bars have
different minutes, that each of these minutes has its deque, and that bar and deque
agree (`Summarises`): exactly while the deque has room, as bounds once it has let a tick
go. The volumes need the sum of a sequence under a change of one element, an append and
a split in two, which are lemmas of `SeriesProofs`; the split is what a flush does
(`Before`, `From`). The pipeline's invariant has two halves. `BarsInv` follows the bars:
`FirstQueuedWins` alone is not inductive, for nothing in it keeps a later bar from
overtaking on the queue, so `QueueInLine` says that the queue and the batch are
ascending and that the batch is before the queue, and `DecisionsInLine` that what is
decided is before what is not. `SentinelInv` follows the request to stop: it is on the
queue once or in the writer's hands, it is there only once the main thread has asked,
and without it the writer does not leave (`Told`); `WriterHolds` says what is in the
writer's hands in each phase. The buffer's half is a lemma for every thread that does not
touch the buffer. Assumptions: prices are integers, sizes naturals, a batch and a deque
hold at least one element.

`IntervalCacheProofs` proves `StalenessIsBounded` (`StalenessBounded`),
`BatchingIsHarmless` (`BatchedLookupAgrees`) and `CacheReflectsBars`
(`StaleOnlyAfterReopening`) for any finite set of durations, any grain of time and any
writers. The invariant `ReadSince` says that an entry was read in the minute of its key
or later and that the key's minute is not ahead of the clock. `StalenessBounded` alone is
not inductive: it speaks only of the running minute, and nothing in it rules out an entry
that is older than its key. The second is a statement about the search:
`BoundaryAlone` shows that a bisection among the ascending rows of the range, with
the bars before the range at hand, finds what a search of its own would. The rows are a
`CHOOSE` by rank; that they exist, are ascending and hold every bar once is proved in
`SeriesProofs` (`Ascending...`). For the third, `CacheInv` adds to `ReadSince` what every
entry that may be served was read from (`EntryInv`): bars that had passed by then, and
since then only bars of the running minute by this manager. `BarKeepsEntry` is the
heart: a write that does not evict an entry leaves its answer the one a read would give,
unless the market reopened with it. It uses that a minute has one bar of a symbol
(`MinuteHasOneBar`). Assumptions: a minute has at least one instant, there are finitely
many durations, none shorter than a minute, the year began within the horizon.

`OrderExecutionProofs` proves `TypeCorrectness` (`TypeOK`), `TrackerFollowsBroker`
(`BooksFollowBroker`) and `PurchasesKeepTheCap` (`StakeWithinCap`) for any symbols,
cash, cap, Kelly fractions and positive prices, and `CashFollowsPosition`, the action property
`CashMovesWithPosition`: that a purchase always has cash to lose is `FitsBooks`. The
cap is proved in two halves:
`AllowedFits` shows that the floor divisions of the risk manager never round past
the cash or the cap, in terms of the tracker; `FitsBooks` keeps that while the order is
under way, because nothing else moves cash or position; `CapAtBroker` turns it,
by `BooksFollowBroker`, into a statement about the broker's stake, whatever of it
the tracker was told.

`DashboardProofs` proves `SettledIsOnDisk` (`SettledOnDisk`), `InitComesFirst`
(`InitFirst`), `EndedClientsAreOff` (`NoEndedClientKept`) and `DashboardTypes`, for any
finite set of clients and any number of updates and restarts. The store is proved on
its own, over `StoreStep`; a step of the server is one of those or leaves the store
alone. `SettledOnDisk` alone is not inductive: it says nothing while a thread is in
the file. `AloneInFile` (a flush that is not spoiled is the only one),
`SnapshotCurrent` (its snapshot is the memory until the next update makes the store
dirty) and `WritesFromEmpty` (it fills a file it truncated itself) carry it
over the write. `InitFirst` needs `ListedHeardInit`: who is active, or still to be sent
to in a round, was sent its first message. Assumptions: the
event loop and the main thread are among the threads, of which there may be any
others; a torn and an empty file are no version.

`SymbolDetailProofs` proves, over `DetailSpec`, for any length of the window, prices,
sizes, times, durations and number of queries:

| theorem | property |
|---|---|
| `WindowIsTyped` | `TypeOK`, `BreakerTypeOK` |
| `FiguresMatch` | `RunningFiguresMatch` |
| `WindowInOrder` | `Chronological` |
| `CurrentPriceStaysNewest` | `CurrentPriceIsNewest` |
| `OneProbe` | `ProbesAlone` |
| `PageAgrees` | `SummaryAgrees` |
| `PageSeriesIsMerged`, `AnyPageIsMerged` | `MergedSeries` |

`WindowInv` joins type, order and figures, and adds that a symbol with a tick has an open
price. The order rests on `PlaceByTime` (the search from the end stops behind the last
tick that is not later) and `InsertedKeepsOrder`. The figures of a window that slides are
kept by three lemmas of the evicted tick: a maximum that leaves is computed again, one
that stays is still the maximum, and the sum loses the head's size. `ProbesAlone` needs
that the breaker cools only when nothing is awaited (`BreakerInv`). `SummaryAgrees` needs
from `WindowInv` that the fallback of a symbol with ticks is positive; the fallback of a
bar is its open or its price, so an anchor is positive or equal to the price
(`AnchorsArePositive`), a change is 0 or one from a positive price
(`TablesAreSound`), and a bar of price 0 shows no change.

`AnyPageIsMerged` is the stronger of the last two: the run takes up to two bars, two
starts and two limits, the theorem any bars of ascending times, any start and any limit
but 0 (which the code reads as "no limit"). It goes in four steps. `WalkExists`
shows that the recursive
function of `TwoPointer` exists, by induction on the steps the pointers have to go;
`TwoPointerMerges` proves `Merges` of what is left at every place of the pointers,
from the ends backwards (`TakeRest`, `TakeFirst`, `TakeSecond`). `FirstsAreKept`
shows that
`FirstOfEachKey` keeps order and every key, `EndKeeps` that what the limit cuts off is
not later than what stays. `PageIsMerged` puts them together with the
window (`SinceKeeps`) and the limits (`LastAreKept`).

Assumptions: a window holds at least two ticks, sizes
are naturals, the values for "no price" and "no record" are neither.

`DecisionsProofs` proves `PassesAreKept` (`TrainingIsKept`), `OwnWeightsDecide`
(`DecisionsUseOwnWeights`) and `ReplaysKeepTheBalance` (`ReportsBalance`), for any
finite set of symbols and any trainers, weights,
prices and cash. For the first, `RowsAreTrained` ties every row to a pass over its
own key that is being saved or was, `RowsStay` keeps a row that was met there, and
`OnlyFailuresGiveUp` shows that the second attempt of a save always finds the row
it was refused by. For the second, `TrainedOnOwn` and `LoadedFits` say that what is
loaded comes from a pass over symbols of the pipeline's own list, of its whole
length; `OnlyOwnFits` concludes that weights which can score a state of one symbol
are those of exactly that symbol. A check of lengths would not be enough for that:
it is the key of the table that makes it so.

For the third, `TradesBalance` shows that one movement, at any price and of any size,
leaves cash and holding non-negative and together worth what they were; the products
are kept as names there, for the provers do not match them. `MovementKeepsValue`
lifts it to the sum over
all symbols (`TotalOfChange`: a sum in which one summand changes moves by that change),
`BarKeepsBalance` to a bar of a replay, whose re-pricing is what `earned` records, and
`ReplayBalances` to all of them. A replay is a `FoldLeft`, which is defined by the choice of
a function on sets of positions; `RunsExist` shows that there is one (`RunAt`, `Runs`), and the
balance of every run up to position n follows by induction on n. Assumptions: prices
and cash are naturals, weights integers, the length of a history a natural number.

`SeriesProofs` holds what these proofs share. The induction theorems of the library take an
operator as a parameter and cannot be used, so an induction is done in two ways: over the
naturals as an argument by least counterexample (`LeastElement`, `SetInduction`), and over
the sets a fold is defined on by choosing the function that the fold picks
(`TotalsExist`, `AddingUpExists`). Nothing in it is assumed of the operators: sums,
ascending sequences and totals are proved from their definitions.

Only model-checked:

* Liveness (`CallsReturn`, `QueuedBarsSettle`, `ClosedMinutesFlush`,
  `ShutdownCompletes`): it rests on fairness and ENABLED, which the provers do not handle.
* The four disagreements of section 5, which are counterexamples.

## 5 What the checks found

* `buffer_ready`: `get_ready_bars` is documented to return the bars older than the
  current minute (`src/data_buffer.py:83`) but keeps one per symbol: `ready_data`
  is assigned once per bar and every ready bar is deleted. When two minutes of a
  symbol are ready at one flush, all but the last of the dict vanish.
* `market_buffer_merge`: `_merge_ticks` is documented to deduplicate "by timestamp with
  buffer ticks taking precedence over DB ticks" (`src/web_server/api_layer.py:271`). It
  tells ticks apart by timestamp and price, and puts the bar first where a bar and
  a tick have one timestamp (line 301). A bar of another price is shown beside the
  tick; of the same price, the bar stays and the tick, with its size, is dropped.
* `pipeline_drain`: the graceful stop is documented to let the pipeline finish its
  writes (`bin/_start_common.sh:157`). `_shutdown` queues the sentinel behind the
  bars but clears the writer's flag at once (`src/db_writer.py:293`), so the
    writer leaves at its next turn with bars still queued.
* `decisions_fit`: "Every bar it maps is turned into a `FullState`" and "scored by
  `TradingExecutor.decide`" with the weights stored "for the symbols being traded"
  (`README.md:182-191`). The weights are fitted to the vector of the pipeline's whole
  list, 3N + 1 features (`src/model.py:95`); the state of a bar holds its one symbol
  and has 4. With stored weights for two symbols or more, scoring raises for every bar,
  `_map_bar` logs it at debug level, and no decision is recorded.

What the models delimit without a run of its own:

* `README.md:12` has stored bars replayed "through the live decision path"; the
  backtest takes the first of equally good movements (BUY), the live path holds.
* The "strict 20%" cap of `docs/architecture.md:132` is kept for what the tracker was
  told of: shares filled after the answer are bought on top of it (`StakeWithinCap`
  bounds by how much).
* `MergedSeries` lets a page drop a bar, never a tick's price, at an instant that has a
  tick: which of the two survives is the matter of `market_buffer_merge`.
* A latest bar without a close is returned with price 0
  (`src/database.py:620`), and the page then shows a change of 0 from nothing; a table
  that was not answered while the page's own question, asked after it, was, makes
  the asked duration differ from the table's (`SummaryAgrees` says when).
* `limit` counts before the window and before repetitions are dropped, so a page
  may show fewer ticks than asked for although there are more.
* Two flushes of the index store that overlap may leave the older version or a torn
  file; a write that fails is not tried again until the next update. The second load
  at the server's start discards updates that were not flushed.
* A `RuntimeError` of one connection ends the round for the clients behind it; the
  dead ones it had found stay listed until their own handlers end.
* `get_historical_market_data` answers a failing database with an empty list, so the
  breaker opens on a timeout only.
* `_db_only_summary` falls back, for every duration, on the anchor of the duration
  that was asked for.
* `get_price_and_change` and `_query_historical_ticks_safe_for_buffer` have no caller.

## 6 Not modelled

* Payload parsing, subscriptions and the TLS set-up of the stream client: data
  formatting at the edge.
* The gradient steps of TD(0): floating-point arithmetic. What a pass may end with is
  left open instead. Weights do not record which of the two vector schemas they were
  trained under (`FullState.legacy_vector`, `normalized_vector`); both have the same
  length, so a change of the setting between training and trading shows in the
  values of the scores only.
* The start and stop of the server's thread, and the routes of the API that only
  format what the modelled buffers hold.
* The single-price reads of `src/database.py` and its conversion of rows: queries
  without state.
* Migrations: DDL whose behaviour is the database's.
* The scripts of `bin/`: control flow around a PID file, where what can go wrong (a PID
  that was given to another process, two starts at once) is up to the operating
  system.
* Adapters, reporting, logging, the gatekeeper, installation: straight-line I/O.
* The browser side.

## 7 Plan

1. The pipeline composed with `Decisions`, so that the bars of one batch meet the
   loading of weights; the seeding of the dashboard.
2. The PID file protocol of `bin/`, once what a PID may name is worth stating.
