# Verification of sphinx-prediction-lab

TLA+ models of the parts of this repository whose mistakes would be silent: the
exchange simulator every policy is judged by, the adapter and the replay runner
that feed it, the fee schedules it charges by, the builders that turn the ledger into
the chronicle, its features and the packs, the training loops, the collectors of the
corpus, and Sphinx Pulse, which captures market data around the clock and deletes its
only local copy after publishing it.  TLC checks the models on small instances; the
TLA+ proof system (TLAPS) proves what matters most about the simulator, the adapter,
the replay runner, the ledger backfill, the performance record and Sphinx Pulse for
every value of the constants.

Paths are relative to the repository's root.

## 1. Inventory

### Sphinx Pulse (`src/sphinx_pulse`)

| Component | State | Operations | Correct when |
| --- | --- | --- | --- |
| Collector, `collector.py` | one asyncio process: a bounded queue, the set of subscribed tokens, a websocket, the stop event, and the connection, refresh, heartbeat, writer and status tasks | fetch the catalog, enqueue its records, connect, subscribe in chunks, consume messages, refresh subscriptions, drain the queue to disk, stop | subscriptions follow the catalog, nothing of one session leaks into the next, what was queued before a stop is written, every stop ends |
| Storage, `storage.py` | directories by UTC day, append-only zstd parts by hour | `append` a batch, group by `received_at_ms`, open a new part when one is full | a record is in exactly one part of its day |
| Publisher, `publisher.py` | day directories, a local manifest, receipts; on the far side one GitHub release a day with assets in state `starter` or `uploaded` | find eligible days, measure, upload parts and then the manifest, verify, write a receipt, delete the day, sleep, retry | a manifest never vouches for what is not there, nothing is deleted unpublished, every day is published |
| Health check, `healthcheck.py` | none (reads the status file) | compare an age | - |

The collector and the publisher are two processes that share the day
directories and no lock: the writer task appends, the publisher measures and
later removes.  The publisher talks to GitHub, which may answer late, twice, with
429 or 5xx, or not at all.

Hard here: interleavings at every `await`; a queue at its limit while tasks
stop; uploads that happened although the answer was an error; crashes between
measuring, uploading, verifying, receipting and each file of `rmtree`; batches
that reach a day already over; one blocked day that blocks all later ones.

### Sphinx Corpus (`src/sphinx_corpus`)

| Component | State | Operations | Correct when |
| --- | --- | --- | --- |
| Ledger backfill, `ledger.py`, `rpc.py` | per contract a next block and a state file; batches on disk | find block bounds by binary search, read logs in adaptive spans, write a batch, then the state | batches tile the block range, also after a stop |
| Trade collector, `trade_api.py` | time windows, pages, a request budget and a rate gate shared by worker threads | page a window, split it when it overflows, normalise, write a group | no trade is lost or counted twice at a boundary; the budget is never exceeded |
| Files, `io.py` | files | write a temporary file and replace, build a manifest | a reader sees a file before or after, never half of it |
| Atlas, depth, CryptoHouse, subgraph | partitions with receipts | download a partition, skip a finished one | a receipt stands for a complete partition |
| Configuration, command line | none | parse | - |

### Sphinx Trace (`src/sphinx_trace`, `scripts`)

| Component | State | Operations | Correct when |
| --- | --- | --- | --- |
| Exchange simulator, `simulator.py` | clock, cash, orders with their open indexes and an expiry heap, positions with cost basis and last mark, aggregates carried incrementally, equity curve and peaks, closed and archived profits | `place_order`, `record_prediction`, `process_liquidity`, `cancel_order`, `resolve`, `compact_history`, `snapshot`, `from_snapshot`, `metrics` | no order spends what another reserved, books balance, indexes agree with orders, compaction and resume change nothing, the reported figures are those of the whole history |
| Replay runner, `run_h010_policy_replay.py`, `replay_audit.py`, `replay_h010.py` | the day being replayed, the position in the resolution schedule, pending calls, the account; on disk audit shards, their receipts, one checkpoint | merge trades and resolutions in time order, write a day's audit, compact, checkpoint, pause, resume, conclude | however often it is stopped, the account is fed exactly what one uninterrupted run feeds it |
| Development tape, `development_tape.py`, `h010_catalog.py` | shards with receipts | select rows by window and resolution, group by day | no trade behind its market's resolution |
| H010 adapter, `replay_h010.py`, `policy_runtime.py`, `on_policy_pack.py` | the token of each market's last call, resolved markets, counters; the policy's answer to a trade; H015's index of executions | `observe_trade`, `apply_call` (predict, cancel, size, order), `resolve`, `compact_history`, `infer` within the action mask, attribution of fills to decisions | no order is refused, no checkpoint either, what is attributed to decisions is what the account holds |
| Fee schedules, `build_h016_fee_schedule.py`, `fee_schedule_h016.py`, `polymarket_fees.py` | a plan, three caches, the open intervals, schedules with their proofs, the book | plan targets from audits and misses, seed the caches, four stages of evidence, publish, check the book, look a schedule up, replay, plan again | every published tariff is proved by its receipts, a fill of an audited decision never misses, the rounds end |
| Encodings, packs and candidates, `build_h012_policy_encodings.py`, `policy_encodings.py`, `build_h014_replay_state_pack.py`, `build_h015_on_policy_pack.py`, `build_h017_protocol_tail_pack.py`, `build_h022_candidate_pack.py` | a shard and a receipt per day, a manifest, hashes of all sources; configurations that register hashes | keep, refuse or build a day, pause, write the manifest, read rows of one artifact by positions in another | who reads a pack reads it beside what it was computed from |
| Chronicle and splits, `build_h009_chronicle.py`, `chronicle_h009.py`, `validate_h009_chronicle.py` | the catalog database, runs, the daily stream, participants, the decision database and daily decision files, each with a receipt; manifests and one final receipt | group markets by union-find and assign splits, merge scopes into runs and runs into days, place the decisions, validate | a group never crosses a split, the stream holds each trade once, decisions are those of one pass |
| Feature pack, `build_h011_feature_pack.py`, `h011_kernel.py` | the recurrent state, its checkpoint, a shard and a receipt per day, a manifest | skip, replay or emit a day, checkpoint, pause, resume | a day's features depend on the past alone, and on all of it |
| Training loops, `train_h011_outcome.py` to `train_h018_conservative_residual_policy.py` | model, optimizer, random generators, stale count; a checkpoint, the best model, epoch files, a result | epochs of batches, evaluation, early stop, PAUSE, resume | the result is that of one uninterrupted run |
| H022 cross fit, `train_h022_conditional_net_edge.py` | per seed the folds' fits and a final fit, checkpoints, seed results | fit the folds, take the median of their best epochs, fit again, combine | the final fit belongs to the folds of its result |
| Policies, features, models, the other research scripts | tensors, weights | numerical | out of reach |

The replay runner drives the simulator through the H010 adapter: each row of the
tape becomes `observe_trade` (liquidity, then the adapter's orders), each
resolution `resolve`.  Checkpoints hold the adapter and the simulator; audit shards
hold what was decided.  The fee builder reads these audits and the misses of replays
that met a trade without a schedule; its book is what the next replays charge by.
The packs read features, encodings, replays and schedules; the trainers read packs and
make the policies that are replayed.

Hard here: an event loop within which fills, expiries, cancellations and new orders
share one account; figures kept up to date step by step that must equal a full scan;
files written in pairs with a kill in between; commands that are run again after a
pause, under a changed configuration or beside sources that were made again; caches that
hold part of an answer.

## 2. Modules

| Module | Models | Uses |
| --- | --- | --- |
| `Totals` | sums over finite sets, by counting units | |
| `Simulator` | orders, cash, positions, aggregates of `ReplaySimulator` | `Totals` |
| `Adapter` | the H010 adapter, the policy's answers, H015's attribution | `Simulator` |
| `Performance` | its equity curve, peaks, drawdown and closed profits | `Totals` |
| `Replay` | the replay runner, its files, stops and resumes | |
| `Chronicle` | catalog, runs, stream, decisions, receipt and validation | |
| `FeaturePack` | the recurrent state, its shards and checkpoints | |
| `Training` | the training loops of H011 to H018, by how they differ | |
| `FeeSchedule` | builds of fee schedules and the replays under their books | |
| `Packs` | encodings, packs and candidates, their readers and the researcher | |
| `CrossFit` | the training of H022 | |
| `NetEdge` | from the feature pack to the result of H022 | `Packs`, `CrossFit` |
| `LedgerBackfill` | the ledger backfill of one contract | `Totals` |
| `TradeWindows` | the trade collector and its threads | `Totals` |
| `PulseCollector` | the collector's asyncio tasks | |
| `PulsePublisher` | storage as the publisher sees it, the publisher, GitHub | `PulseArchive` |
| `PulseArchive` | the abstract promise: kept until archived, archived for ever | |
| `TotalsProofs` | laws of sums; functions defined by steps, finite sets in order | `Totals` |
| `FeeProofs` | theorems | `FeeSchedule` |
| `PolicyProofs` | theorems | `Simulator`, `Adapter`, `NetEdge` |
| `ChronicleProofs` | theorems | `Chronicle` |
| `LearningProofs` | theorems | `Training`, `FeaturePack` |
| `ReplayProofs` | theorems | `Replay`, `Performance` |
| `CorpusProofs` | theorems | `LedgerBackfill`, `TradeWindows` |
| `PulseProofs` | theorems | `PulsePublisher`, `PulseCollector` |
| `MC...` | constants for TLC | the module they are named for |

Operators whose name starts with `Slip` are deliberately wrong variants of the
definition after them, one plausible mistake each; putting one in place of its
definition makes TLC violate the property it is paired with, which shows that
the property depends on that line of code.  They are part of no specification.

### Simulator

State: `now`, `cash`, `orders`, `openIds` (the three open-order indexes, which the
code updates together), `expiryHeap`, `shares` and `basis` (`positions`), `marks`
(`last_marks`), the aggregates `totalBasis` and `exposure`, `realized`.
`process_liquidity` loops over candidates and each iteration changes cash and
positions, so its local state is the variable `event`, and each iteration is an
action: `BuyFill`, `SellFill` and `PassOver` (outside its limit, or nothing left for
it), then `LiquidityDone`.  While `event` is set nothing else runs.
`PlaceOrder`, `RecordPrediction`, `CancelOrder`, `Resolve`, `CompactHistory` and
`Resume` (a `snapshot` and its `from_snapshot`) are one action each, including the
`_advance` all of them start with.

Abstractions.  Prices are integer ticks; notional and fee of one share at one tick
are the constants `Unit` and `Fee`, so sums and products of money are exact.  Quotients are not: shares
bought for a budget, shares sold for a fraction and the cost allocated to a partial sale are
`Quotient`s, rounded to the nearest last place and half to even as Decimal's division is; a
share stands for the last place.  Fees are the flat rate; the protocol's price-dependent
schedule is not modelled.  The affordability search of lines 671-710 never starts in the model, because
an order's fill costs no more than was reserved for it, which is what `ReservationHonoured` says; the code
needs it for the rounding of products, which the model does not have.  `Depths` are the depths after the
haircut.  The set `screened` stands for the candidates `process_liquidity` skips because
of their evidence or of the opposing-side rule.  An identifier is free again once
compaction dropped its order, which keeps the instance small; the code's hashes
are never reused.  Calls that raise are not taken (the caller stops the replay).
`AdverseTicks` is at least one, as in every configuration of the repository.

### Adapter

`ObserveTrade` starts a liquidity event, `FillBuy`, `FillSell`, `Pass`, `EndTrade` go through it.
Behind it the trade may give rise to policy calls: `Decide` is `infer` and the part of `apply_call`
that does not depend on the action (prediction, memory), with any answer within the
`PhysicalActionMask` and any size fraction; `CancelPending`, then `PlaceFor` or `NoOrderFor` per token,
then `EndCall` are the rest, and `call` is its local state.  `BuyQuantity`, `SellQuantity`,
`BuyLimit`, `SellLimit` size an order from equity, cost and what is available, as `_buy_to_fraction`,
`_reduce_position` and `_update_position` do.  `ResolveMarket`, `Compact` and `Restore` are the
simulator's actions with the adapter's part.  `executions` is what
`build_logged_execution_index` has made of the audit records so far (it is a fold over them), and
becomes `Refused` where that function raises.

Abstractions.  Shares are whole, and a quantity is rounded to the nearest share where the code rounds
to 28 digits; it may be rounded up, as there, and then cost more than the budget it was computed from
(`CallsAreCovered`, section 6).  The network's answer is free within the mask, which contains what every policy
family and H022's veto can answer.  Portfolio and memory features are only the network's inputs.
A call needs as many unused order identifiers as it has tokens, and there are
`MaxDecisions` of them.

### Performance

`curve`, `priorPeak` and `peak` are `equity_curve`, `_prior_equity_peak_usd` and
`_peak_equity_usd`; `closed` and the three archived counters are the profits before
and after compaction.  `SameSecond` and `NewSecond` are the two branches of
`_record_equity`; `Drawdown` is the loop of `metrics`, as a pair of loss and peak,
so that proportions are compared without division.  Equity may be any natural
number at any moment: how orders make it so is `Simulator`'s matter.

### Replay

`durable` is what is on disk: audit `shard`s, `receipt`s, the checkpoint `saved` and
the `result`; `memory` is lost at a stop.  The account is the sequence of events it was
fed, so two accounts are equal exactly when they were fed the same.  `source` is the
tape and the resolution of each market, chosen in `Init` over all tapes of the
instance; a tape holds no trade behind its market's resolution because the tape builder
filters them.  One action per step of `replay`: `Start` (fresh or from the checkpoint),
`Resolve`, `ObserveTrade`, `EndDay`, `EndTerminal`, then the audit (`ReuseShard`,
`RefuseHalfShard`, `WriteShard`, `WriteReceipt`), `Save` (equity, compaction, checkpoint,
and the PAUSE file behind it), `SaveTerminal`, `Conclude`, `Report`; `Crash` ends the
process between any two of them.  Inference is taken to be deterministic: equal
inputs give equal calls.  A process that raised would raise again, so `raised` is final.

### PulseCollector

A step is what a task does between two awaits.  `conn`, `refresh`, `writer`, `main` are
the places of the four tasks, `status` whether the status task runs.  The socket has
two ends: `server` is what the far end delivers, `subscribed` what the collector
believes.  Cancellation by `run()` reaches the connection task at its next await and
through it the refresh task.  Left out: the heartbeat (its failure is listed among the
hazards), backoff delays, market selection, what the status file says.

### PulsePublisher

`disk[d][p]` is the set of records in part `p` of day `d`; `remote[d][a]` the asset of
that name on GitHub, absent, a starter, or uploaded with a content.  A manifest's content
is the function from parts to what they held when they were measured.  `pc` walks
through `run_loop`, `publish_day`, `upload_verified` and `_delete_verified_day`, one action
per request or file.  A POST may be accepted, be accepted although the answer is an
error, be answered busy (leaving nothing or a starter), meet a name already taken, or
end in a transport exception.  A request of another kind that fails has used its own
retries.  `Append` and `Settle` are the collector's and the clock's side.
Left out: torn zstd frames and row counts; 4xx answers to an upload other than 422,
which the code retries as it does an empty busy answer.

### PulseArchive

Records are `kept`, may become `archived`, and may leave `kept` only when archived.
`PulsePublisher` implements it with `kept` the records on disk and `archived` those a
reader finds by following the manifests of complete releases.

### LedgerBackfill

The chain is a timestamp and a number of matching logs per block, chosen in `Init` from all
chains of the instance; `tip` grows.  `Halve`, `FoundStart`, `FoundEnd` are the two binary
searches, `TooMany`, `AskLess` and `AskFails` what a node answers to a span that is too
large or to a bad moment, `WriteRaw`, `WriteNormalized`, `WriteReceipt`, `SaveState` the four
files of a range in the code's order.  A file is the range in its name: what it holds follows
from the chain.  `torn` remembers that a run stopped between the first of them and the
last, after which ranges may overlap.

### TradeWindows

Each thread has a stack of windows, as the recursion of the code has: `Enter`, the pages
(`PageCached`, `PageFetched`, `OverBudget`, `RequestFails`), then `SplitWindow` or the leaf's normalized
file and receipt, `ReturnLeft`, `ReturnRight`, `Clean`, and at the bottom `NextInitial` and
`GroupReceipt`.  `Launch`, `Notice` and `EndRun` are the main thread.  The windows lie in the
past, so an answer is determined by its window: a page is its length, a file its name.
Only the branch for groups that have trades is modelled, with both phases in one command.

### FeaturePack

An array of the state is the history that was fed to it, so two states agree when
they were fed the same events in the same order; a day's features are the history that
led to them.  `SkipDay`, `ReplayDay` and `EmitDay` are the three ways a day is gone through,
`SaveArrays` and `SaveLatest` the two files of a checkpoint.  `shrunk` remembers a command
over fewer days than the checkpoint covers, see section 6.

### Chronicle

`Union` and `Find` are the union-find of `chronicle_h009.py` with its path compression, `Merge`
the heap merge of runs (`Given` counts what each input has handed over so far), `Pass` the single pass that counts events and places snapshots.  The stages are
the code's, each with its file and its receipt; the stream is shared by all scope
limits, the decision database is per set of scopes, the daily decision files are shared again.  `Valid` is the deep validation.
`PolygonCompletes` stands for the other builder.  `switched` remembers that the scope limit
changed between commands.  `ScopesAssumption` asks of the ledger what the readers ask: rows in the order of time,
which `_assert_ordered_raw` enforces, and one trade to an identifier; `AtlasesAssumption` says what an atlas and the
plan's windows are, and that no window is called as a market without one.  Left out: the episodes file and what a snapshot
holds beyond its reasons.

### Training

Six loops that differ in four ways (`batchwise`, `initial`, epoch files, what a
resume needs), as records in `Trainers`, one of which `Init` chooses.  A model is the sequence
of batches it was fitted on, each with the state of the random generators.  `overrun` is a history
variable: the epochs after which patience was out and with whose checkpoint a command began again; a loop that is
resumed there trains on (section 6), and `ResultIsWhole` says that nothing else makes a result longer.
`score` says what each epoch's evaluation will find, not-a-number included, over all
sequences of the instance.

### FeeSchedule

What a receipt shows of a market's fill is the set of registered tariffs its fee agrees with; the formulas
of `polymarket_fees.py`, which decide that set, are left out.  The set is empty for a fee that agrees with none, which is
evidence still and spoils a consensus, and `{None}` where there is no evidence.  The protocol of a fill is that of the contract
that emitted it (`ofV1`, chosen in `Init` like the fees): the plan goes by time and takes one protocol for an interval
(`IsV1`), the receipt stage asks for it (`ByReceipt`), the info and market stages take it from the receipt (`V1`).  `Begin` makes the plan (`Targets`, cut
into one interval per market and fee epoch by `SplitRanges`, with the `Candidates` of each) or refuses
the one it finds; `Seed` is the import of the last book's proofs; `Official`, `Infer`, `Settle` and `Agree`
are the four stages of evidence with `FetchReceipts`, `FetchInfos` and `FetchTrades` filling the
caches in waves; `Publish` writes book and manifest; `Stop` loses everything but plan, caches and
results.  `Accepted` is what `FeeScheduleBook` asks of a book.  `Play` is a replay's day under it: some of
the decisions are called, one trade without a schedule may meet an order, and the first such
trade ends the replay with its miss on file.  `Extend` is the next build, in a directory of its own.
A receipt that is in a cache through a seed may lack the refunds of other markets' orders, which
is what `receipts[tx]` (the markets whose refund it holds) is for.  Left out: the least-residual score
and the limit of 64 candidates in the market-wide stage (every listed transaction is read), the
worker threads within a wave, and misses met inside inference (section 6).  V2 has no refunds; a V1 fee without a
refund in the whole receipt is no evidence at any stage, and no fee is refunded whole.

### Packs and NetEdge

A hash is the number of a writing; a day on disk is the contract on its receipt together with the
numbers of what it was computed from.  One command runs at a time, and its sources are not made again
while it runs.  `BeginEncodings` to `WriteEncodings`, `BeginPack` to `WritePack`, `BeginCandidates` to
`WriteCandidates` are the builders; `TrainState`, `TrainOnPolicy`, `TrainResidual`, `TrainNetEdge` the readers, by what
each of them compares; `study` says which of the three packs is built and who reads it.  The
researcher makes sources again (`Make`), registers what is there (`Register`), deletes what a builder
refused (`Clear`).  Left out: the arrays, and three sources that are registered and compared like the replays
(tape, its conditions, the earlier policy).  A replay of other features may or may not have the same rows,
so `RefuseRows` is free then.  `NetEdge` lets H022's training follow its candidates.  Once the training has its partitions in
memory, what happens to the packs on disk is left out.

### CrossFit

One fit after the other, each from its checkpoint if there is one; `receipts` is
what this process knows of its folds and is lost with it.  The improvement of an epoch is
left open because no checkpoint holds the random generators.

## 3. Runs

| Run | Instance | Shows |
| --- | --- | --- |
| `sim_core` | two outcomes of a market and one of another that share the cash for two shares at the lower price, two orders, two seconds, two policy calls for half or all of the equity | the account stays covered, the books balance, the indexes agree, compaction and resume are neutral; no checkpoint is refused, and an order of the adapter only for the last place of its quantity; H015's attribution is the account |
| `performance` | five seconds, four equity values, two closed trades | peaks, drawdown and compaction |
| `replay_resume` | every tape of two markets over two days with a gap, every resolution, two stops at any step | resumes are exact, the audit is complete, the run ends |
| `chronicle` | three scopes in groups of two, all scopes or two of them, two atlases, two stops, the graph completed at any moment | stream, decisions and splits; the same command ends |
| `features` | three streamed days, every schedule of the instance, three stops, changing day limits | features are causal and complete; the build ends |
| `training` | four epochs of two batches, patience two, two contracts, every sequence of scores, a kill, a pause and a rerun; all six loops | resumed models are exact, the result is the best of its epochs and longer only by overruns, every command ends |
| `crossfit` | five studies over two days, one source made again at any time, two kills or pauses; then three folds of up to three epochs, patience one, three kills or pauses | packs are read beside what they were computed from; training begins; what a seed's result names belongs together |
| `fees` | two markets over two days and both epochs, 96 receipt maps with the border between the contracts at, before or behind the cutover, three market infos, two lengths of the first replay, three rounds with and without seed, one stop | audited decisions never miss, tariffs and protocols are those of the receipts, stops are neutral, the rounds end |
| `ledger` | every chain of seven blocks with timestamps 0 to 3, spans of one to four, three stops | the bounds are exact, ranges tile, the backfill ends |
| `trades` | two groups of three seconds, two threads, windows that saturate at three trades, two faults, four requests a run | a complete receipt is the truth; the collection ends |
| `collector` | two markets in chunks of one, queue and batch of two, messages of up to two items | subscriptions and shutdown; every stop ends, no put waits for ever |
| `pulse` | two records, three days, two parts, two POSTs, two faults of all five kinds | releases are complete, deletion only behind verification, the archive's promise, every day is published or an unrepaired fault stands in the way |

Why the bounds are enough.  *Simulator and adapter*: competition for cash or shares needs two
orders, competition across markets a second market, and a market of two outcomes gives calls that sell one and
buy the other; a partial fill needs depth one beside orders of two shares; an order of the first second
has expired in the second.  The lists of sizes and limits hold whatever a call can ask for here: a call for
another would have no action left, and deadlock is checked.  Two calls let the second
cancel, reduce or add to what the first left.  Cash for one and a half shares at the higher price makes a call for all of it
round up, and its order is rejected, alone and beside an order that has reserved cash; a sale by `UPDATE` rounds, too.
The rounding of a partial sale's allocated cost does not occur in this instance and is covered by the proof of `BooksBalance`.  *Performance*: rewriting the point that made the peak
needs two records in one second with another before them, and the drawdown needs a
peak, a fall, a higher peak and a smaller fall.  *Replay*: a day of two seconds, a gap
and a day of one give every position a resolution can have (before, between and on
trades, at a day's last second, in the gap, behind the tape); a second stop hits the day
that is being repeated.  *Chronicle*: two groups of runs, the second of one scope, are the
least for a merge of merges; limits two and three share some scopes and not others, and a stop
in each of two builds leaves files of both.  *FeaturePack*: the third day is
skipped, replayed and emitted in some behaviour, and the third stop hits a build that was resumed
from a resumed one.  *Training*: with patience two, four epochs let a loop stop early,
overrun, and find a better model behind a stale epoch.  *Packs*: two days let a
build stop with one day kept and one open, two behaviours give packs of four; one artifact made again makes
every pair of sources disagree in some behaviour.  *CrossFit*: three folds are the least
odd number whose median is not its only or extreme element.  *Fees*: the tape has a transaction with trades
of both markets, one beyond the cutover, trades of both days and one behind each horizon; the contracts change
with the cutover, or a V1 contract still emits the fill behind it, or a V2 contract one before it, so that info and market
schedules of the protocol that was not planned are among the books, and a receipt stage that refuses a receipt for its protocol;
a refunded fee that agrees with no tariff stands in the way of a consensus in some behaviours; two receipts a wave
stop a stage half done; the third round meets a seed that was seeded.  *Ledger*: seven blocks with four
timestamps hold runs of equal stamps at, before and behind each bound, and windows of no
block; spans of four and halves of them do not divide the range.  *Trades*: three seconds split
into two and one and again; the third request beyond a window's pages meets the end of
the budget in every place.  *Collector*: two markets let one leave while the other arrives;
the queue fills with the catalog alone.  *Publisher*: two parts let one be uploaded and the
other fail, the third day lets an earlier day block a later one, two POSTs are one retry
(the code makes six that differ in delay only), two faults allow a failure while
recovering from a failure.

Deadlock is checked for `sim_core` and `performance`.  The other systems may
stop: a collector when it was told to, a publisher when the bounded calendar is over, a
builder with its result or an exception.

Fairness.  *Publisher*: weak fairness of the calendar, of the collector's append, of
the file clock and of the publisher's steps.  `run_loop` is an endless loop in a
container that restarts, so its steps do happen; faults are never fair and are at most
`MaxFaults`, because GitHub does not fail for ever.  *Collector*: weak fairness of each
task, which is what the asyncio loop gives ready tasks, and strong fairness of `Put`,
because `asyncio.Queue` wakes its waiting putters in order; none for messages, the
network, the signal or the status task.  *Batch commands* (`Replay`, `LedgerBackfill`, `TradeWindows`,
`FeaturePack`, `Chronicle`, `Training`): weak fairness of the command's own steps, one per thread, and of
starting it again after a stop, which is what the operator does; stops, failing requests, the PAUSE file
and the completion of the graph are never fair, and nobody is obliged to remove
PAUSE from a training directory.  Ledger: weak fairness of `Grow`, because chains grow.
*Fees*: weak fairness of `Build`, `Play` and `Extend`, each command being run again until it has done its work.
*Packs*: weak fairness of `PackWork`: commands are run again, refusals are answered, missing sources are
made; and of removing PAUSE where a pack waits for it.  Making sources again without need, and stops, are
bounded and never fair.  `CrossFit` states safety only.

## 4. Theorems

All of them hold for every value of the constants the modules' assumptions allow, over any
number of tokens, orders, seconds and amounts, of days, parts, records and faults.

`PolicyProofs`, from `SimulatorAssumption` for the simulator:

- `OrdersAreTracked`, `ReservationsAreCovered`, `BooksAlwaysBalance`: the account invariants of `sim_core`,
  with `TypesHold` and the two halves `CashIsCovered` and `SharesAreCovered`;
- `ReservationsAreHonoured`, `ResumesAreExact`: its action properties; and `FinalOrdersNeverChange`.

The inductive invariant `IInv` is the conjunction of `TypeOK`, `OpenOrdersTracked`,
`StatusMatchesFills`, `CashCoversReservations`, `SharesCoverReservations`,
`BooksBalance` and `EventServesOpenOrders`.  The last one is needed because a loop over
candidates was started in an earlier state: its remaining candidates must still be open,
on its token and eligible.  The others need each other: cash stays a natural number because it covers
the reservations, a fill takes from cash no more than the reservation it releases
(`CostMonotone`, `CostSplits`), the set of reservations changes with the open indexes only,
and a sale's allocated cost lies between zero and the basis (`AllocationBounds`),
which keeps the basis a natural number and the last sale's remainder zero.  There is
one lemma per action, and `NextPreserves` combines them.  Reservations and books are sums over
sets; `Totals` defines them through the cardinality of a set of units, so that
`TotalsProofs` gets what it needs (a sum is natural, splits over disjoint sets, is monotone,
changes by one term) from the library's theorems on cardinality instead of an
induction the prover cannot do.

`PolicyProofs`, from `SimulatorAssumption` and `AdapterAssumption` for the adapter:

- `AdapterImplementsSimulator`: every behaviour of a replay is one of the simulator's
  specification, so all theorems about `Simulator` hold in every replay;
- `SnapshotsAlwaysHold`: the exposure carried along is the one a full scan finds, whenever a
  snapshot can be taken.  The simulator alone does not keep this (section 6);
- `CallsAlwaysCovered`: an order of the adapter is rejected only if it is a BUY whose division was rounded up, and then it asks for
  at most half a last place more than the account has free; a SELL never is;
- `AttributionIsAlwaysAccount`: what H015 attributes to the decisions is what the account holds and what it realized.

The invariant added to `IInv` is `CallInv`.  Its part `ScanInv` says what the exposure needs of the
caller: open orders on a token are of one side (`OneSided`), so that no event can close a position and open
it again; what is held, and what is about to be bought, has a mark (`HeldIsMarked`, `BuyersMarked`).
`OneSided` in turn needs `CallTargets`, which says that whatever is still open on a token a call has yet to
size will be cancelled first; the rest of `CallInv` says that memory and trade name tokens of
their market.  That an order is covered but for its last place rests on what a rounded quotient is: times its divisor
it is no further from the dividend than half the divisor (`QuotientBounds`, `BuysAreCovered`), and it is at most an
integer where the exact quotient is (`SalesAreCovered`); and on a call's cancellations, which release before it is sized.
The attribution has `AttributionInv`: as long as it has not refused, every open order buys what a recorded
decision called in a market not resolved (`OrdersRecorded`, `CallRecorded`), because it knows decisions to call and to
skip only; so a fill adds to the account and to one decision the same, a resolution moves a market's decisions from one
sum to the other at once, and a trade under way is of a market that is not resolved (`TradeUnresolved`).  Sums over the
decisions of a token are taken apart by `SumTakenOut`, `SumByToken` and `TotalByParts`.

`ReplayProofs`, from `CalendarAssumption` for `Replay`:

- `ReplayResumesExactly`: over any days, markets, tapes, crashes and pauses, the account was fed a prefix of what
  an uninterrupted replay feeds it;
- `AuditIsAlwaysComplete`: the shards of a replay that finished are that sequence, each event once, on its day.

The invariant, `Feeding`, never mentions the whole sequence.  It says that whatever an account was fed comes causally before
all it was not fed (`Fed`), and what that remainder is (`Stands`): the rest of the schedule, the day's rows not read yet and the
rows of later days.  It says so of the running account and of the checkpoint's, whose day has
not begun; so a start stands where the checkpoint stood (`StandsOpen`), and a step feeds the least event of the
remainder (`ResolveStands`, `ObserveStands`, `FedNext`).  Only at the end `FedIsPrefix` concludes, by counting predecessors
(`RanksCount`), that there is one sequence of which such an account can be a prefix.
The audit's invariant, `Auditing`, stands on it.  A shard is the piece of the sequence that belongs to its day
(`PiecesOf`), a checkpoint stands at the beginning of a day before which all shards are there (`Opens`), and a running
day has been fed no event of a later one (`Underway`): a day that is replayed after a stop, with its shard there already,
collects the same events again.  The last piece is empty when there is nothing behind the tape, and then no shard is
written (`TailKept`).  `PiecesFlatten` puts the pieces together.

`ReplayProofs`, from `ValuesAssumption` for `Performance`, with the conjunction of `TypeOK`, `PeakIsCurveMaximum` and
`CurveAscends`:

- `Types`, `PeakIsRight`, `CurveIsOrdered`, `FiguresAreKept`;
- `DrawdownIsRight`: the drawdown reported is a loss from a point of the curve to a later one, and none is worse;
- `CheckpointsAreAccepted`: the checks of `snapshot` and `from_snapshot` on the two peaks never
  refuse the simulator's own state.  It rests on the peak of a curve being unique (`PeakUnique`).

The drawdown is a recursive function of the curve, of which nothing is known before it is shown to exist:
`StepsExist` (`TotalsProofs`) does that for any function defined by steps over `0 .. n`, and `UpTo` is the induction over such
an interval, for a set instead of a predicate, which the prover can instantiate.  `RunningPeakFacts` and `DrawdownFacts` follow;
that no loss is worse needs that comparing proportions is transitive (`NotWorse`, `LessOfLess`).

`CorpusProofs`, from `ChainAssumption` and `ScanAssumption` for the ledger:

- `StateIsAlwaysTrue`: on every chain, for every window and all spans, what the state file says is so.

The invariant adds to the type invariant `Bracket`, the loop invariant of the binary search (all blocks below `low` are too early,
`high` is not, which is why the search must begin at a block that is late enough), `Progress`, that a chunk lies within the
bounds and starts where the state file says, and `Stored`, that unless a run was torn all ranges on disk end before that
block, but for the chunk being written.  Counting each fill once is `TotalSplit` of `TotalsProofs`; that the window's start
is not behind its end (`WindowOrder`) is what keeps the first state file within its own bounds.

`CorpusProofs`, from `TradeAssumption` for the trades:

- `CompleteIsAlwaysExact`: for any trades, partitions, page sizes, budgets, threads and stops, a receipt that says complete counts
  every trade of its window once, and every one of them is in a file; and the run's receipt only says so when every group's does.

Its invariant, `CollectInv`, is about what a thread holds between two files.  An outcome is `Right` for a window when, if it is
complete, it counts the window's trades and all its seconds are in files; receipts are (`ReceiptsRight`), and so is what a thread
is about to return (`AtTop`).  On a thread's stack each frame's window is cut in two, and the frame above it is the half
that its side says, the left half's outcome being right once the right half is asked for (`Calls`, `HalvesJoin`).  The windows to do follow each
other to the interval's end, and the sum is right for all seconds before the first window on the stack (`ChainFrom`,
`UpToSecond`, `SumGrows`); the first windows divide the interval whatever the partitions (`InitialChain`).  That the pages read
add up to the window's trades (`PagesAddUp`) is the only place where sizes of pages matter: the page at the maximum offset
is not full.  `Orderly` adds that no two threads have one group, and that nothing happens behind a run's receipt that says complete.

`LearningProofs`, from `TrainingAssumption` and `NoneAssumption` for the loops:

- `TrainingIsAlwaysExact`: whatever is killed, paused and resumed, in each of the six loops and for all scores, models are those
  of a training without stops, and the result names the first best of its epochs, its score and its model; its epochs
  are those of a training without stops and, if a command began again with patience out, those trained on behind it.

The invariant says what the memory, the checkpoint and the files say of each other.  All that is held of a run is what its epoch and batch make it (`AllUndisturbed`),
its best and stale epochs are those of the scores so far (`AllSeen`), and it stands in front of an epoch that is still to
train, or overran it by what the loops allow (`Continues`).  Files are written one after the other, so the best file may be of
the epoch that the checkpoint has not reached (`BestKept`), and epoch files may be further, too (`EpochsKept`).  `LeadsIsFirstBest`
turns the running comparison into the first of the best scores.  How many epochs a result has is the matter of a second invariant,
`OverrunInv`, on top of the first: every epoch so far after which patience was out by the scores alone is in
`overrun` (`Excused`), because a loop's own stale count is that of the scores (`CountSaysPatience`) and only a begun command goes
on in spite of it.

`LearningProofs`, from `StreamAssumption` for the feature pack:

- `FeaturesAreAlwaysCausal`: for any stream and any schedules, however a build is paused, killed and started again, a day's
  receipt stands for features that saw each event of the past once and none of the present or the future, unless a shorter
  command came in between.

`StreamAssumption` is what the chronicle leaves on disk: a file per date of its rows' seconds, dates and rows in
order.  The invariant, `FeatureInv`, says for an unshrunk build that every shard, the checkpoint and the
state in memory are `FedOf` the days up to theirs: exactly their trades, the resolutions up to their date and their actor
deltas, each once and in an order in which nothing comes before what it may not precede.  `BetweenDays` and `WithinDay`
say how far the state is while a day is skipped, replayed or emitted (`Behind`), `LatestFed` that a checkpoint's receipt is of
the arrays it was written for.  A day is gone through row by row: `FirstStep` feeds the actor delta, `RowStep` a row with
the resolutions due before it, `LastStep` the rest; `RowsAreTaken` joins them, for which the recursion over the rows must be shown to exist
(`StepsExist`).  That resolutions can be put in order at all, as `InOrder` does, is `RanksCount`: the members of a finite set
of numbers are ranked by how many are below them.

`ChronicleProofs`, from `ScopesAssumption` and `AtlasesAssumption`:

- `StreamIsAlwaysExact`: the stream a manifest names holds each trade of its scopes once, in time order and in each scope's own
  order, for any ledger, group size and limits, however often a build is paused, killed and run with another limit;
- `DecisionsAreAlwaysOnePass`: a build that ends structurally valid made the decisions of one pass over the stream of its
  manifest, and every file the validator passes is of that pass, if the limits in use are one spread of scopes and the whole
  ledger (`OneSpread`; why this is needed is in section 6);
- `ComponentsAreAlwaysSealed`: in every catalog put in place the components are the classes of markets that events chain, and a
  market is labelled only when its whole component closed before the last label window ends, for any atlas and windows;
- `StreamInvariant` and `DecisionsInvariant`, the inductive invariants they come from.

The first theorem has a part about merging and a part about files.  A merge is described by where each of its rows comes from
(`Merges`): each input's rows once and in their order, and between a row and a later one of another input there was a head of
that input which was not earlier.  So the order of two trades after a merge does not depend on what else was merged: in `Precedes` a trade's
rank is the latest key that its scope has up to it, and within a scope the order is the scope's own.  That is a
total order (`PrecedesTotal`).  To be the list of some trades in this order (`Lists`) passes from
scopes to runs, from runs to a date of a run and from there to the merged date (`MergeLists`, `OnDateLists`,
`MergedDateLists`), which is why the merge of runs that are merges gives what one merge of all scopes would.  Rows of one second whose
identifiers are out of order are the hard case: there the merged stream is not sorted by `trade_sort_key`.  `StreamInv` then says that every
file of a date is that of some limit, a receipt tells of which it was, and a command has receipts of its own limit for all its dates when it
counts the rows.

For the second, `StatesInv` says that a database holds passes from nothing over the first dates of its scopes, each over a file some
limit left there: a kill before the commit leaves the counts of the date before, so the passes form a chain without a break.
`WorkInv` relates the pass in memory to that chain, `MadeInv` the manifest.  The chain is the one pass of the manifest's
stream if each file read was of the manifest's limit, and this is where row totals come in (`SameRows`): with one spread beside the whole
ledger, a date of the other limit has rows no fewer, or no more, at every date, so equal totals leave no date out of place.

For the third, `Rooted(u, R)` says that `R` gives each event its root and that ranks rise from an event to its parent and to its root.
Rising ranks are why going up ends: an event of greatest rank where the recursion of `Root`, or of `Path`, said something else than `R`
would have a parent of greater rank where it does too.  `Find` leaves `R` as it is, and `Union` sends one root to the other
(`LinkRoots`).  `Joins` says what this does to classes: the events given come into one, none is split, and whatever is a union of
classes and holds all or none of the given events stays one.  The two halves carry through groups and markets (`AddGroupJoins`, `UnionsGroup`) to
`ComponentsChain`, both directions of it: a chain of shared events never leaves a class, and the events of a set of markets that no event leaves are
a union of classes.

`PolicyProofs`, from `CrossFitAssumption`, `PacksAssumption` and `NothingAssumption`, for the composition:

- `ResultsAlwaysBelongTogether`: a seed's final fit ran for the median of its folds' best epochs, and its files are of the epochs
  its result names, however the cross fit was stopped;
- `OffsetsAlwaysFit`: a pack is read beside the features and encodings each of its days was computed from.

For the first, `FitInv` follows the folds: an artifact behind the fold at hand is of the best epoch its checkpoint names
(`Files`), what the command has in memory is what it read of them (`Memory`, `InFiles`), and the median of an odd number of
values is one of them (`MedianExists`).  For the second, `PackInv` has, until training begins, `Building`: a day was made of the
sources its contract names (`Computed`), a build's days behind its position are there and of one contract (`Whole`), and the
numbers a contract names stay bound to what was made under them (`Bound`), although sources are made again at any time.

`FeeProofs`, from `FeeAssumption` (the tape is in time order, a transaction has one time, the epochs have the first fee
and the cutover among their finitely many bounds):

- `FillsAreAlwaysQualified`: under any book of any number of builds and replays, no policy misses a schedule where a source
  of the book has audited a decision that led there;
- `BooksAreAlwaysGenuine`: whatever the caches hold of other books, each published tariff is what the whole receipts show, under the
  protocol of the contract that emitted them, whichever contract that is; receipt and info schedules are of the interval's own trades,
  and receipt schedules of the planned protocol;
- `StopsAreAlwaysNeutral`: however often a build without a seed is stopped, it publishes exactly one schedule for each
  interval of its plan, the one a command without a stop finds, and fails only when that command would.

The first two have the invariant `FeeInv`: what is not open any more has a schedule (`Building`), every schedule is genuine when it is
found (`AllGenuine`), a book has one for each segment of the plan it was built for, and what a replay missed under it is in none of
them (`BooksRight`).  Neither is about caches, which is why seeds do no harm to them.  What makes `FillsQualified` true is
`TargetsCovered`: a trade at which an order of an audited decision may fill lies in the decision's window, so in a piece of one
epoch, so in the interval that joins the pieces (`RowsCovered`), which is a segment because it has that trade.  That receipt and info
schedules are of the interval's own trades rests on candidates
being rows of the interval (`CandidatesFacts`, for which the order of the candidates must be total).  Nothing is assumed of when
which contract emits a fill.
The third needs `NeutralInv`: the caches hold whole answers (`CachesWhole`), the schedules found are those expected and one for each
segment (`Exact`), and what is open was tried in vain by every stage that is over (`StillOpen`).  One stage keeps
it by `ResolveExact`, and what is expected of a segment is computed stage by stage (`ExpectedAlone`, `ExpectedInformed`,
`ExpectedOfMarket`).

`PulseProofs`, from `SizesAssumption` for the collector:

- `SubscriptionsAlwaysAgree`: at rest the far end delivers what the collector counts as subscribed, and sessions inherit nothing;
- `QueueAlwaysSurvives`: a writer that ends without a failure has written all that was queued when stop was set.

The first rests on `Sends`: while a refresh is sending, what the far end delivers, with what is to be added and without what
is to be removed, is the catalog just fetched, although additions and removals were computed from an earlier belief; and on
`Sessions`: belief, refresh task and socket end with the session.  The second rests on the queue's order: what is due is never
more than queue and batch hold (`Counts`).

`PulseProofs`, from `BoundsAssumption` for the publisher:

- `ReleasesAlwaysComplete`: a manifest on GitHub, and a receipt, stand for parts that are there with the
  content they name;
- `NothingIsTakenBack`: nothing that finished uploading is replaced or deleted, and no file leaves the disk
  but behind a complete release and a receipt;
- `PublisherKeepsPromise`: `PulsePublisher` implements `PulseArchive`, for every record that
  reached the disk on its own day.

Here `IInv` joins what the publisher remembers to what is true elsewhere by now: the day at hand
is over and in nobody's pass (`DaysAreOver`), what was measured is still on the disk, and what is there beyond it
came late (`MeasuredFromDisk`), the parts that were gone through are up as measured, and the manifest is behind
all of them (`PartsBeforeManifest`), and a record in the queue is neither on the disk nor published
(`CapturedOnce`), which the refinement needs of a late batch.  The lemma all uploads rest on is
`HostStep`: a POST that is accepted, refused or cut puts only under a name that held no finished
upload what the file holds, and a manifest only when `todo` is empty but for it.  In the refinement a manifest's upload
archives what was measured, and the removal of a part discards what was archived (`HostArchives`, `RemoveArchives`).
`MinFacts`, that a set of natural numbers has the least element `Min` chooses, comes from the library's
well-foundedness of `<`.

## 5. Model-checked only, and not modelled

Model-checked only: the liveness properties (`StopEnds`, `PublishedOrObstructed`,
`ConcludesUnlessTorn`, `Completes`, `Collects`, `FinishesUnlessTorn`, `SameCommandCompletes`, `Finishes`,
`Qualifies`, `TrainingBegins`), which
are beyond the prover.  Every safety property of a run has a theorem.
What a recursive function is, is proved where it runs over an interval of numbers (`StepsExist`) or up the union-find (`RootIs`,
`PathSharesRoot`); over other data it is checked only.

`FutureUnchanged` compares the states before and after a compaction or a resume;
`QueueSurvivesStop` promises only records that were queued when stop was set: one that arrives
while the tasks are being cancelled may be put behind the writer's last look.

Not modelled: health check, configuration and command line (stateless); the query text and
parsing of the data sources; networks, losses and the arithmetic of features and of fees; torn zstd
frames; the development tape builder, whose shard protocol is that of `Replay` and
`FeaturePack`; the builders of other studies' contexts and the scripts of the first trials, which read
finished files and write one result.  In modelled components:
the `empty_market_window` branch and single phases of the trade collector, `progress.json`
files, the heartbeat of the collector, the contents of episodes and snapshots, what the policy network sees.

## 6. Where the code and what is said of it part

Met while modelling; the properties allow for them by name, or the models contain them.

Simulator, adapter and Pulse:

- A SELL that closes a position drops its mark; a BUY later in the same liquidity
  event opens it again at a fill price which the incremental exposure counts, while the full
  scan values an unmarked position at average price, fees included.  `snapshot` then raises
  "aggregates drifted" although its comment expects Decimal dust only (`simulator.py:791`).  The
  adapter never has both open on a token, so no replay can reach it: `SnapshotsAlwaysHold`.
- A batch the collector still held for a finished day, appended between measuring
  and `rmtree`, is deleted unpublished (`docs/CORPUS.md:175`).
- A POST that ends in a transport exception may leave a starter; later passes take it
  for a different file and raise, on this day and so on every later one
  (`deploy/pulse/README.md:21`).  A failed request while a starter awaits deletion ends the same way,
  and so does a crash inside `rmtree`, whose partial day makes another manifest than the published one.
  `PublishedOrObstructed` shows that nothing else keeps a day from being published.

- `buy_shares_for_total_cost` returns what it calls the largest size affordable (`simulator.py:426`), but under the flat fee it is
  a quotient that may be rounded up: 9.5 at 0.9 is 10.55555555555555555555555556 shares, which cost more than 9.5.  A call
  for nearly all the cash is then rejected by `place_order` (`:559`), and the decision has no effect.  The protocol's branch steps below such a
  quotient (`:457`, with a test of its own, `tests/test_simulator.py:248`).  `CallsAreCovered` allows for half a last place and no more.
  H015 counts the rejected order's requested shares all the same (`on_policy_pack.py:150`).

Replays, builders and training:

- A stop between a day's audit shard and its receipt makes every later replay raise
  (`docs/ARCHITECTURE.md:183`); the feature pack refuses its half-written days the same way.
  `ConcludesUnlessTorn` and `FinishesUnlessTorn` show that this is the only way in which a
  stopped command does not come to its result.
- A feature pack command with a smaller `--day-limit` than its checkpoint covers saves the restored
  state under an earlier date; the next command feeds the days in between twice (`shrunk`).
- A ledger window without any block is never marked complete (`Completes`).
- A training loop that begins again from the checkpoint where patience ran out, after a pause, a kill or its own result, does not ask
  whether it had stopped early: it trains one epoch more, at least, and may find another best model and another result
  (`train_h011_outcome.py:502` and `:619`, `train_h012_policy.py:451` and `:554`, `train_h014_replay_state_policy.py:517` and `:611`),
  although `docs/ARCHITECTURE.md:183` has resumes exact.  `TrainingIsExact` allows for this by name (`overrun`) and for nothing else.
- An H022 command stopped after the final fit of a seed began and run again fits the folds again from
  checkpoints that may stand behind their early stop (`train_h022_conditional_net_edge.py:311`); another best
  epoch changes the median, the final checkpoint is then of another contract, and every later command
  raises (`docs/ARCHITECTURE.md:183` has resumes exact, and the configuration calls the training resumable).
  A seed's result is reused whatever candidates the command now has (`:579`).

Chronicle:

- A stream date is kept on its receipt's scopes and the existence of its file (`build_h009_chronicle.py:820`).  A build with another
  `--scope-limit`, killed between file and receipt, so leaves its file under this receipt, and the decisions are made over it.
  The receipt compares row totals, which is not enough for two partial spreads of which neither holds the other: of five scopes,
  limit two takes scopes 1 and 3 and limit three takes 1, 2 and 4, and where scopes 2 and 3 have one row each on a date, TLC finds a
  structurally valid receipt for decisions over the other limit's file, although `docs/RESEARCH.md:584` has a restart
  reproduce the artifacts.  The deep validation compares hashes and refuses these files.  `DecisionsAreAlwaysOnePass`
  shows that one spread and the whole ledger are safe; the run has limits of that kind.

Fee schedules:

- The last stage of evidence reads a market's trades of any epoch before the cutover and asks for no protocol,
  so an interval may get the schedule of an older one (`build_h016_fee_schedule.py:912`), although
  `configs/trace/sphinx_trace_simulator_h016_real_fees_v1.json` forbids backfilling across history.
- Only the receipt stage asks whether a receipt is of the planned protocol (`build_h016_fee_schedule.py:1103`), the info and market stages do
  not (`:1154`, `:1252`), and the plan goes by a cutover whose time `configs/corpus/sphinx_corpus_v1.json:118` calls approximate.  Near it
  an info or market schedule may be of the other protocol than planned.  `Genuine` has each schedule under the protocol of its
  receipts, and under the planned one for receipt schedules only.
- A refunded fee that agrees with no registered tariff is kept as a sample of the consensus and makes it fail (`:1260`,
  `fee_schedule_h016.py:415`), although others might agree.
- A seed puts receipts without other orders' refunds, and market lists of one trade, into caches
  that take them for complete answers (`:588` calls them exact); a seeded build may fail
  where an unseeded one qualifies, which is why `StopsAreNeutral` is about builds without a seed.
- A replay that misses on its first day leaves neither shard nor checkpoint, and a build refuses its
  directory (`Usable`); a miss met while the policy is asked, not while a trade or a call is applied, is not put on file.
- Running a finished build again changes its manifest's hash, and replays with a checkpoint refuse it.

Packs:

- A pack's builder does not ask whether encodings and features belong together; only the encodings' own
  command and the store that replays read them through do.  `OffsetsFit` shows that this suffices, because a pack needs replays.
- With PAUSE in place, encodings get a day further with each command; a pack's command stops after its first day,
  a kept one too, and gets nowhere.
- Candidates whose manifest is there are returned whatever the configuration says; the training
  then refuses them.  A finished build run again changes its manifest's hash, and H018 and H022 refuse the
  pack until it is registered anew.

## 7. Plan

Done: the modules above, and a theorem for every safety property that a run checks.  What would
come next: the development tape's shards; the download partitions of the corpus.
