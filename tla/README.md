# RESTGo in TLA+

RESTGo is a Go program (with some Python around it) that loads daily candles of
the Korean market into a database, searches them for buy signals, backtests rule
strategies on them, keeps a paper-trading ledger of one strategy, evaluates candle
lists that arrive over RabbitMQ, and reports to Telegram. A resident scheduler starts
the batches. This directory holds a TLA+ model of the parts of it that have state or
order worth arguing about, TLC runs on small instances, and proofs of safety properties
for all values of the parameters.

Contents: [components](#1-components) · [modules](#2-modules) ·
[runs](#3-runs) · [fairness](#4-fairness) · [proofs](#5-proofs) ·
[what the model leaves out](#6-what-is-left-out) · [observations](#7-observations) ·
[plan](#8-plan)

## 1. Components

`PROJECT.json` has the full list with the source files and the state of each.

| component | its state | its operations | hard behaviour | correct when |
|---|---|---|---|---|
| **paper-trading ledger** `stock/paper_wd.go` | `ledger.json`: positions, closed trades, totals, first and last day | `HandlePaperWD`: load, replay open positions on the candles since their signal, enter the day's signals into free slots, save by rename, alert | runs that are missed, repeated, backdated, overlapping; a failed write; death between two steps; a stock that stops trading | each fill is the one the candles dictate; the slots are never exceeded; totals agree with the trades; only what is saved is announced, once |
| **task scheduler** `scheduler/` | pid file; in memory the day, the completed tasks, the holiday list | start, tick, dispatch, status, stop, signals | late ticks against two-minute windows, tasks that wait for others, two starts at once, removal of another process's pid file, restarts | a due task is started once a day, after what it waits for; one scheduler is up and `stop` finds it |
| **log pipeline** `console/logger.go`, `cleanup.go` | a bounded queue, a batch, retry state | `Log`/`Tele`, `processLogQueue`, `flushLogBatch`, `stopLogger`, `Cleanup` | batch, timer and shutdown in one `select`; retries against a broken session; other goroutines logging during `Cleanup` | a message is delivered, or reported lost, or visibly dropped; `Cleanup` ends |
| **RabbitMQ session** `console/rabbitmq.go` | the connection, the map of channels, the reconnect signal | `MonitorConnection`, `HandleReconnection`, `recreateChannels`, `Send`, `Receive` | breaks while a monitor is not registered yet or channels are re-opened; superfluous signals; consumers that are not restored | a noticed loss ends in a new connection that is watched; no channel of an old connection stays in the map |
| **box detection** `box/` | the box list of an analysis; the curve key kept *in* the candles | `AnalyzeCurvature`, `CheckAndCreateDefBox` per candle | a grid hands one candle list to several workers; boxes that are moved, doubled or linked to what is not there | no candle ahead is read; overlapping analyses find the same boxes; DefBoxes are linked to what they broke |
| **buy rules, triggers, follow-up** `stg/buy_*.go`, `trigger_*.go`, `armed_trigger.go` | per-DefBox flags, cooldowns, armed triggers, candidates | rules on a breakout, triggers, per-candle rules, additional buys, follow-up; `ScanTrigger` beside the engine | flags that are reset by a new DefBox against state that is not; two loops that must agree | a breakout and a candidate buy once; scan and engine give the same signals |
| **backtest loop and sell engine** `stg/analyzer.go`, `sell_*.go` | the list of positions, each with its sales, occurrence counts and extension; the cooldown of the rules; `BuyOn` | per candle: buy signals, per-candle entries, E1–E4 exits, the five-path sell decision, partial sales | partial sales of several paths, the grace period against counting, the expiry against its extension, the order of the passes | the books of a position balance, no rest is too small to sell, nothing overstays, flags follow the positions |
| **daily load** `daily_batch.sh`, `stock/handler.go` | two result files; rows of `StrategySignalDaily` and `StrategyTradeLog` | two batch analyses while the candle table may be loading, the data date, one SQL statement after another, the decision of the gate | two data dates in one run; a statement that fails between delete and insert; kills; days without signals | a load that reports success is complete; decisions of the past stand; the next undisturbed run repairs |
| **signal density gate** `stg/overlay_density.go` | – | density and threshold of a date, decision | windows that are short, empty or without samples | the batch and the consumer come to one decision |
| **signal consumer and publishers** `stock/listen.go`, `publish.go` | the queue, the consumer's buffer, its cached history, rows of the trade log | publish-hist, publish-live, feed, consume, evaluate, merge a row | automatic acknowledgement, lost connections, restarts, a fetch that fails after its date is marked, virtual bars | rows are first observations, final rows hold what final bars give; the queue is drained |
| **dedicated analyzers** `stg/*_analyze.go`, `cond/` | what each loop carries from candle to candle: cycles, arms, pending entries | one pass over a candle list | deadlines, re-arming, look-ahead, twins written twice | no signal depends on later candles; twins agree; an event is told once |
| **price conditions** `cond/` | none | predicates on a candle list and a position | windows that start at the purchase or the DefBox | a sale depends on the past only; evidence stays |
| database handles, configuration, Python runner | written once at the start | – | – | no state of their own |
| indicators, candle loaders, studies, strategy files, Python tools | none between calls | numeric | – | not modelled |

How they interact: the scheduler starts shell scripts and forgets them; the scripts run
other commands of the program, among them the daily load and the ledger. The daily load
fills the two signal tables that the consumer of the RabbitMQ queue reads (the gate's
history) and writes too (trade log). Every command logs through the log pipeline, whose
only output besides the console is the `LOG` queue of the RabbitMQ session, and ends in
`Cleanup`, which stops the pipeline before it closes the session. A backtest is one
sequential loop: box detection feeds the buy rules, the buy rules open positions, the sell
engine closes them on what the price conditions raise. Several backtests of a grid run at
once on shared candles.

`PROJECT.json` "hazards" lists, by source line, what can go wrong in these parts and
which property would show it.

## 2. Modules

| module | models | source |
|---|---|---|
| `PaperLedger`, `MCPaperLedger` | the ledger and the runs of `paper_wd` | `stock/paper_wd.go` |
| `TradeBook` | the abstract book the ledger implements: a trade is entered, moved forward and told of | |
| `PaperLedgerProofs` | theorems, the refinement | |
| `Scheduler`, `SchedulerProofs`, `MCScheduler` | processes, pid file, ticks, dispatch, the clock | `scheduler/*.go` |
| `RabbitSession` | connection, channels, monitors, reconnection | `console/rabbitmq.go` |
| `Logger`, `LoggerProofs`, `MCLogger` | queue, batches, retries, shutdown, over `RabbitSession` (EXTENDS it: every step of the session interleaves with every step of the logger) | `console/logger.go`, `cleanup.go`, `Send` |
| `SellRules` | the sell engine as operators on one position and one candle | `stg/sell_rule_engine.go`, `sell_tracker.go`, `sell_executor.go`, `sell_15m.go` |
| `Backtest`, `BacktestProofs`, `MCBacktest` | the candle loop and its positions (EXTENDS `SellRules`) | `stg/analyzer.go` |
| `BoxRules` | boxes, curve keys, DefBoxes as operators on a list | `box/*.go` |
| `BoxFinder`, `BoxFinderProofs`, `MCBoxFinder` | several analyses of one shared list, step by step | `stg/analyzer.go`, `study/grid.go`, the loops of `stg` |
| `BuySignals`, `BuySignalsProofs`, `MCBuySignals` | the buy side of one candle, in the engine's order, and the scan beside it | `stg/analyzer.go`, `buy_rule_engine.go`, `buy_followup.go`, `armed_trigger*.go`, `trigger_scan.go` |
| `DensityGate` | the gate as a function of a history | `stg/overlay_density.go` |
| `SignalStore` | the two signal tables and their writers' merge rules | `daily_batch.sh`, `listen.go` |
| `DailyLoad`, `MCDailyLoad` | the nightly batch on the store | `daily_batch.sh`, `stock/handler.go` |
| `Listen` | publishers, broker queue and consumer on the store | `stock/publish.go`, `listen.go`, `rabbitmq.go` |
| `SignalFlow`, `SignalFlowProofs`, `MCSignalFlow` | batch and consumer together; the theorems about either | |
| `CandleTape`, `BoxTrack`, `BoxPatterns` | a candle list and a position in it; its box list in the three loop orders; patterns of boxes | `box/`, `cond/` |
| `ArmedPatterns` | M, head and shoulders, pullback, W: as analyzer and as armed trigger | `stg/mpattern`, `hns`, `pullback`, `wpattern`, `wgc_analyze.go`, `armed_trigger.go` |
| `EventTriggers` | edge triggers and the armed ones on bumps and piercings | `stg/trigger_registry.go`, `armed_trigger_registry.go`, `cond/buy_triggers.go`, `buy_stg6.go`, `buy_stg11.go`, `buy_rstg_more.go`, `buy_doublebump.go` |
| `VolumeWave` | the three waves and the pullback entries | `stg/volume_wave_*.go`, `cond/buy_volume_wave.go` |
| `CombinedSignals` | the W by halves and the DefBox alone, both searches | `stg/combined_analyze.go`, `wpattern_defbox.go` |
| `MainBoxRetest`, `DescendingTrendline` | the two analyzers of these names | `stg/mainbox_retest_analyze.go`, `descending_trendline_analyze.go` |
| `SellConditions`, `BoxConditions` | the price conditions along one holding, along one DefBox | `cond/sell_*.go`, `cond/buy_conditions*.go`, `buy_oscillator.go` |
| `Studies`, `StudyTapes`, `MCStudies`, `StudiesProofs` | the last seven rows side by side, and the candle lists they run on | |

**PaperLedger and TradeBook.** A run is three or more steps of a process in `pc[p]`:
`Scan` is everything `HandlePaperWD` does between loading and saving, on the ledger as it
is when loaded; `Save` is the atomic rename; `SendAlert` one message after it.
`SaveFails` is the write error, `Crash` the death of the process anywhere between.
`Advance` is the body of the loop over open positions: `EnterStage2` on the first
close above the box, then `CloseExpired` on the expiry candle, both found by the
position of the candle in the history and not by the day of the run. `Entered` is
the loop over the day's signals with `CanOpen` slots. A price is one of the five
kinds the code tells apart. Which stocks' candles could be fetched, and which were
fetched directly, is chosen freely in every run. `TradeBook` knows none of this: it has a
page per trade, a `Commit` that moves pages forward within the slots, and a `Tell` of what
has been committed. `ImplementsBook` maps the saved ledger to the book.

**Scheduler.** One element of `Pids` per command line given: `Check`/`Refuse` and
`WritePID` are the two halves of the start, `Status`, `Stop` and `CleanUp` the other
commands, `Quit` the deferred removal of the pid file, `Crash` a kill at any point. A
tick is `BeginTick` and one `Consider` per task, so that commands, signals and the
ends of scripts fall between two tasks. `SameDay`/`NewDay` let one unit pass, 30 s in
the code, when no scheduler is late by more than `TickGap`. `Serial` says whether
commands are given one after another: two starts at once can both pass `isRunning`
before either writes its pid, and then both stay up; the properties about the pid
file are stated for commands given in turn.

**RabbitSession and Logger.** Connections are numbered. `chan[q]` is the connection
the channel of a queue belongs to, so a stale channel is one whose number is not
`conn`. Each monitor is a goroutine with its own `mon[c]`; registering on a closed
connection reads as a normal close, as the client library has it. `HandleReconnection`
is `TakeSignal`, `Dial`, one `Recreate` per queue or `RecreateFails`, `Recreated`.
The logger's goroutine is `proc`; the `select` is the choice among `Collect`,
`TimerFires` and `SeeShutdown`; `SendOne` is one `Send`, which cannot run while
`recreateChannels` holds the lock.

**SellRules and Backtest.** A candle is the stages `signals`, `perCandle`, `exits`
(pass 5a), `sells` (pass 5b), `done`; the passes visit the positions in their order.
What the price conditions say on a candle is the record `Market` (which rules are
raised, where the close is to MA5, whether the trend holds, the recovery) or
`Candle15m` (which of the stop, target and trailing lines were hit). Quantities are
integers: `Whole` is a full position and `Share(q, w)` the part of it that weight `w`
sells, in the runs exact quarters of 64.

**BoxRules and BoxFinder.** `BoxRules` is the detection as operators: `NextKey` the new
direction of a candle, `AddTurn` the box of the leg that ended, `CheckAndCreateDefBox` the
DefBox with its links. The direction (`Curvekey`) stands in the candle, which a grid shares
among its workers, so `key` is shared state and a worker takes three steps a candle
(DefBox, curvature, store). `Order` tells the three loops of the code apart: the engine
makes DefBoxes before the curvature, the pattern loops after it, the plain loops none.
The fields of a candle that other code computes (averages, gradients) are inputs.

**BuySignals.** A candle is taken in the engine's steps: `ChangeDefBox` (new index, flags
reset), the breakout with the first rule of each kind, `AdditionalBuy`, the follow-up, the
triggers (every armed trigger ticks on every candle, whatever the filters of its rules),
the per-candle rules, the sales. `scan[r]` is what `ScanTrigger`, in a loop of its own,
would have of rule `r`. What conditions hold on a candle is part of the candle.

**SignalStore, DailyLoad, Listen, SignalFlow.** An event is a buy or a sale of a stock by
a strategy on a date; a row of the log is an event with its source (`EOD`, `HIST`, `LIVE`)
and keeps the day of its first observation. `DailyLoad` is one action per analysed stock,
per statement and per decision; any of them may fail, and `Kill` may end the script
anywhere. `Listen` has the broker's queue, the buffer of acknowledged messages, one message
in work, and the gate with its history date. `link` is the consumer's connection and
`connClosed` the channel on which the process hears of a loss. The consumer is registered
(`StartListen`) before the connection is watched (`Prepare`); the connection may be lost,
and redialled without a consumer (`Redial`), between the two or later. A loss that is
watched ends the process, and the supervisor starts it anew. In `SignalFlow` both write
the same tables.

**Studies.** A behaviour picks one list and runs one of eight loops (`lab`) over it: volume
waves, armed patterns on all three loop orders, event triggers, combined signals, retest,
trendline, sell conditions, box conditions. The tapes give the turning points in the candle
(`BoxFinder` shows how they come about) and the loops keep what the Go loops keep. Prices
are small integers, ratios percents or thousandths compared without division.

## 3. Runs

| run | instance | properties |
|---|---|---|
| `ledger_history` | 1 stock, 5 days, default holding 2, longest 3, box timeout 2, `--date` free; all histories of closes below or above the box with at most one missing, unaffordable or unusable day; three signal histories | `FaithfulReplay` `ImplementsBook` |
| `ledger_two_runs` | 2 stocks, 1 slot, 3 days, 2 processes that overlap at any step | `LedgerSound` `SlotLimit` |
| `ledger_live` | 1 stock, 5 days, fairness | `MaturedCloses` |
| `sched_days` | 2 days, the second a holiday in a list that may fail to load; a task for the first of the month that is listed before the task it waits for; 2 processes, any commands in turn, crashes, ticks up to 2 units late | `OncePerInstance` `NoMissedWindow` `PredecessorFirst` `UpIsFindable` `DayEndsDone` |
| `log_pipeline` | 2 messages, queue of 1, batch of 2, 2 attempts, 2 queues, 1 broken connection with messages or 2 without, 1 failed channel, 5 connections | `LogsAccounted` `SessionSound` `CleanupEnds` `AcceptedIsSettled` `NoticedLossRedialled` |
| `backtest` | 4 candles, 1 breakout or trigger position and 2 per-candle positions, a strategy with a rule of each path, holding 2, grace 2, time exit 2, cooldown 1, with and without a sell strategy | `BooksSound` `ExitsInOrder` `ExpirySettled` `HoldingsTracked` |
| `boxes` | lists of one and of two legs over six prices; 4 workers (two engines of a grid that allow no damage, a pattern loop, a plain loop), up to two overlapping or three analyses of a list | `SameBoxes` `BoxesSound` `KeysStable` |
| `entries` | 6 candles after the first, eleven kinds of candle, DefBoxes at two prices; seven rules of every kind (two breakout rules, their trigger twin, a repeated, a failure, a survival and a per-candle rule) | `BreakoutTwin` `FailedNeverSurvives` `EngineParity` `BuysOnce` |
| `daily` | 3 stocks, 2 strategies, 3 days, 3 runs of the script while the table loads, 1 failure or kill | `CleanLoadIsComplete` `PastDecisionsStand` `NextRunFillsIn` `NoLateEod` |
| `flow` | 1 stock, 2 days, 2 batch runs, 1 message sent at a time over a buffer of 1, 2 faults (connection lost, at any point of the consumer's start or work; failed fetch, send or write; bad message), redials | `LogTrue` `FirstSeenKept` `QueueDrains` |
| `studies` | eight loops, each over lists of six to about fifteen candles with choices at every position where a case of the code depends on it | `WavesSound` `TwinsAgree` `EventsOnce` `ArmsHeld` `SellSound` `ViewSound` `EntriesKept` |
| `backtest_fill` | the instance of `backtest` | ends in a violation of `NoSaleBeforeFill`: a per-candle position, bought at the open of the next candle, is tested for its exits on the candle of the signal |

Some properties are conjunctions of named parts, each stated beside its code:

- `LedgerSound`: `TypeOK`, `FaithfulReplay`, `TotalsReconcile`, `PeriodCoversTrades`.
- `LogsAccounted`: `TypeOK`, `NoSilentLoss`, `CleanupKeepsLogs`, `BoundedCopies`.
  `SessionSound`: `NoStaleChannel`, `Watched`.
- `BooksSound`: `TypeOK`, `BooksBalance`, `NothingTooSmallToSell`. `ExitsInOrder`:
  `GraceRespected`, `ExtensionEndsWhole`, `TargetThenRest`. `HoldingsTracked`:
  `OneOpenPerRule`, `BuyOnMeansHolding`.
- `BoxesSound`: `TypeOK`, `NoLookAhead`, `TurningPointsAdvance`, `DefBoxesLinked`.
- `BuysOnce`: `TypeOK`, `OncePerDefBox`, `CandidateBuysOnce`, `DeadPathsStayDead`.
- `LogTrue`: `TypeOK`, `FinalRowsConfirmed`, `LiveAgreesWithBatch`.
- `WavesSound`: `WavesOfThePast` (the list cut at a candle gives the signals the whole list
  gives up to there), `BreakoutNotMissed`, `FirstWaveFirst`.
- `TwinsAgree`: `NothingLost`, `PatternsAgree`, `WAgrees`, `TwoHalvesAgree`: what the code
  writes twice gives the same signals, until a DefBox stands for a turning point (`StandIn`).
- `EventsOnce`: `TriggersAreEdges`, `BandCrossingsAlternate`, `PierceIsRare`, `BumpIsSpent`,
  `AloneIsFirst`.
- `ArmsHeld`: `RetestHeld`, `RetestWitnessed`, `TrendlineAlive`, `FreshestPattern`.
- `SellSound`: `SoldByThePast` (a backtest and a list that ends today agree), `DelayedAgrees`,
  `WeakFoundationOnce`, `TrendFailuresApart`, `DeepDropStays`.
- `ViewSound`: `EvidenceAccumulates`, `CrossingsSeen`, `StrictFormsAreStricter`,
  `RefusalLifted`.

Why the bounds are enough:

- *Ledger.* The replay treats each position alone, so one stock with every short
  history is the general case of `FaithfulReplay`. Five days hold a signal, the
  break before, on and after the timeout, both expiries and a day after. Competition
  for slots needs two stocks, and overlap two processes; more of either repeats the
  same conflict.
- *Scheduler.* A day of six units holds both windows, ticks one and two units apart
  and the change of the day between them. Two processes give a restart inside a
  window and a removal of the other's pid file.
- *Session and logger.* One break gives the races of a monitor, a failed channel
  gives a second dial, a second break falls into the repair of the first: others read the
  same break and find a signal pending, or the new connection breaks before it is watched.
  Five connections are as many as these make, so that no dial is cut off. Behaviours with a
  second break log no message (`BusyLosses`, `Quiet`), which keeps the run small: the session
  reads nothing of the logger, so that `NoticedLossRedialled` loses nothing by it, while
  `AcceptedIsSettled` and `CleanupEnds` are checked with one break; the safety theorems hold
  for any number of breaks at any time. A queue of
  one message is full as soon as it holds one; a batch of two is one that may or may
  not fill; two attempts give a failed one and a last one.
- *Backtest.* Four candles with a holding, grace and time exit of two cover the
  candle before, on and after each limit, and the extension of a holding for one
  more. The weights are those of `sell_default.yaml`; a small rest is a quarter of a
  position instead of an eighth, and the minimum a sixteenth, so that two partial sales
  reach the sweep of a small rest before the holding expires (the theorems hold for the
  file's own thresholds). The rule list has a rule for each path of the decision and two
  individual rules whose priorities differ from their order.
- *Boxes.* A leg up, down and up again gives a high box, a low box and a return to the high
  one that makes a DefBox; the long lists give a second resistance and so a DefBox with two
  links, and a DefBox that is moved. Four workers are one of each loop and a second engine;
  the shared state is one write per candle.
- *Entries.* Six candles hold a DefBox, its breakout, a second DefBox, the expiry of both
  armed triggers (windows 2 and 3) and a cooldown of 2.
- *Daily load and flow.* Three days with a window of one and a lookback of two have a
  gate with and without samples. Three stocks are needed for the coverage share of the data
  date (two of three). Three runs are one that is disturbed, one on the same day and one
  later. In `flow` one stock is enough, since messages of several stocks meet only in the
  buffer, and the buffer of one is full with one. Two faults are a connection lost while the
  consumer starts and another after, or a loss and a failed fetch.
- *Studies.* The lengths the code asks for are shortened in proportion (a wait of twenty
  candles is two or three), so that the lists hold the candle before, on and after each
  limit; the tapes choose among candles only where a condition of the loop tells them apart.

Deadlock is checked in the ledger runs, where a new run of the command is always
possible. In the others the calendar, the candles, the commands or the process itself
end, and the configurations say so.

Each property of a passing run has mutants of the code in the modules, operators
with a plausible fault (a dropped guard, an order swapped, an off-by-one); with one of
them in place TLC finds the property violated.

## 4. Fairness

- *Ledger* (`FairSpec`, for `MaturedCloses`): days pass; a run that
  has started ends, and its alerts go out (weak fairness); and failures of the
  databases and the disk are transient, so that of the runs that can be made with all
  candles one is made and one such run is saved (strong fairness of `FullScan` and
  `SaveFull`). The scheduler gives a run every trading day; without the last
  assumption a disk that stays full is a counterexample to everything.
- *Session and logger*: weak fairness of every goroutine, which is what the Go
  runtime's scheduler gives, and of `Dial`, that is, the broker can be reached again
  some time. No fairness is assumed of a break, a fault, a message logged, a kill, or
  `Cleanup`.
- *Daily load* (`BatchSpec`, for `NextRunFillsIn`): weak fairness of the batch as a whole:
  cron starts it every weekday, its steps follow each other, the table is loaded, days
  pass. Failures and kills are bounded, not fair.
- *Flow* (for `QueueDrains`): weak fairness of the consumer, restarts included: the
  compose file and the systemd unit restart it when it ends. Publishers and batch have
  none, and `Redial` has none: a monitor may have missed the loss.
- *Scheduler, backtest, boxes, entries, studies*: none; their properties are safety
  properties. That ticks come within `TickGap` is in `SameDay` and `NewDay`.

## 5. Proofs

All for any number of stocks, tasks, queues, messages, rules, candles and processes,
under the assumptions named in the modules. Each proof module proves `Init => IInv`,
`IInv /\ [Next]_vars => IInv'` with one lemma or step per action, and the theorems
`Spec => []P` from them.

**PaperLedgerProofs** – `TypeOK`, `FaithfulReplay`, `SlotLimit`, `TotalsReconcile`.
From `LedgerAssumption`: the box timeout is at most the default holding, and that at
most the longest (20, 20 and 30 in the code). This is what the replay needs: a
first break within the timeout then comes no later than the first expiry, so a
position found closed by one late run was treated as daily runs would have treated it.
The inductive invariant says the same of the ledger file *and* of every process's
ledger in memory (`LedgerOK`: true to history, within the slots, totals right), as it
is the latter that is saved; two overlapping runs are no special case since each saves a
ledger that is right as a whole.

Its second part: with one process, `ImplementsBook`: the initial ledger is an unopened
book and every step is a `Commit`, a `Tell` or a stutter of the book. The invariant `BInv`
adds to `IInv` that what a run holds in memory moves the saved ledger forward, and that the
alerts it still owes are of saved trades and have not been sent. `AlertedIsRecorded`,
`AlertOnce` and `BookedIsFinal` follow from the same invariant. Without backdated runs,
and with any number of overlapping ones, `PeriodCoversTrades`, and so `LedgerSound`. (With
two processes the book is *not* implemented: the run that saves last takes the other's trades
back. That is why `ledger_history` has one process and `ledger_two_runs` other properties.)

**SchedulerProofs** – `TypeOK`, `OncePerInstance`, `NoMissedWindow`, `PredecessorFirst`,
`DayEndsDone`, and with `Serial` `UpIsFindable` and that one scheduler at most is live.
`ScheduleAssumption` asks that ticks be no further apart than the window is wide and that
no task be due within a tick of midnight. The invariant ties `launched` to the marks of the
day in `completed`, and follows the last tick of each process through the task list, so
that a tick in a window is known to have come to the task; `DepInv` does the same for what a
task waits for. `DayEndsDone` has a hypothesis, `SettlesBy(Ready)`: there is for each task a
time of the day, a tick before midnight or earlier, by which its predecessor is settled; a
window later when the predecessor stands behind it in the list, since a scheduler may come up
between the two. `validateSchedule` lets lists pass that have no such times (a task that waits
for itself), and for them the property is false. The task list of the code has no
predecessors, and the list of the run has `Ready = <<4, 2>>`.

**LoggerProofs** – the parts of `LogsAccounted` and `SessionSound`, and both. The invariant
says of the attempt under way that each message of the batch is yet to be tried, or was
sent in this attempt, or the attempt is marked failed; and that copies of a message are at
most the attempts so far.

**BacktestProofs** – all properties of the run. `SellAssumption`
asks of a share that it is between nothing and the rest, whole for the full weight, and
no less than the minimum of a rest larger than a small one (true of the weights 0.25,
0.3, 0.5 and 1 of the strategy files and the thresholds 0.125 and 0.01);
`ExtensionSellsAll` that the extension rule has weight one, which it has in every
strategy file. The invariant has the properties of each position (`AnyPosition`), the
shape of the one or two sales of a per-candle position (`PerCandleShape`), and
`SettledSoFar`, the statement of `ExpirySettled` for the positions that the pass has
already visited: without it the end of the pass says nothing.

**BoxFinderProofs** – all properties of the run, for any lists, workers, orders, settings and
number of analyses. From `CandleAssumption`: prices and gradients are integers.

- `KeysStable`: the direction of a candle depends on the candles and the direction before it
  (`NextKey`). The invariant `KeyInv` is `Chain`, known directions follow from each other by
  `NextKey` from the first one on, and for each worker `Walker`: the direction before its candle
  is known, what it is about to store is `NextKey` of that, and what it has stored stays known.
  So whoever stores a direction that is known already stores the same one.
- `SameBoxes`: what a worker knows at a candle (`Known`: boxes, counter, start of the leg) is the
  end of a *trail* that starts from nothing and goes on by the three steps of each candle
  (`Onward`), which read known directions only. Two trails of one kind part nowhere: they would
  do so at a least candle (`TrailsAgree`). A trail does not change when more directions become
  known (`TrailStays`), whoever stores them.
- `BoxesSound`: `SoundAs` says what holds of the list at each step of a candle, and `ListOK` is
  more than the property: that DefBoxes are made on the way up and lie before the turn that
  leaves a later support (so that no DefBox is linked to a box found after it), that the next
  leg starts after every turning point (`Ahead`, from `CalculateExposition`), and that a turn
  leaves a box before its candle (`TurnLeft`). One lemma per operator of `BoxRules` shows that
  it keeps the list so: `CurveKeeps` for the turn, `MarkKeeps` and `TouchKeeps` for one box that
  is touched, `LoopKeeps` for the loop over them, `DamageKeeps` for the whole search.

Where an induction over numbers is needed the proofs take a least counterexample
(`LeastNumber`, from the well-foundedness of the naturals), as the library's induction theorem
has an operator as a parameter.

**BuySignalsProofs** – all properties of the run, for any strategy file, any candles and any
length. `BuyAssumption` asks that names of rules differ and are none of the engine's own.
`RulesInOrder` says that the list of signals has each rule of a set once. On `Types` rest
these invariants: `Remembered` and `Paid` for `BuysOnce` (what may signal once is remembered when
it has; an open candidate has not been paid for), `TwinReady` for `BreakoutTwin`,
`Paired` for `FailedNeverSurvives`, `InStep` for `EngineParity` (the scan's state of a trigger is
the engine's). `FailedNeverSurvives` has a hypothesis on the file, `Referenced(Survival) =>
Referenced(Failure)`: the engine ticks only triggers some rule names, so a file that asks for
survival alone has no failure to compare with.

**SignalFlowProofs** – the safety properties of the runs `daily` and `flow`, for any stocks,
events, days, failures, kills and messages. `StoreAssumption` has the two strategies differ.

- Of the batch (`BatchSpec`): `CleanLoadIsComplete`, `PastDecisionsStand`, `NoLateEod`. The
  invariant `LoadInv` says what the run has read (`Reads`), that the data date does not go back
  while no stock is left out (`Forward`), how far the statements have come, whatever rows a
  killed run has left (`Loaded`), and that decisions stand (`Stands`). The gate asks for days
  before the date only (`GateLooksBack`), and these are not rewritten.
- Of both writers (`Spec`): `FirstSeenKept` and `LogTrue`, whose last part is that on orderly
  evenings a live decision is the one the batch comes to. The messages are of the past
  (`InTime`), on an orderly evening the day is loaded and a run of it ends well before the next
  day (`Evening`), and every verdict is undecided or what the history of now gives (`Judged`).

**StudiesProofs** – all properties of `studies`: `SellSound`, `ViewSound`, `EventsOnce`,
`ArmsHeld`, `TwinsAgree`, `WavesSound` and `EntriesKept`, for candle lists of any length and
content. `PositionAssumption` and `ViewAssumption` say of the tapes that prices are integers, that a
position's candle and a DefBox's boxes lie in the list, and that the boxes of a view are known
when its DefBox is made; `EventAssumption` that averages and bands are integers; `Directed`, the
assumption of the loops that build boxes, that every candle from the loops' start on has a direction;
`PatternAssumption` adds integer averages, `RetestAssumption` and `TrendlineAssumption` add that the settings are integers, and
`WaveAssumption` that the numbers of a wave configuration are, that volume is averaged over more
than one day and that an early box lies some days back.

- `SellSound`: `SellInv` says that what was raised each day is what `SellSignals` says of it.
  `SoldByThePast` compares two instances of `SellConditions`, on the whole list and on the list
  cut at the candle: one lemma per condition shows that both read the same candles.
- `ViewSound`: `ViewInv` says that the entries tell of their candles (`Told`), though boxes have
  been added since, and that a box which is not older than the DefBox became known at its own
  candle. The rest is about spans that grow: a count does not fall (`CountGrows`), the first
  crossing stays the first (`FirstCrossing`), a change of sides has a day (`CrossedBetween`).
- The box list: `Listed` says what a list of boxes is, `Grown` that a candle has only added boxes
  of its own and has changed no price, position or candle of an old one. `TrackGrows` shows that of
  all three orders of the loops; the loop of `CheckAndCreateDefBox`, a recursive function, is
  followed box by box by the least number at which it could fail (`TouchesGrow`).
- `EventsOnce`: `EventInv` says that the events are those of the candles read (`Happening`), and for
  a bump that a fire lies before its second close over. `CombinedInv` says that a close over the
  current DefBox that has not been bought is the claim of a W (`FirstAfter`), and that a W which
  waits has not been broken out of (`StillWaits`).
- `ArmsHeld`: for the retests, `RetestOK` says that a DefBox has one cycle, that a group which has
  signalled is among those its cycle has fired, and that what the cycle has noted of a resistance, a
  support and a rise is so in the list (`Noted`, `ArmedBy`), which candles only extend. For
  the trendlines, `TrendlineOK` says that what is armed has not signalled and is the newest pattern
  of the list. The plain loop appends boxes and changes none (`PlainAppends`), so a pattern
  once seen stays (`PatternStays`), and only the last box can end a newer one.
- `WavesSound`: `WaveInv` says that the wave is where the loop over the list as it stands is at
  this candle (`Walked`), that the loop has noted every accumulation that is not too old
  (`NotMissed`), and that signals are in the order of their candles, a second wave after its
  first (`InOrder`). No candle asks for a box that the list does not hold at that candle
  (`WaveAfterPast`), so that the list cut at the candle is walked in the same way. A first
  wave's search for an entry ends the day before the second (`Limits`).
- `TwinsAgree`: `ArmedInv` follows the three loops side by side. Each candle of a loop is DefBoxes,
  a turn, DefBoxes (`CandleAdds`); a turn ends a leg whose extreme lies after all turning points
  so far, and gives it a box unless a DefBox has its place and price (`LegEnds`). So two loops
  whose turning points and legs are the same keep them the same until a DefBox stands for a
  turning point (`LegsAlike`), and once one does it stays (`StandsStay`). The analyzers and the
  triggers ask for turning points only, and arm and fire alike (`RearmedAlike`). The W counts
  DefBoxes: that the last box of one loop is a support of this candle says the same as a turn up
  with a new box in the other (`SupportsAre`), and what was told of a W follows from the boxes
  known then (`ToldAt`), so that loops which end with the same boxes have told the same. For the
  combined search `HalvesInv` says that a W which no longer waits has signalled the break that the
  search ahead finds, and that this break is decided (`DecidedStays`).
- `EntriesKept`: a list that is one candle longer gives each search one day more or none, and a
  search that has ended does not look at it (`ReboundsGrow`, `EntriesGrow`).

Only model-checked: liveness (`MaturedCloses`, `CleanupEnds`, `AcceptedIsSettled`,
`NoticedLossRedialled`, `NextRunFillsIn`, `QueueDrains`), which is out of the prover's
reach.

## 6. What is left out

- Floating point. In the ledger a price is one of five kinds; in the backtest conditions
  are chosen freely; in boxes and studies prices are small integers and ratios are compared
  as integers. Origin and scaled prices, which the loader keeps apart, are one field.
- Minimum lengths of a list (60 or 80 candles) and the warm-up of indicators, other than
  where a window may reach before the first candle.
- Conditions that are one comparison of an indicator (RSI, MACD, stochastic, ADX), the
  fifteen-minute filters and the indicators themselves.
- The falling half of `crossMVCheck` and the two kinds of broken penetration, whose results
  no caller tells apart.
- The wording and layout of reports, alerts and logs, the commands that only read the ledger
  or print a chart, the charts and statistics of `study/`.
- The client library of RabbitMQ, the databases and Telegram: modelled as far as the code
  sees them. `s.Conn` is written without the lock that its readers hold; the model reads it
  atomically.
- The scheduler has one calendar: a list of holidays that goes stale at the end of the
  year is not modelled. What its scripts do, and their exit status, is not either.

## 7. Observations

What was met while modelling and is not kept by the code; properties above are stated so
that they do not rest on it.

- `paper_wd.go:257, 647`: a holding that has left the listing is fetched directly so that
  it does not become a zombie, but without a candle on the scan date it is not advanced and
  keeps its slot.
- `tasks.go:21`, `scheduler.go:167`: a task is "completed" as soon as its script is
  started; the task that waits for it starts while it runs, or after it failed.
- `scheduler.go:176`: failures are told by the exit status, but `paper_wd_daily.sh:27` and
  `daily_batch.sh:223` end with an `echo`.
- `rabbitmq.go:172`: `recreateChannels` empties the map first; when one channel cannot be
  opened, the next attempt does not know of those after it.
- `rabbitmq.go:115`: a connection that breaks before its monitor has registered reads as a
  normal close and is not replaced.
- `listen.go:71, 237`, `rabbitmq.go:294`, `console/init.go:138`: the consumer is registered
  before the connection is watched, with the rules, the gate's history, the results queue and
  the database handle in between. A connection that is lost and redialled in between is
  watched anew, but nobody consumes on it: the process neither drains the queue nor ends,
  against the comment at `listen.go:249` that it shall not remain as a zombie. The model has
  these steps; `QueueDrains` excepts the state they lead to (`Unattended`). Without the
  exception TLC finds the queue standing for ever after `StartListen`, `ConnectionCloses`,
  `Redial`, `Prepare`.
- `daily_batch.sh:71`: of two data dates the later is taken for both strategies; the earlier
  analysis then has a row, of the signals it saw, for a date it did not reach.
- `listen.go:137`: a failed fetch of the history leaves the gate undecided for the day.
  `listen.go:251`: what is in the buffer when the process ends is lost. A live message
  consumed on the next day is still a live one.
- `publish.go:609`: the gap guard asks for the last date of the whole table, so a stock
  with a hole passes.
- `overlay_density.go:124, 266`: the comment lets the gate pass without samples, the code
  holds.
- `sell_adaptive_stop.go:72`: the volatility is computed forward from its start and reads
  candles after the day of the decision.
- `sell_recovery.go:66`: the first condition of `IsCriticalFailure` looks at three candles
  and asks for a distance of at least three: it never holds. A rule that counts three weak
  foundations is never reached, since a holding shows one at most.
- `combined_analyze.go:101, 163`: after a W's break the DefBox is not marked broken, so the
  next close above emits it once more alone; a close above on the day the wait ends is
  bought by nobody.
- `trigger_registry.go:8`: `Stg14Oversold` can fire on two days running.
- `buy_conditions_extra.go:226`: the "strict" timing passes breakouts near the main box that
  the other refuses. `buy_oscillator.go:230`: a turn on the day after the first crossing does
  not count.
- `pullback_analyze.go:75`, `armed_trigger.go:17`, `box_creation.go:45`: with equal tops, a DefBox
  may stand for a turning point and the signals of the loops differ from there; the comment says
  that DefBoxes leave the signals unchanged. On equal tops of `studies` the loop without DefBoxes
  arms a pullback on candles 10 and 12 and fires on 15; the loop with them does not signal it.
  `TwinsAgree` therefore speaks of a loop until a DefBox stands in.

## 8. Plan

1. `Backtest` over `BuySignals` and `SellConditions` in place of the free choices, on short
   lists.
2. The indicator conditions over ordered values, and the walk-forward and edge studies of
   `study/`, whose windows must not overlap.
