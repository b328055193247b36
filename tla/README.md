# Verification of the Petrazim trading portal

The portal takes trading signals (TradingView alerts, its own market scanner)
and orders of traders, keeps one row per trade in a database, and trades for its
users at seven brokers and on paper. Around that core it backtests and tunes its
strategies, copies signals to subscribers, charges fees, and runs an academy.
What can go wrong is rarely inside one function: it is between them. Request
handlers, alert handlers and background tasks run as tasks of one asyncio
process, each with a database session of its own. A handler reads a row, awaits
prices, brokers or an AI service for seconds or minutes, and then writes the
columns it changed, without a lock and without looking again. Broker calls time
out after they were executed, and the process is redeployed while handlers run.
The modules here model those handlers step by step, TLC checks them on small
instances, and TLAPS proves the central results for every size.

## Inventory

Sources are under `src/backend/app/`.

| Component | State | Operations | Hard behaviour | What makes it correct |
|---|---|---|---|---|
| Position exits: `services/position_monitor.py`, the exits of `routers/manual_trading.py`, the close alert of `services/webhook_processor.py` | `status`, `lot_size`, `tp*_triggered` of the trade row; the position at the exchange | partial close at a ladder level, full close, trader's partial close, cancel, close alert | four kinds of writers on stale copies, broker leg and commit in two steps, lost answers, restarts | the row never claims a reduction that was not made; CLOSED means flat and is final |
| Trade entries: `services/execution_engine.py`, `services/pending_order_monitor.py`, `place_manual_order`, `approve_trade`, `cancel_order` | `status`, `is_deleted`, `requires_approval`, `is_test`; orders and positions at the exchange | insert, execute, approve, reject, cancel, delete and restore, fill, mark failed | decisions race the execution; blind status writes; a restart between order and record | no draft trades unapproved; a live row that is ACTIVE was ordered; every order settles |
| Ladder: `_check_trade`, ratchet and trailing in `position_monitor.py`, `modify_targets`, the stop and target alerts | `stop_loss`, `entry_price`, targets, `trailing_*`; the stop resting at the exchange | take a level and ratchet, trail, edit, push the stop | a stale ratchet over an edited stop; push before or after the commit | breakeven is held; a winner is not booked as a loss; a trail only tightens |
| Idempotency guard: `core/idempotency.py` | a row per (user, endpoint, key) | look up, reserve, replay, finalize, give back | concurrent duplicates, crashes and errors between reservation and result | one body at a time, one effect, one result; nobody waits for a dead request |
| Broker integrations: `services/broker_integrations.py` | none but the clients; the account and its resting orders | place, close, send with failover, move and clean up stops | read timeouts, resending, sizes read before use, stops that are orders of their own | success is real, a close never grows a position, a position has its stop and no other |
| Signal gates: `process_signal`, `services/capital_adequacy.py` | none of their own: counts over the trade rows of a bot and of an owner | deduplicate, count, insert, copy to subscribers, check capital, execute, approve | check-then-act with an await at every step; the capital check comes after the insert | one trade per symbol and the caps, up to what crossed; an owner's orders fit into his capital |
| Bots and Sub-Auto Mode: `models/bot.py`, `set_bot_sub_auto`, the counters in `process_signal` | mode, snapshot of the mode, counters in the bot row | engage, reset, switch the mode, count | counters written from stale copies; a scan cycle keeps its copy for minutes | the allotment is kept; an engagement ends, and hands back the mode it found |
| Market scanner: `services/market_scanner.py`, `exchange_engine.py`, `margin_switch_engine.py`, `memory_watchdog.py` | rows as the cycle first read them, fetch results per exchange, the automatic picks, the slow-down | group bots, pick an exchange, fetch once, run once for many bots, size, route | one session per cycle, bots edited meanwhile, one bot's error ends the cycle of all | a bot trades a symbol once per cycle from candles it was read on; cycles complete |
| Candles: `services/data_ingestion.py` | the client all callers share, the cursor over the pages | fetch page by page, fail over, retry | candles print meanwhile, exchanges read `since` differently | a range that is served has no hole |
| Strategies: `core/bot_strategies.py`, `core/smc_algorithms.py` | none | swings, breaks, blocks, gaps, sweeps; signals with stop, targets and size | floors, caps and filters that meet for particular shapes only | stops and targets are on their sides, risk is within its caps |
| Subscriber copies: `_fan_out_to_subscribers`, `trader_broker_connections.py`, `metaapi_lifecycle.py` | connections, subscriptions, copied trades, hosted accounts | connect, subscribe, copy, approve, close, sweep | the account of an order is looked up anew; the sweep awaits between read and undeploy | a copy stays on its account; no open position loses its account |
| Tuning: `services/intelligent_tuning_worker.py`, revert in `routers/bots.py` | bot parameters, symbol lists, audit rows | step a parameter, move a symbol to a sibling, revert | replays of minutes between read and commit | no change below the margin; a symbol is in one list |
| Trading audit: `engines/trading_audit_engine.py`, its worker and router | runs and findings | read, judge, recommend, apply, dismiss | several statements while trades close | who is paused had earned it |
| Backtests: `engines/backtest_engine.py`, `portfolio_backtest_engine.py`, `services/backtest_runner.py`, the startup sweep, `engines/validation_gate.py` | run rows, trades on file, attestations | queue, run, save, sweep, replay bar by bar, evaluate the gate | restarts and overlapping instances; the order in which stop, targets and trail meet a bar | every run is at work or over; a replayed position is accounted for once |
| Performance fees: `services/performance_fees.py`, `routers/fees.py`, `core/fee_gate.py` | ledger entries OWED/PAID/WAIVED, fee payments | charge per slice, checkout, settle by webhook, verification or page, mark, gate | charged in a commit of its own, crossing checkouts and confirmations | no lot charged twice; an entry is paid for a reason |
| Payments and access: `services/payments.py`, `routers/payments.py`, `payment_webhooks.py`, `core/access_gate.py`, `services/corporate_codes.py` | purchases, grants, seat codes | buy, confirm, grant, issue, redeem, gate | grant and codes in two commits, confirmations repeated | access once per payment, seats for who paid |
| Facilitator booking: `services/facilitator_booking.py`, `routers/facilitator.py` | bookings of a day | book, cancel, sync | count and insert in two statements | two a day, one per band |
| Curriculum: `routers/curriculum.py`, `practise.py`, `engines/progression_engine.py` | completions, streak, certificates, retention checks, AI caches, marks | complete, quiz, recall, certify, generate and cache | check and insert without a unique key; pages stored minutes after they were begun | certificate, streak and recall follow what was done; a page is not older than its lesson |
| Trailing loss guard: `services/trailing_loss_guard.py`, the guard of a repeated setup in `process_signal` | none | evaluate the last closed trades of a bot, of a pair, of a setup | three queries, with closes and inserts between them; a guard that blocks the win that would clear it | losing runs are bounded; no guard is a deadlock; a setup does not go on losing |
| Authentication, rosters, feature gates; proxies; caches and prices; assistants, news; notifications; frontend | rows of their own | checks, listings, output | little concurrency | not modelled |

How they interact: every writer of a trade row shares it through the database
(`AsyncSessionLocal`, no locks, `expire_on_commit=False`); the scanner and the
alerts call `process_signal`, handlers call `ExecutionEngine`, which calls a
broker class; exits call `apply_performance_fee`, whose ledger the gates of the
next signal read; mutating endpoints run inside `idempotency_guard`.
`PROJECT.json` lists all components and, under `hazards`, each behaviour that is
hard to test with the line where it bites.

## Modules

### The trading core

**`PositionExits`** - one ACTIVE trade, the `Monitor` task and any set of
`Requests`. `tradeRow` is the committed row, `exposure` what is open at the exchange.
`pc`, `copy` and `plan` are a handler's position, its loaded copy, and what it
had executed but has not recorded. `Load` is the select; `BrokerConfirms`,
`BrokerRefuses` and `BrokerReplyLost` are the outcomes of the broker leg;
`PaperSlice` is the path of a paper trade; `CommitSlice` and `CommitAlert` are
the commits. `FlushExit` is the point of the module: COMMIT sends the columns whose
value differs from the loaded one, whatever the row holds by now, and keeps the
others. The fee is charged in a step after the commit, except for the alert
handler, whose fee call commits the row too. Lots are whole numbers, so a ladder
fraction is any amount strictly between nothing and everything; prices and
profits are reduced to whether a fee is due. A live trade here has a position at
the exchange and a broker on file; the others are in `TradeEntries`.

**`TradeEntries`** - one trade from insertion to its end: the request that
creates and executes it, the trader's requests, both monitors. Sizes are left
out. `Begin` loads the copy; the broker leg (`OrderAccepted`, `OrderRefused`,
`OrderReplyLost`) and the close leg (`CancelWorking`, `CloseConfirmed`, ...)
act on `working` and `position` at the exchange; `Write` commits the status. The
autonomous path reads the row again before it writes (`Reread`), the other two
do not: `Outcome` says which of them spare a terminal status. `origin`, `live`
and `routed` tell what created the row, whether it is a paper trade and whether
a broker is determined for its symbol; a live order without one is reported as
executed and goes nowhere, as in the code.

**`OneShot`** and **`IdempotencyGuard`** - the promise of the
`Idempotency-Key` header, and the guard. `OneShot` knows who holds the
operation, whether it has settled, and what every attempt was told. The guard
has the lookup, the insert under the unique constraint, the effect of the body,
its three ways to fail, the recording of the answer, and a crash at every point.
`KeepsPromise` is the refinement: `absent`, `reserved` and `done` map to open,
taken and settled.

**`BrokerGateway`** - calls through one broker class to one symbol of one
account. `Styles` are the four families of `close_position`: BingX, those that
look the size up first (Binance, Bybit, MEXC), OANDA, and those that close a
position found on the symbol (MetaApi; TradeLocker, which in addition refuses
partial closes, an outcome `AnsweredNo` contains). Sending, failover, read
timeouts and rejections are the control; the exchange is external.

**`RestingStops`** - the stops that rest at the exchange. `Style` has a row per
broker class: which entries carry their stop, how a stop is moved, whether an
entry may rest, and what a close finds. Where a stop is an order of its own
(Binance) it has a side, is attached after the entry, moved by listing, cancelling
and placing (`Move`, `CancelFound`, `PlaceNew`), and cleaned up by listing and
deleting (`CleanUp`, `Delete`), each an await of its own. It closes only what is
held against its side (`Hits`); one on the other side goes off to no effect
(`StopFiresInVain`). An entry turns the trade's direction into a side
(`EntrySide`), while the calls that move a stop or close pass the direction itself
where the broker's class expects BUY or SELL (`CloseSide`): the stop of a long that
is moved goes out as a BUY, and the close of a long is refused where the side
decides (BingX, Binance, Bybit, MEXC; `CloseFinds`). A request may be lost, be
executed with its answer lost, or be executed twice by the failover; so a cancel
that took the stop away may be reported as failed, and then no new one is placed.
`left` records for every trade the first thing that may have left it with more or
fewer stops than it should have: a request that failed or was repeated, a stop that
was moved to the wrong side, two updates that crossed, an exit that cleans nothing
up, a sweep or a stop of another trade on the symbol.

**`PositionLadder`** - the prices of one trade. `Setups` are the orders a trader
or a bot may place. Prices are integers, and a trail is kept in tenths of a
price unit, in which its rates are exact; the rounding of the code is left out.
The monitor loads the row (`MonitorLoad`), is shown any price, and takes the
first of stop, trail and levels that applies (`MonitorStop`, `MonitorTrail`,
`MonitorLevel`), as `_check_trade` does; `LevelTaken` contains the ratchet,
`Trailed` the trail, `MonitorPush` and `MonitorCommit` the two steps that
follow. An edit is `modify_targets` or an alert; they differ in what they check
and in whether they push before or after the commit. `Push` is what the exchange
makes of a new stop: set in one call (`native`: Bybit, and MetaApi, which takes
edits but whose trades have no ladder) or a resting order cancelled and placed
anew (`replace`: Binance). Other live accounts and paper trades get no push. The side
of the new order is not part of this module but of `RestingStops`.

**`SignalGate`** - what happens between a signal and a trade, for one bot.
`rows` is the table. Each gate that reads the table is an action (`Dedup`,
`CountDaily`, `CountConcurrent`), since each is a query; all gates that read
something else are `Refuse`. `Persist` inserts the owner's row; `DraftCopy`,
`SendCopy` and `CopyExecuted` are the fan-out, whose copies carry the same bot
id and are counted by the same gates. `Admit` and `Unaffordable` are the capital
check, `Executed` and `Record` the outcome. Approvals check capital too
(`LoadTrade`, `Assess`, `Approved`). Monitors, cancellations, the delete toggle
and midnight are steps of their own, bounded by `MaxMoves`.

**`SubAuto`** - the bot row, for one bot. `copy` is the bot as a session has it:
loaded once, never refreshed, because the session factory sets
`expire_on_commit=False` and a later select returns the object the session
holds. An alert has a session of its own; the scanner has one for the whole
cycle. `Flush` is again COMMIT, column by column. `Proceeds` stands for all of
`SignalGate`. `crossed` remembers whether the row ever changed under an open
session or an execution was never counted: the properties that cannot survive
that are stated for the time before.

**`LossGuard`** - the gates of `process_signal` that judge by closed trades.
`closed` is the history in order of exit; `Evaluate` is `_evaluate`, with its
streak (`OnAStreak`), its age limit and its cumulative loss (`Bleeding`).
`GuardBot`, `GuardPair` and `GuardSetup` are the three queries; between them
other sessions insert, trades close and time passes. `PlaceManual` is the order
of a trader, who is a bot of his own to the guard and may switch it off. A setup
is entry and stop within their tolerances, in one direction, read back from the
row, where the fill and the ratchet may have moved them: `CloseOne` may lose it
(setup 0). `open` is a bag, because a trader may have two equal trades.

**`CopyTrading`** - accounts that traders connect, their subscriptions to a
bot, and the copy of one signal. `Resolved` is the lookup of a client for every
order but the first of an automatic copy: the bot's dedicated account at the
venue, else a usable account of the trader, else the pooled one. `orders` keeps
where each order went (`to`) and where it was meant to go. The nightly sweep of
idle hosted accounts is `StartSweep`, `CheckTrades`, `UndeployIdle`: which trades
are open is read for each account, and the hosting service is awaited before the
account is undeployed.

### Market data and strategies

**`CandleFeed`** - a fetch as its pages. `Send` and `Answer` are a request and
its answer, `OtherRoute`, `Busy` and `Unreachable` the failover between routes,
`Page` the cursor, `Kept` and `Deliver` what the caller is served. `server` is
how an exchange reads `since`: from there on, a window, or not at all.

**`MarketStructure`** - the detectors of `smc_algorithms` as operators over a
tape of integer candles: swings, significant swings, trend, breaks, changes of
character, order blocks and their mitigation, gaps and their filling, clusters
of equal highs and lows (`Pools`), sweeps. The only step is a new candle. The
filter of significant swings is a walk over the tape (`KeptTo`, with `KeepSwing`
for one swing), and so is the filling of a gap (`Tracked`). The filter measures a
leg in either direction, so a swing high that lies under the last kept low by a
quarter of a percent may end an upward leg: `LegsAreLegs` says what holds of such
a leg, and more of the others.

**`Strategies`** - every bot class of the registry as a set of signals over one
reading of the market, with the arithmetic of entries, stops, floors, targets,
caps and sizes, and `RunFamily`, the pass over all of them, where a strategy may
raise. A price is an integer of which 20000 make a tick, so that the percentages
of the code are exact. The readings are what the detectors return, a shape per
family (`MacroShape` to `SmcShape`); they are not taken from one common tape.
`ReadingsAreQuotes` says of them that a quote is two ticks at least, a zone is no
lower than its bottom, and a range has a height; the balance is one tick or more.
Below that the integers of the model, not the floats of the code, would round a
floor to nothing.

**`RealFill`** - extends `Strategies` by what becomes of a signal at the broker:
`PriceOk` is the guard on the deviation from its entry, `Resized` the stop, the
targets and the size that the real fill gives the trade
(`_resize_risk_for_real_fill`). `FillPrices` are the fills looked at, all of them
quotes.

**`ScanCycle`** - one cycle of the scanner: `StartCycle` reads the bots,
`Resolve` chooses where a symbol is watched (fixed, automatic pick, or the
oldest-pick branch that raises), `FetchGroup` gets the candles of a group, `RunAll`
and `Wanted` hand the signals of one run to the bots they are for,
`ProcessSignal` sizes and routes. Changes by traders, exchanges and the
administrator come in between; `CheckOnce` is the memory watchdog.

### Upkeep

**`Tuning`** - a worker of each backend on two sibling bots: parameter steps,
moves of a symbol between siblings, the kill switch, and a trader's revert, with
each session's reads and commits apart. `overtaken` is set when a commit was
computed from rows that had changed since.

**`TradingAudit`** - a run as the statements it consists of (`ReadExpectancy`,
`ReadRegister`, `ReadSetups`, `ReadErrors`), while trades open, fill and close;
then what becomes of a finding. `Ticks` is the clock the statements compare with.

**`BacktestReplay`** - a position walked down its ladder bar by bar
(`AdvanceOpen`), for one bot or for a portfolio that shares a balance;
`EnterAtClose` is a signal, `RunOut` the end of the data. The fill is the close of
the bar, wherever the strategy drew its entry, so stop and targets may lie on
either side of it: a target the fill is beyond is taken at a loss, which `behind`
remembers. `Configured` and `LegPart` are the adapter's ladder, `Trailed` the trail.
A portfolio run has any set of participants, a single run one. Fractions are parts
of a hundred, so that what a trade accounts for can be added exactly.

**`BacktestRuns`** - runs as background tasks of instances that stop and start: the
row is committed (`CreateRun`) before the router creates the task (`StartTask`), and
what happens in between leaves a row without one (`LoseRun`, `InstanceStops`); then
the sweep at startup (`Orphans`), and the go-live gate with its checks and
attestations. `disowned` are runs another instance failed while they were at
work.

### Fees, access and the academy

**`FeeSettlement`** - the ledger of one trader. A desk is a request in flight;
`LoadToSettle`, `ReadCovered` and `CommitSettlement` are the steps every
confirmation shares, with the copies they hold. `rivals` of a checkout are those
open when it began.

**`AccessGrants`** - a purchase from checkout to grant and, in a second commit,
to its seat codes; codes held, expired and redeemed; `Gate`, as
`has_active_access` decides it, with the exception it raises for two running
grants. A purchase has one seat, several whose codes can be generated, or several
for which the generation raises after the first commit (`Seats`). A decline on the
simulated page reads and commits in two steps (`LoadDecline`, `CommitDecline`), so it
may cross a confirmation. `twice` and `unseated` remember what was taken up by two
requests and what was interrupted.

**`Bookings`** - the bookings of a day, read, checked and joined by one more.

**`Curriculum`** - one learner: a request reads what it needs (`StartStage`,
`ReadCertificate`, ...) and commits later. `Flushed` writes streak and XP from
the request's copy. The schedule of retention checks is `Successor`.

**`LessonTools`** - generated pages, cached per lesson and dated by a hash of
its text, and the learner's marks.

### Instances

The `..._proofs` modules hold the theorems. The `MC...` modules instantiate the
specifications for TLC. Components that share no state are put into one run by
an MC module that EXTENDS them all: `MCTrading` (`SubAuto`, `ScanCycle`,
`CopyTrading`, `Tuning`, `CandleFeed`, `LossGuard`, `TradingAudit`,
`MarketStructure`, `RealFill` with `Strategies`), `MCPortal` (`AccessGrants`, `Bookings`,
`Curriculum`, `LessonTools`, `BacktestReplay`, `BacktestRuns`), `MCRetries`
(`TradeEntries`, `BrokerGateway`, `IdempotencyGuard`), and `MCPositions`
(`PositionExits`, `FeeSettlement`, `PositionLadder`, `RestingStops`). A
behaviour of such a run belongs to one component: `part` is chosen in the initial
state, and the variables of the others stay as they began. The run explores the
union of the state spaces and not their product, and a property is that of the
component, under the name the theorems use. Constants are in the cfg files;
`MCMarket` has the candles and readings for the two market modules. Where components do
interact, the interaction is inside a module: handlers and monitors on one row,
gates and fan-out on one table, scanner and alerts on one bot, checkouts and
confirmations on one ledger.

## Runs

Bounds are the constants of the cfg files.

| Run | Instance | Shows |
|---|---|---|
| `positions` | the four parts of `MCPositions`, see below | one trade that stands: its exits and their fees, its ladder, its resting stop |
| `retries` | the three parts of `MCRetries`, see below | orders, and what is repeated of them |
| `signal_gate` | an alert, the scanner, an approval, 2 symbols, 1 subscriber, caps of 2, capital for 1 trade, 2 signals inserted, 2 other moves | how far `OneTradePerSymbol` and `CapsHold` give way when signals cross, and `AdmittedWithinCapital`, which does not. Two sources are what a crossing needs; capital for one trade makes every second order a violation if it were sent |
| `trading` | the nine parts of `MCTrading`, see below | one property for each part, three for Sub-Auto and two for the scan |
| `portal` | the six parts of `MCPortal`, see below | one property for each part |

The parts of `positions`:

* Exits: 2 requests, monitor, 4 lots, all disturbances; symmetric requests. Three
  crossing handlers, every mixture of slices: `NoUnbackedReduction`,
  `ClosedMeansFlat`, `ClosedIsFinal` under everything; `ExactWhenUndisturbed` and
  `FeesWithinPosition` for handlers that do not cross. Four lots let three slices and
  a rest exist, and a lost update needs two copies.
* Fees: 2 entries, 2 checkouts, 2 requests, 2 days. `FeesSettled`: what a settled
  checkout covers is not owed, an entry is paid for a reason, and a double charge
  takes a checkout that began while the other was open.
* Ladder: prices 0..6, long and short, ladders of one, two and three targets, fills
  on the stop and beyond it, one edit. `BreakevenHeld`, `WinnerKeepsBreakeven`,
  `CushionKept`, `TrailOnlyTightens`, and `RestingFollowsRow` for handlers that do
  not cross. Seven prices around an entry with a risk of one let a trail engage,
  shrink and be hit; one edit crosses the cycle at every point of it. Two edits (12
  million states) change nothing.
* Resting stops: five broker styles, two trades, long or short, one after the other
  on the symbol, three stops placed. `StopsFitTrades`: without one of the named
  causes an open position has a stop that closes it, a trade has one at most, and a
  close by the monitor leaves none. Two trades let a stop of the first meet the
  position of the second. The causes are common in one case: the stop of every long
  at Binance that was moved is on the wrong side, which the run `moved_stop` shows.

The parts of `retries`:

* Entries: engine, 2 requests, both monitors, lost replies, restarts.
  `ApprovalGate`, `RowsMatchOrders` (a live row that is ACTIVE was ordered;
  undisturbed and one at a time, it was ordered once and is ACTIVE exactly while
  something stands at the exchange), `OrderSettles`. Requests act once, the monitors
  forever; two requests reach approve/approve, approve/reject and cancel/delete races.
* Broker calls: 2 calls, orders up to 2 lots, all styles, modes, with and without
  backup. `ReportsArrivals`, `CloseNeverGrows`. Two lots make partial and oversized
  closes distinct.
* Idempotency: 3 attempts with one key: one in the body, one in the insert race, one
  replaying. The refinement of `OneShot` (`KeepsPromise`). `EverybodyAnswered` is
  about the calls and the attempts: every one is answered.

The parts of `trading`:

* Sub-Auto: an alert, the scanner, 3 trades in all, 2 a day, 3 days.
  `EngagementCoherent` under everything; `AllotmentKept` and `HandsBackMode`
  before anything crossed. The caps differ, so that either can be met first, and
  three days let a count be resumed and reset.
* Market structure: six shapes of candles on a `Window` of seven, swings of one bar
  on each side (`Bars`). `StructureSound`: the ends of legs
  alternate and no swing of a leg that counts is more extreme than its end, a change of character is against the trend, an open gap was never closed
  through, a sweep is a rejection. Seven candles hold three swings of either kind
  and a gap with a later test; every sequence of shapes is visited.
* Strategies: all readings of `MCMarket`, two settings, three strategies that
  may raise. `SignalsSound`: stop and targets on their sides, at least the
  platform's floor, risk within its caps, nothing for the orchestrator's check to
  refuse, and each variant differs from its original only as its docstring says.
  Every signal is also filled at its entry and, where the price guard admits it,
  up to one and a half of its stop distance on the better side, past the stop, and
  up to two on the worse: `FillsAreSound` (`RealFill`) says that the trade stands to lose no more
  than the signal promised, has stop and targets on their sides, and keeps its
  R-multiples.
  The readings put blocks, gaps and sweeps before, on and beyond the prices they
  are compared with.
* Candle feed: history of four candles with a gap, up to the seventh printing
  meanwhile, pages of two, three kinds of server. `RangeHasNoHole`. Pages of two
  make every range of interest take two or more.
* Scan: two bots with a symbol in common, two exchanges, two balances, one change
  of anything. `TradedOnce`; `SlowedForCause` for the watchdog.
* Copies: one trader with an account of his own at the hosted venue and one at a
  venue where the bot has a dedicated account, three changes.
  `SweepSparesOpenTrades`.
* Tuning: one worker, one symbol, gains below, within and beyond the stability
  check, three moves or reverts. `TuningIsSound`; a single worker still crosses
  the reverts and settings of a trader.
* Audit: two bots of one family, three trades, one run. `AuditIsSound`: only who
  had earned it is paused, the register covers what the judgement counted, and
  comparing neighbours finds every overlap of a setup.
* Loss guards: two bots and a trader on one pair, the scanner for one bot and
  alerts for the other, 4 trades, times 0 to 3. `LossesAreHeeded`: the losing runs
  of a bot and of a pair are bounded by the streak and what was already on its
  way, a rest clears every guard, a setup that lost is not lost on again. The
  constants of the code (a streak of 3, 4 and 48 hours, 8 trades) are scaled to 2,
  1, 2 and 3, so that the bounds, 2 for a bot and 3 for the pair, can be exceeded
  within four trades.

The parts of `portal`:

* Access: 2 learners, a purchase, a code, 2 requests, 3 grants.
  `AccessFollowsPayment`: a payment or code is granted once, and seats whose codes
  can be generated come. Those whose generation raises do not, see `seats_missing`.
* Booking: 3 rows, 2 days of which one is a Sunday, 3 bands, 2 requests.
  `FacilitatorKept`; three rows exceed the cap of two.
* Learning: one track of two stages, 2 requests, 3 days, 3 recall checks.
  `ProgressKept`: certificate, streak, next stage, recall.
* Lesson tools: 2 kinds of pages, 2 requests, 2 versions. `ServedIsCurrent`.
* Replay: 2 participants, one or both of them in the run, 4 bars each out of 5
  shapes, 3 setups (a long ladder with a narrowing trail, a simple long, a short
  ladder without a second target). `LadderKeepsItsWord`: a closed trade accounts for
  the whole position, and after its first target it loses no more than its targets
  did that the fill was beyond, unless a timeout or the end of the data shuts it on
  the very bar of the first target. Closes lie before, on and beyond the stops and
  targets, and four bars are an entry, two legs and an end.
* Runs: 2 runs, 2 instances. `RunsAreAccountedFor`.

Seven more runs each refute a statement that the repository makes about itself;
`PROJECT.json` quotes the line under `findings`: `reset_ignored` (after a Reset
the running scan cycle goes on executing without approval), `reject_active` (a
rejection cancels an ACTIVE trade on paper only), `close_side` (BingX closes the
wrong side), `aged_pick` (a bot whose automatic pick is older than its six hours
ends every scan cycle), `copies_misrouted` (a copy approved or closed later
reaches the account of the platform's bot), `moved_stop` (the stop of a Binance long
that is moved goes out as a BUY and protects nothing) and `seats_missing` (an
organisation pays for seats whose generation raises, and never gets them).

Deadlock checking is off where the system may stop: a trade that has ended, a
set of calls that has been answered, or a table as full as its bounds allow.

### Further disagreements

These were met between code and comments and have no run of their own. Where a
definition is named, it states what the comment says, and it does not hold of
its module unless noted.

Trading core:

* A lost answer leaves the row behind the exchange, and the retry closes a second
  slice (`PositionExits.NoInconsistentStateLeft`); a read timeout is treated as a
  connection failure and the order sent again (`BrokerGateway.SeenOnce`).
* `place_manual_order` tests for a terminal state on the copy it made before the
  broker call, so it writes ERROR over a cancellation (`manual_trading.py:663`);
  `TradeEntries` does the same.
* After a database error in its body the idempotency guard cannot delete its
  reservation, and the key stays locked (`idempotency.py:136`, against lines
  41-45); `RaiseDatabase` does the same. A replayed text error is nested once more
  in `{"detail": ...}` (`idempotency.py:131`).
* The relay of an order to the second backend waits for a transport exception
  that every broker class has already turned into a result
  (`execution_engine.py:1837`), so it is never used for an order.
* Stops outlive positions that a request, an alert or a firing stop ended
  (`RestingStops.NoneOutlives`), and the clean-up is by symbol, so it may take the
  stop of the next trade.

* The copies of a signal carry the bot's id, so one lost signal with two copies is
  a streak of three for the loss guard. The guard of a repeated setup compares with
  entry and stop of the row, which the fill and the ratchet have moved, so a
  repeat often goes unrecognised.
* `_resize_risk_for_real_fill` is to preserve the ratios of the targets
  (`execution_engine.py:141`), but reads the distance they were drawn with from
  the stop after the floor has moved it, which compresses the ladder, and puts a
  third target that lay short of the first beyond it: the exceptions of
  `RealFill.LadderKept`. A move in the signal's favour of any size passes the price
  guard, so an order whose stop was passed is filled with a new one at the floor.

Scanner, candles, strategies:

* A bot put to sleep during a cycle still trades: sleep is read from the cycle's
  copy (`ScanCycle.SleepIsObeyed`, `execution_engine.py:613`).
* An automatic pick is kept per bot, while the candidates are of one symbol; a
  trade moved for margin is placed on another exchange than its candles came from.
* Two fetches share the route of one client (`CandleFeed.OneRouteInFlight`).
* A block taken as fresh may have been tested more than once
  (`MarketStructure.FreshMeansUntested`), and a stop of BTC may be below the floor
  its comment gives (`Strategies.BtcKeepsItsFloor`).

Copies, tuning, audit:

* An account whose trade opened between read and undeploy is undeployed
  (`CopyTrading.NeverUndeployedOpen`). A connection test that ends late writes
  verified over suspended.
* A symbol may be moved from under a position opened after the check
  (`Tuning.MovedWhenFlat`); a cancelled trade on record blocks a move for good;
  the audit row of a change is committed before the change; a revert restores a
  configuration that others have changed since; candidate parameters are not
  used in the replay that compares them.
* Trades that were never entered count as overlapping
  (`TradingAudit.OverlapIsGenuine`), and a dismissed recommendation can still be
  applied (`TradingAudit.DismissedStays`).

Backtests:

* A portfolio run stores its curve as an object and the schema of the API has a list
  (`BacktestRuns.RunsCanBeRead`); the portfolio engine ignores the trailing mode.
* No bot can pass the go-live gate, because nothing runs the cost-stress backtest
  it waits for (`BacktestRuns.NothingGoesLive`, which holds).

Fees, access, academy:

* A payer is gated again by an entry accrued while he paid
  (`FeeSettlement.PayerNotGated`).
* Two running grants make the gate raise (`AccessGrants.LearnerGetsIn`).
* A requirement of a track may count a stage twice, so a certificate can come
  early (`Curriculum.CertificateMeansAll`, with a track of three stages and one
  day); the best game result can decrease (`LessonTools.BestNeverDecreases`).

## Fairness

Safety runs assume none. `TradeEntries` has weak fairness on what a handler that
has begun does next: it is a task of the event loop and every await has a
timeout. Nobody is obliged to begin anything, and a restart may end every
handler; `OrderSettles` says so. `RetriesSpec` is weakly fair to every attempt,
since an attempt is a request that was received, and to every call, since the
HTTP clients time out after 30 seconds. All other modules state safety only:
their handlers may stop anywhere, which is what a redeployment does to them.

## Proofs

Eight modules, all with theorems for every value of the constants.

`PositionExits_proofs`, for every set of requests, every lot size and every
subset of the disturbances:

* `Invariance`: the inductive invariant `IInv`, which is `ExitsTypeOK` with `Sound`;
  `TypeCorrect`, `RowNeverAhead` (`NoUnbackedReduction`), `ClosedTradeIsFlat`
  (`ClosedMeansFlat`) and `ClosedForGood` (`ClosedIsFinal`) follow.
* `AloneInvariance`, with `ExactAlone` (`ExactWhenUndisturbed`) and `FeesFit`
  (`FeesWithinPosition`).

The safety invariants are not inductive: whether the row may be overwritten
safely depends on what the copies of the other handlers say. `Sound` therefore
adds, for every handler between its read and its write (`Backed`), that the
exchange holds at most what the copy says, and, once the broker leg is done, at
most what the copy will say when the slice is recorded. The argument is that the
position only shrinks: a stale copy can only be too large, the order sent from
it (`ReducedFacts`) leaves no more than the handler will record, and a blind
write of `lot_size` is therefore always an over-estimate. `Alone` is the second
invariant: as long as nothing crossed or was lost, one handler at most is at
work, its copy is the row, and the fees and the slice it has in hand account for
the difference to the exchange. Both rest on `SizeAssumption` and on nothing
about `Monitor` or `Requests`.

`PositionLadder_proofs` proves `BreakevenHeld`, `WinnerKeepsBreakeven`,
`CushionKept` and `TrailOnlyTightens` for all prices, all well-formed orders and
any number of edits, from `PricesAssumption`, `SetupsAssumption`,
`EditsAssumption` and `UnsetAssumption`. The invariant has two halves. One says
what the committed row satisfies: a fired level means a stop at the entry or
better unless an edit named one, a trail lies within its cushion of the peak.
The other says what a running cycle still knows: the columns only the monitor
writes (fired levels, peak, trail) are as it loaded them, and stop and entry are
so until somebody touched them. The second half is needed because the ratchet is
computed from the copy and written later. The trail tightens because
`TrailingStop` is monotone in the peak although its width shrinks, which is a
lemma of its own (`TrailMonotone`). `RestingFollows` (`RestingFollowsRow`) needs
a further invariant, `StepInv`: which of row and exchange is ahead follows from
the place at which the monitor, the request or the alert is.

In the same module `StopsFitWell` proves `StopsFitTrades` of `RestingStops`, from
`StopBounds`. `StopsShape` is what holds under everything: the monitor, the alert
and the trader know one trade each, and a broker that keeps the stop with the
position has no orders of its own. As long as nothing is in `left` (`Undisturbed`),
a trade has one stop order (`OneStopEach`), it is on the side that closes the trade
(`SidesFit`: of a moved one, because whatever moves it to the other side is in
`left`), whoever moves a stop has found just that one and nobody else is placing
another (`JobsFit`), and an open trade without a stop is one whose stop is being
placed (`TradesFit`).

`TradeEntries_proofs`, for any requests, monitors and disturbances, from
`ActorsAssumption`: `DraftsAwaitApproval` (`ApprovalGate`) and `RowsAreBacked`
(`RowsMatchOrders`). The first holds under everything. `Roles` says who may be at
which point of a handler (nobody but a request orders for a draft), and `Alive`
that a draft nobody approved, and a live routed trade never placed, is `NotAlive`:
neither ACTIVE nor CLOSED, and nobody holds a goal that would make it so. The second
is `OneAtWork`: with one handler at a time, nothing interrupted and a broker for the
symbol (`Serial`), the handler's copy has the status of the row, and its place and
goal tell what stands at the exchange (`AtWork`); at rest the row tells it
(`Settled`).

`SignalGate_proofs`, for any alerts, approvers, symbols, number of copies, caps
and moves, from `ActorsAssumption` and `CapsAssumption`: `AdmittedIsCovered`
(`AdmittedWithinCapital`), `SymbolsApart` (`OneTradePerSymbol`) and `CapsAreHeld`
(`CapsHold`). For the capital: when a row is admitted it is in the table, and all
other open rows of the owner were counted, so the open rows that were admitted
fit together with it; afterwards a row that was not open opens again only
through a write that `revived` remembers. For the caps the invariant
(`CountInv`) bounds what is in the table together with what the signals past
their checks may still insert. What is owed is counted as a set of slots, one
for each signal and copy, so that no sum over a function has to be taken.

`Retries_proofs`, for any number of attempts: `OneBody`, `OneEffect`,
`OneResult`, and `Promise`, the refinement of `OneShot` (`KeepsPromise`). The
invariant says that whoever is inside the body owns the reservation and that a
recorded result stays; then the initial state maps to one of `OneShot` and each
step to a step or a stutter. For any calls, lots, styles and modes it has
`ReportsAreTrue` (`ReportsArrivals`) and `CloseOnlyShrinks` (`CloseNeverGrows`).
How often a call has arrived is known from where it is and whether it met silence.

`Trading_proofs`:

* `EngagementIsCoherent` (`EngagementCoherent`), `AllotmentIsKept` (`AllotmentKept`)
  and `ModeIsHandedBack` (`HandsBackMode`) for any alerts, caps and number of days,
  from `ScannerAssumption` and `CapsAssumption`. The first holds under every
  crossing, because a session that counts had an engaged bot in its copy, and the
  columns its commit may overwrite leave an engaged bot with part of its allotment:
  what reaches the cap also clears `active` in the same commit. The other two rest
  on `Serial`: as long as nothing has crossed, at most one session is open, its
  copy is the row, and the counters of the row and of the history agree.
* `SweepSpares` (`SweepSparesOpenTrades`), for any traders, accounts, venues and
  changes: a copy only moves forward, and a sweep that read the account as free
  read it after what it saw open at its start.
* `EachSignalOnce` (`TradedOnce`), for any bots, exchanges, symbols and edits.
  What remains to be resolved, the groups that wait for candles, the bots that were
  looked at and the signals of the group at hand never share a bot and symbol
  (`GroupsApart`, `SeenIsDone`, `PartsApart`), whatever is edited in between,
  because all of it is the cycle's own copy. `SlowedWithCause` (`SlowedForCause`)
  is about the watchdog.
* `TuningKeepsLists` (`TuningIsSound`), from `GainsAreGains`: a worker between
  reading and writing two siblings' lists, and a revert, hold what the rows still
  say unless `overtaken`, so a symbol leaves one list when it enters the other.
* `FeedHasNoHole` (`RangeHasNoHole`), from `FeedBounds`: below the cursor nothing
  is missing of what had printed when its page was fetched (`NothingMissed`), what
  prints later comes after it, and every page brings a candle (`EveryPageBrings`),
  so the walk has covered its range when it ends for want of candles.
* `LossesHeeded` (`LossesAreHeeded`), for any bots, traders, pairs, sessions and
  settings, from `GuardSettings` and `GuardedParties`. A run of losses is not
  inductive by itself, since trades that will extend it may be open, or past the
  gate already. What may still come is a set (`DueOfBot`, `DueOnPair`,
  `DueOfSetup`), a slot for each symbol or bot and each session, so its size is
  bounded by the slots: a fresh run at the end of the history and what is due are
  together no more than the streak less one and the slots (`BotBounded`,
  `PairBounded`; for a setup, no more than the sessions, `SetupBounded`). A step through a gate adds to what is due only
  where the guard let it pass, hence where the run is shorter than the streak; no
  other step adds to it (`NoMoreDue`), and a close moves a slot into the run.

`Reading_proofs`:

* `AuditSound` (`AuditIsSound`), for any bots, families, outcomes and trades, from
  `AuditSettings`. Every loss that would earn a pause is recorded with the trade
  that completes it (`EarnedInTime`), so that a judgement, at
  whatever time its statement read, is about a family that has earned it. `RowsAddUp`
  says that the rollup of the rows per bot is the sum over the family's trades; and
  if any two trades of a setup overlap, two neighbours do.
* `ReadingSound` (`StructureSound`), for candles of any positive prices and a tape of
  any length, from `CandlesHavePrices`. `KeptSound` is the invariant of the walk that
  keeps significant swings: what is kept alternates, what was dropped since the last
  one is not beyond it, and each leg ends at the most extreme of its swings that
  counted (`KeepSound` takes one swing further). A gap that is still open after a
  candle was not closed through by it (`FillSound`). A pool's level is the average
  of its prices, so that some price of the pool is no less and some no more
  (`AroundAverage`), and neighbours in it are within the tolerance, so there is one
  that touches (`PoolTouched`); what sweeps it is beyond all of it.
* `SignallingSound` (`SignalsSound`), for any readings of the five shapes, settings and
  balance, from `ReadingsAreQuotes`. `FlooredIs` says what the floor leaves of a stop,
  `EmbeddedIs` that a zone only moves it further away; so every strategy's stop is
  `Behind` its entry, and `SignalIsSound` derives targets, risk and size, and that the
  check has nothing to refuse (`LotsAreValid`: the notional is at most three fifths of
  what is allowed). The wider stop is never nearer because both operators are monotone
  (`FlooredWidens`, `ReversalWider`); the wider range sees the same block because a
  price cannot be near both ends (`SameEnd`). `FillKeeps` holds for any fill, not only
  those of `FillPrices`; the ratio of the third target is read back exactly
  (`ReadBack`), and drawing it anew loses two hundredths at most (`DrawnAgain`).

`Portal_proofs`:

* `FeesAreSettled` (`FeesSettled`), for any entries, checkouts and requests. What a
  request in flight carries (the rows it read as owed, the payment it will write)
  stays true of the ledger while others commit, because an entry that is paid stays
  paid and the set a checkout covers never changes; the second invariant says that
  two checkouts with a common entry are rivals.
* `AccessIsPaidFor` (`AccessFollowsPayment`), from `GrantBounds` and `RowsAreApart`:
  a clerk holds a purchase or a code as he read it, and nobody else holds it,
  unless it is in `twice`; seats whose codes can be generated are there, on their way
  or `unseated`, and a purchase whose generation raises has none. A decline holds
  nothing anyone else could lose, since it writes the status only.
* `NeverInTwoPlaces` (`FacilitatorKept`), from `BookablesAreFinite`: on a day that
  is not `rushed`, what a request found free is free still when it inserts.
* `NeverStale` (`ServedIsCurrent`): a page is no newer than the text, and what a
  visit is about to store or serve no older than the text it asked for.
* `ProgressIsKept` (`ProgressKept`), from `TracksHaveStages`. Whatever crosses, the
  finished stages of a track are its first ones, who is about to complete the last
  one has found a certificate or brings one, and a completed stage has an open
  check. Without crossing (`OneByOne`) the copy of the one request at work has the
  streak of the row, a stage has one row, and a track one certificate once it is
  complete. The streak is defined as the longest run of active days ending with the
  last one; `DayAdded` proves what one more day does to every run, and `StreakGrows`
  that `update_streak` computes it.
* `LadderIsHonest` (`LadderKeepsItsWord`), from `BarsAreBars`, `SetupsArePriced` and
  `RunsHaveBars`, for all bars, setups and fills. `SoundPosition` says that the parts
  closed and left add up, that what was gained is no less than `behind`, and that from
  the first target on the stop is at the entry or better, and a bar later the close.
  A target that is taken costs what `behind` grows by at most (`TargetsCost`).
* `RunsAccounted` (`RunsAreAccountedFor`): who completes a run has saved its trades,
  and a run that is still queued or running has its task, or had its failure lost, or
  waits while a backend is down.

The recursive induction principles of the library take an operator as a parameter,
which no backend can instantiate. Where a proof needs a least or a highest number
it uses `Least` or `HasLeast` instead: the order of the naturals is well-founded, so
a concrete nonempty set of them has a least member, and everything else is
first-order. A walk over a tape is proved by the least place at which it would go
wrong, and a sum by the least number of terms.
Counts are compared by writing the bijection down (`RowsExact`, `BandsCounted`).

In the proof modules the type invariants are part of what is proved and are not checked by a
run. Every safety invariant and action property of a passing run is a theorem. Only
model-checked are the liveness properties `OrderSettles` and `EverybodyAnswered`:
liveness and ENABLED are out of TLAPS's reach with the installed provers. What the
theorems do not say of the modules: the trend, the breaks and the mitigation of
order blocks select from and fold over sequences with operators of the library that
no prover knows, so `ChochAgainstTrend` takes the trend as `Trend` computes it, and
nothing is claimed of `FreshBlocks`.

## Not modelled

* Numbers: profits and R multiples; rounding of floating point prices; what
  fraction of a position a level closes; trades of different notional; the
  statistics of backtests and audits beyond those a decision hangs on; Fibonacci
  levels and confidence scores.
* The schedule and the other gates that read neither counts nor closed trades:
  `Refuse` in `SignalGate`. They keep no state. `LossGuard` has no deleted rows
  and no copies.
* Several trades in one monitor cycle, and the rollback after which the rest of
  the loaded rows is expired; a second backend's position monitor on the same
  rows; the relay to that backend. The models of the core have one process with
  one task of each monitor; `BacktestRuns` has two backends, `Tuning` a worker of
  each.
* The unique `trade_id` with the resolution of a second, on which two signals
  of one bot collide; the capital check of manual orders, which comes before
  their insert; attribution of one netted position to several trades; caps of an
  engagement edited while it lasts.
* Authentication, rosters and feature gates: checks of one request against stored
  rows. Prices and caches: prices are choices in the models. Notifications,
  Telegram, e-mail: output. Proxies and the detection of addresses: the route a
  request took is a choice. Assistants, news and other tools that show an outside
  answer. Listings, analytics, badges and the frontend, which only read.

The reasons are with the components in `PROJECT.json`. When sessions cross, the
Sub-Auto counters of the row may go backwards, so the number of executions has
no bound then; no property claims one. In the same way `crossed`, `overtaken`,
`met`, `rushed`, `twice`, `unseated` and `left` in the other modules mark where the code gives no
guarantee, and the properties say what holds up to there.

## Plan

What is left, in order of importance:

1. `MonitorCycle`: several trades in one cycle with its rollback: a trade behind a
   failing one is still served, or is starved. `PositionExits` with a set of
   monitors, for the second backend.
2. Abstract specification `TradeLife` (pending, open, over) that `TradeEntries`
   implements for serial handlers, and an abstract gate that `SignalGate`
   implements for signals one at a time.
3. Deleted rows and copies in `LossGuard`; `_target_fraction` with the fractions
   of a ladder in `PositionExits`.
4. `Strategies` on readings taken from one tape of `MarketStructure`.
