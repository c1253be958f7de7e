# Verification of the trading system

TLA+ models, TLC runs and TLAPS proofs for the repository under `src/`: from market
data over the strategies of the collector to orders of the live executors
(`src/flipster_kattpish`), the order path and the account managers of `flipster_rust`,
and the quote pipeline they live on (`src/feed`). `PROJECT.json` lists the components,
the runs, a mutant per checked property, the lines every definition stands for, the
hazards with the properties that cover them, the findings and the theorems.

Contents: 1 inventory, 2 modules, 3 how the runs are built, 4 runs and bounds,
5 fairness, 6 refinement, 7 findings, 8 proofs, 9 only model-checked,
10 not modelled, 11 plan.

## 1. Inventory

The collector (`collector/src`) receives quotes, runs paper strategies on them and
sends entry and exit signals through one coordinator over ZMQ. The live executor
(`executor/src`) trades them on Flipster with a hedge on Gate and reports fills back,
from which the collector learns which symbols lose. `flipster_rust` is a second,
larger program: it decides on orders from three books, admits them against limits,
sends them through a gRPC or WebSocket client and mirrors its accounts.

| Part (`src/flipster_kattpish/` unless said) | State it keeps | What is hard |
|---|---|---|
| position identifiers, `pairs_core/src/pos_id.rs` | a counter seeded from the clock | uniqueness over restarts rests on the clock alone |
| lead strategies, `collector/src/{gate,bingx,hl,mexc}_lead.rs` | histories and one position per base | tick loop, sweeper and fill reports race; exits are sent after the lock is released |
| spread reversion, `collector/src/{spread_revert,hl_spread_revert}.rs` | stacks of positions, baselines, live legs | caps over interleaved decisions; live orders that race paper exits; a cached account |
| paper strategies, `collector/src/strategies.rs` | one book, its cap, statistics | a sweeper that works on positions taken out of the book; two clocks |
| coordinator, `collector/src/coordinator.rs` | last entry per base | check-then-act between tasks |
| symbol statistics, `pairs_core/src/symbol_stats.rs` | window, cooldown, probes, scale; a file | guards dropped between check and act; recovery; crashes during a save |
| live statistics, `executor/src/fill_publisher.rs`, `collector/src/live_stats.rs` | pending entries | lost reports must never pair two positions |
| live executor, `executor/src/executor.rs` | tracked positions, three sweepers' maps | a task per signal, three sweepers, calls that fail after they took effect, a mirror that lags |
| BingX executor, `executor/src/bin/bingx_executor.rs` | open rows by base | entries and exits as tasks that meet only in a map; late fills; restarts |
| Flipster mirrors, `executor/src/{flipster_ws,flipster_account}.rs`, `flipster_private_ws.rs` | rows merged from partial updates | gaps while disconnected; snapshots older than updates |
| market data cache, `flipster_rust/src/data_cache.rs` | three books, a history | compare, read and insert in three turns of the lock |
| order decision, `decide_order_v8.rs`, `strategies/*.rs`, `signal_calculator.rs` | none | the position is read twice and changes between |
| order admission, `handle_chance.rs` | records of orders | approvals on a mirror that learns late |
| order client, `order_manager_client.rs` | limiters, half-hour window | retries over targets; orders that rest |
| parked orders, `strategy_ws.rs` | parked orders per side | amends that expire, come late or are lost while fills change the size |
| Gate order manager, `gate_order_manager.rs` | positions, open orders, health | a map stored whole by two threads; closers on stale data |
| strategy threads, data client, refresh, closing program | flags, tasks, lists, quotes | restarts that clear one flag for a second; lists computed and written apart |
| market data feed, `src/feed` | merged tickers, client queues | loss on two hops, slow clients, failed flushes |
| QuestDB, `collector/src/{questdb_reader,ilp}.rs` | cursors, buffers | row limits on equal timestamps; batches repeated or dropped |

Everything else the repository holds is listed in section 10 with the reason.

## 2. Modules

A step is what the code does between two points where another task, thread or machine
may act: two awaits, two turns of a lock, a request and its answer. Actions carry the
name of the function they stand for where it has one; section 3 says how they are
composed.

| Module | State | Actions and what they stand for |
|---|---|---|
| `PosId` | clock, generator, wire, `seen_entries` | `NextId`, `HandleEntry`, restarts of either process (`RestartCollector`, `RestartExecutor`), `LoseEntry`, `Tick` |
| `Executor` | per position the program counters of entry task, closer and watcher; venue; mirror | `HandleEntry` .. `Track` (on_entry), `WatchLeak`, `WatchClean`, `WatchClose` (abort watcher), `HandleExit` .. `ExitLog` (on_exit), `SweepStalePosition`, `Force*`, `SweepAbortOrphans`, `OrphanClose`, `SweepStaleOrder`, `Ws*` (rows) |
| `StaleOrders` | first seen, failure counts, abandoned, cancel tasks | `SweepRead`, `SweepAct`, `CancelOk`, `CancelErr`, `GiveUp`, `WsUpdate` |
| `SymbolStats` | window, scale, cooldown, probes; callers | `CheckEntry`, `TakeProbe`, `SetCooldown`, `RecordTrade`, `Tick` |
| `Coordinator` (extends `SymbolStats`) | last entry, a caller's stage | `Route`, `Check`, `FinishCheck`, `Publish` |
| `LiveStats` | report channel, pending map, trades | `Open`, `Close`, `Report`, `ForceClose`, `Lag`, `Consume`, `Gc`, `RestartCollector` |
| `StatsFile` | file, temporary file and memory of two stores | `StartExecutor`, `StartCollector`, `Bootstrapped`, `RecordTrade`, `Snapshot`, `WriteTmp`, `Rename`, crashes |
| `PaperLedger` | ids entered, exits sent | `Enter`, `Exit`: what a strategy promises (section 6) |
| `GateLead` | per base quotes, histories, position, cooldowns; exits being sent | `OnLeader`, `OnFollower` (on_tick), `SweepExits`, `LogClose`, `Age` |
| `BingxLead` (extends `GateLead`) | and the fills reported | `OnFill` at any time after the entry; `Retune` sets the reference price of what is open on the base |
| `LeadFleet` | two `GateLead`s, one generator of ids | the actions of either, `Age` of both |
| `SpreadRevert` | quotes, baselines, open positions, exits being sent; what was dropped | `ReadBaseline` and `OnTick` (on_tick before and under the lock), `SweepExits`, `LogClose`, `Refresh` (a base may get a baseline or lose it), `Expire`, `Age` |
| `HlSpreadRevert` (extends `SpreadRevert`) | and live legs, the account and its cache | `HOnTickEnters`, `HLogClose`, `EntryIoc`, `PlaceExit`, `MakerFill`, `CancelExit`, `CloseIoc`, `LookPositions`, `LookOrders` |
| `PaperBook` | positions, statistics, quotes on the book's clock | `OnTick` (latency, pairs), `FundingScan`, `SweepExits`, `Book`, `SendExit` |
| `BingxExecutor` | paper positions, entry and exit tasks, rows, venue | `Gate`, `Order`, `VenueFill`, `PollFinds`, `CancelUnfilled`, `Register`, `ResolveLook`/`ResolveStore`, `Take`, `Close`, `GiveUp`, `Restart` |
| `TickFeed` | connection, merged ticker, two hops, client queues | `Update`, `Read`, `Collect`, `Publish`, `Forward`, `Broadcast`, `Register`, `Write`, `Finish` |
| `IlpSink` | queue, buffer, what was stored | `Submit`, `Take`, `Timeout`, `Flush`, `WriteTick`, `FlushNow`, `Kill` |
| `QuestReader` | table, cursors, buffers, what was sent | `Insert`, `Poll`, `Refill`, `Drain`, `Finish` |
| `DataCache` | three books, feeds, loops, history | `Compare`, `ReadPrevious`, `Insert`; `ReadGate`, `ReadWeb`, `ReadBase`, `PushSample` |
| `OrderDecision` | position, the snapshot of it, the decision | calculate_signal and decide_order as operators; a snapshot, a change of the position, a decision |
| `HandleChance` | last order, records, mirror, venue, queue | `HandleChance`, `Send`, `Record`, `Filled`, `Learn`, `NextPass` |
| `OrderClient` | buckets, window, calls, resting orders | `try_send_order_grpc`, `send_order`, `try_send_order_flipster`, `ExpireCancel`, `cancel_all_orders` |
| `AmendBook` | parked orders at the venue, open_orders, requests and answers | `TakeChance`, `Park`, `ParkStray`, `SmallOrder`, `CancelLarge`, `CancelDuplicates`, `Poll`/`PollStore`, `Handle`; venue and connection |
| `GateAccount` | positions at the venue, two managers' maps, closers, what a contract is worth | `WsLoad`/`WsStore`, `Fetch`, `Loop` (store of a snapshot), `Look`, `Place`, `Connect`, `Disconnect` |
| `FlipsterMirror` | rows, messages, connection | `Handle` (split fields), `Connect` (snapshot), `Lose` |
| `FlipsterAccount` | positions, a poll, events to be sent | `StartPoll`, `Answer`, `Replace`, `Apply`, `Emit` |
| `DataFeed` | running flag, receivers, starters | `Start`, `Stop`, `Receive`, `receive_error`, `update_symbols`, `Flap` |
| `StrategyThreads` | flag, loop, workers, queues, health | `Clear`, `Restart`, `Round`, `Take`, `Sent`, `HealthOrder`, `OrderUpdate` |
| `SymbolRefresh` | configuration, watched symbols, held positions | `Load`, `Collect`, `Write`; `Open`, `Fill`, `Close` |
| `CloseQuotes` | quotes per account, last price per symbol | `Look`, `Visit`, `Place`, `Observe`; venue and connection |

Abstractions that several modules share. Prices are small integers (basis points of a
reference); fees, sizes in dollars and database rows are left out. Times are ages and
countdowns with a cap, so the state space stays finite and no clock needs a bound.
Where the HTTP client sets no timeout, a request may take any time, and thresholds in
seconds that compare with it are dropped (`Executor`). A failing call may have taken
effect where that makes a difference. Unbounded counters are bounded by a constant
named `Max...` in the guard of the action that counts. What the venue does is part of
the model and marked external in the map.

Consequences of the code a reader of the models should know:

* `Executor`: a fill of another position on the same symbol passes for one's own
  (`VerifyEntry`, `LeastFill`); Gate has no sweeper: a Gate close that failed or filled
  partly is only logged, which is why `GateLegHasOwner` excepts positions in
  `gate_fault`.
* `BingxExecutor`: the limit on open positions and the one position per base are
  checked under a lock that is dropped before the order; an exit takes the row of its
  base whoever's it is, removes it before the close, and ignores the result of a
  cancel; a slow resolver may store an older positionId in a newer row.
* `HlSpreadRevert`: the kill switch refuses reduce-only closes too
  (`hl_pairs/src/exec.rs:143`, `:187`), and a paper exit that comes before the maker
  exit is known leaves the live position: accidents `NoSilentLive` names, with the exit a tick without a baseline drops.
* `SpreadRevert`: `baseline_writer` replaces the whole map in each cycle, so a base may
  lose its baseline while it has positions. A tick without a baseline takes positions that
  are stopped or past their deadline out of the state and returns before their exits are
  queued: these ids are `dropped`, and finding `silent_close` shows one.
* `GateLead`: `backtest_mode` lets ticks of any age through (`Accepted`); the sweeper still
  compares their deadlines with the wall clock (`gate_lead.rs:265`, `:784`), so in a replay
  a position is taken at the next sweep (focus `replay`, `Delays` past `HoldMax`).
* `BingxLead`: a report of a fill is matched by base only (`bingx_lead.rs:317`); a late one
  sets the reference price of the position that is open by then. `RefIsOwnFill` says what
  is left: such a price can only be that of a report that came a cooldown or more after
  its entry.
* `FlipsterAccount`: events of the two tasks may be reordered, an older snapshot may
  set the state back for a poll, the state is kept over a disconnect.
* `GateAccount`: the health check marks the account unhealthy whatever the answer
  (`gate_order_manager.rs:5211`) until an order update (`:1741`); it is modelled in
  `StrategyThreads`. The closing order is an amount in USDT, 0 without a setting, cut to
  whole contracts (`CloseSize`). Where it buys none the orders have size 0, the close loop
  goes on as long as the map shows the position, and the pass comes to no other position:
  the exception in `StaleAreClosed`.
* `AmendBook`: the orders are gtc; the answer to an amend of a poc order would be passed
  over (`:1999`), and the strategy sends none.
* `HandleChance`: the cut to 1 % for a bad record rounds to 0 for small sizes and is
  then replaced by the full order size; v6, v7 and close_v1 take the side of a net
  close from the account for sells and from the symbol for buys; v1's weak entry skips
  the dangerous-symbol check, which handle_chance repeats.
* `OrderClient`: the token buckets let up to twice the rate through a second that
  straddles a refill; the half-hour window records a negative size for buys, so that
  after 200 orders large closing buys are refused; a gRPC order that timed out at one
  target may be placed twice by the next; an order whose answer is lost is never
  cancelled; the cancel is tried once.
* `DataCache`: with two feeds of a book an older quote may replace a newer one; the
  history's age limit is met before its cap.
* `OrderDecision`: equal middles compare a sum with one middle and always sell; the
  fallback signals of v6 and v10 have a price decide_order_v8 refuses; close_v1's core
  is never called by the closing program.
* `CloseQuotes`: a position whose divided size is no more than the minimum order is
  never quoted; `slippage` (commented as 2 %) multiplies the spread.
* `SymbolRefresh`: a refresh drops symbols of accounts that left the configuration and
  those filled after its look.
* `TickFeed`, `IlpSink`, `QuestReader`: a slow client is removed; a merged ticker keeps
  an old side over a reconnect; the feed's writers drop rows on a full queue or a
  failed flush, the collector's repeats the batch; rows that share the timestamp at the
  row limit, and late ones, are never read.

## 3. How the runs are built

Components that share no state are checked in one run: a behaviour picks one of them in
its initial state (`focus`), runs that one, and leaves the others at their start. TLC
explores the sum of the state spaces and not their product, and each property says of
which focus it speaks (`focus = "gate" => Gate!ExitOnce`). `MCAccounts` leaves the
components of a run to its configuration (`Foci`). Components that do interact
are composed: `Coordinator` extends `SymbolStats` (a caller of `route_signal` goes
through `check_entry` between reading and writing the last entry), `BingxLead` extends
`GateLead`, `LeadFleet` runs two `GateLead`s on one generator of ids and one ledger,
`HlSpreadRevert` extends `SpreadRevert` (paper steps trigger live ones). Fairness stands
as the antecedent of the liveness properties it is needed for, so that no safety
property depends on it.

`MCExecutor`, `MCStats`, `MCCollector`, `MCLeads`, `MCOrders`, `MCAccounts` hold the
instances, `MCCoordinator` and `MCSilentClose` those of two findings; `DataFeed` is
run as it is.

## 4. Runs and bounds

| Run | Components (focus) | Shows |
|---|---|---|
| `executor` | `Executor`, 1 position, hedged or on Flipster alone with maker exit (`Modes`), size 2, 2 cancel attempts, 1 fault | `OneCloser`, `BookedOnce`, `GateLegHasOwner`, `OrdersEventuallyGone`, `EventuallyFlat`: the account ends flat |
| `executor_pair` | 2 hedged positions on one symbol, size 1, symmetric | `NeverFlips` on a shared net position |
| `stats` | `StaleOrders` (2 orders, 2 retries, 2 tasks), `LiveStats` (3 positions of 2 accounts, channel and pending map of 2, 1 restart), `StatsFile` (2 trades, 2 crashes, 1 fault) | `RetriesBounded`, `OrdersHandled`; `TradesPaired`, `NoForgottenEntry`, `ClosedIsLearned`; `SavedSurvives`, `EventuallySaved` |
| `collector` | `SymbolStats` with 2 callers, `Coordinator` with 1, `SpreadRevert` twice, `HlSpreadRevert` twice, `PaperBook` twice | `ProbesBounded`, `StatsRecover`, `NoChop`, `LimitsHold`, `ExitsExact`, `ImplementsLedger` |
| `leads` | `PosId`, `GateLead` three times, `BingxLead`, `LeadFleet`, `BingxExecutor`, `TickFeed`, `IlpSink`, `QuestReader` | `IdsUnique`, `NoFreshSignalDropped`, `ExitOnce`, `ImplementsLedger`, `OpensAndEnds`, `QuotesArrive` |
| `orders` | `HandleChance` (1 symbol, four strategies, orders seen 1 pass late), `DataCache`, `OrderDecision`, `AmendBook`, `OrderClient` | `ExposureBounded`, `RateBounded`, `DecisionsSound`, `OrdersSettle` |
| `accounts` | `GateAccount` (2 contracts), `FlipsterMirror`, `FlipsterAccount`, `DataFeed`, `StrategyThreads`, `SymbolRefresh`, `CloseQuotes` (1 account, 1 lost connection) | `PositionsKnown`, `Recovers` |
| `closers` | `GateAccount` (2 managers with a map each), `CloseQuotes` (a long and a short account) | `QuotesBounded`, `ClosesShrink`, `StaleAreClosed` |
| `hedge_ratio`, `chop_race`, `silent_close`, `duplicate_feeds` | one each | findings, section 7 |

Every passing run but `executor_pair` and `closers`, which run modules of the run before,
has a type invariant too.

Bounds, and why they are enough for what is asked:

* Executor: size 2 is the smallest with a partial fill, a residual and an overshoot that
  differs from the size; at size 1 two positions contribute to one net position instead.
  One fault can hit any call once, which is what each recovery path is for.
* `stats`: two retries and two tasks let a failure land before, during and after the
  sweep that prunes; three positions, of which two share an account, over a channel and a
  map of two make the broadcast lag and the map overflow. Two crashes hit a save and the
  start after it.
* `collector`: a window of 3 with 2 samples fills, overflows and turns from bad to good;
  stacks of 2, caps of 1 with two bases, holds longer than one tick; two positions on
  one paper book, and room for one. Baselines vanish with focus `spread` and `live`; with
  `caps` and `legs`, which ask about caps and live legs, baselines and quotes stay.
* `leads`: two ids per strategy, so that an exit may be late for the next entry and a fill
  report for the next position; ticks up to one unit late, accepted with focus `gate` and
  too late with `anchor`, twice as late as the hold is long with `replay`; a cooldown
  longer than the hold; histories of 2 and, for the anchor, 3 samples. The BingX executor
  has two ids, one of which can overtake or take over the other, one restart, a limit of
  one open position. Queues of 1, limits of 2 rows.
* `orders`: positions up to the cap of 2 with chances of 2 and a default order of 1; one
  record within three passes, a channel of two; two orders on a side; two targets and four
  calls. Symbols meet only in the rate of orders: what two of them add to it is proved
  for any number (`RatesAreKept`).
* `accounts`, `closers`: two contracts or two managers of one; two changes, a loss, one
  trade; contracts worth as much as the closing order or more, so that it buys one or none;
  an account below zero for the lost connection, two on either side otherwise.

Deadlock is checked in the executor runs; the composed runs stop where a component's
bound is reached, as `CHECK_DEADLOCK FALSE` says.

## 5. Fairness

Every spawned task runs and every call returns some day (tokio, threads): weak fairness
of their steps. Loops that live as long as the process tick for ever: sweepers, the
save every 30 s, the REST loops. Strong fairness stands where an attempt may fail again
and again and succeeds some day: a request that is not lost each time (`Answer`,
`Fetch`, `Process`), a reconnection. Signals, fills of resting orders, trades being good
and failures carry none. `StatsRecover` also assumes that signals come often enough to
meet the symbol in its cooldown (`Frequent`): with rarer ones a losing symbol never gets
a probe, which the code allows. In `Executor` failures are bounded by `MaxFaults`, so
its liveness says: once failures stop. In `CloseQuotes` fills of a quote that stays are
strongly fair: the market comes to it some day.

## 6. Refinement

`PaperLedger` is the abstract specification of a strategy: an entry under a fresh id, its
exit once, after it (`Spec`), and in the end (`ExitsOwed`, under the strategy's fairness).
Each strategy is shown to implement it with its own `next_id`, `entered` and `exits` as
the mapping: `GateLead`, `BingxLead` and `LeadFleet` (property `ImplementsLedger` of
`leads`), `SpreadRevert` and the pairs strategy of `PaperBook` (property
`ImplementsLedger` of `collector`). `SpreadRevert` implements `Spec` but owes less: an
exit is signalled in the end or dropped (its own `ExitsOwed`). TLC checks both parts on
the instances; the safety part is proved (section 8). `HlSpreadRevert` with its live half
hidden is `SpreadRevert`, which is proved (`LiveIsSpreadRevert`), so what holds of the
paper strategy holds of the traded one.

## 7. Findings

Runs that TLC must find violated, each against a line of the repository it quotes:

* `hedge_ratio`: the Gate leg is sized from the target, not from the Flipster fill.
* `chop_race`: two strategies in `route_signal` at once publish opposite entries of one
  base within the window; with one caller at a time they do not (proved, `NoChop`).
* `silent_close`: a position that is stopped or times out on a tick without a baseline
  leaves the state, and its exit is never signalled.
* `duplicate_feeds`: a receiver that misses the second in which its flag is clear goes on
  beside its successor, and a feed is read twice.

Divergences met while modelling that have no run of their own: every position is
force-closed after 3 s, also without an exit signal, against the hold of up to 24 h of
`SPREAD_REVERT.md`; a lagging mirror is taken as proof that the maker exit filled
(recovered by the orphan sweeper, `EventuallyFlat` holds in spite of it); rare signals
keep a losing symbol out (section 5); the pending map of the live statistics is cleared
above 4096 entries; `decide_order_v8` hands milliseconds to a function that compares with
seconds, so every position counts as one to warn of (`decide_order_v8.rs:728`); the
monitor of `runner_monitoring.rs` closes positions though it "places no orders"; a late
fill report may retune another position (`RefIsOwnFill` bounds how late); a closing amount
that buys no contract leaves a close loop without an end (`StaleAreClosed`); with live
trading the cache of the account is up to 5 s old, so that a second position per coin may
be opened (`hl_spread_revert.rs:121`); the closing program keys its last price by symbol
only, so an account on the same side gets no quote while another has one, and a slow pass
or a refused order records a price too (`strategy_close.rs:594`); `runner.rs` announces a
retry in 300 s and drops the account for good.

## 8. Proofs

Eight modules. Theorems are of the form `Spec => []P`, for every value of the constants
that the named assumptions allow: sets of bases, callers, positions and orders of any
size, any bounds on faults, restarts and ids. Where a run instantiates a component with
values in the `WITH` clause, the component's theorem is general and the run's theorem is
general in what stays a constant.

`ExecutorProofs` (`ExecutorAssumption`). `TypeInv` strengthens `TypeOK` by what program
counters say of attempts, Gate legs and the deduplication set. `Lifecycle` relates entry
task, closer, tracker and trade record: `OneCloser`, `BookedOnce` follow. `GateOwned`
strengthens `GateLegHasOwner` by when a Gate leg can exist at all. `NeverFlips`
from the types: reduce-only orders stop at zero, entries only add.

Beside it the five invariants of run `stats` (`MCStatsAssumption`). `RetriesBounded`: every
cancel ever sent is under way, counted, or its order was abandoned or is gone
(`CancelsAccounted`), over a sweep that works on an old copy. `TradesPaired`,
`NoForgottenEntry`: reports of a position stay in order in the channel, what was recorded
is over, and a pending entry waits for an exit before it. `SavedSurvives`: the save in hand
is no older than the last saved one, and a bootstrap copies only into an empty store.

`SpreadRevertProofs` (`ConstantsOK`, `HlConstantsOK`). `SpreadInv`: open positions, those
whose exit is being sent, and those exited are apart and make up what was entered; caps
are preserved because the opening counts what the reverse-close leaves. From it
`CapsHold`, `OneSidePerBase`, `ExitOnce` and each step's simulation of the ledger.
`NoSilentClose` without an assumption on the baselines: what was entered is open, leaving,
exited or `dropped`, and the tick in hand that has no baseline for a base with positions
read it after a cycle had left the base out. For live legs `Watched` and `Legs`: every
live position is attended to by a task, a resting exit or its paper position, or is named
lost, or its paper exit was dropped, from which `NoSilentLive`. `LiveIsSpreadRevert` is
the step simulation.

`PaperBookProofs` (`ConstantsOK`): types, the cap and one position per base over a sweep
that keeps taken-out positions aside, the ledger, and `RiskBounded` under `Timely`: latency
and tick delays are no longer than the holds. TLC gives a counterexample without it.

`CollectorProofs` (`MCCollectorAssumption`): all invariants of run `collector`. `TypesOK`,
`LimitsHold`, `ExitsExact` from the theorems above. `ProbesBounded`, for any number of gated
callers, from a budget: probes granted and left make the probes of a cooldown, and
afterwards at most all callers but one hold another. `NoChop` under `Sequential`, callers
one at a time, from `Spaced`: the last entry is the latest published, and the latest of the
other side is older than it by the window. Without that assumption it is false (run
`chop_race`).

`AccountsProofs` (`MCAccountsAssumption`): the invariants of `accounts` and `closers`, and
the action property `ClosesShrink`, each component by an inductive invariant of its own
and all of them by focus (`AccountsInv`). `GateInv`: what is on its way to the venue was
sized by a map, reduce-only and of any size down to zero, and stops at zero, whatever the
map. `MirrorInv`: what a row of the mirror will be once the messages under way are read is
the position, but for symbols a gap hid. `AccountInv`: the events queued and sent balance
what the tasks have stored, per row. `ThreadsInv`: every loop but the current one is gone
or leaving. `RefreshInv`: what is held or in flight is watched or was filled late.
`QuotesInv`: quotes, places and cancels on the wire of an account are one, and one more
per lost connection.

`OrdersProofs` (`MCOrdersAssumption`): all invariants of run `orders`, for any symbols,
sizes, limits and lags, each component by an invariant of its own (`OrdersInv`).

* `ExposureInv`, for `ExposureBounded`. For each symbol and direction a tally (`Tally`)
  relates the mirrored position, the fills the mirror has not seen and the orders not sent.
  What is on its way and no older than k passes was approved in at most k passes, so it is
  at most k orders; with what the mirror shows it is below the cap plus `Lag` orders
  (`Exposure`). A close of v7 may be a fifth of the position and is asked again while the
  first is under way: its bound is 5/(5 - `Lag`) of the cap, and holds for `Lag` up to 4
  passes only, which `ConstantsOK` says. With five passes, five such closes
  add up to the position and the argument has no bound left.
* `RateInv`, for `RateBounded`. The records in the queue and in the channel are in the order
  of the openings (`Noted`, `Rated`), and the channel holds those of two passes (`Passing`),
  one per symbol. An opening without a record is met by a full queue (`RatedBounds`). If the
  channel held fewer than two passes of all symbols, records would be dropped and no bound
  would hold: the hypothesis of `RateBounded`, true of the code's 512 up to 256 symbols.
* `ClientInv`, for the client's half of it. `Paced`: tokens spent since any moment are at
  most what was in the bucket and what came since. `Windowed`: the trimmed list of a login
  still shows as many of its calls, up to `Kept`, as were made in any window.
* `AmendsInv`: the venue has filled at least what mirror, snapshot and answers believe of an
  order, and no request asks for more than the largest order beyond what is filled, so an
  amend sized by a stale mirror leaves no more than that open; `Fits` bounds the two
  channels by the orders that are open.
* `DecisionInv` and `CacheInv`, for `DecisionsSound`: of each of the six versions, branch by
  branch, that what may only be closed is not opened and a close opposes the position it was
  asked about; that a history is spaced by the interval (`Spaced`), a feed alone on its book
  inserts no older quote (`Fresh`), and a snapshot under way holds quotes of its moment
  (`Steady`).

`GateLeadProofs` (`ConstantsOK`). `Places`: an id is open, leaving or exited, and in one
place only; `Owed`: what the tasks still have to send. From them `ExitOnce` and the
ledger. `Young`: an open position is younger than its hold and cooldown allow, which gives
`OneAfterAnother` (a finite set of bases), and `StopIsRespected` on its own. With fill
reports the same for `BingxLead` (`BingxInv`), and `RefIsOwnFill`, with no assumption on
when a report comes. It is inductive with `Homes`, where each id was entered, and
`Cooled`: where a position is open, the other entries of its base are a cooldown old
(`Reported`), so that a younger report is its own.

`LeadsProofs` (`PosIdAssumption`, `MCLeadsAssumption`): `IdsUnique` and
`NoFreshSignalDropped` (every id issued lies below the clock and below the running
process's counter; what the executor has seen is not on the wire). `ExitOnce` of run
`leads`: of `GateLead`, live and in a replay, and `BingxLead` from their theorems; of the
fleet, that the ids of two strategies with one generator stay apart (`FleetInv`); of
`BingxExecutor`, `BxInv`: a position at the venue is minded by an entry that polls, by its
row or by an exit that closes, unless an accident happened on its base, and rows,
settlements and closes are counted. `LedgersImplemented`: the signals of `GateLead`,
`BingxLead` and the fleet are those of the ledger.

How a theorem about an instance reaches a run. A run's module instantiates a component
(`Gate`), a proof module instantiates the component's proofs with the same substitution
(`GateP`). For the prover these are two sets of definitions, so lemmas named `...Same`
expand both and show that initial states, steps and invariants agree; lemmas named
`...Runs` show that a behaviour with a given focus is a behaviour of that component.

## 9. Only model-checked

* Liveness under fairness: `EventuallyFlat`, `OrdersEventuallyGone`, `ClosedIsLearned`,
  `EventuallySaved`, `OrdersHandled`, `StatsRecover`, `OrdersSettle`, `StaleAreClosed`,
  `Recovers`, the liveness of `QuotesArrive`, and that exits owed are sent
  (`ExitsOwed` in `ImplementsLedger`): fairness and ENABLED are beyond the prover.
* `OpensAndEnds`: the anchor is a median over a sorted, filtered history (`SortSeq`,
  `SelectSeq`), which the prover cannot expand; the other half says that no tick which is
  late but accepted opens a position already past its deadline (`NoInstaTimeout`).
* `TypesOK` of `leads`, whose reader sorts rows with `SortSeq`.
* The invariants inside `QuotesArrive` (no hole, rows kept), which is a liveness property
  as a whole.

## 10. Not modelled

* A restart of the live executor with open positions: it tracks nothing then, the orphan
  sweeper closes Flipster, and Gate has no sweeper.
* In modelled parts: multi-position slots, dry run of the live executor, leverage, profit
  and funding statistics, log texts, wire and row formats, configuration loading.
* `gate_order_manager.rs` beyond positions, orders, records and health; runners that wire
  components up (`runner_ws.rs`, `account_manager.rs`, ...).
* Collector feeds: one loop per exchange that connects, parses and forwards, in the shape
  of `TickFeed`'s connection. FX feed: polls and writes.
* `hl_pairs` strategy and `hl_quoter`, tick and window algorithms, `market_state_updater`:
  numerical, without shared state worth a model. The Python strategy shares no state with
  the rest. `gate_hft_flipster_hedging` holds no code. Analysis, dashboards, scripts, data.

## 11. Plan

A proof of `TickFeed`'s stream without holes; then a module for the executor's restart,
composed with `Executor`, and what two restarts may leave on Gate.
