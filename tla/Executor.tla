------------------------------ MODULE Executor ------------------------------
(***************************************************************************)
(* The live executor (executor/src/executor.rs, flipster_helpers.rs and    *)
(* the sweeper task of main.rs), in one-way mode.                          *)
(*                                                                         *)
(* Every entry and exit signal runs in a tokio task of its own; the tasks, *)
(* the three periodic sweepers and the tasks those spawn share the map of  *)
(* tracked positions and a WebSocket mirror of the Flipster account that   *)
(* lags the venue.  A task is a program counter per position; a step is    *)
(* the code between two awaits together with the venue call it ends with.  *)
(*                                                                         *)
(* Wall-clock thresholds (0.4 s limit wait, 3 s stale position, 5 s        *)
(* orphan, 8 s stale order) are not modelled: request latencies are not    *)
(* bounded by the code, so a sweeper may find something old at any tick.   *)
(* Prices are not modelled; sizes are small integers.                      *)
(***************************************************************************)
EXTENDS Integers

CONSTANTS Pos,            \* position ids of the signals
          Bases,          \* base symbols
          BaseOf,         \* [Pos -> Bases]
          Long,           \* the long positions among Pos
          Modes,          \* values of flipster_only the executor may run with
          Size,           \* entry size
          MaxAttempts,    \* cancel attempts of limit_ioc_entry (3 in the code)
          MaxFaults       \* bound: venue calls that fail or time out

ASSUME ExecutorAssumption ==
    /\ BaseOf \in [Pos -> Bases]
    /\ Long \subseteq Pos
    /\ Modes \subseteq BOOLEAN
    /\ Size \in Nat \ {0}
    /\ MaxAttempts \in Nat \ {0}
    /\ MaxFaults \in Nat

VARIABLES
    flipster_only,              \* Executor.flipster_only: no Gate hedge
    seen_entries, seen_exits,   \* deduplication sets
    open_positions,             \* keys of the tracked LivePositions
    exit_order_id,              \* [Pos -> BOOLEAN] pre-placed maker exit known
    entry,                      \* [Pos -> pc] the on_entry task
    attempts,                   \* [Pos -> Nat] limit_ioc_entry cancel attempts
    closer,                     \* [Pos -> pc] the on_exit or force_close task
    watcher,                    \* [Pos -> pc] the abort-leak watcher
    leaked,                     \* [Pos -> Int] leaked_size the watcher read
    cancels,                    \* orders with a spawned cancel task pending
    closes,                     \* <<base, size>>: orphan closes spawned
    unmatched_first_seen,       \* bases seen with an unmatched WS position
    position,                   \* [Bases -> Int] Flipster: net position (slot 0)
    book,                       \* [Orders -> Nat] Flipster: resting quantity
    filled,                     \* [Pos -> Nat] Flipster: p's entry fills (history)
    ws_size, ws_margin,         \* WS mirror: position row
    ws_orders,                  \* WS mirror: orders in an open status
    gate_position,              \* [Bases -> Int] Gate: net position
    gate_leg,                   \* [Pos -> Nat] Gate contracts p opened, not closed
    trade_log,                  \* [Pos -> Nat] trades written to the log
    gate_fault,                 \* positions a Gate call failed for (history)
    faults                      \* failed venue calls so far

seen == <<seen_entries, seen_exits>>
tracker == <<open_positions, exit_order_id>>
watch == <<watcher, leaked>>
sweeper == <<cancels, closes, unmatched_first_seen>>
flipster == <<position, book, filled>>
mirror == <<ws_size, ws_margin, ws_orders>>
gate == <<gate_position, gate_leg, gate_fault>>
vars == <<seen, tracker, entry, attempts, closer, watch, sweeper, flipster,
          mirror, gate, trade_log, faults>>
allvars == <<flipster_only, vars>>

Orders == {"entry", "exit"} \X Pos
EntryOrder(p) == <<"entry", p>>
ExitOrder(p) == <<"exit", p>>
BaseOfOrder(o) == BaseOf[o[2]]

EntryPC == {"idle", "place", "cancel", "confirm", "verify", "maker", "gate",
            "revert", "track", "done"}
CloserPC == {"idle", "cancel", "check", "close", "gate", "log",
             "fcancel", "fclose", "fgate", "done"}
WatcherPC == {"off", "poll", "close"}

Sign(p) == IF p \in Long THEN 1 ELSE -1
AbsOf(x) == IF x < 0 THEN -x ELSE x
Least(x, y) == IF x < y THEN x ELSE y
SignOf(x) == IF x < 0 THEN -1 ELSE 1

\* Every close asks for 1.5 times the size; reduce-only caps it.
Overshoot(q) == (3 * q) \div 2

-----------------------------------------------------------------------------
(* The venues, as the executor uses them (external).                       *)

\* The net position x after a reduce-only order for q in direction s.
Reduced(x, s, q) == IF x * s < 0 THEN x + s * Least(q, AbsOf(x)) ELSE x

\* Flipster reserves margin for a position and for resting entry orders.
Margin(b) ==
    \/ position[b] # 0
    \/ \E p \in Pos : BaseOf[p] = b /\ book[EntryOrder(p)] > 0

\* What a reduce-only Gate close of p's contracts takes off the net position.
GateClosable(p) ==
    IF gate_position[BaseOf[p]] * Sign(p) < 0
    THEN Least(gate_leg[p], AbsOf(gate_position[BaseOf[p]]))
    ELSE 0

\* One venue call goes wrong: an error status, or a timeout.
Fault == faults < MaxFaults /\ faults' = faults + 1
NoFault == faults' = faults

Init ==
    /\ flipster_only \in Modes
    /\ seen_entries = {} /\ seen_exits = {} /\ open_positions = {}
    /\ exit_order_id = [p \in Pos |-> FALSE]
    /\ entry = [p \in Pos |-> "idle"]
    /\ attempts = [p \in Pos |-> 0]
    /\ closer = [p \in Pos |-> "idle"]
    /\ watcher = [p \in Pos |-> "off"]
    /\ leaked = [p \in Pos |-> 0]
    /\ cancels = {} /\ closes = {} /\ unmatched_first_seen = {}
    /\ position = [b \in Bases |-> 0]
    /\ book = [o \in Orders |-> 0]
    /\ filled = [p \in Pos |-> 0]
    /\ ws_size = [b \in Bases |-> 0]
    /\ ws_margin = [b \in Bases |-> FALSE]
    /\ ws_orders = {}
    /\ gate_position = [b \in Bases |-> 0]
    /\ gate_leg = [p \in Pos |-> 0]
    /\ trade_log = [p \in Pos |-> 0]
    /\ gate_fault = {}
    /\ faults = 0

-----------------------------------------------------------------------------
(* on_entry                                                                *)

\* An order of p's entry puts q on the position and leaves r on the book.
Execute(p, q, r) ==
    /\ position' = [position EXCEPT ![BaseOf[p]] = @ + Sign(p) * q]
    /\ filled' = [filled EXCEPT ![p] = @ + q]
    /\ book' = [book EXCEPT ![EntryOrder(p)] = r]

\* extract_fill: the least fill behind a response that shows one.  Where the order
\* has no average price, that of a position which was there before stands in.
LeastFill(p) == IF position[BaseOf[p]] = 0 THEN 1 ELSE 0

\* The Flipster leg is considered filled: single-leg mode goes on to the maker
\* exit, two-leg mode to the Gate hedge.
AfterFill == IF flipster_only THEN "maker" ELSE "gate"
Goto(p, pc) == entry' = [entry EXCEPT ![p] = pc]

\* "not filled - abort, async leak watcher armed"
Abort(p) ==
    /\ Goto(p, "done")
    /\ watcher' = [watcher EXCEPT ![p] = "poll"]

\* FlipsterState::has_position: a size, or margin without one.
HasPosition(b) == ws_size[b] # 0 \/ ws_margin[b]

\* White and black list, signal age, chop and statistics, hedge mismatch, BBO
\* recheck and depth guard: any of them may drop the signal.
AfterFilters == {"place", "done"}

\* Mutant: no deduplication; a repeated signal enters again.
HandleEntryNoDedup(p) ==
    /\ entry[p] \in {"idle", "done"}
    /\ seen_entries' = seen_entries \union {p}
    /\ \E pc \in AfterFilters : Goto(p, pc)
    /\ UNCHANGED <<seen_exits, tracker, attempts, closer, watch, sweeper,
                   flipster, mirror, gate, trade_log, faults>>

\* handle_event, "entry", up to the choice of the order.  The deduplication set is
\* updated before the filters.
HandleEntry(p) ==
    /\ p \notin seen_entries
    /\ seen_entries' = seen_entries \union {p}
    /\ \E pc \in AfterFilters : Goto(p, pc)
    /\ UNCHANGED <<seen_exits, tracker, attempts, closer, watch, sweeper,
                   flipster, mirror, gate, trade_log, faults>>

\* MARKET entry.  A response without a fill falls back on the mirror; an error
\* returns at once, although the venue may have executed the order.
PlaceMarket(p) ==
    /\ entry[p] = "place"
    /\ \/ /\ \E q \in LeastFill(p)..Size : Execute(p, q, 0)
          /\ Goto(p, AfterFill)
          /\ NoFault
          /\ UNCHANGED watcher
       \/ /\ Fault
          /\ \E q \in {0, Size} : Execute(p, q, 0)
          /\ IF HasPosition(BaseOf[p])
             THEN Goto(p, AfterFill) /\ UNCHANGED watcher
             ELSE Abort(p)
       \/ /\ Fault
          /\ \E q \in {0, Size} : Execute(p, q, 0)
          /\ Goto(p, "done")
          /\ UNCHANGED watcher
    /\ UNCHANGED <<seen, tracker, attempts, closer, leaked, sweeper, mirror,
                   gate, trade_log>>

\* limit_ioc_entry up to its sleep.  An immediate fill, partial or full, returns
\* at once and leaves the residual to a spawned cancel; otherwise the order
\* rests.  A response without an order id aborts; an error returns.
PlaceLimit(p) ==
    /\ entry[p] = "place"
    /\ \/ /\ \E q \in LeastFill(p)..Size : Execute(p, q, Size - q)
          /\ cancels' = cancels \union {EntryOrder(p)}
          /\ Goto(p, AfterFill)
          /\ NoFault
          /\ UNCHANGED watcher
       \/ /\ Execute(p, 0, Size)
          /\ Goto(p, "cancel")
          /\ NoFault
          /\ UNCHANGED <<cancels, watcher>>
       \/ /\ Fault
          /\ Execute(p, 0, Size)
          /\ Abort(p)
          /\ UNCHANGED cancels
       \/ /\ Fault
          /\ \E q \in {0, Size} : \E r \in {0, Size - q} : Execute(p, q, r)
          /\ Goto(p, "done")
          /\ UNCHANGED <<cancels, watcher>>
    /\ UNCHANGED <<seen, tracker, attempts, closer, leaked, closes,
                   unmatched_first_seen, mirror, gate, trade_log>>

\* After the wait: one of the cancel attempts.
CancelEntry(p) ==
    /\ entry[p] = "cancel"
    /\ \/ book' = [book EXCEPT ![EntryOrder(p)] = 0] /\ NoFault
       \/ book' = book /\ Fault
    /\ attempts' = [attempts EXCEPT ![p] = @ + 1]
    /\ Goto(p, "confirm")
    /\ UNCHANGED <<seen, tracker, closer, watch, sweeper, position, filled,
                   mirror, gate, trade_log>>

\* Mutant: retry for as long as the mirror shows the order.
ConfirmCancelUnbounded(p) ==
    /\ entry[p] = "confirm"
    /\ Goto(p, IF EntryOrder(p) \in ws_orders THEN "cancel" ELSE "verify")
    /\ UNCHANGED <<seen, tracker, attempts, closer, watch, sweeper, flipster,
                   mirror, gate, trade_log, faults>>

\* Is the order gone from the mirror?  Three attempts at most.
ConfirmCancel(p) ==
    /\ entry[p] = "confirm"
    /\ Goto(p, IF EntryOrder(p) \in ws_orders /\ attempts[p] < MaxAttempts
               THEN "cancel" ELSE "verify")
    /\ UNCHANGED <<seen, tracker, attempts, closer, watch, sweeper, flipster,
                   mirror, gate, trade_log, faults>>

\* Polling the mirror until the deadline: a size, or margin alone, counts as a
\* fill of this entry.
VerifyEntry(p) ==
    /\ entry[p] = "verify"
    /\ IF HasPosition(BaseOf[p])
       THEN Goto(p, AfterFill) /\ UNCHANGED watcher
       ELSE Abort(p)
    /\ UNCHANGED <<seen, tracker, attempts, closer, leaked, sweeper, flipster,
                   mirror, gate, trade_log, faults>>

\* Single-leg mode: pre-place the reduce-only maker exit.  It may be disabled,
\* have no quote, be refused, or rest without its id being known.
PlaceMakerExit(p) ==
    /\ entry[p] = "maker"
    /\ \/ /\ book' = [book EXCEPT ![ExitOrder(p)] = Size]
          /\ exit_order_id' = [exit_order_id EXCEPT ![p] = TRUE]
          /\ NoFault
       \/ /\ UNCHANGED <<book, exit_order_id>>
          /\ NoFault
       \/ /\ book' = [book EXCEPT ![ExitOrder(p)] = Size]
          /\ UNCHANGED exit_order_id
          /\ Fault
    /\ Goto(p, "track")
    /\ UNCHANGED <<seen, open_positions, attempts, closer, watch, sweeper,
                   position, filled, mirror, gate, trade_log>>

\* A Gate IOC opens q contracts against p's side.
OpenGate(p, q) ==
    /\ gate_leg' = [gate_leg EXCEPT ![p] = @ + q]
    /\ gate_position' = [gate_position EXCEPT ![BaseOf[p]] = @ - Sign(p) * q]

\* Two-leg mode: the Gate IOC, for the signal's size.  Anything but a fill
\* reverts the Flipster leg; after an error the order may have filled.
PlaceGate(p) ==
    /\ entry[p] = "gate"
    /\ \/ /\ \E q \in 1..Size : OpenGate(p, q)
          /\ Goto(p, "track")
          /\ NoFault
          /\ UNCHANGED gate_fault
       \/ /\ Goto(p, "revert")
          /\ NoFault
          /\ UNCHANGED gate
       \/ /\ Fault
          /\ \E q \in 0..Size : OpenGate(p, q)
          /\ gate_fault' = gate_fault \union {p}
          /\ Goto(p, "revert")
    /\ UNCHANGED <<seen, tracker, attempts, closer, watch, sweeper, flipster,
                   mirror, trade_log>>

\* Mutant: the close is sent without reduceOnly.
CloseFlipsterNotReduceOnly(p) ==
    \/ /\ position' = [position EXCEPT ![BaseOf[p]] =
                          @ - Sign(p) * Overshoot(Size)]
       /\ NoFault
    \/ UNCHANGED position /\ Fault

\* A reduce-only order against p's side, or a call that fails without effect.
CloseFlipster(p) ==
    \/ /\ position' = [position EXCEPT ![BaseOf[p]] =
                          Reduced(@, -Sign(p), Overshoot(Size))]
       /\ NoFault
    \/ UNCHANGED position /\ Fault

\* safety_revert_and_log: a failed revert is only logged.
SafetyRevert(p) ==
    /\ entry[p] = "revert"
    /\ CloseFlipster(p)
    /\ trade_log' = [trade_log EXCEPT ![p] = @ + 1]
    /\ Goto(p, "done")
    /\ UNCHANGED <<seen, tracker, attempts, closer, watch, sweeper, book,
                   filled, mirror, gate>>

\* open_positions.insert, then the entry fill report.
Track(p) ==
    /\ entry[p] = "track"
    /\ open_positions' = open_positions \union {p}
    /\ Goto(p, "done")
    /\ UNCHANGED <<seen, exit_order_id, attempts, closer, watch, sweeper,
                   flipster, mirror, gate, trade_log, faults>>

EntryTask(p) ==
    \/ PlaceMarket(p) \/ PlaceLimit(p) \/ CancelEntry(p) \/ ConfirmCancel(p)
    \/ VerifyEntry(p) \/ PlaceMakerExit(p) \/ PlaceGate(p) \/ SafetyRevert(p)
    \/ Track(p)

-----------------------------------------------------------------------------
(* The abort-leak watcher                                                  *)

\* A poll finds a size on the symbol.
WatchLeak(p) ==
    /\ watcher[p] = "poll"
    /\ ws_size[BaseOf[p]] # 0
    /\ leaked' = [leaked EXCEPT ![p] = ws_size[BaseOf[p]]]
    /\ watcher' = [watcher EXCEPT ![p] = "close"]
    /\ UNCHANGED <<seen, tracker, entry, attempts, closer, sweeper, flipster,
                   mirror, gate, trade_log, faults>>

\* Forty polls without one.
WatchClean(p) ==
    /\ watcher[p] = "poll"
    /\ watcher' = [watcher EXCEPT ![p] = "off"]
    /\ UNCHANGED <<seen, tracker, entry, attempts, closer, leaked, sweeper,
                   flipster, mirror, gate, trade_log, faults>>

\* [ABORT-CLEANUP]
WatchClose(p) ==
    /\ watcher[p] = "close"
    /\ \/ /\ position' = [position EXCEPT ![BaseOf[p]] =
                Reduced(@, -SignOf(leaked[p]), Overshoot(AbsOf(leaked[p])))]
          /\ NoFault
       \/ UNCHANGED position /\ Fault
    /\ watcher' = [watcher EXCEPT ![p] = "off"]
    /\ leaked' = [leaked EXCEPT ![p] = 0]
    /\ UNCHANGED <<seen, tracker, entry, attempts, closer, sweeper, book,
                   filled, mirror, gate, trade_log>>

-----------------------------------------------------------------------------
(* on_exit                                                                 *)

GotoClose(p, pc) == closer' = [closer EXCEPT ![p] = pc]
AfterFlipster == IF flipster_only THEN "log" ELSE "gate"

\* handle_event, "exit".  An exit whose position is not tracked is forgotten,
\* and seen_exits keeps a repeated one from being looked at.
HandleExit(p) ==
    /\ p \notin seen_exits
    /\ seen_exits' = seen_exits \union {p}
    /\ IF p \in open_positions
       THEN /\ open_positions' = open_positions \ {p}
            /\ GotoClose(p, IF exit_order_id[p] THEN "cancel" ELSE "close")
       ELSE UNCHANGED <<open_positions, closer>>
    /\ UNCHANGED <<seen_entries, exit_order_id, entry, attempts, watch,
                   sweeper, flipster, mirror, gate, trade_log, faults>>

\* Cancel the maker exit.  "Not found" is taken to mean that it filled.
ExitCancel(p) ==
    /\ closer[p] = "cancel"
    /\ \/ /\ book[ExitOrder(p)] = 0
          /\ GotoClose(p, AfterFlipster)
          /\ UNCHANGED book
          /\ NoFault
       \/ /\ book' = [book EXCEPT ![ExitOrder(p)] = 0]
          /\ GotoClose(p, "check")
          /\ NoFault
       \/ /\ UNCHANGED book
          /\ GotoClose(p, "check")
          /\ Fault
    /\ UNCHANGED <<seen, tracker, entry, attempts, watch, sweeper, position,
                   filled, mirror, gate, trade_log>>

\* "WS shows pos=0 -> assume filled"
ExitCheck(p) ==
    /\ closer[p] = "check"
    /\ GotoClose(p, IF ws_size[BaseOf[p]] = 0 THEN AfterFlipster ELSE "close")
    /\ UNCHANGED <<seen, tracker, entry, attempts, watch, sweeper, flipster,
                   mirror, gate, trade_log, faults>>

\* Reduce-only MARKET for 1.5 times the size; a failure is only logged.
ExitClose(p) ==
    /\ closer[p] = "close"
    /\ CloseFlipster(p)
    /\ GotoClose(p, AfterFlipster)
    /\ UNCHANGED <<seen, tracker, entry, attempts, watch, sweeper, book,
                   filled, mirror, gate, trade_log>>

TakeOffGate(p, q) ==
    /\ gate_leg' = [gate_leg EXCEPT ![p] = @ - q]
    /\ gate_position' = [gate_position EXCEPT ![BaseOf[p]] = @ + Sign(p) * q]

\* gate.close_position: reduce-only market IOC for the tracked contracts.  An
\* error, a refusal or a partial fill is logged and nothing else.
CloseGate(p) ==
    /\ \/ \E q \in {GateClosable(p)} : TakeOffGate(p, q) /\ NoFault
       \/ \E q \in 0..GateClosable(p) : TakeOffGate(p, q) /\ Fault
    /\ gate_fault' = IF gate_leg'[p] > 0 THEN gate_fault \union {p}
                                         ELSE gate_fault

ExitGate(p) ==
    /\ closer[p] = "gate"
    /\ CloseGate(p)
    /\ GotoClose(p, "log")
    /\ UNCHANGED <<seen, tracker, entry, attempts, watch, sweeper, flipster,
                   mirror, trade_log>>

\* Statistics, trade record and exit fill report.
ExitLog(p) ==
    /\ closer[p] = "log"
    /\ trade_log' = [trade_log EXCEPT ![p] = @ + 1]
    /\ GotoClose(p, "done")
    /\ UNCHANGED <<seen, tracker, entry, attempts, watch, sweeper, flipster,
                   mirror, gate, faults>>

-----------------------------------------------------------------------------
(* The sweepers                                                            *)

\* Mutant: the stale position is closed but left in the map.
SweepStalePositionKeeps(p) ==
    /\ p \in open_positions
    /\ GotoClose(p, IF exit_order_id[p] THEN "fcancel" ELSE "fclose")
    /\ UNCHANGED <<seen, tracker, entry, attempts, watch, sweeper, flipster,
                   mirror, gate, trade_log, faults>>

\* sweep_stale_positions: remove, then force_close in a task of its own.
SweepStalePosition(p) ==
    /\ p \in open_positions
    /\ open_positions' = open_positions \ {p}
    /\ GotoClose(p, IF exit_order_id[p] THEN "fcancel" ELSE "fclose")
    /\ UNCHANGED <<seen, exit_order_id, entry, attempts, watch, sweeper,
                   flipster, mirror, gate, trade_log, faults>>

\* force_close: the result of the cancel is ignored ...
ForceCancel(p) ==
    /\ closer[p] = "fcancel"
    /\ \/ book' = [book EXCEPT ![ExitOrder(p)] = 0] /\ NoFault
       \/ UNCHANGED book /\ Fault
    /\ GotoClose(p, "fclose")
    /\ UNCHANGED <<seen, tracker, entry, attempts, watch, sweeper, position,
                   filled, mirror, gate, trade_log>>

\* Mutant: the Gate leg is forgotten.
ForceCloseFlipsterOnly(p) ==
    /\ closer[p] = "fclose"
    /\ CloseFlipster(p)
    /\ GotoClose(p, "done")
    /\ UNCHANGED <<seen, tracker, entry, attempts, watch, sweeper, book,
                   filled, mirror, gate, trade_log>>

\* ... then both legs are closed; no trade record is written.
ForceClose(p) ==
    /\ closer[p] = "fclose"
    /\ CloseFlipster(p)
    /\ GotoClose(p, IF flipster_only THEN "done" ELSE "fgate")
    /\ UNCHANGED <<seen, tracker, entry, attempts, watch, sweeper, book,
                   filled, mirror, gate, trade_log>>

ForceGate(p) ==
    /\ closer[p] = "fgate"
    /\ CloseGate(p)
    /\ GotoClose(p, "done")
    /\ UNCHANGED <<seen, tracker, entry, attempts, watch, sweeper, flipster,
                   mirror, trade_log>>

\* Mutant: rows are matched against every entry ever seen.
UnmatchedNeverSeen ==
    {b \in Bases : (ws_size[b] # 0 \/ ws_margin[b])
                   /\ ~ \E p \in seen_entries : BaseOf[p] = b}

\* WS rows with no tracked position of their sign, or, when they only reserve
\* margin, with no tracked position on their symbol.
Unmatched ==
    {b \in Bases :
        \/ /\ ws_size[b] # 0
           /\ ~ \E p \in open_positions :
                   BaseOf[p] = b /\ Sign(p) = SignOf(ws_size[b])
        \/ /\ ws_size[b] = 0
           /\ ws_margin[b]
           /\ ~ \E p \in open_positions : BaseOf[p] = b}

\* sweep_abort_orphans: remember unmatched rows, and act on at most one of those
\* older than the threshold: close a position, or cancel the symbol's orders.
SweepAbortOrphans(old) ==
    /\ old \subseteq Unmatched \intersect unmatched_first_seen
    /\ \/ /\ old = {}
          /\ unmatched_first_seen' = Unmatched
          /\ UNCHANGED <<closes, cancels>>
       \/ \E b \in old :
          /\ unmatched_first_seen' = Unmatched \ {b}
          /\ IF ws_size[b] # 0
             THEN /\ closes' = closes \union {<<b, ws_size[b]>>}
                  /\ UNCHANGED cancels
             ELSE /\ cancels' = cancels \union
                                   {o \in ws_orders : BaseOfOrder(o) = b}
                  /\ UNCHANGED closes
    /\ UNCHANGED <<seen, tracker, entry, attempts, closer, watch, flipster,
                   mirror, gate, trade_log, faults>>

\* The spawned orphan close, sized and priced from the row that was read.
OrphanClose(c) ==
    /\ c \in closes
    /\ closes' = closes \ {c}
    /\ \/ /\ position' = [position EXCEPT ![c[1]] =
                Reduced(@, -SignOf(c[2]), Overshoot(AbsOf(c[2])))]
          /\ NoFault
       \/ UNCHANGED position /\ Fault
    /\ UNCHANGED <<seen, tracker, entry, attempts, closer, watch, cancels,
                   unmatched_first_seen, book, filled, mirror, gate, trade_log>>

\* Mutant: only entry orders are swept.
SweepStaleEntryOrder(o) ==
    /\ o \in ws_orders \ cancels
    /\ o[1] = "entry"
    /\ cancels' = cancels \union {o}
    /\ UNCHANGED <<seen, tracker, entry, attempts, closer, watch, closes,
                   unmatched_first_seen, flipster, mirror, gate, trade_log, faults>>

\* sweep_stale_orders: an order open in the mirror for too long is cancelled.
\* Its retry bookkeeping is the subject of module StaleOrders.
SweepStaleOrder(o) ==
    /\ o \in ws_orders \ cancels
    /\ cancels' = cancels \union {o}
    /\ UNCHANGED <<seen, tracker, entry, attempts, closer, watch, closes,
                   unmatched_first_seen, flipster, mirror, gate, trade_log,
                   faults>>

\* A spawned cancel task: residual of an entry, orphan order, stale order.
SpawnedCancel(o) ==
    /\ o \in cancels
    /\ cancels' = cancels \ {o}
    /\ \/ book' = [book EXCEPT ![o] = 0] /\ NoFault
       \/ UNCHANGED book /\ Fault
    /\ UNCHANGED <<seen, tracker, entry, attempts, closer, watch, closes,
                   unmatched_first_seen, position, filled, mirror, gate,
                   trade_log>>

-----------------------------------------------------------------------------
(* The venue and the mirror                                                *)

\* A resting entry order trades.
FillEntry(p) ==
    /\ \E q \in 1..book[EntryOrder(p)] :
          Execute(p, q, book[EntryOrder(p)] - q)
    /\ UNCHANGED <<seen, tracker, entry, attempts, closer, watch, sweeper,
                   mirror, gate, trade_log, faults>>

\* A resting maker exit trades; it is reduce-only.
FillExit(p) ==
    /\ position[BaseOf[p]] * Sign(p) > 0
    /\ \E q \in 1..book[ExitOrder(p)] :
          /\ q <= AbsOf(position[BaseOf[p]])
          /\ position' = [position EXCEPT ![BaseOf[p]] = @ - Sign(p) * q]
          /\ book' = [book EXCEPT ![ExitOrder(p)] = @ - q]
    /\ UNCHANGED <<seen, tracker, entry, attempts, closer, watch, sweeper,
                   filled, mirror, gate, trade_log, faults>>

\* apply_position_update: margin may be broadcast before the size, and a row
\* without margin is dropped.
WsMargin(b) ==
    /\ ws_margin' = [ws_margin EXCEPT ![b] = Margin(b)]
    /\ ws_size' = [ws_size EXCEPT ![b] = IF Margin(b) THEN @ ELSE 0]
    /\ UNCHANGED <<seen, tracker, entry, attempts, closer, watch, sweeper,
                   flipster, ws_orders, gate, trade_log, faults>>

WsSize(b) ==
    /\ ws_margin[b] /\ Margin(b)
    /\ ws_size' = [ws_size EXCEPT ![b] = position[b]]
    /\ UNCHANGED <<seen, tracker, entry, attempts, closer, watch, sweeper,
                   flipster, ws_margin, ws_orders, gate, trade_log, faults>>

\* apply_order_update
WsOrder(o) ==
    /\ ws_orders' = IF book[o] > 0 THEN ws_orders \union {o} ELSE ws_orders \ {o}
    /\ UNCHANGED <<seen, tracker, entry, attempts, closer, watch, sweeper,
                   flipster, ws_size, ws_margin, gate, trade_log, faults>>

CloserTask(p) ==
    \/ ExitCancel(p) \/ ExitCheck(p) \/ ExitClose(p) \/ ExitGate(p)
    \/ ExitLog(p) \/ ForceCancel(p) \/ ForceClose(p) \/ ForceGate(p)

Next ==
    /\ UNCHANGED flipster_only
    /\ \/ \E p \in Pos :
             \/ HandleEntry(p) \/ HandleExit(p)
             \/ EntryTask(p) \/ CloserTask(p)
             \/ WatchLeak(p) \/ WatchClean(p) \/ WatchClose(p)
             \/ SweepStalePosition(p)
             \/ FillEntry(p) \/ FillExit(p)
       \/ \E old \in SUBSET unmatched_first_seen : SweepAbortOrphans(old)
       \/ \E c \in closes : OrphanClose(c)
       \/ \E o \in Orders : SweepStaleOrder(o) \/ SpawnedCancel(o) \/ WsOrder(o)
       \/ \E b \in Bases : WsMargin(b) \/ WsSize(b)

Spec == Init /\ [][Next]_allvars

\* tokio runs every spawned task; the sweeper task ticks every 500 ms for the life
\* of the process; the venue keeps the WS connection fed.  Signals, fills of
\* resting orders and failures carry no fairness.
Fairness ==
    /\ \A p \in Pos :
          /\ WF_vars(EntryTask(p))
          /\ WF_vars(CloserTask(p))
          /\ WF_vars(WatchLeak(p) \/ WatchClean(p) \/ WatchClose(p))
          /\ WF_vars(SweepStalePosition(p))
    /\ \A o \in Orders :
          /\ WF_vars(SweepStaleOrder(o))
          /\ WF_vars(SpawnedCancel(o))
          /\ WF_vars(WsOrder(o))
    /\ \A b \in Bases : WF_vars(WsMargin(b)) /\ WF_vars(WsSize(b))
    /\ WF_vars(SweepAbortOrphans({}))
    /\ WF_vars(\E old \in SUBSET unmatched_first_seen :
                  old # {} /\ SweepAbortOrphans(old))
    /\ WF_vars(\E c \in closes : OrphanClose(c))

FairSpec == Spec /\ Fairness

-----------------------------------------------------------------------------
(* Properties                                                              *)

\* Fields and program counters stay in their types.
TypeOK ==
    /\ flipster_only \in Modes
    /\ seen_entries \subseteq Pos /\ seen_exits \subseteq Pos
    /\ open_positions \subseteq Pos
    /\ exit_order_id \in [Pos -> BOOLEAN]
    /\ entry \in [Pos -> EntryPC]
    /\ attempts \in [Pos -> 0..MaxAttempts]
    /\ closer \in [Pos -> CloserPC]
    /\ watcher \in [Pos -> WatcherPC]
    /\ leaked \in [Pos -> Int]
    /\ cancels \subseteq Orders
    /\ closes \subseteq Bases \X Int
    /\ unmatched_first_seen \subseteq Bases
    /\ position \in [Bases -> Int]
    /\ book \in [Orders -> 0..Size]
    /\ ws_size \in [Bases -> Int]
    /\ ws_margin \in [Bases -> BOOLEAN]
    /\ ws_orders \subseteq Orders
    /\ gate_position \in [Bases -> Int]
    /\ gate_leg \in [Pos -> 0..Size]
    /\ trade_log \in [Pos -> Nat]
    /\ filled \in [Pos -> Nat]
    /\ gate_fault \subseteq Pos
    /\ faults \in 0..MaxFaults

\* A tracked position has finished its entry and nobody is closing it: the exit
\* task and the stale-position sweeper, which race for it, never both get it.
OneCloser ==
    \A p \in open_positions : entry[p] = "done" /\ closer[p] = "idle"

\* However signals repeat and tasks interleave, a position enters the trade
\* record at most once, as an exit or as a safety revert.
BookedOnce ==
    \A p \in Pos : trade_log[p] <= 1

\* A Gate leg always has someone who will close it - the tracker, the entry task
\* about to track it, or a close task that has not reached it - unless a Gate
\* call for that position went wrong.
GateLegHasOwner ==
    \A p \in Pos : gate_leg[p] > 0 =>
        \/ p \in gate_fault
        \/ p \in open_positions
        \/ entry[p] = "track"
        \/ closer[p] \in {"cancel", "check", "close", "gate",
                          "fcancel", "fclose", "fgate"}

\* A close never becomes a position of the opposite side: where every signal of a
\* base is long, the account is never short, although exits, reverts, the
\* watcher, the sweepers and a resting maker exit all close 1.5 times the size
\* without knowing of each other; and conversely.
NeverFlips ==
    \A b \in Bases :
        /\ (\A p \in Pos : BaseOf[p] = b => p \in Long) => position[b] >= 0
        /\ (\A p \in Pos : BaseOf[p] = b => p \notin Long) => position[b] <= 0

\* Once signals and failures stop, the sweepers and tasks leave the Flipster
\* account flat: lost exits, exits that overtake their entry, fills that arrive
\* after an abort, failed closes and misread maker exits are all recovered.
EventuallyFlat ==
    <>[](\A b \in Bases : position[b] = 0)

\* No order of the executor rests on the book for ever.
OrdersEventuallyGone ==
    <>[](\A o \in Orders : book[o] = 0)

-----------------------------------------------------------------------------
(* What the code's comments and documents say, and the code does not do    *)

\* executor.rs: "Match Flipster notional to Gate's discrete contract notional so
\* the hedge ratio is 1:1."
HedgeRatioOne ==
    \A p \in open_positions : ~flipster_only => filled[p] = gate_leg[p]

=============================================================================
