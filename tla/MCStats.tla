------------------------------ MODULE MCStats ------------------------------
(***************************************************************************)
(* What the executor and the collector keep about orders and trades: the   *)
(* bookkeeping of stale orders (StaleOrders), the way of a fill report     *)
(* into the statistics (LiveStats) and the statistics on disk (StatsFile). *)
(*                                                                         *)
(* They share no state, so a behaviour runs one of them, named by focus,   *)
(* while the others stay at their start: the check explores the sum of     *)
(* their state spaces, not the product.                                    *)
(***************************************************************************)
EXTENDS Integers, Sequences, FiniteSets

CONSTANTS OrderIds, MaxRetries, MaxTasks,                   \* StaleOrders
          Positions, Capacity, MaxPending, MaxRestarts,     \* LiveStats
          MaxTrades, MaxCrashes, MaxWriteFaults             \* StatsFile

TwoAndOne == {<<"a1", 1>>, <<"a1", 2>>, <<"a2", 1>>}

VARIABLES focus,
          resting, gone, ws_open, ws_copy, sweeping, order_first_seen,
          cancel_failure_count, abandoned_orders, cancelling, giving_up, sent,
          stage, channel, pending, trades, missed, silent, restarts,
          file, tmp, mem, pc, snapshot, saved, crashes, write_faults

Stale == INSTANCE StaleOrders WITH Orders <- OrderIds, ws_orders <- ws_copy
Live == INSTANCE LiveStats
Disk == INSTANCE StatsFile WITH MaxFaults <- MaxWriteFaults, faults <- write_faults

ASSUME MCStatsAssumption ==
    Stale!ConstantsOK /\ Live!ConstantsOK /\ Disk!ConstantsOK

orderVars == <<resting, gone, ws_open, ws_copy, sweeping, order_first_seen,
    cancel_failure_count, abandoned_orders, cancelling, giving_up, sent>>
liveVars == <<stage, channel, pending, trades, missed, silent, restarts>>
diskVars == <<file, tmp, mem, pc, snapshot, saved, crashes, write_faults>>
statsVars == <<focus, orderVars, liveVars, diskVars>>

StatsInit ==
    /\ focus \in {"orders", "fills", "disk"}
    /\ Stale!Init /\ Live!Init /\ Disk!Init

StatsNext ==
    /\ UNCHANGED focus
    /\ \/ focus = "orders" /\ Stale!Next /\ UNCHANGED <<liveVars, diskVars>>
       \/ focus = "fills" /\ Live!Next /\ UNCHANGED <<orderVars, diskVars>>
       \/ focus = "disk" /\ Disk!Next /\ UNCHANGED <<orderVars, liveVars>>

StatsSpec == StatsInit /\ [][StatsNext]_statsVars

\* All variables keep their types.
TypesOK ==
    /\ focus = "orders" => Stale!TypeOK
    /\ focus = "fills" => Live!TypeOK
    /\ focus = "disk" => Disk!TypeOK

\* LiveStats: pairs are of one position of one account, none is counted twice.
TradesPaired == focus = "fills" => Live!TradesPaired

\* LiveStats: a pending entry waits for something or was lost or force-closed.
NoForgottenEntry == focus = "fills" => Live!NoForgottenEntry

\* LiveStats, under its fairness: a close that lost no report is learned from.
ClosedIsLearned == (focus = "fills" /\ Live!Fairness) => Live!ClosedIsLearned

\* StatsFile: what was saved once is never lost or torn again, and no save goes
\* backwards.
SavedSurvives == focus = "disk" => Disk!SavedSurvives /\ Disk!MemoryAhead

\* StatsFile, under its fairness: what was learned is saved unless the process dies.
EventuallySaved == (focus = "disk" /\ Disk!Fairness) => Disk!EventuallySaved

\* StaleOrders: however slowly the calls fail and however they overlap with sweeps, a
\* stuck order costs MaxRetries cancels and at most MaxTasks more.
RetriesBounded == focus = "orders" => Stale!RetriesBounded

\* StaleOrders, under its fairness: no order shown as open is passed over for ever,
\* and nothing is left in the maps of an order that is gone.
OrdersHandled ==
    (focus = "orders" /\ Stale!Fairness) =>
        (Stale!NoOrderStarves /\ Stale!BookkeepingEnds)
=============================================================================
