------------------------------ MODULE PaperBook ------------------------------
(***************************************************************************)
(* collector/src/strategies.rs: one variant's paper book with its three    *)
(* strategies.  Latency follows a move of the hedge venue, pairs bets on   *)
(* the gap between Flipster and the hedge venue returning to its mean,     *)
(* funding holds over a settlement.  They share the list of positions, its *)
(* cap, and the statistics their closes leave; pairs alone tells the       *)
(* coordinator.                                                            *)
(*                                                                         *)
(* The tick loop, the sweeper and the funding scan take the book's lock.   *)
(* The book's clock, sim_now, is the latest timestamp of any tick; times   *)
(* are kept as ages and countdowns on it.  Prices are mids in basis points *)
(* of one reference.  What the filters on spread, cost, snapshots and the  *)
(* move of the last second make of the market is an input.                 *)
(***************************************************************************)
EXTENDS Integers, Sequences, FiniteSets, SequencesExt

CONSTANTS Bases, Prices,
          MaxAge,           \* max_mid_age_ms
          Delays,           \* how far a tick's time may be behind sim_now
          MaxConcurrent,    \* max_concurrent_positions
          EntryBp, ExitBp, Fee,
          MaxHold, MinHold, Latency, LatencyHold, FundingHold,
          PairsCooldown, LatencyCooldown,
          MinSamples,       \* kelly_min_samples
          BlackTrades, BlackFor,        \* auto-blacklist, 0 trades for off
          Strategies,       \* those that are running
          MaxPosId          \* bound

ConstantsOK ==
    /\ Prices \subseteq Nat \ {0} /\ Delays \subseteq 0..MaxAge
    /\ {EntryBp, MaxHold} \subseteq Nat \ {0} /\ ExitBp \in 0..EntryBp
    /\ MinHold \in 0..MaxHold
    /\ {MaxAge, MaxConcurrent, Fee, Latency, LatencyHold, FundingHold, PairsCooldown,
        LatencyCooldown, MinSamples, BlackTrades, BlackFor, MaxPosId} \subseteq Nat
    /\ Strategies \subseteq {"latency", "pairs", "funding"}

VARIABLES
    mids,       \* [Bases -> [Venues -> the quote, [mid, age], or None]]
    positions,  \* OpenPosition records
    cooldowns,  \* [{"latency", "pairs"} -> [Bases -> ticks left]]
    stats,      \* [Bases -> [n, sum]]: symbol_stats
    blacklist,  \* [Bases -> ticks left]: auto_blacklist_until
    closing,    \* the sweeper's to_close: [pos, pnl, booked], in order
    swept,      \* the sweeper ran since the clock moved
    next_id, entered, exits     \* ids taken; signals of the pairs strategy (history)

book == <<mids, positions, cooldowns, stats, blacklist>>
signals == <<next_id, entered, exits>>
vars == <<book, closing, swept, signals>>

None == [none |-> TRUE]
Venues == {"flipster", "hedge"}
Ids == 1..MaxPosId

\* Ages are counted up to Latest: so old a quote is fresh to no tick.
Latest == 2 * MaxAge + 1

Init ==
    /\ mids = [b \in Bases |-> [v \in Venues |-> None]]
    /\ positions = {}
    /\ cooldowns = [s \in {"latency", "pairs"} |-> [b \in Bases |-> 0]]
    /\ stats = [b \in Bases |-> [n |-> 0, sum |-> 0]]
    /\ blacklist = [b \in Bases |-> 0]
    /\ closing = <<>> /\ swept = TRUE
    /\ next_id = 1 /\ entered = {} /\ exits = [i \in Ids |-> 0]

-----------------------------------------------------------------------------
(* The clock                                                               *)

Down(x) == IF x > 0 THEN x - 1 ELSE 0
Older(q) == IF q = None THEN None ELSE [q EXCEPT !.age = IF @ < Latest THEN @ + 1 ELSE @]

\* A tick of some market moves sim_now.  Assumed: the sweeper, every 100 ms, runs
\* between two steps of the clock, and its writes have ended.
Clock ==
    /\ swept /\ closing = <<>>
    /\ swept' = FALSE
    /\ mids' = [b \in Bases |-> [v \in Venues |-> Older(mids[b][v])]]
    /\ positions' = {[p EXCEPT !.held = @ + 1, !.left = @ - 1,
                               !.fill_in = Down(@), !.exit_in = Down(@)] : p \in positions}
    /\ cooldowns' = [s \in DOMAIN cooldowns |-> [b \in Bases |-> Down(cooldowns[s][b])]]
    /\ blacklist' = [b \in Bases |-> Down(blacklist[b])]
    /\ UNCHANGED <<stats, closing, signals>>

-----------------------------------------------------------------------------
(* Entries                                                                 *)

Fresh(q, d) == q # None /\ q.age - d <= MaxAge
OpenOn(s, b) == {p \in positions : p.strat = s /\ p.base = b}

\* "capital cap", over all strategies, and one position per strategy and base.
Room(s, b) == Cardinality(positions) < MaxConcurrent /\ OpenOn(s, b) = {}

\* A new position: `hold` until its hard timeout, pairs with a pending fill.
Position(s, b, side, f, h, mean, hold, d) ==
    [id |-> next_id, strat |-> s, base |-> b, side |-> side, f |-> f, h |-> h,
     mean |-> mean, stop |-> 4 * EntryBp, held |-> d, left |-> hold - d,
     pending |-> s = "pairs" /\ Latency > 0,
     fill_in |-> IF s = "pairs" THEN Down(Latency - d) ELSE 0,
     leaving |-> FALSE, exit_in |-> 0]

Open(s, b, side, mean, hold, d) ==
    /\ next_id <= MaxPosId
    /\ positions' = positions \union
          {Position(s, b, side, mids'[b].flipster.mid, mids'[b].hedge.mid, mean, hold, d)}
    /\ next_id' = next_id + 1

\* Follow a move of the hedge venue, on Flipster.  Binance's own age is not looked
\* at: the tick in hand is Binance's.
TryEnterLatency(b, d) ==
    /\ "latency" \in Strategies
    /\ cooldowns["latency"][b] - d <= 0
    /\ Room("latency", b)
    /\ Fresh(mids'[b].flipster, d)
    /\ \E side \in {-1, 1} : Open("latency", b, side, 0, LatencyHold, d)
    /\ cooldowns' = [cooldowns EXCEPT !["latency"][b] = Down(LatencyCooldown - d)]
    /\ UNCHANGED <<entered>>

\* kelly_size_usd is 0 once enough trades were closed at no profit on average.
KellySkips(b) == stats[b].n >= MinSamples /\ stats[b].sum <= 0

\* Bet on the gap returning to its mean (0 here): state, cooldown and the entry
\* signal, with no await in between.
TryEnterPairs(b, d) ==
    LET gap == mids'[b].flipster.mid - mids'[b].hedge.mid IN
    /\ "pairs" \in Strategies
    /\ blacklist[b] - d <= 0 /\ cooldowns["pairs"][b] - d <= 0
    /\ Room("pairs", b)
    /\ Fresh(mids'[b].flipster, d) /\ Fresh(mids'[b].hedge, d)
    /\ gap >= EntryBp \/ -gap >= EntryBp
    /\ ~KellySkips(b)
    /\ Open("pairs", b, IF gap > 0 THEN -1 ELSE 1, 0, MaxHold, d)
    /\ entered' = entered \union {next_id}
    /\ cooldowns' = [cooldowns EXCEPT !["pairs"][b] = Down(PairsCooldown - d)]

\* A tick updates the quote; a tick of the hedge venue may open a latency position,
\* one of Flipster a pairs position.  Filters may refuse either.
OnTick(b, v, mid, d) ==
    /\ mids' = [mids EXCEPT ![b][v] = [mid |-> mid, age |-> d]]
    /\ \/ /\ UNCHANGED <<positions, next_id, entered, cooldowns>>
       \/ v = "hedge" /\ mids[b].flipster # None /\ TryEnterLatency(b, d)
       \/ v = "flipster" /\ mids[b].hedge # None /\ TryEnterPairs(b, d)
    /\ UNCHANGED <<stats, blacklist, closing, swept, exits>>

\* The funding scan, on the rates of the two venues, asks for quotes of any age.
FundingScan(b) ==
    /\ "funding" \in Strategies
    /\ Room("funding", b)
    /\ mids[b].flipster # None /\ mids[b].hedge # None
    /\ UNCHANGED <<mids, cooldowns, stats, blacklist, closing, swept, entered, exits>>
    /\ \E side \in {-1, 1} : Open("funding", b, side, 0, FundingHold, 0)

-----------------------------------------------------------------------------
(* sweep_exits                                                             *)

BothFresh(b) == \A v \in Venues : Fresh(mids[b][v], 0)
Gap(b) == mids[b].flipster.mid - mids[b].hedge.mid

\* Phase 1: a pending entry whose time has come takes the prices of now; without
\* fresh ones it is abandoned.
FillDue(p) == p.pending /\ p.fill_in = 0
Filled(p) ==
    IF FillDue(p)
    THEN [p EXCEPT !.f = mids[p.base].flipster.mid, !.h = mids[p.base].hedge.mid,
                   !.held = 0, !.pending = FALSE]
    ELSE p

NetPnl(p) == p.side * ((mids[p.base].flipster.mid - p.f) - (mids[p.base].hedge.mid - p.h)) - Fee

\* Phase 3, pairs: the hard timeout wins, no other exit before the minimum hold.
Stopped(p) == LET dev == Gap(p.base) - p.mean
              IN -dev * p.side >= p.stop
Converged(p) == LET dev == Gap(p.base) - p.mean IN dev < ExitBp /\ -dev < ExitBp

ShouldExit(p) ==
    \/ p.left <= 0
    \/ p.strat = "pairs" /\ p.held >= MinHold /\ (Stopped(p) \/ Converged(p))

\* The fate of a position in one sweep.
Abandoned == {p \in positions : FillDue(p) /\ ~BothFresh(p.base)}
Live == {Filled(p) : p \in positions \ Abandoned}
Waiting == {p \in Live : p.pending \/ (p.leaving /\ p.exit_in > 0)}
Leaving == {p \in Live : ~p.pending /\ ~p.leaving /\ ShouldExit(p)}
Scheduled == {p \in Leaving : p.strat = "pairs" /\ Latency > 0}
Due == {p \in Live : p.leaving /\ p.exit_in = 0} \union (Leaving \ Scheduled)

\* What closes without a fresh quote is dropped as well.
Writable == {p \in Due : BothFresh(p.base)}

Remain ==
    (Live \ (Due \union Scheduled))
        \union {[p EXCEPT !.leaving = TRUE, !.exit_in = Latency] : p \in Scheduled}

\* Under the lock: every position is judged on one snapshot of the quotes.
SweepExits ==
    /\ ~swept /\ closing = <<>>
    /\ swept' = TRUE
    /\ positions' = Remain
    /\ closing' = SetToSeq({[id |-> p.id, base |-> p.base, pairs |-> p.strat = "pairs",
                             pnl |-> NetPnl(p), booked |-> FALSE] : p \in Writable})
    /\ UNCHANGED <<mids, cooldowns, stats, blacklist, signals>>

\* A close goes into the statistics, under the lock again; a symbol that lost on
\* average is silenced and starts over.
Book ==
    /\ closing # <<>> /\ ~Head(closing).booked
    /\ LET c == Head(closing)
           s == [n |-> stats[c.base].n + 1, sum |-> stats[c.base].sum + c.pnl]
           black == BlackTrades > 0 /\ s.n >= BlackTrades /\ s.sum < 0
       IN /\ stats' = [stats EXCEPT ![c.base] = IF black THEN [n |-> 0, sum |-> 0] ELSE s]
          /\ blacklist' = IF black THEN [blacklist EXCEPT ![c.base] = BlackFor] ELSE blacklist
    /\ closing' = [closing EXCEPT ![1].booked = TRUE]
    /\ UNCHANGED <<mids, positions, cooldowns, swept, signals>>

\* After the position row is written, a pairs exit is signalled.
SendExit ==
    /\ closing # <<>> /\ Head(closing).booked
    /\ exits' = IF Head(closing).pairs THEN [exits EXCEPT ![Head(closing).id] = @ + 1]
                ELSE exits
    /\ closing' = Tail(closing)
    /\ UNCHANGED <<book, swept, next_id, entered>>

Next ==
    \/ Clock \/ SweepExits \/ Book \/ SendExit
    \/ \E b \in Bases :
          \/ FundingScan(b)
          \/ \E v \in Venues, mid \in Prices, d \in Delays : OnTick(b, v, mid, d)

Spec == Init /\ [][Next]_vars

-----------------------------------------------------------------------------
(* Properties                                                              *)

InClosing == {closing[i].id : i \in 1..Len(closing)}
PosOf(i) == CHOOSE p \in positions : p.id = i

\* Variables keep their types.
TypeOK ==
    /\ \A b \in Bases, v \in Venues :
          mids[b][v] \in {None} \union [mid : Prices, age : 0..Latest]
    /\ \A p \in positions : p.id \in Ids /\ p.base \in Bases /\ p.strat \in Strategies
    /\ \A b \in Bases : stats[b].n \in Nat /\ stats[b].sum \in Int
    /\ closing \in Seq([id : Ids, base : Bases, pairs : BOOLEAN, pnl : Int, booked : BOOLEAN])
    /\ next_id \in 1..(MaxPosId + 1) /\ entered \subseteq Ids

\* The cap counts the positions of all strategies, pending and leaving ones too, and
\* a strategy holds one position per base, whatever the sweeper takes out meanwhile.
CapAndOnePerBase ==
    /\ Cardinality(positions) <= MaxConcurrent
    /\ \A p, q \in positions : p.strat = q.strat /\ p.base = q.base => p = q
    /\ InClosing \intersect {p.id : p \in positions} = {}

\* "Hard timeout still wins to bound risk": nothing outlives its hard timeout by more
\* than the paper latency and a sweep, neither in its minimum hold nor pending.
RiskBounded == \A p \in positions : p.left >= -(Latency + 1)

\* The signals of the pairs strategy: ids of their own, an exit once, after it.
Ledger == INSTANCE PaperLedger
=============================================================================
