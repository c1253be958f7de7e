---------------------------- MODULE MCCollector ----------------------------
(***************************************************************************)
(* From a paper entry to a routed signal.  A behaviour runs one component  *)
(* of the collector, named by focus, while the others stay at their start: *)
(*   stats    the learning filter of a symbol with two callers             *)
(*            (SymbolStats)                                                *)
(*   route    the coordinator around it, one caller routing its signals    *)
(*            one at a time.  Only losses are recorded: they alone make    *)
(*            the statistics skip, cool down and probe (Coordinator)       *)
(*   spread   one base with stacking, all exits, a baseline that vanishes   *)
(*            (SpreadRevert)                                               *)
(*   caps     two bases at the limits of open positions, whose baselines   *)
(*            and quotes stay (SpreadRevert)                               *)
(*   live     one position traded on Hyperliquid with the account cache,   *)
(*            a baseline that vanishes, quotes that stay (HlSpreadRevert)  *)
(*   legs     two positions, no cache, no losses, a baseline and quotes    *)
(*            that stay (HlSpreadRevert)                                   *)
(*   paper    three strategies on one book, two positions (PaperBook)      *)
(*   book     the same with room for one position (PaperBook)              *)
(***************************************************************************)
EXTENDS Coordinator

CONSTANTS b1, b2

VARIABLES focus,
    quote, baselines, open, s_cooldown, tick, closing, next_id, entered, exits, dropped, vanished,
    mids, positions, cooldowns, symbol_stats, blacklist, p_closing, swept, p_next_id,
    p_entered, p_exits,
    leg, entering, leaving, pending, loss, busy, look, real, resting, lost

spread == <<quote, baselines, open, s_cooldown, tick, closing, next_id, entered, exits,
            dropped, vanished>>
paper == <<mids, positions, cooldowns, symbol_stats, blacklist, p_closing, swept,
           p_next_id, p_entered, p_exits>>
live == <<leg, entering, leaving, pending, loss, busy, look, real, resting, lost>>

ThreeTrades ==
    {[pnl |-> 6, paper |-> 6, slip |-> 1],
     [pnl |-> -8, paper |-> 6, slip |-> 6],
     [pnl |-> 6, paper |-> -3, slip |-> 4]}

Loss == -2
OneDown == -1

OneCaller == CHOOSE c \in Callers : TRUE
Others == Callers \ {OneCaller}

OneBaseline == {[gap |-> 0, cost |-> 0]}

Spread == INSTANCE SpreadRevert WITH
    cooldown <- s_cooldown,
    Bases <- {b1}, Prices <- {1, 2, 4}, Baselines <- OneBaseline,
    MaxOpenPositions <- 2, MaxPositionsPerBase <- 2, StopBp <- 1, MaxHold <- 2,
    MinHold <- 0, Cooldown <- 1, MaxPosId <- 2

Caps == INSTANCE SpreadRevert WITH
    cooldown <- s_cooldown,
    Bases <- {b1, b2}, Prices <- {1, 3}, Baselines <- OneBaseline,
    MaxOpenPositions <- 1, MaxPositionsPerBase <- 1, StopBp <- 1, MaxHold <- 1,
    MinHold <- 1, Cooldown <- 0, MaxPosId <- 2

Live == INSTANCE HlSpreadRevert WITH
    cooldown <- s_cooldown,
    Bases <- {b1}, Prices <- {1, 3}, Baselines <- OneBaseline,
    MaxOpenPositions <- 1, MaxPositionsPerBase <- 1, StopBp <- 1, MaxHold <- 1,
    MinHold <- 0, Cooldown <- 0, MaxPosId <- 2,
    Guarded <- TRUE, LossCap <- 1

Legs == INSTANCE HlSpreadRevert WITH
    cooldown <- s_cooldown,
    Bases <- {b1}, Prices <- {1, 3}, Baselines <- OneBaseline,
    MaxOpenPositions <- 2, MaxPositionsPerBase <- 1, StopBp <- 1, MaxHold <- 1,
    MinHold <- 0, Cooldown <- 0, MaxPosId <- 2,
    Guarded <- FALSE, LossCap <- 1

Paper == INSTANCE PaperBook WITH
    stats <- symbol_stats,
    closing <- p_closing, next_id <- p_next_id, entered <- p_entered, exits <- p_exits,
    Bases <- {b1}, Prices <- {1, 3}, Delays <- {0}, MaxAge <- 0,
    MaxConcurrent <- 2, EntryBp <- 1, ExitBp <- 1, Fee <- 1, MaxHold <- 2, MinHold <- 1,
    Latency <- 1, LatencyHold <- 1, FundingHold <- 1, PairsCooldown <- 1,
    LatencyCooldown <- 1, MinSamples <- 2, BlackTrades <- 1, BlackFor <- 1,
    Strategies <- {"latency", "pairs", "funding"}, MaxPosId <- 2

Book == INSTANCE PaperBook WITH
    stats <- symbol_stats,
    closing <- p_closing, next_id <- p_next_id, entered <- p_entered, exits <- p_exits,
    Bases <- {b1}, Prices <- {1, 3}, Delays <- {0}, MaxAge <- 0,
    MaxConcurrent <- 1, EntryBp <- 1, ExitBp <- 1, Fee <- 1, MaxHold <- 2, MinHold <- 1,
    Latency <- 1, LatencyHold <- 1, FundingHold <- 1, PairsCooldown <- 1,
    LatencyCooldown <- 1, MinSamples <- 2, BlackTrades <- 1, BlackFor <- 1,
    Strategies <- {"latency", "pairs", "funding"}, MaxPosId <- 2

\* Quotes stay fresh once they are there.
StayFresh ==
    \A b \in DOMAIN quote, v \in {"binance", "flipster"} : quote[b][v] # 0 => quote'[b][v] # 0

ASSUME MCCollectorAssumption ==
    /\ Spread!ConstantsOK /\ Caps!ConstantsOK /\ Live!HlConstantsOK /\ Legs!HlConstantsOK
    /\ Paper!ConstantsOK /\ Book!ConstantsOK

CollectorInit ==
    /\ focus \in {"stats", "route", "spread", "caps", "live", "legs", "paper", "book"}
    /\ CoInit
    /\ CASE focus = "caps" -> Caps!Init /\ Legs!LiveInit
         [] focus = "live" -> Live!HInit
         [] OTHER -> Legs!HInit
    /\ Paper!Init

CollectorNext ==
    /\ UNCHANGED focus
    /\ \/ focus = "stats" /\ Next /\ UNCHANGED <<co, spread, live, paper>>
       \/ focus = "route" /\ CoNext /\ UNCHANGED <<spread, live, paper>>
          /\ \A c \in Others : stage'[c] = "idle" /\ pc'[c] = "idle"
          /\ \A i \in DOMAIN recent' : recent'[i].pnl < 0
       \/ focus = "spread" /\ Spread!Next /\ UNCHANGED <<covars, live, paper>>
       \/ focus = "caps" /\ Caps!Next /\ UNCHANGED <<covars, live, paper>>
          /\ vanished' = {} /\ StayFresh
       \/ focus = "live" /\ Live!HNext /\ UNCHANGED <<covars, paper>>
          /\ next_id' <= 2 /\ StayFresh
       \/ focus = "legs" /\ Legs!HNext /\ UNCHANGED <<covars, paper>>
          /\ loss' = 0 /\ vanished' = {} /\ StayFresh
       \/ focus = "paper" /\ Paper!Next /\ UNCHANGED <<covars, spread, live>>
       \/ focus = "book" /\ Book!Next /\ UNCHANGED <<covars, spread, live>>

CollectorSpec == CollectorInit /\ [][CollectorNext]_<<focus, covars, spread, live, paper>>

\* All variables keep their types.
TypesOK ==
    /\ focus \in {"stats", "route"} => CoTypeOK
    /\ focus = "spread" => Spread!TypeOK
    /\ focus = "caps" => Caps!TypeOK
    /\ focus \in {"paper", "book"} => Paper!TypeOK
    /\ focus = "live" => Live!HTypeOK
    /\ focus = "legs" => Legs!HTypeOK

\* SymbolStats with signals often enough to find the symbol in its cooldown: it is
\* tried again and again, and good trades end every skipping.
StatsRecover ==
    (focus = "stats" /\ Fairness /\ Frequent) => (NeverDisabledForGood /\ Recovers)

\* The limits on open positions hold: of SpreadRevert, globally and per base; of
\* PaperBook, over all strategies, and no position outlives its deadline.
LimitsHold ==
    /\ focus = "spread" => Spread!CapsHold
    /\ focus = "caps" => Caps!CapsHold
    /\ focus = "legs" => Legs!CapsHold
    /\ focus = "paper" => Paper!CapAndOnePerBase /\ Paper!RiskBounded
    /\ focus = "book" => Book!CapAndOnePerBase /\ Book!RiskBounded

\* SpreadRevert: one exit of a position, after its entry, dropped in silence only when
\* its base vanished from the baselines, and the positions of a base point one way.
\* Traded on Hyperliquid: a position that nobody attends to any more is left only where
\* an accident left it.
ExitsExact ==
    /\ focus = "spread" =>
          Spread!ExitOnce /\ Spread!OneSidePerBase /\ Spread!NoSilentClose
    /\ focus = "live" => Live!ExitOnce /\ Live!NoSilentLive
    /\ focus = "legs" => Legs!ExitOnce /\ Legs!NoSilentLive

\* The signals of SpreadRevert and of the pairs strategy of PaperBook implement the
\* ledger; under the fairness of SpreadRevert every exit is signalled in the end, unless
\* a tick without a baseline dropped it.
ImplementsLedger ==
    /\ Spread!Ledger!Spec
    /\ Paper!Ledger!Spec
    /\ (focus = "spread" /\ Spread!Fairness) => Spread!ExitsOwed
=============================================================================
