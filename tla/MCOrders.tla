------------------------------- MODULE MCOrders -------------------------------
(***************************************************************************)
(* An order of flipster_rust from the books (DataCache) to the exchange:   *)
(* what to do (OrderDecision), whether it may be done (HandleChance), how  *)
(* it leaves the program (OrderClient), and the parked orders of the       *)
(* WebSocket strategy (AmendBook).  A behaviour runs one of them, named by *)
(* focus, while the others stay at their start:                            *)
(*   chance   the approval of orders that are seen late                    *)
(*   cache    the books of one symbol                                      *)
(*   decide   the decision of every strategy                               *)
(*   amend    the parked orders                                            *)
(*   client   the limiters and the targets, and Flipster's own orders      *)
(***************************************************************************)
EXTENDS Integers, Sequences, FiniteSets

CONSTANTS
    Symbols, Strategies, ChanceLevels, Records, ChanceSizes, OrderSize, CloseSize,
    MaxPosition, TimeGaps, ManyGap, RateWindow, RecentCap, ChannelCap,
    Lag,                                                      \* of HandleChance
    Feeds, Loops, Interval, MaxAge, MaxSamples, MaxTime, MaxWall,  \* of DataCache
    Deciders, Flipster, Webs, Bases, MeanGaps, BookSizes, Hindrances, MaxMirrored,
    StaleAfter, Milli, Start, LastSecond,                     \* of OrderDecision
    MaxOrders, AmendSizes, Large, MaxChances, MaxLosses, MaxFills,
    WireCap,                                                  \* of AmendBook
    Modes, Logins, CallSizes, PerSec, Per5Sec, HalfHour, MaxCount, TierSize,
    MaxCount2, TierSize2, TrimEvery, Kept, Targets, MaxTicks, MaxCalls,
    MaxResting                                                \* of OrderClient

\* Values the configuration cannot write.
WebBooks == {[bid |-> -4, ask |-> -3], [bid |-> -6, ask |-> -1],
             [bid |-> -2, ask |-> 2], [bid |-> 3, ask |-> 4]}
Middles == {99, 0, -4}
Averaged == {-5, 5}
TwoFeeds == {<<"gate", 1>>, <<"web", 1>>}
FlagSets == {{}, {"dangerous"}, {"restrained"}, {"late"}, {"dangerous", "restrained"},
             {"market_close", "dangerous"}}

VARIABLES focus,
    version, evaluated, last, recent, channel, position, real, queue, news, opened,
    k_book, k_feed, k_loop, k_history, k_wall, d_version, d_now, d_position,
    d_update_time, d_seen, d_decision, a_book, a_opened, a_mirror, a_link, a_wire,
    a_news, a_snap, a_step, a_chances, a_losses, a_fills, c_mode, c_now, c_bucket,
    c_window, c_call, c_calls, c_resting, c_sent

chance == <<version, evaluated, last, recent, channel, position, real, queue, news,
    opened>>
cache == <<k_book, k_feed, k_loop, k_history, k_wall>>
decide == <<d_version, d_now, d_position, d_update_time, d_seen, d_decision>>
amend == <<a_book, a_opened, a_mirror, a_link, a_wire, a_news, a_snap, a_step,
    a_chances, a_losses, a_fills>>
client == <<c_mode, c_now, c_bucket, c_window, c_call, c_calls, c_resting, c_sent>>

Chance == INSTANCE HandleChance WITH
    Versions <- Strategies, Levels <- ChanceLevels, Gaps <- TimeGaps, Window <-
    RateWindow

Cache == INSTANCE DataCache WITH
    book <- k_book, feed <- k_feed, loop <- k_loop, history <- k_history, wall <-
    k_wall

Decision == INSTANCE OrderDecision WITH
    version <- d_version, now <- d_now, position <- d_position, update_time <-
    d_update_time, seen <- d_seen, decision <- d_decision, Versions <- Deciders,
    Gaps <- MeanGaps, MaxPosition <- MaxMirrored, MaxNow <- LastSecond

Amends == INSTANCE AmendBook WITH
    book <- a_book, opened <- a_opened, mirror <- a_mirror, link <- a_link, wire <-
    a_wire, news <- a_news, snap <- a_snap, step <- a_step, chances <- a_chances,
    losses <- a_losses, fills <- a_fills, Sizes <- AmendSizes

Client == INSTANCE OrderClient WITH
    mode <- c_mode, now <- c_now, bucket <- c_bucket, window <- c_window, call <-
    c_call, calls <- c_calls, resting <- c_resting, sent <- c_sent, Sizes <-
    CallSizes, Window <- HalfHour, MinSize <- TierSize, MinSize2 <- TierSize2,
    MaxNow <- MaxTicks

ASSUME MCOrdersAssumption ==
    /\ Chance!ConstantsOK /\ Cache!ConstantsOK /\ Decision!ConstantsOK
    /\ Amends!ConstantsOK /\ Client!ConstantsOK

\* A component that is not in focus has one start.
OrdersInit ==
    /\ focus \in {"chance", "cache", "decide", "amend", "client"}
    /\ Chance!Init /\ (focus # "chance" => version = CHOOSE v \in Strategies : TRUE)
    /\ Cache!Init
    /\ Decision!Init /\ (focus # "decide" => d_version = CHOOSE v \in Deciders : TRUE)
    /\ Amends!Init
    /\ Client!Init /\ (focus # "client" => c_mode = CHOOSE m \in Modes : TRUE)

OrdersNext ==
    /\ UNCHANGED focus
    /\ \/ focus = "chance" /\ Chance!Next /\ UNCHANGED <<cache, decide, amend, client>>
       \/ focus = "cache" /\ Cache!Next /\ UNCHANGED <<chance, decide, amend, client>>
       \/ focus = "decide" /\ Decision!Next /\ UNCHANGED <<chance, cache, amend, client>>
       \/ focus = "amend" /\ Amends!Next /\ UNCHANGED <<chance, cache, decide, client>>
       \/ focus = "client" /\ Client!Next /\ UNCHANGED <<chance, cache, decide, amend>>

allvars == <<focus, chance, cache, decide, amend, client>>
OrdersSpec == OrdersInit /\ [][OrdersNext]_allvars

\* All variables keep their types.
TypesOK ==
    /\ focus = "chance" => Chance!TypeOK
    /\ focus = "cache" => Cache!TypeOK
    /\ focus = "decide" => Decision!TypeOK
    /\ focus = "amend" => Amends!TypeOK
    /\ focus = "client" => Client!TypeOK

\* A position and an order stay within what late answers can add to their caps.
ExposureBounded ==
    /\ focus = "chance" => Chance!ExposureBounded
    /\ focus = "amend" => Amends!NeverOversized

\* The rates of orders are kept, by the strategy and by the client.
RateBounded ==
    /\ focus = "chance" => Chance!RateBounded
    /\ focus = "client" => Client!WindowRespected /\ Client!RateKept

\* A decision is made on books of one moment and the newest of each, compared with
\* samples that are as old as asked; what may only be closed is never opened, and a
\* close is against the position.
DecisionsSound ==
    /\ focus = "cache" => Cache!OneMoment /\ Cache!NewestKept /\ Cache!LooksBack
    /\ focus = "decide" => Decision!OnlyCloseHolds /\ Decision!ClosesOppose

\* Orders do not stay where they trade: the strategy parks its own, one to a side,
\* and the client cancels Flipster's.
OrdersSettle ==
    /\ (focus = "amend" /\ Amends!Fairness) => Amends!EventuallySettled
    /\ (focus = "client" /\ Client!Fairness) => Client!NamedExpire
=============================================================================
