---------------------------- MODULE OrderDecision ----------------------------
(***************************************************************************)
(* From the order books to an order of the flipster_rust strategies:       *)
(* process_symbol (strategy.rs) takes a snapshot of the position, computes *)
(* a signal from the books (signal_calculator.rs) and asks decide_order    *)
(* (decide_order_v8.rs, strategies/v6.rs, v7.rs) for a level.  The mirror  *)
(* of the position is written by other threads meanwhile, so decide_order  *)
(* sees two positions: the snapshot and the mirror.                        *)
(*                                                                         *)
(* Prices are integers around the middle of the exchange's book, and a     *)
(* basis point is one unit of price.  What the strategy reads and does not *)
(* write (books, averages, blocked symbols, net position) is chosen anew   *)
(* for every decision.                                                     *)
(***************************************************************************)
EXTENDS Integers, FiniteSets

CONSTANTS
    Versions,     \* the strategies explored, of "v6", "v6_0", "v7", "close_v1", "v8", "v10"
    Flipster,     \* flipster_cookie_store::global().is_some()
    Webs,         \* web books: records [bid, ask]
    Bases,        \* middles of the leading exchange's book, and NoQuote
    Gaps,         \* average distances from the leading book, and NoGap
    BookSizes,    \* sizes resting at the web price
    Hindrances,   \* the sets of flags explored with every book (see Flags)
    MaxPosition,  \* largest position the mirror takes
    StaleAfter,   \* warn_stale_minutes and close_stale_minutes, in seconds
    Milli,        \* milliseconds in a second
    Start,        \* the first second of the run
    MaxNow        \* bound on the seconds that pass

NoQuote == 99                   \* stands for a missing book
NoGap == 99                     \* stands for a missing average
Unseen == MaxPosition + 1       \* no snapshot is held
Half == 4                       \* half the spread of the exchange's book
BaseHalf == 1                   \* half the spread of the leading book
WindowSpread == 6               \* average spread of the web book
Tick == 1                       \* order_price_round
MidGapThreshold == 1            \* mid_gap_bp_threshold
SizeTrigger == 2                \* size_trigger, close_size_trigger
MaxSizeTrigger == 8             \* max_size_trigger
Levels == {"limit_open", "limit_close", "market_close"}
Sides == {"buy", "sell"}
Windows == {"1m", "5m", "60m", "240m", "720m"}
None == [level |-> "none", side |-> "none"]

\* What else decide_order reads: the symbol is blocked for opening, funding or
\* correlation or the symbol list allows only closing, the spread left its
\* band, the leading book is late, the books are too old or too new, the
\* symbol is to be closed at market, its correlation is below 0.8, the orders
\* counted exceed close_order_count, the web book is the older one.
Flags == {"dangerous", "restrained", "wide", "late", "refused", "market_close",
          "uncorrelated", "many_orders", "web_older"}

ConstantsOK ==
    /\ Versions \subseteq {"v6", "v6_0", "v7", "close_v1", "v8", "v10"}
    /\ Flipster \in BOOLEAN
    /\ \A w \in Webs : w.bid < w.ask
    /\ Bases \subseteq Int /\ Gaps \subseteq Int
    /\ BookSizes \subseteq Nat /\ Hindrances \subseteq SUBSET Flags /\ MaxPosition \in Nat \ {0}
    /\ StaleAfter \in Nat /\ Milli \in Nat \ {0}
    /\ Start \in Nat \ {0} /\ MaxNow \in Nat /\ Start <= MaxNow

VARIABLES
    version,      \* the strategy that runs
    now,          \* the clock, in seconds
    position,     \* the mirror's position
    update_time,  \* when the mirror last changed, 0 when it is flat
    seen,         \* the snapshot process_symbol took
    decision      \* the last answer of decide_order

vars == <<version, now, position, update_time, seen, decision>>

Abs(n) == IF n < 0 THEN -n ELSE n
Larger(a, b) == IF a < b THEN b ELSE a
Points(s) == Cardinality(s)

-----------------------------------------------------------------------------
(* Signals *)

NoSignal == [side |-> "none"]

Inside(web) == web.bid >= -Half /\ web.ask <= Half

Price(side, web) == IF side = "buy" THEN web.ask ELSE web.bid

\* How far x lies on the good side of a price: below it for a purchase,
\* above it for a sale.
Gain(side, x, price) == IF side = "buy" THEN x - price ELSE price - x

\* Signal::new of a side: its distance to the middle and to the leading book.
SignalOf(side, web, base) ==
    LET price == Price(side, web) IN
    [side |-> side, web |-> web, price |-> price, resting |-> TRUE,
     chance |-> Larger(Gain(side, 0, price), 0),
     valid |-> base # NoQuote /\ Gain(side, base, price) > BaseHalf,
     base_chance |-> IF base = NoQuote THEN NoQuote ELSE Gain(side, base, price)]

Crossed(web, base) ==
    CASE web.ask < 0 -> SignalOf("buy", web, base)
      [] web.ask >= 0 /\ web.bid > 0 -> SignalOf("sell", web, base)
      [] OTHER -> NoSignal

\* The web price crosses the middle, and the web book lies inside the
\* exchange's book.
calculate_signal(web, base) == IF Inside(web) THEN Crossed(web, base) ELSE NoSignal

\* The newer book narrows the web book.
Clamped(web, newer) ==
    IF newer THEN [bid |-> Larger(web.bid, -Half), ask |-> IF web.ask > Half THEN Half ELSE web.ask]
    ELSE web

\* Without a crossing, both long averages may call the web book cheap or dear;
\* such a signal has no distance to the middle or to the leading book.
Reverting(web, base, gaps) ==
    LET above(w) == gaps[w] # NoGap /\ web.bid + web.ask - 2 * base > 2 * gaps[w]
        below(w) == gaps[w] # NoGap /\ web.bid + web.ask - 2 * base < 2 * gaps[w]
        long == {"240m", "720m"}
        bare(side) == [SignalOf(side, web, base) EXCEPT !.chance = 0, !.base_chance = NoQuote]
    IN  CASE base # NoQuote /\ (\A w \in long : below(w)) -> bare("buy")
          [] base # NoQuote /\ (\A w \in long : above(w)) -> bare("sell")
          [] OTHER -> NoSignal

calculate_signal_v8(web, base, gaps, newer) ==
    LET narrowed == Clamped(web, newer)
        crossed == Crossed(narrowed, base)
    IN  IF ~Flipster /\ ~Inside(narrowed) THEN NoSignal
        ELSE IF crossed # NoSignal THEN crossed ELSE Reverting(narrowed, base, gaps)

\* The leading book is shifted by the average distance of the middles.
calculate_signal_v10(web, base, gap) ==
    IF ~Inside(web) THEN NoSignal
    ELSE Crossed(web, IF base # NoQuote /\ gap # NoGap THEN base + gap ELSE base)

\* v6 and v10 make a signal of every book, at the near price of the web book
\* and with nothing resting there.  Equal middles always sell: the sum of two
\* prices is compared with one middle of the leading book.
AnySignal(signal, web, base) ==
    LET side == IF web.bid + web.ask < 0 THEN "buy" ELSE "sell" IN
    IF signal # NoSignal \/ (web.bid + web.ask = 0 /\ base = NoQuote) THEN signal
    ELSE [SignalOf(side, web, NoQuote) EXCEPT
             !.price = IF side = "buy" THEN web.bid ELSE web.ask,
             !.chance = 0, !.resting = FALSE]

\* The copy of v6 and the one of v10.
AnySignalV6_0(signal, web, base) == AnySignal(signal, web, base)
AnySignalV10(signal, web, base) == AnySignal(signal, web, base)

-----------------------------------------------------------------------------
(* What the averages say of a purchase or a sale at the web price *)

\* By how much the order beats the average distance of a window.
Chance(in, w) ==
    Gain(in.side, in.gaps[w], in.price - in.base)

Known(in, w) == in.gaps[w] # NoGap /\ in.base # NoQuote
Missing(in, w) == ~Known(in, w)
Beats(in, w, least) == Known(in, w) /\ Chance(in, w) >= least

\* The largest spread in sight: the exchange's book and the window's average.
MaxSpread == Larger(2 * Half, WindowSpread)

open_1m(in) == Missing(in, "1m") \/ Beats(in, "1m", Larger(WindowSpread \div 3, MidGapThreshold))
close_1m(in) == Missing(in, "1m") \/ Beats(in, "1m", MidGapThreshold)
open_5m(in) == Missing(in, "5m") \/ Beats(in, "5m", Larger(WindowSpread \div 3, MidGapThreshold))
close_5m(in) == Missing(in, "5m") \/ Beats(in, "5m", MidGapThreshold)
open_60m(in) == Missing(in, "60m") \/ Beats(in, "60m", Larger(WindowSpread \div 3, MidGapThreshold))
close_60m(in) == Missing(in, "60m") \/ Beats(in, "60m", MidGapThreshold)
try_60m(in) ==
    "late" \notin in.flags /\ Beats(in, "60m", MaxSpread \div 2 + BaseHalf + MidGapThreshold + 1)
open_240m(in) == Beats(in, "240m", Larger(WindowSpread \div 2, MidGapThreshold))
close_240m(in) == Beats(in, "240m", 0)
try_240m(in) == Beats(in, "240m", MaxSpread \div 2 + BaseHalf + MidGapThreshold + 1)
open_720m(in) == Beats(in, "720m", Larger(WindowSpread \div 2, MidGapThreshold))
close_720m(in) == Beats(in, "720m", 0)
try_720m(in) == Beats(in, "720m", (2 * MaxSpread) \div 3 + BaseHalf + MidGapThreshold + 1)

open_order_point(in) ==
    Points({w \in Windows : CASE w = "1m" -> open_1m(in) [] w = "5m" -> open_5m(in)
                              [] w = "60m" -> open_60m(in) [] w = "240m" -> open_240m(in)
                              [] OTHER -> open_720m(in)})

close_order_point(in) ==
    Points({w \in Windows : CASE w = "1m" -> close_1m(in) [] w = "5m" -> close_5m(in)
                              [] w = "60m" -> close_60m(in) [] w = "240m" -> close_240m(in)
                              [] OTHER -> close_720m(in)})

should_try_close_point(in) ==
    Points({w \in {"60m", "240m", "720m"} :
               CASE w = "60m" -> try_60m(in) [] w = "240m" -> try_240m(in)
                 [] OTHER -> try_720m(in)})

-----------------------------------------------------------------------------
(* decide_order of v8 and its successors *)

Updated(in) == in.base # NoQuote /\ "late" \notin in.flags
Dangerous(in) == "dangerous" \in in.flags
Only_close(in) == "restrained" \in in.flags
is_close_order(in) == (in.side = "buy" /\ in.usdt < 0) \/ (in.side = "sell" /\ in.usdt > 0)
net_close_side(in) == (in.side = "buy" /\ in.net < 0) \/ (in.side = "sell" /\ in.net > 0)
net_open_side(in) == (in.side = "buy" /\ in.net > 0) \/ (in.side = "sell" /\ in.net < 0)
is_big_close_order(in) == is_close_order(in) /\ Abs(in.usdt) >= MaxPosition

\* The clock is handed over in milliseconds and compared with seconds.
is_warn_stale_position(in) ==
    in.update_time > 0 /\ in.position # 0 /\ in.update_time < in.now * Milli - StaleAfter

\* Distances of the price from the near side and from the middle.
BestGap(in) == -Gain(in.side, in.price, IF in.side = "buy" THEN -Half ELSE Half)
MidGap(in) == Gain(in.side, 0, in.price)
better_than_half(in) == Abs(BestGap(in)) <= Abs(MidGap(in))
on_edge(in) == BestGap(in) <= Tick

open_on_binance(in) ==
    \/ is_close_order(in)
    \/ /\ in.base_chance # NoQuote
       /\ in.base_chance > 0
       /\ in.valid \/ net_close_side(in)

tradable_dangerous(in) ==
    /\ better_than_half(in)
    /\ is_close_order(in) \/ net_close_side(in)
    /\ close_5m(in) /\ close_60m(in) /\ close_240m(in) /\ close_720m(in)
    /\ open_5m(in) \/ open_60m(in) \/ open_240m(in) \/ open_720m(in)

open_if_dangerous(in) == is_close_order(in) \/ ~Dangerous(in) \/ tradable_dangerous(in)

previous_snapshots(in) ==
    LET open == open_order_point(in)
        close == close_order_point(in)
    IN  IF Flipster THEN open >= 2 /\ close >= 2
        ELSE IF ~is_close_order(in) /\ ~net_close_side(in) THEN open > 3 /\ close > 4
        ELSE IF \/ is_big_close_order(in) /\ net_close_side(in)
                \/ is_close_order(in) /\ Dangerous(in)
             THEN open > 2 /\ close > 3
        ELSE open > 2 /\ close > 4

\* The twelve conditions of an entry.
Enters(in) ==
    /\ in.chance >= MidGapThreshold
    /\ in.size > SizeTrigger /\ in.size <= MaxSizeTrigger
    /\ open_on_binance(in)
    /\ is_close_order(in) \/ "wide" \notin in.flags
    /\ Updated(in)
    /\ previous_snapshots(in)
    /\ open_if_dangerous(in)
    /\ is_close_order(in) \/ net_close_side(in) \/ better_than_half(in)
    /\ is_close_order(in) \/ net_close_side(in) \/ on_edge(in) \/ better_than_half(in)

OpenOrClose(in) == IF Only_close(in) THEN "limit_close" ELSE "limit_open"

\* The weaker entries v1, v2 and v3, which the averages carry.
WeakEntry(in) ==
    LET open == open_order_point(in)
        close == close_order_point(in)
        try == should_try_close_point(in)
        sound == open_if_dangerous(in) /\ Updated(in)
        side == ~net_open_side(in) \/ is_big_close_order(in)
    IN  \/ open > 4 /\ try > 2
        \/ side /\ in.chance >= MidGapThreshold /\ sound /\ open > 3 /\ close > 4 /\ try > 0
        \/ side /\ sound /\ open > 4 /\ close > 4 /\ try > 1

\* limit_close_v3 and limit_close_v2
WeakExit(in) ==
    LET open == open_order_point(in)
        close == close_order_point(in)
        try == should_try_close_point(in)
    IN  /\ (~net_open_side(in) /\ is_close_order(in)) \/ is_big_close_order(in)
        /\ open_if_dangerous(in) /\ Updated(in)
        /\ \/ open > 3 /\ close > 4 /\ try > 1
           \/ in.chance >= MidGapThreshold /\ open > 2 /\ close > 3 /\ try > 0

\* Mutant: a restricted symbol may be turned around too.
TurnAroundAnyway(in, careful) ==
    IF /\ net_close_side(in) /\ Updated(in)
       /\ careful => ~Dangerous(in) \/ tradable_dangerous(in)
    THEN "limit_open" ELSE "limit_close"

\* A narrative exit on the net closing side may also open the other way.
TurnAround(in, careful) ==
    IF /\ net_close_side(in) /\ Updated(in) /\ ~Only_close(in)
       /\ careful => ~Dangerous(in) \/ tradable_dangerous(in)
    THEN "limit_open" ELSE "limit_close"

\* The share of the distance to the middle, in hundredths, the price may be
\* away from the near side.
GapRatio(in) ==
    -1 + (IF net_close_side(in) THEN 100 ELSE 0)
       + (IF is_big_close_order(in) /\ net_close_side(in) THEN 50 ELSE 0)
       + (IF is_warn_stale_position(in) /\ net_close_side(in) THEN 50 ELSE 0)

should_exit_profit(in) ==
    /\ in.size > SizeTrigger /\ in.size <= MaxSizeTrigger
    /\ in.chance > 0
    /\ "wide" \notin in.flags
    /\ previous_snapshots(in)

NarrativeExit(in) ==
    LET reach == IF net_close_side(in) THEN Tick ELSE 0
        inner == MidGap(in) > 0
    IN  CASE ~should_exit_profit(in) -> "none"
          [] /\ should_exit_profit(in)
             /\ \/ in.base_chance # NoQuote /\ in.base_chance > 0 /\ Updated(in)
                \/ is_warn_stale_position(in) ->
               IF (in.usdt > 0 /\ in.side = "sell") \/ (in.usdt <= 0 /\ in.side = "buy")
               THEN TurnAround(in, TRUE) ELSE "none"
          [] OTHER ->
               IF inner /\ BestGap(in) <= reach THEN TurnAround(in, FALSE)
               ELSE IF /\ inner /\ net_close_side(in)
                       /\ 100 * Abs(BestGap(in)) <= GapRatio(in) * Abs(MidGap(in))
               THEN TurnAround(in, TRUE) ELSE "none"

\* use_long_term_chance_close, its branches in the order of the code.  A net
\* closing side never gets past the first, so the levels that would open are
\* out of reach.
LongTerm(in) ==
    LET open == open_order_point(in)
        try == should_try_close_point(in)
    IN  IF is_big_close_order(in) \/ net_close_side(in) \/ Dangerous(in)
        THEN IF try > 1 /\ open > 3 THEN "limit_close" ELSE "none"
        ELSE IF ~Dangerous(in) /\ net_close_side(in) /\ open_on_binance(in) /\ try > 2 /\ open > 3
        THEN "limit_open"
        ELSE IF /\ in.base_chance # NoQuote /\ in.base_chance > 0
                /\ try > 1 \/ open > 3
        THEN IF net_close_side(in) /\ ~Dangerous(in) THEN "limit_open" ELSE "limit_close"
        ELSE "none"

LevelV8(in) ==
    LET exits == \/ net_close_side(in) \/ is_warn_stale_position(in)
                 \/ Dangerous(in) \/ is_big_close_order(in)
        level == CASE Enters(in) \/ WeakEntry(in) -> OpenOrClose(in)
                   [] ~Enters(in) /\ ~WeakEntry(in) /\ WeakExit(in) -> "limit_close"
                   [] OTHER -> IF exits THEN NarrativeExit(in) ELSE "none"
    IN  IF level = "none" /\ "uncorrelated" \notin in.flags THEN LongTerm(in) ELSE level

\* A closing level needs a position of the mirror on the other side.
Directed(in, level) ==
    IF /\ level = "limit_close"
       /\ (in.side = "buy" /\ in.position >= 0) \/ (in.side = "sell" /\ in.position <= 0)
    THEN "none" ELSE level

\* should_market_close: v8 turns orders against the snapshot's position into
\* market orders, v6 those that are not against it.
AtMarket(in, level, against) ==
    IF level # "none" /\ "market_close" \in in.flags /\ is_close_order(in) = against
    THEN "market_close" ELSE level

DecideV8(in) ==
    IF "refused" \in in.flags \/ in.price # Price(in.side, in.web) THEN "none"
    ELSE AtMarket(in, Directed(in, LevelV8(in)), TRUE)

-----------------------------------------------------------------------------
(* decide_order of v6, v6_0, v7 and close_v1 *)

\* A sale is on the net closing side of a long account, a purchase on that of
\* a short position of the symbol.
old_net_close_side(in) == (in.side = "sell" /\ in.net > 0) \/ (in.side = "buy" /\ in.usdt < 0)

OldEntry(in) ==
    /\ in.chance > MidGapThreshold
    /\ in.size > SizeTrigger /\ in.size <= MaxSizeTrigger
    /\ in.valid /\ Updated(in)

\* The exits of the old strategies: with the leading book for the position, or
\* near the edge of the exchange's book at the level the strategy prefers.
OldExit(in, near) ==
    LET profit == in.size > SizeTrigger /\ in.chance > 0
        backed == /\ in.base_chance # NoQuote /\ in.base_chance > 0
                  /\ "many_orders" \in in.flags /\ Updated(in)
        close_to == \/ BestGap(in) <= Tick
                    \/ Abs(BestGap(in)) < Abs(MidGap(in)) /\ old_net_close_side(in)
    IN  CASE profit /\ backed ->
               IF (in.usdt > 0 /\ in.side = "sell") \/ (in.usdt <= 0 /\ in.side = "buy")
               THEN "limit_close" ELSE "none"
          [] profit /\ ~backed -> IF MidGap(in) > 0 /\ close_to THEN near ELSE "none"
          [] OTHER -> "none"

\* close_stale_minutes, compared in seconds.
is_stale(in) == in.update_time > 0 /\ in.position # 0 /\ in.update_time < in.now - StaleAfter

\* v6 closes a stale position at the market with whatever signal there is, and
\* bounds the size of the book only for entries and limit exits.
DecideV6(in) ==
    IF "refused" \in in.flags \/ ~Inside(in.web) THEN "none"
    ELSE IF is_stale(in) THEN "market_close"
    ELSE AtMarket(in, Directed(in,
             IF OldEntry(in) THEN OpenOrClose(in)
             ELSE IF in.size <= MaxSizeTrigger THEN OldExit(in, "limit_close") ELSE "none"), FALSE)

\* The copy of v6 that repeats no profitable orders.
DecideV6_0(in) == DecideV6(in)

DecideV7(in) ==
    IF "refused" \in in.flags THEN "none"
    ELSE Directed(in, IF OldEntry(in) THEN OpenOrClose(in) ELSE OldExit(in, OpenOrClose(in)))

\* The copy of v7 whose handle_chance only closes.
DecideCloseV1(in) == DecideV7(in)

decide_order(in) ==
    CASE version = "v6" -> DecideV6(in)
      [] version = "v6_0" -> DecideV6_0(in)
      [] version = "v7" -> DecideV7(in)
      [] version = "close_v1" -> DecideCloseV1(in)
      [] OTHER -> DecideV8(in)

\* A market close of a stale position carries only_close whatever the funding.
RestrictedTo(in, level) ==
    Only_close(in) \/ (version \in {"v6", "v6_0"} /\ level = "market_close" /\ is_stale(in))

-----------------------------------------------------------------------------
(* process_symbol *)

signal_of(web, base, gaps, flags) ==
    CASE version = "v8" -> calculate_signal_v8(web, base, gaps, "web_older" \in flags)
      [] version = "v10" -> AnySignalV10(calculate_signal_v10(web, base, gaps["1m"]), web, base)
      [] version = "v6" -> AnySignal(calculate_signal(web, base), web, base)
      [] version = "v6_0" -> AnySignalV6_0(calculate_signal(web, base), web, base)
      [] OTHER -> calculate_signal(web, base)

\* The averages of the short windows agree, and so may those of the long ones.
Averages ==
    {[w \in Windows |-> CASE w = "240m" -> long [] w = "720m" -> longest [] OTHER -> short] :
        short \in Gaps, long \in Gaps, longest \in Gaps}

Init ==
    /\ version \in Versions
    /\ now = Start
    /\ position = 0 /\ update_time = 0
    /\ seen = Unseen /\ decision = None

\* Another thread rewrites the mirror with the exchange's answer.
update_positions(n) ==
    /\ n # position
    /\ position' = n
    /\ update_time' = IF n = 0 THEN 0 ELSE now
    /\ UNCHANGED <<version, now, seen, decision>>

Pass ==
    /\ now < MaxNow
    /\ now' = now + 1
    /\ UNCHANGED <<version, position, update_time, seen, decision>>

\* The snapshot of the position, before the signal is computed.
Observe ==
    /\ seen = Unseen
    /\ seen' = position
    /\ decision' = None
    /\ UNCHANGED <<version, now, position, update_time>>

\* What decide_order is asked.
Question(signal, web, base, gaps, size, flags, net) ==
    [side |-> signal.side, price |-> signal.price, web |-> web, chance |-> signal.chance,
     valid |-> signal.valid, base_chance |-> signal.base_chance, base |-> base,
     gaps |-> gaps, size |-> IF signal.resting THEN size ELSE 0, flags |-> flags,
     net |-> net, usdt |-> seen, position |-> position, update_time |-> update_time,
     now |-> now]

Answer(in) ==
    LET level == decide_order(in) IN
    IF level = "none" THEN None
    ELSE [level |-> level, side |-> in.side, at |-> in.position,
          only_close |-> RestrictedTo(in, level),
          warned |-> version \in {"v8", "v10"} /\ is_warn_stale_position(in),
          age |-> IF in.position = 0 THEN 0 ELSE in.now - in.update_time]

\* The signal and the decision; without a signal the round ends.
Decide(web, base, gaps, size, flags, net) ==
    LET signal == signal_of(web, base, gaps, flags) IN
    /\ seen # Unseen
    /\ seen' = Unseen
    /\ decision' = IF signal = NoSignal THEN None
                   ELSE Answer(Question(signal, web, base, gaps, size, flags, net))
    /\ UNCHANGED <<version, now, position, update_time>>

Next ==
    \/ \E n \in -MaxPosition .. MaxPosition : update_positions(n)
    \/ Pass
    \/ Observe
    \/ \E web \in Webs, base \in Bases, gaps \in Averages, size \in BookSizes,
           flags \in Hindrances, net \in -1 .. 1 : Decide(web, base, gaps, size, flags, net)

Spec == Init /\ [][Next]_vars

-----------------------------------------------------------------------------
TypeOK ==
    /\ version \in Versions
    /\ now \in Start .. MaxNow
    /\ position \in -MaxPosition .. MaxPosition
    /\ update_time \in 0 .. now /\ (update_time = 0 <=> position = 0)
    /\ seen = Unseen \/ seen \in -MaxPosition .. MaxPosition
    /\ \/ decision = None
       \/ decision.level \in Levels /\ decision.side \in Sides

\* A symbol that may only be closed is never opened.  Four paths of
\* decide_order name limit_open, two of them without asking for only_close;
\* they hold because of the order of the branches before them
\* (decide_order_v8.rs:1176).
OnlyCloseHolds ==
    decision # None => ~(decision.only_close /\ decision.level = "limit_open")

\* A closing limit order is against the position the mirror had when it was
\* decided, whatever the snapshot showed (decide_order_v8.rs:1300).
ClosesOppose ==
    decision # None /\ decision.level = "limit_close" =>
        IF decision.side = "buy" THEN decision.at < 0 ELSE decision.at > 0
=============================================================================
