---------------------------- MODULE HandleChance ----------------------------
(* The approval of an order in flipster_rust: a signal becomes a chance, the  *)
(* strategy's handle_chance approves or refuses it from what the order        *)
(* manager mirrors (positions, the last order of the symbol, the last hundred *)
(* orders), a worker sends it, and the exchange's answer reaches the mirror   *)
(* later.  Between approval and mirror every decision is made on old state.   *)
(*                                                                            *)
(* Time is counted in passes of the signal loop: each pass evaluates every    *)
(* symbol at most once (par_iter over the symbols, any order).  Prices are    *)
(* left out: the gate on an equal price, a blocked symbol, a filtered size and *)
(* an unhealthy account only refuse, and a chance need not come.              *)
(* The versions are the strategies v6 (and v6_0, which lacks one bound), v7,  *)
(* v8 and v10; v11's amend protocol is in AmendBook.                          *)
EXTENDS Integers, Sequences, FiniteSets

CONSTANTS
  Symbols,
  Versions,      \* strategy versions to run, a subset of {"v6", "v7", "v8", "v10"}
  Levels,        \* levels decide_order may return
  Records,       \* trade records of a symbol: "good", "ema" (bad EMA), "rate" (bad rate)
  ChanceSizes,   \* sizes decide_order may ask for, in contracts
  OrderSize,     \* order_size of the account, in contracts
  CloseSize,     \* close_order_size
  MaxPosition,   \* max_position_size
  Gaps,          \* limit_open/close_time_restriction: drawn from this set, in passes
  ManyGap,       \* too_many_orders_time_gap, in passes
  Window,        \* the three minutes of get_time_gap_to_oldest_order, in passes
  RecentCap,     \* length of recent_orders_queue (100)
  ChannelCap,    \* capacity of the record channel (512)
  Lag            \* bound: passes after which an order has reached the mirror

VARIABLES
  version,     \* the strategy this process runs
  evaluated,   \* symbols evaluated in this pass
  last,        \* last_orders: symbol -> last recorded order
  recent,      \* recent_orders_queue: ages and symbols of recorded orders, oldest first
  channel,     \* records on their way to the record thread
  position,    \* the mirror's positions
  real,        \* the exchange's positions
  queue,       \* orders waiting for a worker
  news,        \* fills the mirror has not seen
  opened       \* ages of the opening orders approved in the window (history)

vars == <<version, evaluated, last, recent, channel, position, real, queue,
          news, opened>>

Buy == 1
Sell == -1
NoOrder == [level |-> "none", side |-> Buy, age |-> 0]
Abs(n) == IF n < 0 THEN -n ELSE n
Least(a, b) == IF a < b THEN a ELSE b
Most(a, b) == IF a > b THEN a ELSE b
MinSize == 1
MaxGap == CHOOSE g \in Gaps : \A h \in Gaps : h <= g
AgeCap == Most(4 * MaxGap, Most(2 * ManyGap, Window))  \* bound: older is all the same

(* An order that is a fifth of the position may only be that late, or closes  *)
(* of v7 add up to more than the position.                                    *)
ConstantsOK ==
  /\ IsFiniteSet(Symbols)
  /\ Versions \subseteq {"v6", "v7", "v8", "v10"}
  /\ Levels \subseteq {"limit_open", "limit_close", "market_open", "market_close"}
  /\ Records \subseteq {"good", "ema", "rate"}
  /\ ChanceSizes \cup {OrderSize, CloseSize} \subseteq Nat \ {0}
  /\ \E n \in ChanceSizes \cup {OrderSize, CloseSize} :
        \A k \in ChanceSizes \cup {OrderSize, CloseSize} : k <= n
  /\ Gaps \subseteq Nat /\ \E g \in Gaps : \A h \in Gaps : h <= g
  /\ {MaxPosition, ManyGap, Lag} \subseteq Nat
  /\ {Window, RecentCap, ChannelCap} \subseteq Nat \ {0}
  /\ Lag <= AgeCap /\ ("v7" \in Versions => Lag <= 4)

-----------------------------------------------------------------------------
(* What a chance is judged by.  c is the chance: sym, side, level, size, net  *)
(* (the sign of the net position over all accounts, read once per pass) and   *)
(* record (the symbol's trade record).                                        *)

HasPosition(c) == position[c.sym] # 0
SameSide(c) == position[c.sym] * c.side > 0
Reduces(c) == position[c.sym] * c.side < 0
CloseLevel(c) == c.level \in {"limit_close", "market_close"}
NetClose(c) == c.net * c.side <= 0

(* A close needs a position on the other side. *)
SideAllowed(c) == CloseLevel(c) => Reduces(c)

(* is_too_many_orders: the last RecentCap orders fit in the gap. *)
Full == Len(recent) = RecentCap
TooMany(gap) == Full /\ recent[1].age < gap
SymbolTooMany(s, gap) ==
  TooMany(gap) /\ 10 * Cardinality({i \in DOMAIN recent : recent[i].sym = s})
                    > 3 * RecentCap
ManyOrders(c) == \/ TooMany(ManyGap)
                 \/ SymbolTooMany(c.sym, 2 * ManyGap)
Careful == TooMany(2 * ManyGap)

Multiplier(c) ==
  IF version = "v7" THEN 1
  ELSE (IF Careful THEN 2 ELSE 1) * (IF ManyOrders(c) THEN 2 ELSE 1)

(* The last order of the symbol on this side must be old enough.  Without a   *)
(* position every order waits (is_same_side is false).                        *)
LastOrderOld(c, gap) ==
  LET o == last[c.sym] IN
    ~( /\ o # NoOrder
       /\ o.side = c.side
       /\ o.age < gap * Multiplier(c)
       /\ \/ o.level = "limit_open" /\ SameSide(c)
          \/ o.level = "limit_close"
          \/ ~SameSide(c) )

(* A market close holds everything back for a second (not in v7). *)
AfterMarketClose(c) ==
  ~(version # "v7" /\ last[c.sym].level = "market_close" /\ last[c.sym].age < 1)

-----------------------------------------------------------------------------
(* Sizes.  A symbol with a bad record has its size cut to a hundredth, which  *)
(* rounds to nothing below fifty contracts; nothing is then replaced by the   *)
(* account's order size.                                                      *)

Hundredth(n) == (n + 50) \div 100
OrDefault(n) == IF n = 0 THEN OrderSize ELSE n
CloseBy(c) == Most(CloseSize, Abs(position[c.sym]) \div 5)

(* v6: cut only when adding to a position, a close has a size of its own. *)
SizeV6(c) ==
  LET cut == c.record = "ema" /\ SameSide(c)
      asked == IF CloseLevel(c) \/ Reduces(c) THEN CloseBy(c)
               ELSE OrDefault(IF cut THEN Hundredth(c.size) ELSE c.size)
  IN Most(Least(asked, c.size), MinSize)

(* v7 lacks the bound by the chance's own size. *)
SizeV7(c) ==
  LET cut == c.record = "ema" /\ SameSide(c)
      asked == IF CloseLevel(c) \/ Reduces(c) THEN CloseBy(c)
               ELSE OrDefault(IF cut THEN Hundredth(c.size) ELSE c.size)
  IN Most(IF c.level = "market_close" THEN Least(asked, c.size) ELSE asked, MinSize)

(* Mutant: the smallest size is not kept. *)
SizeV8Unfloored(c) ==
  LET asked == OrDefault(IF c.record = "ema" /\ ~Reduces(c) THEN Hundredth(c.size) ELSE c.size)
  IN Least(IF NetClose(c) THEN asked ELSE asked \div 2, c.size)

(* v8: no close size; half against the net position. *)
SizeV8(c) ==
  LET cut == c.record = "ema" /\ ~Reduces(c) /\ ~NetClose(c)
      asked == OrDefault(IF cut THEN Hundredth(c.size) ELSE c.size)
      half == IF NetClose(c) THEN asked ELSE asked \div 2
  IN Most(Least(half, c.size), MinSize)

(* v10: no close size, never halved. *)
SizeV10(c) ==
  LET cut == c.record = "ema" /\ SameSide(c)
  IN Most(Least(OrDefault(IF cut THEN Hundredth(c.size) ELSE c.size), c.size), MinSize)

Size(c) == CASE version = "v6" -> SizeV6(c)
             [] version = "v7" -> SizeV7(c)
             [] version = "v8" -> SizeV8(c)
             [] version = "v10" -> SizeV10(c)

(* A bad record is refused while orders are many. *)
RecordAllowed(c) ==
  LET exempt == IF version = "v8" THEN Reduces(c) \/ NetClose(c) ELSE ~SameSide(c)
      bad == IF version = "v8" THEN {"ema"} ELSE {"ema", "rate"}
  IN exempt \/ /\ ~(ManyOrders(c) /\ c.record \in bad)
               /\ version # "v7" => ~(c.record = "ema" /\ Careful)

(* Half as much again against the net position, half when orders are many. *)
Cap(c) ==
  LET opposite == IF c.net * c.side < 0 THEN (3 * MaxPosition) \div 2 ELSE MaxPosition
  IN IF version # "v7" /\ ManyOrders(c) THEN opposite \div 2 ELSE opposite

(* Mutant: the cap is asked only of closes. *)
CapOnClose(c) == Reduces(c) => Abs(position[c.sym]) + Size(c) <= Cap(c)

(* The cap is asked only when adding to a position the mirror shows. *)
CapAllows(c) == SameSide(c) => Abs(position[c.sym]) + Size(c) <= Cap(c)

(* v8 sends the size as it is; the others never more than the position they   *)
(* reduce.                                                                    *)
SignedSize(c) ==
  c.side * (IF version # "v8" /\ Reduces(c)
              THEN Least(Size(c), Abs(position[c.sym])) ELSE Size(c))

(* Mutant: only a full half of the window counts. *)
RateHalf(c) == Reduces(c) \/ ~TooMany(Window \div 2)

(* "Too many orders in the last 3 minutes": only orders that reduce pass. *)
RateAllows(c) == Reduces(c) \/ ~TooMany(Window)

Approves(c, gap) ==
  /\ SideAllowed(c)
  /\ AfterMarketClose(c)
  /\ LastOrderOld(c, gap)
  /\ RecordAllowed(c)
  /\ CapAllows(c)
  /\ RateAllows(c)

(* A random half of the chances is dropped when orders are many: v7 before    *)
(* the order is recorded, the others after.                                   *)
MayDrop(c) == ManyOrders(c) \/ Careful

-----------------------------------------------------------------------------
(* on_new_order: try_send, a full channel drops the record. *)
Recorded(c) ==
  IF Len(channel) < ChannelCap
    THEN Append(channel, [sym |-> c.sym, level |-> c.level, side |-> c.side, age |-> 0])
    ELSE channel

Order(c) == [sym |-> c.sym, size |-> SignedSize(c), reduce |-> CloseLevel(c), age |-> 0]

TypeOK ==
  /\ version \in Versions
  /\ evaluated \subseteq Symbols
  /\ Len(recent) <= RecentCap
  /\ Len(channel) <= ChannelCap
  /\ position \in [Symbols -> Int] /\ real \in [Symbols -> Int]
  /\ \A i \in DOMAIN queue : queue[i].sym \in Symbols /\ queue[i].size # 0
  /\ \A i \in DOMAIN opened : opened[i] \in 0 .. Window

Init ==
  /\ version \in Versions
  /\ evaluated = {}
  /\ last = [s \in Symbols |-> NoOrder]
  /\ recent = <<>> /\ channel = <<>>
  /\ position = [s \in Symbols |-> 0]
  /\ real = [s \in Symbols |-> 0]
  /\ queue = <<>> /\ news = <<>>
  /\ opened = <<>>

(* One chance of one symbol: refused, approved, or approved and dropped.  The *)
(* refusals change nothing; an opening order is counted in the history.       *)
HandleChance(s) ==
  /\ s \notin evaluated
  /\ \E side \in {Buy, Sell}, level \in Levels, size \in ChanceSizes,
        net \in {Buy, 0, Sell}, record \in Records, gap \in Gaps,
        dropped \in BOOLEAN :
       LET c == [sym |-> s, side |-> side, level |-> level, size |-> size,
                 net |-> net, record |-> record]
       IN /\ Approves(c, gap)
          /\ dropped => MayDrop(c)
          /\ channel' = IF dropped /\ version = "v7" THEN channel ELSE Recorded(c)
          /\ queue' = IF dropped THEN queue ELSE Append(queue, Order(c))
          /\ opened' = IF dropped \/ Reduces(c) THEN opened ELSE Append(opened, 0)
  /\ evaluated' = evaluated \cup {s}
  /\ UNCHANGED <<version, last, recent, position, real, news>>

(* The record thread: the order joins the last hundred and becomes the        *)
(* symbol's last order.                                                       *)
Record ==
  /\ channel # <<>>
  /\ LET o == Head(channel)
         grown == Append(recent, [sym |-> o.sym, age |-> o.age])
     IN /\ recent' = IF Len(grown) > RecentCap THEN Tail(grown) ELSE grown
        /\ last' = [last EXCEPT ![o.sym] =
                      [level |-> o.level, side |-> o.side, age |-> o.age]]
  /\ channel' = Tail(channel)
  /\ UNCHANGED <<version, evaluated, position, real, queue, news, opened>>

(* What the exchange does with an order: all of it or nothing; a reduce-only  *)
(* order is cut to the position it reduces.                                   *)
Filled(o) ==
  IF ~o.reduce THEN o.size
  ELSE IF real[o.sym] * o.size >= 0 THEN 0
  ELSE (IF o.size > 0 THEN 1 ELSE -1) * Least(Abs(o.size), Abs(real[o.sym]))

(* A worker takes the oldest order; with an unhealthy account it mostly skips *)
(* it.  A fill is news for the mirror.                                        *)
Send ==
  /\ queue # <<>>
  /\ queue' = Tail(queue)
  /\ LET o == Head(queue) IN
       \E d \in {0, Filled(o)} :
         /\ real' = [real EXCEPT ![o.sym] = @ + d]
         /\ news' = IF d = 0 THEN news
                    ELSE Append(news, [sym |-> o.sym, size |-> d, age |-> o.age])
  /\ UNCHANGED <<version, evaluated, last, recent, channel, position, opened>>

(* The position update of a fill reaches the mirror. *)
Learn ==
  /\ news # <<>>
  /\ position' = [position EXCEPT ![Head(news).sym] = @ + Head(news).size]
  /\ news' = Tail(news)
  /\ UNCHANGED <<version, evaluated, last, recent, channel, real, queue, opened>>

Older(n) == Least(n + 1, AgeCap)
Aged(seq) == [i \in DOMAIN seq |-> [seq[i] EXCEPT !.age = Older(@)]]

(* The next pass.  Bounds: a record reaches its thread within the pass after  *)
(* it was made, an order the mirror within Lag passes.                        *)
NextPass ==
  /\ \A i \in DOMAIN channel : channel[i].age = 0
  /\ \A i \in DOMAIN queue : queue[i].age < Lag
  /\ \A i \in DOMAIN news : news[i].age < Lag
  /\ evaluated' = {}
  /\ last' = [s \in Symbols |-> IF last[s] = NoOrder THEN NoOrder
                                ELSE [last[s] EXCEPT !.age = Older(@)]]
  /\ recent' = Aged(recent) /\ channel' = Aged(channel)
  /\ queue' = Aged(queue) /\ news' = Aged(news)
  /\ opened' = LET young == {i \in DOMAIN opened : opened[i] + 1 < Window}
               IN  [i \in 1 .. Cardinality(young) |->
                      opened[i + Len(opened) - Cardinality(young)] + 1]
  /\ UNCHANGED <<version, position, real>>

Next ==
  \/ \E s \in Symbols : HandleChance(s)
  \/ Record \/ Send \/ Learn \/ NextPass

Spec == Init /\ [][Next]_vars

-----------------------------------------------------------------------------
LargestOrder == LET sizes == ChanceSizes \cup {OrderSize, CloseSize}
                IN CHOOSE n \in sizes : \A m \in sizes : m <= n

(* What a position may come to: the cap, and one order for each pass whose     *)
(* order the mirror has not seen.  A close of v7 is no more than such an order  *)
(* or a fifth of the position.                                                  *)
Exposure ==
  LET cap == Most((3 * MaxPosition) \div 2, LargestOrder)
      seen_late == cap + Lag * LargestOrder
  IN  IF version = "v7" THEN Most(seen_late, (5 * cap) \div (5 - Lag)) ELSE seen_late

(* The position of a symbol exceeds its cap by no more than the orders that   *)
(* were approved before the mirror showed the earlier ones.                   *)
ExposureBounded == \A s \in Symbols : Abs(real[s]) <= Exposure

(* No three minutes see more than a hundred opening orders, except for those  *)
(* approved while an earlier one was still on its way to the record thread,   *)
(* if the channel to it holds the orders of two passes.                       *)
RateBounded == 2 * Cardinality(Symbols) <= ChannelCap =>
                 Len(opened) <= RecentCap - 1 + 2 * Cardinality(Symbols)
=============================================================================
