------------------------------- MODULE AmendBook -------------------------------
(* The parked orders of flipster_rust's WebSocket strategy on Gate.  On each     *)
(* side of a symbol an order of the smallest size waits far from the market; a   *)
(* chance amends it to the chance's price and size and at once back again, so    *)
(* that it can trade only for a moment.  The requests go through the queue of    *)
(* one WebSocket, the exchange answers later, and what the program believes of   *)
(* its orders (open_orders) is patched by its own amends, by the answers, by     *)
(* order updates and by a REST snapshot every five seconds.                      *)
(*                                                                               *)
(* One symbol and one side: the sides do not touch each other's orders.  Sizes   *)
(* are positive.  An order of more than Large is one that is left > 100 USDT and *)
(* > 2 * min_order_size.                                                         *)
EXTENDS Integers, Sequences, FiniteSets

CONSTANTS
  MaxOrders,   \* bound: orders the exchange ever opens
  Sizes,       \* sizes of chances
  Large,       \* largest size that is let alone
  MaxChances,  \* bound: chances taken
  MaxLosses,   \* bound: losses of the WebSocket
  MaxFills,    \* bound: fills
  WireCap      \* bound: requests and updates under way when more is begun (the
               \* queue holds 65536)

VARIABLES
  book,      \* id -> order open at the exchange; ids grow with create_time
  opened,    \* ids the exchange has given
  mirror,    \* open_orders: id -> row
  link,      \* the WebSocket is connected
  wire,      \* requests in its queue
  news,      \* updates and answers the exchange has sent
  snap,      \* REST snapshots on their way, at most one
  step,      \* where the strategy is in its sequence of amends
  chances, losses, fills

ConstantsOK ==
  /\ {MaxOrders, WireCap} \subseteq Nat \ {0}
  /\ {Large, MaxChances, MaxLosses, MaxFills} \subseteq Nat
  /\ Sizes \subseteq Nat \ {0} /\ \E n \in Sizes : \A k \in Sizes : k <= n

vars == <<book, opened, mirror, link, wire, news, snap, step, chances, losses, fills>>

Ids == 1 .. MaxOrders
Prices == {"near", "half", "fifth"}   \* may trade; 0.5 and 0.4 of the market
Unasked == 0                          \* an amend without a size
MinSize == 1
NoStep == [at |-> "idle"]
Order(price, size, filled) == [price |-> price, size |-> size, filled |-> filled]
Finished == Order("none", 0, 0)        \* what an update says of an order that is gone
Left(o) == o.size - o.filled
Without(f, id) == [i \in DOMAIN f \ {id} |-> f[i]]
With(f, id, o) == [i \in DOMAIN f \cup {id} |-> IF i = id THEN o ELSE f[i]]
Largest == CHOOSE n \in Sizes : \A k \in Sizes : k <= n

Orders == [price : Prices, size : 0 .. (MaxFills + 1) * Largest, filled : 0 .. MaxFills * Largest]
Books == UNION {[S -> Orders] : S \in SUBSET Ids}

TypeOK ==
  /\ book \in Books /\ mirror \in Books
  /\ opened \in 0 .. MaxOrders
  /\ link \in BOOLEAN
  /\ Len(wire) + Len(news) <= WireCap + MaxOrders
  /\ step.at \in {"idle", "near", "parked"}

Init ==
  /\ book = [i \in {1} |-> Order("half", MinSize, 0)]
  /\ mirror = book /\ opened = 1
  /\ link = TRUE /\ wire = <<>> /\ news = <<>> /\ snap = <<>> /\ step = NoStep
  /\ chances = 0 /\ losses = 0 /\ fills = 0

-----------------------------------------------------------------------------
(* Requests.  A queue whose connection is gone takes them and sends nothing.  *)

Room == Len(wire) + Len(news) < WireCap
Sent(w, req) == IF link THEN Append(w, req) ELSE w

(* amend_websocket_order: the size asked for is open size, what the program   *)
(* believes filled is added; nothing is sent when nothing would change; the   *)
(* program believes the new price at once.                                    *)
WantedSize(o, size) == IF size # Unasked /\ Left(o) # 0 THEN size + o.filled ELSE Unasked

Amend(id, price, size) ==
  IF id \notin DOMAIN mirror THEN UNCHANGED <<wire, mirror>>
  ELSE LET o == mirror[id]
           new == WantedSize(o, size)
       IN IF o.price = price /\ new \in {Unasked, o.size}
          THEN UNCHANGED <<wire, mirror>>
          ELSE /\ Room
               /\ wire' = Sent(wire, [id |-> id, price |-> price, size |-> new])
               /\ mirror' = [mirror EXCEPT ![id].price = price]

Cancel(id) == [id |-> id, price |-> "cancel", size |-> Unasked]

-----------------------------------------------------------------------------
(* The strategy.                                                              *)

(* A chance: to its price and size, ... *)
TakeChance(id, size, close) ==
  /\ step = NoStep /\ chances < MaxChances /\ Room /\ id \in DOMAIN mirror
  /\ Amend(id, "near", size)
  /\ step' = [at |-> "near", id |-> id, close |-> close]
  /\ chances' = chances + 1
  /\ UNCHANGED <<book, opened, link, news, snap, losses, fills>>

(* ... back far away, ... *)
Park ==
  /\ step.at = "near"
  /\ Amend(step.id, "half", Unasked)
  /\ step' = IF step.close THEN NoStep ELSE [step EXCEPT !.at = "parked"]
  /\ UNCHANGED <<book, opened, link, news, snap, chances, losses, fills>>

(* ... and, when it opens, further still. *)
ParkFurther ==
  /\ step.at = "parked"
  /\ Amend(step.id, "fifth", Unasked)
  /\ step' = NoStep
  /\ UNCHANGED <<book, opened, link, news, snap, chances, losses, fills>>

(* Every pass over the symbol parks an order that is believed near. *)
ParkStray(id) ==
  /\ step = NoStep /\ id \in DOMAIN mirror /\ mirror[id].price = "near"
  /\ Amend(id, "half", Unasked)
  /\ UNCHANGED <<book, opened, link, news, snap, step, chances, losses, fills>>

(* Without an order to amend, a new one is sent, over HTTP. *)
Open(price, size, n) ==
  /\ opened + n <= MaxOrders /\ Room
  /\ opened' = opened + n
  /\ IF n = 0 THEN UNCHANGED <<book, news>>
     ELSE /\ book' = With(book, opened + 1, Order(price, size, 0))
          /\ news' = IF link THEN Append(news, [id |-> opened + 1, kind |-> "update",
                                                row |-> Order(price, size, 0)])
                     ELSE news

NewOrder(size) ==
  /\ step = NoStep /\ chances < MaxChances /\ DOMAIN mirror = {}
  /\ \E n \in {0, 1} : Open("near", size, n)
  /\ chances' = chances + 1
  /\ UNCHANGED <<mirror, link, wire, snap, step, losses, fills>>

-----------------------------------------------------------------------------
(* The order manager's loops.                                                 *)

(* start_small_orders_loop: a side without an order gets one; the call may    *)
(* fail.                                                                      *)
SmallOrder ==
  /\ DOMAIN mirror = {}
  /\ \E n \in {0, 1} : Open("half", MinSize, n)
  /\ UNCHANGED <<mirror, link, wire, snap, step, chances, losses, fills>>

(* cancel_duplicate_orders: the oldest stays. *)
Oldest(S) == CHOOSE i \in S : \A j \in S : i <= j
Pair(S) == {Oldest(S), Oldest(S \ {Oldest(S)})}
ButTwo(S) == S \ Pair(S)
Duplicates(S) == S \ {Oldest(S)}
CancelDuplicates ==
  /\ Cardinality(DOMAIN mirror) > 1
  /\ \E id \in Duplicates(DOMAIN mirror) :
       Room /\ wire' = Sent(wire, Cancel(id))
  /\ UNCHANGED <<book, opened, mirror, link, news, snap, step, chances, losses, fills>>

(* update_open_orders: the snapshot replaces the map; an order that has been  *)
(* large for a second is cancelled and left out.                              *)
Poll ==
  /\ snap = <<>>
  /\ snap' = <<book>>
  /\ UNCHANGED <<book, opened, mirror, link, wire, news, step, chances, losses, fills>>

TooLarge(f) == {i \in DOMAIN f : Left(f[i]) > Large}
PollStore ==
  /\ snap # <<>>
  /\ \E S \in SUBSET TooLarge(snap[1]) :     \* those older than a second
       /\ Cardinality(S) <= 1 /\ (S # {} => Room)
       /\ mirror' = [i \in DOMAIN snap[1] \ S |-> snap[1][i]]
       /\ wire' = IF S = {} THEN wire
                  ELSE Sent(wire, Cancel(CHOOSE i \in S : TRUE))
  /\ snap' = <<>>
  /\ UNCHANGED <<book, opened, link, news, step, chances, losses, fills>>

(* start_small_orders_loop: an order that is left > 200 USDT is cancelled. *)
CancelLarge ==
  /\ \E id \in TooLarge(mirror) : Room /\ wire' = Sent(wire, Cancel(id))
  /\ UNCHANGED <<book, opened, mirror, link, news, snap, step, chances, losses, fills>>

(* handle_ws_message.  An order update is taken as it is; the answer to an    *)
(* amend that leaves a large order sends it away again at the smallest size;  *)
(* an amend that found the order filled opens a small one.  All orders are    *)
(* gtc (the answer to an amend of a poc order would be passed over).          *)
Update(msg) ==
  /\ msg.kind = "update"
  /\ mirror' = IF msg.row = Finished THEN Without(mirror, msg.id)
               ELSE With(mirror, msg.id, msg.row)
  /\ UNCHANGED <<wire, book, opened>>
  /\ news' = Tail(news)

(* The correction is computed from the answer and believed by the old map,    *)
(* which the answer's row then replaces.                                      *)
Answer(msg) ==
  /\ msg.kind = "amended" /\ msg.row # Finished
  /\ mirror' = With(mirror, msg.id, msg.row)
  /\ IF Left(msg.row) > Large
     THEN wire' = Sent(wire, [id |-> msg.id, price |-> "half",
                              size |-> WantedSize(msg.row, MinSize)])
     ELSE UNCHANGED wire
  /\ UNCHANGED <<book, opened>>
  /\ news' = Tail(news)

AnswerGone(msg) ==
  /\ msg.kind = "amended" /\ msg.row = Finished
  /\ mirror' = Without(mirror, msg.id)
  /\ UNCHANGED wire
  /\ \E n \in IF msg.filled THEN {0, 1} ELSE {0} :
       /\ opened + n <= MaxOrders
       /\ opened' = opened + n
       /\ book' = IF n = 0 THEN book
                  ELSE With(book, opened + 1, Order("half", MinSize, 0))
       /\ news' = IF n = 0 THEN Tail(news)
                  ELSE Append(Tail(news), [id |-> opened + 1, kind |-> "update",
                                           row |-> Order("half", MinSize, 0)])

Handle ==
  /\ news # <<>> /\ link
  /\ Update(Head(news)) \/ Answer(Head(news)) \/ AnswerGone(Head(news))
  /\ UNCHANGED <<link, snap, step, chances, losses, fills>>

-----------------------------------------------------------------------------
(* The exchange and the connection.                                           *)

Gone(id, filled) ==
  <<[id |-> id, kind |-> "update", row |-> Finished],
    [id |-> id, kind |-> "amended", row |-> Finished, filled |-> filled]>>

Amended(o, req) ==
  Order(req.price, IF req.size = Unasked THEN o.size ELSE req.size, o.filled)

(* A request is carried out, or, past its time, refused without an effect. *)
Process ==
  /\ wire # <<>>
  /\ LET req == Head(wire)
         id == req.id
     IN IF id \notin DOMAIN book THEN UNCHANGED <<book, news>>
        ELSE IF req.price = "cancel"
        THEN book' = Without(book, id) /\ news' = Append(news, Gone(id, FALSE)[1])
        ELSE LET o == Amended(book[id], req) IN
          IF Left(o) <= 0
          THEN book' = Without(book, id) /\ news' = news \o Gone(id, TRUE)
          ELSE /\ book' = [book EXCEPT ![id] = o]
               /\ news' = Append(news, [id |-> id, kind |-> "amended", row |-> o])
  /\ wire' = Tail(wire)
  /\ UNCHANGED <<opened, mirror, link, snap, step, chances, losses, fills>>

Expire ==
  /\ wire # <<>> /\ Head(wire).price = "near"
  /\ wire' = Tail(wire)
  /\ UNCHANGED <<book, opened, mirror, link, news, snap, step, chances, losses, fills>>

Fill(id, k) ==
  /\ fills < MaxFills /\ id \in DOMAIN book /\ book[id].price = "near"
  /\ k <= Left(book[id]) /\ Room
  /\ LET o == [book[id] EXCEPT !.filled = @ + k]
         row == IF Left(o) = 0 THEN Finished ELSE o
     IN /\ book' = IF row = Finished THEN Without(book, id) ELSE [book EXCEPT ![id] = o]
        /\ news' = IF link THEN Append(news, [id |-> id, kind |-> "update", row |-> row])
                   ELSE news
  /\ fills' = fills + 1
  /\ UNCHANGED <<opened, mirror, link, wire, snap, step, chances, losses>>

Lose ==
  /\ link /\ losses < MaxLosses
  /\ link' = FALSE /\ wire' = <<>> /\ news' = <<>>
  /\ losses' = losses + 1
  /\ UNCHANGED <<book, opened, mirror, snap, step, chances, fills>>

Reconnect ==
  /\ ~link
  /\ link' = TRUE
  /\ UNCHANGED <<book, opened, mirror, wire, news, snap, step, chances, losses, fills>>

Strategy == Park \/ ParkFurther \/ \E id \in Ids : ParkStray(id)

Next ==
  \/ \E id \in Ids, n \in Sizes, c \in BOOLEAN : TakeChance(id, n, c)
  \/ \E n \in Sizes : NewOrder(n)
  \/ Strategy
  \/ SmallOrder \/ CancelLarge \/ CancelDuplicates \/ Poll \/ PollStore \/ Handle
  \/ Process \/ Expire
  \/ \E id \in Ids, k \in 1 .. Largest : Fill(id, k)
  \/ Lose \/ Reconnect

Fairness ==
  /\ SF_vars(Strategy) /\ WF_vars(Poll \/ PollStore) /\ WF_vars(Handle)
  /\ WF_vars(Process) /\ WF_vars(Reconnect) /\ SF_vars(CancelDuplicates)

Spec == Init /\ [][Next]_vars /\ Fairness

-----------------------------------------------------------------------------
(* Properties.                                                                *)

(* No order is ever open for more than the largest chance, though sizes are    *)
(* computed from what the program believes was filled.                         *)
NeverOversized == \A i \in DOMAIN book : Left(book[i]) <= Largest

(* When the chances are over, no order is left where it trades and no side    *)
(* has two, whatever requests and updates were lost with a connection and     *)
(* whatever orders were sent before an earlier one was seen.                  *)
EventuallySettled ==
  <>[](/\ \A i \in DOMAIN book : book[i].price # "near"
       /\ Cardinality(DOMAIN book) <= 1)
=============================================================================
