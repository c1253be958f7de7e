------------------------------ MODULE GateAccount ------------------------------
(* The positions of an account as flipster_rust's GateOrderManager sees them: *)
(* a map replaced whole by two threads, the private WebSocket (an update is a  *)
(* load, a merge and a store) and the five-second loop (an HTTP snapshot, then *)
(* a store), and the closing of stale positions that runs on it.  A trader and *)
(* a monitor may each run a manager for the same account.                      *)
(*                                                                             *)
(* A row is a size and whether its update_time is older than close_stale_      *)
(* minutes.  Minutes pass only when nothing of a second's scale is under way.  *)
EXTENDS Integers, Sequences, FiniteSets

CONSTANTS
  Contracts,
  Managers,     \* processes that run a GateOrderManager for the account
  Monitors,     \* those of runner_monitoring (is_monitoring)
  Sockets,      \* managers whose WebSocket is modelled
  Largest,      \* bound: sizes are -Largest .. Largest
  CloseUsdt,    \* market_close_order_size or close_order_size, 0 with neither
  Values,       \* what a contract may be worth in USDT, 0 when unknown
  MaxTrades,    \* bound: trades of the strategy or a person
  FeedCap,      \* bound: updates under way to one manager
  MaxInFlight   \* bound: close orders of one manager the exchange still works on

ConstantsOK ==
  /\ Contracts # {} /\ Values \subseteq Nat
  /\ {CloseUsdt, Largest, MaxTrades, FeedCap, MaxInFlight} \subseteq Nat

VARIABLES
  real,      \* the exchange's rows
  mirror,    \* manager -> contract -> row (a contract that is absent has size 0)
  conn,      \* manager -> phase of the WebSocket loop
  feed,      \* manager -> updates the exchange has sent
  merge,     \* manager -> map the WebSocket task has loaded, or Idle
  pc,        \* manager -> phase of the update loop
  snap,      \* manager -> snapshot an HTTP answer carries
  todo,      \* manager -> contracts this pass has still to look at
  cur,       \* manager -> the contract it closes
  booting,   \* manager -> the first pass is not over
  orders,    \* close orders the exchange works on
  trades,
  worth      \* contract -> mark price times multiplier

vars == <<real, mirror, conn, feed, merge, pc, snap, todo, cur, booting, orders, trades,
  worth>>

Rows == [size : -Largest .. Largest, old : BOOLEAN]
Flat == [size |-> 0, old |-> FALSE]
Row(n) == [size |-> n, old |-> FALSE]
NoRows == [c \in Contracts |-> Flat]
Idle == [c \in {} |-> Flat]
Abs(n) == IF n < 0 THEN -n ELSE n
Sign(n) == IF n > 0 THEN 1 ELSE IF n < 0 THEN -1 ELSE 0
Least(a, b) == IF a < b THEN a ELSE b

TypeOK ==
  /\ real \in [Contracts -> Rows]
  /\ mirror \in [Managers -> [Contracts -> Rows]]
  /\ conn \in [Managers -> {"off", "login", "up", "wait", "dead"}]
  /\ \A m \in Managers : /\ Len(feed[m]) <= FeedCap
                         /\ merge[m] = Idle \/ merge[m] \in [Contracts -> Rows]
  /\ pc \in [Managers -> {"sleep", "fetched", "check", "close", "sent", "refetched"}]
  /\ snap \in [Managers -> [Contracts -> Rows]]
  /\ todo \in [Managers -> SUBSET Contracts]
  /\ cur \in [Managers -> Contracts]
  /\ booting \in [Managers -> BOOLEAN]
  /\ trades \in 0 .. MaxTrades /\ worth \in [Contracts -> Values]
  /\ \A m \in Managers : Cardinality({o \in orders : o.m = m}) <= MaxInFlight

Init ==
  /\ real \in [Contracts -> {Flat, Row(Largest)}]
  /\ mirror = [m \in Managers |-> NoRows]
  /\ conn = [m \in Managers |-> IF m \in Sockets THEN "off" ELSE "wait"]
  /\ feed = [m \in Managers |-> <<>>]
  /\ merge = [m \in Managers |-> Idle]
  /\ pc = [m \in Managers |-> "sleep"]
  /\ snap = mirror   \* bound: an answer is forgotten when it is stored
  /\ todo = [m \in Managers |-> {}]
  /\ cur \in [Managers -> {CHOOSE c \in Contracts : TRUE}]
  /\ booting = [m \in Managers |-> TRUE]
  /\ orders = {}
  /\ trades = 0
  /\ worth \in [Contracts -> Values]

-----------------------------------------------------------------------------
(* The exchange.                                                              *)

Subscribed == {m \in Managers : conn[m] = "up"}

Push(c, row) ==
  /\ \A m \in Subscribed : Len(feed[m]) < FeedCap
  /\ feed' = [m \in Managers |->
                IF m \in Subscribed THEN Append(feed[m], [c |-> c, row |-> row])
                ELSE feed[m]]

Trade(c, n) ==
  /\ trades < MaxTrades /\ n # real[c].size
  /\ real' = [real EXCEPT ![c] = Row(n)]
  /\ trades' = trades + 1
  /\ Push(c, Row(n))
  /\ UNCHANGED <<mirror, conn, merge, pc, snap, todo, cur, booting, orders, worth>>

(* The minutes after which every row of the contract is stale. *)
Aged(r) == [r EXCEPT !.old = r.size # 0]
Age(c) ==
  /\ \A m \in Managers : pc[m] = "sleep" /\ feed[m] = <<>> /\ merge[m] = Idle
  /\ orders = {}
  /\ real' = [real EXCEPT ![c] = Aged(@)]
  /\ mirror' = [m \in Managers |-> [mirror[m] EXCEPT ![c] = Aged(@)]]
  /\ UNCHANGED <<conn, feed, merge, pc, snap, todo, cur, booting, orders, trades, worth>>

(* A reduce-only order fills at most to flat. *)
Filled(size, o) ==
  LET whole == size + o.dir * o.size
      toFlat == IF Sign(size) = -o.dir /\ Abs(size) > o.size THEN whole ELSE 0
  IN IF ~o.reduce THEN whole
     ELSE IF Sign(size) = -o.dir THEN toFlat ELSE size

Fill(o) ==
  LET n == Filled(real[o.c].size, o) IN
    /\ Abs(n) <= Largest
    /\ orders' = orders \ {o}
    /\ IF n = real[o.c].size THEN UNCHANGED <<real, feed>>
       ELSE /\ real' = [real EXCEPT ![o.c] = Row(n)]
            /\ Push(o.c, Row(n))
    /\ UNCHANGED <<mirror, conn, merge, pc, snap, todo, cur, booting, trades, worth>>

Unfilled(o) ==
  /\ orders' = orders \ {o}
  /\ UNCHANGED <<real, mirror, conn, feed, merge, pc, snap, todo, cur, booting, trades, worth>>

-----------------------------------------------------------------------------
(* The WebSocket loop.  A connection whose login cannot be sent breaks out of *)
(* the loop that would reconnect; only a login answer leads to subscriptions. *)

Phase(m, from, to) ==
  /\ m \in Sockets /\ conn[m] \in from
  /\ conn' = [conn EXCEPT ![m] = to]
  /\ UNCHANGED <<real, mirror, merge, pc, snap, todo, cur, booting, orders, trades, worth>>

Connect(m) == Phase(m, {"off"}, "login") /\ UNCHANGED feed
ConnectFails(m) == Phase(m, {"off"}, "wait") /\ UNCHANGED feed
LoginUnsent(m) == Phase(m, {"off"}, "dead") /\ UNCHANGED feed
LoginAnswer(m) == Phase(m, {"login"}, "up") /\ UNCHANGED feed
Disconnect(m) ==
  /\ Phase(m, {"login", "up"}, "wait")
  /\ merge[m] = Idle
  /\ feed' = [feed EXCEPT ![m] = <<>>]
Backoff(m) == Phase(m, {"wait"}, "off") /\ UNCHANGED feed

(* futures.positions: load the map ... *)
WsLoad(m) ==
  /\ feed[m] # <<>> /\ merge[m] = Idle
  /\ merge' = [merge EXCEPT ![m] = mirror[m]]
  /\ UNCHANGED <<real, mirror, conn, feed, pc, snap, todo, cur, booting, orders, trades, worth>>

(* Mutant: an update is taken for a change of the size. *)
WsStoreAdds(m) ==
  /\ merge[m] # Idle
  /\ mirror' = [mirror EXCEPT ![m] =
       [merge[m] EXCEPT ![Head(feed[m]).c].size = @ + Head(feed[m]).row.size]]
  /\ merge' = [merge EXCEPT ![m] = Idle]
  /\ feed' = [feed EXCEPT ![m] = Tail(@)]
  /\ UNCHANGED <<real, conn, pc, snap, todo, cur, booting, orders, trades, worth>>

(* ... and store it with the update's row. *)
WsStore(m) ==
  /\ merge[m] # Idle
  /\ mirror' = [mirror EXCEPT ![m] =
                  [merge[m] EXCEPT ![Head(feed[m]).c] = Head(feed[m]).row]]
  /\ merge' = [merge EXCEPT ![m] = Idle]
  /\ feed' = [feed EXCEPT ![m] = Tail(@)]
  /\ UNCHANGED <<real, conn, pc, snap, todo, cur, booting, orders, trades, worth>>

-----------------------------------------------------------------------------
(* The update loop: fetch, store, look for stale positions, close them.       *)

Fetch(m) ==
  /\ pc[m] = "sleep"
  /\ snap' = [snap EXCEPT ![m] = real]
  /\ pc' = [pc EXCEPT ![m] = "fetched"]
  /\ UNCHANGED <<real, mirror, conn, feed, merge, todo, cur, booting, orders, trades, worth>>

(* The first pass of a monitor closes nothing; later ones ask no more. *)
Closes(m) == ~(booting[m] /\ m \in Monitors)

EnterCheck(m, rows) ==
  IF Closes(m)
  THEN /\ pc' = [pc EXCEPT ![m] = "check"]
       /\ todo' = [todo EXCEPT ![m] = {c \in Contracts : rows[c].size # 0}]
       /\ UNCHANGED booting
  ELSE /\ pc' = [pc EXCEPT ![m] = "sleep"]
       /\ booting' = [booting EXCEPT ![m] = FALSE]
       /\ UNCHANGED todo

(* The error is logged and the pass goes on with the old map. *)
FetchFails(m) ==
  /\ pc[m] = "sleep"
  /\ EnterCheck(m, mirror[m])
  /\ UNCHANGED <<real, mirror, conn, feed, merge, snap, cur, orders, trades, worth>>

(* The map is cleared and filled with the snapshot. *)
Cleared(m) == snap[m]

Store(m) ==
  /\ pc[m] = "fetched"
  /\ mirror' = [mirror EXCEPT ![m] = Cleared(m)]
  /\ snap' = [snap EXCEPT ![m] = NoRows]
  /\ EnterCheck(m, Cleared(m))
  /\ UNCHANGED <<real, conn, feed, merge, cur, orders, trades, worth>>

IsStale(m, c) == mirror[m][c].size # 0 /\ mirror[m][c].old

(* The next contract of the map the pass began with. *)
Look(m, c) ==
  /\ pc[m] = "check" /\ c \in todo[m]
  /\ todo' = [todo EXCEPT ![m] = @ \ {c}]
  /\ IF IsStale(m, c)
     THEN pc' = [pc EXCEPT ![m] = "close"] /\ cur' = [cur EXCEPT ![m] = c]
     ELSE UNCHANGED <<pc, cur>>
  /\ UNCHANGED <<real, mirror, conn, feed, merge, snap, booting, orders, trades, worth>>

PassOver(m) ==
  /\ pc[m] = "check" /\ todo[m] = {}
  /\ pc' = [pc EXCEPT ![m] = "sleep"]
  /\ booting' = [booting EXCEPT ![m] = FALSE]
  /\ UNCHANGED <<real, mirror, conn, feed, merge, snap, todo, cur, orders, trades, worth>>

(* reduce_only of an order: by its level. *)
LimitOnly(level) == level = "limit_close"
ReduceOnly(level) == level \in {"limit_close", "market_close"}

(* The largest order: an amount in USDT, truncated to contracts. *)
CloseSize(c) == IF worth[c] = 0 THEN 0 ELSE CloseUsdt \div worth[c]

(* The market close of what the map shows, in pieces, whatever its age by now; *)
(* of size 0 where the amount does not buy a contract.                         *)
CloseOrder(m) ==
  LET c == cur[m]
      size == mirror[m][c].size
  IN [m |-> m, c |-> c, dir |-> -Sign(size), size |-> Least(CloseSize(c), Abs(size)),
      reduce |-> ReduceOnly("market_close")]

Own(m) == {o \in orders : o.m = m}

Place(m) ==
  /\ pc[m] = "close" /\ mirror[m][cur[m]].size # 0
  /\ Cardinality(Own(m) \cup {CloseOrder(m)}) <= MaxInFlight
  /\ pc' = [pc EXCEPT ![m] = "sent"]
  /\ orders' \in {orders, orders \cup {CloseOrder(m)}}   \* or the call fails
  /\ UNCHANGED <<real, mirror, conn, feed, merge, snap, todo, cur, booting, trades, worth>>

Refetch(m) ==
  /\ pc[m] = "sent"
  /\ snap' = [snap EXCEPT ![m] = real]
  /\ pc' = [pc EXCEPT ![m] = "refetched"]
  /\ UNCHANGED <<real, mirror, conn, feed, merge, todo, cur, booting, orders, trades, worth>>

(* An error here ends the pass. *)
RefetchFails(m) ==
  /\ pc[m] = "sent"
  /\ pc' = [pc EXCEPT ![m] = "sleep"]
  /\ todo' = [todo EXCEPT ![m] = {}]
  /\ booting' = [booting EXCEPT ![m] = FALSE]
  /\ UNCHANGED <<real, mirror, conn, feed, merge, snap, cur, orders, trades, worth>>

Restore(m) ==
  /\ pc[m] = "refetched"
  /\ mirror' = [mirror EXCEPT ![m] = Cleared(m)]
  /\ snap' = [snap EXCEPT ![m] = NoRows]
  /\ pc' = [pc EXCEPT ![m] = "close"]
  /\ UNCHANGED <<real, conn, feed, merge, todo, cur, booting, orders, trades, worth>>

Closed(m) ==
  /\ pc[m] = "close" /\ mirror[m][cur[m]].size = 0
  /\ pc' = [pc EXCEPT ![m] = "check"]
  /\ UNCHANGED <<real, mirror, conn, feed, merge, snap, todo, cur, booting, orders, trades, worth>>

Socket(m) ==
  \/ Connect(m) \/ ConnectFails(m) \/ LoginUnsent(m) \/ LoginAnswer(m)
  \/ Disconnect(m) \/ Backoff(m) \/ WsLoad(m) \/ WsStore(m)

Loop(m) ==
  \/ Fetch(m) \/ FetchFails(m) \/ Store(m) \/ PassOver(m) \/ Place(m)
  \/ Refetch(m) \/ RefetchFails(m) \/ Restore(m) \/ Closed(m)
  \/ \E c \in Contracts : Look(m, c)

Next ==
  \/ \E c \in Contracts, n \in -Largest .. Largest : Trade(c, n)
  \/ \E c \in Contracts : Age(c)
  \/ \E o \in orders : Fill(o) \/ Unfilled(o)
  \/ \E m \in Managers : Socket(m) \/ Loop(m)

(* The threads run; of many HTTP requests some are answered, of many close     *)
(* orders some are taken and filled.  Nothing is asked of the WebSocket.       *)
Fairness ==
  /\ \A m \in Managers :
       /\ WF_vars(Loop(m))
       /\ SF_vars(Fetch(m) \/ Refetch(m))
       /\ SF_vars(Place(m) /\ orders' # orders)
       /\ WF_vars(WsLoad(m) \/ WsStore(m))
  /\ SF_vars(\E o \in orders : Fill(o))

Spec == Init /\ [][Next]_vars /\ Fairness

-----------------------------------------------------------------------------
(* Properties.                                                                *)

(* However old the maps of the closers are, and however many of them run, no  *)
(* close makes a position larger or turns it around (market_close is          *)
(* reduce-only).                                                              *)
ClosesOnlyShrink ==
  [][trades' = trades => \A c \in Contracts :
       /\ Abs(real'[c].size) <= Abs(real[c].size)
       /\ Sign(real'[c].size) \in {0, Sign(real[c].size)}]_vars

(* When the trading has ended, every map ends up equal to the exchange's       *)
(* positions, whatever updates were lost, overwritten or merged into old maps, *)
(* and even where the WebSocket loop is dead.                                  *)
EventuallyAccurate ==
  <>[](\A m \in Managers, c \in Contracts : mirror[m][c].size = real[c].size)

(* A position that has become stale is closed, or traded again, or a manager   *)
(* is in a close loop whose orders have size 0, which never ends and keeps it   *)
(* from every other position (the loop runs while the position is there).      *)
StaleAreClosed ==
  \A c \in Contracts :
    (real[c].size # 0 /\ real[c].old) ~>
      \/ real[c].size = 0 \/ ~real[c].old
      \/ \E m \in Managers : pc[m] = "close" /\ CloseSize(cur[m]) = 0
=============================================================================
