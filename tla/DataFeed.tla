------------------------------- MODULE DataFeed -------------------------------
(* How flipster_rust gets its market data.  One of three clients receives it:   *)
(* over a Unix socket (ipc_client.rs), over ZMQ (zmq_sub_client.rs) or over     *)
(* Flipster's WebSockets (flipster_ws_client.rs).  Two threads stop and start   *)
(* the client: the one that restarts the strategy (strategy.rs) and the one     *)
(* that takes new symbols from the configuration (runner.rs).  A receiver that  *)
(* is stopped only sees a cleared flag, and may look when it is set again.      *)
EXTENDS Integers, FiniteSets

CONSTANTS
  Kinds,         \* the clients to check, a subset of {"ipc", "zmq", "flipster"}
  Feeds,         \* the feeds of the Flipster client, of {"api", "web", "binance"}
  MaxTasks,      \* bound: receivers alive
  MaxRefreshes   \* bound: changes of the symbols

ConstantsOK ==
  /\ Kinds \subseteq {"ipc", "zmq", "flipster"} /\ Feeds \subseteq {"api", "web", "binance"}
  /\ {MaxTasks, MaxRefreshes} \subseteq Nat

VARIABLES
  kind,
  running,       \* the flag of the client
  pc,            \* starter -> where it is
  wanted,        \* version of the symbol list, refreshes so far
  server,        \* the source of the data answers
  task           \* slot -> receiver, or Nobody

vars == <<kind, running, pc, wanted, server, task>>

Starters == {"restart", "refresh"}
Nobody == [feed |-> "none", at |-> "gone", symbols |-> 0]
Slots == 1..MaxTasks
Live == {t \in Slots : task[t] # Nobody}

TypeOK ==
  /\ kind \in Kinds /\ running \in BOOLEAN /\ server \in BOOLEAN
  /\ pc \in [Starters -> {"idle", "updated", "stopped", "store"}]
  /\ wanted \in 0..MaxRefreshes
  /\ task \in [Slots -> {Nobody} \cup
        [feed : {"ipc", "zmq"} \cup Feeds, symbols : 0..MaxRefreshes,
         at : {"top", "open", "read", "woken", "pause", "ending"}]]

Init ==
  /\ kind \in Kinds
  /\ running = FALSE /\ wanted = 0 /\ server \in BOOLEAN
  /\ pc = [s \in Starters |-> IF s = "restart" THEN "stopped" ELSE "idle"]
  /\ task = [t \in Slots |-> Nobody]

-----------------------------------------------------------------------------
(* start and stop.                                                            *)

(* A feed of the Flipster client reads the symbols when it connects, the      *)
(* others when they are started.                                              *)
First(f) == [feed |-> f, symbols |-> wanted,
             at |-> CASE f = "ipc" -> "open" [] f \in {"zmq", "binance"} -> "read"
                      [] OTHER -> "top"]

(* A start with all slots taken lets the model forget a receiver that reads.  *)
Room(n) ==
  LET free == Slots \ Live IN
  IF Cardinality(free) >= n THEN {CHOOSE r \in SUBSET free : Cardinality(r) = n}
  ELSE {r \in SUBSET Slots : free \subseteq r /\ Cardinality(r) = n
                            /\ \A t \in r \cap Live : task[t].at = "read"}

Spawn(fs) ==
  \E r \in Room(Cardinality(fs)) :
    LET f == CHOOSE g \in [r -> fs] : \A x \in fs : \E t \in r : g[t] = x
    IN task' = [t \in Slots |-> IF t \in r THEN First(f[t]) ELSE task[t]]

At(w, from, to) == pc[w] = from /\ pc' = [pc EXCEPT ![w] = to]

(* start of the IPC client reads the flag and sets it in two steps. *)
start_ipc(w) ==
  /\ kind = "ipc"
  /\ \/ /\ IF running THEN At(w, "stopped", "idle") ELSE At(w, "stopped", "store")
        /\ UNCHANGED <<running, task>>
     \/ At(w, "store", "idle") /\ running' = TRUE /\ Spawn({"ipc"})
  /\ UNCHANGED <<kind, wanted, server>>

start_zmq(w) ==
  /\ kind = "zmq"
  /\ \/ /\ IF running THEN At(w, "stopped", "idle") ELSE At(w, "stopped", "store")
        /\ UNCHANGED <<running, task>>
     \/ At(w, "store", "idle") /\ running' = TRUE /\ Spawn({"zmq"})
  /\ UNCHANGED <<kind, wanted, server>>

(* start of the Flipster client swaps the flag. *)
start_flipster(w) ==
  /\ kind = "flipster"
  /\ At(w, "stopped", "idle")
  /\ running' = TRUE
  /\ IF running THEN UNCHANGED task ELSE Spawn(Feeds)
  /\ UNCHANGED <<kind, wanted, server>>

(* The restart comes a second after the stop: by then a poller has looked. *)
Polls(t) == task[t].feed \in {"zmq", "binance"}
LongEnough(w) == w = "restart" /\ ~running => \A t \in Live : ~Polls(t)

Start(w) == LongEnough(w) /\ (start_ipc(w) \/ start_zmq(w) \/ start_flipster(w))

(* notify_waiters reaches the tasks that wait at that moment: the ones in the *)
(* pause before a reconnection end, the ones that read go to the pause; those *)
(* that handle a message do not wait.                                         *)
Waiting == {t \in Live : task[t].feed \in {"api", "web"} /\ task[t].at \in {"read", "pause"}}
Notified(busy) ==
  [t \in Slots |-> IF t \notin Waiting \ busy THEN task[t]
                   ELSE IF task[t].at = "pause" THEN Nobody
                   ELSE [task[t] EXCEPT !.at = "woken"]]
Notify ==
  IF kind = "flipster"
  THEN \E busy \in SUBSET {t \in Waiting : task[t].at = "read"} : task' = Notified(busy)
  ELSE UNCHANGED task

(* Restarts are minutes apart: the receivers have come to rest. *)
Settled == \A t \in Live :
  /\ task[t].at = "read" \/ (~server /\ task[t].at \in {"open", "pause"})
  /\ running \/ task[t].feed \in {"api", "web"} \/ ~server

(* Mutant: the flag of the client stays set. *)
StopKeepsFlag(w) ==
  /\ w = "restart" => Settled
  /\ At(w, IF w = "restart" THEN "idle" ELSE "updated", "stopped")
  /\ Notify
  /\ UNCHANGED <<kind, running, wanted, server>>

Stop(w) ==
  /\ w = "restart" => Settled
  /\ At(w, IF w = "restart" THEN "idle" ELSE "updated", "stopped")
  /\ running' = FALSE
  /\ Notify
  /\ UNCHANGED <<kind, wanted, server>>

update_symbols ==
  /\ wanted < MaxRefreshes
  /\ At("refresh", "idle", "updated")
  /\ wanted' = wanted + 1
  /\ Notify
  /\ UNCHANGED <<kind, running, server>>

-----------------------------------------------------------------------------
(* The receivers.                                                             *)

Move(t, to) == task' = [task EXCEPT ![t] = IF to = "gone" THEN Nobody ELSE [task[t] EXCEPT !.at = to]]
Of(t, f, a) == task[t].feed = f /\ task[t].at = a

(* receive_loop of the IPC client: no socket and a failed connection or read  *)
(* end it with the flag still set; a closed connection and a cleared flag,    *)
(* looked at after each read, end it with the flag cleared.                   *)
receive_ipc(t) ==
  /\ \/ Of(t, "ipc", "open") /\ Move(t, IF server THEN "read" ELSE "gone") /\ UNCHANGED running
     \/ Of(t, "ipc", "read") /\ server /\ ~running /\ Move(t, "ending") /\ UNCHANGED running
     \/ Of(t, "ipc", "read") /\ ~server /\ UNCHANGED running
        /\ (Move(t, "ending") \/ (running /\ Move(t, "gone")))
     \/ Of(t, "ipc", "ending") /\ Move(t, "gone") /\ running' = FALSE
  /\ UNCHANGED <<kind, pc, wanted, server>>

(* receive_loop of the ZMQ client looks at the flag after each poll. *)
receive_zmq(t) ==
  /\ \/ Of(t, "zmq", "read") /\ ~running /\ Move(t, "ending") /\ UNCHANGED running
     \/ Of(t, "zmq", "ending") /\ Move(t, "gone") /\ running' = FALSE
  /\ UNCHANGED <<kind, pc, wanted, server>>

(* spawn_binance_zmq. *)
receive_binance(t) ==
  /\ Of(t, "binance", "read") /\ ~running
  /\ Move(t, "gone")
  /\ UNCHANGED <<kind, running, pc, wanted, server>>

(* An error of the socket ends either of them with the flag still set. *)
receive_error(t) ==
  /\ Polls(t) /\ task[t].at = "read" /\ running
  /\ Move(t, "gone")
  /\ UNCHANGED <<kind, running, pc, wanted, server>>

(* The loops of the API and the web feed: connect, subscribe, read until the  *)
(* connection is lost or the client says so, pause three seconds, look again. *)
Reconnects(t) == task[t].feed \in {"api", "web"} /\ task[t].at \in {"woken", "pause"}
feed_loop(t) ==
  /\ \/ /\ task[t].feed \in {"api", "web"} /\ task[t].at = "top"
        /\ task' = [task EXCEPT ![t] =
             IF running THEN [task[t] EXCEPT !.at = "open", !.symbols = wanted] ELSE Nobody]
     \/ Reconnects(t) /\ Move(t, IF task[t].at = "woken" THEN "pause" ELSE "top")
  /\ UNCHANGED <<kind, running, pc, wanted, server>>

api_feed_once(t) ==
  /\ \/ Of(t, "api", "open") /\ Move(t, IF server THEN "read" ELSE "pause")
     \/ Of(t, "api", "read") /\ ~server /\ Move(t, "pause")
  /\ UNCHANGED <<kind, running, pc, wanted, server>>

web_feed_once(t) ==
  /\ \/ Of(t, "web", "open") /\ Move(t, IF server THEN "read" ELSE "pause")
     \/ Of(t, "web", "read") /\ ~server /\ Move(t, "pause")
  /\ UNCHANGED <<kind, running, pc, wanted, server>>

(* The server comes and goes. *)
Flap == server' = ~server /\ UNCHANGED <<kind, running, pc, wanted, task>>

Receive(t) == \/ receive_ipc(t) \/ receive_zmq(t) \/ receive_binance(t)
              \/ feed_loop(t) \/ api_feed_once(t) \/ web_feed_once(t)

Next ==
  \/ \E w \in Starters : Start(w) \/ Stop(w)
  \/ update_symbols
  \/ \E t \in Slots : Receive(t) \/ receive_error(t)
  \/ Flap

Spec == Init /\ [][Next]_vars

(* Threads and tasks are scheduled, sleeps end, and a server that answers      *)
(* sends data.                                                                *)
Fairness ==
  /\ \A w \in Starters : WF_vars(Start(w)) /\ WF_vars(Stop(w))
  /\ \A t \in Slots : WF_vars(Receive(t))

-----------------------------------------------------------------------------
(* The comment at strategy.rs:113 says that threads clean up while the restart *)
(* waits: a feed that is started again is then read by one task.               *)
ReceivedOnce == \A f \in Feeds \cup {"ipc", "zmq"} :
                  Cardinality({t \in Live : task[t].feed = f /\ task[t].at = "read"}) <= 1

(* Whatever the two starters and the receivers of earlier starts do to the     *)
(* flag, data of the wanted symbols keep coming back once the server stays     *)
(* up: a receiver that failed or was ended by another is replaced.             *)
Served(f) == \E t \in Live : /\ task[t].feed = f /\ task[t].at = "read"
                             /\ f \in {"zmq", "binance"} \/ task[t].symbols = wanted
DataReturns ==
  <>[]server => \A f \in Feeds \cup {"ipc", "zmq"} :
    (f \in IF kind = "flipster" THEN Feeds ELSE {kind}) => []<>Served(f)
=============================================================================
