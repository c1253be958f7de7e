-------------------------------- MODULE TickFeed --------------------------------
(* The quote pipeline of feed/: a WebSocket task of data_publisher receives the    *)
(* exchange's partial updates of a symbol, the collecting loop merges them and     *)
(* publishes bid and ask over ZMQ, data_subscriber passes every message to its     *)
(* IPC clients.                                                                    *)
(* The exchange's updates are numbered; a price is the number of the update that   *)
(* set it, 0 before the first.  Delivery by ZMQ is external: messages keep their   *)
(* order and may be lost.                                                          *)
EXTENDS Integers, Sequences, FiniteSets, SequencesExt, FiniteSetsExt

CONSTANTS
  Conns,         \* registrations of IPC clients, one each
  QueueCap,      \* of a client (8,192)
  PubCap,        \* of the publisher thread (65,536)
  TaskCap,       \* of the channel of the tasks (4,096); a full one blocks
  MaxUpdates,    \* bound: updates of the exchange
  MaxDrops       \* bound: disconnections

ConstantsOK == {QueueCap, PubCap, TaskCap, MaxUpdates} \subseteq Nat \ {0} /\ MaxDrops \in Nat

Tops == {"bid", "ask"}    \* prices at the top of the book
Updates == SUBSET Tops

VARIABLES
  updates,       \* what the exchange has sent, in order
  socket,        \* updates on the connection
  linked,        \* the task is subscribed
  drops,
  lost,          \* history: updates no connection delivered
  events,        \* channel of the tasks
  merged,        \* TickerState
  outbox,        \* channel of the publisher thread
  wire,          \* between the ZMQ sockets
  cast,          \* what was broadcast to the clients, in order
  entry,         \* registration -> "none", "listed", "removed"
  since,         \* registration -> messages broadcast before it
  queue,         \* registration -> its channel
  writer,        \* registration -> its writer runs
  got            \* registration -> what the client has read

ipc == <<cast, entry, since, queue, writer, got>>
vars == <<updates, socket, linked, drops, lost, events, merged, outbox, wire, ipc>>

Numbers == 0..Len(updates)
Messages == {m \in [n : Numbers, bid : Numbers, ask : Numbers] : m.n > 0}

TypeOK ==
  /\ updates \in Seq(Updates)
  /\ ToSet(socket) \cup ToSet(events) \subseteq Numbers
  /\ linked \in BOOLEAN /\ drops \in 0..MaxDrops /\ lost \subseteq Numbers
  /\ merged \in [Tops -> Numbers]
  /\ ToSet(outbox) \cup ToSet(wire) \cup ToSet(cast) \subseteq Messages
  /\ entry \in [Conns -> {"none", "listed", "removed"}]
  /\ writer \in [Conns -> BOOLEAN]
  /\ \A c \in Conns : /\ since[c] \in 0..Len(cast)
                      /\ Len(queue[c]) <= QueueCap
                      /\ ToSet(queue[c]) \cup ToSet(got[c]) \subseteq ToSet(cast)

Init ==
  /\ updates = <<>> /\ socket = <<>> /\ events = <<>>
  /\ linked = FALSE /\ drops = 0 /\ lost = {}
  /\ merged = [p \in Tops |-> 0]
  /\ outbox = <<>> /\ wire = <<>> /\ cast = <<>>
  /\ entry = [c \in Conns |-> "none"] /\ since = [c \in Conns |-> 0]
  /\ queue = [c \in Conns |-> <<>>] /\ got = [c \in Conns |-> <<>>]
  /\ writer = [c \in Conns |-> FALSE]

-----------------------------------------------------------------------------
(* data_publisher.                                                            *)

(* The exchange moves a price, both, or another one (the empty set).          *)
Update(u) ==
  /\ Len(updates) < MaxUpdates
  /\ updates' = Append(updates, u)
  /\ IF linked
     THEN socket' = Append(socket, Len(updates')) /\ UNCHANGED lost
     ELSE lost' = lost \cup {Len(updates')} /\ UNCHANGED socket
  /\ UNCHANGED <<linked, drops, events, merged, outbox, wire, ipc>>

(* ws_task connects and subscribes.                                           *)
Connect ==
  /\ ~linked /\ linked' = TRUE
  /\ UNCHANGED <<updates, socket, drops, lost, events, merged, outbox, wire, ipc>>

(* The connection ends; the task pauses and connects again.                   *)
Disconnect ==
  /\ linked /\ drops < MaxDrops
  /\ linked' = FALSE /\ drops' = drops + 1
  /\ socket' = <<>> /\ lost' = lost \cup ToSet(socket)
  /\ UNCHANGED <<updates, events, merged, outbox, wire, ipc>>

(* A message is parsed and its events sent to the loop.                       *)
Read ==
  /\ linked /\ socket # <<>> /\ Len(events) < TaskCap
  /\ events' = Append(events, Head(socket))
  /\ socket' = Tail(socket)
  /\ UNCHANGED <<updates, linked, drops, lost, merged, outbox, wire, ipc>>

(* TickerState::merge: a field that did not come keeps its value.             *)
Merge(n) == [p \in Tops |-> IF p \in updates[n] THEN n ELSE merged[p]]

(* The loop: merge, and publish once both prices are known; a full channel    *)
(* drops the message.                                                         *)
Collect ==
  /\ events # <<>>
  /\ events' = Tail(events)
  /\ merged' = Merge(Head(events))
  /\ outbox' =
       IF (\A p \in Tops : merged'[p] > 0) /\ Len(outbox) < PubCap
       THEN Append(outbox, [n |-> Head(events), bid |-> merged'["bid"], ask |-> merged'["ask"]])
       ELSE outbox
  /\ UNCHANGED <<updates, socket, linked, drops, lost, wire, ipc>>

(* zmq_pub_thread; ZMQ may lose the message.                                  *)
Publish ==
  /\ outbox # <<>> /\ outbox' = Tail(outbox)
  /\ wire' \in {wire, Append(wire, Head(outbox))}
  /\ UNCHANGED <<updates, socket, linked, drops, lost, events, merged, ipc>>

-----------------------------------------------------------------------------
(* data_subscriber.                                                           *)

Listed == {c \in Conns : entry[c] = "listed"}

(* try_send fails on a full channel and on one whose writer is gone.          *)
Fits(c) == writer[c] /\ Len(queue[c]) < QueueCap

(* Mutant: a full client is skipped. *)
BroadcastSkips(m) ==
  /\ cast' = Append(cast, m)
  /\ queue' = [c \in Conns |-> IF c \in Listed /\ Fits(c) THEN Append(queue[c], m) ELSE queue[c]]
  /\ entry' = [c \in Conns |-> IF c \in Listed /\ ~writer[c] THEN "removed" ELSE entry[c]]

(* IpcServer::broadcast: a client that does not take the message is removed.  *)
Broadcast(m) ==
  /\ cast' = Append(cast, m)
  /\ queue' = [c \in Conns |-> IF c \in Listed /\ Fits(c) THEN Append(queue[c], m) ELSE queue[c]]
  /\ entry' = [c \in Conns |-> IF c \in Listed /\ ~Fits(c) THEN "removed" ELSE entry[c]]

(* The receive loop.                                                          *)
Forward ==
  /\ wire # <<>> /\ wire' = Tail(wire)
  /\ Broadcast(Head(wire))
  /\ UNCHANGED <<updates, socket, linked, drops, lost, events, merged, outbox, since, writer, got>>

(* handle_client: the registration line is read, the client listed.           *)
Register(c) ==
  /\ entry[c] = "none"
  /\ entry' = [entry EXCEPT ![c] = "listed"]
  /\ writer' = [writer EXCEPT ![c] = TRUE]
  /\ since' = [since EXCEPT ![c] = Len(cast)]
  /\ UNCHANGED <<updates, socket, linked, drops, lost, events, merged, outbox, wire, cast, queue, got>>

(* The writer sends the next message.                                         *)
Write(c) ==
  /\ writer[c] /\ queue[c] # <<>>
  /\ got' = [got EXCEPT ![c] = Append(@, Head(queue[c]))]
  /\ queue' = [queue EXCEPT ![c] = Tail(@)]
  /\ UNCHANGED <<updates, socket, linked, drops, lost, events, merged, outbox, wire, cast, entry, since, writer>>

(* The client has gone: the write fails and the channel goes with the writer. *)
WriteFails(c) ==
  /\ writer[c] /\ queue[c] # <<>>
  /\ writer' = [writer EXCEPT ![c] = FALSE]
  /\ queue' = [queue EXCEPT ![c] = <<>>]
  /\ UNCHANGED <<updates, socket, linked, drops, lost, events, merged, outbox, wire, cast, entry, since, got>>

(* A removed client's channel has no sender: once it is drained the writer    *)
(* ends and the client reads the end of the stream.                           *)
Finish(c) ==
  /\ writer[c] /\ entry[c] = "removed" /\ queue[c] = <<>>
  /\ writer' = [writer EXCEPT ![c] = FALSE]
  /\ UNCHANGED <<updates, socket, linked, drops, lost, events, merged, outbox, wire, cast, entry, since, queue, got>>

Next ==
  \/ \E u \in Updates : Update(u)
  \/ Connect \/ Disconnect \/ Read \/ Collect \/ Publish \/ Forward
  \/ \E c \in Conns : Register(c) \/ Write(c) \/ WriteFails(c) \/ Finish(c)

Spec == Init /\ [][Next]_vars

-----------------------------------------------------------------------------
(* A client that is too slow is cut off and never served with a hole: what it has  *)
(* read is, message by message, what was broadcast after its registration, and     *)
(* while it is listed nothing of that is missing between the read and the queued   *)
(* (IpcServer::broadcast, handle_client).                                          *)
NoHole ==
  \A c \in Conns :
    LET served == got[c] \o queue[c]
    IN  /\ served = SubSeq(cast, since[c] + 1, since[c] + Len(served))
        /\ entry[c] = "listed" /\ writer[c] => since[c] + Len(served) = Len(cast)

(* The published quotes never go back, no price is published before it is known,   *)
(* and a price is older than the exchange's only when a connection lost the newer  *)
(* one: after a reconnection a bid may stay from before it (TickerState::merge,    *)
(* is_ready, ws_task).                                                             *)
QuotesTrue ==
  /\ \A i, j \in 1..Len(cast) :
       i < j => /\ cast[i].n < cast[j].n
                /\ cast[i].bid <= cast[j].bid /\ cast[i].ask <= cast[j].ask
  /\ \A m \in ToSet(cast) : \A p \in Tops :
       /\ m[p] > 0
       /\ \A k \in m[p] + 1..m.n : p \in updates[k] => k \in lost
=============================================================================
