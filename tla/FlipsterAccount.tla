---------------------------- MODULE FlipsterAccount ----------------------------
(* The executor's mirror of its Flipster account (executor/src/                   *)
(* flipster_account.rs): a task that polls four REST resources and replaces what  *)
(* it knows, and a task that applies the rows of a WebSocket.  Both compare with  *)
(* the state under its lock, release it, and then send what changed to the        *)
(* subscribers.  Of the resources the positions are kept: a row is a symbol and   *)
(* a slot, its value the amount, 0 for none.                                      *)
EXTENDS Integers, Sequences, FiniteSets, SequencesExt

CONSTANTS
  Rows,
  Largest,       \* bound: amounts
  MaxChanges,    \* bound: changes at the venue
  FeedCap        \* bound: messages on their way

ConstantsOK == IsFiniteSet(Rows) /\ {Largest, MaxChanges, FeedCap} \subseteq Nat \ {0}

VARIABLES
  real,          \* the venue
  conn, feed,    \* the WebSocket, and its messages: <<row, amount>>
  positions,     \* AccountState.positions
  poll,          \* stage of poll_once, and the positions it was answered
  emit,          \* task -> changes it has still to send: <<row, kind>>
  opens, closes, \* row -> Open and Close events sent so far (history)
  changes        \* (bound)

vars == <<real, conn, feed, positions, poll, emit, opens, closes, changes>>
wire == <<conn, feed>>
sent == <<opens, closes>>

Writers == {"rest", "ws"}
Amounts == [Rows -> 0..Largest]
Idle == [at |-> "idle", rows |-> [r \in Rows |-> 0]]

TypeOK ==
  /\ {real, positions} \subseteq Amounts
  /\ conn \in BOOLEAN /\ Len(feed) <= FeedCap
  /\ ToSet(feed) \subseteq Rows \X (0..Largest)
  /\ poll.at \in {"idle", "asked", "answered"} /\ poll.rows \in Amounts
  /\ \A t \in Writers : ToSet(emit[t]) \subseteq Rows \X {"Open", "Update", "Close"}
  /\ {opens, closes} \subseteq [Rows -> Nat]

Init ==
  /\ real \in Amounts /\ positions = [r \in Rows |-> 0]
  /\ conn = FALSE /\ feed = <<>>
  /\ poll = Idle /\ emit = [t \in Writers |-> <<>>]
  /\ opens = [r \in Rows |-> 0] /\ closes = [r \in Rows |-> 0]
  /\ changes = 0

(* The venue changes a position and tells the socket. *)
Change(r, n) ==
  /\ changes < MaxChanges /\ n # real[r]
  /\ Len(feed) < FeedCap
  /\ changes' = changes + 1
  /\ real' = [real EXCEPT ![r] = n]
  /\ feed' = IF conn THEN Append(feed, <<r, n>>) ELSE feed
  /\ UNCHANGED <<conn, positions, poll, emit, sent>>

(* What a subscriber is told of a row that was p and is n. *)
Kind(p, n) == IF p = 0 THEN "Open" ELSE IF n = 0 THEN "Close" ELSE "Update"

-----------------------------------------------------------------------------
(* The REST task; it sends all changes of a poll before the next one.         *)

StartPoll ==
  /\ poll.at = "idle" /\ emit["rest"] = <<>>
  /\ poll' = [poll EXCEPT !.at = "asked"]
  /\ UNCHANGED <<real, wire, positions, emit, sent, changes>>

(* The positions are the last of four requests; any of them may fail.         *)
Answer ==
  /\ poll.at = "asked"
  /\ poll' = [at |-> "answered", rows |-> real]
  /\ UNCHANGED <<real, wire, positions, emit, sent, changes>>

PollFails ==
  /\ poll.at = "asked" /\ poll' = Idle
  /\ UNCHANGED <<real, wire, positions, emit, sent, changes>>

(* diff_positions, in any order (the maps are hashed).                        *)
diff_positions(new) == {<<r, Kind(positions[r], new[r])>> : r \in {q \in Rows : positions[q] # new[q]}}

(* "REST is the authoritative snapshot - replace, don't merge". *)
Replace ==
  /\ poll.at = "answered" /\ poll' = Idle
  /\ positions' = poll.rows
  /\ \E order \in SetToSeqs(diff_positions(poll.rows)) : emit' = [emit EXCEPT !["rest"] = order]
  /\ UNCHANGED <<real, wire, sent, changes>>

-----------------------------------------------------------------------------
(* The WebSocket task.                                                        *)

Connect ==
  /\ ~conn /\ conn' = TRUE
  /\ UNCHANGED <<real, feed, positions, poll, emit, sent, changes>>

(* What was on its way is lost, and the state stays as it is.                 *)
Disconnect ==
  /\ conn /\ conn' = FALSE /\ feed' = <<>>
  /\ changes < MaxChanges /\ changes' = changes + 1
  /\ UNCHANGED <<real, positions, poll, emit, sent>>

(* apply_row: an unchanged row, or the end of an unknown one, is no event.    *)
Apply ==
  /\ feed # <<>> /\ emit["ws"] = <<>>
  /\ feed' = Tail(feed)
  /\ LET r == Head(feed)[1]
         n == Head(feed)[2]
     IN  /\ positions' = [positions EXCEPT ![r] = n]
         /\ emit' = IF n = positions[r] THEN emit
                    ELSE [emit EXCEPT !["ws"] = <<<<r, Kind(positions[r], n)>>>>]
  /\ UNCHANGED <<real, conn, poll, sent, changes>>

Emit(t) ==
  /\ emit[t] # <<>>
  /\ emit' = [emit EXCEPT ![t] = Tail(@)]
  /\ LET r == Head(emit[t])[1]
         kind == Head(emit[t])[2]
     IN  /\ opens' = IF kind = "Open" THEN [opens EXCEPT ![r] = @ + 1] ELSE opens
         /\ closes' = IF kind = "Close" THEN [closes EXCEPT ![r] = @ + 1] ELSE closes
  /\ UNCHANGED <<real, wire, positions, poll, changes>>

Next ==
  \/ \E r \in Rows, n \in 0..Largest : Change(r, n)
  \/ StartPoll \/ Answer \/ PollFails \/ Replace
  \/ Connect \/ Disconnect \/ Apply
  \/ \E t \in Writers : Emit(t)

Spec == Init /\ [][Next]_vars

(* The interval ticks, the lock is fair (tokio), the socket is read; a poll   *)
(* that is tried again and again succeeds at some time.                       *)
Fairness ==
  /\ WF_vars(StartPoll) /\ SF_vars(Answer) /\ WF_vars(Replace) /\ WF_vars(Apply)
  /\ \A t \in Writers : WF_vars(Emit(t))

-----------------------------------------------------------------------------
Pending(r, kind) ==
  Cardinality({p \in Writers \X (1..Cardinality(Rows)) :
                 p[2] <= Len(emit[p[1]]) /\ emit[p[1]][p[2]] = <<r, kind>>})

(* Whichever of the two tasks finds a change first, a position is reported opened  *)
(* and closed as often as it appeared in and left the state: no event twice, none  *)
(* missing.  The order of two tasks' events is not promised (poll_once, apply_row).*)
EventsBalance ==
  \A r \in Rows :
    opens[r] + Pending(r, "Open") - closes[r] - Pending(r, "Close")
      = (IF positions[r] = 0 THEN 0 ELSE 1)

(* A snapshot that was answered before a newer row arrived may set the state back, *)
(* and rows are lost with the connection; but the state follows the venue again    *)
(* (poll_once).                                                                    *)
FollowsVenue == <>[](changes = MaxChanges) => <>[](positions = real)
=============================================================================
