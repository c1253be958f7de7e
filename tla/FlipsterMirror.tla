----------------------------- MODULE FlipsterMirror -----------------------------
(* Two programs mirror the positions of a Flipster account from its private     *)
(* WebSocket: the executor (flipster_ws.rs) and flipster_rust                   *)
(* (flipster_private_ws.rs).  On subscribing they get a snapshot of what is     *)
(* open, then updates of single fields and deletes; both merge what they get    *)
(* into the rows they have, and keep the rows over a lost connection.           *)
EXTENDS Integers, Sequences, FiniteSets

CONSTANTS
  Symbols,
  Readers,     \* the programs, a subset of {"executor", "rust"}
  Largest,     \* bound: positions are -Largest .. Largest
  MaxChanges,  \* bound: changes of a position at the exchange
  MaxLosses    \* bound: losses of the connection

VARIABLES
  reader,      \* the program
  real,        \* symbol -> position
  margin,      \* symbol -> initMarginReserved
  rows,        \* symbol -> fields of the mirrored row, or None
  connected,
  feed,        \* messages under way, oldest first
  changes, losses,
  unseen       \* symbols closed while nobody listened (history)

vars == <<reader, real, margin, rows, connected, feed, changes, losses, unseen>>

ConstantsOK == Readers \subseteq {"executor", "rust"} /\ Largest \in Nat \ {0}

Absent == -Largest - 1            \* no size
NoRow == [pos |-> Absent, margin |-> Absent]   \* a row without either field
None == [none |-> TRUE]
Fields == [pos : {Absent} \cup (-Largest .. Largest), margin : {Absent, 0, 1}]

TypeOK ==
  /\ reader \in Readers
  /\ real \in [Symbols -> -Largest .. Largest]
  /\ margin \in [Symbols -> {0, 1}]
  /\ rows \in [Symbols -> {None} \cup Fields]
  /\ connected \in BOOLEAN
  /\ unseen \subseteq Symbols

Init ==
  /\ reader \in Readers
  /\ real \in [Symbols -> {0, 1}]
  /\ margin = [s \in Symbols |-> IF real[s] = 0 THEN 0 ELSE 1]
  /\ rows = [s \in Symbols |-> None]
  /\ connected = FALSE /\ feed = <<>>
  /\ changes = 0 /\ losses = 0 /\ unseen = {}

-----------------------------------------------------------------------------
(* The exchange.                                                              *)

Update(s, p, m) == [kind |-> "u", sym |-> s, row |-> [pos |-> p, margin |-> m]]
Delete(s) == [kind |-> "d", sym |-> s, row |-> NoRow]

(* A change of position is told in one message or in two, the margin before   *)
(* or after the size; a closed row may be deleted afterwards.                  *)
Told(s, p, m) ==
  LET tellings == { <<Update(s, p, m)>>,
                    <<Update(s, p, Absent), Update(s, Absent, m)>>,
                    <<Update(s, Absent, m), Update(s, p, Absent)>> }
  IN tellings \cup (IF p # 0 THEN {} ELSE {Append(t, Delete(s)) : t \in tellings})

Change(s, p) ==
  /\ changes < MaxChanges /\ p # real[s]
  /\ real' = [real EXCEPT ![s] = p]
  /\ margin' = [margin EXCEPT ![s] = IF p = 0 THEN 0 ELSE 1]
  /\ changes' = changes + 1
  /\ IF connected
     THEN /\ \E t \in Told(s, p, margin'[s]) : feed' = feed \o t
          /\ UNCHANGED unseen
     ELSE /\ unseen' = IF p = 0 THEN unseen \cup {s} ELSE unseen \ {s}
          /\ UNCHANGED feed
  /\ UNCHANGED <<reader, rows, connected, losses>>

(* connect_once, run_session: the snapshot has the open positions. *)
Open == {s \in Symbols : real[s] # 0}
Connect ==
  /\ ~connected
  /\ connected' = TRUE
  /\ feed' = <<[kind |-> "s",
                row |-> [s \in Open |-> [pos |-> real[s], margin |-> margin[s]]]]>>
  /\ UNCHANGED <<reader, real, margin, rows, changes, losses, unseen>>

(* run_loop, spawn: the rows stay. *)
Lose ==
  /\ connected /\ losses < MaxLosses
  /\ connected' = FALSE /\ feed' = <<>> /\ losses' = losses + 1
  /\ unseen' = unseen \cup {s \in Symbols : real[s] = 0 /\ rows[s] # None}
  /\ UNCHANGED <<reader, real, margin, rows, changes>>

-----------------------------------------------------------------------------
(* The program.                                                               *)

Merged(old, new) ==
  LET base == IF old = None THEN NoRow ELSE old
  IN [pos |-> IF new.pos = Absent THEN base.pos ELSE new.pos,
      margin |-> IF new.margin = Absent THEN base.margin ELSE new.margin]

Position(row) == IF row = None \/ row.pos = Absent THEN 0 ELSE row.pos

(* apply_position_update: a row without margin is dropped. *)
ExecutorRow(old, new) ==
  LET row == Merged(old, new) IN IF row.margin = 0 THEN None ELSE row

(* apply_positions: only a message that has the margin drops the row, and     *)
(* only when the size is zero as well.                                        *)
RustRow(old, new) ==
  LET row == Merged(old, new) IN
    IF new.margin = 0 /\ Position(row) = 0 THEN None ELSE row

Applied(old, new) == IF reader = "executor" THEN ExecutorRow(old, new)
                     ELSE RustRow(old, new)

(* A snapshot is merged like an update: what it does not name stays. *)
Snapshot(msg) ==
  [s \in Symbols |-> IF s \in DOMAIN msg.row THEN Applied(rows[s], msg.row[s])
                     ELSE rows[s]]

Handle ==
  /\ feed # <<>>
  /\ LET msg == Head(feed) IN
       rows' = CASE msg.kind = "s" -> Snapshot(msg)
                 [] msg.kind = "u" -> [rows EXCEPT ![msg.sym] = Applied(@, msg.row)]
                 [] msg.kind = "d" -> [rows EXCEPT ![msg.sym] = None]
  /\ feed' = Tail(feed)
  /\ UNCHANGED <<reader, real, margin, connected, changes, losses, unseen>>

(* has_position: the executor also believes the margin. *)
HasPosition(s) ==
  \/ Position(rows[s]) # 0
  \/ reader = "executor" /\ rows[s] # None /\ rows[s].margin = 1

Next == \/ \E s \in Symbols, p \in -Largest .. Largest : Change(s, p)
        \/ Connect \/ Lose \/ Handle

Spec == Init /\ [][Next]_vars /\ WF_vars(Handle) /\ WF_vars(Connect)

-----------------------------------------------------------------------------
(* Properties.                                                                *)

UpToDate == connected /\ feed = <<>>

(* Once everything sent has been handled, no open position is missing from the *)
(* mirror and none has the wrong size, in whatever order size and margin came, *)
(* and whatever happened while the connection was down.                        *)
NothingMissed ==
  UpToDate => \A s \in Open : HasPosition(s) /\ Position(rows[s]) = real[s]

(* The only positions the mirror invents are those that were closed while      *)
(* nobody listened.                                                            *)
GhostsOnlyFromGaps ==
  UpToDate => \A s \in Symbols : (real[s] = 0 /\ HasPosition(s)) => s \in unseen
=============================================================================
