----------------------------- MODULE BingxExecutor -----------------------------
(* The executor of the BingX lead strategy (executor/src/bin/bingx_executor.rs):  *)
(* every signal is handled by a task of its own; entries and exits meet only in   *)
(* the map of open positions, keyed by base, under a lock that no task holds      *)
(* while it talks to the venue.  A signal carries the id of the paper position.   *)
(* Prices and sizes are abstracted to the outcome of a trade; attempts and their  *)
(* sleeps to the choice between another attempt and giving up.                    *)
EXTENDS Integers, FiniteSets

CONSTANTS
  Bases,
  Modes,         \* subset of {"market", "maker", "dry"}: BINGX_ENTRY_MODE, dry run
  MaxOpen,       \* cfg.max_open
  LossLimit,     \* cfg.daily_loss_limit_usd
  Gains,         \* what a closed trade adds to realized_pnl_usd
  MaxId,         \* bound: paper positions
  MaxRestarts    \* bound: restarts of the executor

Ids == 1..MaxId

ConstantsOK ==
  MaxOpen \in Nat /\ LossLimit \in Int /\ Gains \subseteq Int /\ MaxId \in Nat

VARIABLES
  mode,
  paper,         \* id -> [base, side] of the collector's position, or NoPaper
  entry, exit,   \* id -> where the task of its entry, of its exit is
  found,         \* id -> positionId its entry task read last, 0: none
  open,          \* base -> row of state.open, or NoRow
  taken,         \* id -> row its exit task took
  pnl,           \* realized_pnl_usd
  resting,       \* ids whose order the venue holds
  real,          \* base -> [qty, pid] at the venue (one-way mode)
  restarts,
  (* history *)
  lost,          \* bases where one of the known accidents happened
  rows, settled  \* rows registered, rows whose trade was added to pnl

vars == <<mode, paper, entry, exit, found, open, taken, pnl, resting, real, restarts,
          lost, rows, settled>>
venue == <<resting, real>>
ghost == <<lost, rows, settled>>

NoPaper == [base |-> "none", side |-> 0]
NoRow == [id |-> 0, pid |-> 0]
InFlight == {"order", "poll", "register"}
Base(i) == paper[i].base

TypeOK ==
  /\ mode \in Modes
  /\ paper \in [Ids -> {NoPaper} \cup [base : Bases, side : {1, -1}]]
  /\ entry \in [Ids -> {"none", "sent", "resolve", "store", "done"} \cup InFlight]
  /\ exit \in [Ids -> {"none", "sent", "close", "done"}]
  /\ found \in [Ids -> 0..MaxId]
  /\ open \in [Bases -> [id : 0..MaxId, pid : 0..MaxId]]
  /\ taken \in [Ids -> [id : 0..MaxId, pid : 0..MaxId]]
  /\ resting \subseteq Ids /\ lost \subseteq Bases
  /\ \A b \in Bases : real[b].qty = 0 <=> real[b].pid = 0

Init ==
  /\ mode \in Modes
  /\ paper = [i \in Ids |-> NoPaper]
  /\ entry = [i \in Ids |-> "none"] /\ exit = [i \in Ids |-> "none"]
  /\ found = [i \in Ids |-> 0] /\ taken = [i \in Ids |-> NoRow]
  /\ open = [b \in Bases |-> NoRow] /\ pnl = 0
  /\ resting = {} /\ real = [b \in Bases |-> [qty |-> 0, pid |-> 0]]
  /\ restarts = 0 /\ lost = {} /\ rows = 0 /\ settled = 0

Lost(bs) == lost' = lost \cup bs
Go(i, at) == entry' = [entry EXCEPT ![i] = at]

-----------------------------------------------------------------------------
(* The signals, in the order they are published; the subscriber's task hands  *)
(* each to a task of its own.                                                 *)

PaperEntry(i, b, side) ==
  /\ paper[i] = NoPaper /\ \A j \in 1..(i - 1) : paper[j] # NoPaper
  /\ \A j \in Ids : Base(j) = b => exit[j] # "none"
  /\ paper' = [paper EXCEPT ![i] = [base |-> b, side |-> side]]
  /\ Go(i, "sent")
  /\ UNCHANGED <<mode, exit, found, open, taken, pnl, venue, restarts, ghost>>

PaperExit(i) ==
  /\ paper[i] # NoPaper /\ exit[i] = "none"
  /\ exit' = [exit EXCEPT ![i] = "sent"]
  /\ UNCHANGED <<mode, paper, entry, found, open, taken, pnl, venue, restarts, ghost>>

-----------------------------------------------------------------------------
(* handle_entry.                                                              *)

(* A signal that is too old is dropped; the gates are read under the lock,    *)
(* which is gone when the order is sent.                                      *)
MayEnter(i) ==
  /\ pnl > LossLimit
  /\ Cardinality({b \in Bases : open[b] # NoRow}) < MaxOpen
  /\ open[Base(i)] = NoRow

Gate(i, stale) ==
  /\ entry[i] = "sent"
  /\ Go(i, IF stale \/ ~MayEnter(i) THEN "done" ELSE "order")
  /\ UNCHANGED <<mode, paper, exit, found, open, taken, pnl, venue, restarts, ghost>>

Row(i) == [id |-> i, pid |-> found[i]]

(* A dry run registers the row at once. *)
DryEntry(i) ==
  /\ entry[i] = "order" /\ mode = "dry"
  /\ open' = [open EXCEPT ![Base(i)] = [id |-> i, pid |-> i]]
  /\ rows' = rows + 1 /\ Go(i, "done")
  /\ UNCHANGED <<mode, paper, exit, found, taken, pnl, venue, restarts, lost, settled>>

(* The position after a fill of i: a new one gets a positionId. *)
Filled(i) ==
  LET p == real[Base(i)]
      q == p.qty + paper[i].side
  IN  [real EXCEPT ![Base(i)] =
         [qty |-> q, pid |-> IF q = 0 THEN 0 ELSE IF p.qty = 0 THEN i ELSE p.pid]]

(* The order fills at once, or is accepted and fills later or never, or the   *)
(* request fails, before or after the venue accepted it.                      *)
Order(i) ==
  /\ entry[i] = "order" /\ mode # "dry"
  /\ \/ real' = Filled(i) /\ Go(i, "register") /\ UNCHANGED <<resting, lost>>
     \/ resting' = resting \cup {i} /\ Go(i, "poll") /\ UNCHANGED <<real, lost>>
     \/ Go(i, "done") /\ UNCHANGED <<venue, lost>>
     \/ resting' = resting \cup {i} /\ Go(i, "done") /\ Lost({Base(i)}) /\ UNCHANGED real
  /\ UNCHANGED <<mode, paper, exit, found, open, taken, pnl, restarts, rows, settled>>

VenueFill(i) ==
  /\ i \in resting
  /\ resting' = resting \ {i} /\ real' = Filled(i)
  /\ UNCHANGED <<mode, paper, entry, exit, found, open, taken, pnl, restarts, ghost>>

(* Any position of the symbol counts as the fill of this order. *)
PollFinds(i) ==
  /\ entry[i] = "poll" /\ real[Base(i)].qty # 0
  /\ found' = [found EXCEPT ![i] = real[Base(i)].pid]
  /\ Go(i, "register")
  /\ Lost(IF i \in resting THEN {Base(i)} ELSE {})
  /\ UNCHANGED <<mode, paper, exit, open, taken, pnl, venue, restarts, rows, settled>>

(* Three polls found nothing: the order is cancelled, and the cancel's answer *)
(* is not looked at.                                                          *)
CancelUnfilled(i, cancelled) ==
  /\ entry[i] = "poll"
  /\ resting' = IF cancelled THEN resting \ {i} ELSE resting
  /\ Lost(IF cancelled /\ i \in resting THEN {} ELSE {Base(i)})
  /\ Go(i, "done")
  /\ UNCHANGED <<mode, paper, exit, found, open, taken, pnl, real, restarts, rows, settled>>

(* The row, whatever the map held for the base before. *)
Register(i) ==
  /\ entry[i] = "register"
  /\ open' = [open EXCEPT ![Base(i)] = Row(i)]
  /\ rows' = rows + 1
  /\ Go(i, IF found[i] = 0 THEN "resolve" ELSE "done")
  /\ UNCHANGED <<mode, paper, exit, found, taken, pnl, venue, restarts, lost, settled>>

(* The background search for the positionId: it ends when the row is gone,    *)
(* found nothing four times, or found one, which is stored in the row the     *)
(* base has by then.                                                          *)
ResolveLook(i) ==
  /\ entry[i] = "resolve"
  /\ IF open[Base(i)] = NoRow \/ real[Base(i)].qty = 0
     THEN Go(i, "done") /\ UNCHANGED found
     ELSE \/ Go(i, "store") /\ found' = [found EXCEPT ![i] = real[Base(i)].pid]
          \/ Go(i, "done") /\ UNCHANGED found
  /\ UNCHANGED <<mode, paper, exit, open, taken, pnl, venue, restarts, ghost>>

ResolveStore(i) ==
  /\ entry[i] = "store" /\ Go(i, "done")
  /\ open' = [open EXCEPT ![Base(i)].pid = IF open[Base(i)] = NoRow THEN 0 ELSE found[i]]
  /\ UNCHANGED <<mode, paper, exit, found, taken, pnl, venue, restarts, ghost>>

-----------------------------------------------------------------------------
(* handle_exit.                                                               *)

(* The row of the base, of this paper position or of another. *)
Take(i) ==
  /\ exit[i] = "sent" /\ open[Base(i)] # NoRow
  /\ taken' = [taken EXCEPT ![i] = open[Base(i)]]
  /\ open' = [open EXCEPT ![Base(i)] = NoRow]
  /\ exit' = [exit EXCEPT ![i] = "close"]
  /\ Lost(IF open[Base(i)].id = i THEN {} ELSE {Base(i)})
  /\ UNCHANGED <<mode, paper, entry, found, pnl, venue, restarts, rows, settled>>

(* No row for 1.8 s: the entry was never made, or it is still on its way. *)
GiveUp(i) ==
  /\ exit[i] = "sent" /\ open[Base(i)] = NoRow
  /\ exit' = [exit EXCEPT ![i] = "done"]
  /\ Lost(IF entry[i] \in InFlight \cup {"sent"} THEN {Base(i)} ELSE {})
  /\ UNCHANGED <<mode, paper, entry, found, open, taken, pnl, venue, restarts, rows, settled>>

(* The positionId of the row or, when that is blank, of the position there is *)
(* now.                                                                       *)
ClosePid(i) == IF taken[i].pid # 0 THEN taken[i].pid ELSE real[Base(i)].pid

Flat(b) == [real EXCEPT ![b] = [qty |-> 0, pid |-> 0]]

(* The close is answered and its result added to the PnL. *)
Close(i, gain) ==
  /\ exit[i] = "close"
  /\ IF mode = "dry" THEN UNCHANGED real
     ELSE ClosePid(i) # 0 /\ ClosePid(i) = real[Base(i)].pid /\ real' = Flat(Base(i))
  /\ pnl' = pnl + gain /\ settled' = settled + 1
  /\ exit' = [exit EXCEPT ![i] = "done"]
  /\ UNCHANGED <<mode, paper, entry, found, open, taken, resting, restarts, lost, rows>>

(* The positionId is not found, the venue refuses the close, or its answer is *)
(* lost; the row is gone.                                                     *)
CloseFails(i, closed) ==
  /\ exit[i] = "close" /\ mode # "dry"
  /\ closed => ClosePid(i) # 0 /\ ClosePid(i) = real[Base(i)].pid
  /\ real' = IF closed THEN Flat(Base(i)) ELSE real
  /\ Lost(IF closed THEN {} ELSE {Base(i)})
  /\ exit' = [exit EXCEPT ![i] = "done"]
  /\ UNCHANGED <<mode, paper, entry, found, open, taken, pnl, resting, restarts, rows, settled>>

-----------------------------------------------------------------------------
(* Nothing is kept over a restart, and signals are not sent again.            *)
Restart ==
  /\ restarts < MaxRestarts /\ restarts' = restarts + 1
  /\ entry' = [i \in Ids |-> IF entry[i] = "none" THEN "none" ELSE "done"]
  /\ exit' = [i \in Ids |-> IF exit[i] = "none" THEN "none" ELSE "done"]
  /\ found' = [i \in Ids |-> 0] /\ taken' = [i \in Ids |-> NoRow]
  /\ open' = [b \in Bases |-> NoRow] /\ pnl' = 0
  /\ Lost({b \in Bases : real[b].qty # 0} \cup {Base(i) : i \in resting})
  /\ rows' = 0 /\ settled' = 0
  /\ UNCHANGED <<mode, paper, venue>>

Next ==
  \/ \E i \in Ids, b \in Bases, side \in {1, -1} : PaperEntry(i, b, side)
  \/ \E i \in Ids :
       \/ PaperExit(i) \/ DryEntry(i) \/ Order(i) \/ VenueFill(i) \/ PollFinds(i)
       \/ Register(i) \/ ResolveLook(i) \/ ResolveStore(i) \/ Take(i) \/ GiveUp(i)
       \/ \E ok \in BOOLEAN : Gate(i, ok) \/ CancelUnfilled(i, ok) \/ CloseFails(i, ok)
       \/ \E gain \in Gains : Close(i, gain)
  \/ Restart

Spec == Init /\ [][Next]_vars

-----------------------------------------------------------------------------
Quiet == \A i \in Ids : paper[i] # NoPaper => entry[i] = "done" /\ exit[i] = "done"

(* When every signal has been handled, a position is left at the venue only where  *)
(* one of the known accidents happened: an order whose answer was lost, a cancel   *)
(* that came too late or failed, a poll that took another order's position for its *)
(* fill, an exit that gave up on its entry or took another's row, a close that     *)
(* failed, a restart (handle_entry, handle_exit).                                  *)
NoSilentStrand == Quiet => \A b \in Bases : real[b].qty # 0 => b \in lost

(* A row is added to the PnL, which the kill switch reads, at most once.           *)
SettledOnce ==
  settled + Cardinality({i \in Ids : exit[i] = "close"})
          + Cardinality({b \in Bases : open[b] # NoRow}) <= rows
=============================================================================
