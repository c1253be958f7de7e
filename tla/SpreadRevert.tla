---------------------------- MODULE SpreadRevert ----------------------------
(***************************************************************************)
(* collector/src/spread_revert.rs: paper positions on the gap between the  *)
(* Flipster and the Binance mid, opened when the gap is further from its   *)
(* baseline than the costs, and what the strategy tells the coordinator.   *)
(*                                                                         *)
(* Two tasks: the tick loop, which reads the baseline before it takes the  *)
(* state lock, and the sweeper for positions past their deadline.  Both    *)
(* send the exit signals of what they closed after the lock is released,   *)
(* one at a time, with a database write before each.                       *)
(*                                                                         *)
(* Prices are mids in basis points of one reference; bid and ask, fees and *)
(* database rows are left out.  A quote older than two seconds is 0, which *)
(* the code treats alike.                                                  *)
(***************************************************************************)
EXTENDS Integers, Sequences, FiniteSets, SequencesExt

CONSTANTS Bases,
          Prices,           \* mids, positive
          Baselines,        \* records [gap, cost] baseline_writer may compute
          MaxOpenPositions, MaxPositionsPerBase,
          StopBp,
          MaxHold,          \* max_hold_s in ticks
          MinHold,          \* min_hold_ms in ticks
          Cooldown,         \* entry_cooldown_ms in ticks
          MaxPosId          \* bound: position ids

ConstantsOK ==
    /\ Prices \subseteq Nat \ {0}
    /\ MaxOpenPositions \in Nat /\ MaxPositionsPerBase \in Nat
    /\ MaxHold \in Nat \ {0} /\ MinHold \in 0..MaxHold /\ Cooldown \in Nat
    /\ MaxPosId \in Nat

VARIABLES
    quote,      \* [Bases -> [binance, flipster]], 0 for none or too old
    baselines,  \* [Bases -> Baselines or None]
    open,       \* OpenPos records of all bases
    cooldown,   \* [Bases -> ticks until last_entry_at is far enough]
    tick,       \* the tick in on_tick with the baseline read for it, or None
    closing,    \* [Tasks -> CloseActions not logged yet, in order]
    next_id,
    entered,    \* ids whose entry signal was sent (history)
    exits,      \* [ids -> exit signals sent] (history)
    dropped,    \* [id, base] of positions taken out of the state for nothing (history)
    vanished    \* bases a baseline cycle left out while they were traded (history)

signals == <<next_id, entered, exits>>
history == <<dropped, vanished>>
vars == <<quote, baselines, open, cooldown, tick, closing, signals, history>>

None == [none |-> TRUE]
Tasks == {"tick", "sweep"}
Venues == {"binance", "flipster"}
Ids == 1..MaxPosId

Init ==
    /\ quote = [b \in Bases |-> [binance |-> 0, flipster |-> 0]]
    /\ baselines = [b \in Bases |-> None]
    /\ open = {}
    /\ cooldown = [b \in Bases |-> 0]
    /\ tick = None
    /\ closing = [t \in Tasks |-> <<>>]
    /\ next_id = 1
    /\ entered = {}
    /\ exits = [i \in Ids |-> 0]
    /\ dropped = {} /\ vanished = {}

OpenOn(b) == {p \in open : p.base = b}
IdsOf(S) == {p.id : p \in S}

\* The base has positions, or a tick with a baseline for it is in hand.
Traded(b) == OpenOn(b) # {} \/ (tick # None /\ tick.base = b /\ tick.baseline # None)

-----------------------------------------------------------------------------
(* The environment                                                         *)

\* baseline_writer replaces the whole map: a base without enough rows in this cycle
\* has no baseline any more.  A map without any base is not taken over, but bases not
\* traded here may be in it.  None also stands for values that are not finite, which
\* on_tick treats like no baseline.
Refresh ==
    /\ baselines' \in [Bases -> Baselines \union {None}]
    /\ vanished' = vanished \union {b \in Bases : Traded(b) /\ baselines'[b] = None}
    /\ UNCHANGED <<quote, open, cooldown, tick, closing, signals, dropped>>

\* A quote turns two seconds old.
Expire(b, v) ==
    /\ quote[b][v] # 0
    /\ quote' = [quote EXCEPT ![b][v] = 0]
    /\ UNCHANGED <<baselines, open, cooldown, tick, closing, signals, history>>

\* Time passes: positions get older, the cooldown runs off.
Age ==
    /\ open' = {[p EXCEPT !.held = IF @ < MaxHold THEN @ + 1 ELSE @] : p \in open}
    /\ cooldown' = [b \in Bases |-> IF cooldown[b] > 0 THEN cooldown[b] - 1 ELSE 0]
    /\ <<open', cooldown'>> # <<open, cooldown>>
    /\ UNCHANGED <<quote, baselines, tick, closing, signals, history>>

-----------------------------------------------------------------------------
(* on_tick                                                                 *)

\* Mutant: the baseline is read with try_read, which fails while it is replaced.
ReadBaselineTries(b, v, price) ==
    /\ tick = None /\ closing["tick"] = <<>>
    /\ tick' \in [base : {b}, venue : {v}, price : {price}, baseline : {baselines[b], None}]
    /\ UNCHANGED <<quote, baselines, open, cooldown, closing, signals, history>>

\* The tick loop takes one tick at a time and reads the baseline for it.
ReadBaseline(b, v, price) ==
    /\ tick = None /\ closing["tick"] = <<>>
    /\ tick' = [base |-> b, venue |-> v, price |-> price, baseline |-> baselines[b]]
    /\ UNCHANGED <<quote, baselines, open, cooldown, closing, signals, history>>

Expired(p) == p.held >= MaxHold

\* The exits checked for every position: stop-loss on the Flipster mid after the
\* minimum hold, timeout at any time.
StopHit(p, mid) == p.held >= MinHold /\ (p.price - mid) * p.side > StopBp
Exits(b, mid) == {p \in OpenOn(b) : StopHit(p, mid) \/ Expired(p)}

\* Opposite-side positions close on an entry signal, held for long enough.
Reversed(S, side) == {p \in S : side # 0 /\ p.side # side /\ p.held >= MinHold}

\* The side the gap asks for, 0 for none.
WantSide(gap, bl) ==
    IF gap - bl.gap > bl.cost THEN -1 ELSE IF bl.gap - gap > bl.cost THEN 1 ELSE 0

\* Mutant: the cap of the base is not looked at.
RoomGloballyOnly(b, left) == Cardinality(open) < MaxOpenPositions

\* Room on the base after the closes, room globally before the reverse-close:
\* stop and timeout exits have left the state by then.
Room(b, left) ==
    /\ Cardinality({p \in left : p.base = b}) < MaxPositionsPerBase
    /\ Cardinality(open \ Exits(b, quote'[b].flipster)) < MaxOpenPositions

Queue(task, S) ==
    closing' = [closing EXCEPT ![task] = @ \o SetToSeq(IdsOf(S))]

\* The entry: state, cooldown and the signal, with no await in between.
Enter(b, side, left) ==
    IF side # 0 /\ Room(b, left) /\ cooldown[b] = 0 /\ next_id <= MaxPosId
    THEN /\ open' = left \union {[id |-> next_id, base |-> b, side |-> side, held |-> 0,
                                  price |-> quote'[b].flipster,
                                  gap |-> quote'[b].flipster - quote'[b].binance]}
         /\ cooldown' = [cooldown EXCEPT ![b] = Cooldown]
         /\ entered' = entered \union {next_id}
         /\ next_id' = next_id + 1
    ELSE /\ open' = left
         /\ UNCHANGED <<cooldown, entered, next_id>>

\* With a baseline: the exits found, the reverse-close, the entry.
Decide(b, bl) ==
    LET f == quote'[b].flipster
        side == WantSide(f - quote'[b].binance, bl)
        left == open \ Exits(b, f)
        rev == Reversed({p \in left : p.base = b}, side)
    IN /\ Queue("tick", Exits(b, f) \union rev)
       /\ Enter(b, side, left \ rev)
       /\ UNCHANGED dropped

\* Without one the function returns at once: the positions are out of the state
\* by then, and the CloseActions found for them are dropped.
NoBaseline(b) ==
    /\ open' = open \ Exits(b, quote'[b].flipster)
    /\ dropped' = dropped \union {[id |-> p.id, base |-> b] : p \in Exits(b, quote'[b].flipster)}
    /\ UNCHANGED <<closing, cooldown, entered, next_id>>

\* Under the state lock: the quote, then, with both quotes fresh, the decisions.
OnTick ==
    /\ tick # None
    /\ LET b == tick.base IN
         /\ quote' = [quote EXCEPT ![b][tick.venue] = tick.price]
         /\ IF \E v \in Venues : quote'[b][v] = 0
            THEN UNCHANGED <<open, closing, cooldown, entered, next_id, dropped>>
            ELSE IF tick.baseline = None THEN NoBaseline(b)
            ELSE Decide(b, tick.baseline)
    /\ tick' = None
    /\ UNCHANGED <<baselines, exits, vanished>>

-----------------------------------------------------------------------------
(* The sweeper and the exit signals                                        *)

\* Mutant: of the positions past their deadline one is closed, all are dropped.
SweepExitsOne ==
    /\ closing["sweep"] = <<>>
    /\ \E p \in open : Expired(p) /\ Queue("sweep", {p})
    /\ open' = {p \in open : ~Expired(p)}
    /\ UNCHANGED <<quote, baselines, cooldown, tick, signals, history>>

\* sweep_exits, under the state lock.
SweepExits ==
    /\ closing["sweep"] = <<>>
    /\ \E p \in open : Expired(p)
    /\ Queue("sweep", {p \in open : Expired(p)})
    /\ open' = {p \in open : ~Expired(p)}
    /\ UNCHANGED <<quote, baselines, cooldown, tick, signals, history>>

\* The position row is written, whatever comes of it, then the signal is sent.
LogClose(t) ==
    /\ closing[t] # <<>>
    /\ exits' = [exits EXCEPT ![Head(closing[t])] = @ + 1]
    /\ closing' = [closing EXCEPT ![t] = Tail(@)]
    /\ UNCHANGED <<quote, baselines, open, cooldown, tick, next_id, entered, history>>

Next ==
    \/ Refresh \/ Age \/ OnTick \/ SweepExits
    \/ \E b \in Bases, v \in Venues :
          Expire(b, v) \/ \E price \in Prices : ReadBaseline(b, v, price)
    \/ \E t \in Tasks : LogClose(t)

Spec == Init /\ [][Next]_vars

\* Time passes, the 200 ms interval ticks, started calls end (tokio).  Ticks,
\* prices and baselines carry no fairness: a venue may go silent.
Fairness ==
    /\ WF_vars(Age) /\ WF_vars(SweepExits) /\ WF_vars(OnTick)
    /\ \A t \in Tasks : WF_vars(LogClose(t))

FairSpec == Spec /\ Fairness

-----------------------------------------------------------------------------
(* Properties                                                              *)

PosIds == [id : Ids, base : Bases, side : {-1, 1}, held : 0..MaxHold,
           price : Prices, gap : Int]
InClosing == UNION {ToSet(closing[t]) : t \in Tasks}

\* Variables keep their types; ids of open positions are unique.
TypeOK ==
    /\ quote \in [Bases -> [Venues -> Prices \union {0}]]
    /\ baselines \in [Bases -> Baselines \union {None}]
    /\ open \subseteq PosIds /\ Cardinality(IdsOf(open)) = Cardinality(open)
    /\ cooldown \in [Bases -> 0..Cooldown]
    /\ closing \in [Tasks -> Seq(Ids)]
    /\ next_id \in 1..(MaxPosId + 1) /\ entered \subseteq Ids
    /\ dropped \subseteq [id : Ids, base : Bases] /\ vanished \subseteq Bases

\* "capped at max_open_positions globally and max_positions_per_base per symbol",
\* although the global count is taken before the reverse-close and other bases
\* close in between.
CapsHold ==
    /\ Cardinality(open) <= MaxOpenPositions
    /\ \A b \in Bases : Cardinality(OpenOn(b)) <= MaxPositionsPerBase

\* The tick loop and the sweeper never send two exits of one position, nor one
\* for a position that is still open or never entered.
ExitOnce ==
    /\ \A i \in Ids : exits[i] <= 1
    /\ \A i \in Ids : exits[i] > 0 => i \in entered \ IdsOf(open)
    /\ \A i \in InClosing : i \notin IdsOf(open) /\ exits[i] = 0

\* Without a minimum hold the stack of a base points one way, so that the net
\* position of an account in one-way mode is the sum of its entries: an entry
\* whose own opening is refused still closes the other side.
OneSidePerBase ==
    MinHold = 0 =>
        \A p, q \in open : p.base = q.base => p.side = q.side

\* A position ends in silence, its exit never signalled, only on a base that a baseline
\* cycle left out while it was traded: on_tick reads the baseline before it takes the lock and
\* returns without one after it has taken positions out of the state.
NoSilentClose ==
    /\ entered \subseteq IdsOf(open) \union InClosing \union {i \in Ids : exits[i] > 0}
                    \union IdsOf(dropped)
    /\ \A p \in dropped : p.base \in vanished

\* "skip the entry path but leave the stop/timeout exits we already evaluated above":
\* said of on_tick's return when the base has no baseline.
ExitsLeft == dropped = {}

\* What the coordinator is promised: every entry under an id of its own, and its exit
\* after it, once.
Ledger == INSTANCE PaperLedger

\* At last the exit is signalled, also when no tick arrives, or is one of the dropped.
ExitsOwed == \A i \in Ids : i \in entered ~> exits[i] > 0 \/ i \in IdsOf(dropped)

=============================================================================
