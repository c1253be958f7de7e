------------------------------ MODULE GateLead ------------------------------
(***************************************************************************)
(* collector/src/gate_lead.rs: when the leader's mid (Binance) has moved   *)
(* away from where it was Anchor ticks ago and the follower (Flipster) has *)
(* not followed yet, open a paper position on the follower, close it at a  *)
(* profit, at a stop or at its deadline, and tell the coordinator of both. *)
(*                                                                         *)
(* Two tasks share the state of the bases under one lock: the tick loop    *)
(* and a sweeper.  Exit signals are sent after the lock is released, each  *)
(* after a database write.  Ticks carry the time of the venue; the sweeper *)
(* reads the wall clock.  Everything with a timestamp is kept with its age *)
(* on the wall clock, so a tick that is d late arrives with age d.         *)
(* In a replay (Backtest) old ticks are accepted; the sweeper is the same. *)
(*                                                                         *)
(* Prices are mids in basis points of one reference; bid and ask, fees,    *)
(* white- and blacklist and database rows are left out.                    *)
(***************************************************************************)
EXTENDS Integers, Sequences, FiniteSets, SequencesExt

CONSTANTS Bases,
          Prices,           \* mids, positive
          Delays,           \* how late a tick may be
          StaleAfter,       \* ticks later than this are dropped (1 s)
          Backtest,         \* backtest_mode: they are not
          MinMove, Anchor, HoldMax, ExitBp, StopBp, Cooldown,
          HalfWindow,       \* half of GL_ANCHOR_WINDOW_MS
          FreshFor,         \* 2 s
          MinLag, MaxVel, VelWindow, FlipKeep,
          Retrace,          \* GL_BIN_RETRACE_BP, 0 for off
          PreRevert, PreWindow,
          StopCooldown, Grace, HardBp,
          MaxPosId, MaxHistory, MaxFlips    \* bounds: ids, ticks remembered

Late == CHOOSE d \in Delays : \A e \in Delays : e <= d

ConstantsOK ==
    /\ Prices \subseteq Nat \ {0} /\ Delays \subseteq Nat /\ IsFiniteSet(Delays)
    /\ Delays # {} /\ Backtest \in BOOLEAN
    /\ {Anchor, HoldMax, MinMove, ExitBp, StopBp, HardBp} \subseteq Nat \ {0}
    /\ {StaleAfter, Cooldown, HalfWindow, FreshFor, VelWindow, FlipKeep, Retrace,
        PreRevert, PreWindow, StopCooldown, Grace, MaxPosId, MaxHistory, MaxFlips} \subseteq Nat
    /\ MinLag \in Int /\ MaxVel \in Int

VARIABLES
    state,      \* [Bases -> BaseState]
    closing,    \* [Tasks -> CloseActions whose exit signal is still to be sent]
    next_id,
    entered,    \* ids whose entry signal was sent (history)
    exits       \* [Ids -> exit signals sent] (history)

vars == <<state, closing, next_id, entered, exits>>

Tasks == {"tick", "sweep"}
Ids == 1..MaxPosId
None == [none |-> TRUE]

\* Ages are counted up to where the code tells them no longer apart.
Larger(a, b) == IF a > b THEN a ELSE b
OldMid == Larger(2 * Anchor, Anchor + PreWindow) + Late + 1
OldFlip == Larger(FlipKeep, VelWindow) + Late + 1
OldQuote == FreshFor + Late + 1
OldHeld == Larger(HoldMax, Grace) + Late
OldEntry == Larger(Cooldown + Late, OldHeld)
OldStop == StopCooldown + OldHeld

Init ==
    /\ state = [b \in Bases |->
          [gate_mids |-> <<>>, flip_mids |-> <<>>, quote |-> None, open |-> None,
           entered |-> OldEntry, stopped |-> OldStop]]
    /\ closing = [t \in Tasks |-> <<>>]
    /\ next_id = 1
    /\ entered = {} /\ exits = [i \in Ids |-> 0]

-----------------------------------------------------------------------------
(* The leader's history                                                    *)

\* Front entries older than `keep` at the time of the tick are popped, up to the
\* first that is not.
Prune(mids, keep, d) ==
    LET i == SelectInSeq(mids, LAMBDA m : m.age - d <= keep)
    IN IF i = 0 THEN <<>> ELSE SubSeq(mids, i, Len(mids))

Push(mids, mid, keep, d) == Prune(Append(mids, [mid |-> mid, age |-> d]), keep, d)

\* Twice the lookback is kept, for venues with sparse ticks.
Remember(mids, mid, d) == Push(mids, mid, 2 * Anchor, d)

MidsOf(S) == [i \in 1..Len(S) |-> S[i].mid]

\* The middle of the sorted mids, the upper of the two for an even number.
Median(S) == SortSeq(S, <)[(Len(S) \div 2) + 1]

\* Mutant: the oldest tick remembered, twice the lookback ago.
AnchorMidOldest(mids, d) == Head(mids).mid

\* The mid about Anchor ago: the median of a window around it, else the first
\* tick that is younger.
AnchorMid(mids, d) ==
    LET window == SelectSeq(mids, LAMBDA m :
                     m.age - d \in (Anchor - HalfWindow)..(Anchor + HalfWindow))
        younger == SelectSeq(mids, LAMBDA m : m.age - d < Anchor)
    IN IF window # <<>> THEN Median(MidsOf(window)) ELSE Head(younger \o mids).mid

Sign(x) == IF x > 0 THEN 1 ELSE -1

-----------------------------------------------------------------------------
(* The entry filters, s the base's state with the tick in its history      *)

\* Nothing open, not cooling down, no stop of late.
Ready(s, d) ==
    /\ s.open = None
    /\ s.entered - d >= Cooldown
    /\ s.stopped - d >= StopCooldown

\* "Need a fresh Flipster quote to actually trade against."
Tradable(s, d) == s.quote # None /\ s.quote.age - d <= FreshFor

\* Flipster is behind, and is not already moving our way.
Lags(s, mid, side) == (mid - s.quote.mid) * side >= MinLag

CatchingUp(s, side, d) ==
    LET since == SelectSeq(s.flip_mids, LAMBDA m : m.age - d < VelWindow) \o s.flip_mids
    IN since # <<>> /\ (s.quote.mid - Head(since).mid) * side > MaxVel

\* Whipsaw filters: the move is past its peak, or was a return to where the price
\* had been before the anchor.
Retraced(s, anchor, move, side, d) ==
    /\ Retrace > 0
    /\ \E m \in ToSet(s.gate_mids) :
          m.age - d <= Anchor /\ (m.mid - anchor) * side - move * side > Retrace

RoundTrip(s, mid, d) ==
    /\ PreRevert > 0
    /\ \E m \in ToSet(s.gate_mids) :
          /\ m.age - d > Anchor /\ m.age - d <= Anchor + PreWindow
          /\ mid - m.mid \in -PreRevert..PreRevert

\* Whether the tick opens a position, on which side.
Signals(s, mid, d) ==
    LET anchor == AnchorMid(s.gate_mids, d)
        move == mid - anchor
    IN /\ Ready(s, d)
       /\ move >= MinMove \/ -move >= MinMove
       /\ Tradable(s, d)
       /\ Lags(s, mid, Sign(move))
       /\ ~CatchingUp(s, Sign(move), d)
       /\ ~Retraced(s, anchor, move, Sign(move), d)
       /\ ~RoundTrip(s, mid, d)

-----------------------------------------------------------------------------
(* The tick loop: one tick at a time, its signals sent before the next     *)

Accepted(d) == closing["tick"] = <<>> /\ (Backtest \/ d <= StaleAfter)

\* Mutant: the id is not taken from the generator.
EnterSameId(b, s, mid, d) ==
    /\ state' = [state EXCEPT ![b] =
          [s EXCEPT !.open = [id |-> next_id, side |-> Sign(mid - AnchorMid(s.gate_mids, d)),
                              held |-> d, ref |-> s.quote.mid, lead |-> mid],
                    !.entered = d]]
    /\ entered' = entered \union {next_id}
    /\ UNCHANGED next_id

\* Position, cooldown and entry signal, with no await in between.
Enter(b, s, mid, d) ==
    LET side == Sign(mid - AnchorMid(s.gate_mids, d)) IN
    /\ state' = [state EXCEPT ![b] =
          [s EXCEPT !.open = [id |-> next_id, side |-> side, held |-> d,
                              ref |-> s.quote.mid, lead |-> mid],
                    !.entered = d]]
    /\ next_id' = next_id + 1
    /\ entered' = entered \union {next_id}

\* A tick of the leader.
OnLeader(b, mid, d) ==
    /\ Accepted(d)
    /\ LET s == [state[b] EXCEPT !.gate_mids = Remember(@, mid, d)] IN
         /\ Len(s.gate_mids) <= MaxHistory
         /\ IF Signals(s, mid, d) /\ next_id <= MaxPosId
            THEN Enter(b, s, mid, d)
            ELSE state' = [state EXCEPT ![b] = s] /\ UNCHANGED <<next_id, entered>>
    /\ UNCHANGED <<closing, exits>>

\* A stop within the grace period counts only past the hard cap.
StopHit(pos, move, d) ==
    /\ -move >= StopBp
    /\ ~(pos.held - d < Grace) \/ -move >= HardBp

\* The exit a follower tick asks for, "" for none.
ExitReason(pos, mid, d) ==
    LET move == (mid - pos.ref) * pos.side
    IN CASE move >= ExitBp -> "tp"
         [] StopHit(pos, move, d) -> "stop"
         [] OTHER -> IF pos.held - d >= HoldMax THEN "timeout" ELSE ""

Leave(s, reason, d) ==
    [s EXCEPT !.open = None, !.stopped = IF reason = "stop" THEN d ELSE @]

\* A tick of the follower.
OnFollower(b, mid, d) ==
    /\ Accepted(d)
    /\ LET s == [state[b] EXCEPT !.quote = [mid |-> mid, age |-> d],
                                 !.flip_mids = Push(@, mid, FlipKeep, d)]
           reason == IF s.open = None THEN "" ELSE ExitReason(s.open, mid, d)
       IN /\ Len(s.flip_mids) <= MaxFlips
          /\ IF reason = ""
             THEN state' = [state EXCEPT ![b] = s] /\ UNCHANGED closing
             ELSE /\ state' = [state EXCEPT ![b] = Leave(s, reason, d)]
                  /\ closing' = [closing EXCEPT !["tick"] = Append(@, s.open.id)]
    /\ UNCHANGED <<next_id, entered, exits>>

-----------------------------------------------------------------------------
(* The sweeper, the exit signals, the clock                                *)

Expired(b) == state[b].open # None /\ state[b].open.held >= HoldMax

\* Every position past its deadline on the wall clock, without noting a stop.
SweepExits ==
    /\ closing["sweep"] = <<>> /\ \E b \in Bases : Expired(b)
    /\ closing' = [closing EXCEPT !["sweep"] =
          SetToSeq({state[b].open.id : b \in {x \in Bases : Expired(x)}})]
    /\ state' = [b \in Bases |->
          IF Expired(b) THEN [state[b] EXCEPT !.open = None] ELSE state[b]]
    /\ UNCHANGED <<next_id, entered, exits>>

\* The position row is written, then the exit signal goes out.
LogClose(t) ==
    /\ closing[t] # <<>>
    /\ exits' = [exits EXCEPT ![Head(closing[t])] = @ + 1]
    /\ closing' = [closing EXCEPT ![t] = Tail(@)]
    /\ UNCHANGED <<state, next_id, entered>>

Older(a, cap) == IF a < cap THEN a + 1 ELSE a
AgeMids(mids, cap) == [i \in 1..Len(mids) |-> [mids[i] EXCEPT !.age = Older(@, cap)]]

AgedQuote(q) == IF q = None THEN q ELSE [q EXCEPT !.age = Older(@, OldQuote)]
AgedOpen(p) == IF p = None THEN p ELSE [p EXCEPT !.held = Older(@, OldHeld)]

Aged(s) ==
    [s EXCEPT !.gate_mids = AgeMids(@, OldMid), !.flip_mids = AgeMids(@, OldFlip),
              !.quote = AgedQuote(@), !.open = AgedOpen(@),
              !.entered = Older(@, OldEntry), !.stopped = Older(@, OldStop)]

\* Time passes.  Assumed: within one tick of the clock, half a second or more, the
\* sweeper runs and its writes end (every 100 ms, and milliseconds).
Age ==
    /\ closing["sweep"] = <<>> /\ \A b \in Bases : ~Expired(b)
    /\ state' = [b \in Bases |-> Aged(state[b])]
    /\ state' # state
    /\ UNCHANGED <<closing, next_id, entered, exits>>

Next ==
    \/ \E b \in Bases, mid \in Prices, d \in Delays :
          OnLeader(b, mid, d) \/ OnFollower(b, mid, d)
    \/ SweepExits
    \/ \E t \in Tasks : LogClose(t)
    \/ Age

Spec == Init /\ [][Next]_vars

\* The clock runs, the sweeper's interval ticks, writes end.  Venues may go silent.
Fairness == WF_vars(Age) /\ WF_vars(SweepExits) /\ \A t \in Tasks : WF_vars(LogClose(t))

FairSpec == Spec /\ Fairness

-----------------------------------------------------------------------------
(* Properties                                                              *)

OpenIds == {state[b].open.id : b \in {x \in Bases : state[x].open # None}}
Exited == {i \in Ids : exits[i] > 0}
InClosing == UNION {ToSet(closing[t]) : t \in Tasks}

Mids(old) == [mid : Prices, age : 0..old]

\* Variables keep their types; no id is open twice.
TypeOK ==
    /\ \A b \in Bases :
          /\ state[b].gate_mids \in Seq(Mids(OldMid))
          /\ state[b].flip_mids \in Seq(Mids(OldFlip))
          /\ state[b].quote \in {None} \union Mids(OldQuote)
          /\ state[b].open \in {None} \union
                [id : Ids, side : {-1, 1}, held : 0..OldHeld, ref : Prices, lead : Prices]
          /\ state[b].entered \in 0..OldEntry /\ state[b].stopped \in 0..OldStop
    /\ closing \in [Tasks -> Seq(Ids)]
    /\ next_id \in 1..(MaxPosId + 1)
    /\ entered = 1..(next_id - 1) /\ exits \in [Ids -> Nat]

\* The tick loop and the sweeper never send two exits of one position, and an
\* entered position is open, about to be signalled, or was: none is dropped.
ExitOnce ==
    /\ \A i \in Ids : exits[i] <= 1
    /\ entered = OpenIds \union InClosing \union Exited
    /\ InClosing \intersect (OpenIds \union Exited) = {}
    /\ OpenIds \intersect Exited = {}

\* "never re-enter while one is open", as the executor sees it: on one base the
\* exit of a position was sent before the entry of the next, since the cooldown
\* counts from the entry and is longer than the hold.
OneAfterAnother ==
    Cardinality(Bases) = 1 /\ Cooldown > HoldMax + Late =>
        \A i \in entered : i < next_id - 1 => i \in Exited

\* After a stop the base is left alone for StopCooldown, whichever venue's late
\* ticks come first ("hold the symbol off"), on the venue's clock.
StopIsRespected ==
    \A b \in Bases : state[b].open # None =>
        state[b].stopped = OldStop \/ state[b].stopped - state[b].open.held >= StopCooldown

\* A spike that is over opens nothing: where a position is opened, the leader was
\* on the other side of MinMove for half of the ticks about Anchor ago, or there
\* were none.  (The history may be pruned between the decision and the next state.)
AnchorIsMajority ==
    [][\A b \in Bases :
          state[b].open = None /\ state'[b].open # None =>
             LET p == state'[b].open
                 at == SelectSeq(state'[b].gate_mids, LAMBDA m :
                    m.age - p.held \in (Anchor - HalfWindow)..(Anchor + HalfWindow))
                 away == SelectSeq(at, LAMBDA m : (p.lead - m.mid) * p.side >= MinMove)
             IN 2 * Len(away) >= Len(at)]_vars

\* "Acting on stale data leads to insta-timeout: pos.deadline is already past by the
\* time we open": on a live feed what a tick opens is not what the sweeper, on another
\* clock, closes at once.  In a replay it is, whenever the ticks are that old.
NoInstaTimeout ==
    [][\A b \in Bases :
          /\ ~Backtest /\ StaleAfter < HoldMax
          /\ state[b].open = None /\ state'[b].open # None
          => ~Expired(b)']_vars

\* What the coordinator is promised: every entry under an id of its own, its exit
\* after it, once, and in the end, also when the venue goes silent.
Ledger == INSTANCE PaperLedger
ImplementsLedger == Ledger!FairSpec

=============================================================================
