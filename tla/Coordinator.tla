---------------------------- MODULE Coordinator ----------------------------
(***************************************************************************)
(* route_signal (collector/src/coordinator.rs) on one base: strategies, in *)
(* tasks of their own, pass their entries through the chop detector, the   *)
(* spread filter and SymbolStats, are sized, and publish.  The last entry  *)
(* of the base is read first and written last, with the time at which the  *)
(* call began.  Exits and a disabled coordinator change no state.          *)
(***************************************************************************)
EXTENDS SymbolStats

CONSTANT ChopWindow     \* CHOP_WINDOW_MS, in ticks

ASSUME CoordinatorAssumption == ChopWindow \in Nat \ {0}

Sides == {"long", "short"}
NoSide == "none"

\* Ages are counted up to Aged; an entry that old concerns no one any more.
Aged == 2 * ChopWindow

VARIABLES
    stage,          \* [Callers -> where the call of route_signal is]
    side,           \* [Callers -> side of the entry in hand]
    since,          \* [Callers -> age of the call's now_inst, 0 outside a call]
    last_entry,     \* the map's record: [side, age]
    published       \* [Sides -> age of the last published entry's now_inst]

co == <<stage, side, since, last_entry, published>>
covars == <<vars, co>>

CoInit ==
    /\ Init
    /\ stage = [c \in Callers |-> "idle"]
    /\ side = [c \in Callers |-> "long"]
    /\ since = [c \in Callers |-> 0]
    /\ last_entry = [side |-> NoSide, age |-> 0]
    /\ published = [s \in Sides |-> Aged]

Opposite(s) == last_entry.side \notin {NoSide, s}

\* Mutant: the age of the last entry is ignored from half the window on.
ChopHalf(s) == Opposite(s) /\ 2 * last_entry.age < ChopWindow

\* "drop if the same base just fired the opposite side"
Chop(s) == Opposite(s) /\ last_entry.age < ChopWindow

\* now_inst, the chop detector and the spread filter, which may drop the entry.
Route(c, s) ==
    /\ stage[c] = "idle"
    /\ IF Chop(s)
       THEN UNCHANGED <<stage, side, since>>
       ELSE /\ \E l \in {"idle", "check"} : stage' = [stage EXCEPT ![c] = l]
            /\ side' = [side EXCEPT ![c] = s]
            /\ since' = [since EXCEPT ![c] = 0]
    /\ UNCHANGED <<vars, last_entry, published>>

\* check_entry of SymbolStats, up to its decision.
Check(c) ==
    /\ stage[c] = "check"
    /\ SkipWide(c) \/ CheckEntry(c)
    /\ stage' = [stage EXCEPT ![c] = "decided"]
    /\ UNCHANGED <<side, since, last_entry, published>>

FinishCheck(c) ==
    /\ TakeProbe(c) \/ SetCooldown(c)
    /\ UNCHANGED co

Skip(c) ==
    /\ stage[c] = "decided" /\ pc[c] = "idle"
    /\ decision[c] \in {"skip", "wide"}
    /\ stage' = [stage EXCEPT ![c] = "idle"]
    /\ since' = [since EXCEPT ![c] = 0]
    /\ UNCHANGED <<vars, side, last_entry, published>>

\* adjusted_size reads the scale of the symbol; then last_entry is written and
\* the entry is published.
Publish(c) ==
    /\ stage[c] = "decided" /\ pc[c] = "idle"
    /\ decision[c] \in {"pass", "probe"}
    /\ stage' = [stage EXCEPT ![c] = "idle"]
    /\ last_entry' = [side |-> side[c], age |-> since[c]]
    /\ published' = [published EXCEPT ![side[c]] = since[c]]
    /\ since' = [since EXCEPT ![c] = 0]
    /\ UNCHANGED <<vars, side>>

Older(a) == Min({a + 1, Aged})

\* Time passes for everyone; SymbolStats counts its cooldown down.
CoTick ==
    /\ Tick \/ (cooldown = 0 /\ UNCHANGED vars)
    /\ since' = [c \in Callers |->
                    IF stage[c] = "idle" THEN since[c] ELSE Older(since[c])]
    /\ last_entry' = [last_entry EXCEPT !.age = Older(@)]
    /\ published' = [s \in Sides |-> Older(published[s])]
    /\ UNCHANGED <<stage, side>>

CoRecordTrade(t) == RecordTrade(t) /\ UNCHANGED co

CoNext ==
    \/ \E c \in Callers :
          \/ \E s \in Sides : Route(c, s)
          \/ Check(c) \/ FinishCheck(c) \/ Skip(c) \/ Publish(c)
    \/ \E t \in Trades : CoRecordTrade(t)
    \/ CoTick

CoSpec == CoInit /\ [][CoNext]_covars

-----------------------------------------------------------------------------
(* Properties                                                              *)

\* The coordinator's own state and its statistics have their types.
CoTypeOK ==
    /\ TypeOK
    /\ stage \in [Callers -> {"idle", "check", "decided"}]
    /\ side \in [Callers -> Sides]
    /\ since \in [Callers -> 0..Aged]
    /\ last_entry \in [side : Sides \union {NoSide}, age : 0..Aged]
    /\ published \in [Sides -> 0..Aged]

\* Entries of opposite sides are never published within the window of each other.
\* It holds of signals routed one at a time, whatever is skipped between them;
\* two strategies in route_signal at once both read the old last entry.
NoChop ==
    LET a == published["long"]
        b == published["short"]
    IN  a < Aged /\ b < Aged => a - b >= ChopWindow \/ b - a >= ChopWindow

=============================================================================
