-------------------------- MODULE CollectorProofs --------------------------
(***************************************************************************)
(* SymbolStats: the probe budget of a cooldown, for any number of callers. *)
(* The counter is read under one guard and decremented under another, so   *)
(* what bounds the probes is not the counter alone: while it is positive   *)
(* it accounts for every probe granted; once it is zero, only callers that *)
(* are already between the two guards can still be granted one.            *)
(*                                                                         *)
(* Coordinator: the chop detector, for any window and any statistics, when *)
(* signals of a base are routed one at a time.                             *)
(*                                                                         *)
(* These and the theorems on SpreadRevert, HlSpreadRevert and PaperBook    *)
(* give the invariants of MCCollector: a behaviour runs one component, so  *)
(* it is a behaviour of that component's specification.  The latter come   *)
(* by an instance of the module that proves them, under the substitution   *)
(* of MCCollector.  A definition under two instances is two definitions to *)
(* the prover, so the lemmas "Same" expand both.                           *)
(***************************************************************************)
EXTENDS MCCollector, FiniteSetTheorems, SequenceTheorems, TLAPS

-----------------------------------------------------------------------------
(* The probe budget                                                        *)

\* Callers that have read a positive counter and not decremented it yet.
Pending == {c \in Callers : pc[c] = "probe"}

\* The inductive invariant behind ProbesBounded.
Budget ==
    /\ pc \in [Callers -> {"idle", "probe", "cool"}]
    /\ granted \in Nat /\ probe_remaining \in Nat
    /\ probe_remaining > 0 => granted + probe_remaining = ProbeCount
    /\ probe_remaining = 0 =>
          granted + Cardinality(Pending) <= ProbeCount + Cardinality(Callers) - 1

\* Pending callers are some of the callers.
LEMMA PendingBounded ==
  /\ IsFiniteSet(Pending) /\ Cardinality(Pending) \in Nat
  /\ Cardinality(Callers) \in Nat
  /\ Cardinality(Pending) <= Cardinality(Callers)
<1>1. Pending \in SUBSET Callers BY DEF Pending
<1>2. QED
  BY <1>1, FS_Subset, FS_CardinalityType, SymbolStatsAssumption

\* A caller that leaves the probe branch leaves room for no other.
LEMMA PendingLeaves ==
  ASSUME NEW c \in Callers, pc[c] = "probe", Goto(c, "idle"),
         pc \in [Callers -> {"idle", "probe", "cool"}]
  PROVE  Cardinality(Pending') = Cardinality(Pending) - 1
<1>1. Pending' = Pending \ {c} BY DEF Pending, Goto
<1>2. c \in Pending BY DEF Pending
<1>3. QED BY <1>1, <1>2, PendingBounded, FS_RemoveElement

\* Every step keeps the budget.
LEMMA BudgetStep == Budget /\ [Next]_vars => Budget'
<1> SUFFICES ASSUME Budget, [Next]_vars PROVE Budget'
  OBVIOUS
<1> USE SymbolStatsAssumption
<1>1. ASSUME UNCHANGED <<pc, granted, probe_remaining>> PROVE Budget'
  BY <1>1 DEF Budget, Pending
<1>2. ASSUME NEW c \in Callers, SkipWide(c) PROVE Budget'
  BY <1>1, <1>2 DEF SkipWide, stats
<1>3. ASSUME NEW c \in Callers, CheckEntry(c) PROVE Budget'
  <2>1. UNCHANGED <<granted, probe_remaining>> BY <1>3 DEF CheckEntry, stats
  <2>2. pc' \in [Callers -> {"idle", "probe", "cool"}]
    BY <1>3 DEF CheckEntry, Goto, Budget
  <2>3. CASE probe_remaining > 0 BY <2>1, <2>2, <2>3 DEF Budget
  <2>4. CASE probe_remaining = 0
    <3>1. pc' = pc \/ Goto(c, "cool") BY <1>3, <2>4 DEF CheckEntry
    <3>2. pc[c] = "idle" BY <1>3 DEF CheckEntry
    <3>3. Pending' = Pending BY <3>1, <3>2 DEF Pending, Goto, Budget
    <3>4. QED BY <2>1, <2>2, <2>4, <3>3 DEF Budget
  <2>5. QED BY <2>3, <2>4 DEF Budget
<1>4. ASSUME NEW c \in Callers, TakeProbe(c) PROVE Budget'
  <2>1. /\ pc[c] = "probe" /\ Goto(c, "idle")
        /\ granted' = granted + 1
        /\ probe_remaining' =
              IF probe_remaining > 0 THEN probe_remaining - 1 ELSE 0
    BY <1>4 DEF TakeProbe
  <2>2. pc' \in [Callers -> {"idle", "probe", "cool"}]
    BY <2>1 DEF Goto, Budget
  <2>3. Cardinality(Pending') = Cardinality(Pending) - 1
    BY <2>1, PendingLeaves DEF Budget
  <2>4. Cardinality(Pending) \in Nat /\ Cardinality(Callers) \in Nat
        /\ Cardinality(Pending) <= Cardinality(Callers)
    BY PendingBounded
  <2>5. granted' \in Nat /\ probe_remaining' \in Nat BY <2>1 DEF Budget
  <2>6. probe_remaining' > 0 => granted' + probe_remaining' = ProbeCount
    BY <2>1 DEF Budget
  <2>7. probe_remaining' = 0 =>
           granted' + Cardinality(Pending') <= ProbeCount + Cardinality(Callers) - 1
    BY <2>1, <2>3, <2>4 DEF Budget
  <2>8. QED BY <2>2, <2>5, <2>6, <2>7 DEF Budget
<1>5. ASSUME NEW c \in Callers, SetCooldown(c) PROVE Budget'
  BY <1>5 DEF SetCooldown, Goto, Budget
<1>6. ASSUME NEW t \in Trades, RecordTrade(t) PROVE Budget'
  <2>1. CASE UNCHANGED probe_remaining
    BY <1>1, <1>6, <2>1 DEF RecordTrade
  <2>2. CASE probe_remaining' = 0
    <3>1. UNCHANGED <<pc, granted>> /\ Pending' = Pending
      BY <1>6 DEF RecordTrade, Pending
    <3>2. Cardinality(Pending) \in Nat /\ Cardinality(Callers) \in Nat
          /\ Cardinality(Pending) <= Cardinality(Callers)
      BY PendingBounded
    <3>3. granted + Cardinality(Pending) <= ProbeCount + Cardinality(Callers) - 1
      BY <3>2 DEF Budget
    <3>4. QED BY <2>2, <3>1, <3>3 DEF Budget
  <2>3. QED BY <1>6, <2>1, <2>2 DEF RecordTrade
<1>7. CASE Tick
  BY <1>1, <1>7 DEF Tick
<1>8. CASE UNCHANGED vars
  BY <1>1, <1>8 DEF vars, stats
<1>9. QED
  BY <1>2, <1>3, <1>4, <1>5, <1>6, <1>7, <1>8 DEF Next

LEMMA BudgetStarts == Init => Budget
<1> SUFFICES ASSUME Init PROVE Budget
  OBVIOUS
<1>1. Pending = {} BY DEF Init, Pending
<1>2. Cardinality(Pending) = 0 BY <1>1, FS_EmptySet
<1>3. Cardinality(Callers) \in Nat BY PendingBounded
<1>4. QED BY <1>2, <1>3, SymbolStatsAssumption DEF Init, Budget

LEMMA BudgetBounds == Budget => ProbesBounded
<1>1. /\ Cardinality(Pending) \in Nat /\ Cardinality(Callers) \in Nat
      /\ Cardinality(Pending) <= Cardinality(Callers)
  BY PendingBounded
<1>2. QED BY <1>1, SymbolStatsAssumption DEF Budget, ProbesBounded

\* A cooldown never grants more than ProbeCount probes and one for each other
\* caller, whatever the interleaving of check_entry and record_trade.
THEOREM ProbesBoundedCorrect == Spec => []ProbesBounded
BY BudgetStarts, BudgetBounds, BudgetStep, PTL DEF Spec

-----------------------------------------------------------------------------
(* Types                                                                   *)

\* Min picks the smaller of two integers.
LEMMA MinOfTwo ==
  ASSUME NEW a \in Int, NEW b \in Int
  PROVE  Min({a, b}) = IF a <= b THEN a ELSE b
<1> DEFINE m == IF a <= b THEN a ELSE b
<1>1. m \in {a, b} /\ \A y \in {a, b} : m <= y OBVIOUS
<1>2. \A x \in {a, b} : (\A y \in {a, b} : x <= y) => x = m OBVIOUS
<1>3. QED BY <1>1, <1>2 DEF Min

\* Max picks the larger.
LEMMA MaxOfTwo ==
  ASSUME NEW a \in Int, NEW b \in Int
  PROVE  Max({a, b}) = IF a >= b THEN a ELSE b
<1> DEFINE m == IF a >= b THEN a ELSE b
<1>1. m \in {a, b} /\ \A y \in {a, b} : m >= y OBVIOUS
<1>2. \A x \in {a, b} : (\A y \in {a, b} : x >= y) => x = m OBVIOUS
<1>3. QED BY <1>1, <1>2 DEF Max

\* What the types rest on; SymbolStats and Coordinator assume it, and an instance of
\* them with other constants has to show it.
NumbersOK ==
    /\ Window \in Nat \ {0} /\ Cooldown \in Nat /\ ProbeCount \in Nat /\ MaxOpen \in Nat
    /\ ScaleMin \in Int /\ ScaleMax \in Int /\ ScaleMin <= 0 /\ 0 <= ScaleMax
    /\ ChopWindow \in Nat \ {0}

\* The modules do assume it.
LEMMA NumbersAssumed == NumbersOK
BY CoordinatorAssumption, SymbolStatsAssumption DEF NumbersOK

\* A full window makes room for the trade that is pushed.
LEMMA PushTypes ==
  ASSUME NumbersOK, NEW r \in Seq(Trades), Len(r) <= Window, NEW t \in Trades
  PROVE  Push(r, t) \in Seq(Trades) /\ Len(Push(r, t)) <= Window
<1>1. Window \in Nat \ {0} BY DEF NumbersOK
<1>2. CASE Len(r) >= Window
  <2>1. r # <<>> BY <1>1, <1>2
  <2>2. Tail(r) \in Seq(Trades) /\ Len(Tail(r)) = Len(r) - 1 BY <2>1
  <2>3. QED BY <1>1, <1>2, <2>2 DEF Push
<1>3. CASE ~(Len(r) >= Window)
  BY <1>1, <1>3 DEF Push
<1>4. QED BY <1>2, <1>3

\* The level of the size scale moves one step at most, within its limits.
LEMMA ScaleTypes ==
  ASSUME NumbersOK, scale \in ScaleMin..ScaleMax, NEW r
  PROVE  UpdateScale(r) \in ScaleMin..ScaleMax
<1>1. ScaleMin \in Int /\ ScaleMax \in Int /\ scale \in Int
  BY DEF NumbersOK
<1>2. Max({scale - 1, ScaleMin}) \in ScaleMin..ScaleMax
  <2>1. Max({scale - 1, ScaleMin}) = IF scale - 1 >= ScaleMin THEN scale - 1 ELSE ScaleMin
    BY <1>1, MaxOfTwo
  <2>2. QED BY <1>1, <2>1 DEF NumbersOK
<1>3. Min({scale + 1, ScaleMax}) \in ScaleMin..ScaleMax
  <2>1. Min({scale + 1, ScaleMax}) = IF scale + 1 <= ScaleMax THEN scale + 1 ELSE ScaleMax
    BY <1>1, MinOfTwo
  <2>2. QED BY <1>1, <2>1 DEF NumbersOK
<1>4. QED BY <1>2, <1>3 DEF UpdateScale

\* SymbolStats keeps its types.
LEMMA StatsTypesStep == NumbersOK /\ TypeOK /\ [Next]_vars => TypeOK'
<1> SUFFICES ASSUME NumbersOK, TypeOK, [Next]_vars PROVE TypeOK'
  OBVIOUS
<1>1. Admitted => open_trades' \in 0..MaxOpen
  <2>1. open_trades \in 0..MaxOpen /\ MaxOpen \in Nat BY DEF TypeOK, NumbersOK
  <2>2. Min({open_trades + 1, MaxOpen})
           = IF open_trades + 1 <= MaxOpen THEN open_trades + 1 ELSE MaxOpen
    BY <2>1, MinOfTwo
  <2>3. QED BY <2>1, <2>2 DEF Admitted
<1>2. ASSUME NEW c \in Callers, SkipWide(c) PROVE TypeOK'
  BY <1>2 DEF SkipWide, Decide, stats, TypeOK
<1>3. ASSUME NEW c \in Callers, CheckEntry(c) PROVE TypeOK'
  <2>1. UNCHANGED <<recent, cooldown, probe_remaining, scale, granted>>
    BY <1>3 DEF CheckEntry, stats
  <2>2. open_trades' \in 0..MaxOpen BY <1>1, <1>3 DEF CheckEntry, TypeOK
  <2>3. pc' \in [Callers -> {"idle", "probe", "cool"}]
    BY <1>3 DEF CheckEntry, Goto, TypeOK
  <2>4. decision' \in [Callers -> {"none", "wide", "skip", "probe", "pass"}]
    BY <1>3 DEF CheckEntry, Decide, TypeOK
  <2>5. QED BY <2>1, <2>2, <2>3, <2>4 DEF TypeOK
<1>4. ASSUME NEW c \in Callers, TakeProbe(c) PROVE TypeOK'
  BY <1>1, <1>4 DEF TakeProbe, Decide, Goto, TypeOK, NumbersOK
<1>5. ASSUME NEW c \in Callers, SetCooldown(c) PROVE TypeOK'
  BY <1>5 DEF SetCooldown, Decide, Goto, TypeOK, NumbersOK
<1>6. ASSUME NEW t \in Trades, RecordTrade(t) PROVE TypeOK'
  <2>1. recent' \in Seq(Trades) /\ Len(recent') <= Window
    BY <1>6, PushTypes DEF RecordTrade, TypeOK
  <2>2. scale' \in ScaleMin..ScaleMax BY <1>6, ScaleTypes DEF RecordTrade, TypeOK
  <2>3. cooldown' \in 0..Cooldown /\ probe_remaining' \in 0..ProbeCount
    BY <1>6 DEF RecordTrade, TypeOK, NumbersOK
  <2>4. open_trades' \in 0..MaxOpen /\ UNCHANGED <<pc, decision, granted>>
    BY <1>6 DEF RecordTrade, TypeOK, NumbersOK
  <2>5. QED BY <2>1, <2>2, <2>3, <2>4 DEF TypeOK
<1>7. CASE Tick BY <1>7 DEF Tick, TypeOK, NumbersOK
<1>8. CASE UNCHANGED vars BY <1>8 DEF vars, stats, TypeOK
<1>9. QED BY <1>2, <1>3, <1>4, <1>5, <1>6, <1>7, <1>8 DEF Next

\* A coordinator's step is one of its statistics or none.
LEMMA CoSteps == [CoNext]_covars => [Next]_vars
<1> SUFFICES ASSUME [CoNext]_covars PROVE [Next]_vars
  OBVIOUS
<1>1. ASSUME NEW c \in Callers, NEW s \in Sides, Route(c, s) PROVE [Next]_vars
  BY <1>1 DEF Route
<1>2. ASSUME NEW c \in Callers, Check(c) PROVE [Next]_vars BY <1>2 DEF Check, Next
<1>3. ASSUME NEW c \in Callers, FinishCheck(c) PROVE [Next]_vars
  BY <1>3 DEF FinishCheck, Next
<1>4. ASSUME NEW c \in Callers, Skip(c) \/ Publish(c) PROVE [Next]_vars
  BY <1>4 DEF Skip, Publish
<1>5. ASSUME NEW t \in Trades, CoRecordTrade(t) PROVE [Next]_vars
  BY <1>5 DEF CoRecordTrade, Next
<1>6. CASE CoTick BY <1>6 DEF CoTick, Next
<1>7. CASE UNCHANGED covars BY <1>7 DEF covars
<1>8. QED BY <1>1, <1>2, <1>3, <1>4, <1>5, <1>6, <1>7 DEF CoNext

\* The coordinator's own variables.
CoTypes ==
    /\ stage \in [Callers -> {"idle", "check", "decided"}]
    /\ side \in [Callers -> Sides]
    /\ since \in [Callers -> 0..Aged]
    /\ last_entry \in [side : Sides \union {NoSide}, age : 0..Aged]
    /\ published \in [Sides -> 0..Aged]

\* Aged is a number, twice the window.
LEMMA AgedNumbers ==
  ASSUME NumbersOK
  PROVE
  /\ Aged \in Nat /\ ChopWindow \in Nat /\ 0 < ChopWindow /\ Aged = 2 * ChopWindow
  /\ \A a \in 0..Aged : Older(a) = IF a < Aged THEN a + 1 ELSE Aged
  /\ NoSide \notin Sides /\ Sides # {}
<1>1. /\ Aged \in Nat /\ ChopWindow \in Nat /\ 0 < ChopWindow
      /\ Aged = 2 * ChopWindow
  BY DEF Aged, NumbersOK
<1>2. \A a \in 0..Aged : Older(a) = IF a < Aged THEN a + 1 ELSE Aged
  <2> TAKE a \in 0..Aged
  <2>1. a + 1 \in Int /\ Aged \in Int BY <1>1
  <2>2. Older(a) = IF a + 1 <= Aged THEN a + 1 ELSE Aged BY <2>1, MinOfTwo DEF Older
  <2>3. QED BY <1>1, <2>2
<1>3. QED BY <1>1, <1>2 DEF NoSide, Sides

\* The coordinator keeps the types of its own variables.
LEMMA CoTypesStep == NumbersOK /\ CoTypes /\ [CoNext]_covars => CoTypes'
<1> SUFFICES ASSUME NumbersOK, CoTypes, [CoNext]_covars PROVE CoTypes'
  OBVIOUS
<1>0. 0 \in 0..Aged BY AgedNumbers
<1>1. ASSUME UNCHANGED co PROVE CoTypes' BY <1>1 DEF co, CoTypes
<1>2. ASSUME NEW c \in Callers, NEW s \in Sides, Route(c, s) PROVE CoTypes'
  BY <1>0, <1>2 DEF Route, CoTypes
<1>3. ASSUME NEW c \in Callers, Check(c) PROVE CoTypes' BY <1>3 DEF Check, CoTypes
<1>4. ASSUME NEW c \in Callers, FinishCheck(c) PROVE CoTypes'
  BY <1>1, <1>4 DEF FinishCheck
<1>5. ASSUME NEW c \in Callers, Skip(c) PROVE CoTypes' BY <1>0, <1>5 DEF Skip, CoTypes
<1>6. ASSUME NEW c \in Callers, Publish(c) PROVE CoTypes'
  BY <1>0, <1>6 DEF Publish, CoTypes
<1>7. ASSUME NEW t \in Trades, CoRecordTrade(t) PROVE CoTypes'
  BY <1>1, <1>7 DEF CoRecordTrade
<1>8. CASE CoTick
  <2>1. \A a \in 0..Aged : Older(a) \in 0..Aged BY AgedNumbers
  <2>2. since' \in [Callers -> 0..Aged] BY <1>8, <2>1 DEF CoTick, CoTypes
  <2>3. last_entry' \in [side : Sides \union {NoSide}, age : 0..Aged]
    BY <1>8, <2>1 DEF CoTick, CoTypes
  <2>4. published' \in [Sides -> 0..Aged] BY <1>8, <2>1 DEF CoTick, CoTypes
  <2>5. QED BY <1>8, <2>2, <2>3, <2>4 DEF CoTick, CoTypes
<1>9. CASE UNCHANGED covars BY <1>1, <1>9 DEF covars
<1>10. QED BY <1>2, <1>3, <1>4, <1>5, <1>6, <1>7, <1>8, <1>9 DEF CoNext

\* Types initially.
LEMMA CoTypesInit == NumbersOK /\ CoInit => CoTypeOK
<1> SUFFICES ASSUME NumbersOK, CoInit PROVE CoTypeOK
  OBVIOUS
<1>1. TypeOK BY DEF CoInit, Init, TypeOK, NumbersOK
<1>2. CoTypes BY AgedNumbers DEF CoInit, CoTypes, Sides
<1>3. QED BY <1>1, <1>2 DEF CoTypeOK, CoTypes

\* The coordinator's own state and its statistics have their types.
THEOREM CoTypesCorrect == CoSpec => []CoTypeOK
<1> USE NumbersAssumed
<1>1. CoInit => CoTypeOK BY CoTypesInit
<1>2. CoTypeOK /\ [CoNext]_covars => CoTypeOK'
  BY StatsTypesStep, CoTypesStep, CoSteps DEF CoTypeOK, CoTypes
<1>3. QED BY <1>1, <1>2, PTL DEF CoSpec

-----------------------------------------------------------------------------
(* The chop detector                                                       *)

\* Signals of the base are routed one at a time.
OneAtATime ==
    \A c, d \in Callers : stage[c] # "idle" /\ stage[d] # "idle" => c = d

Sequential == CoSpec /\ []OneAtATime

\* The last entry is the latest published, and the one of the other side is older
\* than it by the window.
Spaced ==
    /\ last_entry.side = NoSide => \A s \in Sides : published[s] = Aged
    /\ last_entry.side # NoSide => published[last_entry.side] = last_entry.age
    /\ \A s \in Sides : Opposite(s) /\ published[s] < Aged =>
          published[s] - last_entry.age >= ChopWindow

\* A call in progress began after the last entry, and the window after it when the
\* sides differ: what it publishes is spaced from what was published.
Behind ==
    \A c \in Callers : stage[c] # "idle" /\ last_entry.side # NoSide =>
        /\ since[c] <= last_entry.age
        /\ Opposite(side[c]) /\ last_entry.age < Aged =>
              last_entry.age - since[c] >= ChopWindow

ChopInv == CoTypes /\ Spaced /\ Behind

\* What is assumed of the constants makes Aged a number, twice the window.
LEMMA AgedFacts ==
  /\ Aged \in Nat /\ ChopWindow \in Nat /\ 0 < ChopWindow /\ Aged = 2 * ChopWindow
  /\ \A a \in 0..Aged : Older(a) = IF a < Aged THEN a + 1 ELSE Aged
  /\ NoSide \notin Sides /\ Sides # {}
BY NumbersAssumed, AgedNumbers

\* A call that begins passes the detector; the window lies between it and an entry
\* of the other side.
LEMMA RouteStep ==
  ASSUME ChopInv, NEW c \in Callers, NEW s \in Sides, Route(c, s)
  PROVE  ChopInv'
<1>1. UNCHANGED <<last_entry, published>> BY DEF Route
<1>2. CASE Chop(s)
  <2>1. UNCHANGED <<stage, side, since>> BY <1>2 DEF Route
  <2>2. QED BY <1>1, <2>1 DEF ChopInv, CoTypes, Spaced, Behind, Opposite
<1>3. CASE ~Chop(s)
  <2>1. PICK l \in {"idle", "check"} : stage' = [stage EXCEPT ![c] = l]
    BY <1>3 DEF Route
  <2>2. side' = [side EXCEPT ![c] = s] /\ since' = [since EXCEPT ![c] = 0]
    BY <1>3 DEF Route
  <2>3. CoTypes' BY <1>1, <2>1, <2>2, AgedFacts DEF ChopInv, CoTypes
  <2>4. Spaced' BY <1>1 DEF ChopInv, Spaced, Opposite
  <2>5. Behind'
    <3> SUFFICES ASSUME NEW d \in Callers, stage'[d] # "idle", last_entry.side # NoSide
                 PROVE  /\ since'[d] <= last_entry.age
                        /\ Opposite(side'[d]) /\ last_entry.age < Aged =>
                              last_entry.age - since'[d] >= ChopWindow
      BY <1>1 DEF Behind, Opposite
    <3>1. CASE d = c
      <4>1. since'[d] = 0 /\ side'[d] = s BY <2>2, <3>1 DEF ChopInv, CoTypes
      <4>2. last_entry.age \in Nat BY AgedFacts DEF ChopInv, CoTypes
      <4>3. Opposite(s) => last_entry.age >= ChopWindow
        BY <1>3, <4>2, AgedFacts DEF Chop
      <4>4. QED BY <4>1, <4>2, <4>3, AgedFacts
    <3>2. CASE d # c
      <4>1. since'[d] = since[d] /\ side'[d] = side[d] /\ stage'[d] = stage[d]
        BY <2>1, <2>2, <3>2 DEF ChopInv, CoTypes
      <4>2. QED BY <4>1 DEF ChopInv, Behind
    <3>3. QED BY <3>1, <3>2
  <2>6. QED BY <2>3, <2>4, <2>5 DEF ChopInv
<1>4. QED BY <1>2, <1>3

\* The one call in progress publishes: what it overtook is spaced from it.
LEMMA PublishStep ==
  ASSUME ChopInv, OneAtATime, NEW c \in Callers, Publish(c)
  PROVE  ChopInv'
<1>1. /\ stage[c] # "idle" /\ stage' = [stage EXCEPT ![c] = "idle"]
      /\ last_entry' = [side |-> side[c], age |-> since[c]]
      /\ published' = [published EXCEPT ![side[c]] = since[c]]
      /\ since' = [since EXCEPT ![c] = 0] /\ side' = side
  BY DEF Publish
<1>2. side[c] \in Sides /\ since[c] \in 0..Aged BY DEF ChopInv, CoTypes
<1>3. CoTypes' BY <1>1, <1>2, AgedFacts DEF ChopInv, CoTypes
<1>4. Behind'
  <2>1. \A d \in Callers : stage'[d] = "idle" BY <1>1 DEF OneAtATime, ChopInv, CoTypes
  <2>2. QED BY <2>1 DEF Behind
<1>5. Spaced'
  <2>1. last_entry'.side = side[c] /\ last_entry'.age = since[c] BY <1>1
  <2>2. published'[side[c]] = since[c] BY <1>1, <1>2 DEF ChopInv, CoTypes
  <2>3. ASSUME NEW s \in Sides, s # side[c], published'[s] < Aged
        PROVE  published'[s] - since[c] >= ChopWindow
    <3>1. published'[s] = published[s] /\ published[s] \in 0..Aged
      BY <1>1, <2>3 DEF ChopInv, CoTypes
    <3>2. last_entry.side # NoSide BY <2>3, <3>1, AgedFacts DEF ChopInv, Spaced
    <3>3. last_entry.age \in 0..Aged /\ last_entry.side \in Sides
      BY <3>2 DEF ChopInv, CoTypes
    <3>4. since[c] <= last_entry.age /\
          (Opposite(side[c]) /\ last_entry.age < Aged =>
              last_entry.age - since[c] >= ChopWindow)
      BY <1>1, <3>2 DEF ChopInv, Behind
    <3>5. CASE last_entry.side = s
      <4>1. published[s] = last_entry.age BY <3>2, <3>5 DEF ChopInv, Spaced
      <4>2. Opposite(side[c]) BY <2>3, <3>2, <3>5 DEF Opposite
      <4>3. QED BY <2>3, <3>1, <3>4, <4>1, <4>2
    <3>6. CASE last_entry.side # s
      <4>1. Opposite(s) BY <3>2, <3>6 DEF Opposite
      <4>2. published[s] - last_entry.age >= ChopWindow
        BY <2>3, <3>1, <4>1 DEF ChopInv, Spaced
      <4>3. QED BY <1>2, <3>1, <3>3, <3>4, <4>2, AgedFacts
    <3>7. QED BY <3>5, <3>6
  <2>4. side[c] # NoSide BY <1>2, AgedFacts
  <2>5. QED BY <2>1, <2>2, <2>3, <2>4 DEF Spaced, Opposite
<1>6. QED BY <1>3, <1>4, <1>5 DEF ChopInv

\* Time moves all ages alike, until they are Aged.
LEMMA CoTickStep == ASSUME ChopInv, CoTick PROVE ChopInv'
<1>1. /\ since' = [c \in Callers |->
                      IF stage[c] = "idle" THEN since[c] ELSE Older(since[c])]
      /\ last_entry' = [last_entry EXCEPT !.age = Older(@)]
      /\ published' = [s \in Sides |-> Older(published[s])]
      /\ UNCHANGED <<stage, side>>
  BY DEF CoTick
<1>2. last_entry.age \in 0..Aged /\ last_entry.side \in Sides \union {NoSide}
  BY DEF ChopInv, CoTypes
<1>3. last_entry'.side = last_entry.side /\ last_entry'.age = Older(last_entry.age)
  BY <1>1 DEF ChopInv, CoTypes
<1>4. \A c \in Callers : since[c] \in 0..Aged /\ since'[c] \in 0..Aged
  BY <1>1, AgedFacts DEF ChopInv, CoTypes
<1>5. \A s \in Sides : published[s] \in 0..Aged /\ published'[s] = Older(published[s])
  BY <1>1 DEF ChopInv, CoTypes
<1>6. CoTypes'
  <2>1. Older(last_entry.age) \in 0..Aged BY <1>2, AgedFacts
  <2>2. last_entry' \in [side : Sides \union {NoSide}, age : 0..Aged]
    BY <1>1, <2>1 DEF ChopInv, CoTypes
  <2>3. \A s \in Sides : Older(published[s]) \in 0..Aged BY <1>5, AgedFacts
  <2>4. since' \in [Callers -> 0..Aged] BY <1>1, <1>4
  <2>5. QED BY <1>1, <2>2, <2>3, <2>4 DEF ChopInv, CoTypes
<1>7. Spaced'
  <2>1. last_entry.side = NoSide => \A s \in Sides : published'[s] = Aged
    BY <1>5, AgedFacts DEF ChopInv, Spaced
  <2>2. last_entry.side # NoSide => published'[last_entry.side] = last_entry'.age
    BY <1>2, <1>3, <1>5 DEF ChopInv, Spaced
  <2>3. \A s \in Sides : Opposite(s) /\ published'[s] < Aged =>
           published'[s] - last_entry'.age >= ChopWindow
    BY <1>2, <1>3, <1>5, AgedFacts DEF ChopInv, Spaced
  <2>4. QED BY <1>3, <2>1, <2>2, <2>3 DEF Spaced, Opposite
<1>8. Behind'
  <2> SUFFICES ASSUME NEW c \in Callers, stage[c] # "idle", last_entry.side # NoSide
               PROVE  /\ since'[c] <= last_entry'.age
                      /\ Opposite(side[c]) /\ last_entry'.age < Aged =>
                            last_entry'.age - since'[c] >= ChopWindow
    BY <1>1, <1>3 DEF Behind, Opposite
  <2>1. since'[c] = Older(since[c]) BY <1>1
  <2>2. /\ since[c] <= last_entry.age
        /\ Opposite(side[c]) /\ last_entry.age < Aged =>
              last_entry.age - since[c] >= ChopWindow
    BY DEF ChopInv, Behind
  <2>3. QED BY <1>2, <1>3, <1>4, <2>1, <2>2, AgedFacts
<1>9. QED BY <1>6, <1>7, <1>8 DEF ChopInv

\* No step of a sequential coordinator breaks the spacing.
LEMMA ChopStep == ChopInv /\ OneAtATime /\ [CoNext]_covars => ChopInv'
<1> SUFFICES ASSUME ChopInv, OneAtATime, [CoNext]_covars PROVE ChopInv'
  OBVIOUS
<1>1. ASSUME UNCHANGED co PROVE ChopInv'
  BY <1>1 DEF co, ChopInv, CoTypes, Spaced, Behind, Opposite
<1>2. ASSUME NEW c \in Callers, UNCHANGED <<side, last_entry, published>>,
             since'[c] \in 0..Aged, stage'[c] \in {"idle", "check", "decided"},
             stage' = [stage EXCEPT ![c] = stage'[c]],
             since' = [since EXCEPT ![c] = since'[c]],
             stage'[c] = "idle" \/ (stage[c] # "idle" /\ since'[c] = since[c])
      PROVE  ChopInv'
  <2>1. CoTypes' BY <1>2 DEF ChopInv, CoTypes
  <2>2. Spaced' BY <1>2 DEF ChopInv, Spaced, Opposite
  <2>3. Behind' BY <1>2 DEF ChopInv, CoTypes, Behind, Opposite
  <2>4. QED BY <2>1, <2>2, <2>3 DEF ChopInv
<1>3. ASSUME NEW c \in Callers, NEW s \in Sides, Route(c, s) PROVE ChopInv'
  BY <1>3, RouteStep
<1>4. ASSUME NEW c \in Callers, Check(c) PROVE ChopInv'
  <2>1. /\ stage[c] = "check" /\ stage' = [stage EXCEPT ![c] = "decided"]
        /\ UNCHANGED <<side, since, last_entry, published>>
    BY <1>4 DEF Check
  <2>2. QED BY <1>2, <2>1 DEF ChopInv, CoTypes
<1>5. ASSUME NEW c \in Callers, FinishCheck(c) PROVE ChopInv'
  BY <1>1, <1>5 DEF FinishCheck
<1>6. ASSUME NEW c \in Callers, Skip(c) PROVE ChopInv'
  <2>1. /\ stage' = [stage EXCEPT ![c] = "idle"] /\ since' = [since EXCEPT ![c] = 0]
        /\ UNCHANGED <<side, last_entry, published>>
    BY <1>6 DEF Skip
  <2>2. stage'[c] = "idle" /\ since'[c] = 0 BY <2>1 DEF ChopInv, CoTypes
  <2>3. 0 \in 0..Aged BY AgedFacts
  <2>4. QED BY <1>2, <2>1, <2>2, <2>3
<1>7. ASSUME NEW c \in Callers, Publish(c) PROVE ChopInv'
  BY <1>7, PublishStep
<1>8. ASSUME NEW t \in Trades, CoRecordTrade(t) PROVE ChopInv'
  BY <1>1, <1>8 DEF CoRecordTrade
<1>9. CASE CoTick BY <1>9, CoTickStep
<1>10. CASE UNCHANGED covars BY <1>1, <1>10 DEF covars
<1>11. QED
  BY <1>3, <1>4, <1>5, <1>6, <1>7, <1>8, <1>9, <1>10 DEF CoNext

LEMMA ChopStarts == CoInit => ChopInv
BY AgedFacts DEF CoInit, ChopInv, CoTypes, Spaced, Behind, Opposite, Sides

LEMMA ChopSpaces == ChopInv => NoChop
<1> SUFFICES ASSUME ChopInv PROVE NoChop
  OBVIOUS
<1>1. /\ published["long"] \in Int /\ published["short"] \in Int
      /\ last_entry.age \in Int /\ last_entry.side \in {"long", "short", NoSide}
  BY AgedFacts DEF ChopInv, CoTypes, Sides
<1>2. CASE last_entry.side = NoSide
  BY <1>2, AgedFacts DEF ChopInv, Spaced, NoChop, Sides
<1>3. CASE last_entry.side = "long"
  BY <1>1, <1>3, AgedFacts DEF ChopInv, Spaced, Opposite, NoChop, Sides, NoSide
<1>4. CASE last_entry.side = "short"
  BY <1>1, <1>4, AgedFacts DEF ChopInv, Spaced, Opposite, NoChop, Sides, NoSide
<1>5. QED BY <1>1, <1>2, <1>3, <1>4

\* Entries of opposite sides are never published within the window of each other, as
\* long as the signals of the base are routed one at a time.
THEOREM NoChopCorrect == Sequential => []NoChop
BY ChopStarts, ChopSpaces, ChopStep, PTL DEF Sequential, CoSpec

SpreadP == INSTANCE SpreadRevertProofs WITH
    cooldown <- s_cooldown,
    Bases <- {b1}, Prices <- {1, 2, 4}, Baselines <- OneBaseline,
    MaxOpenPositions <- 2, MaxPositionsPerBase <- 2, StopBp <- 1, MaxHold <- 2,
    MinHold <- 0, Cooldown <- 1, MaxPosId <- 2,
    Guarded <- FALSE, LossCap <- 1

CapsP == INSTANCE SpreadRevertProofs WITH
    cooldown <- s_cooldown,
    Bases <- {b1, b2}, Prices <- {1, 3}, Baselines <- OneBaseline,
    MaxOpenPositions <- 1, MaxPositionsPerBase <- 1, StopBp <- 1, MaxHold <- 1,
    MinHold <- 1, Cooldown <- 0, MaxPosId <- 2,
    Guarded <- FALSE, LossCap <- 1

LiveP == INSTANCE SpreadRevertProofs WITH
    cooldown <- s_cooldown,
    Bases <- {b1}, Prices <- {1, 3}, Baselines <- OneBaseline,
    MaxOpenPositions <- 1, MaxPositionsPerBase <- 1, StopBp <- 1, MaxHold <- 1,
    MinHold <- 0, Cooldown <- 0, MaxPosId <- 2,
    Guarded <- TRUE, LossCap <- 1

LegsP == INSTANCE SpreadRevertProofs WITH
    cooldown <- s_cooldown,
    Bases <- {b1}, Prices <- {1, 3}, Baselines <- OneBaseline,
    MaxOpenPositions <- 2, MaxPositionsPerBase <- 1, StopBp <- 1, MaxHold <- 1,
    MinHold <- 0, Cooldown <- 0, MaxPosId <- 2,
    Guarded <- FALSE, LossCap <- 1

PaperP == INSTANCE PaperBookProofs WITH
    stats <- symbol_stats,
    closing <- p_closing, next_id <- p_next_id, entered <- p_entered, exits <- p_exits,
    Bases <- {b1}, Prices <- {1, 3}, Delays <- {0}, MaxAge <- 0,
    MaxConcurrent <- 2, EntryBp <- 1, ExitBp <- 1, Fee <- 1, MaxHold <- 2, MinHold <- 1,
    Latency <- 1, LatencyHold <- 1, FundingHold <- 1, PairsCooldown <- 1,
    LatencyCooldown <- 1, MinSamples <- 2, BlackTrades <- 1, BlackFor <- 1,
    Strategies <- {"latency", "pairs", "funding"}, MaxPosId <- 2

BookP == INSTANCE PaperBookProofs WITH
    stats <- symbol_stats,
    closing <- p_closing, next_id <- p_next_id, entered <- p_entered, exits <- p_exits,
    Bases <- {b1}, Prices <- {1, 3}, Delays <- {0}, MaxAge <- 0,
    MaxConcurrent <- 1, EntryBp <- 1, ExitBp <- 1, Fee <- 1, MaxHold <- 2, MinHold <- 1,
    Latency <- 1, LatencyHold <- 1, FundingHold <- 1, PairsCooldown <- 1,
    LatencyCooldown <- 1, MinSamples <- 2, BlackTrades <- 1, BlackFor <- 1,
    Strategies <- {"latency", "pairs", "funding"}, MaxPosId <- 2

cvars == <<focus, covars, spread, live, paper>>

-----------------------------------------------------------------------------
(* The two instances of a component are the same                           *)

\* SpreadRevert, one base.
LEMMA SpreadSame ==
  /\ Spread!ConstantsOK => SpreadP!ConstantsOK
  /\ Spread!Init => SpreadP!Init
  /\ Spread!Next => SpreadP!Next
  /\ SpreadP!TypeOK => Spread!TypeOK
  /\ SpreadP!CapsHold => Spread!CapsHold
  /\ SpreadP!OneSidePerBase => Spread!OneSidePerBase
  /\ SpreadP!ExitOnce => Spread!ExitOnce
  /\ SpreadP!NoSilentClose => Spread!NoSilentClose
<1>1. Spread!ConstantsOK => SpreadP!ConstantsOK
  BY DEF
        Spread!ConstantsOK, SpreadP!ConstantsOK
<1>2. Spread!Init => SpreadP!Init
  BY DEF
        Spread!Init, SpreadP!Init, Spread!None, SpreadP!None, Spread!Tasks,
        SpreadP!Tasks, Spread!Ids, SpreadP!Ids
<1>3. Spread!Next => SpreadP!Next
  BY DEF
        Spread!Next, SpreadP!Next, Spread!Refresh, SpreadP!Refresh, Spread!Age,
        SpreadP!Age, Spread!OnTick, SpreadP!OnTick, Spread!SweepExits,
        SpreadP!SweepExits, Spread!Venues, SpreadP!Venues, Spread!Expire,
        SpreadP!Expire, Spread!ReadBaseline, SpreadP!ReadBaseline, Spread!Tasks,
        SpreadP!Tasks, Spread!LogClose, SpreadP!LogClose, Spread!None, SpreadP!None,
        Spread!NoBaseline, SpreadP!NoBaseline, Spread!Decide, SpreadP!Decide,
        Spread!Expired, SpreadP!Expired, Spread!Queue, SpreadP!Queue, Spread!Exits,
        SpreadP!Exits, Spread!WantSide, SpreadP!WantSide, Spread!Reversed,
        SpreadP!Reversed, Spread!Enter, SpreadP!Enter, Spread!SetToSeq,
        SpreadP!SetToSeq, Spread!IdsOf, SpreadP!IdsOf, Spread!OpenOn, SpreadP!OpenOn,
        Spread!StopHit, SpreadP!StopHit, Spread!Room, SpreadP!Room, Spread!Cardinality,
        SpreadP!Cardinality, Spread!IsInjective, SpreadP!IsInjective,
        Spread!signals, SpreadP!signals, Spread!history, SpreadP!history,
        Spread!Traded, SpreadP!Traded
<1>4. SpreadP!TypeOK => Spread!TypeOK
  BY DEF
        Spread!TypeOK, SpreadP!TypeOK, Spread!Venues, SpreadP!Venues, Spread!None,
        SpreadP!None, Spread!PosIds, SpreadP!PosIds, Spread!Cardinality,
        SpreadP!Cardinality, Spread!IdsOf, SpreadP!IdsOf, Spread!Tasks, SpreadP!Tasks,
        Spread!Ids, SpreadP!Ids
<1>5. SpreadP!CapsHold => Spread!CapsHold
  BY DEF
        Spread!CapsHold, SpreadP!CapsHold, Spread!Cardinality, SpreadP!Cardinality,
        Spread!OpenOn, SpreadP!OpenOn
<1>6. SpreadP!OneSidePerBase => Spread!OneSidePerBase
  BY DEF
        Spread!OneSidePerBase, SpreadP!OneSidePerBase
<1>7. SpreadP!ExitOnce => Spread!ExitOnce
  BY DEF
        Spread!ExitOnce, SpreadP!ExitOnce, Spread!Ids, SpreadP!Ids, Spread!IdsOf,
        SpreadP!IdsOf, Spread!InClosing, SpreadP!InClosing, Spread!ToSet, SpreadP!ToSet,
        Spread!Tasks, SpreadP!Tasks
<1>8. SpreadP!NoSilentClose => Spread!NoSilentClose
  BY DEF
        Spread!NoSilentClose, SpreadP!NoSilentClose, Spread!IdsOf, SpreadP!IdsOf,
        Spread!InClosing, SpreadP!InClosing, Spread!Ids, SpreadP!Ids, Spread!ToSet,
        SpreadP!ToSet, Spread!Tasks, SpreadP!Tasks
<1>9. QED BY <1>1, <1>2, <1>3, <1>4, <1>5, <1>6, <1>7, <1>8

\* SpreadRevert, two bases.
LEMMA CapsSame ==
  /\ Caps!ConstantsOK => CapsP!ConstantsOK
  /\ Caps!Init => CapsP!Init
  /\ Caps!Next => CapsP!Next
  /\ CapsP!TypeOK => Caps!TypeOK
  /\ CapsP!CapsHold => Caps!CapsHold
<1>1. Caps!ConstantsOK => CapsP!ConstantsOK
  BY DEF
        Caps!ConstantsOK, CapsP!ConstantsOK
<1>2. Caps!Init => CapsP!Init
  BY DEF
        Caps!Init, CapsP!Init, Caps!None, CapsP!None, Caps!Tasks, CapsP!Tasks, Caps!Ids,
        CapsP!Ids
<1>3. Caps!Next => CapsP!Next
  BY DEF
        Caps!Next, CapsP!Next, Caps!Refresh, CapsP!Refresh, Caps!Age, CapsP!Age,
        Caps!OnTick, CapsP!OnTick, Caps!SweepExits, CapsP!SweepExits, Caps!Venues,
        CapsP!Venues, Caps!Expire, CapsP!Expire, Caps!ReadBaseline, CapsP!ReadBaseline,
        Caps!Tasks, CapsP!Tasks, Caps!LogClose, CapsP!LogClose, Caps!None, CapsP!None,
        Caps!NoBaseline, CapsP!NoBaseline, Caps!Decide, CapsP!Decide, Caps!Expired,
        CapsP!Expired, Caps!Queue, CapsP!Queue, Caps!Exits, CapsP!Exits, Caps!WantSide,
        CapsP!WantSide, Caps!Reversed, CapsP!Reversed, Caps!Enter, CapsP!Enter,
        Caps!SetToSeq, CapsP!SetToSeq, Caps!IdsOf, CapsP!IdsOf, Caps!OpenOn,
        CapsP!OpenOn, Caps!StopHit, CapsP!StopHit, Caps!Room, CapsP!Room,
        Caps!Cardinality, CapsP!Cardinality, Caps!IsInjective, CapsP!IsInjective,
        Caps!signals, CapsP!signals, Caps!history, CapsP!history,
        Caps!Traded, CapsP!Traded
<1>4. CapsP!TypeOK => Caps!TypeOK
  BY DEF
        Caps!TypeOK, CapsP!TypeOK, Caps!Venues, CapsP!Venues, Caps!None, CapsP!None,
        Caps!PosIds, CapsP!PosIds, Caps!Cardinality, CapsP!Cardinality, Caps!IdsOf,
        CapsP!IdsOf, Caps!Tasks, CapsP!Tasks, Caps!Ids, CapsP!Ids
<1>5. CapsP!CapsHold => Caps!CapsHold
  BY DEF
        Caps!CapsHold, CapsP!CapsHold, Caps!Cardinality, CapsP!Cardinality, Caps!OpenOn,
        CapsP!OpenOn
<1>6. QED BY <1>1, <1>2, <1>3, <1>4, <1>5

\* HlSpreadRevert, guarded.
LEMMA LiveSame ==
  /\ Live!HlConstantsOK => LiveP!HlConstantsOK
  /\ Live!HInit => LiveP!HInit
  /\ Live!HNext => LiveP!HNext
  /\ LiveP!HTypeOK => Live!HTypeOK
  /\ LiveP!ExitOnce => Live!ExitOnce
  /\ LiveP!NoSilentLive => Live!NoSilentLive
<1>1. Live!HlConstantsOK => LiveP!HlConstantsOK
  BY DEF
        Live!HlConstantsOK, LiveP!HlConstantsOK, Live!ConstantsOK, LiveP!ConstantsOK
<1>2. Live!HInit => LiveP!HInit
  BY DEF
        Live!HInit, LiveP!HInit, Live!Init, LiveP!Init, Live!LiveInit, LiveP!LiveInit,
        Live!None, LiveP!None, Live!Tasks, LiveP!Tasks, Live!Ids, LiveP!Ids
<1>3. Live!HNext => LiveP!HNext
  BY DEF
        Live!HNext, LiveP!HNext, Live!HRefresh, LiveP!HRefresh, Live!HAge, LiveP!HAge,
        Live!HOnTick, LiveP!HOnTick, Live!HOnTickEnters, LiveP!HOnTickEnters,
        Live!HSweepExits, LiveP!HSweepExits, Live!Venues, LiveP!Venues, Live!HExpire,
        LiveP!HExpire, Live!HReadBaseline, LiveP!HReadBaseline, Live!Tasks, LiveP!Tasks,
        Live!HLogClose, LiveP!HLogClose, Live!Ids, LiveP!Ids, Live!EntryIoc,
        LiveP!EntryIoc, Live!PlaceExit, LiveP!PlaceExit, Live!MakerFill,
        LiveP!MakerFill, Live!CancelExit, LiveP!CancelExit, Live!CloseIoc,
        LiveP!CloseIoc, Live!LookPositions, LiveP!LookPositions, Live!LookOrders,
        LiveP!LookOrders, Live!LookFails, LiveP!LookFails, Live!Refresh, LiveP!Refresh,
        Live!live, LiveP!live, Live!Age, LiveP!Age, Live!OnTick, LiveP!OnTick,
        Live!FireEntry, LiveP!FireEntry, Live!SweepExits, LiveP!SweepExits, Live!Expire,
        LiveP!Expire, Live!ReadBaseline, LiveP!ReadBaseline, Live!LogClose,
        LiveP!LogClose, Live!FireClose, LiveP!FireClose, Live!killed, LiveP!killed,
        Live!cache, LiveP!cache, Live!account, LiveP!account, Live!Enters, LiveP!Enters,
        Live!Fill, LiveP!Fill, Live!Lost, LiveP!Lost, Live!Coin, LiveP!Coin, Live!vars,
        LiveP!vars, Live!Reducible, LiveP!Reducible, Live!Reduce, LiveP!Reduce,
        Live!tasks, LiveP!tasks, Live!Leaves, LiveP!Leaves, Live!None, LiveP!None,
        Live!BasesOf, LiveP!BasesOf, Live!NoBaseline, LiveP!NoBaseline, Live!Decide,
        LiveP!Decide, Live!coin_busy, LiveP!coin_busy, Live!Expired, LiveP!Expired,
        Live!Queue, LiveP!Queue, Live!Exits, LiveP!Exits, Live!WantSide, LiveP!WantSide,
        Live!Reversed, LiveP!Reversed, Live!Enter, LiveP!Enter, Live!SetToSeq,
        LiveP!SetToSeq, Live!IdsOf, LiveP!IdsOf, Live!OpenOn, LiveP!OpenOn,
        Live!StopHit, LiveP!StopHit, Live!Room, LiveP!Room, Live!Cardinality,
        LiveP!Cardinality, Live!IsInjective, LiveP!IsInjective,
        Live!signals, LiveP!signals, Live!history, LiveP!history,
        Live!Traded, LiveP!Traded
<1>4. LiveP!HTypeOK => Live!HTypeOK
  BY DEF
        Live!HTypeOK, LiveP!HTypeOK, Live!TypeOK, LiveP!TypeOK, Live!Ids, LiveP!Ids,
        Live!None, LiveP!None, Live!Venues, LiveP!Venues, Live!PosIds, LiveP!PosIds,
        Live!Cardinality, LiveP!Cardinality, Live!IdsOf, LiveP!IdsOf, Live!Tasks,
        LiveP!Tasks
<1>5. LiveP!ExitOnce => Live!ExitOnce
  BY DEF
        Live!ExitOnce, LiveP!ExitOnce, Live!Ids, LiveP!Ids, Live!IdsOf, LiveP!IdsOf,
        Live!InClosing, LiveP!InClosing, Live!ToSet, LiveP!ToSet, Live!Tasks,
        LiveP!Tasks
<1>6. LiveP!NoSilentLive => Live!NoSilentLive
  BY DEF
        Live!NoSilentLive, LiveP!NoSilentLive, Live!Attended, LiveP!Attended, Live!Ids,
        LiveP!Ids, Live!None, LiveP!None, Live!Coin, LiveP!Coin, Live!IdsOf, LiveP!IdsOf
<1>7. QED BY <1>1, <1>2, <1>3, <1>4, <1>5, <1>6

\* HlSpreadRevert, two legs.
LEMMA LegsSame ==
  /\ Legs!HlConstantsOK => LegsP!HlConstantsOK
  /\ Legs!HInit => LegsP!HInit
  /\ Legs!HNext => LegsP!HNext
  /\ LegsP!HTypeOK => Legs!HTypeOK
  /\ LegsP!CapsHold => Legs!CapsHold
  /\ LegsP!ExitOnce => Legs!ExitOnce
  /\ LegsP!NoSilentLive => Legs!NoSilentLive
<1>1. Legs!HlConstantsOK => LegsP!HlConstantsOK
  BY DEF
        Legs!HlConstantsOK, LegsP!HlConstantsOK, Legs!ConstantsOK, LegsP!ConstantsOK
<1>2. Legs!HInit => LegsP!HInit
  BY DEF
        Legs!HInit, LegsP!HInit, Legs!Init, LegsP!Init, Legs!LiveInit, LegsP!LiveInit,
        Legs!None, LegsP!None, Legs!Tasks, LegsP!Tasks, Legs!Ids, LegsP!Ids
<1>3. Legs!HNext => LegsP!HNext
  BY DEF
        Legs!HNext, LegsP!HNext, Legs!HRefresh, LegsP!HRefresh, Legs!HAge, LegsP!HAge,
        Legs!HOnTick, LegsP!HOnTick, Legs!HOnTickEnters, LegsP!HOnTickEnters,
        Legs!HSweepExits, LegsP!HSweepExits, Legs!Venues, LegsP!Venues, Legs!HExpire,
        LegsP!HExpire, Legs!HReadBaseline, LegsP!HReadBaseline, Legs!Tasks, LegsP!Tasks,
        Legs!HLogClose, LegsP!HLogClose, Legs!Ids, LegsP!Ids, Legs!EntryIoc,
        LegsP!EntryIoc, Legs!PlaceExit, LegsP!PlaceExit, Legs!MakerFill,
        LegsP!MakerFill, Legs!CancelExit, LegsP!CancelExit, Legs!CloseIoc,
        LegsP!CloseIoc, Legs!LookPositions, LegsP!LookPositions, Legs!LookOrders,
        LegsP!LookOrders, Legs!LookFails, LegsP!LookFails, Legs!Refresh, LegsP!Refresh,
        Legs!live, LegsP!live, Legs!Age, LegsP!Age, Legs!OnTick, LegsP!OnTick,
        Legs!FireEntry, LegsP!FireEntry, Legs!SweepExits, LegsP!SweepExits, Legs!Expire,
        LegsP!Expire, Legs!ReadBaseline, LegsP!ReadBaseline, Legs!LogClose,
        LegsP!LogClose, Legs!FireClose, LegsP!FireClose, Legs!killed, LegsP!killed,
        Legs!cache, LegsP!cache, Legs!account, LegsP!account, Legs!Enters, LegsP!Enters,
        Legs!Fill, LegsP!Fill, Legs!Lost, LegsP!Lost, Legs!Coin, LegsP!Coin, Legs!vars,
        LegsP!vars, Legs!Reducible, LegsP!Reducible, Legs!Reduce, LegsP!Reduce,
        Legs!tasks, LegsP!tasks, Legs!Leaves, LegsP!Leaves, Legs!None, LegsP!None,
        Legs!BasesOf, LegsP!BasesOf, Legs!NoBaseline, LegsP!NoBaseline, Legs!Decide,
        LegsP!Decide, Legs!coin_busy, LegsP!coin_busy, Legs!Expired, LegsP!Expired,
        Legs!Queue, LegsP!Queue, Legs!Exits, LegsP!Exits, Legs!WantSide, LegsP!WantSide,
        Legs!Reversed, LegsP!Reversed, Legs!Enter, LegsP!Enter, Legs!SetToSeq,
        LegsP!SetToSeq, Legs!IdsOf, LegsP!IdsOf, Legs!OpenOn, LegsP!OpenOn,
        Legs!StopHit, LegsP!StopHit, Legs!Room, LegsP!Room, Legs!Cardinality,
        LegsP!Cardinality, Legs!IsInjective, LegsP!IsInjective,
        Legs!signals, LegsP!signals, Legs!history, LegsP!history,
        Legs!Traded, LegsP!Traded
<1>4. LegsP!HTypeOK => Legs!HTypeOK
  BY DEF
        Legs!HTypeOK, LegsP!HTypeOK, Legs!TypeOK, LegsP!TypeOK, Legs!Ids, LegsP!Ids,
        Legs!None, LegsP!None, Legs!Venues, LegsP!Venues, Legs!PosIds, LegsP!PosIds,
        Legs!Cardinality, LegsP!Cardinality, Legs!IdsOf, LegsP!IdsOf, Legs!Tasks,
        LegsP!Tasks
<1>5. LegsP!CapsHold => Legs!CapsHold
  BY DEF
        Legs!CapsHold, LegsP!CapsHold, Legs!Cardinality, LegsP!Cardinality, Legs!OpenOn,
        LegsP!OpenOn
<1>6. LegsP!ExitOnce => Legs!ExitOnce
  BY DEF
        Legs!ExitOnce, LegsP!ExitOnce, Legs!Ids, LegsP!Ids, Legs!IdsOf, LegsP!IdsOf,
        Legs!InClosing, LegsP!InClosing, Legs!ToSet, LegsP!ToSet, Legs!Tasks,
        LegsP!Tasks
<1>7. LegsP!NoSilentLive => Legs!NoSilentLive
  BY DEF
        Legs!NoSilentLive, LegsP!NoSilentLive, Legs!Attended, LegsP!Attended, Legs!Ids,
        LegsP!Ids, Legs!None, LegsP!None, Legs!Coin, LegsP!Coin, Legs!IdsOf, LegsP!IdsOf
<1>8. QED BY <1>1, <1>2, <1>3, <1>4, <1>5, <1>6, <1>7

\* PaperBook, two positions.
LEMMA PaperSame ==
  /\ Paper!ConstantsOK => PaperP!ConstantsOK
  /\ Paper!Init => PaperP!Init
  /\ Paper!Next => PaperP!Next
  /\ PaperP!TypeOK => Paper!TypeOK
  /\ PaperP!CapAndOnePerBase => Paper!CapAndOnePerBase
  /\ PaperP!RiskBounded => Paper!RiskBounded
<1>1. Paper!ConstantsOK => PaperP!ConstantsOK
  BY DEF
        Paper!ConstantsOK, PaperP!ConstantsOK
<1>2. Paper!Init => PaperP!Init
  BY DEF
        Paper!Init, PaperP!Init, Paper!Venues, PaperP!Venues, Paper!None, PaperP!None,
        Paper!Ids, PaperP!Ids
<1>3. Paper!Next => PaperP!Next
  BY DEF
        Paper!Next, PaperP!Next, Paper!Clock, PaperP!Clock, Paper!SweepExits,
        PaperP!SweepExits, Paper!Book, PaperP!Book, Paper!SendExit, PaperP!SendExit,
        Paper!FundingScan, PaperP!FundingScan, Paper!Venues, PaperP!Venues,
        Paper!OnTick, PaperP!OnTick, Paper!Older, PaperP!Older, Paper!Down, PaperP!Down,
        Paper!signals, PaperP!signals, Paper!Remain, PaperP!Remain, Paper!SetToSeq,
        PaperP!SetToSeq, Paper!NetPnl, PaperP!NetPnl, Paper!Writable, PaperP!Writable,
        Paper!book, PaperP!book, Paper!Room, PaperP!Room, Paper!None, PaperP!None,
        Paper!Open, PaperP!Open, Paper!TryEnterLatency, PaperP!TryEnterLatency,
        Paper!TryEnterPairs, PaperP!TryEnterPairs, Paper!Latest, PaperP!Latest,
        Paper!Live, PaperP!Live, Paper!Due, PaperP!Due, Paper!Scheduled,
        PaperP!Scheduled, Paper!Cardinality, PaperP!Cardinality, Paper!IsInjective,
        PaperP!IsInjective, Paper!BothFresh, PaperP!BothFresh, Paper!OpenOn,
        PaperP!OpenOn, Paper!Position, PaperP!Position, Paper!Fresh, PaperP!Fresh,
        Paper!KellySkips, PaperP!KellySkips, Paper!Filled, PaperP!Filled,
        Paper!Abandoned, PaperP!Abandoned, Paper!Leaving, PaperP!Leaving, Paper!FillDue,
        PaperP!FillDue, Paper!ShouldExit, PaperP!ShouldExit, Paper!Stopped,
        PaperP!Stopped, Paper!Converged, PaperP!Converged, Paper!Gap, PaperP!Gap
<1>4. PaperP!TypeOK => Paper!TypeOK
  BY DEF
        Paper!TypeOK, PaperP!TypeOK, Paper!Venues, PaperP!Venues, Paper!None,
        PaperP!None, Paper!Latest, PaperP!Latest, Paper!Ids, PaperP!Ids
<1>5. PaperP!CapAndOnePerBase => Paper!CapAndOnePerBase
  BY DEF
        Paper!CapAndOnePerBase, PaperP!CapAndOnePerBase, Paper!Cardinality,
        PaperP!Cardinality, Paper!InClosing, PaperP!InClosing
<1>6. PaperP!RiskBounded => Paper!RiskBounded
  BY DEF
        Paper!RiskBounded, PaperP!RiskBounded
<1>7. QED BY <1>1, <1>2, <1>3, <1>4, <1>5, <1>6

\* PaperBook, one position.
LEMMA BookSame ==
  /\ Book!ConstantsOK => BookP!ConstantsOK
  /\ Book!Init => BookP!Init
  /\ Book!Next => BookP!Next
  /\ BookP!TypeOK => Book!TypeOK
  /\ BookP!CapAndOnePerBase => Book!CapAndOnePerBase
  /\ BookP!RiskBounded => Book!RiskBounded
<1>1. Book!ConstantsOK => BookP!ConstantsOK
  BY DEF
        Book!ConstantsOK, BookP!ConstantsOK
<1>2. Book!Init => BookP!Init
  BY DEF
        Book!Init, BookP!Init, Book!Venues, BookP!Venues, Book!None, BookP!None,
        Book!Ids, BookP!Ids
<1>3. Book!Next => BookP!Next
  BY DEF
        Book!Next, BookP!Next, Book!Clock, BookP!Clock, Book!SweepExits,
        BookP!SweepExits, Book!Book, BookP!Book, Book!SendExit, BookP!SendExit,
        Book!FundingScan, BookP!FundingScan, Book!Venues, BookP!Venues, Book!OnTick,
        BookP!OnTick, Book!Older, BookP!Older, Book!Down, BookP!Down, Book!signals,
        BookP!signals, Book!Remain, BookP!Remain, Book!SetToSeq, BookP!SetToSeq,
        Book!NetPnl, BookP!NetPnl, Book!Writable, BookP!Writable, Book!book, BookP!book,
        Book!Room, BookP!Room, Book!None, BookP!None, Book!Open, BookP!Open,
        Book!TryEnterLatency, BookP!TryEnterLatency, Book!TryEnterPairs,
        BookP!TryEnterPairs, Book!Latest, BookP!Latest, Book!Live, BookP!Live, Book!Due,
        BookP!Due, Book!Scheduled, BookP!Scheduled, Book!Cardinality, BookP!Cardinality,
        Book!IsInjective, BookP!IsInjective, Book!BothFresh, BookP!BothFresh,
        Book!OpenOn, BookP!OpenOn, Book!Position, BookP!Position, Book!Fresh,
        BookP!Fresh, Book!KellySkips, BookP!KellySkips, Book!Filled, BookP!Filled,
        Book!Abandoned, BookP!Abandoned, Book!Leaving, BookP!Leaving, Book!FillDue,
        BookP!FillDue, Book!ShouldExit, BookP!ShouldExit, Book!Stopped, BookP!Stopped,
        Book!Converged, BookP!Converged, Book!Gap, BookP!Gap
<1>4. BookP!TypeOK => Book!TypeOK
  BY DEF
        Book!TypeOK, BookP!TypeOK, Book!Venues, BookP!Venues, Book!None, BookP!None,
        Book!Latest, BookP!Latest, Book!Ids, BookP!Ids
<1>5. BookP!CapAndOnePerBase => Book!CapAndOnePerBase
  BY DEF
        Book!CapAndOnePerBase, BookP!CapAndOnePerBase, Book!Cardinality,
        BookP!Cardinality, Book!InClosing, BookP!InClosing
<1>6. BookP!RiskBounded => Book!RiskBounded
  BY DEF
        Book!RiskBounded, BookP!RiskBounded
<1>7. QED BY <1>1, <1>2, <1>3, <1>4, <1>5, <1>6

-----------------------------------------------------------------------------
(* A behaviour of the collector runs one component                         *)

\* Constants of the instances fit, and so do ticks and latency of the paper books.
LEMMA InstancesOK ==
  /\ SpreadP!ConstantsOK /\ CapsP!ConstantsOK
  /\ LiveP!HlConstantsOK /\ LegsP!HlConstantsOK
  /\ PaperP!ConstantsOK /\ PaperP!Timely /\ BookP!ConstantsOK /\ BookP!Timely
<1>1. PaperP!Timely /\ BookP!Timely BY DEF PaperP!Timely, BookP!Timely
<1>2. QED
  BY <1>1, MCCollectorAssumption, SpreadSame, CapsSame, LiveSame, LegsSame, PaperSame,
     BookSame

\* What runs in focus spread is SpreadRevert on one base.
LEMMA SpreadRuns == CollectorSpec /\ focus = "spread" => SpreadP!Spec
<1>1. Legs!HInit => SpreadP!Init
  BY DEF
        Legs!HInit, Legs!Init, Legs!LiveInit, Legs!None, Legs!Tasks, Legs!Ids,
        SpreadP!Init, SpreadP!None, SpreadP!Tasks, SpreadP!Ids
<1>2. CollectorInit /\ focus = "spread" => SpreadP!Init BY <1>1 DEF CollectorInit
<1>3. [CollectorNext]_cvars /\ focus = "spread" =>
         [SpreadP!Next]_(SpreadP!vars) /\ (focus = "spread")'
  BY SpreadSame
     DEF CollectorNext, cvars, spread, SpreadP!vars, SpreadP!signals, SpreadP!history
<1>4. QED BY <1>2, <1>3, PTL DEF CollectorSpec, cvars, SpreadP!Spec

\* What runs in focus caps is SpreadRevert on two bases.
LEMMA CapsRuns == CollectorSpec /\ focus = "caps" => CapsP!Spec
<1>1. Caps!Init => CapsP!Init BY CapsSame
<1>2. CollectorInit /\ focus = "caps" => CapsP!Init BY <1>1 DEF CollectorInit
<1>3. [CollectorNext]_cvars /\ focus = "caps" =>
         [CapsP!Next]_(CapsP!vars) /\ (focus = "caps")'
  BY CapsSame
     DEF CollectorNext, cvars, spread, CapsP!vars, CapsP!signals, CapsP!history
<1>4. QED BY <1>2, <1>3, PTL DEF CollectorSpec, cvars, CapsP!Spec

\* What runs in focus live is HlSpreadRevert with the account cache.
LEMMA LiveRuns == CollectorSpec /\ focus = "live" => LiveP!HSpec
<1>1. Live!HInit => LiveP!HInit BY LiveSame
<1>2. CollectorInit /\ focus = "live" => LiveP!HInit BY <1>1 DEF CollectorInit
<1>3. [CollectorNext]_cvars /\ focus = "live" =>
         [LiveP!HNext]_(LiveP!hvars) /\ (focus = "live")'
  BY LiveSame
     DEF CollectorNext, cvars, spread, live, LiveP!hvars, LiveP!vars,
          LiveP!live, LiveP!tasks, LiveP!cache, LiveP!account,
          LiveP!signals, LiveP!history
<1>4. QED BY <1>2, <1>3, PTL DEF CollectorSpec, cvars, LiveP!HSpec

\* What runs in focus legs is HlSpreadRevert without it.
LEMMA LegsRuns == CollectorSpec /\ focus = "legs" => LegsP!HSpec
<1>1. Legs!HInit => LegsP!HInit BY LegsSame
<1>2. CollectorInit /\ focus = "legs" => LegsP!HInit BY <1>1 DEF CollectorInit
<1>3. [CollectorNext]_cvars /\ focus = "legs" =>
         [LegsP!HNext]_(LegsP!hvars) /\ (focus = "legs")'
  BY LegsSame
     DEF CollectorNext, cvars, spread, live, LegsP!hvars, LegsP!vars,
          LegsP!live, LegsP!tasks, LegsP!cache, LegsP!account,
          LegsP!signals, LegsP!history
<1>4. QED BY <1>2, <1>3, PTL DEF CollectorSpec, cvars, LegsP!HSpec

\* What runs in focus paper is PaperBook with two positions.
LEMMA PaperRuns == CollectorSpec /\ focus = "paper" => PaperP!Spec
<1>1. Paper!Init => PaperP!Init BY PaperSame
<1>2. CollectorInit /\ focus = "paper" => PaperP!Init BY <1>1 DEF CollectorInit
<1>3. [CollectorNext]_cvars /\ focus = "paper" =>
         [PaperP!Next]_(PaperP!vars) /\ (focus = "paper")'
  BY PaperSame
     DEF CollectorNext, cvars, paper, PaperP!vars, PaperP!book, PaperP!signals
<1>4. QED BY <1>2, <1>3, PTL DEF CollectorSpec, cvars, PaperP!Spec

\* What runs in focus book is PaperBook with one.
LEMMA BookRuns == CollectorSpec /\ focus = "book" => BookP!Spec
<1>1. Paper!Init => BookP!Init
  BY DEF
        Paper!Init, Paper!Venues, Paper!None, Paper!Ids, BookP!Init, BookP!Venues,
        BookP!None, BookP!Ids
<1>2. CollectorInit => BookP!Init BY <1>1 DEF CollectorInit
<1>3. [CollectorNext]_cvars /\ focus = "book" =>
         [BookP!Next]_(BookP!vars) /\ (focus = "book")'
  BY BookSame
     DEF CollectorNext, cvars, paper, BookP!vars, BookP!book, BookP!signals
<1>4. QED BY <1>2, <1>3, PTL DEF CollectorSpec, cvars, BookP!Spec

-----------------------------------------------------------------------------
(* The invariants of the run                                               *)

\* The limits on open positions hold.
THEOREM LimitsHoldCorrect == CollectorSpec => []LimitsHold
<1>1. CollectorSpec => [](focus = "spread" => Spread!CapsHold)
  <2>1. SpreadP!Spec => [](Spread!CapsHold)
    BY InstancesOK, SpreadSame, SpreadP!CapsHoldCorrect, PTL
  <2>2. /\ [CollectorNext]_cvars /\ focus = "spread" => (focus = "spread")'
        /\ [CollectorNext]_cvars /\ ~(focus = "spread") => ~(focus = "spread")'
    BY DEF CollectorNext, cvars
  <2>3. QED BY <2>1, <2>2, SpreadRuns, PTL DEF CollectorSpec, cvars
<1>2. CollectorSpec => [](focus = "caps" => Caps!CapsHold)
  <2>1. CapsP!Spec => [](Caps!CapsHold)
    BY InstancesOK, CapsSame, CapsP!CapsHoldCorrect, PTL
  <2>2. /\ [CollectorNext]_cvars /\ focus = "caps" => (focus = "caps")'
        /\ [CollectorNext]_cvars /\ ~(focus = "caps") => ~(focus = "caps")'
    BY DEF CollectorNext, cvars
  <2>3. QED BY <2>1, <2>2, CapsRuns, PTL DEF CollectorSpec, cvars
<1>3. CollectorSpec => [](focus = "legs" => Legs!CapsHold)
  <2>1. LegsP!HSpec => [](Legs!CapsHold)
    BY InstancesOK, LegsSame, LegsP!LiveKeepsPaper, PTL
  <2>2. /\ [CollectorNext]_cvars /\ focus = "legs" => (focus = "legs")'
        /\ [CollectorNext]_cvars /\ ~(focus = "legs") => ~(focus = "legs")'
    BY DEF CollectorNext, cvars
  <2>3. QED BY <2>1, <2>2, LegsRuns, PTL DEF CollectorSpec, cvars
<1>4. CollectorSpec => [](focus = "paper" => Paper!CapAndOnePerBase /\ Paper!RiskBounded)
  <2>1. PaperP!Spec => [](Paper!CapAndOnePerBase /\ Paper!RiskBounded)
    BY InstancesOK, PaperSame, PaperP!CapCorrect, PaperP!RiskBoundedCorrect, PTL
  <2>2. /\ [CollectorNext]_cvars /\ focus = "paper" => (focus = "paper")'
        /\ [CollectorNext]_cvars /\ ~(focus = "paper") => ~(focus = "paper")'
    BY DEF CollectorNext, cvars
  <2>3. QED BY <2>1, <2>2, PaperRuns, PTL DEF CollectorSpec, cvars
<1>5. CollectorSpec => [](focus = "book" => Book!CapAndOnePerBase /\ Book!RiskBounded)
  <2>1. BookP!Spec => [](Book!CapAndOnePerBase /\ Book!RiskBounded)
    BY InstancesOK, BookSame, BookP!CapCorrect, BookP!RiskBoundedCorrect, PTL
  <2>2. /\ [CollectorNext]_cvars /\ focus = "book" => (focus = "book")'
        /\ [CollectorNext]_cvars /\ ~(focus = "book") => ~(focus = "book")'
    BY DEF CollectorNext, cvars
  <2>3. QED BY <2>1, <2>2, BookRuns, PTL DEF CollectorSpec, cvars
<1>6. QED BY <1>1, <1>2, <1>3, <1>4, <1>5, PTL DEF LimitsHold

\* Exits are signalled once, none is dropped in silence.
THEOREM ExitsExactCorrect == CollectorSpec => []ExitsExact
<1>1. CollectorSpec =>
         [](focus = "spread" =>
               Spread!ExitOnce /\ Spread!OneSidePerBase /\ Spread!NoSilentClose)
  <2>1. SpreadP!Spec => [](Spread!ExitOnce /\ Spread!OneSidePerBase /\ Spread!NoSilentClose)
    BY InstancesOK, SpreadSame, SpreadP!ExitOnceCorrect, SpreadP!OneSidePerBaseCorrect,
       SpreadP!NoSilentCloseCorrect, PTL
  <2>2. /\ [CollectorNext]_cvars /\ focus = "spread" => (focus = "spread")'
        /\ [CollectorNext]_cvars /\ ~(focus = "spread") => ~(focus = "spread")'
    BY DEF CollectorNext, cvars
  <2>3. QED BY <2>1, <2>2, SpreadRuns, PTL DEF CollectorSpec, cvars
<1>2. CollectorSpec => [](focus = "live" => Live!ExitOnce /\ Live!NoSilentLive)
  <2>1. LiveP!HSpec => [](Live!ExitOnce /\ Live!NoSilentLive)
    BY InstancesOK, LiveSame, LiveP!LiveKeepsPaper, LiveP!NoSilentLiveCorrect, PTL
  <2>2. /\ [CollectorNext]_cvars /\ focus = "live" => (focus = "live")'
        /\ [CollectorNext]_cvars /\ ~(focus = "live") => ~(focus = "live")'
    BY DEF CollectorNext, cvars
  <2>3. QED BY <2>1, <2>2, LiveRuns, PTL DEF CollectorSpec, cvars
<1>3. CollectorSpec => [](focus = "legs" => Legs!ExitOnce /\ Legs!NoSilentLive)
  <2>1. LegsP!HSpec => [](Legs!ExitOnce /\ Legs!NoSilentLive)
    BY InstancesOK, LegsSame, LegsP!LiveKeepsPaper, LegsP!NoSilentLiveCorrect, PTL
  <2>2. /\ [CollectorNext]_cvars /\ focus = "legs" => (focus = "legs")'
        /\ [CollectorNext]_cvars /\ ~(focus = "legs") => ~(focus = "legs")'
    BY DEF CollectorNext, cvars
  <2>3. QED BY <2>1, <2>2, LegsRuns, PTL DEF CollectorSpec, cvars
<1>4. QED BY <1>1, <1>2, <1>3, PTL DEF ExitsExact

\* In focus route only one caller leaves its place.
Alone == \A c \in Others : stage[c] = "idle"

\* Of the statistics and the coordinator: their types, the probe budget, and the
\* spacing that keeps opposite entries apart.
Routing == CoTypeOK /\ Budget /\ ChopInv /\ Alone

LEMMA RoutingStarts == CollectorInit => Routing
<1> SUFFICES ASSUME CoInit PROVE Routing
  BY DEF CollectorInit
<1>1. CoTypeOK BY NumbersAssumed, CoTypesInit
<1>2. Budget BY BudgetStarts DEF CoInit
<1>3. ChopInv BY ChopStarts
<1>4. Alone BY DEF CoInit, Alone, Others
<1>5. QED BY <1>1, <1>2, <1>3, <1>4 DEF Routing

LEMMA RoutingStep == Routing /\ [CollectorNext]_cvars => Routing'
<1> SUFFICES ASSUME Routing, [CollectorNext]_cvars PROVE Routing'
  OBVIOUS
<1>1. CASE UNCHANGED co /\ [Next]_vars
  <2>1. TypeOK' BY <1>1, NumbersAssumed, StatsTypesStep DEF Routing, CoTypeOK
  <2>2. CoTypeOK' BY <1>1, <2>1 DEF Routing, CoTypeOK, co
  <2>3. Budget' BY <1>1, BudgetStep DEF Routing
  <2>4. ChopInv'
    BY <1>1 DEF Routing, co, ChopInv, CoTypes, Spaced, Behind, Opposite
  <2>5. Alone' BY <1>1 DEF Routing, co, Alone
  <2>6. QED BY <2>2, <2>3, <2>4, <2>5 DEF Routing
<1>2. CASE CoNext /\ \A c \in Others : stage'[c] = "idle" /\ pc'[c] = "idle"
  <2>1. [Next]_vars BY <1>2, CoSteps
  <2>2. TypeOK' BY <2>1, NumbersAssumed, StatsTypesStep DEF Routing, CoTypeOK
  <2>3. CoTypes' BY <1>2, NumbersAssumed, CoTypesStep DEF Routing, ChopInv
  <2>4. CoTypeOK' BY <2>2, <2>3 DEF CoTypeOK, CoTypes
  <2>5. Budget' BY <2>1, BudgetStep DEF Routing
  <2>6. OneAtATime BY DEF Routing, Alone, Others, OneAtATime
  <2>7. ChopInv' BY <1>2, <2>6, ChopStep DEF Routing
  <2>8. Alone' BY <1>2 DEF Alone
  <2>9. QED BY <2>4, <2>5, <2>7, <2>8 DEF Routing
<1>3. \/ UNCHANGED co /\ [Next]_vars
      \/ CoNext /\ \A c \in Others : stage'[c] = "idle" /\ pc'[c] = "idle"
  BY DEF CollectorNext, cvars, covars
<1>4. QED BY <1>1, <1>2, <1>3

THEOREM RoutingCorrect == CollectorSpec => []Routing
BY RoutingStarts, RoutingStep, PTL DEF CollectorSpec, cvars

\* No cooldown of a run grants more probes than its budget and one for each caller
\* that had read the counter.
THEOREM ProbesBoundedAlways == CollectorSpec => []ProbesBounded
BY BudgetBounds, RoutingCorrect, PTL DEF Routing

\* What one caller publishes is spaced by the window, for every window, every
\* budget and whatever the statistics let pass.
THEOREM NoChopAlways == CollectorSpec => []NoChop
BY ChopSpaces, RoutingCorrect, PTL DEF Routing

\* Whatever component runs, all variables keep their types.
THEOREM TypesOKCorrect == CollectorSpec => []TypesOK
<1>1. CollectorSpec => [](focus = "spread" => Spread!TypeOK)
  <2>1. SpreadP!Spec => [](Spread!TypeOK)
    BY InstancesOK, SpreadSame, SpreadP!SpreadTypes, PTL
  <2>2. /\ [CollectorNext]_cvars /\ focus = "spread" => (focus = "spread")'
        /\ [CollectorNext]_cvars /\ ~(focus = "spread") => ~(focus = "spread")'
    BY DEF CollectorNext, cvars
  <2>3. QED BY <2>1, <2>2, SpreadRuns, PTL DEF CollectorSpec, cvars
<1>2. CollectorSpec => [](focus = "caps" => Caps!TypeOK)
  <2>1. CapsP!Spec => [](Caps!TypeOK)
    BY InstancesOK, CapsSame, CapsP!SpreadTypes, PTL
  <2>2. /\ [CollectorNext]_cvars /\ focus = "caps" => (focus = "caps")'
        /\ [CollectorNext]_cvars /\ ~(focus = "caps") => ~(focus = "caps")'
    BY DEF CollectorNext, cvars
  <2>3. QED BY <2>1, <2>2, CapsRuns, PTL DEF CollectorSpec, cvars
<1>3. CollectorSpec => [](focus = "live" => Live!HTypeOK)
  <2>1. LiveP!HSpec => [](Live!HTypeOK)
    BY InstancesOK, LiveSame, LiveP!LiveTypesCorrect, PTL
  <2>2. /\ [CollectorNext]_cvars /\ focus = "live" => (focus = "live")'
        /\ [CollectorNext]_cvars /\ ~(focus = "live") => ~(focus = "live")'
    BY DEF CollectorNext, cvars
  <2>3. QED BY <2>1, <2>2, LiveRuns, PTL DEF CollectorSpec, cvars
<1>4. CollectorSpec => [](focus = "legs" => Legs!HTypeOK)
  <2>1. LegsP!HSpec => [](Legs!HTypeOK)
    BY InstancesOK, LegsSame, LegsP!LiveTypesCorrect, PTL
  <2>2. /\ [CollectorNext]_cvars /\ focus = "legs" => (focus = "legs")'
        /\ [CollectorNext]_cvars /\ ~(focus = "legs") => ~(focus = "legs")'
    BY DEF CollectorNext, cvars
  <2>3. QED BY <2>1, <2>2, LegsRuns, PTL DEF CollectorSpec, cvars
<1>5. CollectorSpec => [](focus = "paper" => Paper!TypeOK)
  <2>1. PaperP!Spec => [](Paper!TypeOK)
    BY InstancesOK, PaperSame, PaperP!BookTypes, PTL
  <2>2. /\ [CollectorNext]_cvars /\ focus = "paper" => (focus = "paper")'
        /\ [CollectorNext]_cvars /\ ~(focus = "paper") => ~(focus = "paper")'
    BY DEF CollectorNext, cvars
  <2>3. QED BY <2>1, <2>2, PaperRuns, PTL DEF CollectorSpec, cvars
<1>6. CollectorSpec => [](focus = "book" => Book!TypeOK)
  <2>1. BookP!Spec => [](Book!TypeOK)
    BY InstancesOK, BookSame, BookP!BookTypes, PTL
  <2>2. /\ [CollectorNext]_cvars /\ focus = "book" => (focus = "book")'
        /\ [CollectorNext]_cvars /\ ~(focus = "book") => ~(focus = "book")'
    BY DEF CollectorNext, cvars
  <2>3. QED BY <2>1, <2>2, BookRuns, PTL DEF CollectorSpec, cvars
<1>7. Book!TypeOK => Paper!TypeOK
  BY DEF
        Book!TypeOK, Paper!TypeOK, Book!Venues, Paper!Venues, Book!None, Paper!None,
        Book!Latest, Paper!Latest, Book!Ids, Paper!Ids
<1>8. CollectorSpec => [](focus \in {"paper", "book"} => Paper!TypeOK)
  <2>1. (focus = "paper" => Paper!TypeOK) /\ (focus = "book" => Book!TypeOK)
           => (focus \in {"paper", "book"} => Paper!TypeOK)
    BY <1>7
  <2>2. QED BY <1>5, <1>6, <2>1, PTL
<1>9. QED
  BY <1>1, <1>2, <1>3, <1>4, <1>8, RoutingCorrect, PTL DEF TypesOK, Routing
=============================================================================
