-------------------------- MODULE SpreadRevertProofs --------------------------
(***************************************************************************)
(* The paper positions of SpreadRevert, for any bases, prices, limits and  *)
(* deadlines: the caps, one exit of a position after its entry, one side   *)
(* per base, no position that ends in silence, and the ledger the signals  *)
(* implement; then the live legs of HlSpreadRevert, for any number of      *)
(* them, whose paper half takes the steps of SpreadRevert.                 *)
(***************************************************************************)
EXTENDS HlSpreadRevert, FiniteSetTheorems, SequenceTheorems, TLAPS

USE DEF signals, history

-----------------------------------------------------------------------------
(* Sets of ids and the queues they are put in                              *)

\* A set is queued once over: each member once, and nothing else.
LEMMA Queued ==
  ASSUME NEW S, IsFiniteSet(S)
  PROVE  /\ SetToSeq(S) \in Seq(S)
         /\ ToSet(SetToSeq(S)) = S
         /\ IsInjective(SetToSeq(S))
<1> DEFINE n == Cardinality(S)
<1>1. n \in Nat /\ ExistsBijection(1..n, S) BY FS_CardinalityType
<1>2. PICK f \in Bijection(1..n, S) : TRUE BY <1>1 DEF ExistsBijection
<1>3. f \in [1..n -> S] /\ IsInjective(f)
  BY <1>2 DEF Bijection, Injection
<1>4. SetToSeq(S) \in [1..n -> S] /\ IsInjective(SetToSeq(S))
  BY <1>3 DEF SetToSeq
<1> DEFINE q == SetToSeq(S)
<1>5. q \in Seq(S) /\ DOMAIN q = 1..n BY <1>1, <1>4
<1>6. q \in Injection(1..n, S) BY <1>4 DEF Injection
<1>7. IsFiniteSet(1..n) /\ Cardinality(1..n) = n BY <1>1, FS_Interval
<1>8. q \in Surjection(1..n, S) BY <1>6, <1>7, FS_Injection
<1>9. S = {q[i] : i \in 1..n} BY <1>8, <1>4 DEF Surjection
<1>10. QED BY <1>4, <1>5, <1>9 DEF ToSet

\* Of a queue that holds each id once, the head leaves and the others stay.
LEMMA HeadLeaves ==
  ASSUME NEW X, NEW s \in Seq(X), s # <<>>, IsInjective(s)
  PROVE  /\ Head(s) \in ToSet(s) /\ Tail(s) \in Seq(X)
         /\ ToSet(Tail(s)) = ToSet(s) \ {Head(s)}
         /\ IsInjective(Tail(s))
<1>1. /\ Len(s) \in Nat \ {0} /\ DOMAIN s = 1..Len(s) /\ Head(s) = s[1]
      /\ Tail(s) \in Seq(X) /\ Len(Tail(s)) = Len(s) - 1
      /\ DOMAIN Tail(s) = 1..(Len(s) - 1)
      /\ \A i \in 1..(Len(s) - 1) : Tail(s)[i] = s[i + 1]
  OBVIOUS
<1>2. Head(s) \in ToSet(s) BY <1>1 DEF ToSet
<1>3. IsInjective(Tail(s)) BY <1>1 DEF IsInjective
<1>4. \A i \in 1..(Len(s) - 1) : s[i + 1] # s[1] BY <1>1 DEF IsInjective
<1>5. ToSet(Tail(s)) \subseteq ToSet(s) \ {Head(s)} BY <1>1, <1>4 DEF ToSet
<1>6. ASSUME NEW x \in ToSet(s) \ {Head(s)} PROVE x \in ToSet(Tail(s))
  <2>1. PICK i \in 1..Len(s) : x = s[i] BY <1>1, <1>6 DEF ToSet
  <2>2. i - 1 \in 1..(Len(s) - 1) /\ Tail(s)[i - 1] = x BY <1>1, <1>6, <2>1
  <2>3. QED BY <1>1, <2>2 DEF ToSet
<1>7. QED BY <1>1, <1>2, <1>3, <1>5, <1>6

\* Positions with ids of their own are as many as their ids.
LEMMA IdsCount ==
  ASSUME NEW S, IsFiniteSet(S), \A p, q \in S : p.id = q.id => p = q
  PROVE  IsFiniteSet(IdsOf(S)) /\ Cardinality(IdsOf(S)) = Cardinality(S)
<1> DEFINE f == [p \in S |-> p.id]
<1>1. f \in [S -> IdsOf(S)] BY DEF IdsOf
<1>2. f \in Injection(S, IdsOf(S)) BY <1>1 DEF Injection, IsInjective
<1>3. f \in Surjection(S, IdsOf(S)) BY <1>1 DEF Surjection, IdsOf
<1>4. ExistsBijection(S, IdsOf(S)) BY <1>2, <1>3 DEF ExistsBijection, Bijection
<1>5. QED BY <1>4, FS_Bijection

-----------------------------------------------------------------------------
(* The inductive invariant of SpreadRevert                                 *)

\* What the tasks read: quotes, baselines, cooldowns and the tick in hand.  While a
\* tick is in hand, the exits of the one before it have been sent.
Feeds ==
    /\ quote \in [Bases -> [Venues -> Prices \union {0}]]
    /\ baselines \in [Bases -> Baselines \union {None}]
    /\ cooldown \in [Bases -> 0..Cooldown]
    /\ tick # None =>
          /\ tick \in [base : Bases, venue : Venues, price : Prices,
                       baseline : Baselines \union {None}]
          /\ closing["tick"] = <<>>
    /\ dropped \subseteq [id : Ids, base : Bases] /\ vanished \subseteq Bases

\* The open positions: ids of their own, the caps, one side per base.
Positions ==
    /\ open \subseteq PosIds /\ IsFiniteSet(open)
    /\ \A p, q \in open : p.id = q.id => p = q
    /\ CapsHold /\ OneSidePerBase

\* The signals: an id is open, waits in one of the queues, once, or its exit was
\* sent, at most one of these; and the ids used are those below next_id.
Signals ==
    /\ next_id \in 1..(MaxPosId + 1) /\ entered = 1..(next_id - 1)
    /\ IdsOf(open) \subseteq entered
    /\ exits \in [Ids -> 0..1]
    /\ \A i \in Ids : exits[i] = 1 => i \in entered /\ i \notin IdsOf(open)
    /\ closing \in [Tasks -> Seq(Ids)]
    /\ \A t \in Tasks :
          /\ IsInjective(closing[t])
          /\ \A i \in ToSet(closing[t]) :
                i \in entered /\ i \notin IdsOf(open) /\ exits[i] = 0
    /\ ToSet(closing["tick"]) \intersect ToSet(closing["sweep"]) = {}

SpreadInv == Feeds /\ Positions /\ Signals

\* Initially nothing is open, sent or in hand.
LEMMA SpreadInit == ConstantsOK /\ Init => SpreadInv
<1> SUFFICES ASSUME ConstantsOK, Init PROVE SpreadInv
  OBVIOUS
<1>1. Feeds BY DEF ConstantsOK, Init, Feeds, Venues
<1>2. Positions
  BY FS_EmptySet DEF ConstantsOK, Init, Positions, CapsHold, OpenOn, OneSidePerBase
<1>3. Signals
  BY DEF ConstantsOK, Init, Signals, IdsOf, Tasks, Ids, IsInjective, ToSet
<1>4. QED BY <1>1, <1>2, <1>3 DEF SpreadInv

\* Closing positions breaks no limit.
LEMMA FewerPositions ==
  ASSUME ConstantsOK, Positions, open' \subseteq open
  PROVE  Positions'
<1>1. IsFiniteSet(open') /\ Cardinality(open') <= Cardinality(open)
      /\ Cardinality(open') \in Nat /\ Cardinality(open) \in Nat
  BY FS_Subset, FS_CardinalityType DEF Positions
<1>2. ASSUME NEW b \in Bases
      PROVE  Cardinality(OpenOn(b)') <= MaxPositionsPerBase
  <2>1. OpenOn(b)' \subseteq OpenOn(b) /\ OpenOn(b) \subseteq open BY DEF OpenOn
  <2>2. IsFiniteSet(OpenOn(b)) BY <2>1, FS_Subset DEF Positions
  <2>3. Cardinality(OpenOn(b)') <= Cardinality(OpenOn(b))
        /\ Cardinality(OpenOn(b)') \in Nat /\ Cardinality(OpenOn(b)) \in Nat
    BY <2>1, <2>2, FS_Subset, FS_CardinalityType
  <2>4. QED BY <2>3 DEF Positions, CapsHold, ConstantsOK
<1>3. CapsHold' BY <1>1, <1>2 DEF Positions, CapsHold, ConstantsOK
<1>4. QED BY <1>1, <1>3 DEF Positions, OneSidePerBase

\* Getting older changes neither ids nor sides, so no count changes.
LEMMA AgedPositions ==
  ASSUME ConstantsOK, Positions, Age
  PROVE  Positions' /\ IdsOf(open') = IdsOf(open)
<1> DEFINE older(p) == [p EXCEPT !.held = IF @ < MaxHold THEN @ + 1 ELSE @]
<1>1. open' = {older(p) : p \in open} BY DEF Age
<1>2. \A p \in open : /\ older(p) \in PosIds /\ older(p).id = p.id
                      /\ older(p).base = p.base /\ older(p).side = p.side
  BY DEF Positions, PosIds, ConstantsOK
<1> HIDE DEF older
<1>3. open' \subseteq PosIds /\ IdsOf(open') = IdsOf(open) BY <1>1, <1>2 DEF IdsOf
<1>4. \A p, q \in open' : p.id = q.id => p = q BY <1>1, <1>2 DEF Positions
<1>5. IsFiniteSet(open') /\ Cardinality(open') = Cardinality(open)
  <2> DEFINE f == [p \in open |-> older(p)]
  <2>1. f \in Injection(open, open') BY <1>1, <1>2 DEF Injection, IsInjective, Positions
  <2>2. f \in Surjection(open, open') BY <1>1 DEF Surjection
  <2>3. QED BY <2>1, <2>2, FS_Bijection DEF ExistsBijection, Bijection, Positions
<1>6. ASSUME NEW b \in Bases
      PROVE  Cardinality(OpenOn(b)') = Cardinality(OpenOn(b))
  <2>1. IsFiniteSet(OpenOn(b)) /\ IsFiniteSet(OpenOn(b)')
    BY <1>5, FS_Subset DEF OpenOn, Positions
  <2>2. IdsOf(OpenOn(b)') = IdsOf(OpenOn(b)) BY <1>1, <1>2 DEF IdsOf, OpenOn
  <2>3. Cardinality(IdsOf(OpenOn(b)')) = Cardinality(OpenOn(b)')
    BY <1>4, <2>1, IdsCount DEF OpenOn
  <2>4. Cardinality(IdsOf(OpenOn(b))) = Cardinality(OpenOn(b))
    BY <2>1, IdsCount DEF OpenOn, Positions
  <2>5. QED BY <2>2, <2>3, <2>4
<1>7. CapsHold' BY <1>5, <1>6 DEF Positions, CapsHold
<1>8. OneSidePerBase' BY <1>1, <1>2 DEF Positions, OneSidePerBase
<1>9. QED BY <1>3, <1>4, <1>5, <1>7, <1>8 DEF Positions

\* An entry finds room on its base and in total, and no position of the other side
\* left there when the minimum hold is 0.
LEMMA OnePosition ==
  ASSUME ConstantsOK, Positions,
         NEW b \in Bases, NEW rest \in SUBSET open, NEW p \in PosIds,
         p.base = b, p.id \notin IdsOf(open),
         Cardinality(rest) < MaxOpenPositions,
         Cardinality({q \in rest : q.base = b}) < MaxPositionsPerBase,
         MinHold = 0 => \A q \in rest : q.base = b => q.side = p.side,
         open' = rest \union {p}
  PROVE  Positions'
<1>1. IsFiniteSet(rest) /\ p \notin rest /\ p \notin open
  BY FS_Subset DEF Positions, IdsOf
<1>2. IsFiniteSet(open') /\ Cardinality(open') <= MaxOpenPositions
  <2>1. Cardinality(rest) \in Nat BY <1>1, FS_CardinalityType
  <2>2. IsFiniteSet(rest \union {p})
        /\ Cardinality(rest \union {p}) = Cardinality(rest) + 1
    BY <1>1, FS_AddElement
  <2>3. QED BY <2>1, <2>2 DEF ConstantsOK
<1>3. ASSUME NEW c \in Bases
      PROVE  Cardinality(OpenOn(c)') <= MaxPositionsPerBase
  <2> DEFINE S == {q \in rest : q.base = c}
  <2>1. IsFiniteSet(S) /\ IsFiniteSet(OpenOn(c)) /\ S \subseteq OpenOn(c)
    BY <1>1, FS_Subset DEF OpenOn, Positions
  <2>2. Cardinality(S) \in Nat /\ Cardinality(OpenOn(c)) \in Nat
        /\ Cardinality(S) <= Cardinality(OpenOn(c))
    BY <2>1, FS_Subset, FS_CardinalityType
  <2>3. CASE c = b
    <3>1. OpenOn(c)' = S \union {p} BY <2>3 DEF OpenOn
    <3>2. Cardinality(S) < MaxPositionsPerBase BY <2>3
    <3>3. p \notin S BY <1>1
    <3> HIDE DEF S
    <3>4. Cardinality(S \union {p}) = Cardinality(S) + 1 BY <2>1, <3>3, FS_AddElement
    <3>5. QED BY <2>2, <3>1, <3>2, <3>4 DEF ConstantsOK
  <2>4. CASE c # b
    <3>1. OpenOn(c)' = S BY <2>4 DEF OpenOn
    <3> HIDE DEF S
    <3>2. QED BY <2>2, <3>1 DEF Positions, CapsHold, ConstantsOK
  <2>5. QED BY <2>3, <2>4
<1>4. CapsHold' BY <1>2, <1>3 DEF CapsHold
<1>5. OneSidePerBase' BY DEF OneSidePerBase, Positions
<1>6. \A q, r \in open' : q.id = r.id => q = r BY DEF Positions, IdsOf
<1>7. QED BY <1>2, <1>4, <1>5, <1>6 DEF Positions

\* Ids leave the set of open positions and are queued, each once; a new one may be
\* used.
LEMMA QueueSignals ==
  ASSUME ConstantsOK, Positions, Signals,
         NEW t \in Tasks, closing[t] = <<>>, NEW S \in SUBSET open, Queue(t, S),
         UNCHANGED exits,
         \/ /\ UNCHANGED <<entered, next_id>>
            /\ IdsOf(open') \subseteq IdsOf(open) \ IdsOf(S)
         \/ /\ next_id <= MaxPosId /\ next_id' = next_id + 1
            /\ entered' = entered \union {next_id}
            /\ IdsOf(open') \subseteq (IdsOf(open) \ IdsOf(S)) \union {next_id}
  PROVE  Signals'
<1> DEFINE q == SetToSeq(IdsOf(S))
<1>1. IsFiniteSet(S) /\ IsFiniteSet(IdsOf(S))
  BY FS_Subset, IdsCount DEF Positions
<1>2. q \in Seq(IdsOf(S)) /\ ToSet(q) = IdsOf(S) /\ IsInjective(q)
  BY <1>1, Queued
<1>3. IdsOf(S) \subseteq IdsOf(open) /\ IdsOf(S) \subseteq Ids
  BY DEF IdsOf, Positions, PosIds
<1>4. q \in Seq(Ids) BY <1>2, <1>3, SeqMonotonic
<1> HIDE DEF q
<1>5. closing' = [closing EXCEPT ![t] = q]
  <2>1. closing' = [closing EXCEPT ![t] = <<>> \o q] BY DEF Queue, Signals, q
  <2>2. QED BY <1>4, <2>1
<1>6. closing' \in [Tasks -> Seq(Ids)] BY <1>4, <1>5 DEF Signals
<1>7. next_id' \in 1..(MaxPosId + 1) /\ entered' = 1..(next_id' - 1)
      /\ IdsOf(open') \subseteq entered' /\ entered \subseteq entered'
      /\ next_id \notin entered
  <2>1. CASE UNCHANGED <<entered, next_id>> BY <2>1 DEF Signals, ConstantsOK
  <2>2. CASE /\ next_id <= MaxPosId /\ next_id' = next_id + 1
             /\ entered' = entered \union {next_id}
             /\ IdsOf(open') \subseteq (IdsOf(open) \ IdsOf(S)) \union {next_id}
    <3>1. next_id \in 1..MaxPosId /\ entered = 1..(next_id - 1)
      BY <2>2 DEF Signals, ConstantsOK
    <3>2. entered' = 1..next_id BY <2>2, <3>1
    <3>3. QED BY <2>2, <3>1, <3>2 DEF Signals, ConstantsOK
  <2>3. QED BY <2>1, <2>2
<1>8. \A u \in Tasks : \A i \in ToSet(closing'[u]) :
         /\ i \in entered /\ i \notin IdsOf(open')
         /\ exits[i] = 0
         /\ u # t => i \notin IdsOf(S)
  <2> SUFFICES ASSUME NEW u \in Tasks, NEW i \in ToSet(closing'[u])
               PROVE  /\ i \in entered /\ i \notin IdsOf(open')
                      /\ exits[i] = 0
                      /\ u # t => i \notin IdsOf(S)
    OBVIOUS
  <2>1. CASE u = t
    <3>1. i \in IdsOf(S) BY <1>2, <1>5, <2>1 DEF Signals
    <3>2. i \in entered /\ i \in Ids BY <1>3, <3>1 DEF Signals
    <3>3. exits[i] = 0 BY <1>3, <3>1, <3>2 DEF Signals
    <3>4. QED BY <1>7, <2>1, <3>1, <3>2, <3>3
  <2>2. CASE u # t
    <3>1. i \in ToSet(closing[u]) BY <1>5, <2>2 DEF Signals
    <3>2. QED BY <1>3, <1>7, <3>1 DEF Signals
  <2>3. QED BY <2>1, <2>2
<1>9. \A u \in Tasks : IsInjective(closing'[u]) BY <1>2, <1>5 DEF Signals
<1>10. ToSet(closing'["tick"]) \intersect ToSet(closing'["sweep"]) = {}
  BY <1>2, <1>5, <1>8 DEF Signals, Tasks
<1>11. \A i \in Ids : exits[i] = 1 => i \in entered' /\ i \notin IdsOf(open')
  BY <1>7 DEF Signals
<1>12. QED BY <1>6, <1>7, <1>8, <1>9, <1>10, <1>11 DEF Signals

\* Positions that end without a signal leave the signals alone.
LEMMA SameSignals ==
  ASSUME Signals, UNCHANGED <<closing, next_id, entered, exits>>,
         IdsOf(open') \subseteq IdsOf(open)
  PROVE  Signals'
BY DEF Signals

\* What the tick handler reads under the lock: both quotes are there and positive.
LEMMA TickRead ==
  ASSUME ConstantsOK, Feeds, tick # None,
         quote' = [quote EXCEPT ![tick.base][tick.venue] = tick.price],
         ~ \E v \in Venues : quote'[tick.base][v] = 0
  PROVE  /\ quote'[tick.base].flipster \in Prices
         /\ quote'[tick.base].flipster - quote'[tick.base].binance \in Int
<1>1. tick.base \in Bases /\ tick.venue \in Venues /\ tick.price \in Prices
  BY DEF Feeds
<1>2. quote' \in [Bases -> [Venues -> Prices \union {0}]] BY <1>1 DEF Feeds
<1> DEFINE q == quote'[tick.base]
<1>3. q \in [Venues -> Prices \union {0}] /\ \A v \in Venues : q[v] # 0
  BY <1>1, <1>2
<1>4. q["flipster"] \in Prices /\ q["binance"] \in Prices
  BY <1>3 DEF Venues
<1> HIDE DEF q
<1>5. q.flipster \in Prices /\ q.flipster - q.binance \in Int
  BY <1>4 DEF ConstantsOK
<1>6. QED BY <1>5 DEF q

\* The tick handler decides: exits and the reverse-close are queued for the signals,
\* an entry takes the next id.
LEMMA DecideStep ==
  ASSUME ConstantsOK, SpreadInv, tick # None, tick.baseline # None,
         quote' = [quote EXCEPT ![tick.base][tick.venue] = tick.price],
         ~ \E v \in Venues : quote'[tick.base][v] = 0,
         Decide(tick.base, tick.baseline), UNCHANGED exits
  PROVE  Positions' /\ Signals' /\ cooldown' \in [Bases -> 0..Cooldown]
<1> DEFINE b == tick.base
           f == quote'[b].flipster
           side == WantSide(f - quote'[b].binance, tick.baseline)
           left == open \ Exits(b, f)
           rev == Reversed({p \in left : p.base = b}, side)
           S == Exits(b, f) \union rev
<1>1. b \in Bases /\ f \in Prices /\ f - quote'[b].binance \in Int
  BY TickRead DEF SpreadInv, Feeds
<1>2. side \in {-1, 0, 1} BY DEF WantSide
<1>3. Queue("tick", S) /\ Enter(b, side, left \ rev) BY DEF Decide
<1>4. closing["tick"] = <<>> BY DEF SpreadInv, Feeds
<1>5. /\ rev = {p \in left : p.base = b /\ side # 0 /\ p.side # side /\ p.held >= MinHold}
      /\ Exits(b, f) \subseteq open
  BY DEF Reversed, Exits, OpenOn
<1>6. \A p, q \in open : p.id = q.id => p = q BY DEF SpreadInv, Positions
<1> HIDE DEF side, rev
<1>7. S \in SUBSET open /\ left \ rev = open \ S BY <1>5
<1>8. IdsOf(left \ rev) = IdsOf(open) \ IdsOf(S) BY <1>6, <1>7 DEF IdsOf
<1> DEFINE new == [id |-> next_id, base |-> b, side |-> side, held |-> 0,
                   price |-> f, gap |-> f - quote'[b].binance]
<1>9. CASE side # 0 /\ Room(b, left \ rev) /\ cooldown[b] = 0 /\ next_id <= MaxPosId
  <2>1. /\ open' = (left \ rev) \union {new}
        /\ cooldown' = [cooldown EXCEPT ![b] = Cooldown]
        /\ entered' = entered \union {next_id} /\ next_id' = next_id + 1
    BY <1>3, <1>9 DEF Enter
  <2>2. next_id \in Ids /\ next_id \notin entered
    BY <1>9 DEF SpreadInv, Signals, ConstantsOK, Ids
  <2>3. new \in PosIds BY <1>1, <1>2, <1>9, <2>2 DEF PosIds, ConstantsOK
  <2>4. new.id = next_id /\ new.base = b /\ new.side = side OBVIOUS
  <2> HIDE DEF new
  <2>5. next_id \notin IdsOf(open) BY <2>2 DEF SpreadInv, Signals
  <2>6. IdsOf(open') = (IdsOf(open) \ IdsOf(S)) \union {next_id}
    BY <1>8, <2>1, <2>4 DEF IdsOf
  <2>7. Cardinality(left \ rev) < MaxOpenPositions
        /\ Cardinality({p \in left \ rev : p.base = b}) < MaxPositionsPerBase
    <3>1. Cardinality(left) < MaxOpenPositions
          /\ Cardinality({p \in left \ rev : p.base = b}) < MaxPositionsPerBase
      BY <1>9 DEF Room
    <3>2. IsFiniteSet(left) /\ left \ rev \in SUBSET left
      BY FS_Subset DEF SpreadInv, Positions
    <3>3. Cardinality(left \ rev) <= Cardinality(left) BY <3>2, FS_Subset
    <3>4. IsFiniteSet(left \ rev) BY <3>2, FS_Subset
    <3>5. Cardinality(left) \in Nat /\ Cardinality(left \ rev) \in Nat
      BY <3>2, <3>4, FS_CardinalityType
    <3>6. QED BY <3>1, <3>3, <3>5 DEF ConstantsOK
  <2>8. MinHold = 0 => \A p \in left \ rev : p.base = b => p.side = new.side
    BY <1>5, <1>9, <2>4 DEF SpreadInv, Positions, PosIds
  <2>9. Positions'
    <3>1. left \ rev \in SUBSET open OBVIOUS
    <3> HIDE DEF left
    <3>2. QED BY <1>1, <2>1, <2>3, <2>4, <2>5, <2>7, <2>8, <3>1, OnePosition DEF SpreadInv
  <2>10. Signals'
    BY <1>3, <1>4, <1>7, <1>9, <2>1, <2>6, QueueSignals DEF SpreadInv, Tasks
  <2>11. QED BY <1>1, <2>1, <2>9, <2>10 DEF SpreadInv, Feeds, ConstantsOK
<1>10. CASE ~(side # 0 /\ Room(b, left \ rev) /\ cooldown[b] = 0 /\ next_id <= MaxPosId)
  <2>1. open' = left \ rev /\ UNCHANGED <<cooldown, entered, next_id>>
    BY <1>3, <1>10 DEF Enter
  <2>2. Positions' BY <2>1, FewerPositions DEF SpreadInv
  <2>3. Signals'
    BY <1>3, <1>4, <1>7, <1>8, <2>1, QueueSignals DEF SpreadInv, Tasks
  <2>4. QED BY <2>1, <2>2, <2>3 DEF SpreadInv, Feeds
<1>11. QED BY <1>9, <1>10

\* on_tick stores the quote, and with both quotes there closes and opens.
LEMMA OnTickStep == ASSUME ConstantsOK, SpreadInv, OnTick PROVE SpreadInv'
<1> DEFINE b == tick.base
<1>1. /\ tick # None /\ tick' = None /\ UNCHANGED <<baselines, exits>>
      /\ quote' = [quote EXCEPT ![b][tick.venue] = tick.price] /\ UNCHANGED vanished
  BY DEF OnTick
<1>2. b \in Bases /\ tick.venue \in Venues /\ tick.price \in Prices
  BY <1>1 DEF SpreadInv, Feeds
<1>3. quote' \in [Bases -> [Venues -> Prices \union {0}]]
  BY <1>1, <1>2 DEF SpreadInv, Feeds
<1>4. ASSUME cooldown' \in [Bases -> 0..Cooldown], Positions', Signals',
             dropped' \subseteq [id : Ids, base : Bases]
      PROVE  SpreadInv'
  BY <1>1, <1>3, <1>4 DEF SpreadInv, Feeds
<1>5. CASE \E v \in Venues : quote'[b][v] = 0
  <2>1. UNCHANGED <<open, closing, cooldown, entered, next_id, dropped>>
    BY <1>5 DEF OnTick
  <2>2. Positions' /\ Signals' BY <1>1, <2>1, FewerPositions, SameSignals DEF SpreadInv
  <2>3. QED BY <1>4, <2>1, <2>2 DEF SpreadInv, Feeds
<1>6. CASE tick.baseline = None /\ ~ \E v \in Venues : quote'[b][v] = 0
  <2>1. NoBaseline(b) BY <1>6 DEF OnTick
  <2>2. open' \subseteq open /\ UNCHANGED <<closing, cooldown, entered, next_id>>
    BY <2>1 DEF NoBaseline
  <2>3. IdsOf(open') \subseteq IdsOf(open) BY <2>2 DEF IdsOf
  <2>4. Positions' /\ Signals'
    BY <1>1, <2>2, <2>3, FewerPositions, SameSignals DEF SpreadInv
  <2>5. dropped' \subseteq [id : Ids, base : Bases]
    <3>1. ASSUME NEW p \in Exits(b, quote'[b].flipster)
          PROVE  [id |-> p.id, base |-> b] \in [id : Ids, base : Bases]
      BY <1>2, <3>1 DEF Exits, OpenOn, SpreadInv, Positions, PosIds
    <3>2. dropped' = dropped \union {[id |-> p.id, base |-> b] : p \in Exits(b, quote'[b].flipster)}
      BY <2>1 DEF NoBaseline
    <3>3. QED BY <3>1, <3>2 DEF SpreadInv, Feeds
  <2>6. QED BY <1>4, <2>2, <2>4, <2>5 DEF SpreadInv, Feeds
<1>7. CASE tick.baseline # None /\ ~ \E v \in Venues : quote'[b][v] = 0
  <2>1. Decide(b, tick.baseline) BY <1>7 DEF OnTick
  <2>2. UNCHANGED dropped BY <2>1 DEF Decide
  <2>3. QED BY <1>1, <1>4, <1>7, <2>1, <2>2, DecideStep DEF SpreadInv, Feeds
<1>8. QED BY <1>5, <1>6, <1>7

\* The sweeper queues what it takes out.
LEMMA SweepStep == ASSUME ConstantsOK, SpreadInv, SweepExits PROVE SpreadInv'
<1> DEFINE S == {p \in open : Expired(p)}
<1>1. /\ Queue("sweep", S) /\ open' = {p \in open : ~Expired(p)}
      /\ closing["sweep"] = <<>>
      /\ UNCHANGED <<quote, baselines, cooldown, tick, next_id, entered, exits, history>>
  BY DEF SweepExits
<1>2. IdsOf(open') = IdsOf(open) \ IdsOf(S)
  BY <1>1 DEF SpreadInv, Positions, IdsOf
<1>3. S \in SUBSET open /\ open' \subseteq open BY <1>1
<1> HIDE DEF S
<1>4. Signals' BY <1>1, <1>2, <1>3, QueueSignals DEF SpreadInv, Tasks
<1>5. Positions' BY <1>3, FewerPositions DEF SpreadInv
<1>6. Feeds' BY <1>1 DEF SpreadInv, Feeds, Signals, Queue, Tasks
<1>7. QED BY <1>4, <1>5, <1>6 DEF SpreadInv

\* The head of a queue is signalled: it was not before, and is in no queue after.
LEMMA LogStep ==
  ASSUME ConstantsOK, SpreadInv, NEW t \in Tasks, LogClose(t)
  PROVE  SpreadInv'
<1> DEFINE h == Head(closing[t])
<1>1. /\ closing[t] # <<>> /\ exits' = [exits EXCEPT ![h] = @ + 1]
      /\ closing' = [closing EXCEPT ![t] = Tail(closing[t])]
      /\ UNCHANGED <<quote, baselines, open, cooldown, tick, next_id, entered, history>>
  BY DEF LogClose, SpreadInv, Signals
<1>2. closing[t] \in Seq(Ids) /\ IsInjective(closing[t]) BY DEF SpreadInv, Signals
<1>3. /\ h \in ToSet(closing[t]) /\ Tail(closing[t]) \in Seq(Ids)
      /\ ToSet(Tail(closing[t])) = ToSet(closing[t]) \ {h}
      /\ IsInjective(Tail(closing[t]))
  BY <1>1, <1>2, HeadLeaves
<1>4. h \in entered /\ h \notin IdsOf(open) /\ exits[h] = 0
  BY <1>3 DEF SpreadInv, Signals
<1>5. h \in Ids BY <1>2, <1>1
<1>6. closing' \in [Tasks -> Seq(Ids)] /\ exits' \in [Ids -> 0..1]
      /\ exits'[h] = 1 /\ \A i \in Ids : i # h => exits'[i] = exits[i]
  BY <1>1, <1>3, <1>4, <1>5 DEF SpreadInv, Signals
<1>7. \A u \in Tasks : IsInjective(closing'[u]) BY <1>1, <1>3 DEF SpreadInv, Signals
<1>8. \A u \in Tasks : ToSet(closing'[u]) \subseteq ToSet(closing[u]) \ {h}
  BY <1>1, <1>3 DEF SpreadInv, Signals, Tasks
<1>9. \A u \in Tasks : ToSet(closing[u]) \subseteq Ids
  BY DEF SpreadInv, Signals, ToSet
<1> HIDE DEF h
<1>10. Signals'
  <2>1. \A u \in Tasks : \A i \in ToSet(closing'[u]) :
           i \in entered /\ i \notin IdsOf(open) /\ exits'[i] = 0
    BY <1>6, <1>8, <1>9 DEF SpreadInv, Signals
  <2>2. ToSet(closing'["tick"]) \intersect ToSet(closing'["sweep"]) = {}
    BY <1>8 DEF SpreadInv, Signals, Tasks
  <2>3. \A i \in Ids : exits'[i] = 1 => i \in entered /\ i \notin IdsOf(open)
    BY <1>4, <1>6 DEF SpreadInv, Signals
  <2>4. QED BY <1>1, <1>6, <1>7, <2>1, <2>2, <2>3 DEF SpreadInv, Signals
<1>11. Positions' BY <1>1, FewerPositions DEF SpreadInv
<1>12. tick # None => t # "tick" BY <1>1 DEF SpreadInv, Feeds
<1>13. Feeds' BY <1>1, <1>12 DEF SpreadInv, Feeds, Signals, Tasks
<1>14. QED BY <1>10, <1>11, <1>13 DEF SpreadInv

\* Every step keeps the invariant.
LEMMA SpreadStep == ASSUME ConstantsOK, SpreadInv, [Next]_vars PROVE SpreadInv'
<1>1. ASSUME UNCHANGED <<open, closing, next_id, entered, exits>>
      PROVE  Positions' /\ Signals'
  BY <1>1, FewerPositions, SameSignals DEF SpreadInv
<1>2. CASE Refresh
  BY <1>1, <1>2 DEF Refresh, SpreadInv, Feeds
<1>3. CASE Age
  <2>1. Positions' /\ IdsOf(open') = IdsOf(open) BY <1>3, AgedPositions DEF SpreadInv
  <2>2. Signals' BY <1>3, <2>1, SameSignals DEF SpreadInv, Age
  <2>3. cooldown' \in [Bases -> 0..Cooldown]
    BY <1>3 DEF Age, SpreadInv, Feeds, ConstantsOK
  <2>4. QED BY <1>3, <2>1, <2>2, <2>3 DEF Age, SpreadInv, Feeds
<1>4. ASSUME NEW b \in Bases, NEW v \in Venues, Expire(b, v) PROVE SpreadInv'
  BY <1>1, <1>4 DEF Expire, SpreadInv, Feeds
<1>5. ASSUME NEW b \in Bases, NEW v \in Venues, NEW price \in Prices,
             ReadBaseline(b, v, price)
      PROVE  SpreadInv'
  <2>1. tick' \in [base : Bases, venue : Venues, price : Prices,
                   baseline : Baselines \union {None}]
    BY <1>5 DEF ReadBaseline, SpreadInv, Feeds
  <2>2. QED BY <1>1, <1>5, <2>1 DEF ReadBaseline, SpreadInv, Feeds
<1>6. CASE UNCHANGED vars
  BY <1>1, <1>6 DEF vars, SpreadInv, Feeds
<1>7. QED BY <1>2, <1>3, <1>4, <1>5, <1>6, OnTickStep, SweepStep, LogStep DEF Next

-----------------------------------------------------------------------------
(* What follows from it                                                    *)

\* The invariant holds in every state of the strategy.
LEMMA SpreadInvCorrect == ConstantsOK /\ Spec => []SpreadInv
<1> SUFFICES ASSUME ConstantsOK PROVE Spec => []SpreadInv
  OBVIOUS
<1>1. Init => SpreadInv BY SpreadInit
<1>2. SpreadInv /\ [Next]_vars => SpreadInv' BY SpreadStep
<1>3. QED BY <1>1, <1>2, PTL DEF Spec

\* Quotes, baselines, positions and queues keep their types, and an id is held by
\* one open position.
THEOREM SpreadTypes == ConstantsOK /\ Spec => []TypeOK
<1> SUFFICES ASSUME ConstantsOK PROVE Spec => []TypeOK
  OBVIOUS
<1>1. SpreadInv => TypeOK
  <2> SUFFICES ASSUME SpreadInv PROVE TypeOK
    OBVIOUS
  <2>1. Cardinality(IdsOf(open)) = Cardinality(open)
    BY IdsCount DEF SpreadInv, Positions
  <2>2. entered \subseteq Ids
    <3>1. next_id \in 1..(MaxPosId + 1) /\ entered = 1..(next_id - 1)
      BY DEF SpreadInv, Signals
    <3>2. QED BY <3>1 DEF Ids, ConstantsOK
  <2>3. QED BY <2>1, <2>2 DEF SpreadInv, Feeds, Positions, Signals, TypeOK
<1>2. QED BY <1>1, SpreadInvCorrect, PTL

\* "max_open_positions globally and max_positions_per_base per symbol" hold although
\* the count is taken before the reverse-close and two tasks close.
THEOREM CapsHoldCorrect == ConstantsOK /\ Spec => []CapsHold
<1>1. SpreadInv => CapsHold BY DEF SpreadInv, Positions
<1>2. QED BY <1>1, SpreadInvCorrect, PTL

\* Without a minimum hold the positions of a base all point one way.
THEOREM OneSidePerBaseCorrect == ConstantsOK /\ Spec => []OneSidePerBase
<1>1. SpreadInv => OneSidePerBase BY DEF SpreadInv, Positions
<1>2. QED BY <1>1, SpreadInvCorrect, PTL

\* The tick loop and the sweeper send one exit of a position between them, and none
\* of a position that is open or was never entered.
LEMMA OneExit == SpreadInv => ExitOnce
<1> SUFFICES ASSUME SpreadInv PROVE ExitOnce
  OBVIOUS
<1>1. \A i \in Ids : exits[i] \in 0..1 BY DEF SpreadInv, Signals
<1>2. \A i \in InClosing : i \notin IdsOf(open) /\ exits[i] = 0
  BY DEF SpreadInv, Signals, InClosing
<1>3. QED BY <1>1, <1>2 DEF SpreadInv, Signals, ExitOnce

\* So an exit is sent once, after its entry, of a position that is closed.
THEOREM ExitOnceCorrect == ConstantsOK /\ Spec => []ExitOnce
BY OneExit, SpreadInvCorrect, PTL

-----------------------------------------------------------------------------
(* A position ends in silence only where the baseline vanished             *)

\* A base with an open position has a baseline or was left out while it was traded;
\* so was the base of a tick without one when something is open on it, and so has the
\* base of a tick with one.
Watched ==
    /\ \A p \in open : baselines[p.base] # None \/ p.base \in vanished
    /\ tick # None /\ tick.baseline = None =>
          \A p \in open : p.base = tick.base => tick.base \in vanished
    /\ tick # None /\ tick.baseline # None =>
          baselines[tick.base] # None \/ tick.base \in vanished
    /\ NoSilentClose

\* What waits in a queue, by id.
LEMMA WaitingIds ==
  InClosing = ToSet(closing["tick"]) \union ToSet(closing["sweep"])
BY DEF InClosing, Tasks

\* What leaves the open positions is queued, so its id is still accounted for.
LEMMA QueueKeepsIds ==
  ASSUME ConstantsOK, SpreadInv,
         NEW t \in Tasks, closing[t] = <<>>, NEW S \in SUBSET open, Queue(t, S)
  PROVE  IdsOf(S) \union InClosing \subseteq InClosing'
<1> DEFINE q == SetToSeq(IdsOf(S))
<1>1. IsFiniteSet(S) /\ IsFiniteSet(IdsOf(S))
  BY FS_Subset, IdsCount DEF SpreadInv, Positions
<1>2. q \in Seq(IdsOf(S)) /\ ToSet(q) = IdsOf(S) BY <1>1, Queued
<1> HIDE DEF q
<1>3. closing' = [closing EXCEPT ![t] = q]
  <2>1. closing' = [closing EXCEPT ![t] = <<>> \o q]
    BY DEF Queue, SpreadInv, Signals, q
  <2>2. QED BY <1>2, <2>1
<1>4. ToSet(<<>>) = {} BY DEF ToSet
<1>5. QED BY <1>2, <1>3, <1>4, WaitingIds DEF SpreadInv, Signals, Tasks, InClosing

\* While nothing is opened and baselines stay, a base is watched as before.
LEMMA NothingOpened ==
  ASSUME Watched, IdsOf(open) \union InClosing \subseteq IdsOf(open') \union InClosing',
         open' \subseteq open, UNCHANGED <<baselines, entered, exits, history>>,
         tick' = tick \/ tick' = None
  PROVE  Watched'
BY DEF Watched, NoSilentClose

\* on_tick: without a baseline what closes is dropped, on a base that vanished; with
\* one, what closes is queued and what opens is watched.
LEMMA OnTickWatched ==
  ASSUME ConstantsOK, SpreadInv, Watched, OnTick PROVE Watched'
<1> DEFINE b == tick.base
           f == quote'[b].flipster
<1>1. /\ tick # None /\ tick' = None /\ UNCHANGED <<baselines, exits, vanished>>
  BY DEF OnTick
<1>2. CASE \E v \in Venues : quote'[b][v] = 0
  <2>1. UNCHANGED <<open, closing, entered, dropped>> BY <1>2 DEF OnTick
  <2>2. QED BY <1>1, <2>1 DEF Watched, NoSilentClose, InClosing
<1>3. CASE tick.baseline = None /\ ~ \E v \in Venues : quote'[b][v] = 0
  <2>1. NoBaseline(b) BY <1>3 DEF OnTick
  <2>2. /\ open' = open \ Exits(b, f) /\ UNCHANGED <<closing, entered>>
        /\ dropped' = dropped \union {[id |-> p.id, base |-> b] : p \in Exits(b, f)}
    BY <2>1 DEF NoBaseline
  <2>3. IdsOf(open) \subseteq IdsOf(open') \union IdsOf(dropped')
    <3>1. ASSUME NEW p \in open PROVE p.id \in IdsOf(open') \union IdsOf(dropped')
      <4>1. CASE p \in Exits(b, f)
        <5>1. [id |-> p.id, base |-> b] \in dropped' BY <2>2, <4>1
        <5>2. QED BY <5>1 DEF IdsOf
      <4>2. CASE p \notin Exits(b, f) BY <2>2, <4>2 DEF IdsOf
      <4>3. QED BY <4>1, <4>2
    <3>2. QED BY <3>1 DEF IdsOf
  <2>4. IdsOf(dropped) \subseteq IdsOf(dropped') BY <2>2 DEF IdsOf
  <2>5. \A p \in dropped' : p.base \in vanished'
    <3>1. ASSUME NEW p \in Exits(b, f) PROVE b \in vanished
      BY <1>1, <1>3, <3>1 DEF Watched, Exits, OpenOn
    <3>2. QED BY <1>1, <2>2, <3>1 DEF Watched, NoSilentClose
  <2>6. NoSilentClose'
    BY <1>1, <2>2, <2>3, <2>4, <2>5 DEF Watched, NoSilentClose, InClosing
  <2>7. QED BY <1>1, <2>2, <2>6 DEF Watched
<1>4. CASE tick.baseline # None /\ ~ \E v \in Venues : quote'[b][v] = 0
  <2> DEFINE side == WantSide(f - quote'[b].binance, tick.baseline)
             left == open \ Exits(b, f)
             rev == Reversed({p \in left : p.base = b}, side)
             S == Exits(b, f) \union rev
  <2>1. Queue("tick", S) /\ Enter(b, side, left \ rev) /\ UNCHANGED dropped
    BY <1>4 DEF OnTick, Decide
  <2>2. S \in SUBSET open /\ left \ rev = open \ S
    BY DEF Exits, OpenOn, Reversed
  <2>3. closing["tick"] = <<>> BY <1>1 DEF SpreadInv, Feeds
  <2> HIDE DEF side, rev, left
  <2>4. IdsOf(S) \union InClosing \subseteq InClosing'
    BY <2>1, <2>2, <2>3, QueueKeepsIds DEF Tasks
  <2>5. baselines[b] # None \/ b \in vanished BY <1>1, <1>4 DEF Watched
  <2>6. \/ open' = open \ S /\ entered' = entered
        \/ \E p : /\ open' = (open \ S) \union {p} /\ p.base = b
                  /\ entered' = entered \union {p.id}
    <3> DEFINE p == [id |-> next_id, base |-> b, side |-> side, held |-> 0,
                     price |-> f, gap |-> f - quote'[b].binance]
    <3>1. p.base = b /\ p.id = next_id OBVIOUS
    <3>2. \/ open' = open \ S /\ entered' = entered
          \/ open' = (open \ S) \union {p} /\ entered' = entered \union {next_id}
      BY <2>1, <2>2 DEF Enter
    <3>3. QED BY <3>1, <3>2
  <2>7. IdsOf(open) \ IdsOf(S) \subseteq IdsOf(open') BY <2>6 DEF IdsOf
  <2>8. NoSilentClose'
    <3>1. entered' \subseteq entered \union IdsOf(open') BY <2>6 DEF IdsOf
    <3>2. QED BY <1>1, <2>1, <2>4, <2>7, <3>1 DEF Watched, NoSilentClose
  <2>9. QED BY <1>1, <2>5, <2>6, <2>8 DEF Watched
<1>5. QED BY <1>2, <1>3, <1>4

\* Every step keeps bases watched.
LEMMA WatchedStep ==
  ASSUME ConstantsOK, SpreadInv, Watched, [Next]_vars
  PROVE  Watched'
<1>1. CASE Refresh
  <2>1. /\ \A b \in Bases : Traded(b) /\ baselines'[b] = None => b \in vanished'
        /\ vanished \subseteq vanished'
        /\ UNCHANGED <<open, tick, closing, entered, exits, dropped>>
    BY <1>1 DEF Refresh
  <2>2. \A p \in open : p.base \in Bases /\ Traded(p.base)
    BY DEF SpreadInv, Positions, PosIds, Traded, OpenOn
  <2>3. tick # None => /\ tick.base \in Bases
                       /\ tick.baseline # None => Traded(tick.base)
    BY DEF SpreadInv, Feeds, Traded
  <2>4. NoSilentClose' BY <2>1 DEF Watched, NoSilentClose, InClosing
  <2>5. QED BY <2>1, <2>2, <2>3, <2>4 DEF Watched
<1>2. CASE Age
  <2>1. IdsOf(open') = IdsOf(open) BY <1>2, AgedPositions DEF SpreadInv
  <2>2. \A p \in open' : \E q \in open : p.base = q.base
    <3>1. ASSUME NEW q \in open
          PROVE [q EXCEPT !.held = IF @ < MaxHold THEN @ + 1 ELSE @].base = q.base
      BY DEF SpreadInv, Positions, PosIds
    <3>2. QED BY <1>2, <3>1 DEF Age
  <2>3. UNCHANGED <<baselines, tick, closing, entered, exits, history>> BY <1>2 DEF Age
  <2>4. NoSilentClose' BY <2>1, <2>3 DEF Watched, NoSilentClose, InClosing
  <2>5. QED BY <2>2, <2>3, <2>4 DEF Watched
<1>3. ASSUME NEW b \in Bases, NEW v \in Venues, Expire(b, v) PROVE Watched'
  BY <1>3 DEF Expire, Watched, NoSilentClose, InClosing
<1>4. ASSUME NEW b \in Bases, NEW v \in Venues, NEW price \in Prices,
             ReadBaseline(b, v, price)
      PROVE  Watched'
  <2>1. tick'.base = b /\ tick'.baseline = baselines[b]
    BY <1>4 DEF ReadBaseline
  <2>2. UNCHANGED <<baselines, open, closing, entered, exits, history>>
    BY <1>4 DEF ReadBaseline
  <2>3. QED BY <2>1, <2>2 DEF Watched, NoSilentClose, InClosing
<1>5. CASE SweepExits
  <2> DEFINE S == {p \in open : Expired(p)}
  <2>1. /\ Queue("sweep", S) /\ open' = open \ S /\ closing["sweep"] = <<>>
        /\ UNCHANGED <<baselines, tick, entered, exits, history>>
    BY <1>5 DEF SweepExits
  <2>2. S \in SUBSET open OBVIOUS
  <2> HIDE DEF S
  <2>3. IdsOf(S) \union InClosing \subseteq InClosing'
    BY <2>1, <2>2, QueueKeepsIds DEF Tasks
  <2>4. IdsOf(open) \subseteq IdsOf(open') \union IdsOf(S) BY <2>1 DEF IdsOf
  <2>5. QED BY <2>1, <2>3, <2>4, NothingOpened
<1>6. ASSUME NEW t \in Tasks, LogClose(t) PROVE Watched'
  <2> DEFINE h == Head(closing[t])
  <2>1. /\ closing[t] # <<>> /\ exits' = [exits EXCEPT ![h] = @ + 1]
        /\ closing' = [closing EXCEPT ![t] = Tail(closing[t])]
        /\ UNCHANGED <<baselines, open, tick, entered, history>>
    BY <1>6 DEF LogClose, SpreadInv, Signals
  <2>2. closing[t] \in Seq(Ids) /\ IsInjective(closing[t]) BY DEF SpreadInv, Signals
  <2>3. h \in Ids /\ ToSet(Tail(closing[t])) = ToSet(closing[t]) \ {h}
    BY <2>1, <2>2, HeadLeaves
  <2> HIDE DEF h
  <2>4. InClosing \subseteq InClosing' \union {h}
    BY <2>1, <2>3, WaitingIds DEF SpreadInv, Signals, Tasks, InClosing
  <2>5. exits \in [Ids -> 0..1] BY DEF SpreadInv, Signals
  <2>6. exits'[h] > 0 /\ \A i \in Ids : exits[i] > 0 => exits'[i] > 0
    BY <2>1, <2>3, <2>5
  <2>7. NoSilentClose' BY <2>1, <2>3, <2>4, <2>6 DEF Watched, NoSilentClose
  <2>8. QED BY <2>1, <2>7 DEF Watched
<1>7. CASE UNCHANGED vars
  BY <1>7 DEF vars, Watched, NoSilentClose, InClosing
<1>8. QED BY <1>1, <1>2, <1>3, <1>4, <1>5, <1>6, <1>7, OnTickWatched DEF Next

\* An entered position is open, waits for its exit signal or has sent it, or was
\* dropped by a tick without a baseline; and it was dropped only on a base that a
\* baseline cycle left out while it was traded.
THEOREM NoSilentCloseCorrect == ConstantsOK /\ Spec => []NoSilentClose
<1> SUFFICES ASSUME ConstantsOK PROVE Spec => []NoSilentClose
  OBVIOUS
<1>1. Init => Watched BY DEF Init, Watched, NoSilentClose, IdsOf
<1>2. SpreadInv /\ Watched /\ [Next]_vars => Watched' BY WatchedStep
<1>3. Watched => NoSilentClose BY DEF Watched
<1>4. QED BY <1>1, <1>2, <1>3, SpreadInvCorrect, PTL DEF Spec

-----------------------------------------------------------------------------
(* The signals implement the ledger                                        *)

\* A step of the strategy enters the next id, sends the one exit of an id that was
\* entered, or is not seen by the coordinator.
LEMMA LedgerStep ==
  ASSUME ConstantsOK, SpreadInv, [Next]_vars
  PROVE  [Ledger!Next]_(Ledger!ledger)
<1> USE DEF Ledger!ledger
<1>1. CASE UNCHANGED <<entered, exits>> BY <1>1
<1>2. ASSUME NEW t \in Tasks, LogClose(t) PROVE Ledger!Next
  <2> DEFINE h == Head(closing[t])
  <2>1. /\ closing[t] # <<>> /\ exits' = [exits EXCEPT ![h] = @ + 1]
        /\ UNCHANGED entered
    BY <1>2 DEF LogClose
  <2>2. closing[t] \in Seq(Ids) /\ IsInjective(closing[t]) BY DEF SpreadInv, Signals
  <2>3. h \in Ids /\ h \in ToSet(closing[t]) BY <2>1, <2>2, HeadLeaves
  <2>4. h \in entered /\ exits[h] = 0 BY <2>3 DEF SpreadInv, Signals
  <2>5. exits' = [exits EXCEPT ![h] = 1] BY <2>1, <2>4
  <2> HIDE DEF h
  <2>6. Ledger!Exit(h) BY <2>1, <2>4, <2>5 DEF Ledger!Exit
  <2>7. QED BY <2>3, <2>6 DEF Ledger!Next
<1>3. CASE OnTick
  <2>1. CASE entered' = entered BY <1>3, <2>1 DEF OnTick
  <2>2. CASE entered' # entered
    <3>1. entered' = entered \union {next_id} /\ next_id <= MaxPosId
          /\ UNCHANGED exits
      BY <1>3, <2>2 DEF OnTick, NoBaseline, Decide, Enter
    <3>2. next_id \in Ids \ entered
      BY <3>1 DEF SpreadInv, Signals, Ids, ConstantsOK
    <3>3. Ledger!Enter(next_id) BY <3>1, <3>2 DEF Ledger!Enter
    <3>4. QED BY <3>2, <3>3 DEF Ledger!Next
  <2>3. QED BY <2>1, <2>2
<1>4. QED
  BY <1>1, <1>2, <1>3
  DEF Next, Refresh, Age, Expire, ReadBaseline, SweepExits, vars

\* What the coordinator sees of SpreadRevert is a PaperLedger: every entry under an
\* id of its own, its exit after it, once.
THEOREM ImplementsLedgerCorrect == ConstantsOK /\ Spec => Ledger!Spec
<1> SUFFICES ASSUME ConstantsOK PROVE Spec => Ledger!Spec
  OBVIOUS
<1>1. Init => Ledger!Init BY DEF Init, Ledger!Init
<1>2. SpreadInv /\ [Next]_vars => [Ledger!Next]_(Ledger!ledger) BY LedgerStep
<1>3. QED BY <1>1, <1>2, SpreadInvCorrect, PTL DEF Spec, Ledger!Spec

-----------------------------------------------------------------------------
(* The live legs on Hyperliquid                                            *)

\* Where the tasks of a leg can be.  Unless one of the accidents happened on its
\* coin, its entry is under way only before the paper exit, and a maker exit that
\* rests is known to the paper exit or being cancelled by it.
LegState(i) ==
    /\ leg[i] = None => entering[i] = "none"
    /\ leg[i] # None => i \in entered
    /\ entering[i] # "done" => i \notin pending /\ i \notin resting /\ leaving[i] = "none"
    /\ leaving[i] # "none" => i \notin pending /\ exits[i] = 1
    /\ leaving[i] = "ioc" => i \notin resting
    /\ leg[i] # None /\ Coin(i) \notin lost =>
          /\ entering[i] \in {"ioc", "alo"} => exits[i] = 0
          /\ i \in resting => (i \in pending /\ exits[i] = 0) \/ leaving[i] = "cancel"

\* A leg that may still hold its part of the position.
Holds(i) == entering[i] = "alo" \/ i \in resting \/ leaving[i] = "ioc"
Holders(b, s) ==
    {i \in Ids : leg[i] # None /\ leg[i].base = b /\ leg[i].side = s /\ Holds(i)}

LiveTypes ==
    /\ leg \in [Ids -> {None} \union [base : Bases, side : {1, -1}]]
    /\ entering \in [Ids -> {"none", "ioc", "alo", "done"}]
    /\ leaving \in [Ids -> {"none", "cancel", "ioc", "done"}]
    /\ pending \subseteq Ids /\ resting \subseteq Ids
    /\ loss \in 0..LossCap /\ busy \subseteq Bases /\ lost \subseteq Bases
    /\ real \in [Bases -> Int]
    /\ look # None => look.coins \subseteq Bases

\* The venue's position lies between what the short and the long legs may hold.
Covered(b) ==
    b \notin lost =>
        /\ real[b] <= Cardinality(Holders(b, 1))
        /\ -real[b] <= Cardinality(Holders(b, -1))

Legs == LiveTypes /\ (\A i \in Ids : LegState(i)) /\ (\A b \in Bases : Covered(b))

\* Holders are counted, and counting follows one that comes or goes.
LEMMA HoldersCount ==
  ASSUME ConstantsOK, NEW b, NEW s
  PROVE  /\ IsFiniteSet(Holders(b, s)) /\ Cardinality(Holders(b, s)) \in Nat
         /\ IsFiniteSet(Holders(b, s)') /\ Cardinality(Holders(b, s)') \in Nat
<1>1. IsFiniteSet(Ids) BY FS_Interval DEF Ids, ConstantsOK
<1>2. Holders(b, s) \subseteq Ids /\ Holders(b, s)' \subseteq Ids BY DEF Holders
<1>3. QED BY <1>1, <1>2, FS_Subset, FS_CardinalityType

\* Nobody comes or goes on other coins, so they stay covered.
LEMMA CoveredAsBefore ==
  ASSUME Legs, NEW b \in Bases, lost \subseteq lost', real'[b] = real[b],
         \A s \in {1, -1} : Holders(b, s)' = Holders(b, s)
  PROVE  Covered(b)'
BY DEF Legs, Covered

\* A leg whose tasks end leaves the holders; what it reduces, if there is something
\* to reduce, is its own side.
LEMMA LegEnds ==
  ASSUME HlConstantsOK, Legs, NEW i \in Ids, leg[i] # None, UNCHANGED <<leg, lost>>,
         Holds(i), ~Holds(i)', \A j \in Ids : j # i => (Holds(j)' <=> Holds(j)),
         Reduce(i)
  PROVE  \A b \in Bases : Covered(b)'
<1>1. PICK c \in Bases, d \in {1, -1} : c = leg[i].base /\ d = leg[i].side
  BY DEF Legs, LiveTypes
<1>2. real \in [Bases -> Int] BY DEF Legs, LiveTypes
<1>3. real' = IF real[c] * d > 0 THEN [real EXCEPT ![c] = @ - d] ELSE real
  BY <1>1 DEF Reduce, Reducible, Coin
<1> SUFFICES ASSUME NEW b \in Bases PROVE Covered(b)'
  OBVIOUS
<1>4. CASE b # c
  <2>1. \A s \in {1, -1} : Holders(b, s)' = Holders(b, s)
    BY <1>1, <1>4 DEF Holders
  <2>2. real'[b] = real[b] BY <1>2, <1>3, <1>4
  <2>3. QED BY <2>1, <2>2, CoveredAsBefore
<1>5. CASE b = c
  <2>1. Holders(c, d)' = Holders(c, d) \ {i} /\ i \in Holders(c, d)
    BY <1>1 DEF Holders
  <2>2. \A s \in {1, -1} : s # d => Holders(c, s)' = Holders(c, s)
    BY <1>1 DEF Holders
  <2>3. Cardinality(Holders(c, d)') = Cardinality(Holders(c, d)) - 1
    <3>1. IsFiniteSet(Holders(c, d)) BY HoldersCount DEF HlConstantsOK
    <3>2. QED BY <2>1, <3>1, FS_RemoveElement
  <2>4. /\ Cardinality(Holders(c, 1)) \in Nat /\ Cardinality(Holders(c, -1)) \in Nat
        /\ Cardinality(Holders(c, 1)') \in Nat /\ Cardinality(Holders(c, -1)') \in Nat
    BY HoldersCount DEF HlConstantsOK
  <2>5. c \notin lost => /\ real[c] <= Cardinality(Holders(c, 1))
                         /\ -real[c] <= Cardinality(Holders(c, -1))
    BY DEF Legs, Covered
  <2>6. real[c] \in Int BY <1>2
  <2>7. c \notin lost' => /\ real'[c] <= Cardinality(Holders(c, 1)')
                          /\ -real'[c] <= Cardinality(Holders(c, -1)')
    <3>1. CASE d = 1
      <4>1. /\ Cardinality(Holders(c, 1)') = Cardinality(Holders(c, 1)) - 1
            /\ Cardinality(Holders(c, -1)') = Cardinality(Holders(c, -1))
        BY <2>2, <2>3, <3>1
      <4>2. real'[c] = IF real[c] > 0 THEN real[c] - 1 ELSE real[c]
        BY <1>2, <1>3, <3>1
      <4>3. QED BY <2>4, <2>5, <2>6, <4>1, <4>2
    <3>2. CASE d = -1
      <4>1. /\ Cardinality(Holders(c, -1)') = Cardinality(Holders(c, -1)) - 1
            /\ Cardinality(Holders(c, 1)') = Cardinality(Holders(c, 1))
        BY <2>2, <2>3, <3>2
      <4>2. real'[c] = IF real[c] < 0 THEN real[c] + 1 ELSE real[c]
        BY <1>2, <1>3, <3>2
      <4>3. QED BY <2>4, <2>5, <2>6, <4>1, <4>2
    <3>3. QED BY <3>1, <3>2
  <2>8. QED BY <1>5, <2>7 DEF Covered
<1>6. QED BY <1>4, <1>5

\* A leg that fills joins the holders of its side.
LEMMA LegStarts ==
  ASSUME HlConstantsOK, Legs, NEW i \in Ids, leg[i] # None, UNCHANGED <<leg, lost>>,
         ~Holds(i), Holds(i)', \A j \in Ids : j # i => (Holds(j)' <=> Holds(j)),
         Fill(i)
  PROVE  \A b \in Bases : Covered(b)'
<1>1. PICK c \in Bases, d \in {1, -1} : c = leg[i].base /\ d = leg[i].side
  BY DEF Legs, LiveTypes
<1>2. real \in [Bases -> Int] BY DEF Legs, LiveTypes
<1>3. real' = [real EXCEPT ![c] = @ + d] BY <1>1 DEF Fill, Coin
<1> SUFFICES ASSUME NEW b \in Bases PROVE Covered(b)'
  OBVIOUS
<1>4. CASE b # c
  <2>1. \A s \in {1, -1} : Holders(b, s)' = Holders(b, s)
    BY <1>1, <1>4 DEF Holders
  <2>2. real'[b] = real[b] BY <1>2, <1>3, <1>4
  <2>3. QED BY <2>1, <2>2, CoveredAsBefore
<1>5. CASE b = c
  <2>1. Holders(c, d)' = Holders(c, d) \union {i} /\ i \notin Holders(c, d)
    BY <1>1 DEF Holders
  <2>2. \A s \in {1, -1} : s # d => Holders(c, s)' = Holders(c, s)
    BY <1>1 DEF Holders
  <2>3. Cardinality(Holders(c, d)') = Cardinality(Holders(c, d)) + 1
    <3>1. IsFiniteSet(Holders(c, d)) BY HoldersCount DEF HlConstantsOK
    <3>2. QED BY <2>1, <3>1, FS_AddElement
  <2>4. Cardinality(Holders(c, 1)) \in Nat /\ Cardinality(Holders(c, -1)) \in Nat
    BY HoldersCount DEF HlConstantsOK
  <2>5. c \notin lost => /\ real[c] <= Cardinality(Holders(c, 1))
                         /\ -real[c] <= Cardinality(Holders(c, -1))
    BY DEF Legs, Covered
  <2>6. real[c] \in Int /\ real'[c] = real[c] + d BY <1>2, <1>3
  <2>7. c \notin lost' => /\ real'[c] <= Cardinality(Holders(c, 1)')
                          /\ -real'[c] <= Cardinality(Holders(c, -1)')
    <3>1. CASE d = 1 BY <2>2, <2>3, <2>4, <2>5, <2>6, <3>1
    <3>2. CASE d = -1 BY <2>2, <2>3, <2>4, <2>5, <2>6, <3>2
    <3>3. QED BY <3>1, <3>2
  <2>8. QED BY <1>5, <2>7 DEF Covered
<1>6. QED BY <1>4, <1>5

\* No leg stops holding and nothing is traded.
LEMMA LegsHold ==
  ASSUME HlConstantsOK, Legs, \A j \in Ids : leg[j] # None => leg'[j] = leg[j],
         \A j \in Ids : Holds(j) => Holds(j)', UNCHANGED real, lost \subseteq lost'
  PROVE  \A b \in Bases : Covered(b)'
<1> SUFFICES ASSUME NEW b \in Bases, b \notin lost'
             PROVE  /\ real[b] <= Cardinality(Holders(b, 1)')
                    /\ -real[b] <= Cardinality(Holders(b, -1)')
  BY DEF Covered
<1>1. \A s \in {1, -1} : Cardinality(Holders(b, s)) <= Cardinality(Holders(b, s)')
  <2> TAKE s \in {1, -1}
  <2>1. Holders(b, s) \subseteq Holders(b, s)' BY DEF Holders
  <2>2. QED BY <2>1, HoldersCount, FS_Subset DEF HlConstantsOK
<1>2. \A s \in {1, -1} : /\ Cardinality(Holders(b, s)) \in Nat
                         /\ Cardinality(Holders(b, s)') \in Nat
  BY HoldersCount DEF HlConstantsOK
<1>3. real[b] \in Int /\ real[b] <= Cardinality(Holders(b, 1))
      /\ -real[b] <= Cardinality(Holders(b, -1))
  BY DEF Legs, LiveTypes, Covered
<1>4. QED BY <1>1, <1>2, <1>3

\* An accident is noted for its coin, and concerns no other.
LEMMA LegLost ==
  ASSUME HlConstantsOK, Legs, NEW i \in Ids, leg[i] # None, UNCHANGED leg,
         lost' = lost \union {Coin(i)},
         \A j \in Ids : j # i => (Holds(j)' <=> Holds(j)),
         \A b \in Bases : b # Coin(i) => real'[b] = real[b]
  PROVE  \A b \in Bases : Covered(b)'
<1> SUFFICES ASSUME NEW b \in Bases, b \notin lost' PROVE Covered(b)'
  BY DEF Covered
<1>1. b # leg[i].base BY DEF Coin
<1>2. \A s \in {1, -1} : Holders(b, s)' = Holders(b, s) BY <1>1 DEF Holders
<1>3. QED BY <1>1, <1>2, CoveredAsBefore DEF Coin

\* A leg on the way is one of a base and a side.
LEMMA LegOf ==
  ASSUME Legs, NEW i \in Ids, entering[i] # "none" \/ i \in resting \/ leaving[i] # "none"
  PROVE  leg[i] # None /\ Coin(i) \in Bases /\ leg[i].side \in {1, -1}
<1>1. entering[i] # "none" BY DEF Legs, LegState
<1>2. leg[i] # None BY <1>1 DEF Legs, LegState
<1>3. QED BY <1>2 DEF Legs, LiveTypes, Coin

\* What an order may do to the venue's position keeps it a number.
LEMMA RealTypes ==
  ASSUME Legs, NEW i \in Ids, leg[i] # None, Fill(i) \/ Reduce(i)
  PROVE  /\ real' \in [Bases -> Int]
         /\ \A b \in Bases : b # Coin(i) => real'[b] = real[b]
BY DEF Legs, LiveTypes, Fill, Reduce, Coin

\* The entry IOC: refused or unfilled, filled, or filled without an answer.
LEMMA EntryIocStep ==
  ASSUME HlConstantsOK, Legs, NEW i \in Ids, EntryIoc(i)
  PROVE  Legs'
<1> USE DEF Enters, Lost
<1>1. /\ entering[i] = "ioc" /\ UNCHANGED <<entered, exits, leg, leaving, pending, loss,
                                            busy, look, resting>>
  BY DEF EntryIoc, vars, cache
<1>2. leg[i] # None /\ Coin(i) \in Bases BY <1>1, LegOf
<1>3. i \notin pending /\ i \notin resting /\ leaving[i] = "none"
  BY <1>1 DEF Legs, LegState
<1>4. \A at \in {"alo", "done"}, j \in Ids :
         entering' = [entering EXCEPT ![i] = at] /\ j # i => (Holds(j)' <=> Holds(j))
  BY <1>1 DEF Holds, Legs, LiveTypes
<1>5. CASE Enters(i, "done") /\ UNCHANGED <<real, lost>>
  <2>1. \A j \in Ids : Holds(j) => Holds(j)'
    BY <1>1, <1>3, <1>4, <1>5 DEF Holds
  <2>2. \A b \in Bases : Covered(b)' BY <1>1, <1>5, <2>1, LegsHold
  <2>3. LiveTypes' BY <1>1, <1>5 DEF Legs, LiveTypes
  <2>4. \A j \in Ids : LegState(j)'
    BY <1>1, <1>2, <1>3, <1>5 DEF Legs, LiveTypes, LegState, Coin
  <2>5. QED BY <2>2, <2>3, <2>4 DEF Legs
<1>6. CASE Fill(i) /\ Enters(i, "alo") /\ UNCHANGED lost
  <2>1. Holds(i)' BY <1>6 DEF Holds, Legs, LiveTypes
  <2>2. ~Holds(i) BY <1>1, <1>3 DEF Holds
  <2>3. \A b \in Bases : Covered(b)' BY <1>1, <1>2, <1>4, <1>6, <2>1, <2>2, LegStarts
  <2>4. LiveTypes' BY <1>1, <1>2, <1>6, RealTypes DEF Legs, LiveTypes
  <2>5. \A j \in Ids : LegState(j)'
    BY <1>1, <1>2, <1>3, <1>6 DEF Legs, LiveTypes, LegState, Coin
  <2>6. QED BY <2>3, <2>4, <2>5 DEF Legs
<1>7. CASE Fill(i) /\ Enters(i, "done") /\ Lost({Coin(i)})
  <2>1. \A b \in Bases : Covered(b)' BY <1>1, <1>2, <1>4, <1>7, RealTypes, LegLost
  <2>2. LiveTypes' BY <1>1, <1>2, <1>7, RealTypes DEF Legs, LiveTypes
  <2>3. \A j \in Ids : LegState(j)'
    BY <1>1, <1>2, <1>3, <1>7 DEF Legs, LiveTypes, LegState, Coin
  <2>4. QED BY <2>1, <2>2, <2>3 DEF Legs
<1>8. QED BY <1>5, <1>6, <1>7 DEF EntryIoc

\* The maker exit: it rests or fills at once, and the paper exit will find it;
\* refused, or resting without an answer, it is an accident.
LEMMA PlaceExitStep ==
  ASSUME HlConstantsOK, Legs, NEW i \in Ids, PlaceExit(i)
  PROVE  Legs'
<1> USE DEF Enters, Lost
<1>1. /\ entering[i] = "alo" /\ entering' = [entering EXCEPT ![i] = "done"]
      /\ UNCHANGED <<entered, exits, leg, leaving, loss, busy, look>>
  BY DEF PlaceExit, vars, cache
<1>2. leg[i] # None /\ Coin(i) \in Bases BY <1>1, LegOf
<1>3. i \notin pending /\ i \notin resting /\ leaving[i] = "none"
  BY <1>1 DEF Legs, LegState
<1>4. Holds(i) BY <1>1 DEF Holds
<1>5. \A j \in Ids : j # i /\ (j \in resting' <=> j \in resting) => (Holds(j)' <=> Holds(j))
  BY <1>1 DEF Holds, Legs, LiveTypes
<1>6. CASE /\ pending' = pending \union {i} /\ resting' = resting \union {i}
           /\ UNCHANGED <<real, lost>>
  <2>1. \A j \in Ids : Holds(j) => Holds(j)' BY <1>5, <1>6 DEF Holds
  <2>2. \A b \in Bases : Covered(b)' BY <1>1, <1>6, <2>1, LegsHold
  <2>3. LiveTypes' BY <1>1, <1>6 DEF Legs, LiveTypes
  <2>4. \A j \in Ids : LegState(j)'
    BY <1>1, <1>2, <1>3, <1>6 DEF Legs, LiveTypes, LegState, Coin
  <2>5. QED BY <2>2, <2>3, <2>4 DEF Legs
<1>7. CASE /\ pending' = pending \union {i} /\ Reduce(i) /\ UNCHANGED <<resting, lost>>
  <2>1. ~Holds(i)' BY <1>1, <1>3, <1>7 DEF Holds, Legs, LiveTypes
  <2>2. \A b \in Bases : Covered(b)'
    BY <1>1, <1>2, <1>4, <1>5, <1>7, <2>1, LegEnds
  <2>3. LiveTypes' BY <1>1, <1>2, <1>7, RealTypes DEF Legs, LiveTypes
  <2>4. \A j \in Ids : LegState(j)'
    BY <1>1, <1>2, <1>3, <1>7 DEF Legs, LiveTypes, LegState, Coin
  <2>5. QED BY <2>2, <2>3, <2>4 DEF Legs
<1>8. CASE /\ lost' = lost \union {Coin(i)} /\ UNCHANGED <<real, pending>>
           /\ resting' = resting \/ resting' = resting \union {i}
  <2>1. \A b \in Bases : Covered(b)' BY <1>1, <1>2, <1>5, <1>8, LegLost
  <2>2. LiveTypes' BY <1>1, <1>2, <1>8 DEF Legs, LiveTypes
  <2>3. \A j \in Ids : LegState(j)'
    BY <1>1, <1>2, <1>3, <1>8 DEF Legs, LiveTypes, LegState, Coin
  <2>4. QED BY <2>1, <2>2, <2>3 DEF Legs
<1>9. QED BY <1>6, <1>7, <1>8 DEF PlaceExit

\* The maker exit fills, or is dropped when there is nothing to reduce.
LEMMA MakerFillStep ==
  ASSUME HlConstantsOK, Legs, NEW i \in Ids, MakerFill(i)
  PROVE  Legs'
<1>1. /\ i \in resting /\ resting' = resting \ {i} /\ Reduce(i)
      /\ UNCHANGED <<entered, exits, leg, entering, leaving, pending, loss, busy, look, lost>>
  BY DEF MakerFill, vars, tasks, cache
<1>2. leg[i] # None /\ Coin(i) \in Bases BY <1>1, LegOf
<1>3. entering[i] = "done" /\ leaving[i] # "ioc" BY <1>1 DEF Legs, LegState
<1>4. Holds(i) /\ ~Holds(i)' BY <1>1, <1>3 DEF Holds
<1>5. \A j \in Ids : j # i => (Holds(j)' <=> Holds(j)) BY <1>1 DEF Holds
<1>6. \A b \in Bases : Covered(b)' BY <1>1, <1>2, <1>4, <1>5, LegEnds
<1>7. LiveTypes' BY <1>1, <1>2, RealTypes DEF Legs, LiveTypes
<1>8. \A j \in Ids : LegState(j)' BY <1>1 DEF Legs, LegState, Coin
<1>9. QED BY <1>6, <1>7, <1>8 DEF Legs

\* The cancel of the maker exit: done, too late, or failed.
LEMMA CancelExitStep ==
  ASSUME HlConstantsOK, Legs, NEW i \in Ids, CancelExit(i)
  PROVE  Legs'
<1> USE DEF Leaves, Lost
<1>1. /\ leaving[i] = "cancel"
      /\ UNCHANGED <<entered, exits, leg, entering, pending, loss, busy, look, real>>
  BY DEF CancelExit, vars, cache
<1>2. leg[i] # None /\ Coin(i) \in Bases BY <1>1, LegOf
<1>3. entering[i] = "done" /\ i \notin pending /\ exits[i] = 1
  BY <1>1 DEF Legs, LegState
<1>4. \A j \in Ids : /\ j # i /\ (j \in resting' <=> j \in resting)
                     /\ \E at \in {"ioc", "done"} : leaving' = [leaving EXCEPT ![i] = at]
                     => (Holds(j)' <=> Holds(j))
  BY <1>1 DEF Holds, Legs, LiveTypes
<1>5. CASE resting' = resting \ {i} /\ Leaves(i, "ioc") /\ UNCHANGED lost
  <2>1. Holds(i)' BY <1>5 DEF Holds, Legs, LiveTypes
  <2>2. \A j \in Ids : Holds(j) => Holds(j)' BY <1>4, <1>5, <2>1
  <2>3. \A b \in Bases : Covered(b)' BY <1>1, <1>5, <2>2, LegsHold
  <2>4. LiveTypes' BY <1>1, <1>5 DEF Legs, LiveTypes
  <2>5. \A j \in Ids : LegState(j)'
    BY <1>1, <1>2, <1>3, <1>5 DEF Legs, LiveTypes, LegState, Coin
  <2>6. QED BY <2>3, <2>4, <2>5 DEF Legs
<1>6. CASE i \notin resting /\ Leaves(i, "done") /\ UNCHANGED <<resting, lost>>
  <2>1. ~Holds(i) BY <1>1, <1>3, <1>6 DEF Holds
  <2>2. \A j \in Ids : Holds(j) => Holds(j)' BY <1>4, <1>6, <2>1
  <2>3. \A b \in Bases : Covered(b)' BY <1>1, <1>6, <2>2, LegsHold
  <2>4. LiveTypes' BY <1>1, <1>6 DEF Legs, LiveTypes
  <2>5. \A j \in Ids : LegState(j)'
    BY <1>1, <1>2, <1>3, <1>6 DEF Legs, LiveTypes, LegState, Coin
  <2>6. QED BY <2>3, <2>4, <2>5 DEF Legs
<1>7. CASE /\ resting' \in {resting, resting \ {i}} /\ Leaves(i, "done")
           /\ Lost({Coin(i)})
  <2>1. \A j \in Ids : j # i => (j \in resting' <=> j \in resting) BY <1>7
  <2>2. \A j \in Ids : j # i => (Holds(j)' <=> Holds(j)) BY <1>4, <1>7, <2>1
  <2>3. \A b \in Bases : Covered(b)' BY <1>1, <1>2, <1>7, <2>2, LegLost
  <2>4. LiveTypes' BY <1>1, <1>2, <1>7 DEF Legs, LiveTypes
  <2>5. \A j \in Ids : LegState(j)'
    BY <1>1, <1>2, <1>3, <1>7 DEF Legs, LiveTypes, LegState, Coin
  <2>6. QED BY <2>3, <2>4, <2>5 DEF Legs
<1>8. QED BY <1>5, <1>6, <1>7 DEF CancelExit

\* The closing IOC: it reduces what there is, or is refused.
LEMMA CloseIocStep ==
  ASSUME HlConstantsOK, Legs, NEW i \in Ids, CloseIoc(i)
  PROVE  Legs'
<1> USE DEF Leaves, Lost
<1>1. /\ leaving[i] = "ioc" /\ leaving' = [leaving EXCEPT ![i] = "done"]
      /\ UNCHANGED <<entered, exits, leg, entering, pending, loss, busy, look, resting>>
  BY DEF CloseIoc, vars, cache
<1>2. leg[i] # None /\ Coin(i) \in Bases BY <1>1, LegOf
<1>3. entering[i] = "done" /\ i \notin pending /\ exits[i] = 1 /\ i \notin resting
  BY <1>1 DEF Legs, LegState
<1>4. Holds(i) /\ ~Holds(i)' BY <1>1, <1>3 DEF Holds, Legs, LiveTypes
<1>5. \A j \in Ids : j # i => (Holds(j)' <=> Holds(j))
  BY <1>1 DEF Holds, Legs, LiveTypes
<1>6. CASE Reduce(i) /\ UNCHANGED lost
  <2>1. \A b \in Bases : Covered(b)' BY <1>1, <1>2, <1>4, <1>5, <1>6, LegEnds
  <2>2. LiveTypes' BY <1>1, <1>2, <1>6, RealTypes DEF Legs, LiveTypes
  <2>3. \A j \in Ids : LegState(j)'
    BY <1>1, <1>3, <1>6 DEF Legs, LiveTypes, LegState, Coin
  <2>4. QED BY <2>1, <2>2, <2>3 DEF Legs
<1>7. CASE Lost({Coin(i)}) /\ UNCHANGED real
  <2>1. \A b \in Bases : Covered(b)' BY <1>1, <1>2, <1>5, <1>7, LegLost
  <2>2. LiveTypes' BY <1>1, <1>2, <1>7 DEF Legs, LiveTypes
  <2>3. \A j \in Ids : LegState(j)'
    BY <1>1, <1>3, <1>7 DEF Legs, LiveTypes, LegState, Coin
  <2>4. QED BY <2>1, <2>2, <2>3 DEF Legs
<1>8. QED BY <1>6, <1>7 DEF CloseIoc

\* The cache of the account has no part in what the legs hold.
LEMMA CacheStep ==
  ASSUME HlConstantsOK, Legs, LookPositions \/ LookOrders \/ LookFails
  PROVE  Legs'
<1>1. UNCHANGED <<entered, exits, leg, entering, leaving, pending, loss, real, resting, lost>>
  BY DEF LookPositions, LookOrders, LookFails, vars, tasks, account
<1>2. \A j \in Ids : Holds(j) => Holds(j)' BY <1>1 DEF Holds
<1>3. \A b \in Bases : Covered(b)' BY <1>1, <1>2, LegsHold
<1>4. \A j \in Ids : LegState(j)' BY <1>1 DEF Legs, LegState, Coin
<1>5. BasesOf(resting) \subseteq Bases
  <2>1. \A i \in resting : Coin(i) \in Bases BY LegOf DEF Legs, LiveTypes
  <2>2. QED BY <2>1 DEF BasesOf
<1>6. LiveTypes'
  <2>1. CASE LookPositions
    <3>1. look' = [coins |-> {b \in Bases : real[b] # 0}] /\ UNCHANGED busy
      BY <2>1 DEF LookPositions
    <3>2. look'.coins \subseteq Bases BY <3>1
    <3>3. QED BY <1>1, <3>1, <3>2 DEF Legs, LiveTypes
  <2>2. CASE LookOrders
    BY <1>1, <1>5, <2>2 DEF LookOrders, Legs, LiveTypes
  <2>3. CASE LookFails
    BY <1>1, <2>3 DEF LookFails, Legs, LiveTypes
  <2>4. QED BY <2>1, <2>2, <2>3
<1>7. QED BY <1>3, <1>4, <1>6 DEF Legs

\* The paper strategy moves on without firing anything.
LEMMA PaperStep ==
  ASSUME HlConstantsOK, Legs, UNCHANGED live, UNCHANGED exits, entered \subseteq entered'
  PROVE  Legs'
<1> USE DEF live, tasks, cache, account
<1>1. \A j \in Ids : Holds(j) => Holds(j)' BY DEF Holds
<1>2. \A b \in Bases : Covered(b)' BY <1>1, LegsHold
<1>3. LiveTypes' BY DEF Legs, LiveTypes
<1>4. \A j \in Ids : LegState(j)' BY DEF Legs, LegState, Coin
<1>5. QED BY <1>2, <1>3, <1>4 DEF Legs

\* A paper entry has an id that no leg has yet; the entry is fired for it, or the
\* coin is busy.
LEMMA FireEntryStep ==
  ASSUME HlConstantsOK, SpreadInv, SpreadInv', Legs, HOnTickEnters
  PROVE  Legs'
<1>1. OnTick /\ entered' # entered /\ UNCHANGED exits
  BY DEF HOnTickEnters, OnTick
<1>2. PICK p \in open' \ open : FireEntry(p) BY DEF HOnTickEnters
<1>3. /\ entered' = entered \union {next_id} /\ next_id \notin entered
      /\ p.id = next_id /\ p \in PosIds
  <2> DEFINE b == tick.base
             f == quote'[b].flipster
             side == WantSide(f - quote'[b].binance, tick.baseline)
             left == open \ Exits(b, f)
             rev == Reversed({r \in left : r.base = b}, side)
  <2>1. Enter(b, side, left \ rev) BY <1>1 DEF OnTick, NoBaseline, Decide
  <2> HIDE DEF side, rev
  <2>2. /\ entered' = entered \union {next_id} /\ p.id = next_id
        /\ next_id <= MaxPosId
    BY <1>1, <1>2, <2>1 DEF Enter
  <2>3. next_id \notin entered BY DEF SpreadInv, Signals
  <2>4. p \in PosIds BY <1>2 DEF SpreadInv, Positions
  <2>5. QED BY <2>2, <2>3, <2>4
<1>4. p.id \in Ids /\ p.base \in Bases /\ p.side \in {1, -1} BY <1>3 DEF PosIds
<1>5. CASE UNCHANGED live BY <1>1, <1>3, <1>5, PaperStep
<1>6. CASE /\ leg' = [leg EXCEPT ![p.id] = [base |-> p.base, side |-> p.side]]
           /\ entering' = [entering EXCEPT ![p.id] = "ioc"]
           /\ UNCHANGED <<leaving, pending, loss, cache, account, lost>>
  <2> USE DEF cache, account
  <2>1. leg[p.id] = None BY <1>3, <1>4 DEF Legs, LegState
  <2>2. \A j \in Ids : leg[j] # None => leg'[j] = leg[j]
    BY <1>4, <1>6, <2>1 DEF Legs, LiveTypes
  <2>3. ~Holds(p.id) BY <1>4, <2>1 DEF Holds, Legs, LegState
  <2>4. \A j \in Ids : Holds(j) => Holds(j)'
    BY <1>6, <2>3 DEF Holds, Legs, LiveTypes
  <2>5. \A b \in Bases : Covered(b)' BY <1>6, <2>2, <2>4, LegsHold
  <2>6. LiveTypes' BY <1>4, <1>6 DEF Legs, LiveTypes
  <2>7. \A j \in Ids : LegState(j)'
    <3> SUFFICES ASSUME NEW j \in Ids PROVE LegState(j)'
      OBVIOUS
    <3>1. CASE j = p.id
      <4>1. /\ entering[j] = "none" /\ j \notin pending /\ j \notin resting
            /\ leaving[j] = "none"
        BY <2>1, <3>1 DEF Legs, LegState
      <4>2. exits[j] = 0
        BY <1>3, <1>4, <3>1 DEF SpreadInv, Signals
      <4>3. j \in entered' /\ leg'[j] # None /\ entering'[j] = "ioc"
        BY <1>3, <1>6, <3>1 DEF Legs, LiveTypes, None
      <4>4. QED BY <1>1, <1>6, <4>1, <4>2, <4>3 DEF LegState
    <3>2. CASE j # p.id
      BY <1>1, <1>3, <1>6, <3>2 DEF Legs, LiveTypes, LegState, Coin
    <3>3. QED BY <3>1, <3>2
  <2>8. QED BY <2>5, <2>6, <2>7 DEF Legs
<1>7. QED BY <1>2, <1>5, <1>6 DEF FireEntry

\* The paper exit takes the maker exit out of the map, or comes before it is there.
LEMMA FireCloseStep ==
  ASSUME HlConstantsOK, SpreadInv, Legs,
         NEW t \in Tasks, NEW down \in {0, 1}, HLogClose(t, down)
  PROVE  Legs'
<1>1. PICK h : h = Head(closing[t]) OBVIOUS
<1>2. /\ closing[t] # <<>> /\ exits' = [exits EXCEPT ![h] = @ + 1]
      /\ FireClose(h) /\ loss' = (IF killed THEN loss ELSE loss + down)
      /\ UNCHANGED <<entered, leg, entering, busy, look, real, resting>>
  BY <1>1 DEF HLogClose, LogClose, cache, account
<1>3. closing[t] \in Seq(Ids) /\ IsInjective(closing[t]) BY DEF SpreadInv, Signals
<1>4. h \in Ids /\ h \in ToSet(closing[t]) BY <1>1, <1>2, <1>3, HeadLeaves
<1>5. exits[h] = 0 /\ exits \in [Ids -> 0..1] BY <1>4 DEF SpreadInv, Signals
<1>6. exits'[h] = 1 /\ \A j \in Ids : j # h => exits'[j] = exits[j]
  BY <1>2, <1>4, <1>5
<1>7. leaving[h] = "none" BY <1>4, <1>5 DEF Legs, LegState
<1>8. /\ pending' = pending \ {h} /\ leaving' \in [Ids -> {"none", "cancel", "ioc", "done"}]
      /\ leaving'[h] = (IF h \in pending THEN "cancel" ELSE "none")
      /\ \A j \in Ids : j # h => leaving'[j] = leaving[j]
      /\ lost' = lost \union (IF entering[h] \in {"ioc", "alo"} THEN {Coin(h)} ELSE {})
  BY <1>2, <1>4, <1>7 DEF FireClose, Legs, LiveTypes
<1>9. \A j \in Ids : Holds(j) => Holds(j)' BY <1>2, <1>7, <1>8 DEF Holds
<1>10. \A b \in Bases : Covered(b)' BY <1>2, <1>8, <1>9, LegsHold
<1>11. LiveTypes'
  <2>1. entering[h] \in {"ioc", "alo"} => Coin(h) \in Bases BY <1>4, LegOf
  <2>2. loss' \in 0..LossCap BY <1>2 DEF Legs, LiveTypes, killed, HlConstantsOK
  <2>3. QED BY <1>2, <1>8, <2>1, <2>2 DEF Legs, LiveTypes
<1>12. \A j \in Ids : LegState(j)'
  <2> SUFFICES ASSUME NEW j \in Ids PROVE LegState(j)'
    OBVIOUS
  <2>1. CASE j = h
    BY <1>2, <1>6, <1>7, <1>8, <2>1 DEF Legs, LiveTypes, LegState, Coin
  <2>2. CASE j # h
    BY <1>2, <1>6, <1>8, <2>2 DEF Legs, LiveTypes, LegState, Coin
  <2>3. QED BY <2>1, <2>2
<1>13. QED BY <1>10, <1>11, <1>12 DEF Legs

\* The live strategy takes the steps of the paper strategy.
LEMMA PaperHalf == [HNext]_hvars => [Next]_vars
BY DEF HNext, HRefresh, HAge, HOnTick, HOnTickEnters, HSweepExits, HExpire,
       HReadBaseline, HLogClose, EntryIoc, PlaceExit, MakerFill, CancelExit, CloseIoc,
       LookPositions, LookOrders, LookFails, hvars, Next

\* Every step of the paper strategy and of the legs keeps both invariants.
LEMMA LegsStep ==
  ASSUME HlConstantsOK, SpreadInv, Legs, [HNext]_hvars
  PROVE  SpreadInv' /\ Legs'
<1>1. SpreadInv' BY PaperHalf, SpreadStep DEF HlConstantsOK
<1>2. CASE /\ UNCHANGED live
           /\ Refresh \/ Age \/ OnTick \/ SweepExits \/ UNCHANGED vars
              \/ \E b \in Bases, v \in Venues :
                    Expire(b, v) \/ \E price \in Prices : ReadBaseline(b, v, price)
  <2>1. UNCHANGED exits
    BY <1>2 DEF Refresh, Age, OnTick, SweepExits, Expire, ReadBaseline, vars
  <2>2. entered \subseteq entered'
    BY <1>2 DEF Refresh, Age, OnTick, SweepExits, Expire, ReadBaseline, vars,
                NoBaseline, Decide, Enter
  <2>3. QED BY <1>1, <1>2, <2>1, <2>2, PaperStep
<1>3. CASE HOnTickEnters BY <1>1, <1>3, FireEntryStep
<1>4. ASSUME NEW t \in Tasks, NEW down \in {0, 1}, HLogClose(t, down) PROVE Legs'
  BY <1>4, FireCloseStep
<1>5. ASSUME NEW i \in Ids,
             EntryIoc(i) \/ PlaceExit(i) \/ MakerFill(i) \/ CancelExit(i) \/ CloseIoc(i)
      PROVE  Legs'
  BY <1>5, EntryIocStep, PlaceExitStep, MakerFillStep, CancelExitStep, CloseIocStep
<1>6. CASE LookPositions \/ LookOrders \/ LookFails BY <1>1, <1>6, CacheStep
<1>7. QED
  BY <1>1, <1>2, <1>3, <1>4, <1>5, <1>6
  DEF HNext, HRefresh, HAge, HOnTick, HSweepExits, HExpire, HReadBaseline, hvars

\* Initially there are no legs and no position on the venue.
LEMMA LegsInit == HlConstantsOK /\ HInit => Legs
<1> SUFFICES ASSUME HlConstantsOK, HInit PROVE Legs
  OBVIOUS
<1>1. LiveInit BY DEF HInit
<1>2. LiveTypes BY <1>1 DEF LiveInit, LiveTypes, HlConstantsOK
<1>3. \A i \in Ids : LegState(i) BY <1>1 DEF LiveInit, LegState
<1>4. \A b \in Bases, s \in {1, -1} : Cardinality(Holders(b, s)) \in Nat
  BY HoldersCount DEF HlConstantsOK
<1>5. \A b \in Bases : real[b] = 0 BY <1>1 DEF LiveInit
<1>6. \A b \in Bases : Covered(b) BY <1>4, <1>5 DEF Covered
<1>7. QED BY <1>2, <1>3, <1>6 DEF Legs

\* Both invariants hold of the live strategy.
LEMMA LegsCorrect == HlConstantsOK /\ HSpec => [](SpreadInv /\ Legs)
<1> SUFFICES ASSUME HlConstantsOK PROVE HSpec => [](SpreadInv /\ Legs)
  OBVIOUS
<1>1. HInit => SpreadInv BY SpreadInit DEF HInit, HlConstantsOK
<1>2. HInit => Legs BY LegsInit
<1>3. SpreadInv /\ Legs /\ [HNext]_hvars => (SpreadInv /\ Legs)' BY LegsStep
<1>4. QED BY <1>1, <1>2, <1>3, PTL DEF HSpec

\* A position of the account that no task attends to any more had an accident: the
\* holders of a coin are legs with a task to come, and the position is no larger
\* than what they may hold.
LEMMA Attention == HlConstantsOK /\ Legs => NoSilentLive
<1> SUFFICES ASSUME HlConstantsOK, Legs, NEW b \in Bases, Attended(b) = {}, b \notin lost,
                    \A i \in IdsOf(dropped) : leg[i] # None => Coin(i) # b
             PROVE  real[b] = 0
  BY DEF NoSilentLive
<1>1. \A s \in {1, -1} : Holders(b, s) = {}
  <2> SUFFICES ASSUME NEW i \in Ids, leg[i] # None, leg[i].base = b, Holds(i)
               PROVE  i \in Attended(b)
    BY DEF Holders
  <2>1. Coin(i) = b BY DEF Coin
  <2>2. CASE entering[i] = "alo" BY <2>1, <2>2 DEF Attended
  <2>3. CASE leaving[i] = "ioc" BY <2>1, <2>3 DEF Attended
  <2>4. CASE i \in resting BY <2>1, <2>4 DEF Legs, LegState, Attended, Coin
  <2>5. QED BY <2>2, <2>3, <2>4 DEF Holds
<1>2. Cardinality(Holders(b, 1)) = 0 /\ Cardinality(Holders(b, -1)) = 0
  BY <1>1, FS_EmptySet
<1>3. real[b] <= 0 /\ -real[b] <= 0 /\ real[b] \in Int
  BY <1>2 DEF Legs, LiveTypes, Covered
<1>4. QED BY <1>3

\* However paper exits overtake live entries and maker fills race their cancels, for
\* any number of stacked legs: a position on the venue that nobody attends to any
\* more is left only on a coin that had one of the known accidents, or whose paper exit
\* was dropped by a tick without a baseline.
THEOREM NoSilentLiveCorrect == HlConstantsOK /\ HSpec => []NoSilentLive
<1> SUFFICES ASSUME HlConstantsOK PROVE HSpec => []NoSilentLive
  OBVIOUS
<1>1. Legs => NoSilentLive BY Attention
<1>2. QED BY <1>1, LegsCorrect, PTL

\* The live strategy is the paper strategy, whatever its legs do: the caps, the exits
\* and the ledger carry over.
THEOREM LiveIsSpreadRevert == HSpec => Spec
<1>1. HInit => Init BY DEF HInit
<1>2. [HNext]_hvars => [Next]_vars BY PaperHalf
<1>3. QED BY <1>1, <1>2, PTL DEF HSpec, Spec

\* Traded on Hyperliquid, the caps and the exits are those of the paper strategy.
THEOREM LiveKeepsPaper ==
  HlConstantsOK /\ HSpec => [](CapsHold /\ OneSidePerBase /\ ExitOnce)
<1>1. HlConstantsOK => ConstantsOK BY DEF HlConstantsOK
<1>2. QED
  BY <1>1, LiveIsSpreadRevert, CapsHoldCorrect, OneSidePerBaseCorrect, ExitOnceCorrect, PTL

\* The variables of both halves keep their types.
THEOREM LiveTypesCorrect == HlConstantsOK /\ HSpec => []HTypeOK
<1>1. HlConstantsOK => ConstantsOK BY DEF HlConstantsOK
<1>2. TypeOK /\ Legs => HTypeOK BY DEF HTypeOK, Legs, LiveTypes
<1>3. QED BY <1>1, <1>2, LiveIsSpreadRevert, SpreadTypes, LegsCorrect, PTL
===============================================================================
