---------------------------- MODULE GateLeadProofs ----------------------------
(***************************************************************************)
(* The lead strategy, for any bases, prices, delays, filters and           *)
(* deadlines: one exit of a position after its entry although the tick     *)
(* loop and the sweeper race, the ledger the signals implement, the        *)
(* cooldown after a stop, and that on one base a position is signalled     *)
(* closed before the next is opened; then the same with the fill reports   *)
(* of BingxLead, and what they set.                                        *)
(***************************************************************************)
EXTENDS BingxLead, FiniteSetTheorems, SequenceTheorems, WellFoundedInduction, TLAPS

-----------------------------------------------------------------------------
(* Sets of ids and the queues they are put in                              *)

\* A set is queued once over: each member once, and nothing else.
LEMMA Queued ==
  ASSUME NEW S, IsFiniteSet(S)
  PROVE  /\ SetToSeq(S) \in Seq(S)
         /\ ToSet(SetToSeq(S)) = S
         /\ IsInjective(SetToSeq(S))
<1> DEFINE n == Cardinality(S)
<1>1. n \in Nat /\ ExistsBijection(1..n, S) BY FS_CardinalityType
<1>2. PICK f \in Bijection(1..n, S) : TRUE BY <1>1 DEF ExistsBijection
<1>3. f \in [1..n -> S] /\ IsInjective(f)
  BY <1>2 DEF Bijection, Injection
<1>4. SetToSeq(S) \in [1..n -> S] /\ IsInjective(SetToSeq(S))
  BY <1>3 DEF SetToSeq
<1> DEFINE q == SetToSeq(S)
<1>5. q \in Seq(S) /\ DOMAIN q = 1..n BY <1>1, <1>4
<1>6. q \in Injection(1..n, S) BY <1>4 DEF Injection
<1>7. IsFiniteSet(1..n) /\ Cardinality(1..n) = n BY <1>1, FS_Interval
<1>8. q \in Surjection(1..n, S) BY <1>6, <1>7, FS_Injection
<1>9. S = {q[i] : i \in 1..n} BY <1>8, <1>4 DEF Surjection
<1>10. QED BY <1>4, <1>5, <1>9 DEF ToSet

\* Of a queue that holds each id once, the head leaves and the others stay.
LEMMA HeadLeaves ==
  ASSUME NEW X, NEW s \in Seq(X), s # <<>>, IsInjective(s)
  PROVE  /\ Head(s) \in ToSet(s) /\ Head(s) \in X /\ Tail(s) \in Seq(X)
         /\ ToSet(Tail(s)) = ToSet(s) \ {Head(s)}
         /\ IsInjective(Tail(s))
<1>1. /\ Len(s) \in Nat \ {0} /\ DOMAIN s = 1..Len(s) /\ Head(s) = s[1]
      /\ Tail(s) \in Seq(X) /\ Len(Tail(s)) = Len(s) - 1
      /\ DOMAIN Tail(s) = 1..(Len(s) - 1)
      /\ \A i \in 1..(Len(s) - 1) : Tail(s)[i] = s[i + 1]
  OBVIOUS
<1>2. Head(s) \in ToSet(s) /\ Head(s) \in X BY <1>1 DEF ToSet
<1>3. IsInjective(Tail(s)) BY <1>1 DEF IsInjective
<1>4. \A i \in 1..(Len(s) - 1) : s[i + 1] # s[1] BY <1>1 DEF IsInjective
<1>5. ToSet(Tail(s)) \subseteq ToSet(s) \ {Head(s)} BY <1>1, <1>4 DEF ToSet
<1>6. ASSUME NEW x \in ToSet(s) \ {Head(s)} PROVE x \in ToSet(Tail(s))
  <2>1. PICK i \in 1..Len(s) : x = s[i] BY <1>1, <1>6 DEF ToSet
  <2>2. i - 1 \in 1..(Len(s) - 1) /\ Tail(s)[i - 1] = x BY <1>1, <1>6, <2>1
  <2>3. QED BY <1>1, <2>2 DEF ToSet
<1>7. QED BY <1>1, <1>2, <1>3, <1>5, <1>6

-----------------------------------------------------------------------------
(* Ages and histories                                                      *)

\* A nonempty set of natural numbers has a least member.
LEMMA LeastExists ==
  ASSUME NEW S \in SUBSET Nat, S # {}
  PROVE  \E x \in S : \A y \in S : x <= y
<1>1. PICK x \in S : \A y \in S : ~ (<<y, x>> \in OpToRel(<, Nat))
  BY NatLessThanWellFounded, WFMin
<1>2. \A y \in S : ~ (y < x) BY <1>1 DEF OpToRel
<1>3. QED BY <1>2

\* A nonempty finite set of natural numbers has a greatest one.
LEMMA GreatestExists ==
  ASSUME NEW S \in SUBSET Nat, IsFiniteSet(S), S # {}
  PROVE  \E x \in S : \A y \in S : y <= x
<1> DEFINE n == Cardinality(S)
<1>1. n \in Nat /\ ExistsBijection(1..n, S) BY FS_CardinalityType
<1>2. PICK f \in Bijection(1..n, S) : TRUE BY <1>1 DEF ExistsBijection
<1>3. f \in [1..n -> S] /\ \A y \in S : \E i \in 1..n : f[i] = y
  BY <1>2 DEF Bijection, Surjection
<1> HIDE DEF n
<1> DEFINE Tops(k) == {x \in S : \A i \in 1..n : i <= k => f[i] <= x}
           Bad == {k \in 1..n : Tops(k) = {}}
<1>4. Bad = {}
  <2> SUFFICES ASSUME Bad # {} PROVE FALSE
    OBVIOUS
  <2>0. Bad \in SUBSET Nat BY <1>1
  <2>1. PICK k \in Bad : \A m \in Bad : k <= m
    <3> HIDE DEF Bad
    <3>1. QED BY <2>0, LeastExists
  <2>2. k \in 1..n /\ Tops(k) = {} BY <2>1
  <2>3. f[k] \in S /\ f[k] \in Nat BY <1>3, <2>2
  <2>4. CASE k = 1
    <3>1. \A i \in 1..n : i <= k => i = 1 BY <1>1, <2>4
    <3>2. f[k] \in Tops(k) BY <2>3, <2>4, <3>1
    <3>3. QED BY <2>2, <3>2
  <2>5. CASE k # 1
    <3>0. k - 1 \in 1..n /\ ~ (k <= k - 1) BY <1>1, <2>2, <2>5
    <3>1. k - 1 \in 1..n /\ k - 1 \notin Bad
      <4> HIDE DEF Bad
      <4>1. QED BY <2>1, <3>0
    <3>2. PICK x \in Tops(k - 1) : TRUE BY <3>1
    <3>3. x \in S /\ x \in Nat /\ \A i \in 1..n : i <= k - 1 => f[i] <= x BY <3>2
    <3>4. \A i \in 1..n : i <= k => i <= k - 1 \/ i = k BY <1>1, <2>2
    <3>5. \A i \in 1..n : f[i] \in Nat BY <1>3
    <3>6. CASE f[k] <= x
      <4>1. x \in Tops(k) BY <3>3, <3>4, <3>6
      <4>2. QED BY <2>2, <4>1
    <3>7. CASE x < f[k]
      <4>1. f[k] \in Tops(k) BY <2>3, <3>3, <3>4, <3>5, <3>7
      <4>2. QED BY <2>2, <4>1
    <3>8. QED BY <2>3, <3>3, <3>6, <3>7
  <2>6. QED BY <2>4, <2>5
<1>5. n # 0
  <2>1. PICK y \in S : TRUE OBVIOUS
  <2>2. QED BY <1>3, <2>1
<1>6. n \in 1..n BY <1>1, <1>5
<1>7. PICK x \in Tops(n) : TRUE BY <1>4, <1>6
<1>8. QED BY <1>1, <1>3, <1>7

\* The latest delay, and where the ages are capped: an age that is cut off had
\* passed everything it is compared with.
LEMMA Caps ==
  ASSUME ConstantsOK
  PROVE  /\ Late \in Nat /\ \A d \in Delays : d \in Nat /\ d <= Late
         /\ {OldMid, OldFlip, OldQuote, OldHeld, OldEntry, OldStop} \subseteq Nat
         /\ Late <= OldMid /\ Late <= OldFlip /\ Late <= OldQuote /\ Late <= OldHeld
         /\ HoldMax + Late <= OldHeld /\ OldHeld <= OldEntry /\ Cooldown + Late <= OldEntry
         /\ OldHeld <= OldStop /\ OldStop = StopCooldown + OldHeld
<1>1. \E d \in Delays : \A e \in Delays : e <= d BY GreatestExists DEF ConstantsOK
<1>2. Late \in Delays /\ \A e \in Delays : e <= Late BY <1>1 DEF Late
<1>3. Late \in Nat /\ \A d \in Delays : d \in Nat /\ d <= Late
  BY <1>2 DEF ConstantsOK
<1> HIDE DEF Late
<1>4. /\ Anchor \in Nat /\ HoldMax \in Nat /\ Cooldown \in Nat /\ FreshFor \in Nat
      /\ VelWindow \in Nat /\ FlipKeep \in Nat /\ PreWindow \in Nat
      /\ StopCooldown \in Nat /\ Grace \in Nat
  BY DEF ConstantsOK
<1>5. OldMid \in Nat /\ Late <= OldMid BY <1>3, <1>4 DEF OldMid, Larger
<1>6. OldFlip \in Nat /\ Late <= OldFlip BY <1>3, <1>4 DEF OldFlip, Larger
<1>7. OldQuote \in Nat /\ Late <= OldQuote BY <1>3, <1>4 DEF OldQuote
<1>8. OldHeld \in Nat /\ Late <= OldHeld /\ HoldMax + Late <= OldHeld
  BY <1>3, <1>4 DEF OldHeld, Larger
<1> HIDE DEF OldHeld
<1>9. OldEntry \in Nat /\ OldHeld <= OldEntry /\ Cooldown + Late <= OldEntry
  BY <1>3, <1>4, <1>8 DEF OldEntry, Larger
<1>10. OldStop \in Nat /\ OldHeld <= OldStop /\ OldStop = StopCooldown + OldHeld
  BY <1>3, <1>4, <1>8 DEF OldStop
<1>11. QED BY <1>3, <1>5, <1>6, <1>7, <1>8, <1>9, <1>10

\* A tick enters a history, the oldest ticks leave it.
LEMMA PushType ==
  ASSUME NEW old \in Nat, NEW mids \in Seq(Mids(old)), NEW mid \in Prices,
         NEW d \in 0..old, NEW keep
  PROVE  Push(mids, mid, keep, d) \in Seq(Mids(old))
<1> DEFINE more == Append(mids, [mid |-> mid, age |-> d])
           young == {i \in 1..Len(more) : more[i].age - d <= keep}
<1>1. [mid |-> mid, age |-> d] \in Mids(old) BY DEF Mids
<1>2. more \in Seq(Mids(old)) /\ Len(more) \in Nat BY <1>1
<1>3. SelectInSeq(more, LAMBDA m : m.age - d <= keep) = IF young # {} THEN Min(young) ELSE 0
  BY DEF SelectInSeq
<1>4. young # {} => Min(young) \in 1..Len(more)
  <2>1. ASSUME young # {} PROVE \E x \in young : \A y \in young : x <= y
    <3>1. young \in SUBSET Nat BY <1>2
    <3> HIDE DEF young
    <3>2. QED BY <2>1, <3>1, LeastExists
  <2>2. young # {} => Min(young) \in young BY <2>1 DEF Min
  <2>3. QED BY <2>2
<1> HIDE DEF young
<1>5. Prune(more, keep, d) =
        IF young # {} THEN SubSeq(more, Min(young), Len(more)) ELSE <<>>
  BY <1>2, <1>3, <1>4 DEF Prune
<1> HIDE DEF more
<1>6. Prune(more, keep, d) \in Seq(Mids(old)) BY <1>2, <1>4, <1>5
<1>7. QED BY <1>6 DEF Push, more

\* A history ages.
LEMMA AgeMidsType ==
  ASSUME NEW old \in Nat, NEW mids \in Seq(Mids(old))
  PROVE  AgeMids(mids, old) \in Seq(Mids(old))
<1>1. Len(mids) \in Nat /\ \A i \in 1..Len(mids) : mids[i] \in Mids(old) OBVIOUS
<1>2. \A a \in 0..old : Older(a, old) \in 0..old BY DEF Older
<1>3. \A i \in 1..Len(mids) : [mids[i] EXCEPT !.age = Older(@, old)] \in Mids(old)
  BY <1>1, <1>2 DEF Mids
<1>4. AgeMids(mids, old) \in [1..Len(mids) -> Mids(old)] BY <1>3 DEF AgeMids
<1>5. QED BY <1>1, <1>4

-----------------------------------------------------------------------------
(* The shape of the state, and what each action does to it                 *)

Positions ==
    [id : Ids, side : {-1, 1}, held : 0..OldHeld, ref : Prices, lead : Prices]
BaseStates ==
    [gate_mids : Seq(Mids(OldMid)), flip_mids : Seq(Mids(OldFlip)),
     quote : {None} \union Mids(OldQuote), open : {None} \union Positions,
     entered : 0..OldEntry, stopped : 0..OldStop]

Shapes == state \in [Bases -> BaseStates] /\ closing \in [Tasks -> Seq(Ids)]

\* Ids handed out.
Numbered == next_id \in 1..(MaxPosId + 1) /\ entered = 1..(next_id - 1)

\* The pending ids: open, or in one of the queues.  Each is in one place.
Pending == OpenIds \union InClosing
OnePlace ==
    /\ \A a, b \in Bases :
          state[a].open # None /\ state[b].open # None
            /\ state[a].open.id = state[b].open.id => a = b
    /\ \A t \in Tasks : IsInjective(closing[t])
    /\ ToSet(closing["tick"]) \intersect ToSet(closing["sweep"]) = {}
    /\ OpenIds \intersect InClosing = {}

\* The leader's tick leaves everything but its history, or opens a position under
\* the next id.
LEMMA OnLeaderDoes ==
  ASSUME ConstantsOK, Shapes, Numbered,
         NEW b \in Bases, NEW mid \in Prices, NEW d \in Delays, OnLeader(b, mid, d)
  PROVE  /\ Shapes' /\ UNCHANGED <<closing, exits>>
         /\ \E s \in BaseStates :
              /\ state' = [state EXCEPT ![b] = s]
              /\ s.stopped = state[b].stopped
              /\ \/ /\ s.open = state[b].open /\ s.entered = state[b].entered
                    /\ UNCHANGED <<next_id, entered>>
                 \/ /\ state[b].open = None /\ closing["tick"] = <<>>
                    /\ state[b].entered - d >= Cooldown
                    /\ state[b].stopped - d >= StopCooldown
                    /\ s.open \in Positions /\ s.open.id = next_id /\ s.open.held = d
                    /\ s.entered = d
                    /\ next_id <= MaxPosId /\ next_id' = next_id + 1
                    /\ entered' = entered \union {next_id}
<1> DEFINE s == [state[b] EXCEPT !.gate_mids = Remember(@, mid, d)]
           side == Sign(mid - AnchorMid(s.gate_mids, d))
           o == [id |-> next_id, side |-> side, held |-> d, ref |-> s.quote.mid, lead |-> mid]
           e == [s EXCEPT !.open = o, !.entered = d]
<1>1. d \in Nat /\ d <= Late /\ Late \in Nat /\ d \in 0..OldMid /\ d \in 0..OldHeld
      /\ d \in 0..OldEntry /\ OldMid \in Nat
  BY Caps
<1>2. state[b] \in BaseStates BY DEF Shapes
<1>3. Remember(state[b].gate_mids, mid, d) \in Seq(Mids(OldMid))
  BY <1>1, <1>2, PushType DEF BaseStates, Remember
<1>4. /\ s \in BaseStates /\ s.open = state[b].open /\ s.quote = state[b].quote
      /\ s.entered = state[b].entered /\ s.stopped = state[b].stopped
  BY <1>2, <1>3 DEF BaseStates
<1>5. UNCHANGED <<closing, exits>> /\ closing["tick"] = <<>>
  BY DEF OnLeader, Accepted
<1>6. \/ Signals(s, mid, d) /\ next_id <= MaxPosId /\ Enter(b, s, mid, d)
      \/ state' = [state EXCEPT ![b] = s] /\ UNCHANGED <<next_id, entered>>
  BY DEF OnLeader
<1> HIDE DEF s
<1>7. CASE state' = [state EXCEPT ![b] = s] /\ UNCHANGED <<next_id, entered>>
  <2>1. Shapes' BY <1>4, <1>5, <1>7 DEF Shapes
  <2>2. QED BY <1>4, <1>5, <1>7, <2>1
<1>8. CASE Signals(s, mid, d) /\ next_id <= MaxPosId /\ Enter(b, s, mid, d)
  <2>1. s.open = None /\ s.entered - d >= Cooldown /\ s.stopped - d >= StopCooldown
        /\ s.quote # None
    BY <1>8 DEF Signals, Ready, Tradable
  <2>2. s.quote.mid \in Prices BY <1>4, <2>1 DEF BaseStates, Mids
  <2>3. side \in {-1, 1} BY DEF Sign
  <2>4. next_id \in Ids BY <1>8 DEF Numbered, Ids, ConstantsOK
  <2> HIDE DEF side
  <2>5. o \in Positions /\ o.id = next_id /\ o.held = d
    BY <1>1, <2>2, <2>3, <2>4 DEF Positions
  <2>6. state' = [state EXCEPT ![b] = e] /\ next_id' = next_id + 1
        /\ entered' = entered \union {next_id}
    BY <1>8 DEF Enter, side
  <2> HIDE DEF o
  <2>7. e \in BaseStates /\ e.open = o /\ e.entered = d /\ e.stopped = s.stopped
    BY <1>1, <1>4, <2>5 DEF BaseStates
  <2> HIDE DEF e
  <2>8. Shapes' BY <1>5, <2>6, <2>7 DEF Shapes
  <2>9. QED BY <1>4, <1>5, <1>8, <2>1, <2>5, <2>6, <2>7, <2>8
<1>9. QED BY <1>6, <1>7, <1>8

\* The follower's tick leaves the position as it is, or ends it and queues its exit.
LEMMA OnFollowerDoes ==
  ASSUME ConstantsOK, Shapes,
         NEW b \in Bases, NEW mid \in Prices, NEW d \in Delays, OnFollower(b, mid, d)
  PROVE  /\ Shapes' /\ UNCHANGED <<next_id, entered, exits>>
         /\ \E s \in BaseStates :
              /\ state' = [state EXCEPT ![b] = s]
              /\ s.entered = state[b].entered
              /\ \/ s.open = state[b].open /\ s.stopped = state[b].stopped
                    /\ UNCHANGED closing
                 \/ /\ state[b].open # None /\ s.open = None /\ closing["tick"] = <<>>
                    /\ closing' = [closing EXCEPT !["tick"] = <<state[b].open.id>>]
<1> DEFINE q == [mid |-> mid, age |-> d]
           s == [state[b] EXCEPT !.quote = q, !.flip_mids = Push(@, mid, FlipKeep, d)]
           reason == IF s.open = None THEN "" ELSE ExitReason(s.open, mid, d)
           e == Leave(s, reason, d)
<1>1. d \in Nat /\ d \in 0..OldFlip /\ d \in 0..OldQuote /\ d \in 0..OldStop
      /\ OldFlip \in Nat
  BY Caps
<1>2. state[b] \in BaseStates BY DEF Shapes
<1>3. Push(state[b].flip_mids, mid, FlipKeep, d) \in Seq(Mids(OldFlip))
  BY <1>1, <1>2, PushType DEF BaseStates
<1>4. q \in Mids(OldQuote) BY <1>1 DEF Mids
<1>5. /\ s \in BaseStates /\ s.open = state[b].open
      /\ s.entered = state[b].entered /\ s.stopped = state[b].stopped
  BY <1>2, <1>3, <1>4 DEF BaseStates
<1>6. UNCHANGED <<next_id, entered, exits>> /\ closing["tick"] = <<>>
  BY DEF OnFollower, Accepted
<1>7. IF reason = "" THEN state' = [state EXCEPT ![b] = s] /\ UNCHANGED closing
      ELSE /\ state' = [state EXCEPT ![b] = e]
           /\ closing' = [closing EXCEPT !["tick"] = Append(@, s.open.id)]
  BY DEF OnFollower
<1>8. s.open = None => reason = "" OBVIOUS
<1> HIDE DEF s, reason
<1>9. CASE reason = ""
  <2>1. Shapes' BY <1>5, <1>7, <1>9 DEF Shapes
  <2>2. QED BY <1>5, <1>6, <1>7, <1>9, <2>1
<1>10. CASE reason # ""
  <2>1. state[b].open # None BY <1>5, <1>8, <1>10
  <2>2. state[b].open.id \in Ids BY <1>2, <2>1 DEF BaseStates, Positions
  <2>3. e \in BaseStates /\ e.open = None /\ e.entered = s.entered
    <3>1. (IF reason = "stop" THEN d ELSE s.stopped) \in 0..OldStop
      BY <1>1, <1>5 DEF BaseStates
    <3>2. QED BY <1>5, <3>1 DEF BaseStates, Leave
  <2> HIDE DEF e
  <2>4. state' = [state EXCEPT ![b] = e] BY <1>7, <1>10
  <2>5. closing' = [closing EXCEPT !["tick"] = <<state[b].open.id>>]
    <3>1. closing' = [closing EXCEPT !["tick"] = Append(<<>>, s.open.id)]
      BY <1>6, <1>7, <1>10
    <3>2. QED BY <1>5, <3>1
  <2>6. Shapes'
    <3>1. <<state[b].open.id>> \in Seq(Ids) BY <2>2
    <3>2. QED BY <2>3, <2>4, <2>5, <3>1 DEF Shapes
  <2>7. QED BY <1>5, <1>6, <2>1, <2>3, <2>4, <2>5, <2>6
<1>11. QED BY <1>9, <1>10

\* The sweeper takes the positions of the expired bases and queues their exits.
LEMMA SweepDoes ==
  ASSUME ConstantsOK, Shapes, SweepExits
  PROVE  /\ Shapes' /\ UNCHANGED <<next_id, entered, exits>>
         /\ closing["sweep"] = <<>> /\ closing'["tick"] = closing["tick"]
         /\ ToSet(closing'["sweep"]) = {state[b].open.id : b \in {x \in Bases : Expired(x)}}
         /\ IsInjective(closing'["sweep"])
         /\ \A b \in Bases :
              /\ state'[b].entered = state[b].entered /\ state'[b].stopped = state[b].stopped
              /\ state'[b].open = IF Expired(b) THEN None ELSE state[b].open
<1> DEFINE S == {state[b].open.id : b \in {x \in Bases : Expired(x)}}
<1>1. S \subseteq Ids BY DEF Shapes, BaseStates, Positions, Expired
<1>2. IsFiniteSet(S)
  <2>1. IsFiniteSet(Ids) BY FS_Interval DEF Ids, ConstantsOK
  <2>2. QED BY <1>1, <2>1, FS_Subset
<1>3. /\ closing["sweep"] = <<>> /\ UNCHANGED <<next_id, entered, exits>>
      /\ closing' = [closing EXCEPT !["sweep"] = SetToSeq(S)]
      /\ state' = [b \in Bases |->
            IF Expired(b) THEN [state[b] EXCEPT !.open = None] ELSE state[b]]
  BY DEF SweepExits
<1> HIDE DEF S
<1>4. SetToSeq(S) \in Seq(Ids) /\ ToSet(SetToSeq(S)) = S /\ IsInjective(SetToSeq(S))
  BY <1>1, <1>2, Queued, SeqMonotonic
<1>5. closing' \in [Tasks -> Seq(Ids)] /\ closing'["sweep"] = SetToSeq(S)
      /\ closing'["tick"] = closing["tick"]
  BY <1>3, <1>4 DEF Shapes, Tasks
<1>6. \A b \in Bases : [state[b] EXCEPT !.open = None] \in BaseStates
  BY DEF Shapes, BaseStates
<1>7. state' \in [Bases -> BaseStates] BY <1>3, <1>6 DEF Shapes
<1>8. ASSUME NEW b \in Bases
      PROVE  /\ state'[b].entered = state[b].entered /\ state'[b].stopped = state[b].stopped
             /\ state'[b].open = IF Expired(b) THEN None ELSE state[b].open
  <2>1. state[b] \in BaseStates BY DEF Shapes
  <2>2. state'[b] = IF Expired(b) THEN [state[b] EXCEPT !.open = None] ELSE state[b]
    BY <1>3
  <2>3. QED BY <2>1, <2>2 DEF BaseStates
<1>9. QED BY <1>3, <1>4, <1>5, <1>7, <1>8 DEF Shapes, S

\* An exit signal goes out: the head leaves its queue.
LEMMA LogCloseDoes ==
  ASSUME Shapes, OnePlace, NEW t \in Tasks, LogClose(t)
  PROVE  /\ Shapes' /\ UNCHANGED <<state, next_id, entered>>
         /\ \E i \in Ids :
              /\ i \in ToSet(closing[t]) /\ exits' = [exits EXCEPT ![i] = @ + 1]
              /\ ToSet(closing'[t]) = ToSet(closing[t]) \ {i}
         /\ IsInjective(closing'[t])
         /\ \A u \in Tasks \ {t} : closing'[u] = closing[u]
         /\ closing[t] # <<>>
<1> DEFINE i == Head(closing[t])
<1>1. closing[t] # <<>> /\ UNCHANGED <<state, next_id, entered>>
      /\ exits' = [exits EXCEPT ![i] = @ + 1]
      /\ closing' = [closing EXCEPT ![t] = Tail(@)]
  BY DEF LogClose
<1>2. closing[t] \in Seq(Ids) /\ IsInjective(closing[t]) BY DEF Shapes, OnePlace
<1>3. /\ i \in ToSet(closing[t]) /\ i \in Ids /\ Tail(closing[t]) \in Seq(Ids)
      /\ ToSet(Tail(closing[t])) = ToSet(closing[t]) \ {i}
      /\ IsInjective(Tail(closing[t]))
  BY <1>1, <1>2, HeadLeaves
<1> HIDE DEF i
<1>4. closing' \in [Tasks -> Seq(Ids)] /\ closing'[t] = Tail(closing[t])
      /\ \A u \in Tasks \ {t} : closing'[u] = closing[u]
  BY <1>1, <1>3 DEF Shapes
<1>5. QED BY <1>1, <1>3, <1>4 DEF Shapes

\* Time passes: everything gets older, up to its cap, no position has expired and
\* the sweeper's exits are out.
LEMMA AgeDoes ==
  ASSUME ConstantsOK, Shapes, Age
  PROVE  /\ Shapes' /\ UNCHANGED <<closing, next_id, entered, exits>>
         /\ closing["sweep"] = <<>>
         /\ \A b \in Bases :
              /\ ~Expired(b)
              /\ state'[b].entered = Older(state[b].entered, OldEntry)
              /\ state'[b].stopped = Older(state[b].stopped, OldStop)
              /\ state'[b].open = IF state[b].open = None THEN None
                 ELSE [state[b].open EXCEPT !.held = Older(@, OldHeld)]
<1>1. /\ closing["sweep"] = <<>> /\ \A b \in Bases : ~Expired(b)
      /\ state' = [b \in Bases |-> Aged(state[b])]
      /\ UNCHANGED <<closing, next_id, entered, exits>>
  BY DEF Age
<1>2. {OldMid, OldFlip, OldQuote, OldHeld, OldEntry, OldStop} \subseteq Nat BY Caps
<1>3. \A cap \in Nat : \A a \in 0..cap : Older(a, cap) \in 0..cap BY DEF Older
<1>4. ASSUME NEW b \in Bases
      PROVE  /\ Aged(state[b]) \in BaseStates
             /\ Aged(state[b]).entered = Older(state[b].entered, OldEntry)
             /\ Aged(state[b]).stopped = Older(state[b].stopped, OldStop)
             /\ Aged(state[b]).open = IF state[b].open = None THEN None
                ELSE [state[b].open EXCEPT !.held = Older(@, OldHeld)]
  <2> DEFINE s == state[b]
  <2>1. s \in BaseStates BY DEF Shapes
  <2>2. AgeMids(s.gate_mids, OldMid) \in Seq(Mids(OldMid))
        /\ AgeMids(s.flip_mids, OldFlip) \in Seq(Mids(OldFlip))
    BY <1>2, <2>1, AgeMidsType DEF BaseStates
  <2>3. AgedQuote(s.quote) \in {None} \union Mids(OldQuote)
    BY <1>2, <1>3, <2>1 DEF BaseStates, Mids, AgedQuote
  <2>4. AgedOpen(s.open) \in {None} \union Positions
    BY <1>2, <1>3, <2>1 DEF BaseStates, Positions, AgedOpen
  <2>5. Older(s.entered, OldEntry) \in 0..OldEntry /\ Older(s.stopped, OldStop) \in 0..OldStop
    BY <1>2, <1>3, <2>1 DEF BaseStates
  <2>6. Aged(s) \in BaseStates /\ Aged(s).open = AgedOpen(s.open)
        /\ Aged(s).entered = Older(s.entered, OldEntry)
        /\ Aged(s).stopped = Older(s.stopped, OldStop)
    BY <2>1, <2>2, <2>3, <2>4, <2>5 DEF Aged, BaseStates
  <2>7. QED BY <2>6 DEF AgedOpen
<1>5. QED BY <1>1, <1>4 DEF Shapes

\* A fill report changes a reference price and nothing else.
LEMMA OnFillDoes ==
  ASSUME ConstantsOK, Shapes, home \in [Ids -> Bases \union {None}],
         NEW i \in Ids, NEW price \in Prices, OnFill(i, price)
  PROVE  /\ Shapes' /\ UNCHANGED <<closing, next_id, entered, exits>>
         /\ \A b \in Bases :
              /\ state'[b].entered = state[b].entered /\ state'[b].stopped = state[b].stopped
              /\ state'[b].open = IF b = home[i] /\ state[b].open # None
                                  THEN [state[b].open EXCEPT !.ref = price]
                                  ELSE state[b].open
<1>1. home[i] \in Bases /\ UNCHANGED <<closing, next_id, entered, exits>>
      /\ Retune(home[i], price)
  BY DEF OnFill
<1> DEFINE h == home[i]
<1>2. state[h] \in BaseStates BY <1>1 DEF Shapes
<1>3. CASE state[h].open = None
  BY <1>1, <1>3 DEF Retune, Shapes
<1>4. CASE state[h].open # None
  <2> DEFINE o == [state[h].open EXCEPT !.ref = price]
             e == [state[h] EXCEPT !.open = o]
  <2>1. o \in Positions BY <1>2, <1>4 DEF BaseStates, Positions
  <2>2. state' = [state EXCEPT ![h] = e] BY <1>1, <1>4 DEF Retune
  <2>3. e \in BaseStates /\ e.open = o /\ e.entered = state[h].entered
        /\ e.stopped = state[h].stopped
    <3> HIDE DEF o
    <3>1. QED BY <1>2, <2>1 DEF BaseStates
  <2> HIDE DEF e
  <2>4. QED BY <1>1, <1>4, <2>2, <2>3 DEF Shapes
<1>5. QED BY <1>3, <1>4

-----------------------------------------------------------------------------
(* Where an id is                                                          *)

\* A step waits, opens the next id, or sends the exit of a pending one.
Waits == Pending' = Pending /\ UNCHANGED <<next_id, entered, exits>>
Opens ==
    /\ next_id \in Ids \ entered /\ Pending' = Pending \union {next_id}
    /\ next_id' = next_id + 1 /\ entered' = entered \union {next_id}
    /\ UNCHANGED exits
Sends ==
    /\ \E i \in Ids \intersect Pending :
          Pending' = Pending \ {i} /\ exits' = [exits EXCEPT ![i] = @ + 1]
    /\ UNCHANGED <<next_id, entered>>

Places == Shapes /\ Numbered /\ OnePlace /\ Pending \subseteq entered

\* The positions stay those they are.
SameOpens ==
    \A b \in Bases :
        /\ state'[b].open = None <=> state[b].open = None
        /\ state[b].open # None => state'[b].open.id = state[b].open.id

\* Then so do the places of the ids.
LEMMA SameOpensWaits ==
  ASSUME OnePlace, SameOpens, UNCHANGED closing
  PROVE  OpenIds' = OpenIds /\ InClosing' = InClosing /\ OnePlace'
<1>1. OpenIds' = OpenIds BY DEF OpenIds, SameOpens
<1>2. InClosing' = InClosing BY DEF InClosing
<1>3. QED BY <1>1, <1>2 DEF OnePlace, SameOpens

\* A tick of the leader.
LEMMA OnLeaderStep ==
  ASSUME ConstantsOK, Places,
         NEW b \in Bases, NEW mid \in Prices, NEW d \in Delays, OnLeader(b, mid, d)
  PROVE  OnePlace' /\ Numbered' /\ (Waits \/ Opens)
<1>1. /\ UNCHANGED <<closing, exits>>
      /\ \E s \in BaseStates :
           /\ state' = [state EXCEPT ![b] = s]
           /\ \/ s.open = state[b].open /\ UNCHANGED <<next_id, entered>>
              \/ /\ state[b].open = None /\ s.open \in Positions /\ s.open.id = next_id
                 /\ next_id <= MaxPosId /\ next_id' = next_id + 1
                 /\ entered' = entered \union {next_id}
  BY OnLeaderDoes DEF Places
<1>2. PICK s \in BaseStates :
           /\ state' = [state EXCEPT ![b] = s]
           /\ \/ s.open = state[b].open /\ UNCHANGED <<next_id, entered>>
              \/ /\ state[b].open = None /\ s.open \in Positions /\ s.open.id = next_id
                 /\ next_id <= MaxPosId /\ next_id' = next_id + 1
                 /\ entered' = entered \union {next_id}
  BY <1>1
<1>3. state'[b] = s /\ \A a \in Bases \ {b} : state'[a] = state[a]
  BY <1>2 DEF Places, Shapes
<1>4. CASE s.open = state[b].open /\ UNCHANGED <<next_id, entered>>
  <2>1. SameOpens BY <1>3, <1>4 DEF SameOpens
  <2>2. QED BY <1>1, <1>4, <2>1, SameOpensWaits DEF Places, Numbered, Waits, Pending
<1>5. CASE /\ state[b].open = None /\ s.open \in Positions /\ s.open.id = next_id
           /\ next_id <= MaxPosId /\ next_id' = next_id + 1
           /\ entered' = entered \union {next_id}
  <2>0. MaxPosId \in Nat /\ next_id \in 1..MaxPosId /\ entered = 1..(next_id - 1)
    <3>1. MaxPosId \in Nat BY DEF ConstantsOK
    <3>2. QED BY <1>5, <3>1 DEF Places, Numbered
  <2>1. next_id \in Ids \ entered /\ next_id \notin Pending
    BY <2>0 DEF Places, Ids
  <2>2. Numbered'
    <3>1. entered' = 1..next_id BY <1>5, <2>0
    <3>2. QED BY <1>5, <2>0, <3>1 DEF Numbered
  <2>3. s.open # None BY <1>5 DEF Positions, None
  <2>4. OpenIds' = OpenIds \union {next_id}
    <3>1. \A a \in Bases : state'[a].open # None <=> a = b \/ state[a].open # None
      BY <1>3, <2>3
    <3>2. \A a \in Bases \ {b} : state'[a].open = state[a].open BY <1>3
    <3>3. QED BY <1>3, <1>5, <3>1, <3>2 DEF OpenIds
  <2>5. InClosing' = InClosing BY <1>1 DEF InClosing
  <2>6. \A a \in Bases : state[a].open # None => state[a].open.id # next_id
    BY <2>1 DEF Pending, OpenIds
  <2>7. OnePlace'
    <3>1. \A a, c \in Bases :
             state'[a].open # None /\ state'[c].open # None
               /\ state'[a].open.id = state'[c].open.id => a = c
      BY <1>3, <1>5, <2>6 DEF Places, OnePlace
    <3>2. OpenIds' \intersect InClosing' = {}
      BY <2>1, <2>4, <2>5 DEF Places, OnePlace, Pending
    <3>3. QED BY <1>1, <3>1, <3>2 DEF Places, OnePlace
  <2>8. Opens BY <1>1, <1>5, <2>1, <2>4, <2>5 DEF Opens, Pending
  <2>9. QED BY <2>2, <2>7, <2>8
<1>6. QED BY <1>2, <1>4, <1>5

\* A tick of the follower: an id may go from the open ones to the tick loop's queue.
LEMMA OnFollowerStep ==
  ASSUME ConstantsOK, Places,
         NEW b \in Bases, NEW mid \in Prices, NEW d \in Delays, OnFollower(b, mid, d)
  PROVE  OnePlace' /\ Numbered' /\ Waits
<1>1. UNCHANGED <<next_id, entered, exits>> /\ Numbered'
  BY OnFollowerDoes DEF Places, Numbered
<1>2. PICK s \in BaseStates :
         /\ state' = [state EXCEPT ![b] = s]
         /\ \/ s.open = state[b].open /\ UNCHANGED closing
            \/ /\ state[b].open # None /\ s.open = None /\ closing["tick"] = <<>>
               /\ closing' = [closing EXCEPT !["tick"] = <<state[b].open.id>>]
  BY OnFollowerDoes DEF Places
<1>3. state'[b] = s /\ \A a \in Bases \ {b} : state'[a] = state[a]
  BY <1>2 DEF Places, Shapes
<1>4. CASE s.open = state[b].open /\ UNCHANGED closing
  <2>1. SameOpens BY <1>3, <1>4 DEF SameOpens
  <2>2. QED BY <1>1, <1>4, <2>1, SameOpensWaits DEF Places, Waits, Pending
<1>5. CASE /\ state[b].open # None /\ s.open = None /\ closing["tick"] = <<>>
           /\ closing' = [closing EXCEPT !["tick"] = <<state[b].open.id>>]
  <2> DEFINE i == state[b].open.id
  <2>1. i \in OpenIds BY <1>5 DEF OpenIds
  <2>2. OpenIds' = OpenIds \ {i}
    <3>1. \A a \in Bases : state'[a].open # None <=> a # b /\ state[a].open # None
      BY <1>3, <1>5
    <3>2. \A a \in Bases \ {b} : state'[a].open = state[a].open BY <1>3
    <3>3. \A a \in Bases \ {b} : state[a].open # None => state[a].open.id # i
      BY <1>5 DEF Places, OnePlace
    <3>4. QED BY <3>1, <3>2, <3>3 DEF OpenIds
  <2> HIDE DEF i
  <2>3. ToSet(closing["tick"]) = {} /\ ToSet(closing'["tick"]) = {i}
        /\ IsInjective(closing'["tick"]) /\ closing'["sweep"] = closing["sweep"]
    <3>1. closing'["tick"] = <<i>> /\ closing'["sweep"] = closing["sweep"]
      BY <1>5 DEF Places, Shapes, Tasks, i
    <3>2. QED BY <1>5, <3>1 DEF ToSet, IsInjective
  <2>4. InClosing = ToSet(closing["sweep"]) /\ InClosing' = {i} \union InClosing
    BY <2>3 DEF InClosing, Tasks
  <2>5. i \notin InClosing BY <2>1 DEF Places, OnePlace
  <2>6. \A a, c \in Bases :
           state'[a].open # None /\ state'[c].open # None
             /\ state'[a].open.id = state'[c].open.id => a = c
    BY <1>3, <1>5 DEF Places, OnePlace
  <2>7. OnePlace'
    BY <2>2, <2>3, <2>4, <2>5, <2>6 DEF Places, OnePlace, Tasks
  <2>8. Waits BY <1>1, <2>1, <2>2, <2>4 DEF Waits, Pending
  <2>9. QED BY <1>1, <2>7, <2>8
<1>6. QED BY <1>2, <1>4, <1>5

\* The sweeper: the expired go from the open ones to its queue.
LEMMA SweepStep ==
  ASSUME ConstantsOK, Places, SweepExits
  PROVE  OnePlace' /\ Numbered' /\ Waits
<1> DEFINE S == {state[b].open.id : b \in {x \in Bases : Expired(x)}}
<1>1. /\ UNCHANGED <<next_id, entered, exits>>
      /\ closing["sweep"] = <<>> /\ closing'["tick"] = closing["tick"]
      /\ ToSet(closing'["sweep"]) = S /\ IsInjective(closing'["sweep"])
      /\ \A b \in Bases : state'[b].open = IF Expired(b) THEN None ELSE state[b].open
  BY SweepDoes DEF Places
<1>2. \A b \in Bases : Expired(b) => state[b].open # None BY DEF Expired
<1>3. S \subseteq OpenIds BY <1>2 DEF OpenIds
<1>4. OpenIds' = OpenIds \ S
  <2>1. ASSUME NEW i \in OpenIds' PROVE i \in OpenIds \ S
    <3>1. PICK b \in Bases : state'[b].open # None /\ i = state'[b].open.id
      BY <2>1 DEF OpenIds
    <3>2. ~Expired(b) /\ state[b].open # None /\ i = state[b].open.id BY <1>1, <3>1
    <3>3. i \in OpenIds BY <3>2 DEF OpenIds
    <3>4. i \notin S BY <1>2, <3>2 DEF Places, OnePlace
    <3>5. QED BY <3>3, <3>4
  <2>2. ASSUME NEW i \in OpenIds \ S PROVE i \in OpenIds'
    <3>1. PICK b \in Bases : state[b].open # None /\ i = state[b].open.id
      BY <2>2 DEF OpenIds
    <3>2. ~Expired(b) BY <2>2, <3>1
    <3>3. state'[b].open = state[b].open BY <1>1, <3>2
    <3>4. QED BY <3>1, <3>3 DEF OpenIds
  <2>3. QED BY <2>1, <2>2
<1>5. ToSet(closing["sweep"]) = {} BY <1>1 DEF ToSet
<1> HIDE DEF S
<1>6. InClosing = ToSet(closing["tick"]) /\ InClosing' = InClosing \union S
  BY <1>1, <1>5 DEF InClosing, Tasks
<1>7. OpenIds \intersect InClosing = {} BY DEF Places, OnePlace
<1>8. \A a, c \in Bases :
         state'[a].open # None /\ state'[c].open # None
           /\ state'[a].open.id = state'[c].open.id => a = c
  BY <1>1 DEF Places, OnePlace
<1>9. OnePlace'
  BY <1>1, <1>3, <1>4, <1>6, <1>7, <1>8 DEF Places, OnePlace, Tasks
<1>10. QED BY <1>1, <1>3, <1>4, <1>6, <1>9 DEF Waits, Pending, Places, Numbered

\* An exit signal.
LEMMA LogCloseStep ==
  ASSUME Places, NEW t \in Tasks, LogClose(t)
  PROVE  OnePlace' /\ Numbered' /\ Sends
<1>1. /\ UNCHANGED <<state, next_id, entered>>
      /\ IsInjective(closing'[t]) /\ \A u \in Tasks \ {t} : closing'[u] = closing[u]
  BY LogCloseDoes DEF Places
<1>2. PICK i \in Ids :
         /\ i \in ToSet(closing[t]) /\ exits' = [exits EXCEPT ![i] = @ + 1]
         /\ ToSet(closing'[t]) = ToSet(closing[t]) \ {i}
  BY LogCloseDoes DEF Places
<1>3. \A u \in Tasks \ {t} : i \notin ToSet(closing[u])
  BY <1>2 DEF Places, OnePlace, Tasks
<1>4. InClosing' = InClosing \ {i} /\ i \in InClosing
  <2>1. \A u \in Tasks : ToSet(closing'[u]) = ToSet(closing[u]) \ {i}
    BY <1>1, <1>2, <1>3
  <2>2. i \in InClosing BY <1>2 DEF InClosing
  <2>3. QED BY <2>1, <2>2 DEF InClosing
<1>5. OpenIds' = OpenIds BY <1>1 DEF OpenIds
<1>6. i \notin OpenIds BY <1>4 DEF Places, OnePlace
<1>7. Pending' = Pending \ {i} /\ i \in Ids \intersect Pending
  BY <1>4, <1>5, <1>6 DEF Pending
<1>8. OnePlace'
  <2>1. \A u \in Tasks : IsInjective(closing'[u]) BY <1>1 DEF Places, OnePlace
  <2>2. ToSet(closing'["tick"]) \subseteq ToSet(closing["tick"])
        /\ ToSet(closing'["sweep"]) \subseteq ToSet(closing["sweep"])
    BY <1>1, <1>2 DEF Tasks
  <2>3. QED BY <1>1, <1>4, <1>5, <2>1, <2>2 DEF Places, OnePlace
<1>9. QED BY <1>1, <1>2, <1>7, <1>8 DEF Sends, Places, Numbered

\* Time passes.
LEMMA AgeStep ==
  ASSUME ConstantsOK, Places, Age
  PROVE  OnePlace' /\ Numbered' /\ Waits
<1>1. /\ UNCHANGED <<closing, next_id, entered, exits>>
      /\ \A b \in Bases :
           state'[b].open = IF state[b].open = None THEN None
              ELSE [state[b].open EXCEPT !.held = Older(@, OldHeld)]
  BY AgeDoes DEF Places
<1>2. ASSUME NEW b \in Bases, state[b].open # None
      PROVE  state'[b].open # None /\ state'[b].open.id = state[b].open.id
  <2>1. state[b].open \in Positions BY <1>2 DEF Places, Shapes, BaseStates
  <2>2. state'[b].open = [state[b].open EXCEPT !.held = Older(@, OldHeld)]
    BY <1>1, <1>2
  <2>3. QED BY <2>1, <2>2 DEF Positions, None
<1>3. SameOpens BY <1>1, <1>2 DEF SameOpens
<1>4. QED BY <1>1, <1>3, SameOpensWaits DEF Waits, Pending, Places, Numbered

\* A fill report.
LEMMA OnFillStep ==
  ASSUME ConstantsOK, Places, home \in [Ids -> Bases \union {None}],
         NEW i \in Ids, NEW price \in Prices, OnFill(i, price)
  PROVE  OnePlace' /\ Numbered' /\ Waits
<1>1. /\ UNCHANGED <<closing, next_id, entered, exits>>
      /\ \A b \in Bases :
           state'[b].open = IF b = home[i] /\ state[b].open # None
                            THEN [state[b].open EXCEPT !.ref = price] ELSE state[b].open
  BY OnFillDoes DEF Places
<1>2. ASSUME NEW b \in Bases, state[b].open # None
      PROVE  state'[b].open # None /\ state'[b].open.id = state[b].open.id
  <2>1. state[b].open \in Positions BY <1>2 DEF Places, Shapes, BaseStates
  <2>2. state'[b].open \in {state[b].open, [state[b].open EXCEPT !.ref = price]}
    BY <1>1, <1>2
  <2>3. QED BY <2>1, <2>2 DEF Positions, None
<1>3. SameOpens BY <1>1, <1>2 DEF SameOpens
<1>4. QED BY <1>1, <1>3, SameOpensWaits DEF Waits, Pending, Places, Numbered

\* Every action, and a fill report, keeps each id in one place.
LEMMA PlacesStep ==
  ASSUME ConstantsOK, Places,
         \/ Next
         \/ /\ home \in [Ids -> Bases \union {None}]
            /\ \E i \in Ids, price \in Prices : OnFill(i, price)
  PROVE  Places' /\ (Waits \/ Opens \/ Sends)
<1>1. Shapes' /\ OnePlace' /\ Numbered' /\ (Waits \/ Opens \/ Sends)
  <2>1. ASSUME NEW b \in Bases, NEW mid \in Prices, NEW d \in Delays, OnLeader(b, mid, d)
        PROVE  Shapes' /\ OnePlace' /\ Numbered' /\ (Waits \/ Opens \/ Sends)
    <3>1. Shapes' BY <2>1, OnLeaderDoes DEF Places
    <3>2. QED BY <2>1, <3>1, OnLeaderStep
  <2>2. ASSUME NEW b \in Bases, NEW mid \in Prices, NEW d \in Delays, OnFollower(b, mid, d)
        PROVE  Shapes' /\ OnePlace' /\ Numbered' /\ (Waits \/ Opens \/ Sends)
    <3>1. Shapes' BY <2>2, OnFollowerDoes DEF Places
    <3>2. QED BY <2>2, <3>1, OnFollowerStep
  <2>3. CASE SweepExits
    <3>1. Shapes' BY <2>3, SweepDoes DEF Places
    <3>2. QED BY <2>3, <3>1, SweepStep
  <2>4. ASSUME NEW t \in Tasks, LogClose(t)
        PROVE  Shapes' /\ OnePlace' /\ Numbered' /\ (Waits \/ Opens \/ Sends)
    <3>1. Shapes' BY <2>4, LogCloseDoes DEF Places
    <3>2. QED BY <2>4, <3>1, LogCloseStep
  <2>5. CASE Age
    <3>1. Shapes' BY <2>5, AgeDoes DEF Places
    <3>2. QED BY <2>5, <3>1, AgeStep
  <2>6. ASSUME home \in [Ids -> Bases \union {None}],
               NEW i \in Ids, NEW price \in Prices, OnFill(i, price)
        PROVE  Shapes' /\ OnePlace' /\ Numbered' /\ (Waits \/ Opens \/ Sends)
    <3>1. Shapes' BY <2>6, OnFillDoes DEF Places
    <3>2. QED BY <2>6, <3>1, OnFillStep
  <2>7. QED BY <2>1, <2>2, <2>3, <2>4, <2>5, <2>6 DEF Next
<1>2. Pending' \subseteq entered' BY <1>1 DEF Waits, Opens, Sends, Places
<1>3. QED BY <1>1, <1>2 DEF Places

\* The exits: of a pending id none was sent, of every other entered one, once.
Owed ==
    /\ exits \in [Ids -> 0..1]
    /\ entered = Pending \union Exited
    /\ Pending \intersect Exited = {}

LeadInv == Places /\ Owed

\* At the start nothing is pending.
LEMMA LeadInit == ConstantsOK /\ Init => LeadInv
<1> SUFFICES ASSUME ConstantsOK, Init PROVE LeadInv
  OBVIOUS
<1>1. OldEntry \in Nat /\ OldStop \in Nat BY Caps
<1>2. [gate_mids |-> <<>>, flip_mids |-> <<>>, quote |-> None, open |-> None,
       entered |-> OldEntry, stopped |-> OldStop] \in BaseStates
  <2>1. <<>> \in Seq(Mids(OldMid)) /\ <<>> \in Seq(Mids(OldFlip)) OBVIOUS
  <2>2. QED BY <1>1, <2>1 DEF BaseStates
<1>3. Shapes BY <1>2 DEF Init, Shapes
<1>4. Pending = {} /\ OpenIds = {} /\ InClosing = {}
  <2>1. \A b \in Bases : state[b].open = None BY DEF Init
  <2>2. \A t \in Tasks : ToSet(closing[t]) = {} BY DEF Init, ToSet
  <2>3. OpenIds = {} BY <2>1 DEF OpenIds
  <2>4. InClosing = {} BY <2>2 DEF InClosing
  <2>5. QED BY <2>3, <2>4 DEF Pending
<1>5. Numbered
  <2>1. MaxPosId \in Nat BY DEF ConstantsOK
  <2>2. QED BY <2>1 DEF Init, Numbered
<1>6. OnePlace
  <2>1. \A b \in Bases : state[b].open = None BY DEF Init
  <2>2. \A t \in Tasks : IsInjective(closing[t]) BY DEF Init, IsInjective
  <2>3. ToSet(closing["tick"]) = {} BY DEF Init, ToSet, Tasks
  <2>4. QED BY <1>4, <2>1, <2>2, <2>3 DEF OnePlace
<1>7. Owed
  <2>1. exits \in [Ids -> 0..1] /\ Exited = {} /\ entered = {}
    BY DEF Init, Exited
  <2>2. QED BY <1>4, <2>1 DEF Owed
<1>8. QED BY <1>3, <1>4, <1>5, <1>6, <1>7 DEF LeadInv, Places

\* What is owed stays so.
LEMMA OwedStep ==
  ASSUME Owed, Waits \/ Opens \/ Sends
  PROVE  Owed'
<1>1. CASE Waits BY <1>1 DEF Owed, Waits, Exited
<1>2. CASE Opens
  <2>1. next_id \notin Exited BY <1>2 DEF Owed, Opens
  <2>2. exits' = exits /\ Exited' = Exited BY <1>2 DEF Opens, Exited
  <2>3. QED BY <1>2, <2>1, <2>2 DEF Owed, Opens
<1>3. CASE Sends
  <2>1. PICK i \in Ids \intersect Pending :
           Pending' = Pending \ {i} /\ exits' = [exits EXCEPT ![i] = @ + 1]
    BY <1>3 DEF Sends
  <2>2. exits[i] = 0 BY <2>1 DEF Owed, Exited
  <2>3. exits' \in [Ids -> 0..1] /\ exits'[i] = 1
        /\ \A j \in Ids \ {i} : exits'[j] = exits[j]
    BY <2>1, <2>2 DEF Owed
  <2>4. Exited' = Exited \union {i} BY <2>1, <2>3 DEF Exited
  <2>5. QED BY <1>3, <2>1, <2>3, <2>4 DEF Owed, Sends
<1>4. QED BY <1>1, <1>2, <1>3

\* The invariant has the type, and is what ExitOnce asks.
LEMMA LeadInvShows ==
  ASSUME ConstantsOK, LeadInv
  PROVE  TypeOK /\ ExitOnce
<1>1. TypeOK
  <2>1. exits \in [Ids -> Nat] BY DEF LeadInv, Owed
  <2>2. \A b \in Bases : state[b] \in BaseStates BY DEF LeadInv, Places, Shapes
  <2>3. \A b \in Bases :
          /\ state[b].gate_mids \in Seq(Mids(OldMid))
          /\ state[b].flip_mids \in Seq(Mids(OldFlip))
          /\ state[b].quote \in {None} \union Mids(OldQuote)
          /\ state[b].open \in {None} \union
                [id : Ids, side : {-1, 1}, held : 0..OldHeld, ref : Prices, lead : Prices]
          /\ state[b].entered \in 0..OldEntry /\ state[b].stopped \in 0..OldStop
    BY <2>2 DEF BaseStates, Positions
  <2>4. QED BY <2>1, <2>3 DEF TypeOK, LeadInv, Places, Shapes, Numbered
<1>2. ExitOnce
  BY DEF ExitOnce, LeadInv, Places, OnePlace, Owed, Pending
<1>3. QED BY <1>1, <1>2

\* A step that waits, opens or sends is a step of the ledger.
LEMMA LedgerStep ==
  ASSUME LeadInv, Waits \/ Opens \/ Sends
  PROVE  [Ledger!Next]_(Ledger!ledger)
<1>1. CASE Waits BY <1>1 DEF Waits, Ledger!ledger
<1>2. CASE Opens
  <2>1. Ledger!Enter(next_id) BY <1>2 DEF Opens, Ledger!Enter
  <2>2. QED BY <1>2, <2>1 DEF Opens, Ledger!Next
<1>3. CASE Sends
  <2>1. PICK i \in Ids \intersect Pending :
           Pending' = Pending \ {i} /\ exits' = [exits EXCEPT ![i] = @ + 1]
    BY <1>3 DEF Sends
  <2>2. exits[i] = 0 /\ i \in entered BY <2>1 DEF LeadInv, Owed, Exited
  <2>3. exits' = [exits EXCEPT ![i] = 1] BY <2>1, <2>2
  <2>4. Ledger!Exit(i) BY <1>3, <2>2, <2>3 DEF Sends, Ledger!Exit
  <2>5. QED BY <2>1, <2>4 DEF Ledger!Next
<1>4. QED BY <1>1, <1>2, <1>3

-----------------------------------------------------------------------------
(* The lead strategy                                                       *)

\* Every step keeps the invariant and is a step of the ledger.
LEMMA LeadStep ==
  ConstantsOK /\ LeadInv /\ [Next]_vars => LeadInv' /\ [Ledger!Next]_(Ledger!ledger)
<1> SUFFICES ASSUME ConstantsOK, LeadInv, [Next]_vars
             PROVE  LeadInv' /\ [Ledger!Next]_(Ledger!ledger)
  OBVIOUS
<1>1. CASE Next
  <2>1. Places' /\ (Waits \/ Opens \/ Sends) BY <1>1, PlacesStep DEF LeadInv
  <2>2. QED BY <2>1, OwedStep, LedgerStep DEF LeadInv
<1>2. CASE UNCHANGED vars
  <2>1. Pending' = Pending BY <1>2 DEF vars, Pending, OpenIds, InClosing
  <2>2. LeadInv'
    <3>1. Shapes' /\ Numbered' BY <1>2 DEF vars, LeadInv, Places, Shapes, Numbered
    <3>2. SameOpens BY <1>2 DEF vars, SameOpens
    <3>3. OnePlace' BY <1>2, <3>2, SameOpensWaits DEF vars, LeadInv, Places
    <3>4. Waits BY <1>2, <2>1 DEF vars, Waits
    <3>5. Owed' BY <3>4, OwedStep DEF LeadInv
    <3>6. Pending' \subseteq entered' BY <3>5 DEF Owed
    <3>7. QED BY <3>1, <3>3, <3>5, <3>6 DEF LeadInv, Places
  <2>3. QED BY <1>2, <2>2 DEF vars, Ledger!ledger
<1>3. QED BY <1>1, <1>2

\* Every reachable state satisfies the invariant.
LEMMA LeadInvCorrect == ConstantsOK /\ Spec => []LeadInv
<1> SUFFICES ASSUME ConstantsOK PROVE Spec => []LeadInv
  OBVIOUS
<1>1. Init => LeadInv BY LeadInit
<1>2. LeadInv /\ [Next]_vars => LeadInv' BY LeadStep
<1>3. QED BY <1>1, <1>2, PTL DEF Spec

\* The state of the lead strategy keeps its type: histories, quotes, ages up to
\* their caps, ids handed out in order.
THEOREM LeadTypesCorrect == ConstantsOK /\ Spec => []TypeOK
<1> SUFFICES ASSUME ConstantsOK PROVE Spec => []TypeOK
  OBVIOUS
<1>1. LeadInv => TypeOK BY LeadInvShows
<1>2. QED BY <1>1, LeadInvCorrect, PTL

\* The tick loop and the sweeper send one exit of a position and drop none, for any
\* number of bases, any lateness of the ticks, any deadlines.
THEOREM LeadExitOnceCorrect == ConstantsOK /\ Spec => []ExitOnce
<1> SUFFICES ASSUME ConstantsOK PROVE Spec => []ExitOnce
  OBVIOUS
<1>1. LeadInv => ExitOnce BY LeadInvShows
<1>2. QED BY <1>1, LeadInvCorrect, PTL

\* The signals of the strategy are those of the ledger: an entry under a fresh id,
\* then its exit, once.
THEOREM LeadImplementsLedger == ConstantsOK /\ Spec => Ledger!Spec
<1> SUFFICES ASSUME ConstantsOK PROVE Spec => Ledger!Spec
  OBVIOUS
<1>1. Init => Ledger!Init BY DEF Init, Ledger!Init
<1>2. LeadInv /\ [Next]_vars => [Ledger!Next]_(Ledger!ledger) BY LeadStep
<1>3. QED BY <1>1, <1>2, LeadInvCorrect, PTL DEF Spec, Ledger!Spec

\* A step that leaves a position and the last stop of its base as they were, or
\* lets both age, keeps StopIsRespected; an entry looks at the stop first.
LEMMA StopStep ==
  ConstantsOK /\ Shapes /\ Numbered /\ StopIsRespected /\ [Next]_vars => StopIsRespected'
<1> SUFFICES ASSUME ConstantsOK, Shapes, Numbered, StopIsRespected, [Next]_vars,
                    NEW a \in Bases, state'[a].open # None
             PROVE  state'[a].stopped = OldStop
                      \/ state'[a].stopped - state'[a].open.held >= StopCooldown
  BY DEF StopIsRespected
<1>0. state[a].open # None =>
        state[a].stopped = OldStop \/ state[a].stopped - state[a].open.held >= StopCooldown
  BY DEF StopIsRespected
<1>1. ASSUME NEW b \in Bases, NEW mid \in Prices, NEW d \in Delays, OnLeader(b, mid, d)
      PROVE  state'[a].stopped = OldStop
               \/ state'[a].stopped - state'[a].open.held >= StopCooldown
  <2>1. PICK s \in BaseStates :
          /\ state' = [state EXCEPT ![b] = s]
          /\ s.stopped = state[b].stopped
          /\ \/ s.open = state[b].open
             \/ state[b].stopped - d >= StopCooldown /\ s.open.held = d
    BY <1>1, OnLeaderDoes
  <2>2. CASE a = b
    <3>1. state'[a] = s BY <2>1, <2>2 DEF Shapes
    <3>2. QED BY <1>0, <2>1, <2>2, <3>1
  <2>3. CASE a # b
    <3>1. state'[a] = state[a] BY <2>1, <2>3 DEF Shapes
    <3>2. QED BY <1>0, <3>1
  <2>4. QED BY <2>2, <2>3
<1>2. ASSUME NEW b \in Bases, NEW mid \in Prices, NEW d \in Delays, OnFollower(b, mid, d)
      PROVE  state'[a].stopped = OldStop
               \/ state'[a].stopped - state'[a].open.held >= StopCooldown
  <2>1. PICK s \in BaseStates :
          /\ state' = [state EXCEPT ![b] = s]
          /\ \/ s.open = state[b].open /\ s.stopped = state[b].stopped
             \/ s.open = None
    BY <1>2, OnFollowerDoes
  <2>2. CASE a = b
    <3>1. state'[a] = s BY <2>1, <2>2 DEF Shapes
    <3>2. QED BY <1>0, <2>1, <2>2, <3>1
  <2>3. CASE a # b
    <3>1. state'[a] = state[a] BY <2>1, <2>3 DEF Shapes
    <3>2. QED BY <1>0, <3>1
  <2>4. QED BY <2>2, <2>3
<1>3. CASE SweepExits
  <2>1. /\ state'[a].stopped = state[a].stopped
        /\ state'[a].open = IF Expired(a) THEN None ELSE state[a].open
    BY <1>3, SweepDoes
  <2>2. QED BY <1>0, <2>1
<1>4. ASSUME NEW t \in Tasks, LogClose(t)
      PROVE  state'[a].stopped = OldStop
               \/ state'[a].stopped - state'[a].open.held >= StopCooldown
  BY <1>0, <1>4 DEF LogClose
<1>5. CASE Age
  <2>1. /\ state'[a].stopped = Older(state[a].stopped, OldStop)
        /\ state'[a].open = IF state[a].open = None THEN None
             ELSE [state[a].open EXCEPT !.held = Older(@, OldHeld)]
    BY <1>5, AgeDoes
  <2>2. state[a].open # None BY <2>1
  <2>3. /\ state[a].open \in Positions /\ state[a].stopped \in 0..OldStop
        /\ state[a].open.held \in 0..OldHeld
    BY <2>2 DEF Shapes, BaseStates, Positions
  <2>4. state'[a].open.held = Older(state[a].open.held, OldHeld)
    BY <2>1, <2>2, <2>3 DEF Positions
  <2>5. OldStop \in Nat /\ OldHeld \in Nat /\ StopCooldown \in Nat
    BY Caps DEF ConstantsOK
  <2>6. QED BY <1>0, <2>1, <2>2, <2>3, <2>4, <2>5 DEF Older
<1>6. CASE UNCHANGED vars BY <1>0, <1>6 DEF vars
<1>7. QED BY <1>1, <1>2, <1>3, <1>4, <1>5, <1>6 DEF Next

\* After a stop no position is opened on the base for StopCooldown, on the venue's
\* clock, however late the ticks of either venue come.
THEOREM StopIsRespectedCorrect == ConstantsOK /\ Spec => []StopIsRespected
<1> SUFFICES ASSUME ConstantsOK PROVE Spec => []StopIsRespected
  OBVIOUS
<1>1. Init => StopIsRespected BY DEF Init, StopIsRespected
<1>2. LeadInv /\ StopIsRespected /\ [Next]_vars => StopIsRespected'
  BY StopStep DEF LeadInv, Places
<1>3. QED BY <1>1, <1>2, LeadInvCorrect, PTL DEF Spec

\* While the position of the only base is open or its exit is queued by the sweeper,
\* the last entry is too young for another: the cooldown is longer than the hold.
Young ==
    /\ \A b \in Bases :
          /\ state[b].open # None =>
                /\ state[b].open.held <= HoldMax + Late
                /\ state[b].entered = state[b].open.held
          /\ closing["sweep"] # <<>> => state[b].entered <= HoldMax + Late
    /\ \A i \in Pending : i = next_id - 1

\* One base, and a cooldown longer than the longest hold.
OneBase == (\E b \in Bases : Bases = {b}) /\ Cooldown > HoldMax + Late

\* A position expires before the cooldown does.
LEMMA YoungStep ==
  ConstantsOK /\ OneBase /\ LeadInv /\ LeadInv' /\ Young /\ [Next]_vars => Young'
<1> SUFFICES ASSUME ConstantsOK, OneBase, LeadInv, LeadInv', Young, [Next]_vars
             PROVE  Young'
  OBVIOUS
<1> USE DEF LeadInv, Places
<1>0. PICK b \in Bases : Bases = {b} BY DEF OneBase
<1>1. /\ Late \in Nat /\ HoldMax \in Nat /\ Cooldown \in Nat /\ Cooldown > HoldMax + Late
      /\ OldHeld \in Nat /\ OldEntry \in Nat
      /\ HoldMax + Late <= OldHeld /\ Cooldown + Late <= OldEntry
  BY Caps DEF ConstantsOK, OneBase
<1>2. /\ state[b].entered \in 0..OldEntry /\ state[b] \in BaseStates
      /\ state[b].open # None => state[b].open \in Positions
                                 /\ state[b].open.held \in 0..OldHeld
      /\ next_id \in Nat
  BY DEF Shapes, BaseStates, Positions, Numbered
<1>3. /\ state[b].open # None =>
            state[b].open.held <= HoldMax + Late /\ state[b].entered = state[b].open.held
      /\ closing["sweep"] # <<>> => state[b].entered <= HoldMax + Late
      /\ \A i \in Pending : i = next_id - 1
  BY DEF Young
<1> HIDE DEF LeadInv, Places
<1> DEFINE Goal ==
      /\ state'[b].open # None =>
            state'[b].open.held <= HoldMax + Late /\ state'[b].entered = state'[b].open.held
      /\ closing'["sweep"] # <<>> => state'[b].entered <= HoldMax + Late
      /\ \A i \in Pending' : i = next_id' - 1
<1> SUFFICES Goal
  BY <1>0 DEF Young
<1>4. ASSUME NEW c \in Bases, NEW mid \in Prices, NEW d \in Delays, OnLeader(c, mid, d)
      PROVE  Goal
  <2>0. c = b /\ d \in Nat /\ d <= Late BY <1>0, Caps
  <2>1. UNCHANGED <<closing, exits>> BY <1>4, OnLeaderDoes DEF LeadInv, Places
  <2>2. PICK s \in BaseStates :
              /\ state' = [state EXCEPT ![b] = s]
              /\ \/ /\ s.open = state[b].open /\ s.entered = state[b].entered
                    /\ UNCHANGED <<next_id, entered>>
                 \/ /\ state[b].open = None /\ closing["tick"] = <<>>
                    /\ state[b].entered - d >= Cooldown
                    /\ s.open.id = next_id /\ s.open.held = d /\ s.entered = d
                    /\ next_id' = next_id + 1
    BY <1>4, <2>0, OnLeaderDoes DEF LeadInv, Places
  <2>3. state'[b] = s BY <2>2 DEF LeadInv, Places, Shapes
  <2>4. CASE /\ s.open = state[b].open /\ s.entered = state[b].entered
             /\ UNCHANGED <<next_id, entered>>
    <3>1. \A a \in Bases : state'[a].open = state[a].open BY <1>0, <2>3, <2>4
    <3>2. Pending' = Pending BY <2>1, <3>1 DEF Pending, OpenIds, InClosing
    <3>3. QED BY <1>3, <2>1, <2>3, <2>4, <3>2
  <2>5. CASE /\ state[b].open = None /\ closing["tick"] = <<>>
             /\ state[b].entered - d >= Cooldown
             /\ s.open.id = next_id /\ s.open.held = d /\ s.entered = d
             /\ next_id' = next_id + 1
    <3>1. closing["sweep"] = <<>>
      BY <1>1, <1>2, <1>3, <2>0, <2>5
    <3>2. InClosing' = {} BY <2>1, <2>5, <3>1 DEF InClosing, Tasks, ToSet
    <3>3. OpenIds' \subseteq {next_id} BY <1>0, <2>3, <2>5 DEF OpenIds
    <3>4. \A i \in Pending' : i = next_id' - 1
      BY <1>2, <2>5, <3>2, <3>3 DEF Pending
    <3>5. QED BY <1>1, <2>0, <2>1, <2>3, <2>5, <3>1, <3>4
  <2>6. QED BY <2>2, <2>4, <2>5
<1>5. ASSUME NEW c \in Bases, NEW mid \in Prices, NEW d \in Delays, OnFollower(c, mid, d)
      PROVE  Goal
  <2>0. c = b BY <1>0
  <2>1. PICK s \in BaseStates :
              /\ state' = [state EXCEPT ![b] = s] /\ s.entered = state[b].entered
              /\ \/ s.open = state[b].open /\ UNCHANGED closing
                 \/ /\ s.open = None
                    /\ closing' = [closing EXCEPT !["tick"] = <<state[b].open.id>>]
    BY <1>5, <2>0, OnFollowerDoes DEF LeadInv, Places
  <2>2. state'[b] = s /\ closing'["sweep"] = closing["sweep"]
    BY <2>1 DEF LeadInv, Places, Shapes, Tasks
  <2>3. Pending' = Pending /\ UNCHANGED next_id
    BY <1>5, OnFollowerStep DEF LeadInv, Waits
  <2>4. QED BY <1>3, <2>1, <2>2, <2>3
<1>6. CASE SweepExits
  <2>1. /\ state'[b].entered = state[b].entered
        /\ state'[b].open = IF Expired(b) THEN None ELSE state[b].open
    BY <1>6, SweepDoes DEF LeadInv, Places
  <2>2. Expired(b) /\ state[b].open # None BY <1>0, <1>6 DEF SweepExits, Expired
  <2>3. Pending' = Pending /\ UNCHANGED next_id
    BY <1>6, SweepStep DEF LeadInv, Waits
  <2>4. QED BY <1>3, <2>1, <2>2, <2>3
<1>7. ASSUME NEW t \in Tasks, LogClose(t) PROVE Goal
  <2>1. UNCHANGED state /\ closing[t] # <<>> /\ \A u \in Tasks \ {t} : closing'[u] = closing[u]
    BY <1>7, LogCloseDoes DEF LeadInv, Places
  <2>2. Pending' \subseteq Pending /\ UNCHANGED next_id
    BY <1>7, LogCloseStep DEF LeadInv, Sends
  <2>3. closing'["sweep"] # <<>> => closing["sweep"] # <<>> BY <2>1 DEF Tasks
  <2>4. QED BY <1>3, <2>1, <2>2, <2>3
<1>8. CASE Age
  <2>1. /\ closing'["sweep"] = <<>> /\ ~Expired(b)
        /\ state'[b].entered = Older(state[b].entered, OldEntry)
        /\ state'[b].open = IF state[b].open = None THEN None
             ELSE [state[b].open EXCEPT !.held = Older(@, OldHeld)]
    BY <1>8, AgeDoes DEF LeadInv, Places
  <2>2. Pending' = Pending /\ UNCHANGED next_id BY <1>8, AgeStep DEF LeadInv, Waits
  <2>3. CASE state[b].open = None BY <1>3, <2>1, <2>2, <2>3
  <2>4. CASE state[b].open # None
    <3>1. state[b].open.held < HoldMax BY <1>1, <1>2, <2>1, <2>4 DEF Expired
    <3>2. state'[b].open.held = Older(state[b].open.held, OldHeld)
      BY <1>2, <2>1, <2>4 DEF Positions
    <3>3. state'[b].open.held = state[b].open.held + 1
          /\ state'[b].entered = state[b].entered + 1
      BY <1>1, <1>2, <1>3, <2>1, <2>4, <3>1, <3>2 DEF Older
    <3>4. QED BY <1>1, <1>2, <1>3, <2>1, <2>2, <2>4, <3>1, <3>3
  <2>5. QED BY <2>3, <2>4
<1>9. CASE UNCHANGED vars
  <2>1. Pending' = Pending BY <1>9 DEF vars, Pending, OpenIds, InClosing
  <2>2. QED BY <1>3, <1>9, <2>1 DEF vars
<1>10. QED BY <1>4, <1>5, <1>6, <1>7, <1>8, <1>9 DEF Next

\* "never re-enter while one is open", as the executor sees it: the exit of a
\* position is signalled before the next entry on its base, if the cooldown is
\* longer than the hold and the lateness of ticks together.
THEOREM OneAfterAnotherCorrect ==
  ConstantsOK /\ IsFiniteSet(Bases) /\ Spec => []OneAfterAnother
<1> SUFFICES ASSUME ConstantsOK, IsFiniteSet(Bases) PROVE Spec => []OneAfterAnother
  OBVIOUS
<1>1. CASE OneBase
  <2>1. Init => Young
    <3> SUFFICES ASSUME Init PROVE Young
      OBVIOUS
    <3>1. LeadInv BY LeadInit
    <3>2. \A b \in Bases : state[b].open = None BY DEF Init
    <3>3. closing["sweep"] = <<>> BY DEF Init, Tasks
    <3>4. Pending = {} BY <3>1 DEF Init, LeadInv, Owed
    <3>5. QED BY <3>2, <3>3, <3>4 DEF Young
  <2>2. LeadInv /\ LeadInv' /\ Young /\ [Next]_vars => Young' BY <1>1, YoungStep
  <2>3. LeadInv /\ Young => OneAfterAnother
    <3> SUFFICES ASSUME LeadInv, Young, NEW i \in entered, i < next_id - 1
                 PROVE  i \in Exited
      BY DEF OneAfterAnother
    <3>1. next_id \in Nat /\ i \in Nat BY DEF LeadInv, Places, Numbered
    <3>2. i \notin Pending BY <3>1 DEF Young
    <3>3. QED BY <3>2 DEF LeadInv, Owed
  <2>4. QED BY <2>1, <2>2, <2>3, LeadInvCorrect, PTL DEF Spec
<1>2. CASE ~OneBase
  <2>1. ~ (Cardinality(Bases) = 1 /\ Cooldown > HoldMax + Late)
    BY <1>2, FS_Singleton DEF OneBase
  <2>2. OneAfterAnother BY <2>1 DEF OneAfterAnother
  <2>3. QED BY <2>2, PTL
<1>3. QED BY <1>1, <1>2

-----------------------------------------------------------------------------
(* The fill reports of BingxLead                                           *)

\* Where the entry of an id was, and the fill reported of it; a position is open on
\* its own base.
Homes ==
    /\ home \in [Ids -> Bases \union {None}] /\ fill \in [Ids -> Prices \union {0}]
    /\ \A i \in Ids : i >= next_id => home[i] = None /\ fill[i] = 0
    /\ \A b \in Bases : state[b].open # None => home[state[b].open.id] = b
    /\ tardy \subseteq entered

\* The entries on a base are at least as old as its last one, and all but that of the
\* open position are a cooldown old.
Cooled ==
    /\ since \in [Ids -> 0..Cooldown]
    /\ \A i \in entered, b \in Bases : home[i] = b =>
          /\ UpToCooldown(state[b].entered) <= since[i]
          /\ state[b].open # None => i = state[b].open.id \/ since[i] = Cooldown

Reported == Homes /\ Cooled /\ RefIsOwnFill

\* An action of GateLead, or a report.
LEMMA BNextIs ==
  ASSUME BNext
  PROVE  \/ Next /\ UNCHANGED fill
         \/ \E i \in Ids, price \in Prices : OnFill(i, price)
BY DEF BNext, Next, BOnLeader, BOnFollower, BSweepExits, BLogClose, BAge, reports

\* The id of an open position was handed out.
LEMMA OpenIsEntered ==
  ASSUME Places, NEW b \in Bases, state[b].open # None
  PROVE  /\ state[b].open \in Positions /\ state[b].open.id \in Ids
         /\ state[b].open.id \in entered /\ state[b].open.id < next_id
<1>1. state[b].open \in Positions /\ state[b].open.id \in Ids
  BY DEF Places, Shapes, BaseStates, Positions
<1>2. state[b].open.id \in entered BY DEF Places, Pending, OpenIds
<1>3. next_id \in Nat /\ state[b].open.id \in Nat BY <1>1 DEF Places, Numbered, Ids
<1>4. QED BY <1>1, <1>2, <1>3 DEF Places, Numbered

\* Positions that stay, their entries no younger, keep what is known of them.
LEMMA ReportedStays ==
  ASSUME Reported, UNCHANGED <<home, fill, tardy, next_id, entered>>,
         \A a \in Bases : state'[a].open # None =>
            /\ state[a].open # None /\ state'[a].open.id = state[a].open.id
            /\ state'[a].open.ref = state[a].open.ref,
         since' \in [Ids -> 0..Cooldown],
         \A i \in entered : since[i] = Cooldown => since'[i] = Cooldown,
         \A i \in entered, b \in Bases : home[i] = b =>
            UpToCooldown(state'[b].entered) <= since'[i]
  PROVE  Reported'
<1>1. Homes' BY DEF Reported, Homes
<1>2. Cooled' BY DEF Reported, Cooled
<1>3. RefIsOwnFill' BY DEF Reported, RefIsOwnFill
<1>4. QED BY <1>1, <1>2, <1>3 DEF Reported

\* An entry on a base finds the others there a cooldown old, and no fill of its own.
LEMMA ReportedOpens ==
  ASSUME ConstantsOK, Places, Reported,
         NEW b \in Bases, NEW d \in Nat, NEW s \in BaseStates,
         state' = [state EXCEPT ![b] = s], state[b].entered - d >= Cooldown,
         s.open \in Positions, s.open.id = next_id, s.entered = d,
         next_id' = next_id + 1, entered' = entered \union {next_id},
         home' = [i \in Ids |-> IF i = next_id THEN b ELSE home[i]],
         since' = [i \in Ids |-> IF i = next_id THEN UpToCooldown(d) ELSE since[i]],
         UNCHANGED <<fill, tardy>>
  PROVE  Reported'
<1>1. /\ next_id \in Ids /\ next_id \in Nat /\ \A i \in Ids : i \in Nat
      /\ next_id \notin entered /\ entered \subseteq Ids /\ Cooldown \in Nat
  <2>1. next_id \in Ids BY DEF Positions
  <2>2. MaxPosId \in Nat /\ Cooldown \in Nat BY DEF ConstantsOK
  <2>3. QED BY <2>1, <2>2 DEF Ids, Places, Numbered
<1>2. /\ home' \in [Ids -> Bases \union {None}] /\ home'[next_id] = b
      /\ \A i \in Ids \ {next_id} : home'[i] = home[i]
  BY <1>1 DEF Reported, Homes
<1>3. /\ UpToCooldown(d) \in 0..Cooldown /\ since' \in [Ids -> 0..Cooldown]
      /\ since'[next_id] = UpToCooldown(d)
      /\ \A i \in Ids \ {next_id} : since'[i] = since[i]
  <2>1. UpToCooldown(d) \in 0..Cooldown BY <1>1 DEF UpToCooldown
  <2>2. QED BY <1>1, <2>1 DEF Reported, Cooled
<1>4. state'[b] = s /\ \A a \in Bases \ {b} : state'[a] = state[a]
  BY DEF Places, Shapes
<1>5. Homes'
  <2>1. \A i \in Ids : i >= next_id' => home'[i] = None /\ fill'[i] = 0
    BY <1>1, <1>2 DEF Reported, Homes
  <2>2. ASSUME NEW a \in Bases, state'[a].open # None PROVE home'[state'[a].open.id] = a
    <3>1. CASE a = b BY <1>2, <1>4, <3>1
    <3>2. CASE a # b
      <4>1. state[a].open # None /\ state'[a] = state[a] BY <1>4, <2>2, <3>2
      <4>2. state[a].open.id \in Ids \ {next_id} BY <1>1, <4>1, OpenIsEntered
      <4>3. QED BY <1>2, <4>1, <4>2 DEF Reported, Homes
    <3>3. QED BY <3>1, <3>2
  <2>3. QED BY <1>2, <2>1, <2>2 DEF Reported, Homes
<1>6. Cooled'
  <2>1. \A i \in entered : home[i] = b => since[i] = Cooldown
    <3> SUFFICES ASSUME NEW i \in entered, home[i] = b PROVE since[i] = Cooldown
      OBVIOUS
    <3>1. UpToCooldown(state[b].entered) <= since[i] /\ since[i] \in 0..Cooldown
      BY <1>1 DEF Reported, Cooled
    <3>2. state[b].entered \in Nat /\ state[b].entered >= Cooldown
      <4>1. state[b] \in BaseStates BY DEF Places, Shapes
      <4>2. state[b].entered \in Nat BY <4>1 DEF BaseStates
      <4>3. QED BY <1>1, <4>2
    <3>3. UpToCooldown(state[b].entered) = Cooldown BY <1>1, <3>2 DEF UpToCooldown
    <3>4. QED BY <1>1, <3>1, <3>3
  <2>2. ASSUME NEW i \in entered', NEW a \in Bases, home'[i] = a
        PROVE  /\ UpToCooldown(state'[a].entered) <= since'[i]
               /\ state'[a].open # None => i = state'[a].open.id \/ since'[i] = Cooldown
    <3>1. CASE i = next_id BY <1>1, <1>2, <1>3, <1>4, <2>2, <3>1
    <3>2. CASE i # next_id
      <4>1. i \in entered /\ home[i] = a /\ since'[i] = since[i]
        BY <1>1, <1>2, <1>3, <2>2, <3>2
      <4>2. CASE a = b BY <1>1, <1>3, <1>4, <2>1, <4>1, <4>2
      <4>3. CASE a # b BY <1>4, <4>1, <4>3 DEF Reported, Cooled
      <4>4. QED BY <4>2, <4>3
    <3>3. QED BY <3>1, <3>2
  <2>3. QED BY <1>3, <2>2 DEF Cooled, UpToCooldown
<1>7. RefIsOwnFill'
  <2> SUFFICES ASSUME NEW a \in Bases, state'[a].open # None,
                      fill'[state'[a].open.id] # 0
               PROVE  \/ state'[a].open.ref = fill'[state'[a].open.id]
                      \/ \E j \in {i \in tardy' : home'[i] = a /\ i # state'[a].open.id} :
                            state'[a].open.ref = fill'[j]
    BY DEF RefIsOwnFill
  <2>1. a # b BY <1>1, <1>4 DEF Reported, Homes
  <2>2. state'[a] = state[a] /\ state[a].open # None BY <1>4, <2>1
  <2>3. tardy \subseteq Ids \ {next_id} BY <1>1 DEF Reported, Homes
  <2>4. \A j \in tardy : home'[j] = home[j] BY <1>2, <2>3
  <2>5. state[a].open # None /\ fill[state[a].open.id] # 0 /\ fill' = fill /\ tardy' = tardy
    BY <2>2
  <2>6. \/ state[a].open.ref = fill[state[a].open.id]
        \/ \E j \in tardy : /\ home[j] = a /\ j # state[a].open.id
                            /\ state[a].open.ref = fill[j]
    BY <2>5 DEF Reported, RefIsOwnFill
  <2>7. QED BY <2>2, <2>4, <2>5, <2>6
<1>8. QED BY <1>5, <1>6, <1>7 DEF Reported

\* A report sets the price of a position that is open on its base, if it is not of that
\* position then of one a cooldown old.
LEMMA ReportedFills ==
  ASSUME ConstantsOK, Places, Reported,
         NEW i \in Ids, NEW price \in Prices, OnFill(i, price)
  PROVE  Reported'
<1>1. /\ home[i] # None /\ fill[i] = 0 /\ UNCHANGED <<next_id, entered, home, since>>
      /\ fill' = [fill EXCEPT ![i] = price]
      /\ tardy' = IF since[i] = Cooldown THEN tardy \union {i} ELSE tardy
  BY DEF OnFill
<1>2. \A b \in Bases :
          /\ state'[b].entered = state[b].entered
          /\ state'[b].open = IF b = home[i] /\ state[b].open # None
                              THEN [state[b].open EXCEPT !.ref = price]
                              ELSE state[b].open
  BY OnFillDoes DEF Places, Reported, Homes
<1>3. fill' \in [Ids -> Prices \union {0}] /\ fill'[i] = price
      /\ \A j \in Ids \ {i} : fill'[j] = fill[j]
  BY <1>1 DEF Reported, Homes
<1>4. /\ next_id \in Nat /\ \A j \in Ids : j \in Nat /\ (j < next_id => j \in entered)
      /\ entered \subseteq Ids
  <2>1. MaxPosId \in Nat BY DEF ConstantsOK
  <2>2. next_id \in 1..(MaxPosId + 1) /\ entered = 1..(next_id - 1)
    BY DEF Places, Numbered
  <2>3. QED BY <2>1, <2>2 DEF Ids
<1>5. i < next_id /\ i \in entered BY <1>1, <1>4 DEF Reported, Homes
<1>6. ASSUME NEW a \in Bases, state'[a].open # None
      PROVE  /\ state[a].open # None /\ state'[a].open.id = state[a].open.id
             /\ state'[a].open.ref = IF a = home[i] THEN price ELSE state[a].open.ref
  <2>1. CASE a = home[i] /\ state[a].open # None
    <3>1. state'[a].open = [state[a].open EXCEPT !.ref = price] BY <1>2, <2>1
    <3>2. state[a].open \in Positions BY <2>1, OpenIsEntered
    <3>3. QED BY <2>1, <3>1, <3>2 DEF Positions
  <2>2. CASE ~ (a = home[i] /\ state[a].open # None)
    BY <1>2, <1>6, <2>2
  <2>3. QED BY <2>1, <2>2
<1>7. Homes' BY <1>1, <1>3, <1>4, <1>5, <1>6 DEF Reported, Homes
<1>8. Cooled' BY <1>1, <1>2, <1>6 DEF Reported, Cooled, UpToCooldown
<1>9. RefIsOwnFill'
  <2> SUFFICES ASSUME NEW a \in Bases, state'[a].open # None,
                      fill'[state'[a].open.id] # 0
               PROVE  \/ state'[a].open.ref = fill'[state'[a].open.id]
                      \/ \E j \in {k \in tardy' : home'[k] = a /\ k # state'[a].open.id} :
                            state'[a].open.ref = fill'[j]
    BY DEF RefIsOwnFill
  <2> DEFINE p == state[a].open
  <2>1. state[a].open # None /\ p.id \in Ids /\ home[p.id] = a
    BY <1>6, OpenIsEntered DEF Reported, Homes
  <2>2. CASE a = home[i] /\ i = p.id BY <1>3, <1>6, <2>2
  <2>3. CASE a = home[i] /\ i # p.id
    <3>1. since[i] = Cooldown BY <1>5, <2>1, <2>3 DEF Reported, Cooled
    <3>2. i \in tardy' /\ home'[i] = a /\ fill'[i] = price BY <1>1, <1>3, <2>3, <3>1
    <3>3. QED BY <1>6, <2>3, <3>2
  <2>4. CASE a # home[i]
    <3>1. p.id # i /\ fill'[p.id] = fill[p.id] BY <1>3, <2>1, <2>4
    <3>2. tardy \subseteq tardy' /\ tardy \subseteq Ids /\ home' = home
      BY <1>1, <1>4 DEF Reported, Homes
    <3>3. \A j \in tardy : home[j] = a => fill'[j] = fill[j] BY <1>3, <2>4, <3>2
    <3>4. state'[a].open.id = p.id /\ state'[a].open.ref = p.ref BY <1>6, <2>4
    <3>5. QED BY <2>1, <3>1, <3>2, <3>3, <3>4 DEF Reported, RefIsOwnFill
  <2>5. QED BY <2>2, <2>3, <2>4
<1>10. QED BY <1>7, <1>8, <1>9 DEF Reported

\* Every step of the strategy keeps what is known of the reports.
LEMMA ReportedStep ==
  ASSUME ConstantsOK, Places, Reported, BNext
  PROVE  Reported'
<1>0. /\ since \in [Ids -> 0..Cooldown] /\ entered \subseteq Ids /\ Cooldown \in Nat
      /\ OldEntry \in Nat /\ \A i \in entered, b \in Bases : home[i] = b =>
            UpToCooldown(state[b].entered) <= since[i]
  <2>1. Cooldown \in Nat /\ OldEntry \in Nat /\ MaxPosId \in Nat BY Caps DEF ConstantsOK
  <2>2. entered \subseteq Ids BY <2>1 DEF Places, Numbered, Ids
  <2>3. QED BY <2>1, <2>2 DEF Reported, Cooled
<1>1. ASSUME NEW b \in Bases, NEW mid \in Prices, NEW d \in Delays, BOnLeader(b, mid, d)
      PROVE  Reported'
  <2>1. /\ OnLeader(b, mid, d) /\ UNCHANGED <<fill, tardy>>
        /\ home' = [i \in Ids |-> IF i = next_id /\ next_id' # next_id THEN b ELSE home[i]]
        /\ since' = [i \in Ids |-> IF i = next_id /\ next_id' # next_id
                                   THEN UpToCooldown(d) ELSE since[i]]
    BY <1>1 DEF BOnLeader
  <2>2. PICK s \in BaseStates :
              /\ state' = [state EXCEPT ![b] = s]
              /\ \/ /\ s.open = state[b].open /\ s.entered = state[b].entered
                    /\ UNCHANGED <<next_id, entered>>
                 \/ /\ state[b].entered - d >= Cooldown
                    /\ s.open \in Positions /\ s.open.id = next_id /\ s.entered = d
                    /\ next_id' = next_id + 1 /\ entered' = entered \union {next_id}
    BY <2>1, OnLeaderDoes DEF Places
  <2>3. state'[b] = s /\ \A a \in Bases \ {b} : state'[a] = state[a]
    BY <2>2 DEF Places, Shapes
  <2>4. CASE /\ s.open = state[b].open /\ s.entered = state[b].entered
             /\ UNCHANGED <<next_id, entered>>
    <3>1. home' = home /\ since' = since BY <1>0, <2>1, <2>4 DEF Reported, Homes
    <3>2. \A a \in Bases : state'[a].open = state[a].open /\ state'[a].entered = state[a].entered
      BY <2>3, <2>4
    <3>3. QED BY <1>0, <2>1, <2>4, <3>1, <3>2, ReportedStays
  <2>5. CASE /\ state[b].entered - d >= Cooldown
             /\ s.open \in Positions /\ s.open.id = next_id /\ s.entered = d
             /\ next_id' = next_id + 1 /\ entered' = entered \union {next_id}
    <3>1. next_id' # next_id BY <2>5 DEF Places, Numbered
    <3>2. d \in Nat BY DEF ConstantsOK
    <3>3. home' = [i \in Ids |-> IF i = next_id THEN b ELSE home[i]] BY <2>1, <3>1
    <3>4. since' = [i \in Ids |-> IF i = next_id THEN UpToCooldown(d) ELSE since[i]]
      BY <2>1, <3>1
    <3>5. state' = [state EXCEPT ![b] = s] /\ UNCHANGED <<fill, tardy>> BY <2>1, <2>2
    <3>6. QED BY ONLY <2>5, <3>2, <3>3, <3>4, <3>5, ConstantsOK, Places, Reported,
               b \in Bases, s \in BaseStates, ReportedOpens
  <2>6. QED BY <2>2, <2>4, <2>5
<1>2. ASSUME NEW b \in Bases, NEW mid \in Prices, NEW d \in Delays, BOnFollower(b, mid, d)
      PROVE  Reported'
  <2>1. OnFollower(b, mid, d) /\ UNCHANGED <<home, since, fill, tardy>>
    BY <1>2 DEF BOnFollower, reports
  <2>2. UNCHANGED <<next_id, entered>> /\ \E s \in BaseStates :
              /\ state' = [state EXCEPT ![b] = s] /\ s.entered = state[b].entered
              /\ s.open = state[b].open \/ s.open = None
    BY <2>1, OnFollowerDoes DEF Places
  <2>3. PICK s \in BaseStates :
              /\ state' = [state EXCEPT ![b] = s] /\ s.entered = state[b].entered
              /\ s.open = state[b].open \/ s.open = None
    BY <2>2
  <2>4. \A a \in Bases : /\ state'[a].entered = state[a].entered
                         /\ state'[a].open = state[a].open \/ state'[a].open = None
    BY <2>3 DEF Places, Shapes
  <2>5. QED BY <1>0, <2>1, <2>2, <2>4, ReportedStays
<1>3. CASE BSweepExits
  <2>1. SweepExits /\ UNCHANGED <<home, since, fill, tardy>> BY <1>3 DEF BSweepExits, reports
  <2>2. UNCHANGED <<next_id, entered>> /\ \A b \in Bases :
          /\ state'[b].entered = state[b].entered
          /\ state'[b].open = IF Expired(b) THEN None ELSE state[b].open
    BY <2>1, SweepDoes DEF Places
  <2>3. QED BY <1>0, <2>1, <2>2, ReportedStays
<1>4. ASSUME NEW t \in Tasks, BLogClose(t)
      PROVE  Reported'
  BY <1>0, <1>4, ReportedStays DEF BLogClose, LogClose, reports
<1>5. CASE BAge
  <2>1. /\ Age /\ UNCHANGED <<home, fill, tardy>>
        /\ since' = [i \in Ids |-> IF i \in entered THEN Older(since[i], Cooldown) ELSE 0]
    BY <1>5 DEF BAge
  <2>2. UNCHANGED <<next_id, entered>> /\ \A b \in Bases :
          /\ state'[b].entered = Older(state[b].entered, OldEntry)
          /\ state'[b].open = IF state[b].open = None THEN None
                              ELSE [state[b].open EXCEPT !.held = Older(@, OldHeld)]
    BY <2>1, AgeDoes DEF Places
  <2>3. ASSUME NEW a \in Bases, state'[a].open # None
        PROVE  /\ state[a].open # None /\ state'[a].open.id = state[a].open.id
               /\ state'[a].open.ref = state[a].open.ref
    <3>1. state[a].open # None BY <2>2, <2>3
    <3>2. state'[a].open = [state[a].open EXCEPT !.held = Older(@, OldHeld)]
      BY <2>2, <3>1
    <3>3. state[a].open \in Positions BY <3>1, OpenIsEntered
    <3>4. QED BY <3>1, <3>2, <3>3 DEF Positions
  <2>4. \A i \in Ids : Older(since[i], Cooldown) \in 0..Cooldown BY <1>0 DEF Older
  <2>5. since' \in [Ids -> 0..Cooldown] BY <1>0, <2>1, <2>4
  <2>6. \A i \in entered : since'[i] = Older(since[i], Cooldown) BY <1>0, <2>1
  <2>7. \A i \in entered : since[i] = Cooldown => since'[i] = Cooldown
    BY <1>0, <2>6 DEF Older
  <2>8. ASSUME NEW i \in entered, NEW b \in Bases, home[i] = b
        PROVE  UpToCooldown(state'[b].entered) <= since'[i]
    <3>1. UpToCooldown(state[b].entered) <= since[i] /\ since[i] \in 0..Cooldown
      BY <1>0, <2>8
    <3>2. state[b].entered \in Nat
      <4>1. state[b] \in BaseStates BY DEF Places, Shapes
      <4>2. QED BY <4>1 DEF BaseStates
    <3>3. state'[b].entered = Older(state[b].entered, OldEntry) BY <2>2
    <3>4. QED BY <1>0, <2>6, <3>1, <3>2, <3>3 DEF Older, UpToCooldown
  <2>9. QED BY <2>1, <2>2, <2>3, <2>5, <2>7, <2>8, ReportedStays
<1>6. QED BY <1>1, <1>2, <1>3, <1>4, <1>5, ReportedFills DEF BNext

BingxInv == LeadInv /\ Reported

\* Every step keeps the invariant and is a step of the ledger.
LEMMA BingxStep ==
  ConstantsOK /\ BingxInv /\ [BNext]_bvars =>
    BingxInv' /\ [Ledger!Next]_(Ledger!ledger)
<1> SUFFICES ASSUME ConstantsOK, BingxInv, [BNext]_bvars
             PROVE  BingxInv' /\ [Ledger!Next]_(Ledger!ledger)
  OBVIOUS
<1>1. CASE BNext
  <2>1. Places' /\ (Waits \/ Opens \/ Sends)
    BY <1>1, BNextIs, PlacesStep DEF BingxInv, LeadInv, Reported, Homes
  <2>2. Owed' /\ [Ledger!Next]_(Ledger!ledger)
    BY <2>1, OwedStep, LedgerStep DEF BingxInv, LeadInv
  <2>3. Reported' BY <1>1, ReportedStep DEF BingxInv, LeadInv
  <2>4. QED BY <2>1, <2>2, <2>3 DEF BingxInv, LeadInv
<1>2. CASE UNCHANGED bvars
  <2>1. UNCHANGED <<vars, home, since, fill, tardy>> BY <1>2 DEF bvars, reports
  <2>2. LeadInv' /\ [Ledger!Next]_(Ledger!ledger) BY <2>1, LeadStep DEF BingxInv
  <2>3. Reported'
    BY <2>1 DEF BingxInv, Reported, Homes, Cooled, RefIsOwnFill, vars
  <2>4. QED BY <2>2, <2>3 DEF BingxInv
<1>3. QED BY <1>1, <1>2

\* Nothing was entered or reported at the start.
LEMMA BingxInit == ConstantsOK /\ BInit => BingxInv
<1> SUFFICES ASSUME ConstantsOK, BInit PROVE BingxInv
  OBVIOUS
<1>1. LeadInv BY LeadInit DEF BInit
<1>2. (\A b \in Bases : state[b].open = None) /\ entered = {} BY DEF BInit, Init
<1>3. Cooldown \in Nat BY DEF ConstantsOK
<1>4. Homes /\ Cooled /\ RefIsOwnFill
  BY <1>2, <1>3 DEF BInit, NoReports, Homes, Cooled, RefIsOwnFill
<1>5. QED BY <1>1, <1>4 DEF BingxInv, Reported

\* Every reachable state satisfies the invariant.
LEMMA BingxInvCorrect == ConstantsOK /\ BSpec => []BingxInv
<1> SUFFICES ASSUME ConstantsOK PROVE BSpec => []BingxInv
  OBVIOUS
<1>1. BInit => BingxInv BY BingxInit
<1>2. BingxInv /\ [BNext]_bvars => BingxInv' BY BingxStep
<1>3. QED BY <1>1, <1>2, PTL DEF BSpec

\* The reports, whenever they come, make the strategy neither send an exit twice nor
\* drop one.
THEOREM BingxExitOnceCorrect == ConstantsOK /\ BSpec => [](TypeOK /\ ExitOnce)
<1> SUFFICES ASSUME ConstantsOK PROVE BSpec => [](TypeOK /\ ExitOnce)
  OBVIOUS
<1>1. BingxInv => TypeOK /\ ExitOnce BY LeadInvShows DEF BingxInv
<1>2. QED BY <1>1, BingxInvCorrect, PTL

\* The signals of the strategy with fill reports are those of the ledger.
THEOREM BingxImplementsLedger == ConstantsOK /\ BSpec => Ledger!Spec
<1> SUFFICES ASSUME ConstantsOK PROVE BSpec => Ledger!Spec
  OBVIOUS
<1>1. BInit => Ledger!Init BY DEF BInit, Init, Ledger!Init
<1>2. BingxInv /\ [BNext]_bvars => [Ledger!Next]_(Ledger!ledger) BY BingxStep
<1>3. QED BY <1>1, <1>2, BingxInvCorrect, PTL DEF BSpec, Ledger!Spec

\* "ref_mid is the actual maker fill price, not the signal-time mid": once the fill of
\* the open position is known, exits are measured from it, for any number of bases and
\* positions and however late reports come, but for the stray report of an earlier
\* position that came a cooldown or more after its entry.
THEOREM RefIsOwnFillCorrect == ConstantsOK /\ BSpec => []RefIsOwnFill
<1> SUFFICES ASSUME ConstantsOK PROVE BSpec => []RefIsOwnFill
  OBVIOUS
<1>1. BingxInv => RefIsOwnFill BY DEF BingxInv, Reported
<1>2. QED BY <1>1, BingxInvCorrect, PTL
===============================================================================
