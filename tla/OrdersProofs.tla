----------------------------- MODULE OrdersProofs -----------------------------
(***************************************************************************)
(* Proofs about MCOrders: what the `orders` run checks of the books, the   *)
(* decision, the approval, the client and the parked orders, for all       *)
(* symbols, feeds, sizes, limits, windows and lags.                        *)
(*                                                                         *)
(* Each component has an inductive invariant of its own: the spaced        *)
(* history and the quotes of a feed (CacheInv), the answers of a decision  *)
(* (DecisionInv), what calls have cost and what the windows still show     *)
(* (ClientInv), how far anybody's view of a parked order is behind         *)
(* (AmendsInv), what is on its way to a position, weighed by the passes it *)
(* was approved in (ExposureInv), and the records of the opening orders    *)
(* (RateInv).                                                              *)
(***************************************************************************)
EXTENDS MCOrders, FiniteSetTheorems, SequenceTheorems, NaturalsInduction,
        WellFoundedInduction, TLAPS

-----------------------------------------------------------------------------
(* Numbers and sequences                                                   *)

\* A nonempty set of natural numbers has a least member.
LEMMA LeastExists ==
  ASSUME NEW S \in SUBSET Nat, S # {}
  PROVE  \E x \in S : \A y \in S : x <= y
<1>1. PICK x \in S : \A y \in S : ~ (<<y, x>> \in OpToRel(<, Nat))
  BY NatLessThanWellFounded, WFMin, Zenon
<1>2. \A y \in S : ~ (y < x) BY <1>1, Zenon DEF OpToRel
<1>3. QED BY <1>2

\* A nonempty set of numbers up to n has a greatest one.
LEMMA GreatestExists ==
  ASSUME NEW n \in Nat, NEW S \in SUBSET (0..n), S # {}
  PROVE  \E x \in S : \A y \in S : y <= x
<1> DEFINE T == {n - x : x \in S}
<1>1. T \in SUBSET Nat /\ T # {}
  <2>1. \A x \in S : n - x \in Nat OBVIOUS
  <2>2. PICK x \in S : TRUE BY Zenon
  <2>3. n - x \in T BY <2>2
  <2>4. QED BY <2>1, <2>3
<1>2. PICK t \in T : \A u \in T : t <= u
  <2> HIDE DEF T
  <2>1. QED BY <1>1, LeastExists
<1>3. PICK x \in S : t = n - x BY <1>2
<1>4. ASSUME NEW y \in S PROVE y <= x
  <2>1. n - y \in T OBVIOUS
  <2>2. n - x <= n - y BY <1>2, <1>3, <2>1, Zenon
  <2>3. QED BY <2>2
<1>5. QED BY <1>4

\* A sequence with one more element, without its first, or without its first ones.
LEMMA Appended ==
  ASSUME NEW S, NEW q \in Seq(S), NEW e \in S, NEW r, r = Append(q, e)
  PROVE  /\ r \in Seq(S) /\ Len(q) \in Nat /\ Len(r) = Len(q) + 1 /\ r # <<>>
         /\ DOMAIN r = 1..Len(q) + 1 /\ DOMAIN q = 1..Len(q)
         /\ \A i \in 1..Len(q) : r[i] = q[i]
         /\ r[Len(q) + 1] = e
BY AppendProperties, LenProperties

\* A sequence without its first element.
LEMMA Tailed ==
  ASSUME NEW S, NEW q \in Seq(S), q # <<>>, NEW r, r = Tail(q)
  PROVE  /\ r \in Seq(S) /\ Len(q) \in Nat \ {0} /\ Len(r) = Len(q) - 1
         /\ DOMAIN r = 1..Len(q) - 1 /\ DOMAIN q = 1..Len(q)
         /\ \A i \in 1..Len(q) - 1 : r[i] = q[i + 1]
         /\ Head(q) = q[1] /\ q[1] \in S
<1>1. r \in Seq(S) /\ Len(r) = Len(q) - 1 /\ \A i \in 1..Len(r) : r[i] = q[i + 1]
  BY HeadTailProperties
<1>2. Len(q) \in Nat \ {0} BY EmptySeq
<1>3. Head(q) = q[1] /\ q[1] \in S BY <1>2, HeadTailProperties
<1>4. DOMAIN r = 1..Len(r) /\ DOMAIN q = 1..Len(q) BY <1>1, LenProperties
<1>5. QED BY <1>1, <1>2, <1>3, <1>4

\* The end of a sequence from its m-th element.
LEMMA Suffixed ==
  ASSUME NEW S, NEW q \in Seq(S), NEW m \in 1..Len(q) + 1, NEW r, r = SubSeq(q, m, Len(q))
  PROVE  /\ r \in Seq(S) /\ Len(q) \in Nat /\ Len(r) = Len(q) - m + 1
         /\ DOMAIN r = 1..Len(q) - m + 1 /\ DOMAIN q = 1..Len(q)
         /\ \A i \in 1..Len(q) - m + 1 : r[i] = q[m + i - 1]
<1>1. Len(q) \in Nat /\ DOMAIN q = 1..Len(q) BY LenProperties
<1>2. \A i \in m..Len(q) : q[i] \in S BY <1>1, ElementOfSeq
<1>3. /\ r \in Seq(S) /\ Len(r) = IF m <= Len(q) THEN Len(q) - m + 1 ELSE 0
      /\ \A i \in 1..Len(q) - m + 1 : r[i] = q[m + i - 1]
  BY <1>1, <1>2, SubSeqProperties
<1>4. Len(r) = Len(q) - m + 1 BY <1>1, <1>3
<1>5. QED BY <1>1, <1>3, <1>4, LenProperties

-----------------------------------------------------------------------------
(* OrderDecision                                                           *)

\* A signal is of a side, or there is none.
Signals(signal) == signal = Decision!NoSignal \/ signal.side \in Decision!Sides

\* A signal that is made is of the side it is made for.
LEMMA SignalSided ==
  ASSUME NEW side \in Decision!Sides, NEW web, NEW base
  PROVE  Decision!SignalOf(side, web, base).side = side
BY DEF Decision!SignalOf

\* Crossed books give a signal of a side, or none.
LEMMA CrossedSided ==
  ASSUME NEW web, NEW base
  PROVE  Signals(Decision!Crossed(web, base))
BY SignalSided DEF Decision!Crossed, Signals, Decision!Sides

\* So does a gap that reverts to its mean.
LEMMA RevertingSided ==
  ASSUME NEW web, NEW base, NEW gaps
  PROVE  Signals(Decision!Reverting(web, base, gaps))
<1> DEFINE bare(side) == [Decision!SignalOf(side, web, base) EXCEPT
                             !.chance = 0, !.base_chance = Decision!NoQuote]
<1>1. \A side \in Decision!Sides : bare(side).side = side
  BY DEF Decision!SignalOf
<1>2. \/ Decision!Reverting(web, base, gaps) = bare("buy")
      \/ Decision!Reverting(web, base, gaps) = bare("sell")
      \/ Decision!Reverting(web, base, gaps) = Decision!NoSignal
  BY DEF Decision!Reverting
<1> HIDE DEF bare
<1>3. QED BY <1>1, <1>2 DEF Signals, Decision!Sides

\* And what asks for any signal where there was none.
LEMMA AnySided ==
  ASSUME NEW signal, NEW web, NEW base, Signals(signal)
  PROVE  Signals(Decision!AnySignal(signal, web, base))
<1> DEFINE side == IF web.bid + web.ask < 0 THEN "buy" ELSE "sell"
           any == [Decision!SignalOf(side, web, Decision!NoQuote) EXCEPT
                      !.price = IF side = "buy" THEN web.bid ELSE web.ask,
                      !.chance = 0, !.resting = FALSE]
<1>1. side \in Decision!Sides BY DEF Decision!Sides
<1>2. any.side = side BY DEF Decision!SignalOf
<1>3. Decision!AnySignal(signal, web, base) \in {signal, any}
  BY DEF Decision!AnySignal
<1> HIDE DEF any, side
<1>4. QED BY <1>1, <1>2, <1>3 DEF Signals

\* So every signal of decide_order is of a side, or there is none.
LEMMA SignalTyped ==
  ASSUME NEW web, NEW base, NEW gaps, NEW flags
  PROVE  Signals(Decision!signal_of(web, base, gaps, flags))
<1>1. Signals(Decision!NoSignal) BY DEF Signals
<1>2. \A b : Signals(Decision!Crossed(web, b)) BY CrossedSided
<1>3. Signals(Decision!calculate_signal(web, base))
  BY <1>1, <1>2 DEF Decision!calculate_signal
<1>4. \A newer : Signals(Decision!calculate_signal_v8(web, base, gaps, newer))
  BY <1>1, CrossedSided, RevertingSided DEF Decision!calculate_signal_v8
<1>5. \A gap : Signals(Decision!calculate_signal_v10(web, base, gap))
  BY <1>1, <1>2 DEF Decision!calculate_signal_v10
<1>6. \A s : Signals(s) => Signals(Decision!AnySignal(s, web, base)) BY AnySided
<1>7. QED BY <1>3, <1>4, <1>5, <1>6
  DEF Decision!signal_of, Decision!AnySignalV10, Decision!AnySignalV6_0

\* What the strategies answer: a level or none; a symbol that may only be closed
\* is not opened, and a limit close is against the mirror.
Outcome(in, level) ==
  /\ level \in Decision!Levels \cup {"none"}
  /\ level = "limit_open" => ~Decision!Only_close(in)
Against(in, level) ==
  level = "limit_close" =>
    ~((in.side = "buy" /\ in.position >= 0) \/ (in.side = "sell" /\ in.position <= 0))

\* open_or_close answers a level, and opens nothing that may only be closed.
LEMMA OpenOutcome == ASSUME NEW in PROVE Outcome(in, Decision!OpenOrClose(in))
BY DEF Outcome, Decision!OpenOrClose, Decision!Levels

\* So does a position that is turned around.
LEMMA TurnOutcome ==
  ASSUME NEW in, NEW careful PROVE Outcome(in, Decision!TurnAround(in, careful))
BY DEF Outcome, Decision!TurnAround, Decision!Levels

\* So does the exit of a narrative.
LEMMA ExitOutcome == ASSUME NEW in PROVE Outcome(in, Decision!NarrativeExit(in))
<1>1. Outcome(in, "none") BY DEF Outcome
<1>2. Outcome(in, Decision!TurnAround(in, TRUE)) /\ Outcome(in, Decision!TurnAround(in, FALSE))
  BY TurnOutcome, Zenon
<1>3. Decision!NarrativeExit(in)
        \in {"none", Decision!TurnAround(in, TRUE), Decision!TurnAround(in, FALSE)}
  BY DEF Decision!NarrativeExit
<1>4. QED BY <1>1, <1>2, <1>3, Zenon

\* So does the long-term exit.
LEMMA LongOutcome == ASSUME NEW in PROVE Outcome(in, Decision!LongTerm(in))
BY DEF Outcome, Decision!LongTerm, Decision!Levels

\* So does the level of v8.
LEMMA LevelOutcome == ASSUME NEW in PROVE Outcome(in, Decision!LevelV8(in))
<1>1. Outcome(in, "none") /\ Outcome(in, "limit_close")
  BY DEF Outcome, Decision!Levels
<1>2. Decision!LevelV8(in) \in {"none", "limit_close", Decision!OpenOrClose(in),
         Decision!NarrativeExit(in), Decision!LongTerm(in)}
  BY DEF Decision!LevelV8
<1>3. QED BY <1>1, <1>2, OpenOutcome, ExitOutcome, LongOutcome

\* An old position is left as the near signal says, or closed.
LEMMA OldExitOutcome ==
  ASSUME NEW in, NEW near, Outcome(in, near)
  PROVE  Outcome(in, Decision!OldExit(in, near))
<1>1. Outcome(in, "none") /\ Outcome(in, "limit_close")
  BY DEF Outcome, Decision!Levels
<1>2. Decision!OldExit(in, near) \in {"none", "limit_close", near}
  BY DEF Decision!OldExit
<1>3. QED BY <1>1, <1>2

\* The last filter takes a limit close that is not against the position away.
LEMMA DirectedOutcome ==
  ASSUME NEW in, NEW level, Outcome(in, level)
  PROVE  /\ Outcome(in, Decision!Directed(in, level))
         /\ Against(in, Decision!Directed(in, level))
BY DEF Outcome, Against, Decision!Directed

\* A market close in its place opens nothing.
LEMMA MarketOutcome ==
  ASSUME NEW in, NEW level, NEW against, Outcome(in, level), Against(in, level)
  PROVE  /\ Outcome(in, Decision!AtMarket(in, level, against))
         /\ Against(in, Decision!AtMarket(in, level, against))
BY DEF Outcome, Against, Decision!AtMarket, Decision!Levels

\* The answers of all versions are levels, and sound ones.
LEMMA DecideOutcome ==
  ASSUME NEW in
  PROVE  Outcome(in, Decision!decide_order(in)) /\ Against(in, Decision!decide_order(in))
<1>1. \A l \in {"none", "market_close"} : Outcome(in, l) /\ Against(in, l)
  BY DEF Outcome, Against, Decision!Levels
<1>2. Outcome(in, "limit_close") BY DEF Outcome, Decision!Levels
<1>3. Outcome(in, Decision!DecideV8(in)) /\ Against(in, Decision!DecideV8(in))
  <2>1. Outcome(in, Decision!LevelV8(in)) BY LevelOutcome
  <2>2. /\ Outcome(in, Decision!Directed(in, Decision!LevelV8(in)))
        /\ Against(in, Decision!Directed(in, Decision!LevelV8(in)))
    BY <2>1, DirectedOutcome
  <2>3. Decision!DecideV8(in) \in
          {"none", Decision!AtMarket(in, Decision!Directed(in, Decision!LevelV8(in)), TRUE)}
    BY DEF Decision!DecideV8
  <2>4. QED BY <1>1, <2>2, <2>3, MarketOutcome, Zenon
<1>4. Outcome(in, Decision!DecideV6(in)) /\ Against(in, Decision!DecideV6(in))
  <2> DEFINE level == IF Decision!OldEntry(in) THEN Decision!OpenOrClose(in)
                      ELSE IF in.size <= Decision!MaxSizeTrigger
                      THEN Decision!OldExit(in, "limit_close") ELSE "none"
  <2>1. Outcome(in, level) BY <1>1, <1>2, OpenOutcome, OldExitOutcome
  <2>2. Decision!DecideV6(in) \in {"none", "market_close",
          Decision!AtMarket(in, Decision!Directed(in, level), FALSE)}
    BY DEF Decision!DecideV6
  <2> HIDE DEF level
  <2>3. Outcome(in, Decision!Directed(in, level)) /\ Against(in, Decision!Directed(in, level))
    BY <2>1, DirectedOutcome
  <2>4. QED BY <1>1, <2>2, <2>3, MarketOutcome, Zenon
<1>5. Outcome(in, Decision!DecideV7(in)) /\ Against(in, Decision!DecideV7(in))
  <2> DEFINE level == IF Decision!OldEntry(in) THEN Decision!OpenOrClose(in)
                      ELSE Decision!OldExit(in, Decision!OpenOrClose(in))
  <2>1. Outcome(in, level) BY OpenOutcome, OldExitOutcome
  <2>2. Decision!DecideV7(in) \in {"none", Decision!Directed(in, level)}
    BY DEF Decision!DecideV7
  <2> HIDE DEF level
  <2>3. QED BY <1>1, <2>1, <2>2, DirectedOutcome
<1>6. QED BY <1>3, <1>4, <1>5
  DEF Decision!decide_order, Decision!DecideV6_0, Decision!DecideCloseV1

\* The types of the decision, by part, and its two properties.
DecisionInv ==
  /\ d_version \in Deciders /\ d_now \in Start..LastSecond
  /\ d_position \in -MaxMirrored..MaxMirrored
  /\ d_update_time \in 0..d_now /\ (d_update_time = 0 <=> d_position = 0)
  /\ d_seen = Decision!Unseen \/ d_seen \in -MaxMirrored..MaxMirrored
  /\ d_decision = Decision!None
       \/ (d_decision.level \in Decision!Levels /\ d_decision.side \in Decision!Sides)
  /\ Decision!OnlyCloseHolds /\ Decision!ClosesOppose

\* The start.
LEMMA DecisionStart == Decision!ConstantsOK /\ Decision!Init => DecisionInv
BY DEF Decision!ConstantsOK, Decision!Init, DecisionInv, Decision!OnlyCloseHolds,
       Decision!ClosesOppose, Decision!None

\* What decide_order makes of a question keeps both properties.
LEMMA AnswerSound ==
  ASSUME Decision!ConstantsOK, NEW in, in.side \in Decision!Sides, in.position \in Int,
         NEW r, r = Decision!Answer(in)
  PROVE  \/ r = Decision!None
         \/ /\ r.level \in Decision!Levels /\ r.side \in Decision!Sides
            /\ ~(r.only_close /\ r.level = "limit_open")
            /\ r.level = "limit_close" =>
                 IF r.side = "buy" THEN r.at < 0 ELSE r.at > 0
<1>1. PICK level : level = Decision!decide_order(in) OBVIOUS
<1>2. Outcome(in, level) /\ Against(in, level) BY <1>1, DecideOutcome
<1>3. CASE level = "none" BY <1>1, <1>3 DEF Decision!Answer
<1>4. CASE level # "none"
  <2>1. /\ r.level = level /\ r.side = in.side /\ r.at = in.position
        /\ r.only_close = Decision!RestrictedTo(in, level)
    BY <1>1, <1>4 DEF Decision!Answer
  <2>2. level \in Decision!Levels BY <1>2, <1>4 DEF Outcome
  <2>3. level = "limit_open" => ~Decision!RestrictedTo(in, level)
    BY <1>2 DEF Outcome, Decision!RestrictedTo
  <2>4. level = "limit_close" =>
          IF in.side = "buy" THEN in.position < 0 ELSE in.position > 0
    BY <1>2 DEF Against, Decision!Sides
  <2>5. QED BY <2>1, <2>2, <2>3, <2>4
<1>5. QED BY <1>3, <1>4

\* A decision keeps the invariant: its position is the one it was asked about.
LEMMA DecisionDecides ==
  ASSUME Decision!ConstantsOK, DecisionInv, NEW web, NEW base, NEW gaps, NEW size, NEW flags,
         NEW net, Decision!Decide(web, base, gaps, size, flags, net)
  PROVE  DecisionInv'
<1>1. /\ d_seen' = Decision!Unseen
      /\ UNCHANGED <<d_version, d_now, d_position, d_update_time>>
  BY DEF Decision!Decide
<1>2. PICK signal : signal = Decision!signal_of(web, base, gaps, flags) OBVIOUS
<1>3. Signals(signal) BY <1>2, SignalTyped
<1>4. CASE d_decision' = Decision!None
  BY <1>1, <1>4 DEF DecisionInv, Decision!OnlyCloseHolds, Decision!ClosesOppose, Decision!None
<1>5. CASE signal # Decision!NoSignal
  <2>1. PICK in : in = Decision!Question(signal, web, base, gaps, size, flags, net) OBVIOUS
  <2>2. in.side = signal.side /\ in.position = d_position BY <2>1 DEF Decision!Question
  <2>3. in.side \in Decision!Sides BY <1>3, <1>5, <2>2 DEF Signals
  <2>4. in.position \in Int BY <2>2 DEF DecisionInv, Decision!ConstantsOK
  <2>5. d_decision' = Decision!Answer(in) BY <1>2, <1>5, <2>1 DEF Decision!Decide
  <2>6. \/ d_decision' = Decision!None
        \/ /\ d_decision'.level \in Decision!Levels /\ d_decision'.side \in Decision!Sides
           /\ ~(d_decision'.only_close /\ d_decision'.level = "limit_open")
           /\ d_decision'.level = "limit_close" =>
                IF d_decision'.side = "buy" THEN d_decision'.at < 0 ELSE d_decision'.at > 0
    BY <2>3, <2>4, <2>5, AnswerSound
  <2>7. Decision!OnlyCloseHolds' /\ Decision!ClosesOppose'
    BY <2>6 DEF Decision!OnlyCloseHolds, Decision!ClosesOppose, Decision!None
  <2>8. QED BY <1>1, <2>6, <2>7 DEF DecisionInv
<1>6. QED BY <1>2, <1>4, <1>5 DEF Decision!Decide

\* So does every other step: a later second, a mirrored position, what a loop saw.
LEMMA DecisionStep == Decision!ConstantsOK /\ DecisionInv /\ Decision!Next => DecisionInv'
<1> SUFFICES ASSUME Decision!ConstantsOK, DecisionInv, Decision!Next PROVE DecisionInv'
  OBVIOUS
<1> USE DEF DecisionInv, Decision!OnlyCloseHolds, Decision!ClosesOppose
<1>1. Start \in Nat \ {0} /\ LastSecond \in Nat /\ MaxMirrored \in Nat
  BY DEF Decision!ConstantsOK
<1>2. ASSUME NEW n \in -MaxMirrored..MaxMirrored, Decision!update_positions(n)
      PROVE  DecisionInv'
  BY <1>1, <1>2 DEF Decision!update_positions
<1>3. CASE Decision!Pass BY <1>1, <1>3 DEF Decision!Pass
<1>4. CASE Decision!Observe BY <1>1, <1>4 DEF Decision!Observe, Decision!None
<1>5. QED BY <1>2, <1>3, <1>4, DecisionDecides DEF Decision!Next

\* The invariant gives the types, and both properties of a decision.
LEMMA DecisionHolds ==
  DecisionInv => Decision!TypeOK /\ Decision!OnlyCloseHolds /\ Decision!ClosesOppose
BY DEF DecisionInv, Decision!TypeOK

-----------------------------------------------------------------------------
(* DataCache                                                               *)

Sample == [time : 0..MaxWall, snap : Cache!Snapshots]
Alone(f) == \A g \in Feeds : g[1] = f[1] => g = f

\* Of any two samples the later one is an interval younger, and none is too old.
Spaced(h) ==
  /\ \A i, j \in DOMAIN h : i < j => h[j].time - h[i].time >= Interval
  /\ h # <<>> => h[Len(h)].time - h[1].time <= MaxAge

\* A push keeps the history spaced: a sample of the same time is replaced, one too
\* early is dropped, and the oldest leave down to the cap and while they are too old.
LEMMA PushKeeps ==
  ASSUME Cache!ConstantsOK, NEW h \in Seq(Sample), Spaced(h), NEW e \in Sample
  PROVE  Cache!Push(h, e) \in Seq(Sample) /\ Spaced(Cache!Push(h, e))
<1> DEFINE prior == IF h = <<>> THEN -Interval ELSE Cache!Last(h).time
           kept == IF h # <<>> /\ prior = e.time THEN Cache!Front(h) ELSE h
           all  == Append(kept, e)
           left == {i \in DOMAIN all : i > Len(all) - MaxSamples /\ all[i].time >= e.time - MaxAge}
<1>0. /\ Interval \in Nat \ {0} /\ MaxSamples \in Nat \ {0} /\ MaxAge \in Nat \ {0}
      /\ MaxWall \in Nat
  BY DEF Cache!ConstantsOK
<1>1. CASE prior # e.time /\ e.time - prior < Interval
  BY <1>1 DEF Cache!Push
<1>2. CASE ~(prior # e.time /\ e.time - prior < Interval)
  <2>1. e.time \in 0..MaxWall BY DEF Sample
  <2>2. \A i \in DOMAIN h : h[i] \in Sample /\ h[i].time \in 0..MaxWall
    <3>1. \A i \in DOMAIN h : h[i] \in Sample BY LenProperties, ElementOfSeq
    <3>2. QED BY <3>1 DEF Sample
  <2>3. Len(h) \in Nat /\ DOMAIN h = 1..Len(h) BY LenProperties
  <2>4. /\ kept \in Seq(Sample) /\ Spaced(kept)
        /\ \A i \in DOMAIN kept : e.time - kept[i].time >= Interval
    <3>1. CASE h = <<>> BY <3>1, <2>3
    <3>2. CASE h # <<>> /\ prior = e.time
      <4>1. Len(h) \in Nat \ {0} BY <3>2, EmptySeq
      <4>2. PICK g : g = SubSeq(h, 1, Len(h) - 1) BY Zenon
      <4>3. \A i \in 1..Len(h) - 1 : h[i] \in Sample BY <2>2, <2>3
      <4>4. g \in Seq(Sample) BY <4>1, <4>2, <4>3, SubSeqProperties
      <4>13. PICK n \in Nat : n = Len(h) - 1 BY <4>1
      <4>14. Len(g) = IF 1 <= n THEN n - 1 + 1 ELSE 0
        BY <4>2, <4>3, <4>13, SubSeqProperties
      <4>5. Len(g) = Len(h) - 1 BY <4>13, <4>14
      <4>6. \A i \in 1..Len(h) - 1 : g[i] = h[i] BY <4>1, <4>2, <4>3, SubSeqProperties
      <4>7. DOMAIN g = 1..Len(h) - 1 BY <4>4, <4>5, LenProperties
      <4>8. \A i, j \in DOMAIN g : i < j => g[j].time - g[i].time >= Interval
        BY <2>3, <4>1, <4>6, <4>7 DEF Spaced
      <4>9. g # <<>> => g[Len(g)].time - g[1].time <= MaxAge
        <5> SUFFICES ASSUME g # <<>> PROVE g[Len(g)].time - g[1].time <= MaxAge OBVIOUS
        <5>1. Len(g) \in Nat \ {0} BY <4>4, EmptySeq
        <5>2. 1 \in DOMAIN h /\ Len(h) \in DOMAIN h /\ Len(h) - 1 \in DOMAIN h
          BY <2>3, <4>1, <4>5, <5>1
        <5>3. h[Len(h)].time - h[Len(h) - 1].time >= Interval
              /\ h[Len(h)].time - h[1].time <= MaxAge
          BY <3>2, <4>1, <5>2 DEF Spaced
        <5>4. g[Len(g)] = h[Len(h) - 1] /\ g[1] = h[1]
          BY <4>1, <4>5, <4>6, <5>1
        <5>5. h[Len(h)].time \in Int /\ h[Len(h) - 1].time \in Int /\ h[1].time \in Int
          BY <2>2, <5>2
        <5>6. QED BY <1>0, <5>3, <5>4, <5>5
      <4>10. \A i \in DOMAIN g : e.time - g[i].time >= Interval
        <5>1. h[Len(h)].time = e.time BY <3>2 DEF Cache!Last
        <5>2. QED BY <2>3, <4>1, <4>6, <4>7, <5>1 DEF Spaced
      <4>11. kept = g BY <3>2, <4>2 DEF Cache!Front
      <4>12. QED BY <4>4, <4>8, <4>9, <4>10, <4>11 DEF Spaced
    <3>3. CASE h # <<>> /\ prior # e.time
      <4>1. Len(h) \in Nat \ {0} BY <3>3, EmptySeq
      <4>2. e.time - h[Len(h)].time >= Interval
        <5>1. h[Len(h)].time \in Int BY <2>2, <2>3, <4>1
        <5>2. prior = h[Len(h)].time BY <3>3 DEF Cache!Last
        <5>3. QED BY <1>0, <1>2, <2>1, <3>3, <5>1, <5>2
      <4>3. \A i \in DOMAIN h : h[i].time <= h[Len(h)].time
        BY <1>0, <2>2, <2>3, <4>1 DEF Spaced
      <4>4. \A i \in DOMAIN h : e.time - h[i].time >= Interval
        BY <1>0, <2>1, <2>2, <2>3, <4>1, <4>2, <4>3
      <4>5. QED BY <3>3, <4>4
    <3>4. QED BY <3>1, <3>2, <3>3
  <2>5. PICK k \in Seq(Sample) : k = kept BY <2>4
  <2>6. PICK a : a = Append(k, e) BY Zenon
  <2>7. /\ a \in Seq(Sample) /\ Len(k) \in Nat /\ Len(a) = Len(k) + 1
        /\ DOMAIN a = 1..Len(k) + 1 /\ DOMAIN k = 1..Len(k)
        /\ (\A i \in 1..Len(k) : a[i] = k[i])
        /\ a[Len(k) + 1] = e
    BY <2>6, Appended
  <2>8. \A i \in DOMAIN a : a[i].time \in 0..MaxWall
    <3>1. \A i \in DOMAIN a : a[i] \in Sample BY <2>7, ElementOfSeq
    <3>2. QED BY <3>1 DEF Sample
  <2>9. \A i, j \in DOMAIN a : i < j => a[j].time - a[i].time >= Interval
    <3> SUFFICES ASSUME NEW i \in DOMAIN a, NEW j \in DOMAIN a, i < j
                 PROVE  a[j].time - a[i].time >= Interval
      OBVIOUS
    <3>1. i \in 1..Len(k) BY <2>7
    <3>2. CASE j \in 1..Len(k) BY <2>4, <2>5, <2>7, <3>1, <3>2, Zenon DEF Spaced
    <3>3. CASE j = Len(k) + 1 BY <2>4, <2>5, <2>7, <3>1, <3>3
    <3>4. QED BY <2>7, <3>2, <3>3
  <2>10. left = {i \in DOMAIN a : i > Len(a) - MaxSamples /\ a[i].time >= e.time - MaxAge}
    BY <2>5, <2>6
  <2>11. PICK L : L = left BY Zenon
  <2>12. Len(k) + 1 \in L
    <3>1. PICK n \in Nat : n = Len(k) + 1 /\ n \in DOMAIN a /\ Len(a) = n /\ a[n] = e
      BY <2>7
    <3>2. n > Len(a) - MaxSamples /\ a[n].time >= e.time - MaxAge BY <1>0, <2>1, <3>1
    <3>3. QED BY <2>10, <2>11, <3>1, <3>2
  <2>13. L \in SUBSET Nat BY <2>7, <2>10, <2>11
  <2>14. PICK m : m = CHOOSE i \in L : \A j \in L : i <= j OBVIOUS
  <2>15. m \in L BY <2>12, <2>13, <2>14, LeastExists, Zenon
  <2>16. m \in 1..Len(k) + 1 /\ a[m].time >= e.time - MaxAge BY <2>7, <2>10, <2>11, <2>15
  <2>17. PICK r : r = SubSeq(a, m, Len(a)) BY Zenon
  <2>18. Cache!Push(h, e) = r
    BY <1>2, <2>5, <2>6, <2>11, <2>14, <2>17, Zenon DEF Cache!Push
  <2>19. m \in 1..Len(a) + 1 BY <2>7, <2>16
  <2>20. /\ r \in Seq(Sample) /\ Len(r) = Len(a) - m + 1 /\ DOMAIN r = 1..Len(a) - m + 1
         /\ \A i \in 1..Len(a) - m + 1 : r[i] = a[m + i - 1]
    BY <2>7, <2>17, <2>19, Suffixed
  <2>21. \A i \in 1..Len(a) - m + 1 : m + i - 1 \in DOMAIN a BY <2>7, <2>16
  <2>22. \A i, j \in DOMAIN r : i < j => r[j].time - r[i].time >= Interval
    <3> SUFFICES ASSUME NEW i \in DOMAIN r, NEW j \in DOMAIN r, i < j
                 PROVE  r[j].time - r[i].time >= Interval
      OBVIOUS
    <3>1. i \in 1..Len(a) - m + 1 /\ j \in 1..Len(a) - m + 1 BY <2>20
    <3>2. m + i - 1 \in DOMAIN a /\ m + j - 1 \in DOMAIN a BY <2>21, <3>1
    <3>3. m + i - 1 < m + j - 1 BY <2>7, <2>16, <3>1
    <3>4. a[m + j - 1].time - a[m + i - 1].time >= Interval BY <2>9, <3>2, <3>3
    <3>5. QED BY <2>20, <3>1, <3>4
  <2>23. r[Len(r)] = e /\ r[1] = a[m] /\ a[m].time \in Int
    <3>1. PICK n \in Nat : n = Len(k) + 1 /\ Len(a) = n /\ m \in 1..n BY <2>7, <2>16
    <3>2. Len(r) = n - m + 1 /\ n - m + 1 \in 1..n - m + 1 /\ 1 \in 1..n - m + 1
      BY <2>20, <3>1
    <3>3. m + (n - m + 1) - 1 = n /\ m + 1 - 1 = m BY <3>1
    <3>4. r[n - m + 1] = a[n] /\ r[1] = a[m] BY <2>20, <3>1, <3>2, <3>3, Zenon
    <3>5. a[n] = e /\ a[m].time \in Int BY <2>7, <2>8, <2>16, <3>1
    <3>6. QED BY <3>2, <3>4, <3>5
  <2>24. r[Len(r)].time - r[1].time <= MaxAge
    BY <1>0, <2>1, <2>16, <2>23
  <2>25. QED BY <2>18, <2>20, <2>22, <2>24 DEF Spaced
<1>3. QED BY <1>1, <1>2

\* What a feed knows of its message: a previous quote is only read for gate.
Feeding(f) ==
  /\ k_feed[f].at = "previous" => f[1] = "gate"
  /\ k_feed[f].at # "previous" => k_feed[f].prev = 0
  /\ k_feed[f].at # "idle" => k_feed[f].msg >= 1

Fresh(f) ==
  /\ k_feed[f].at = "idle" => k_book[f[1]].cur = k_feed[f].msg
  /\ k_feed[f].at # "idle" => Cache!Inserts(f[1], k_book[f[1]].cur, k_feed[f].msg)
  /\ k_feed[f].at = "previous" => k_feed[f].prev = k_book[f[1]].cur
  /\ k_book[f[1]].cur # 0 => k_book[f[1]].prev < k_book[f[1]].cur

Steady(l) ==
  /\ k_loop[l].at \in {"gate", "web"} =>
       /\ k_loop[l].snap.gate = k_book["gate"].cur
       /\ k_loop[l].snap.prev = k_book["gate"].prev
  /\ k_loop[l].at = "web" => k_loop[l].snap.web = k_book["web"].cur

CacheTypes ==
  /\ k_book \in [Cache!Books -> [cur : Cache!Times, prev : Cache!Times]]
  /\ k_feed \in [Feeds -> [at : {"idle", "newer", "previous"}, msg : Cache!Times,
                           prev : Cache!Times]]
  /\ k_loop \in [Loops -> [at : {"idle", "gate", "web", "taken"}, time : 0..MaxWall,
                           snap : Cache!Snapshots]]
  /\ k_history \in Seq(Sample)
  /\ k_wall \in 0..MaxWall

CacheInv ==
  /\ CacheTypes
  /\ Spaced(k_history)
  /\ \A f \in Feeds : Feeding(f) /\ (Alone(f) => Fresh(f))
  /\ \A l \in Loops : Steady(l)

\* The start.
LEMMA CacheStart == Cache!ConstantsOK /\ Cache!Init => CacheInv
<1> SUFFICES ASSUME Cache!ConstantsOK, Cache!Init PROVE CacheInv OBVIOUS
<1>1. 0 \in Cache!Times /\ 0 \in 0..MaxWall /\ Cache!NoSnapshot \in Cache!Snapshots
  BY DEF Cache!ConstantsOK, Cache!Times, Cache!NoSnapshot, Cache!Snapshots
<1>2. CacheTypes BY <1>1 DEF Cache!Init, CacheTypes
<1>3. Spaced(k_history)
  <2>1. DOMAIN <<>> = {} OBVIOUS
  <2>2. QED BY <2>1 DEF Cache!Init, Spaced
<1>4. \A f \in Feeds : f[1] \in Cache!Books BY DEF Cache!ConstantsOK, Cache!Books
<1>5. \A f \in Feeds : Feeding(f) /\ Fresh(f)
  BY <1>4 DEF Cache!Init, Feeding, Fresh
<1>6. \A l \in Loops : Steady(l) BY DEF Cache!Init, Steady
<1>7. QED BY <1>2, <1>3, <1>5, <1>6 DEF CacheInv

\* The three steps of a feed: compare, read the previous quote, insert.
LEMMA CacheFeeds ==
  ASSUME Cache!ConstantsOK, CacheInv, NEW f \in Feeds,
         \/ \E msg \in 1..MaxTime : Cache!Compare(f, msg)
         \/ Cache!ReadPrevious(f) \/ Cache!Insert(f)
  PROVE  CacheInv'
<1>1. f[1] \in Cache!Books /\ "gate" \in Cache!Books /\ "web" \in Cache!Books
  BY DEF Cache!ConstantsOK, Cache!Books
<1>2. MaxTime \in Nat BY DEF Cache!ConstantsOK
<1>3. /\ k_feed[f] \in [at : {"idle", "newer", "previous"}, msg : 0..MaxTime, prev : 0..MaxTime]
      /\ \A b \in Cache!Books : k_book[b] \in [cur : 0..MaxTime, prev : 0..MaxTime]
      /\ DOMAIN k_feed = Feeds /\ DOMAIN k_book = Cache!Books
  BY DEF CacheInv, CacheTypes, Cache!Times
<1>4. Feeding(f) /\ (Alone(f) => Fresh(f)) BY DEF CacheInv
<1>5. ASSUME NEW msg \in 1..MaxTime, Cache!Compare(f, msg) PROVE CacheInv'
  <2>1. PICK at : at = IF Cache!Inserts(f[1], k_book[f[1]].cur, msg) THEN "newer" ELSE "idle"
    OBVIOUS
  <2>2. /\ k_feed[f].at = "idle" /\ k_feed[f].msg < msg
        /\ k_feed' = [k_feed EXCEPT ![f].msg = msg, ![f].at = at]
        /\ UNCHANGED <<k_book, k_loop, k_history, k_wall>>
    BY <1>5, <2>1 DEF Cache!Compare
  <2>3. k_feed[f].prev = 0 BY <1>4, <2>2 DEF Feeding
  <2>4. at \in {"idle", "newer"} BY <2>1
  <2>5. k_feed'[f].at = at /\ k_feed'[f].msg = msg /\ k_feed'[f].prev = 0
    BY <1>3, <2>2, <2>3
  <2>6. \A g \in Feeds \ {f} : k_feed'[g] = k_feed[g] BY <1>3, <2>2
  <2>7. CacheTypes'
    <3>1. msg \in 0..MaxTime BY <1>2
    <3>2. k_feed \in [Feeds -> [at : {"idle", "newer", "previous"}, msg : 0..MaxTime,
                                prev : 0..MaxTime]]
      BY DEF CacheInv, CacheTypes, Cache!Times
    <3>3. k_feed' \in [Feeds -> [at : {"idle", "newer", "previous"}, msg : 0..MaxTime,
                                 prev : 0..MaxTime]]
      BY <2>2, <2>4, <3>1, <3>2, Zenon
    <3>4. QED BY <2>2, <3>3 DEF CacheInv, CacheTypes, Cache!Times
  <2>8. Feeding(f)' BY <1>2, <2>4, <2>5 DEF Feeding
  <2>9. Alone(f) => Fresh(f)'
    BY <1>2, <1>3, <1>4, <2>1, <2>2, <2>5, <1>1 DEF Fresh, Cache!Inserts
  <2>10. \A g \in Feeds \ {f} : Feeding(g)' /\ (Alone(g) => Fresh(g)')
    BY <2>2, <2>6, Zenon DEF CacheInv, Feeding, Fresh
  <2>11. \A l \in Loops : Steady(l)' BY <2>2 DEF CacheInv, Steady
  <2>12. QED BY <2>2, <2>7, <2>8, <2>9, <2>10, <2>11 DEF CacheInv, Spaced, Alone
<1>6. CASE Cache!ReadPrevious(f)
  <2>1. PICK cur : cur = k_book["gate"].cur OBVIOUS
  <2>2. /\ k_feed[f].at = "newer" /\ f[1] = "gate"
        /\ k_feed' = [k_feed EXCEPT ![f].at = "previous", ![f].prev = cur]
        /\ UNCHANGED <<k_book, k_loop, k_history, k_wall>>
    BY <1>6, <2>1 DEF Cache!ReadPrevious
  <2>3. cur \in 0..MaxTime BY <1>1, <1>3, <2>1
  <2>5. /\ k_feed'[f].at = "previous" /\ k_feed'[f].msg = k_feed[f].msg
        /\ k_feed'[f].prev = cur
    BY <1>3, <2>2
  <2>6. \A g \in Feeds \ {f} : k_feed'[g] = k_feed[g] BY <1>3, <2>2
  <2>7. CacheTypes'
    BY <1>2, <1>3, <2>2, <2>3, Zenon DEF CacheInv, CacheTypes, Cache!Times
  <2>8. Feeding(f)' BY <1>4, <2>2, <2>5 DEF Feeding
  <2>9. Alone(f) => Fresh(f)' BY <1>4, <2>1, <2>2, <2>5 DEF Fresh
  <2>10. \A g \in Feeds \ {f} : Feeding(g)' /\ (Alone(g) => Fresh(g)')
    BY <2>2, <2>6, Zenon DEF CacheInv, Feeding, Fresh
  <2>11. \A l \in Loops : Steady(l)' BY <2>2 DEF CacheInv, Steady
  <2>12. QED BY <2>2, <2>7, <2>8, <2>9, <2>10, <2>11 DEF CacheInv, Spaced, Alone
<1>7. CASE Cache!Insert(f)
  <2>1. PICK c \in [cur : 0..MaxTime, prev : 0..MaxTime] :
          c = [cur |-> k_feed[f].msg, prev |-> k_feed[f].prev]
    BY <1>3, Zenon
  <2>2. /\ k_feed[f].at = IF f[1] = "gate" THEN "previous" ELSE "newer"
        /\ ~Cache!Locked(f[1])
        /\ k_book' = [k_book EXCEPT ![f[1]] = c]
        /\ k_feed' = [k_feed EXCEPT ![f].at = "idle", ![f].prev = 0]
        /\ UNCHANGED <<k_loop, k_history, k_wall>>
    BY <1>7, <2>1 DEF Cache!Insert
  <2>3. c.cur = k_feed[f].msg /\ c.prev = k_feed[f].prev /\ c.cur >= 1
    BY <1>4, <2>1, <2>2 DEF Feeding
  <2>4. k_book'[f[1]] = c /\ \A b \in Cache!Books \ {f[1]} : k_book'[b] = k_book[b]
    BY <1>1, <1>3, <2>2
  <2>5. k_feed'[f].at = "idle" /\ k_feed'[f].msg = k_feed[f].msg /\ k_feed'[f].prev = 0
    BY <1>3, <2>2
  <2>6. \A g \in Feeds \ {f} : k_feed'[g] = k_feed[g] BY <1>3, <2>2
  <2>7. CacheTypes'
    <3>1. k_book' \in [Cache!Books -> [cur : 0..MaxTime, prev : 0..MaxTime]]
      BY <1>1, <2>2 DEF CacheInv, CacheTypes, Cache!Times
    <3>4. 0 \in 0..MaxTime BY <1>2
    <3>5. k_feed \in [Feeds -> [at : {"idle", "newer", "previous"}, msg : 0..MaxTime,
                                prev : 0..MaxTime]]
      BY DEF CacheInv, CacheTypes, Cache!Times
    <3>2. k_feed' \in [Feeds -> [at : {"idle", "newer", "previous"}, msg : 0..MaxTime,
                                 prev : 0..MaxTime]]
      BY <2>2, <3>4, <3>5, Zenon
    <3>3. QED BY <2>2, <3>1, <3>2, Zenon DEF CacheInv, CacheTypes, Cache!Times
  <2>8. Feeding(f)' BY <2>5 DEF Feeding
  <2>9. Alone(f) => Fresh(f)'
    <3> SUFFICES ASSUME Alone(f) PROVE Fresh(f)' OBVIOUS
    <3>1. Fresh(f) BY <1>4
    <3>2. k_book'[f[1]].cur = k_feed'[f].msg /\ k_feed'[f].at = "idle" BY <2>3, <2>4, <2>5
    <3>3. c.prev < c.cur
      <4>1. CASE f[1] = "gate"
        <5>1. k_feed[f].prev = k_book["gate"].cur /\ k_book["gate"].cur < k_feed[f].msg
          BY <2>2, <3>1, <4>1 DEF Fresh, Cache!Inserts
        <5>2. QED BY <2>3, <5>1
      <4>2. CASE f[1] # "gate" BY <1>2, <1>4, <2>1, <2>2, <2>3, <4>2 DEF Feeding
      <4>3. QED BY <4>1, <4>2
    <3>4. QED BY <2>4, <3>2, <3>3 DEF Fresh
  <2>10. ASSUME NEW g \in Feeds \ {f} PROVE Feeding(g)' /\ (Alone(g) => Fresh(g)')
    <3>1. Feeding(g)' BY <2>6 DEF CacheInv, Feeding
    <3>2. ASSUME Alone(g) PROVE Fresh(g)'
      <4>1. g[1] # f[1] BY <3>2 DEF Alone
      <4>2. g[1] \in Cache!Books \ {f[1]} BY <4>1 DEF Cache!ConstantsOK, Cache!Books
      <4>3. k_book'[g[1]] = k_book[g[1]] BY <2>4, <4>2
      <4>4. Fresh(g) BY <3>2 DEF CacheInv
      <4>5. QED BY <2>6, <4>3, <4>4 DEF Fresh
    <3>3. QED BY <3>1, <3>2
  <2>11. ASSUME NEW l \in Loops PROVE Steady(l)'
    <3>1. Steady(l) /\ k_loop' = k_loop BY <2>2 DEF CacheInv
    <3>2. k_loop[l].at \in {"gate", "web"} => k_book'["gate"] = k_book["gate"]
      BY <1>1, <2>2, <2>4 DEF Cache!Locked
    <3>3. k_loop[l].at = "web" => k_book'["web"] = k_book["web"]
      BY <1>1, <2>2, <2>4 DEF Cache!Locked
    <3>4. QED BY <3>1, <3>2, <3>3 DEF Steady
  <2>12. QED BY <2>2, <2>7, <2>8, <2>9, <2>10, <2>11 DEF CacheInv, Spaced, Alone
<1>8. QED BY <1>5, <1>6, <1>7

\* The steps of a loop: the three reads of a snapshot, the push and the look back.
LEMMA CacheLoops ==
  ASSUME Cache!ConstantsOK, CacheInv, NEW l \in Loops,
         \/ \E time \in 0..k_wall : Cache!ReadGate(l, time)
         \/ Cache!ReadWeb(l) \/ Cache!ReadBase(l) \/ Cache!PushSample(l) \/ Cache!LookAway(l)
  PROVE  CacheInv'
<1> DEFINE Loop == [at : {"idle", "gate", "web", "taken"}, time : 0..MaxWall,
                    snap : Cache!Snapshots]
           rest == [at |-> "idle", time |-> 0, snap |-> Cache!NoSnapshot]
<1>1. /\ \A b \in Cache!Books : k_book[b] \in [cur : Cache!Times, prev : Cache!Times]
      /\ k_loop[l] \in Loop /\ k_loop[l].snap \in Cache!Snapshots
      /\ k_loop[l].time \in 0..MaxWall /\ k_wall \in 0..MaxWall
  BY DEF CacheInv, CacheTypes
<1>2. MaxWall \in Nat /\ MaxTime \in Nat BY DEF Cache!ConstantsOK
<1>3. "gate" \in Cache!Books /\ "web" \in Cache!Books /\ "base" \in Cache!Books
  BY DEF Cache!Books
<1>4. Cache!NoSnapshot \in Cache!Snapshots /\ rest \in Loop
  BY <1>2 DEF Cache!NoSnapshot, Cache!Snapshots, Cache!Times
<1> DEFINE Moved == /\ k_loop' \in [Loops -> Loop]
                    /\ \A m \in Loops \ {l} : k_loop'[m] = k_loop[m]
           Read(o) == /\ o.at \in {"gate", "web"} =>
                           /\ o.snap.gate = k_book["gate"].cur
                           /\ o.snap.prev = k_book["gate"].prev
                      /\ o.at = "web" => o.snap.web = k_book["web"].cur
<1>13. k_loop \in [Loops -> Loop] BY DEF CacheInv, CacheTypes
<1>5. Moved /\ Read(k_loop'[l])
  <2>1. ASSUME NEW time \in 0..k_wall, Cache!ReadGate(l, time) PROVE Moved /\ Read(k_loop'[l])
    <3>1. PICK s : s = [Cache!NoSnapshot EXCEPT !.gate = k_book["gate"].cur,
                                                !.prev = k_book["gate"].prev]
      OBVIOUS
    <3>2. s.gate = k_book["gate"].cur /\ s.prev = k_book["gate"].prev
      BY <3>1 DEF Cache!NoSnapshot
    <3>9. k_book["gate"].cur \in Cache!Times /\ k_book["gate"].prev \in Cache!Times
      BY <1>1, <1>3
    <3>3. s \in Cache!Snapshots BY <1>4, <3>1, <3>9, Zenon DEF Cache!Snapshots
    <3>4. time \in 0..MaxWall BY <1>1, <1>2
    <3>5. PICK o \in Loop : o = [at |-> "gate", time |-> time, snap |-> s] BY <3>3, <3>4, Zenon
    <3>6. k_loop' = [k_loop EXCEPT ![l] = o] BY <2>1, <3>1, <3>5 DEF Cache!ReadGate
    <3>7. k_loop'[l] = o /\ Moved BY <1>13, <3>6
    <3>8. QED BY <3>2, <3>5, <3>7
  <2>2. CASE Cache!ReadWeb(l)
    <3>1. CASE k_book["web"].cur = 0
      <4>1. k_loop' = [k_loop EXCEPT ![l] = rest] BY <2>2, <3>1 DEF Cache!ReadWeb
      <4>2. QED BY <1>4, <1>13, <4>1
    <3>2. CASE k_book["web"].cur # 0
      <4>1. PICK s : s = [k_loop[l].snap EXCEPT !.web = k_book["web"].cur] BY Zenon
      <4>2. k_loop[l].at = "gate"
            /\ k_loop' = [k_loop EXCEPT ![l].at = "web", ![l].snap = s]
        BY <2>2, <3>2, <4>1 DEF Cache!ReadWeb
      <4>3. s \in Cache!Snapshots /\ s.gate = k_loop[l].snap.gate
            /\ s.prev = k_loop[l].snap.prev /\ s.web = k_book["web"].cur
        BY <1>1, <1>3, <4>1 DEF Cache!Snapshots
      <4>4. Moved /\ k_loop'[l].at = "web" /\ k_loop'[l].snap = s BY <1>13, <4>2, <4>3, Zenon
      <4>5. Steady(l) BY DEF CacheInv
      <4>6. QED BY <4>2, <4>3, <4>4, <4>5 DEF Steady
    <3>3. QED BY <3>1, <3>2
  <2>3. CASE Cache!ReadBase(l)
    <3>1. PICK s : s = [k_loop[l].snap EXCEPT !.base = k_book["base"].cur] BY Zenon
    <3>2. k_loop' = [k_loop EXCEPT ![l].at = "taken", ![l].snap = s]
      BY <2>3, <3>1 DEF Cache!ReadBase
    <3>3. s \in Cache!Snapshots BY <1>1, <1>3, <3>1 DEF Cache!Snapshots
    <3>4. Moved /\ k_loop'[l].at = "taken" BY <1>13, <3>2, <3>3, Zenon
    <3>5. QED BY <3>4
  <2>4. CASE Cache!PushSample(l) \/ Cache!LookAway(l)
    <3>1. k_loop' = [k_loop EXCEPT ![l] = rest]
      BY <2>4 DEF Cache!PushSample, Cache!LookAway
    <3>2. QED BY <1>4, <1>13, <3>1
  <2>5. QED BY <2>1, <2>2, <2>3, <2>4
<1>6. UNCHANGED <<k_book, k_feed, k_wall>>
  BY DEF Cache!ReadGate, Cache!ReadWeb, Cache!ReadBase, Cache!PushSample, Cache!LookAway
<1>7. k_history' \in Seq(Sample) /\ Spaced(k_history')
  <2>1. k_history \in Seq(Sample) /\ Spaced(k_history) BY DEF CacheInv, CacheTypes
  <2>2. CASE Cache!PushSample(l)
    <3>1. PICK e : e = [time |-> k_loop[l].time, snap |-> k_loop[l].snap] BY Zenon
    <3>2. k_history' = Cache!Push(k_history, e) BY <2>2, <3>1 DEF Cache!PushSample
    <3>3. e \in Sample BY <1>1, <3>1 DEF Sample
    <3>4. QED BY <2>1, <3>2, <3>3, PushKeeps
  <2>3. CASE k_history' = k_history BY <2>1, <2>3
  <2>4. QED BY <2>2, <2>3
    DEF Cache!ReadGate, Cache!ReadWeb, Cache!ReadBase, Cache!LookAway
<1>8. k_loop' \in [Loops -> Loop] BY <1>5
<1>9. CacheTypes' BY <1>6, <1>7, <1>8 DEF CacheInv, CacheTypes
<1>10. \A m \in Loops : Steady(m)' BY <1>5, <1>6 DEF CacheInv, Steady
<1>11. \A f \in Feeds : Feeding(f)' /\ (Alone(f) => Fresh(f)')
  BY <1>6 DEF CacheInv, Feeding, Fresh
<1>12. QED BY <1>7, <1>9, <1>10, <1>11 DEF CacheInv, Spaced, Alone

\* So every step of the cache keeps the invariant.
LEMMA CacheStep == Cache!ConstantsOK /\ CacheInv /\ Cache!Next => CacheInv'
<1> SUFFICES ASSUME Cache!ConstantsOK, CacheInv, Cache!Next PROVE CacheInv' OBVIOUS
<1>1. CASE Cache!Tick
  <2>1. UNCHANGED <<k_book, k_feed, k_loop, k_history>> /\ k_wall' \in 0..MaxWall
    BY <1>1 DEF Cache!Tick, CacheInv, CacheTypes, Cache!ConstantsOK
  <2>2. CacheTypes' BY <2>1 DEF CacheInv, CacheTypes
  <2>3. QED BY <2>1, <2>2 DEF CacheInv, Spaced, Alone, Feeding, Fresh, Steady
<1>2. QED BY <1>1, CacheFeeds, CacheLoops DEF Cache!Next

\* What a look back finds.
LEMMA FoundBack ==
  ASSUME Cache!ConstantsOK, CacheInv, NEW deadline \in Int
  PROVE  LET early == {i \in DOMAIN k_history : k_history[i].time <= deadline}
         IN  IF early = {} THEN Cache!Before(deadline) = 0
             ELSE /\ Cache!Before(deadline) \in early
                  /\ \A i \in early : k_history[i].time <= k_history[Cache!Before(deadline)].time
<1>1. PICK h \in Seq(Sample) : h = k_history /\ Spaced(h) BY DEF CacheInv, CacheTypes
<1>2. Len(h) \in Nat /\ DOMAIN h = 1..Len(h) BY LenProperties
<1>3. PICK E : E = {i \in 1..Len(h) : h[i].time <= deadline} BY Zenon
<1>4. PICK x : x = CHOOSE i \in E : \A j \in E : i >= j OBVIOUS
<1>5. Cache!Before(deadline) = IF E # {} THEN x ELSE 0
  BY <1>1, <1>3, <1>4 DEF Cache!Before, Cache!SelectLastInSeq, Cache!Max
<1>6. CASE E = {} BY <1>1, <1>2, <1>3, <1>5, <1>6
<1>7. CASE E # {}
  <2>1. E \in SUBSET (0..Len(h)) BY <1>2, <1>3
  <2>2. \E i \in E : \A j \in E : j <= i BY <1>2, <1>7, <2>1, GreatestExists, Zenon
  <2>3. x \in E /\ \A j \in E : x >= j
    <3>1. \E i \in E : \A j \in E : i >= j BY <1>2, <2>1, <2>2
    <3>2. QED BY <1>4, <3>1
  <2>4. \A i \in 1..Len(h) : h[i].time \in Int
    <3>1. \A i \in 1..Len(h) : h[i] \in Sample BY <1>2, ElementOfSeq
    <3>2. QED BY <3>1 DEF Sample, Cache!ConstantsOK
  <2>5. ASSUME NEW i \in E PROVE h[i].time <= h[x].time
    <3>1. i \in 1..Len(h) /\ x \in 1..Len(h) /\ (i = x \/ i < x) BY <1>2, <1>3, <2>3
    <3>2. i < x => h[x].time - h[i].time >= Interval BY <1>1, <1>2, <3>1 DEF Spaced
    <3>3. QED BY <2>4, <3>1, <3>2 DEF Cache!ConstantsOK
  <2>6. QED BY <1>1, <1>2, <1>3, <1>5, <1>7, <2>3, <2>5
<1>8. QED BY <1>6, <1>7

\* The invariant gives the types, snapshots of one moment, the newest quotes and the
\* look back.
LEMMA CacheHolds ==
  ASSUME Cache!ConstantsOK, CacheInv
  PROVE  Cache!TypeOK /\ Cache!OneMoment /\ Cache!NewestKept /\ Cache!LooksBack
<1>1. Cache!TypeOK BY DEF CacheInv, CacheTypes, Cache!TypeOK, Sample
<1>2. Cache!OneMoment
  <2> SUFFICES ASSUME NEW l \in Loops
               PROVE  /\ k_loop[l].at \in {"gate", "web"} =>
                           [cur |-> k_loop[l].snap.gate, prev |-> k_loop[l].snap.prev]
                             = k_book["gate"]
                      /\ k_loop[l].at = "web" => k_loop[l].snap.web = k_book["web"].cur
    BY DEF Cache!OneMoment
  <2>1. Steady(l) BY DEF CacheInv
  <2>2. k_book["gate"] \in [cur : Cache!Times, prev : Cache!Times]
    BY DEF CacheInv, CacheTypes, Cache!Books
  <2>3. k_book["gate"] = [cur |-> k_book["gate"].cur, prev |-> k_book["gate"].prev] BY <2>2
  <2>4. QED BY <2>1, <2>3 DEF Steady
<1>3. Cache!NewestKept BY DEF CacheInv, Fresh, Alone, Cache!NewestKept
<1>4. Cache!LooksBack
  <2>1. PICK h \in Seq(Sample) : h = k_history /\ Spaced(h) BY DEF CacheInv, CacheTypes
  <2>2. Len(h) \in Nat /\ DOMAIN h = 1..Len(h) BY LenProperties
  <2>3. \A i \in 1..Len(h) - 1 : h[i + 1].time - h[i].time >= Interval
    <3> SUFFICES ASSUME NEW i \in 1..Len(h) - 1 PROVE h[i + 1].time - h[i].time >= Interval
      OBVIOUS
    <3>1. i \in DOMAIN h /\ i + 1 \in DOMAIN h /\ i < i + 1 BY <2>2
    <3>2. QED BY <2>1, <3>1 DEF Spaced
  <2>4. h # <<>> => Cache!Last(h).time - Head(h).time <= MaxAge
    BY <2>1, HeadTailProperties DEF Spaced, Cache!Last
  <2>5. \A deadline \in 0..MaxWall : deadline \in Int BY DEF Cache!ConstantsOK
  <2>6. QED BY <2>1, <2>3, <2>4, <2>5, FoundBack DEF Cache!LooksBack
<1>5. QED BY <1>1, <1>2, <1>3, <1>4

\* Sets of indices.
LEMMA Indices ==
  ASSUME NEW n \in Nat, NEW D \in SUBSET (1..n)
  PROVE  /\ IsFiniteSet(D) /\ Cardinality(D) \in 0..n
         /\ Cardinality(D \cup {n + 1}) = Cardinality(D) + 1
<1>1. IsFiniteSet(1..n) /\ Cardinality(1..n) = n
  <2>1. Cardinality(1..n) = IF 1 > n THEN 0 ELSE n - 1 + 1 BY FS_Interval
  <2>2. QED BY <2>1, FS_Interval
<1>2. IsFiniteSet(D) /\ Cardinality(D) <= n BY <1>1, FS_Subset, Zenon
<1>3. Cardinality(D) \in Nat BY <1>2, FS_CardinalityType
<1>4. n + 1 \notin D BY SMT
<1>5. Cardinality(D \cup {n + 1}) = Cardinality(D) + 1 BY <1>2, <1>4, FS_AddElement
<1>6. QED BY <1>2, <1>3, <1>5

\* Fewer indices count less.
LEMMA Fewer ==
  ASSUME NEW n \in Nat, NEW D \in SUBSET (1..n), NEW E \in SUBSET D
  PROVE  Cardinality(E) <= Cardinality(D) /\ Cardinality(E) \in Nat /\ Cardinality(D) \in Nat
<1>1. IsFiniteSet(D) BY Indices, Zenon
<1>2. QED BY <1>1, FS_Subset, FS_CardinalityType, Zenon

-----------------------------------------------------------------------------
(* OrderClient                                                             *)

\* An instance counts with the same operators.
LEMMA ClientCounts ==
  ASSUME NEW S
  PROVE  Client!Cardinality(S) = Cardinality(S) /\ Client!IsFiniteSet(S) = IsFiniteSet(S)
BY DEF Client!Cardinality, Cardinality, Client!IsFiniteSet, IsFiniteSet

Passed == [login : Logins, size : Int, at : Nat]
SinceIn(q, l, t) == {i \in DOMAIN q : q[i].login = l /\ q[i].at >= t}
FromIn(q, t) == {i \in DOMAIN q : q[i].at >= t}
SpanIn(q, a, b) == {i \in DOMAIN q : q[i].at \in a..b}
Until(q, t) == \A i \in DOMAIN q : q[i].at <= t

\* What left since any moment, with the tokens that are left, fits a full bucket
\* and what flowed in since; and so for any time that is over.
Paced(q, at, cap, rate, tokens) ==
  /\ \A a \in 0..at : 5 * Cardinality(FromIn(q, a)) + tokens <= cap + (at - a) * rate
  /\ \A a, b \in Nat : a <= b => 5 * Cardinality(SpanIn(q, a, b)) <= cap + (b - a) * rate

\* Products of natural numbers.
LEMMA Products ==
  ASSUME NEW a \in Nat, NEW b \in Nat, NEW r \in Nat
  PROVE  /\ (a + b) * r = a * r + b * r
         /\ a * r \in Nat
         /\ a <= b => a * r <= b * r
OBVIOUS

\* A bucket that fills up, no faster than its rate, keeps the pace.
LEMMA PaceRefill ==
  ASSUME NEW q \in Seq(Passed), NEW cap \in Nat, NEW rate \in Nat, NEW tokens \in 0..cap,
         NEW old \in Nat, NEW new \in Nat, old <= new, Until(q, old),
         Paced(q, old, cap, rate, tokens), NEW filled \in 0..cap,
         filled <= tokens + (new - old) * rate
  PROVE  Paced(q, new, cap, rate, filled)
<1>1. ASSUME NEW a \in 0..new
      PROVE  5 * Cardinality(FromIn(q, a)) + filled <= cap + (new - a) * rate
  <2>1. CASE a <= old
    <3>1. 5 * Cardinality(FromIn(q, a)) + tokens <= cap + (old - a) * rate
      BY <2>1 DEF Paced
    <3>9. PICK n \in Nat : n = Len(q) /\ DOMAIN q = 1..n BY LenProperties
    <3>2. PICK F \in SUBSET (1..n) : F = FromIn(q, a) BY <3>9, Zenon DEF FromIn
    <3>8. Cardinality(F) \in 0..n BY Indices, Zenon
    <3>3. Cardinality(FromIn(q, a)) \in Nat BY <3>2, <3>8
    <3>4. PICK x \in Nat, y \in Nat : x = old - a /\ y = new - old BY <2>1
    <3>5. new - a = x + y BY <3>4
    <3>6. (x + y) * rate = x * rate + y * rate /\ x * rate \in Nat /\ y * rate \in Nat
      BY Products
    <3>7. QED BY <3>1, <3>3, <3>4, <3>5, <3>6
  <2>2. CASE a > old
    <3>1. FromIn(q, a) = {}
      <4>1. ASSUME NEW i \in FromIn(q, a) PROVE FALSE
        <5>1. i \in DOMAIN q /\ q[i].at >= a BY <4>1 DEF FromIn
        <5>2. q[i] \in Passed BY <5>1, ElementOfSeq, LenProperties
        <5>3. q[i].at \in Nat BY <5>2 DEF Passed
        <5>4. QED BY <2>2, <5>1, <5>3 DEF Until
      <4>2. QED BY <4>1
    <3>2. Cardinality(FromIn(q, a)) = 0 BY <3>1, FS_EmptySet
    <3>3. new - a \in Nat BY <2>2
    <3>4. (new - a) * rate \in Nat BY <3>3, Products
    <3>5. QED BY <3>2, <3>4
  <2>3. QED BY <2>1, <2>2
<1>2. QED BY <1>1 DEF Paced

\* A call that takes its token keeps the pace.
LEMMA PaceSend ==
  ASSUME NEW q \in Seq(Passed), NEW cap \in Nat, NEW rate \in Nat, NEW tokens \in 5..cap,
         NEW at \in Nat, Until(q, at), Paced(q, at, cap, rate, tokens),
         NEW e \in Passed, e.at = at, NEW r, r = Append(q, e)
  PROVE  Paced(r, at, cap, rate, tokens - 5)
<1>1. /\ r \in Seq(Passed) /\ Len(q) \in Nat /\ DOMAIN r = 1..Len(q) + 1 /\ DOMAIN q = 1..Len(q)
      /\ (\A i \in 1..Len(q) : r[i] = q[i]) /\ r[Len(q) + 1] = e
  BY Appended
<1>2. PICK n \in Nat : n = Len(q) BY <1>1, Zenon
<1>3. \A i \in 1..n : q[i].at \in Nat /\ q[i].at <= at
  <2>1. \A i \in 1..n : q[i] \in Passed BY <1>1, <1>2, ElementOfSeq
  <2>2. QED BY <1>1, <1>2, <2>1, Zenon DEF Until, Passed
<1>4. ASSUME NEW a \in 0..at
      PROVE  5 * Cardinality(FromIn(r, a)) + (tokens - 5) <= cap + (at - a) * rate
  <2>1. PICK F \in SUBSET (1..n) : F = FromIn(q, a) BY <1>1, <1>2, Zenon DEF FromIn
  <2>2. FromIn(r, a) = F \cup {n + 1} BY <1>1, <1>2, <2>1 DEF FromIn
  <2>8. Cardinality(F \cup {n + 1}) = Cardinality(F) + 1 /\ Cardinality(F) \in 0..n
    BY Indices, Zenon
  <2>3. Cardinality(FromIn(r, a)) = Cardinality(FromIn(q, a)) + 1
        /\ Cardinality(FromIn(q, a)) \in Nat
    BY <2>1, <2>2, <2>8
  <2>4. 5 * Cardinality(FromIn(q, a)) + tokens <= cap + (at - a) * rate BY DEF Paced
  <2>5. at - a \in Nat OBVIOUS
  <2>6. (at - a) * rate \in Nat BY <2>5, Products
  <2>7. QED BY <2>3, <2>4, <2>6
<1>5. ASSUME NEW a \in Nat, NEW b \in Nat, a <= b
      PROVE  5 * Cardinality(SpanIn(r, a, b)) <= cap + (b - a) * rate
  <2>0. b - a \in Nat BY <1>5
  <2>1. CASE at \notin a..b
    <3>1. SpanIn(r, a, b) = SpanIn(q, a, b)
      <4>1. n + 1 \notin SpanIn(r, a, b) BY <1>1, <1>2, <2>1 DEF SpanIn
      <4>2. QED BY <1>1, <1>2, <4>1 DEF SpanIn
    <3>2. QED BY <1>5, <3>1 DEF Paced
  <2>2. CASE at \in a..b
    <3>1. SpanIn(r, a, b) \in SUBSET FromIn(r, a)
      <4>1. ASSUME NEW i \in SpanIn(r, a, b) PROVE i \in FromIn(r, a)
        <5>1. i \in DOMAIN r /\ r[i].at \in a..b BY Zenon DEF SpanIn
        <5>2. QED BY <5>1 DEF FromIn
      <4>2. QED BY <4>1
    <3>8. PICK N \in Nat : N = n + 1 OBVIOUS
    <3>2. PICK F \in SUBSET (1..N) : F = FromIn(r, a) BY <1>1, <1>2, <3>8, Zenon DEF FromIn
    <3>9. PICK E \in SUBSET F : E = SpanIn(r, a, b) BY <3>1, <3>2
    <3>10. /\ Cardinality(E) <= Cardinality(F)
           /\ Cardinality(E) \in Nat /\ Cardinality(F) \in Nat
      BY Fewer, Zenon
    <3>3. /\ Cardinality(SpanIn(r, a, b)) <= Cardinality(FromIn(r, a))
          /\ Cardinality(SpanIn(r, a, b)) \in Nat /\ Cardinality(FromIn(r, a)) \in Nat
      BY <3>2, <3>9, <3>10
    <3>4. 5 * Cardinality(FromIn(r, a)) + (tokens - 5) <= cap + (at - a) * rate
      BY <1>4, <2>2
    <3>5. at - a \in Nat /\ at - a <= b - a BY <2>2
    <3>6. (at - a) * rate <= (b - a) * rate /\ (at - a) * rate \in Nat /\ (b - a) * rate \in Nat
      BY <2>0, <3>5, Products
    <3>11. PICK c \in Nat, f \in Nat : /\ c = Cardinality(SpanIn(r, a, b))
                                      /\ f = Cardinality(FromIn(r, a)) /\ c <= f
      BY <3>3
    <3>12. PICK x \in Nat, y \in Nat : x = (at - a) * rate /\ y = (b - a) * rate /\ x <= y
      BY <3>6
    <3>13. 5 * f + (tokens - 5) <= cap + x BY <3>4, <3>11, <3>12
    <3>15. c <= f /\ x <= y BY <3>11, <3>12
    <3>14. 5 * c <= cap + y BY <3>13, <3>15
    <3>7. QED BY <3>11, <3>12, <3>14
  <2>3. QED BY <2>1, <2>2
<1>6. QED BY <1>4, <1>5 DEF Paced

\* The last k times are not before t.
Reaches(times, k, t) == k <= Len(times) /\ times[Len(times) - k + 1] >= t
Ordered(times) == \A i, j \in DOMAIN times : i <= j => times[i] <= times[j]

\* A trim leaves the last Kept times of the window.
LEMMA TrimKeeps ==
  ASSUME Client!ConstantsOK, NEW w \in [times : Seq(Nat), calls : Nat], c_now \in Nat,
         Ordered(w.times)
  PROVE  /\ Client!Trimmed(w) \in Seq(Nat) /\ Ordered(Client!Trimmed(w))
         /\ Len(Client!Trimmed(w)) <= Len(w.times)
         /\ w.calls % TrimEvery = 0 => Len(Client!Trimmed(w)) <= Kept
         /\ \A i \in DOMAIN Client!Trimmed(w) : \E j \in DOMAIN w.times :
               Client!Trimmed(w)[i] = w.times[j]
         /\ \A k \in 1..Kept, t \in Int :
               t >= c_now - HalfHour /\ Reaches(w.times, k, t)
                 => Reaches(Client!Trimmed(w), k, t)
<1>1. CASE w.calls % TrimEvery # 0
  BY <1>1, LenProperties DEF Client!Trimmed
<1>2. CASE w.calls % TrimEvery = 0
  <2>1. PICK q \in Seq(Nat) : q = w.times OBVIOUS
  <2>2. PICK n \in Nat : n = Len(q) /\ DOMAIN q = 1..n BY LenProperties
  <2>3. PICK kept \in SUBSET (1..n) :
          kept = {i \in 1..n : q[i] >= c_now - HalfHour /\ i > n - Kept}
    BY Zenon
  <2>4. Kept \in Nat \ {0} /\ HalfHour \in Nat BY DEF Client!ConstantsOK
  <2>5. PICK m \in 0..n : m = Cardinality(kept) BY Indices, Zenon
  <2>6. PICK r : r = SubSeq(q, n - m + 1, n) BY Zenon
  <2>7. Client!Trimmed(w) = r
    BY <1>2, <2>1, <2>2, <2>3, <2>5, <2>6, ClientCounts, Zenon DEF Client!Trimmed
  <2>8. n - m + 1 \in 1..Len(q) + 1 BY <2>2
  <2>9. /\ r \in Seq(Nat) /\ Len(r) = n - (n - m + 1) + 1
        /\ DOMAIN r = 1..n - (n - m + 1) + 1
        /\ \A i \in 1..n - (n - m + 1) + 1 : r[i] = q[(n - m + 1) + i - 1]
    <3>1. PICK s \in 1..Len(q) + 1 : s = n - m + 1 BY <2>8
    <3>2. r = SubSeq(q, s, Len(q)) BY <2>2, <2>6, <3>1
    <3>5. PICK T : T = Nat BY Zenon
    <3>6. q \in Seq(T) BY <3>5
    <3>7. /\ r \in Seq(T) /\ Len(r) = Len(q) - s + 1 /\ DOMAIN r = 1..Len(q) - s + 1
          /\ \A i \in 1..Len(q) - s + 1 : r[i] = q[s + i - 1]
      BY <3>2, <3>6, Suffixed
    <3>3. /\ r \in Seq(Nat) /\ Len(r) = Len(q) - s + 1 /\ DOMAIN r = 1..Len(q) - s + 1
          /\ \A i \in 1..Len(q) - s + 1 : r[i] = q[s + i - 1]
      BY <3>5, <3>7
    <3>4. QED BY <2>2, <3>1, <3>3
  <2>10. Len(r) = m /\ DOMAIN r = 1..m /\ \A i \in 1..m : r[i] = q[n - m + i]
    <3>1. n - (n - m + 1) + 1 = m OBVIOUS
    <3>2. \A i \in 1..m : (n - m + 1) + i - 1 = n - m + i OBVIOUS
    <3>3. QED BY <2>9, <3>1, <3>2
  <2>11. m <= Kept
    <3>1. CASE n <= Kept BY <2>4, <3>1
    <3>2. CASE n > Kept
      <4>1. kept \in SUBSET (n - Kept + 1..n) BY <2>3, <2>4
      <4>2. IsFiniteSet(n - Kept + 1..n) /\ Cardinality(n - Kept + 1..n) = Kept
        <5>1. Cardinality(n - Kept + 1..n)
                = IF n - Kept + 1 > n THEN 0 ELSE n - (n - Kept + 1) + 1
          BY <2>4, FS_Interval
        <5>2. QED BY <2>4, <5>1, FS_Interval
      <4>3. Cardinality(kept) <= Kept BY <4>1, <4>2, FS_Subset, Zenon
      <4>4. QED BY <2>5, <4>3
    <3>3. QED BY <2>4, <3>1, <3>2
  <2>12. \A i \in 1..m : n - m + i \in 1..n OBVIOUS
  <2>13. Ordered(r)
    <3> SUFFICES ASSUME NEW i \in 1..m, NEW j \in 1..m, i <= j PROVE r[i] <= r[j]
      BY <2>10 DEF Ordered
    <3>1. n - m + i \in 1..n /\ n - m + j \in 1..n /\ n - m + i <= n - m + j BY <2>12
    <3>2. q[n - m + i] <= q[n - m + j] BY <2>1, <2>2, <3>1, Zenon DEF Ordered
    <3>3. QED BY <2>10, <3>2, Zenon
  <2>14. ASSUME NEW k \in 1..Kept, NEW t \in Int, t >= c_now - HalfHour, Reaches(w.times, k, t)
         PROVE  Reaches(r, k, t)
    <3>1. k <= n /\ q[n - k + 1] >= t BY <2>1, <2>2, <2>14 DEF Reaches
    <3>2. n - k + 1..n \in SUBSET kept
      <4> SUFFICES ASSUME NEW i \in n - k + 1..n PROVE i \in kept OBVIOUS
      <4>1. i \in 1..n /\ i > n - Kept /\ n - k + 1 \in 1..n /\ n - k + 1 <= i
        BY <2>4, <3>1
      <4>2. q[n - k + 1] <= q[i] BY <2>1, <2>2, <4>1, Zenon DEF Ordered
      <4>3. q[i] \in Nat /\ q[n - k + 1] \in Nat BY <2>2, <4>1, ElementOfSeq, Zenon
      <4>4. q[i] >= c_now - HalfHour BY <2>4, <2>14, <3>1, <4>2, <4>3
      <4>5. QED BY <2>3, <4>1, <4>4
    <3>3. Cardinality(n - k + 1..n) = k
      <4>1. Cardinality(n - k + 1..n) = IF n - k + 1 > n THEN 0 ELSE n - (n - k + 1) + 1
        BY FS_Interval
      <4>2. QED BY <4>1
    <3>4. k <= m BY <2>5, <3>2, <3>3, Fewer, Zenon
    <3>5. m - k + 1 \in 1..m /\ n - m + (m - k + 1) = n - k + 1 BY <3>4
    <3>6. r[m - k + 1] = q[n - k + 1] BY <2>10, <3>5
    <3>7. QED BY <2>10, <3>1, <3>4, <3>6 DEF Reaches
  <2>15. \A i \in DOMAIN r : \E j \in 1..n : r[i] = q[j] BY <2>10, <2>12, Zenon
  <2>16. /\ r \in Seq(Nat) /\ Ordered(r) /\ Len(r) <= n /\ Len(r) <= Kept
    BY <2>9, <2>10, <2>11, <2>13
  <2>17. \A k \in 1..Kept, t \in Int :
            t >= c_now - HalfHour /\ Reaches(w.times, k, t) => Reaches(r, k, t)
    BY <2>14
  <2>18. QED BY <2>1, <2>2, <2>7, <2>15, <2>16, <2>17, Zenon
<1>3. QED BY <1>1, <1>2

\* The remainder of a counter that goes up by one.
LEMMA Remainders ==
  ASSUME NEW a \in Nat, NEW n \in Nat \ {0}
  PROVE  /\ a % n \in 0..n - 1
         /\ (a + 1) % n = 0 \/ (a + 1) % n = (a % n) + 1
OBVIOUS

Windowed(q, times, l, at) ==
  \A k \in 1..Kept : \A t \in Int :
     t >= at - HalfHour /\ Cardinality(SinceIn(q, l, t)) >= k => Reaches(times, k, t)

\* The orders of an account that count against the one at i.
Counted(q, i) ==
  {j \in DOMAIN q : /\ q[j].login = q[i].login
                    /\ q[j].at \in q[i].at - HalfHour..q[i].at /\ j < i}
Within(q) ==
  \A i \in DOMAIN q :
    /\ q[i].size < TierSize => Cardinality(Counted(q, i)) < MaxCount
    /\ q[i].size < TierSize2 => Cardinality(Counted(q, i)) < MaxCount2

ClientInv ==
  /\ c_mode \in Modes /\ c_now \in 0..MaxTicks /\ c_calls \in 0..MaxCalls
  /\ c_bucket \in [sec : 0..5 * PerSec, five : 0..5 * Per5Sec, last : Nat]
  /\ c_bucket.last <= c_now
  /\ c_window \in [Logins -> [times : Seq(Nat), calls : Nat]]
  /\ \A l \in Logins : /\ Ordered(c_window[l].times)
                       /\ \A i \in DOMAIN c_window[l].times : c_window[l].times[i] <= c_now
                       /\ Len(c_window[l].times) <= Kept + 1 + (c_window[l].calls % TrimEvery)
  /\ IsFiniteSet(c_resting) /\ Cardinality(c_resting) <= MaxResting
  /\ c_sent \in Seq(Passed) /\ Until(c_sent, c_bucket.last)
  /\ \A l \in Logins : Windowed(c_sent, c_window[l].times, l, c_now)
  /\ Within(c_sent)
  /\ Paced(c_sent, c_bucket.last, 5 * PerSec, 5 * PerSec, c_bucket.sec)
  /\ Paced(c_sent, c_bucket.last, 5 * Per5Sec, Per5Sec, c_bucket.five)

\* A call of the login joins its window.
LEMMA WindowGrows ==
  ASSUME Client!ConstantsOK, NEW q \in Seq(Passed), NEW times \in Seq(Nat), NEW l, NEW at \in Nat,
         Windowed(q, times, l, at), Until(q, at), NEW e \in Passed, e.at = at, e.login = l,
         NEW r, r = Append(q, e), NEW longer, longer = Append(times, at)
  PROVE  Windowed(r, longer, l, at)
<1>1. /\ r \in Seq(Passed) /\ Len(q) \in Nat /\ DOMAIN r = 1..Len(q) + 1 /\ DOMAIN q = 1..Len(q)
      /\ (\A i \in 1..Len(q) : r[i] = q[i]) /\ r[Len(q) + 1] = e
  BY Appended
<1>2. PICK T : T = Nat BY Zenon
<1>3. times \in Seq(T) /\ at \in T BY <1>2
<1>4. /\ Len(times) \in Nat /\ Len(longer) = Len(times) + 1
      /\ \A i \in 1..Len(times) : longer[i] = times[i]
      /\ longer[Len(times) + 1] = at
  BY <1>3, Appended
<1>5. PICK n \in Nat, m \in Nat : n = Len(q) /\ m = Len(times) BY <1>1, <1>4, Zenon
<1>6. Kept \in Nat \ {0} /\ HalfHour \in Nat BY DEF Client!ConstantsOK
<1> SUFFICES ASSUME NEW k \in 1..Kept, NEW t \in Int, t >= at - HalfHour,
                    Cardinality(SinceIn(r, l, t)) >= k
             PROVE  Reaches(longer, k, t)
  BY DEF Windowed
<1>7. t <= at
  <2> SUFFICES ASSUME t > at PROVE FALSE OBVIOUS
  <2>1. SinceIn(r, l, t) = {}
    <3>1. ASSUME NEW i \in SinceIn(r, l, t) PROVE FALSE
      <4>1. i \in DOMAIN r /\ r[i].at >= t BY <3>1 DEF SinceIn
      <4>2. r[i] \in Passed BY <1>1, <4>1, ElementOfSeq, LenProperties
      <4>3. r[i].at \in Nat BY <4>2, Zenon DEF Passed
      <4>4. r[i].at <= at BY <1>1, <1>5, <4>1 DEF Until
      <4>5. QED BY <4>1, <4>3, <4>4
    <3>2. QED BY <3>1
  <2>2. Cardinality(SinceIn(r, l, t)) = 0 BY <2>1, FS_EmptySet
  <2>3. QED BY <2>2
<1>8. CASE k = 1 BY <1>4, <1>5, <1>7, <1>8 DEF Reaches
<1>9. CASE k # 1
  <2>1. PICK F \in SUBSET (1..n) : F = SinceIn(q, l, t) BY <1>1, <1>5, Zenon DEF SinceIn
  <2>2. SinceIn(r, l, t) = F \cup {n + 1} BY <1>1, <1>5, <1>7, <2>1 DEF SinceIn
  <2>3. Cardinality(F \cup {n + 1}) = Cardinality(F) + 1 /\ Cardinality(F) \in 0..n
    BY Indices, Zenon
  <2>4. Cardinality(F) >= k - 1 /\ k - 1 \in 1..Kept BY <1>6, <1>9, <2>2, <2>3
  <2>5. Reaches(times, k - 1, t) BY <2>1, <2>4 DEF Windowed
  <2>6. k - 1 <= m /\ times[m - (k - 1) + 1] >= t BY <1>5, <2>5 DEF Reaches
  <2>7. m - (k - 1) + 1 \in 1..m /\ (m + 1) - k + 1 = m - (k - 1) + 1
    BY <1>9, <2>6
  <2>8. QED BY <1>4, <1>5, <2>6, <2>7 DEF Reaches
<1>10. QED BY <1>8, <1>9

\* A call of another login leaves the window as it was.
LEMMA WindowOther ==
  ASSUME NEW q \in Seq(Passed), NEW times, NEW l, NEW at, Windowed(q, times, l, at),
         NEW e \in Passed, e.login # l, NEW r, r = Append(q, e)
  PROVE  Windowed(r, times, l, at)
<1>1. /\ r \in Seq(Passed) /\ Len(q) \in Nat /\ DOMAIN r = 1..Len(q) + 1 /\ DOMAIN q = 1..Len(q)
      /\ (\A i \in 1..Len(q) : r[i] = q[i]) /\ r[Len(q) + 1] = e
  BY Appended
<1>2. \A t \in Int : SinceIn(r, l, t) = SinceIn(q, l, t)
  <2> TAKE t \in Int
  <2>1. Len(q) + 1 \notin SinceIn(r, l, t) BY <1>1 DEF SinceIn
  <2>2. QED BY <1>1, <2>1 DEF SinceIn
<1>3. QED BY <1>2 DEF Windowed

\* What a login has had in the window before a call, counted.
LEMMA CountSuffices ==
  ASSUME Client!ConstantsOK, NEW q \in Seq(Passed), NEW times \in Seq(Nat), NEW l, NEW at \in Nat,
         Windowed(q, times, l, at)
  PROVE  /\ Cardinality(SinceIn(q, l, at - HalfHour)) \in Nat
         /\ \/ Cardinality(SinceIn(q, l, at - HalfHour)) <= Len(times)
            \/ Kept <= Len(times)
<1>1. PICK n \in Nat : n = Len(q) /\ DOMAIN q = 1..n BY LenProperties
<1>2. PICK F \in SUBSET (1..n) : F = SinceIn(q, l, at - HalfHour) BY <1>1, Zenon DEF SinceIn
<1>3. PICK c \in Nat : c = Cardinality(F)
  <2>1. Cardinality(F) \in 0..n BY Indices, Zenon
  <2>2. QED BY <2>1
<1>4. Kept \in Nat \ {0} /\ HalfHour \in Nat BY DEF Client!ConstantsOK
<1>5. at - HalfHour \in Int /\ at - HalfHour >= at - HalfHour BY <1>4
<1>6. \A k \in 1..Kept : c >= k => k <= Len(times)
  BY <1>2, <1>3, <1>5 DEF Windowed, Reaches
<1>7. CASE c = 0
  <2>1. Len(times) \in Nat BY LenProperties
  <2>2. QED BY <1>2, <1>3, <1>7, <2>1
<1>8. CASE c \in 1..Kept BY <1>2, <1>3, <1>6, <1>8
<1>9. CASE c > Kept BY <1>2, <1>3, <1>4, <1>6, <1>9
<1>10. QED BY <1>3, <1>4, <1>7, <1>8, <1>9

\* The property in the form that the induction uses.
LEMMA WithinSame == Client!WindowRespected <=> Within(c_sent)
<1>1. ASSUME NEW i \in DOMAIN c_sent
      PROVE  {j \in Client!Let(c_sent[i].login, c_sent[i].at - HalfHour, c_sent[i].at) : j < i}
               = Counted(c_sent, i)
  BY DEF Client!Let, Counted
<1>2. QED BY <1>1, ClientCounts DEF Client!WindowRespected, Within

\* An order that the window allows respects its tiers.
LEMMA WithinSend ==
  ASSUME Client!ConstantsOK, NEW q \in Seq(Passed), NEW at \in Nat, Until(q, at), Within(q),
         NEW e \in Passed, e.at = at, NEW times \in Seq(Nat), Windowed(q, times, e.login, at),
         Client!WindowAllows(Len(times), e.size), NEW r, r = Append(q, e)
  PROVE  Within(r)
<1>1. /\ r \in Seq(Passed) /\ Len(q) \in Nat /\ DOMAIN r = 1..Len(q) + 1 /\ DOMAIN q = 1..Len(q)
      /\ (\A i \in 1..Len(q) : r[i] = q[i]) /\ r[Len(q) + 1] = e
  BY Appended
<1>2. PICK n \in Nat : n = Len(q) BY <1>1, Zenon
<1>3. ASSUME NEW i \in 1..n PROVE Counted(r, i) = Counted(q, i)
  <2>1. r[i] = q[i] /\ \A j \in 1..n : r[j] = q[j] BY <1>1, <1>2
  <2>2. ~(n + 1 < i) BY <1>2
  <2>3. QED BY <1>1, <1>2, <2>1, <2>2 DEF Counted
<1>4. HalfHour \in Nat /\ Kept \in Nat /\ MaxCount \in Nat /\ MaxCount2 \in Nat
      /\ MaxCount <= MaxCount2 /\ MaxCount2 <= Kept /\ TierSize \in Int /\ TierSize2 \in Int
  BY DEF Client!ConstantsOK
<1>5. Counted(r, n + 1) = SinceIn(q, e.login, at - HalfHour)
  <2>1. \A j \in 1..n : q[j] \in Passed BY <1>1, <1>2, ElementOfSeq
  <2>2. \A j \in 1..n : q[j].at \in Nat /\ q[j].at <= at BY <1>1, <1>2, <2>1, Zenon DEF Until, Passed
  <2>3. r[n + 1] = e /\ \A j \in 1..n : r[j] = q[j] BY <1>1, <1>2
  <2>4. \A j \in 1..n : q[j].at \in at - HalfHour..at <=> q[j].at >= at - HalfHour
    BY <1>4, <2>2
  <2>5. \A j \in 1..n + 1 : j < n + 1 <=> j \in 1..n BY <1>2
  <2>6. QED BY <1>1, <1>2, <2>3, <2>4, <2>5 DEF Counted, SinceIn
<1>6. PICK c \in Nat : c = Cardinality(Counted(r, n + 1)) /\ (c <= Len(times) \/ Kept <= Len(times))
  BY <1>5, CountSuffices
<1>7. e.size \in Int /\ Len(times) \in Nat BY LenProperties DEF Passed
<1>8. (e.size < TierSize => c < MaxCount) /\ (e.size < TierSize2 => c < MaxCount2)
  BY <1>4, <1>6, <1>7 DEF Client!WindowAllows
<1>9. \A i \in DOMAIN r : i \in 1..n \/ i = n + 1 BY <1>1, <1>2
<1>10. QED BY <1>1, <1>2, <1>3, <1>6, <1>8, <1>9 DEF Within

-----------------------------------------------------------------------------
\* The start: full buckets and empty windows.
LEMMA ClientStart == Client!ConstantsOK /\ Client!Init => ClientInv
<1> SUFFICES ASSUME Client!ConstantsOK, Client!Init PROVE ClientInv OBVIOUS
<1>1. {PerSec, Per5Sec, Kept, TrimEvery} \subseteq Nat \ {0}
      /\ {HalfHour, MaxTicks, MaxCalls, MaxResting} \subseteq Nat
  BY DEF Client!ConstantsOK
<1>2. /\ c_mode \in Modes /\ c_now \in 0..MaxTicks /\ c_calls \in 0..MaxCalls
      /\ c_bucket \in [sec : 0..5 * PerSec, five : 0..5 * Per5Sec, last : Nat]
      /\ c_bucket.last <= c_now
      /\ c_window \in [Logins -> [times : Seq(Nat), calls : Nat]]
  BY <1>1 DEF Client!Init
<1>3. ASSUME NEW l \in Logins
      PROVE  /\ Ordered(c_window[l].times)
             /\ \A i \in DOMAIN c_window[l].times : c_window[l].times[i] <= c_now
             /\ Len(c_window[l].times) <= Kept + 1 + (c_window[l].calls % TrimEvery)
  <2>1. c_window[l].times = <<>> /\ c_window[l].calls = 0 BY DEF Client!Init
  <2>2. 0 % TrimEvery \in 0..TrimEvery - 1 BY <1>1, Remainders, Zenon
  <2>3. DOMAIN <<>> = {} /\ Len(<<>>) = 0 OBVIOUS
  <2>4. QED BY <1>1, <2>1, <2>2, <2>3 DEF Ordered
<1>4. IsFiniteSet(c_resting) /\ Cardinality(c_resting) <= MaxResting
  BY <1>1, FS_EmptySet DEF Client!Init
<1>5. PICK q \in Seq(Passed) : q = <<>> /\ c_sent = q /\ DOMAIN q = {}
  <2>1. <<>> \in Seq(Passed) /\ DOMAIN <<>> = {} OBVIOUS
  <2>2. c_sent = <<>> BY DEF Client!Init
  <2>3. QED BY <2>1, <2>2, Zenon
<1>6. Until(c_sent, c_bucket.last) BY <1>5 DEF Until
<1>7. ASSUME NEW l \in Logins PROVE Windowed(c_sent, c_window[l].times, l, c_now)
  <2>1. \A t \in Int : SinceIn(q, l, t) = {} BY <1>5 DEF SinceIn
  <2>2. \A k \in 1..Kept : ~(Cardinality({}) >= k) BY FS_EmptySet
  <2>3. QED BY <1>5, <2>1, <2>2, Zenon DEF Windowed
<1>8. Within(c_sent) BY <1>5 DEF Within
<1>9. ASSUME NEW cap \in Nat, NEW rate \in Nat PROVE Paced(c_sent, 0, cap, rate, cap)
  <2>1. \A a, b \in Nat : FromIn(q, a) = {} /\ SpanIn(q, a, b) = {}
    BY <1>5 DEF FromIn, SpanIn
  <2>2. Cardinality({}) = 0 BY FS_EmptySet
  <2>3. \A a, b \in Nat : a <= b => (b - a) * rate \in Nat
    <3> TAKE a, b \in Nat
    <3>1. a <= b => b - a \in Nat OBVIOUS
    <3>2. QED BY <3>1, Products
  <2>4. ASSUME NEW a \in 0..0
        PROVE  5 * Cardinality(FromIn(q, a)) + cap <= cap + (0 - a) * rate
    <3>1. a = 0 /\ (0 - a) * rate = 0 OBVIOUS
    <3>2. Cardinality(FromIn(q, a)) = 0
      <4>1. a \in Nat OBVIOUS
      <4>2. FromIn(q, a) = {} BY <2>1, <4>1
      <4>3. QED BY <2>2, <4>2
    <3>3. QED BY <3>1, <3>2
  <2>5. ASSUME NEW a \in Nat, NEW b \in Nat, a <= b
        PROVE  5 * Cardinality(SpanIn(q, a, b)) <= cap + (b - a) * rate
    <3>1. Cardinality(SpanIn(q, a, b)) = 0 /\ (b - a) * rate \in Nat
      BY <2>1, <2>2, <2>3, <2>5, Zenon
    <3>2. QED BY <3>1
  <2>6. QED BY <1>5, <2>4, <2>5 DEF Paced
<1>10. /\ Paced(c_sent, c_bucket.last, 5 * PerSec, 5 * PerSec, c_bucket.sec)
       /\ Paced(c_sent, c_bucket.last, 5 * Per5Sec, Per5Sec, c_bucket.five)
  <2>1. c_bucket.last = 0 /\ c_bucket.sec = 5 * PerSec /\ c_bucket.five = 5 * Per5Sec
    BY DEF Client!Init
  <2>2. 5 * PerSec \in Nat /\ 5 * Per5Sec \in Nat /\ Per5Sec \in Nat BY <1>1
  <2>3. QED BY <1>9, <2>1, <2>2
<1>11. QED BY <1>2, <1>3, <1>4, <1>5, <1>6, <1>7, <1>8, <1>10 DEF ClientInv

\* Fewer tokens keep the pace as well.
LEMMA PaceLess ==
  ASSUME NEW q, NEW at, NEW cap, NEW rate, NEW tokens \in Nat, NEW less \in Nat, less <= tokens,
         q \in Seq(Passed), at \in Nat, cap \in Nat, rate \in Nat, Paced(q, at, cap, rate, tokens)
  PROVE  Paced(q, at, cap, rate, less)
<1>1. ASSUME NEW a \in 0..at
      PROVE  5 * Cardinality(FromIn(q, a)) + less <= cap + (at - a) * rate
  <2>1. PICK n \in Nat : n = Len(q) /\ DOMAIN q = 1..n BY LenProperties
  <2>2. PICK F \in SUBSET (1..n) : F = FromIn(q, a) BY <2>1, Zenon DEF FromIn
  <2>3. PICK c \in Nat : c = Cardinality(FromIn(q, a)) 
    <3>1. Cardinality(F) \in 0..n BY Indices, Zenon
    <3>2. QED BY <2>2, <3>1
  <2>4. at - a \in Nat OBVIOUS
  <2>5. PICK x \in Nat : x = (at - a) * rate BY <2>4, Products
  <2>6. 5 * c + tokens <= cap + x BY <2>3, <2>5 DEF Paced
  <2>7. QED BY <2>3, <2>5, <2>6
<1>2. QED BY <1>1 DEF Paced

\* The buckets filled up to now.
LEMMA ClientRefill ==
  ASSUME Client!ConstantsOK, ClientInv, NEW b, b = Client!Refilled
  PROVE  /\ b.sec \in 0..5 * PerSec /\ b.five \in 0..5 * Per5Sec /\ b.last = c_now
         /\ DOMAIN b = {"sec", "five", "last"} /\ Until(c_sent, c_now)
         /\ Paced(c_sent, c_now, 5 * PerSec, 5 * PerSec, b.sec)
         /\ Paced(c_sent, c_now, 5 * Per5Sec, Per5Sec, b.five)
<1>1. {PerSec, Per5Sec} \subseteq Nat \ {0} /\ MaxTicks \in Nat BY DEF Client!ConstantsOK
<1>2. /\ c_now \in 0..MaxTicks /\ c_sent \in Seq(Passed) /\ Until(c_sent, c_bucket.last)
      /\ c_bucket \in [sec : 0..5 * PerSec, five : 0..5 * Per5Sec, last : Nat]
      /\ c_bucket.last <= c_now
      /\ Paced(c_sent, c_bucket.last, 5 * PerSec, 5 * PerSec, c_bucket.sec)
      /\ Paced(c_sent, c_bucket.last, 5 * Per5Sec, Per5Sec, c_bucket.five)
  BY DEF ClientInv
<1>3. PICK p \in Nat, p5 \in Nat : p = 5 * PerSec /\ p5 = 5 * Per5Sec BY <1>1
<1>4. PICK now \in Nat : now = c_now BY <1>1, <1>2
<1>5. PICK sec \in 0..p, five \in 0..p5, old \in Nat :
         sec = c_bucket.sec /\ five = c_bucket.five /\ old = c_bucket.last /\ old <= now
  BY <1>2, <1>3, <1>4
<1>6. PICK e \in Nat : e = now - old BY <1>5
<1>7. PICK x \in Nat, y \in Nat : x = e * p /\ y = e * Per5Sec BY <1>1, Products
<1>8. e * 5 * PerSec = x BY <1>1, <1>3, <1>7
<1>9. /\ b.sec = Client!AtMost(sec + x, p) /\ b.five = Client!AtMost(five + y, p5)
      /\ b.last = now /\ DOMAIN b = {"sec", "five", "last"}
  BY <1>3, <1>4, <1>5, <1>6, <1>7, <1>8 DEF Client!Refilled
<1>10. /\ b.sec \in 0..p /\ b.sec <= sec + x
       /\ b.five \in 0..p5 /\ b.five <= five + y
  BY <1>9 DEF Client!AtMost
<1>11. Until(c_sent, c_now)
  <2>1. PICK q \in Seq(Passed) : q = c_sent BY <1>2
  <2>2. \A i \in DOMAIN q : q[i] \in Passed BY ElementOfSeq, LenProperties
  <2>3. \A i \in DOMAIN q : q[i].at \in Nat /\ q[i].at <= old BY <1>2, <1>5, <2>1, <2>2 DEF Until, Passed
  <2>4. QED BY <1>4, <1>5, <2>1, <2>3 DEF Until
<1>12. Paced(c_sent, now, p, p, b.sec)
  BY <1>2, <1>3, <1>5, <1>6, <1>7, <1>10, PaceRefill, Zenon
<1>13. Paced(c_sent, now, p5, Per5Sec, b.five)
  BY <1>1, <1>2, <1>3, <1>5, <1>6, <1>7, <1>10, PaceRefill, Zenon
<1>14. QED BY <1>3, <1>4, <1>9, <1>10, <1>11, <1>12, <1>13

\* A login's window at a call.
LEMMA ClientTrim ==
  ASSUME Client!ConstantsOK, ClientInv, NEW l \in Logins, NEW n, n = c_window[l].calls + 1,
         NEW times, times = Client!Trimmed([c_window[l] EXCEPT !.calls = n])
  PROVE  /\ n \in Nat /\ times \in Seq(Nat) /\ Ordered(times)
         /\ \A i \in DOMAIN times : times[i] <= c_now
         /\ Len(times) <= Kept + (n % TrimEvery)
         /\ Windowed(c_sent, times, l, c_now)
<1>1. /\ TrimEvery \in Nat \ {0} /\ Kept \in Nat \ {0} /\ HalfHour \in Nat /\ MaxTicks \in Nat
  BY DEF Client!ConstantsOK
<1>2. /\ c_now \in Nat /\ c_window[l] \in [times : Seq(Nat), calls : Nat]
      /\ Ordered(c_window[l].times)
      /\ \A i \in DOMAIN c_window[l].times : c_window[l].times[i] <= c_now
      /\ Len(c_window[l].times) <= Kept + 1 + (c_window[l].calls % TrimEvery)
      /\ Windowed(c_sent, c_window[l].times, l, c_now)
  BY <1>1 DEF ClientInv
<1>3. PICK w \in [times : Seq(Nat), calls : Nat] : w = [c_window[l] EXCEPT !.calls = n]
  BY <1>2
<1>4. w.times = c_window[l].times /\ w.calls = n /\ n \in Nat BY <1>2, <1>3
<1>5. PICK old \in Seq(Nat) : old = w.times BY <1>3
<1>6. /\ times \in Seq(Nat) /\ Ordered(times) /\ Len(times) <= Len(old)
      /\ n % TrimEvery = 0 => Len(times) <= Kept
      /\ \A i \in DOMAIN times : \E j \in DOMAIN old : times[i] = old[j]
      /\ \A k \in 1..Kept, t \in Int :
             t >= c_now - HalfHour /\ Reaches(old, k, t) => Reaches(times, k, t)
  BY <1>2, <1>3, <1>4, <1>5, TrimKeeps, Zenon
<1>7. \A i \in DOMAIN times : times[i] <= c_now
  <2>1. \A j \in DOMAIN old : old[j] <= c_now BY <1>2, <1>4, <1>5
  <2>2. QED BY <1>6, <2>1, Zenon
<1>8. Len(times) <= Kept + (n % TrimEvery)
  <2>1. PICK c \in Nat : c = c_window[l].calls BY <1>2
  <2>2. n = c + 1 BY <2>1
  <2>3. PICK a \in Nat, b \in Nat : /\ a = c % TrimEvery /\ b = n % TrimEvery
                                   /\ (b = 0 \/ b = a + 1)
    <3>1. n \in Nat /\ c \in Nat BY <1>4
    <3>2. /\ c % TrimEvery \in 0..TrimEvery - 1
          /\ (c + 1) % TrimEvery = 0 \/ (c + 1) % TrimEvery = (c % TrimEvery) + 1
      BY <1>1, <3>1, Remainders
    <3>3. n % TrimEvery \in 0..TrimEvery - 1 BY <1>1, <3>1, Remainders, Zenon
    <3>5. PICK a \in Nat, b \in Nat : a = c % TrimEvery /\ b = n % TrimEvery
      BY <1>1, <3>2, <3>3
    <3>6. b = 0 \/ b = a + 1 BY <2>2, <3>2, <3>5
    <3>7. QED BY <3>5, <3>6
  <2>4. PICK k \in Nat, m \in Nat : k = Len(times) /\ m = Len(old) BY <1>6, LenProperties, Zenon
  <2>9. Len(c_window[l].times) <= Kept + 1 + (c_window[l].calls % TrimEvery) BY <1>2
  <2>10. Len(old) <= Kept + 1 + (c % TrimEvery) BY <1>4, <1>5, <2>1, <2>9
  <2>5. m <= Kept + 1 + a BY <2>3, <2>4, <2>10
  <2>6. k <= m /\ (b = 0 => k <= Kept) BY <1>6, <2>3, <2>4
  <2>7. k <= Kept + b BY <1>1, <2>3, <2>5, <2>6
  <2>8. QED BY <2>3, <2>4, <2>7
<1>9. Windowed(c_sent, times, l, c_now) BY <1>2, <1>4, <1>5, <1>6, Zenon DEF Windowed
<1>10. QED BY <1>4, <1>6, <1>7, <1>8, <1>9, Zenon

\* What does not send.
LEMMA ClientKeeps ==
  ASSUME Client!ConstantsOK, ClientInv, UNCHANGED <<c_mode, c_bucket, c_window, c_sent>>,
         c_now' \in c_now..MaxTicks, c_calls' \in 0..MaxCalls,
         IsFiniteSet(c_resting'), Cardinality(c_resting') <= MaxResting
  PROVE  ClientInv'
<1>1. MaxTicks \in Nat /\ HalfHour \in Nat BY DEF Client!ConstantsOK
<1>2. c_now \in Nat /\ c_now' \in 0..MaxTicks /\ c_now <= c_now' BY <1>1 DEF ClientInv
<1>3. c_mode' \in Modes /\ c_bucket'.last <= c_now'
  BY <1>1, <1>2 DEF ClientInv
<1>4. ASSUME NEW l \in Logins
      PROVE  /\ Ordered(c_window[l].times)
             /\ \A i \in DOMAIN c_window[l].times : c_window[l].times[i] <= c_now'
             /\ Len(c_window[l].times) <= Kept + 1 + (c_window[l].calls % TrimEvery)
             /\ Windowed(c_sent, c_window[l].times, l, c_now')
  <2>1. /\ c_window[l] \in [times : Seq(Nat), calls : Nat]
        /\ Ordered(c_window[l].times)
        /\ \A i \in DOMAIN c_window[l].times : c_window[l].times[i] <= c_now
        /\ Len(c_window[l].times) <= Kept + 1 + (c_window[l].calls % TrimEvery)
        /\ Windowed(c_sent, c_window[l].times, l, c_now)
    BY Zenon DEF ClientInv
  <2>2. PICK q \in Seq(Nat) : q = c_window[l].times BY <2>1
  <2>3. \A i \in DOMAIN q : q[i] \in Nat BY ElementOfSeq, LenProperties
  <2>4. \A i \in DOMAIN q : q[i] <= c_now' BY <1>2, <2>1, <2>2, <2>3
  <2>8. PICK a \in Nat, b \in Nat : a = c_now /\ b = c_now' /\ a <= b BY <1>2
  <2>9. ASSUME NEW t \in Int, t >= b - HalfHour PROVE t >= a - HalfHour
    <3>1. PICK h \in Nat : h = HalfHour BY <1>1
    <3>2. t >= b - h BY <2>9, <3>1
    <3>5. a <= b BY <2>8
    <3>3. t >= a - h BY <3>2, <3>5
    <3>4. QED BY <3>1, <3>3
  <2>5. \A t \in Int : t >= c_now' - HalfHour => t >= c_now - HalfHour
    <3> TAKE t \in Int
    <3>1. t >= b - HalfHour => t >= a - HalfHour BY <2>9
    <3>2. QED BY <2>8, <3>1
  <2>6. Windowed(c_sent, c_window[l].times, l, c_now') BY <2>1, <2>5 DEF Windowed
  <2>7. QED BY <2>1, <2>2, <2>4, <2>6
<1>5. /\ c_bucket' \in [sec : 0..5 * PerSec, five : 0..5 * Per5Sec, last : Nat]
      /\ c_window' \in [Logins -> [times : Seq(Nat), calls : Nat]]
      /\ c_sent' \in Seq(Passed) /\ Until(c_sent', c_bucket'.last) /\ Within(c_sent')
      /\ Paced(c_sent', c_bucket'.last, 5 * PerSec, 5 * PerSec, c_bucket'.sec)
      /\ Paced(c_sent', c_bucket'.last, 5 * Per5Sec, Per5Sec, c_bucket'.five)
  BY DEF ClientInv
<1>6. \A l \in Logins :
             /\ Ordered(c_window'[l].times)
             /\ \A i \in DOMAIN c_window'[l].times : c_window'[l].times[i] <= c_now'
             /\ Len(c_window'[l].times) <= Kept + 1 + (c_window'[l].calls % TrimEvery)
             /\ Windowed(c_sent', c_window'[l].times, l, c_now')
  BY <1>4
<1>7. \A l \in Logins : Windowed(c_sent', c_window'[l].times, l, c_now') BY <1>6
<1>8. \A l \in Logins :
             /\ Ordered(c_window'[l].times)
             /\ \A i \in DOMAIN c_window'[l].times : c_window'[l].times[i] <= c_now'
             /\ Len(c_window'[l].times) <= Kept + 1 + (c_window'[l].calls % TrimEvery)
  BY <1>6
<1>9. QED BY <1>2, <1>3, <1>5, <1>7, <1>8 DEF ClientInv

\* A call that passes the limiters, or is refused by one after it took from another.
LEMMA ClientLimited ==
  ASSUME Client!ConstantsOK, ClientInv, NEW l \in Logins, NEW size \in CallSizes,
         Client!Limited(l, size), UNCHANGED <<c_mode, c_now, c_resting>>,
         c_calls' \in 0..MaxCalls
  PROVE  ClientInv'
<1>1. /\ {PerSec, Per5Sec, TrimEvery, Kept} \subseteq Nat \ {0} /\ MaxTicks \in Nat
      /\ CallSizes \subseteq Int
  BY DEF Client!ConstantsOK
<1>2. PICK p \in Nat, p5 \in Nat : p = 5 * PerSec /\ p5 = 5 * Per5Sec BY <1>1
<1>3. PICK now \in Nat : now = c_now BY <1>1 DEF ClientInv
<1>4. PICK q \in Seq(Passed) : q = c_sent BY DEF ClientInv
<1>5. PICK b : b = Client!Refilled OBVIOUS
<1>6. /\ b.sec \in 0..p /\ b.five \in 0..p5 /\ b.last = now
      /\ DOMAIN b = {"sec", "five", "last"} /\ Until(q, now)
      /\ Paced(q, now, p, p, b.sec) /\ Paced(q, now, p5, Per5Sec, b.five)
  BY <1>2, <1>3, <1>4, <1>5, ClientRefill
<1>7. c_mode' \in Modes /\ c_now' \in 0..MaxTicks /\ c_now' = now
      /\ IsFiniteSet(c_resting') /\ Cardinality(c_resting') <= MaxResting
  BY <1>3 DEF ClientInv
<1>8. /\ c_window \in [Logins -> [times : Seq(Nat), calls : Nat]] /\ Within(q)
      /\ \A k \in Logins :
             /\ Ordered(c_window[k].times)
             /\ \A i \in DOMAIN c_window[k].times : c_window[k].times[i] <= now
             /\ Len(c_window[k].times) <= Kept + 1 + (c_window[k].calls % TrimEvery)
             /\ Windowed(q, c_window[k].times, k, now)
  BY <1>3, <1>4 DEF ClientInv
<1>b. b \in [sec : 0..p, five : 0..p5, last : Nat]
  <2>1. b = [sec |-> b.sec, five |-> b.five, last |-> b.last]
    BY <1>5 DEF Client!Refilled
  <2>2. QED BY <1>6, <2>1
<1>9. CASE ~Client!Allows(b)
  <2>1. c_bucket' = b /\ c_window' = c_window /\ c_sent' = q
    BY <1>4, <1>5, <1>9 DEF Client!Limited, Client!Taken
  <2>2. c_bucket'.last = now /\ c_bucket'.sec = b.sec /\ c_bucket'.five = b.five
    BY <1>6, <2>1
  <2>3. \A k \in Logins :
             /\ Ordered(c_window'[k].times)
             /\ \A i \in DOMAIN c_window'[k].times : c_window'[k].times[i] <= c_now'
             /\ Len(c_window'[k].times) <= Kept + 1 + (c_window'[k].calls % TrimEvery)
             /\ Windowed(c_sent', c_window'[k].times, k, c_now')
    BY <1>7, <1>8, <2>1
  <2>4. /\ c_bucket' \in [sec : 0..5 * PerSec, five : 0..5 * Per5Sec, last : Nat]
        /\ c_bucket'.last <= c_now'
    BY <1>2, <1>7, <1>b, <2>1, <2>2
  <2>5. /\ c_window' \in [Logins -> [times : Seq(Nat), calls : Nat]]
        /\ c_sent' \in Seq(Passed) /\ Until(c_sent', c_bucket'.last) /\ Within(c_sent')
        /\ Paced(c_sent', c_bucket'.last, 5 * PerSec, 5 * PerSec, c_bucket'.sec)
        /\ Paced(c_sent', c_bucket'.last, 5 * Per5Sec, Per5Sec, c_bucket'.five)
    BY <1>2, <1>6, <1>8, <2>1, <2>2
  <2>6. \A k \in Logins : Windowed(c_sent', c_window'[k].times, k, c_now') BY <2>3
  <2>7. \A k \in Logins :
             /\ Ordered(c_window'[k].times)
             /\ \A i \in DOMAIN c_window'[k].times : c_window'[k].times[i] <= c_now'
             /\ Len(c_window'[k].times) <= Kept + 1 + (c_window'[k].calls % TrimEvery)
    BY <2>3
  <2>8. QED BY <1>7, <2>4, <2>5, <2>6, <2>7, Zenon DEF ClientInv
<1>10. CASE Client!Allows(b)
  <2>1. PICK n : n = c_window[l].calls + 1 OBVIOUS
  <2>2. PICK times : times = Client!Trimmed([c_window[l] EXCEPT !.calls = n]) OBVIOUS
  <2>3. /\ n \in Nat /\ times \in Seq(Nat) /\ Ordered(times)
        /\ \A i \in DOMAIN times : times[i] <= now
        /\ Len(times) <= Kept + (n % TrimEvery)
        /\ Windowed(q, times, l, now)
    BY <1>3, <1>4, <2>1, <2>2, ClientTrim
  <2>4. PICK t \in [sec : 0..p, five : 0..p5, last : Nat] :
           /\ t = Client!Taken(b) /\ t.sec = b.sec - 5 /\ t.five = b.five - 5
           /\ t.last = now /\ b.sec >= 5 /\ b.five >= 5
    <3>1. b.sec >= 5 /\ b.five >= 5 BY <1>10 DEF Client!Allows
    <3>2. Client!Taken(b) = [b EXCEPT !.sec = b.sec - 5, !.five = b.five - 5]
      BY <1>10 DEF Client!Taken
    <3>3. b.sec - 5 \in 0..p /\ b.five - 5 \in 0..p5 BY <1>6, <3>1
    <3>4. [b EXCEPT !.sec = b.sec - 5, !.five = b.five - 5]
             \in [sec : 0..p, five : 0..p5, last : Nat]
      BY <1>b, <3>3, Zenon
    <3>5. PICK t : t = [b EXCEPT !.sec = b.sec - 5, !.five = b.five - 5] OBVIOUS
    <3>6. t.sec = b.sec - 5 /\ t.five = b.five - 5 /\ t.last = b.last BY <1>6, <3>5
    <3>7. QED BY <1>6, <3>1, <3>2, <3>4, <3>5, <3>6, Zenon
  <2>5. c_bucket' = t BY <1>5, <2>4 DEF Client!Limited
  <2>6. /\ c_bucket' \in [sec : 0..5 * PerSec, five : 0..5 * Per5Sec, last : Nat]
        /\ c_bucket'.last = now /\ c_bucket'.sec = t.sec /\ c_bucket'.five = t.five
    BY <1>2, <2>4, <2>5
  <2>7. PICK ok \in BOOLEAN : ok = Client!WindowAllows(Len(times), size)
    BY Zenon DEF Client!WindowAllows
  <2>8. PICK w : w = IF ok THEN Append(times, now) ELSE times BY Zenon
  <2>9. /\ c_window' = [c_window EXCEPT ![l] = [times |-> w, calls |-> n]]
        /\ c_sent' = IF ok THEN Append(q, [login |-> l, size |-> size, at |-> now]) ELSE q
    BY <1>3, <1>4, <1>5, <1>10, <2>1, <2>2, <2>7, <2>8, Zenon DEF Client!Limited
  <2>10. /\ w \in Seq(Nat) /\ Ordered(w) /\ Len(w) <= Kept + 1 + (n % TrimEvery)
         /\ \A i \in DOMAIN w : w[i] <= now
    <3>0. PICK k \in Nat, m \in Nat : k = Len(times) /\ m = n % TrimEvery /\ k <= Kept + m
      <4>1. n % TrimEvery \in 0..TrimEvery - 1 BY <1>1, <2>3, Remainders, Zenon
      <4>2. Len(times) \in Nat BY <2>3, LenProperties
      <4>3. n % TrimEvery \in Nat BY <1>1, <4>1
      <4>4. QED BY <2>3, <4>2, <4>3, Zenon
    <3>1. CASE ~ok
      <4>1. w = times BY <2>8, <3>1
      <4>2. Len(w) <= Kept + 1 + (n % TrimEvery) BY <1>1, <3>0, <4>1
      <4>3. QED BY <2>3, <4>1, <4>2
    <3>2. CASE ok
      <4>1. PICK T : T = Nat BY Zenon
      <4>2. times \in Seq(T) /\ now \in T /\ w = Append(times, now)
        BY <2>3, <2>8, <3>2, <4>1
      <4>3. /\ w \in Seq(T) /\ Len(times) \in Nat /\ Len(w) = Len(times) + 1
            /\ DOMAIN w = 1..Len(times) + 1 /\ DOMAIN times = 1..Len(times)
            /\ \A i \in 1..Len(times) : w[i] = times[i]
            /\ w[Len(times) + 1] = now
        BY <4>2, Appended
      <4>4. \A i \in 1..k + 1 : i \in 1..k \/ i = k + 1 OBVIOUS
      <4>5. \A i \in 1..k : w[i] = times[i] /\ times[i] <= now
        BY <2>3, <3>0, <4>3, Zenon
      <4>6. w[k + 1] = now BY <3>0, <4>3
      <4>7. \A i \in DOMAIN w : w[i] <= now BY <3>0, <4>3, <4>4, <4>5, <4>6
      <4>8. Ordered(w)
        <5> SUFFICES ASSUME NEW i \in 1..k + 1, NEW j \in 1..k + 1, i <= j PROVE w[i] <= w[j]
          BY <3>0, <4>3, Zenon DEF Ordered
        <5>1. CASE j = k + 1 BY <3>0, <4>3, <4>6, <4>7, <5>1, Zenon
        <5>2. CASE j \in 1..k
          <6>1. i \in 1..k BY <5>2
          <6>2. times[i] <= times[j] BY <2>3, <3>0, <4>3, <5>2, <6>1, Zenon DEF Ordered
          <6>3. QED BY <4>5, <5>2, <6>1, <6>2
        <5>3. QED BY <4>4, <5>1, <5>2
      <4>9. Len(w) <= Kept + 1 + (n % TrimEvery)
        <5>1. Kept \in Nat BY <1>1
        <5>2. Len(w) = k + 1 BY <3>0, <4>3
        <5>3. k + 1 <= Kept + 1 + m BY <3>0, <5>1
        <5>4. QED BY <3>0, <5>2, <5>3
      <4>10. w \in Seq(Nat) BY <4>1, <4>3
      <4>11. QED BY <4>7, <4>8, <4>9, <4>10
    <3>3. QED BY <3>1, <3>2
  <2>11. /\ c_sent' \in Seq(Passed) /\ Until(c_sent', now) /\ Within(c_sent')
         /\ Paced(c_sent', now, p, p, t.sec) /\ Paced(c_sent', now, p5, Per5Sec, t.five)
         /\ Windowed(c_sent', w, l, now)
         /\ \A k \in Logins \ {l} : Windowed(c_sent', c_window[k].times, k, now)
    <3>1. CASE ~ok
      <4>1. c_sent' = q /\ w = times BY <2>8, <2>9, <3>1
      <4>2. /\ t.sec \in Nat /\ b.sec \in Nat /\ t.five \in Nat /\ b.five \in Nat
            /\ t.sec <= b.sec /\ t.five <= b.five
        BY <1>6, <2>4
      <4>3. Paced(q, now, p, p, t.sec) BY <1>6, <4>2, PaceLess, Zenon
      <4>4. Paced(q, now, p5, Per5Sec, t.five) BY <1>1, <1>6, <4>2, PaceLess, Zenon
      <4>5. \A k \in Logins \ {l} : Windowed(q, c_window[k].times, k, now) BY <1>8
      <4>6. Within(q) /\ Until(q, now) /\ Windowed(q, times, l, now) BY <1>6, <1>8, <2>3
      <4>7. QED BY <4>1, <4>3, <4>4, <4>5, <4>6
    <3>2. CASE ok
      <4>1. PICK e \in Passed : e = [login |-> l, size |-> size, at |-> now]
        BY <1>1, Zenon DEF Passed
      <4>2. e.login = l /\ e.size = size /\ e.at = now BY <4>1
      <4>3. PICK r : r = Append(q, e) BY Zenon
      <4>4. c_sent' = r /\ w = Append(times, now) BY <2>8, <2>9, <3>2, <4>1, <4>3, Zenon
      <4>5. /\ r \in Seq(Passed) /\ Len(q) \in Nat /\ DOMAIN r = 1..Len(q) + 1
            /\ DOMAIN q = 1..Len(q) /\ (\A i \in 1..Len(q) : r[i] = q[i])
            /\ r[Len(q) + 1] = e
        BY <4>3, Appended
      <4>6. Until(r, now)
        <5>1. \A i \in DOMAIN r : i \in 1..Len(q) \/ i = Len(q) + 1 BY <4>5
        <5>2. QED BY <1>6, <4>2, <4>5, <5>1 DEF Until
      <4>7. Windowed(r, w, l, now) BY <1>6, <2>3, <4>2, <4>3, <4>4, WindowGrows, Zenon
      <4>8. ASSUME NEW k \in Logins \ {l} PROVE Windowed(r, c_window[k].times, k, now)
        <5>1. Windowed(q, c_window[k].times, k, now) /\ e.login # k BY <1>8, <4>2
        <5>2. QED BY <4>3, <5>1, WindowOther, Zenon
      <4>9. Client!WindowAllows(Len(times), e.size) BY <2>7, <3>2, <4>2, Zenon
      <4>10. Windowed(q, times, e.login, now) BY <2>3, <4>2
      <4>11. Within(r) BY <1>6, <1>8, <2>3, <4>2, <4>3, <4>9, <4>10, WithinSend, Zenon
      <4>12. b.sec \in 5..p /\ b.five \in 5..p5 BY <1>6, <2>4
      <4>13. Paced(r, now, p, p, b.sec - 5) BY <1>6, <4>2, <4>3, <4>12, PaceSend, Zenon
      <4>14. Paced(r, now, p5, Per5Sec, b.five - 5) BY <1>1, <1>6, <4>2, <4>3, <4>12, PaceSend, Zenon
      <4>15. QED BY <2>4, <4>4, <4>5, <4>6, <4>7, <4>8, <4>11, <4>13, <4>14
    <3>3. QED BY <3>1, <3>2
  <2>12. [times |-> w, calls |-> n] \in [times : Seq(Nat), calls : Nat] BY <2>3, <2>10
  <2>13. /\ c_window' \in [Logins -> [times : Seq(Nat), calls : Nat]]
         /\ c_window'[l].times = w /\ c_window'[l].calls = n
         /\ \A k \in Logins \ {l} : c_window'[k] = c_window[k]
    BY <1>8, <2>9, <2>12
  <2>14. \A k \in Logins :
             /\ Ordered(c_window'[k].times)
             /\ \A i \in DOMAIN c_window'[k].times : c_window'[k].times[i] <= c_now'
             /\ Len(c_window'[k].times) <= Kept + 1 + (c_window'[k].calls % TrimEvery)
             /\ Windowed(c_sent', c_window'[k].times, k, c_now')
    <3> TAKE k \in Logins
    <3>1. CASE k = l BY <1>7, <2>10, <2>11, <2>13, <3>1, Zenon
    <3>2. CASE k # l BY <1>7, <1>8, <2>11, <2>13, <3>2, Zenon
    <3>3. QED BY <3>1, <3>2
  <2>15. /\ Until(c_sent', c_bucket'.last)
         /\ Paced(c_sent', c_bucket'.last, 5 * PerSec, 5 * PerSec, c_bucket'.sec)
         /\ Paced(c_sent', c_bucket'.last, 5 * Per5Sec, Per5Sec, c_bucket'.five)
    BY <1>2, <2>6, <2>11
  <2>16. c_bucket'.last <= c_now' BY <1>7, <2>6
  <2>17. \A k \in Logins : Windowed(c_sent', c_window'[k].times, k, c_now') BY <2>14
  <2>18. \A k \in Logins :
             /\ Ordered(c_window'[k].times)
             /\ \A i \in DOMAIN c_window'[k].times : c_window'[k].times[i] <= c_now'
             /\ Len(c_window'[k].times) <= Kept + 1 + (c_window'[k].calls % TrimEvery)
    BY <2>14
  <2>19. QED BY <1>7, <2>6, <2>11, <2>13, <2>15, <2>16, <2>17, <2>18, Zenon DEF ClientInv
<1>11. QED BY <1>9, <1>10

\* So every step of the client keeps the invariant.
LEMMA ClientStep ==
  ASSUME Client!ConstantsOK, ClientInv, Client!Next
  PROVE  ClientInv'
<1>1. /\ MaxTicks \in Nat /\ MaxCalls \in Nat /\ MaxResting \in Nat BY DEF Client!ConstantsOK
<1>2. /\ c_now \in 0..MaxTicks /\ c_calls \in 0..MaxCalls
      /\ IsFiniteSet(c_resting) /\ Cardinality(c_resting) <= MaxResting
  BY DEF ClientInv
<1>3. c_now \in c_now..MaxTicks BY <1>1, <1>2
<1>4. PICK n \in Nat : n = Cardinality(c_resting) /\ n <= MaxResting
  BY <1>2, FS_CardinalityType
<1>5. ASSUME NEW o \in c_resting
      PROVE  /\ IsFiniteSet(c_resting \ {o})
             /\ Cardinality(c_resting \ {o}) = n - 1 /\ n - 1 \in Nat
             /\ \A x : /\ IsFiniteSet((c_resting \ {o}) \cup {x})
                       /\ Cardinality((c_resting \ {o}) \cup {x}) <= MaxResting
  <2>1. IsFiniteSet(c_resting \ {o}) /\ Cardinality(c_resting \ {o}) = n - 1
    BY <1>2, <1>4, FS_RemoveElement
  <2>2. n - 1 \in Nat BY <2>1, FS_CardinalityType
  <2>3. ASSUME NEW x
        PROVE  /\ IsFiniteSet((c_resting \ {o}) \cup {x})
               /\ Cardinality((c_resting \ {o}) \cup {x}) <= MaxResting
    <3>1. PICK S : S = c_resting \ {o} BY Zenon
    <3>2. /\ IsFiniteSet(S \cup {x})
          /\ \/ Cardinality(S \cup {x}) = Cardinality(S)
             \/ Cardinality(S \cup {x}) = Cardinality(S) + 1
      BY <2>1, <3>1, FS_AddElement
    <3>3. Cardinality(S) = n - 1 BY <2>1, <3>1
    <3>4. QED BY <1>1, <1>4, <3>1, <3>2, <3>3
  <2>4. QED BY <2>1, <2>2, <2>3
<1>6. CASE \E l \in Logins, size \in CallSizes : Client!try_send_order_grpc(l, size)
  <2>1. PICK l \in Logins, size \in CallSizes : Client!try_send_order_grpc(l, size) BY <1>6
  <2>2. /\ UNCHANGED <<c_mode, c_now, c_resting>> /\ c_calls' = c_calls + 1
        /\ c_calls < MaxCalls /\ (Client!Bypass(l) \/ Client!Limited(l, size))
    BY <2>1 DEF Client!try_send_order_grpc
  <2>3. c_calls' \in 0..MaxCalls BY <1>1, <1>2, <2>2
  <2>4. CASE Client!Bypass(l)
    <3>1. UNCHANGED <<c_bucket, c_window, c_sent>> BY <2>4 DEF Client!Bypass
    <3>2. QED BY <1>2, <1>3, <2>2, <2>3, <3>1, ClientKeeps
  <2>5. CASE Client!Limited(l, size) BY <2>2, <2>3, <2>5, ClientLimited
  <2>6. QED BY <2>2, <2>4, <2>5
<1>7. CASE (\E ok \in BOOLEAN : Client!send_grpc_to_target(ok)) \/ Client!send_order
  <2>1. UNCHANGED <<c_mode, c_now, c_bucket, c_window, c_calls, c_resting, c_sent>>
    BY <1>7 DEF Client!send_grpc_to_target, Client!send_order
  <2>2. QED BY <1>2, <1>3, <2>1, ClientKeeps
<1>8. CASE \E level \in Client!Levels, side \in {"buy", "sell"}, price \in 1..3, mid \in 1..3,
              answer \in {"named", "unnamed", "refused"} :
             Client!try_send_order_flipster(level, side, price, mid, answer)
  <2>1. PICK level \in Client!Levels, side \in {"buy", "sell"}, price \in 1..3, mid \in 1..3,
             answer \in {"named", "unnamed", "refused"} :
               Client!try_send_order_flipster(level, side, price, mid, answer)
    BY <1>8
  <2>2. /\ UNCHANGED <<c_mode, c_now, c_bucket, c_window, c_sent>>
        /\ c_calls' = c_calls + 1 /\ c_calls < MaxCalls
        /\ \/ c_resting' = c_resting
           \/ /\ Client!Cardinality(c_resting) < MaxResting
              /\ \E x : c_resting' = c_resting \cup {x}
    BY <2>1, Zenon DEF Client!try_send_order_flipster
  <2>3. c_calls' \in 0..MaxCalls BY <1>1, <1>2, <2>2
  <2>4. IsFiniteSet(c_resting') /\ Cardinality(c_resting') <= MaxResting
    <3>1. CASE c_resting' = c_resting BY <1>2, <3>1
    <3>2. CASE c_resting' # c_resting
      <4>1. n < MaxResting BY <1>4, <2>2, <3>2, ClientCounts
      <4>2. PICK x : c_resting' = c_resting \cup {x} BY <2>2, <3>2, Zenon
      <4>3. /\ IsFiniteSet(c_resting \cup {x})
            /\ \/ Cardinality(c_resting \cup {x}) = n
               \/ Cardinality(c_resting \cup {x}) = n + 1
        BY <1>2, <1>4, FS_AddElement
      <4>4. Cardinality(c_resting \cup {x}) <= MaxResting BY <1>1, <1>4, <4>1, <4>3
      <4>5. QED BY <4>2, <4>3, <4>4
    <3>3. QED BY <3>1, <3>2
  <2>5. QED BY <1>3, <2>2, <2>3, <2>4, ClientKeeps
<1>9. CASE \E o \in c_resting : \/ \E ok \in BOOLEAN : Client!ExpireCancel(o, ok)
                                \/ Client!cancel_all_orders(o) \/ Client!Fill(o)
  <2>1. PICK o \in c_resting : \/ \E ok \in BOOLEAN : Client!ExpireCancel(o, ok)
                               \/ Client!cancel_all_orders(o) \/ Client!Fill(o)
    BY <1>9
  <2>2. /\ UNCHANGED <<c_mode, c_now, c_bucket, c_window, c_calls, c_sent>>
        /\ \/ c_resting' = c_resting \ {o}
           \/ \E x : c_resting' = (c_resting \ {o}) \cup {x}
    <3>1. CASE \E ok \in BOOLEAN : Client!ExpireCancel(o, ok)
      <4>1. PICK ok \in BOOLEAN : Client!ExpireCancel(o, ok) BY <3>1
      <4>2. /\ UNCHANGED <<c_mode, c_now, c_bucket, c_window, c_calls, c_sent>>
            /\ c_resting' = (c_resting \ {o}) \cup
                  (IF ok THEN {} ELSE {[o EXCEPT !.task = "spent"]})
        BY <4>1 DEF Client!ExpireCancel
      <4>3. QED BY <4>2
    <3>2. CASE Client!cancel_all_orders(o) \/ Client!Fill(o)
      BY <3>2 DEF Client!cancel_all_orders, Client!Fill
    <3>3. QED BY <2>1, <3>1, <3>2
  <2>3. IsFiniteSet(c_resting') /\ Cardinality(c_resting') <= MaxResting
    <3>1. CASE c_resting' = c_resting \ {o}
      <4>1. IsFiniteSet(c_resting \ {o}) /\ Cardinality(c_resting \ {o}) = n - 1 BY <1>5
      <4>2. n - 1 <= MaxResting BY <1>1, <1>4
      <4>3. QED BY <3>1, <4>1, <4>2
    <3>2. CASE \E x : c_resting' = (c_resting \ {o}) \cup {x} BY <1>5, <3>2, Zenon
    <3>3. QED BY <2>2, <3>1, <3>2
  <2>4. QED BY <1>2, <1>3, <2>2, <2>3, ClientKeeps
<1>10. CASE Client!Tick
  <2>1. /\ UNCHANGED <<c_mode, c_bucket, c_window, c_calls, c_resting, c_sent>>
        /\ c_now' = c_now + 1 /\ c_now < MaxTicks
    BY <1>10 DEF Client!Tick
  <2>2. c_now' \in c_now..MaxTicks BY <1>1, <1>2, <2>1
  <2>3. QED BY <1>2, <2>1, <2>2, ClientKeeps
<1>11. QED BY <1>6, <1>7, <1>8, <1>9, <1>10 DEF Client!Next

\* The invariant gives the types, the tiers of the window and the rate of any span.
LEMMA ClientHolds ==
  ASSUME Client!ConstantsOK, ClientInv
  PROVE  Client!TypeOK /\ Client!WindowRespected /\ Client!RateKept
<1>1. /\ {PerSec, Per5Sec, TrimEvery, Kept} \subseteq Nat \ {0} /\ MaxTicks \in Nat
  BY DEF Client!ConstantsOK
<1>2. Client!TypeOK
  <2>1. ASSUME NEW l \in Logins PROVE Len(c_window[l].times) <= Kept + TrimEvery
    <3>1. /\ c_window[l] \in [times : Seq(Nat), calls : Nat]
          /\ Len(c_window[l].times) <= Kept + 1 + (c_window[l].calls % TrimEvery)
      BY DEF ClientInv
    <3>2. PICK m \in Nat : m = c_window[l].calls % TrimEvery /\ m <= TrimEvery - 1
      <4>1. c_window[l].calls \in Nat BY <3>1
      <4>2. c_window[l].calls % TrimEvery \in 0..TrimEvery - 1 BY <1>1, <4>1, Remainders, Zenon
      <4>3. QED BY <1>1, <4>2
    <3>3. PICK k \in Nat : k = Len(c_window[l].times) BY <3>1, LenProperties
    <3>4. k <= Kept + 1 + m BY <3>1, <3>2, <3>3
    <3>5. k <= Kept + TrimEvery BY <1>1, <3>2, <3>4
    <3>6. QED BY <3>3, <3>5
  <2>2. c_mode \in Modes /\ c_now \in 0..MaxTicks /\ c_calls \in 0..MaxCalls
        /\ c_bucket.sec \in 0..5 * PerSec /\ c_bucket.five \in 0..5 * Per5Sec
        /\ c_bucket.last \in Nat /\ c_bucket.last <= c_now
        /\ Cardinality(c_resting) <= MaxResting
    BY DEF ClientInv
  <2>3. c_bucket.last \in 0..c_now BY <1>1, <2>2
  <2>4. Client!Cardinality(c_resting) <= MaxResting BY <2>2, ClientCounts
  <2>5. QED BY <2>1, <2>2, <2>3, <2>4 DEF Client!TypeOK
<1>3. Client!WindowRespected BY WithinSame DEF ClientInv
<1>4. ASSUME NEW from \in 0..c_now, NEW d \in Nat, NEW cap \in Nat, NEW rate \in Nat,
             NEW at, NEW tokens, Paced(c_sent, at, cap, rate, tokens)
      PROVE  /\ 5 * Client!Cardinality({i \in DOMAIN c_sent : c_sent[i].at \in from..(from + d)})
                  <= cap + d * rate
             /\ Client!Cardinality({i \in DOMAIN c_sent : c_sent[i].at \in from..(from + d)}) \in Nat
  <2>1. c_now \in Nat /\ from \in Nat /\ from + d \in Nat /\ from <= from + d
    BY <1>1 DEF ClientInv
  <2>2. 5 * Cardinality(SpanIn(c_sent, from, from + d)) <= cap + ((from + d) - from) * rate
    BY <1>4, <2>1 DEF Paced
  <2>3. (from + d) - from = d BY <2>1
  <2>4. SpanIn(c_sent, from, from + d) = {i \in DOMAIN c_sent : c_sent[i].at \in from..(from + d)}
    BY DEF SpanIn
  <2>5. PICK q \in Seq(Passed) : q = c_sent BY DEF ClientInv
  <2>6. PICK n \in Nat : n = Len(q) /\ DOMAIN q = 1..n BY LenProperties
  <2>7. PICK F \in SUBSET (1..n) : F = SpanIn(c_sent, from, from + d)
    BY <2>5, <2>6, Zenon DEF SpanIn
  <2>8. Cardinality(F) \in 0..n BY Indices, Zenon
  <2>9. PICK c \in Nat : c = Cardinality(SpanIn(c_sent, from, from + d))
    <3>1. Cardinality(F) \in Nat BY <2>8
    <3>2. QED BY <2>7, <3>1
  <2>10. 5 * c <= cap + d * rate BY <2>2, <2>3, <2>9
  <2>11. Client!Cardinality({i \in DOMAIN c_sent : c_sent[i].at \in from..(from + d)}) = c
    BY <2>4, <2>9, ClientCounts, Zenon
  <2>12. QED BY <2>10, <2>11
<1>5. Client!RateKept
  <2> SUFFICES ASSUME NEW from \in 0..c_now
      PROVE  /\ Client!Cardinality({i \in DOMAIN c_sent : c_sent[i].at \in from..(from + 1)})
                  <= 2 * PerSec
             /\ Client!Cardinality({i \in DOMAIN c_sent : c_sent[i].at \in from..(from + 5)})
                  <= 2 * Per5Sec
    BY DEF Client!RateKept
  <2>1. PICK p \in Nat, p5 \in Nat : p = PerSec /\ p5 = Per5Sec BY <1>1
  <2>2. /\ Paced(c_sent, c_bucket.last, 5 * p, 5 * p, c_bucket.sec)
        /\ Paced(c_sent, c_bucket.last, 5 * p5, p5, c_bucket.five)
    BY <2>1 DEF ClientInv
  <2>3. 5 * p \in Nat /\ 5 * p5 \in Nat /\ 1 \in Nat /\ 5 \in Nat OBVIOUS
  <2>4. PICK a \in Nat : /\ a = Client!Cardinality({i \in DOMAIN c_sent :
                                                  c_sent[i].at \in from..(from + 1)})
                         /\ 5 * a <= 5 * p + 1 * (5 * p)
    BY <1>4, <2>2, <2>3, Zenon
  <2>5. PICK b \in Nat : /\ b = Client!Cardinality({i \in DOMAIN c_sent :
                                                  c_sent[i].at \in from..(from + 5)})
                         /\ 5 * b <= 5 * p5 + 5 * p5
    BY <1>4, <2>2, <2>3, Zenon
  <2>6. a <= 2 * p BY <2>4
  <2>7. b <= 2 * p5 BY <2>5
  <2>8. QED BY <2>1, <2>4, <2>5, <2>6, <2>7
<1>6. QED BY <1>2, <1>3, <1>5

Top == Amends!Largest
Requests == [id : Amends!Ids, price : Amends!Prices \cup {"cancel"}, size : Nat]
Messages == [id : Amends!Ids, kind : {"update", "amended"}, row : Amends!Orders \cup {Amends!Finished}]
              \cup [id : Amends!Ids, kind : {"update", "amended"},
                    row : Amends!Orders \cup {Amends!Finished}, filled : BOOLEAN]

\* What the exchange has filled is never less than what anybody believes, and nothing
\* is asked that would leave more than the largest chance.
Believed(f, b, n) ==
  /\ f \in Amends!Books /\ DOMAIN f \subseteq 1..n
  /\ \A i \in DOMAIN f : i \in DOMAIN b => f[i].filled <= b[i].filled
Asked(r, b, n) ==
  /\ r \in Requests /\ r.id \in 1..n
  /\ r.id \in DOMAIN b => r.size <= Top + b[r.id].filled
Heard(m, b, n) ==
  /\ m \in Messages /\ m.id \in 1..n
  /\ m.row # Amends!Finished /\ m.id \in DOMAIN b => m.row.filled <= b[m.id].filled

BookSound(b, n, f) ==
  /\ b \in Amends!Books /\ DOMAIN b \subseteq 1..n
  /\ \A i \in DOMAIN b : b[i].filled <= f * Top /\ b[i].size <= Top + b[i].filled
WireSound(w, b, n) == w \in Seq(Requests) /\ \A i \in DOMAIN w : Asked(w[i], b, n)
NewsSound(m, b, n) == m \in Seq(Messages) /\ \A i \in DOMAIN m : Heard(m[i], b, n)
SnapSound(s, b, n) == s = <<>> \/ \E f : s = <<f>> /\ Believed(f, b, n)
Fits(w, m, b, n) ==
  Len(w) + Len(m) + Cardinality(DOMAIN b) + (MaxOrders - n) <= WireCap + MaxOrders

AmendsInv ==
  /\ a_opened \in 0..MaxOrders /\ a_fills \in 0..MaxFills /\ a_link \in BOOLEAN
  /\ a_step.at \in {"idle", "near", "parked"}
  /\ BookSound(a_book, a_opened, a_fills)
  /\ Believed(a_mirror, a_book, a_opened)
  /\ SnapSound(a_snap, a_book, a_opened)
  /\ WireSound(a_wire, a_book, a_opened) /\ NewsSound(a_news, a_book, a_opened)
  /\ Fits(a_wire, a_news, a_book, a_opened)

\* The constants of the parked orders.
LEMMA TopIs ==
  ASSUME Amends!ConstantsOK
  PROVE  /\ Top \in AmendSizes /\ Top \in Nat \ {0} /\ \A k \in AmendSizes : k \in Nat \ {0} /\ k <= Top
         /\ MaxOrders \in Nat \ {0} /\ WireCap \in Nat \ {0} /\ Large \in Nat
         /\ MaxFills \in Nat /\ MaxFills * Top \in Nat /\ (MaxFills + 1) * Top = MaxFills * Top + Top
<1>1. \E n \in AmendSizes : \A k \in AmendSizes : k <= n BY DEF Amends!ConstantsOK
<1>2. Top \in AmendSizes /\ \A k \in AmendSizes : k <= Top
  BY <1>1 DEF Top, Amends!Largest
<1>3. AmendSizes \subseteq Nat \ {0} /\ {MaxOrders, WireCap} \subseteq Nat \ {0}
      /\ {Large, MaxChances, MaxLosses, MaxFills} \subseteq Nat
  BY DEF Amends!ConstantsOK
<1>4. Top \in Nat \ {0} BY <1>2, <1>3
<1>5. PICK t \in Nat, f \in Nat : t = Top /\ f = MaxFills BY <1>3, <1>4
<1>6. f * t \in Nat /\ (f + 1) * t = f * t + 1 * t BY Products
<1>7. MaxFills * Top \in Nat /\ (MaxFills + 1) * Top = MaxFills * Top + Top
  BY <1>5, <1>6
<1>8. QED BY <1>2, <1>3, <1>4, <1>7

\* Rows and maps of rows.
LEMMA RowIs ==
  ASSUME Amends!ConstantsOK, NEW o \in Amends!Orders
  PROVE  /\ o.price \in Amends!Prices /\ o.size \in Nat /\ o.filled \in Nat
         /\ o.filled <= MaxFills * Top
<1>1. o.price \in Amends!Prices /\ o.size \in 0..(MaxFills + 1) * Top /\ o.filled \in 0..MaxFills * Top
  BY DEF Amends!Orders, Top
<1>2. QED BY <1>1, TopIs

\* A new row of the book.
LEMMA RowMade ==
  ASSUME Amends!ConstantsOK, NEW price \in Amends!Prices, NEW size \in Nat, NEW filled \in Nat,
         filled <= MaxFills * Top, size <= Top + filled
  PROVE  /\ Amends!Order(price, size, filled) \in Amends!Orders
         /\ Amends!Order(price, size, filled).price = price
         /\ Amends!Order(price, size, filled).size = size
         /\ Amends!Order(price, size, filled).filled = filled
         /\ Amends!Order(price, size, filled) # Amends!Finished
<1>1. PICK x \in Nat, y \in Nat : x = MaxFills * Top /\ y = (MaxFills + 1) * Top /\ y = x + Top
  BY TopIs
<1>2. filled \in 0..x /\ size \in 0..y BY <1>1, TopIs
<1>3. Amends!Order(price, size, filled) \in Amends!Orders
  BY <1>1, <1>2 DEF Amends!Orders, Amends!Order, Top
<1>4. price # "none" BY DEF Amends!Prices
<1>5. QED BY <1>3, <1>4 DEF Amends!Order, Amends!Finished

\* A book maps ids to rows.
LEMMA MapIs ==
  ASSUME NEW f \in Amends!Books
  PROVE  /\ DOMAIN f \subseteq Amends!Ids /\ \A i \in DOMAIN f : f[i] \in Amends!Orders
         /\ f = [i \in DOMAIN f |-> f[i]]
BY DEF Amends!Books

\* A book with a row more, and with one less.
LEMMA MapChanges ==
  ASSUME NEW f \in Amends!Books, NEW id \in Amends!Ids, NEW o \in Amends!Orders
  PROVE  /\ Amends!With(f, id, o) \in Amends!Books
         /\ DOMAIN Amends!With(f, id, o) = DOMAIN f \cup {id}
         /\ Amends!With(f, id, o)[id] = o
         /\ \A i \in DOMAIN f : i # id => Amends!With(f, id, o)[i] = f[i]
         /\ Amends!Without(f, id) \in Amends!Books
         /\ DOMAIN Amends!Without(f, id) = DOMAIN f \ {id}
         /\ \A i \in DOMAIN f \ {id} : Amends!Without(f, id)[i] = f[i]
<1>1. DOMAIN f \subseteq Amends!Ids /\ \A i \in DOMAIN f : f[i] \in Amends!Orders BY MapIs
<1>2. Amends!With(f, id, o) \in [DOMAIN f \cup {id} -> Amends!Orders]
  BY <1>1 DEF Amends!With
<1>3. Amends!Without(f, id) \in [DOMAIN f \ {id} -> Amends!Orders]
  BY <1>1 DEF Amends!Without
<1>4. DOMAIN f \cup {id} \in SUBSET Amends!Ids /\ DOMAIN f \ {id} \in SUBSET Amends!Ids BY <1>1
<1>5. Amends!With(f, id, o) \in Amends!Books /\ Amends!Without(f, id) \in Amends!Books
  BY <1>2, <1>3, <1>4 DEF Amends!Books
<1>6. QED BY <1>5 DEF Amends!With, Amends!Without

-----------------------------------------------------------------------------
\* A book that only grows in what is filled, and in new ids.
Grows(b, n, c, m) ==
  /\ n \in Nat /\ m \in Nat /\ n <= m
  /\ \A i \in DOMAIN c : i \in 1..n =>
        i \in DOMAIN b /\ b[i].filled \in Nat /\ c[i].filled \in Nat /\ b[i].filled <= c[i].filled

\* What is asked, heard and believed stays sound while the book grows.
LEMMA Carried ==
  ASSUME Amends!ConstantsOK, NEW b, NEW n, NEW c, NEW m, Grows(b, n, c, m)
  PROVE  /\ \A f : Believed(f, b, n) => Believed(f, c, m)
         /\ \A r : Asked(r, b, n) => Asked(r, c, m)
         /\ \A x : Heard(x, b, n) => Heard(x, c, m)
<1>1. /\ n \in Nat /\ m \in Nat /\ n <= m /\ 1..n \subseteq 1..m
      /\ \A i \in DOMAIN c : i \in 1..n =>
            i \in DOMAIN b /\ b[i].filled \in Nat /\ c[i].filled \in Nat /\ b[i].filled <= c[i].filled
  BY DEF Grows
<1>2. ASSUME NEW f, Believed(f, b, n) PROVE Believed(f, c, m)
  <2>1. f \in Amends!Books /\ DOMAIN f \subseteq 1..n BY <1>2 DEF Believed
  <2>2. ASSUME NEW i \in DOMAIN f, i \in DOMAIN c PROVE f[i].filled <= c[i].filled
    <3>1. i \in DOMAIN b /\ b[i].filled \in Nat /\ c[i].filled \in Nat /\ b[i].filled <= c[i].filled
      BY <1>1, <2>1, <2>2
    <3>2. f[i].filled <= b[i].filled BY <1>2, <3>1 DEF Believed
    <3>3. f[i] \in Amends!Orders BY <2>1, MapIs
    <3>4. f[i].filled \in Nat BY <3>3, RowIs
    <3>5. QED BY <3>1, <3>2, <3>4
  <2>3. QED BY <1>1, <2>1, <2>2 DEF Believed
<1>3. ASSUME NEW r, Asked(r, b, n) PROVE Asked(r, c, m)
  <2>1. r \in Requests /\ r.id \in 1..n BY <1>3 DEF Asked
  <2>2. ASSUME r.id \in DOMAIN c PROVE r.size <= Top + c[r.id].filled
    <3>1. PICK i : i = r.id OBVIOUS
    <3>2. i \in DOMAIN b /\ b[i].filled \in Nat /\ c[i].filled \in Nat /\ b[i].filled <= c[i].filled
      BY <1>1, <2>1, <2>2, <3>1
    <3>3. r.size <= Top + b[i].filled BY <1>3, <3>1, <3>2 DEF Asked
    <3>4. r.size \in Nat BY <2>1 DEF Requests
    <3>5. r.size <= Top + c[i].filled BY <3>2, <3>3, <3>4, TopIs
    <3>6. QED BY <3>1, <3>5
  <2>3. QED BY <1>1, <2>1, <2>2 DEF Asked
<1>4. ASSUME NEW x, Heard(x, b, n) PROVE Heard(x, c, m)
  <2>1. x \in Messages /\ x.id \in 1..n BY <1>4 DEF Heard
  <2>2. ASSUME x.row # Amends!Finished, x.id \in DOMAIN c PROVE x.row.filled <= c[x.id].filled
    <3>1. PICK i : i = x.id OBVIOUS
    <3>2. i \in DOMAIN b /\ b[i].filled \in Nat /\ c[i].filled \in Nat /\ b[i].filled <= c[i].filled
      BY <1>1, <2>1, <2>2, <3>1
    <3>3. x.row.filled <= b[i].filled BY <1>4, <2>2, <3>1, <3>2 DEF Heard
    <3>4. x.row \in Amends!Orders BY <2>1, <2>2 DEF Messages
    <3>5. x.row.filled \in Nat BY <3>4, RowIs
    <3>6. QED BY <3>1, <3>2, <3>3, <3>5
  <2>3. QED BY <1>1, <2>1, <2>2 DEF Heard
<1>5. QED BY <1>2, <1>3, <1>4

\* So do the wire, the news and the snapshot.
LEMMA CarriedAll ==
  ASSUME Amends!ConstantsOK, NEW b, NEW n, NEW c, NEW m, Grows(b, n, c, m)
  PROVE  /\ \A s : SnapSound(s, b, n) => SnapSound(s, c, m)
         /\ \A w : WireSound(w, b, n) => WireSound(w, c, m)
         /\ \A x : NewsSound(x, b, n) => NewsSound(x, c, m)
<1>1. \A s : SnapSound(s, b, n) => SnapSound(s, c, m) BY Carried DEF SnapSound
<1>2. \A w : WireSound(w, b, n) => WireSound(w, c, m) BY Carried DEF WireSound
<1>3. \A x : NewsSound(x, b, n) => NewsSound(x, c, m) BY Carried DEF NewsSound
<1>4. QED BY <1>1, <1>2, <1>3

\* One more request or message, or one less.
LEMMA WireMore ==
  ASSUME NEW w, NEW b, NEW n, WireSound(w, b, n), NEW r, Asked(r, b, n)
  PROVE  WireSound(Append(w, r), b, n) /\ Len(Append(w, r)) = Len(w) + 1 /\ Len(w) \in Nat
<1>1. PICK q \in Seq(Requests) : q = w BY DEF WireSound
<1>2. r \in Requests BY DEF Asked
<1>3. PICK v : v = Append(q, r) BY Zenon
<1>4. /\ v \in Seq(Requests) /\ Len(q) \in Nat /\ Len(v) = Len(q) + 1
      /\ DOMAIN v = 1..Len(q) + 1 /\ DOMAIN q = 1..Len(q)
      /\ \A i \in 1..Len(q) : v[i] = q[i]
      /\ v[Len(q) + 1] = r
  BY <1>2, <1>3, Appended
<1>5. \A i \in DOMAIN v : i \in DOMAIN q \/ i = Len(q) + 1 BY <1>4
<1>6. \A i \in DOMAIN v : Asked(v[i], b, n) BY <1>1, <1>4, <1>5 DEF WireSound
<1>7. QED BY <1>1, <1>3, <1>4, <1>6 DEF WireSound

\* One more message.
LEMMA NewsMore ==
  ASSUME NEW w, NEW b, NEW n, NewsSound(w, b, n), NEW r, Heard(r, b, n)
  PROVE  NewsSound(Append(w, r), b, n) /\ Len(Append(w, r)) = Len(w) + 1 /\ Len(w) \in Nat
<1>1. PICK q \in Seq(Messages) : q = w BY DEF NewsSound
<1>2. r \in Messages BY DEF Heard
<1>3. PICK v : v = Append(q, r) BY Zenon
<1>4. /\ v \in Seq(Messages) /\ Len(q) \in Nat /\ Len(v) = Len(q) + 1
      /\ DOMAIN v = 1..Len(q) + 1 /\ DOMAIN q = 1..Len(q)
      /\ \A i \in 1..Len(q) : v[i] = q[i]
      /\ v[Len(q) + 1] = r
  BY <1>2, <1>3, Appended
<1>5. \A i \in DOMAIN v : i \in DOMAIN q \/ i = Len(q) + 1 BY <1>4
<1>6. \A i \in DOMAIN v : Heard(v[i], b, n) BY <1>1, <1>4, <1>5 DEF NewsSound
<1>7. QED BY <1>1, <1>3, <1>4, <1>6 DEF NewsSound

\* The oldest request is taken.
LEMMA WireLess ==
  ASSUME NEW w, NEW b, NEW n, WireSound(w, b, n), w # <<>>
  PROVE  /\ WireSound(Tail(w), b, n) /\ Len(Tail(w)) = Len(w) - 1 /\ Len(w) \in Nat \ {0}
         /\ Asked(Head(w), b, n)
<1>1. PICK q \in Seq(Requests) : q = w BY DEF WireSound
<1>2. PICK v : v = Tail(q) BY Zenon
<1>3. /\ v \in Seq(Requests) /\ Len(q) \in Nat \ {0} /\ Len(v) = Len(q) - 1
      /\ DOMAIN v = 1..Len(q) - 1 /\ DOMAIN q = 1..Len(q)
      /\ \A i \in 1..Len(q) - 1 : v[i] = q[i + 1]
      /\ Head(q) = q[1] /\ q[1] \in Requests
  BY <1>1, <1>2, Tailed
<1>4. \A i \in 1..Len(q) - 1 : i + 1 \in DOMAIN q BY <1>3
<1>5. \A i \in DOMAIN v : Asked(v[i], b, n) BY <1>1, <1>3, <1>4, Zenon DEF WireSound
<1>6. 1 \in DOMAIN q BY <1>3
<1>7. QED BY <1>1, <1>2, <1>3, <1>5, <1>6 DEF WireSound

\* The oldest message is taken.
LEMMA NewsLess ==
  ASSUME NEW w, NEW b, NEW n, NewsSound(w, b, n), w # <<>>
  PROVE  /\ NewsSound(Tail(w), b, n) /\ Len(Tail(w)) = Len(w) - 1 /\ Len(w) \in Nat \ {0}
         /\ Heard(Head(w), b, n)
<1>1. PICK q \in Seq(Messages) : q = w BY DEF NewsSound
<1>2. PICK v : v = Tail(q) BY Zenon
<1>3. /\ v \in Seq(Messages) /\ Len(q) \in Nat \ {0} /\ Len(v) = Len(q) - 1
      /\ DOMAIN v = 1..Len(q) - 1 /\ DOMAIN q = 1..Len(q)
      /\ \A i \in 1..Len(q) - 1 : v[i] = q[i + 1]
      /\ Head(q) = q[1] /\ q[1] \in Messages
  BY <1>1, <1>2, Tailed
<1>4. \A i \in 1..Len(q) - 1 : i + 1 \in DOMAIN q BY <1>3
<1>5. \A i \in DOMAIN v : Heard(v[i], b, n) BY <1>1, <1>3, <1>4, Zenon DEF NewsSound
<1>6. 1 \in DOMAIN q BY <1>3
<1>7. QED BY <1>1, <1>2, <1>3, <1>5, <1>6 DEF NewsSound

\* The book has no more orders than were opened.
LEMMA BookCount ==
  ASSUME NEW b, NEW n \in Nat, DOMAIN b \subseteq 1..n
  PROVE  IsFiniteSet(DOMAIN b) /\ Cardinality(DOMAIN b) \in 0..n
<1>1. PICK D \in SUBSET (1..n) : D = DOMAIN b OBVIOUS
<1>2. QED BY <1>1, Indices, Zenon

\* A channel that is not full has room for what the open orders may still say.
LEMMA FitsRoom ==
  ASSUME Amends!ConstantsOK, NEW w, NEW m, NEW b, NEW n \in 0..MaxOrders, DOMAIN b \subseteq 1..n,
         Len(w) \in Nat, Len(m) \in Nat, Len(w) + Len(m) <= WireCap
  PROVE  Fits(w, m, b, n)
<1>1. n \in Nat /\ MaxOrders \in Nat /\ WireCap \in Nat BY TopIs
<1>2. Cardinality(DOMAIN b) \in 0..n BY <1>1, BookCount
<1>3. PICK x \in Nat, y \in Nat, c \in 0..n : /\ x = Len(w) /\ y = Len(m)
                                             /\ c = Cardinality(DOMAIN b) /\ x + y <= WireCap
  BY <1>2
<1>4. x + y + c + (MaxOrders - n) <= WireCap + MaxOrders BY <1>1, <1>3
<1>5. QED BY <1>3, <1>4 DEF Fits

\* Fewer messages fit as well.
LEMMA FitsStays ==
  ASSUME Amends!ConstantsOK, NEW w, NEW m, NEW b, NEW n \in 0..MaxOrders, DOMAIN b \subseteq 1..n,
         NEW v, NEW k, Fits(w, m, b, n), Len(w) \in Nat, Len(m) \in Nat,
         Len(v) \in Nat, Len(k) \in Nat, Len(v) + Len(k) <= Len(w) + Len(m)
  PROVE  Fits(v, k, b, n)
<1>1. n \in Nat /\ MaxOrders \in Nat /\ WireCap \in Nat BY TopIs
<1>2. Cardinality(DOMAIN b) \in 0..n BY <1>1, BookCount
<1>3. PICK x \in Nat, y \in Nat, u \in Nat, z \in Nat, c \in Nat :
         /\ x = Len(w) /\ y = Len(m) /\ u = Len(v) /\ z = Len(k)
         /\ c = Cardinality(DOMAIN b)
  BY <1>2
<1>4. u + z <= x + y BY <1>3
<1>5. x + y + c + (MaxOrders - n) <= WireCap + MaxOrders BY <1>3 DEF Fits
<1>6. u + z + c + (MaxOrders - n) <= WireCap + MaxOrders BY <1>1, <1>4, <1>5
<1>7. QED BY <1>3, <1>6 DEF Fits

\* The lengths of the channels are numbers.
LEMMA Lengths ==
  ASSUME NEW w, NEW m, NEW b, NEW n, WireSound(w, b, n), NewsSound(m, b, n)
  PROVE  Len(w) \in Nat /\ Len(m) \in Nat
<1>1. PICK q \in Seq(Requests), r \in Seq(Messages) : q = w /\ r = m BY DEF WireSound, NewsSound
<1>2. QED BY <1>1, LenProperties

\* The start: no order.
LEMMA AmendsStart == Amends!ConstantsOK /\ Amends!Init => AmendsInv
<1> SUFFICES ASSUME Amends!ConstantsOK, Amends!Init PROVE AmendsInv OBVIOUS
<1>1. /\ a_book = [i \in {1} |-> Amends!Order("half", 1, 0)]
      /\ a_mirror = a_book /\ a_opened = 1
      /\ a_link = TRUE /\ a_wire = <<>> /\ a_news = <<>> /\ a_snap = <<>>
      /\ a_step = Amends!NoStep /\ a_fills = 0
  BY DEF Amends!Init, Amends!MinSize
<1>2. MaxOrders \in Nat \ {0} /\ MaxFills \in Nat /\ MaxFills * Top \in Nat /\ Top \in Nat \ {0}
      /\ WireCap \in Nat \ {0}
  BY TopIs
<1>3. PICK o : o = Amends!Order("half", 1, 0) OBVIOUS
<1>4. o \in Amends!Orders /\ o.size = 1 /\ o.filled = 0
  <2>1. "half" \in Amends!Prices BY DEF Amends!Prices
  <2>2. 1 <= Top + 0 /\ 0 <= MaxFills * Top /\ 1 \in Nat /\ 0 \in Nat BY <1>2
  <2>3. QED BY <1>3, <2>1, <2>2, RowMade
<1>5. DOMAIN a_book = {1} /\ a_book[1] = o /\ a_book \in Amends!Books
  <2>1. {1} \in SUBSET Amends!Ids BY <1>2 DEF Amends!Ids
  <2>2. a_book \in [{1} -> Amends!Orders] BY <1>1, <1>3, <1>4
  <2>3. QED BY <1>1, <1>3, <2>1, <2>2 DEF Amends!Books
<1>6. DOMAIN a_book \subseteq 1..a_opened BY <1>1, <1>5
<1>7. BookSound(a_book, a_opened, a_fills)
  <2>1. 0 <= 0 * Top /\ 1 <= Top + 0 BY <1>2
  <2>2. QED BY <1>1, <1>4, <1>5, <1>6, <2>1 DEF BookSound
<1>8. Believed(a_mirror, a_book, a_opened) BY <1>1, <1>4, <1>5, <1>6 DEF Believed
<1>9. SnapSound(a_snap, a_book, a_opened) BY <1>1 DEF SnapSound
<1>10. \A S : <<>> \in Seq(S) /\ DOMAIN <<>> = {} /\ Len(<<>>) = 0 OBVIOUS
<1>11. WireSound(a_wire, a_book, a_opened) /\ NewsSound(a_news, a_book, a_opened)
  BY <1>1, <1>10 DEF WireSound, NewsSound
<1>12. a_opened \in 0..MaxOrders /\ a_fills \in 0..MaxFills /\ a_link \in BOOLEAN
  BY <1>1, <1>2
<1>13. Fits(a_wire, a_news, a_book, a_opened)
  <2>1. Len(a_wire) + Len(a_news) <= WireCap /\ Len(a_wire) \in Nat /\ Len(a_news) \in Nat
    BY <1>1, <1>2, <1>10
  <2>2. QED BY <1>6, <1>12, <2>1, FitsRoom
<1>14. a_step.at = "idle" BY <1>1 DEF Amends!NoStep
<1>15. QED BY <1>7, <1>8, <1>9, <1>11, <1>12, <1>13, <1>14 DEF AmendsInv

-----------------------------------------------------------------------------
\* What the program asks and believes when it amends.
LEMMA WantedIs ==
  ASSUME Amends!ConstantsOK, NEW o \in Amends!Orders, NEW size \in AmendSizes \cup {0, 1}
  PROVE  /\ Amends!WantedSize(o, size) \in Nat
         /\ Amends!WantedSize(o, size) <= Top + o.filled
<1>1. o.filled \in Nat BY RowIs
<1>2. Top \in Nat \ {0} /\ size \in Nat /\ size <= Top BY TopIs
<1>3. \/ Amends!WantedSize(o, size) = 0 \/ Amends!WantedSize(o, size) = size + o.filled
  BY DEF Amends!WantedSize, Amends!Unasked
<1>4. QED BY <1>1, <1>2, <1>3

\* A sent request, or one that a full channel drops.
LEMMA SentSound ==
  ASSUME Amends!ConstantsOK, NEW w, NEW b, NEW n, WireSound(w, b, n), NEW r, Asked(r, b, n),
         NEW v, v = Amends!Sent(w, r)
  PROVE  /\ WireSound(v, b, n) /\ Len(w) \in Nat /\ Len(v) \in Nat /\ Len(v) <= Len(w) + 1
<1>1. WireSound(Append(w, r), b, n) /\ Len(Append(w, r)) = Len(w) + 1 /\ Len(w) \in Nat
  BY WireMore
<1>2. v = Append(w, r) \/ v = w BY DEF Amends!Sent
<1>3. CASE v = w BY <1>1, <1>3
<1>4. CASE v = Append(w, r) BY <1>1, <1>4
<1>5. QED BY <1>2, <1>3, <1>4

\* An amend of an order the program believes in.
LEMMA AmendOf ==
  ASSUME Amends!ConstantsOK, AmendsInv, NEW id, NEW price \in Amends!Prices,
         NEW size \in AmendSizes \cup {0}, Amends!Amend(id, price, size),
         UNCHANGED <<a_book, a_opened, a_news, a_link, a_snap, a_fills>>,
         a_step'.at \in {"idle", "near", "parked"}
  PROVE  AmendsInv'
<1>1. /\ a_opened \in 0..MaxOrders /\ BookSound(a_book, a_opened, a_fills)
      /\ Believed(a_mirror, a_book, a_opened)
      /\ WireSound(a_wire, a_book, a_opened) /\ NewsSound(a_news, a_book, a_opened)
      /\ Fits(a_wire, a_news, a_book, a_opened)
  BY DEF AmendsInv
<1>2. Len(a_wire) \in Nat /\ Len(a_news) \in Nat BY <1>1, Lengths
<1>3. /\ Believed(a_mirror', a_book, a_opened) /\ WireSound(a_wire', a_book, a_opened)
      /\ Fits(a_wire', a_news, a_book, a_opened)
  <2>1. CASE UNCHANGED <<a_wire, a_mirror>> BY <1>1, <2>1
  <2>2. CASE ~ UNCHANGED <<a_wire, a_mirror>>
    <3>1. id \in DOMAIN a_mirror BY <2>2 DEF Amends!Amend
    <3>2. PICK o : o = a_mirror[id] OBVIOUS
    <3>3. PICK new : new = Amends!WantedSize(o, size) OBVIOUS
    <3>4. PICK r : r = [id |-> id, price |-> price, size |-> new] BY Zenon
    <3>5. /\ Amends!Room /\ a_wire' = Amends!Sent(a_wire, r)
          /\ a_mirror' = [a_mirror EXCEPT ![id].price = price]
      BY <2>2, <3>1, <3>2, <3>3, <3>4 DEF Amends!Amend
    <3>6. a_mirror \in Amends!Books /\ DOMAIN a_mirror \subseteq 1..a_opened
          /\ \A i \in DOMAIN a_mirror : i \in DOMAIN a_book => a_mirror[i].filled <= a_book[i].filled
      BY <1>1 DEF Believed
    <3>7. DOMAIN a_mirror \subseteq Amends!Ids /\ \A i \in DOMAIN a_mirror : a_mirror[i] \in Amends!Orders
      BY <3>6, MapIs
    <3>8. o \in Amends!Orders /\ o.filled \in Nat BY <3>1, <3>2, <3>7, RowIs
    <3>9. Asked(r, a_book, a_opened)
      <4>1. new \in Nat /\ new <= Top + o.filled BY <3>3, <3>8, WantedIs
      <4>2. r \in Requests /\ r.id = id /\ r.size = new
        BY <3>1, <3>4, <3>7, <4>1 DEF Requests
      <4>3. id \in 1..a_opened BY <3>1, <3>6
      <4>4. ASSUME id \in DOMAIN a_book PROVE new <= Top + a_book[id].filled
        <5>1. o.filled <= a_book[id].filled BY <3>1, <3>2, <3>6, <4>4
        <5>2. a_book[id] \in Amends!Orders BY <1>1, <4>4, MapIs DEF BookSound
        <5>3. a_book[id].filled \in Nat BY <5>2, RowIs
        <5>4. QED BY <3>8, <4>1, <5>1, <5>3, TopIs
      <4>5. QED BY <4>2, <4>3, <4>4 DEF Asked
    <3>10. /\ WireSound(a_wire', a_book, a_opened) /\ Len(a_wire') \in Nat
           /\ Len(a_wire') <= Len(a_wire) + 1
      BY <1>1, <3>5, <3>9, SentSound
    <3>11. Fits(a_wire', a_news, a_book, a_opened)
      <4>1. Len(a_wire) + Len(a_news) < WireCap BY <3>5 DEF Amends!Room
      <4>2. Len(a_wire') + Len(a_news) <= WireCap BY <1>2, <3>10, <4>1, TopIs
      <4>3. DOMAIN a_book \subseteq 1..a_opened BY <1>1 DEF BookSound
      <4>4. QED BY <1>1, <1>2, <3>10, <4>2, <4>3, FitsRoom
    <3>12. Believed(a_mirror', a_book, a_opened)
      <4>1. PICK p : p = [o EXCEPT !.price = price] BY Zenon
      <4>2. p \in Amends!Orders /\ p.filled = o.filled BY <3>8, <4>1 DEF Amends!Orders
      <4>3. a_mirror' = [a_mirror EXCEPT ![id] = p] BY <3>1, <3>2, <3>5, <4>1
      <4>4. a_mirror \in [DOMAIN a_mirror -> Amends!Orders] BY <3>6, <3>7, MapIs
      <4>5. a_mirror' \in [DOMAIN a_mirror -> Amends!Orders] /\ a_mirror'[id] = p
            /\ \A i \in DOMAIN a_mirror : i # id => a_mirror'[i] = a_mirror[i]
        BY <3>1, <4>2, <4>3, <4>4
      <4>6. a_mirror' \in Amends!Books /\ DOMAIN a_mirror' = DOMAIN a_mirror
        BY <3>7, <4>5 DEF Amends!Books
      <4>7. \A i \in DOMAIN a_mirror : a_mirror'[i].filled = a_mirror[i].filled
        BY <3>2, <4>2, <4>5
      <4>8. QED BY <3>6, <4>6, <4>7 DEF Believed
    <3>13. QED BY <3>10, <3>11, <3>12
  <2>3. QED BY <2>1, <2>2
<1>4. QED BY <1>3 DEF AmendsInv

\* A book with one more order.
LEMMA MapGrows ==
  ASSUME NEW b \in Amends!Books, NEW k \in Amends!Ids, NEW o \in Amends!Orders,
         NEW c, c = Amends!With(b, k, o)
  PROVE  /\ c \in Amends!Books /\ DOMAIN c = DOMAIN b \cup {k} /\ c[k] = o
         /\ \A i \in DOMAIN b : i # k => c[i] = b[i]
<1>1. DOMAIN b \subseteq Amends!Ids /\ \A i \in DOMAIN b : b[i] \in Amends!Orders BY MapIs
<1>2. c \in [DOMAIN b \cup {k} -> Amends!Orders] BY <1>1 DEF Amends!With
<1>3. DOMAIN b \cup {k} \in SUBSET Amends!Ids BY <1>1
<1>4. c \in Amends!Books BY <1>2, <1>3 DEF Amends!Books
<1>5. QED BY <1>4 DEF Amends!With

\* An order that opens.
LEMMA Opened ==
  ASSUME Amends!ConstantsOK, NEW b, NEW n \in 0..MaxOrders, NEW f \in Nat, BookSound(b, n, f),
         n + 1 <= MaxOrders, NEW price \in Amends!Prices, NEW size \in Nat, size <= Top,
         NEW o, o = Amends!Order(price, size, 0), NEW c, c = Amends!With(b, n + 1, o)
  PROVE  /\ BookSound(c, n + 1, f) /\ Grows(b, n, c, n + 1)
         /\ Cardinality(DOMAIN c) = Cardinality(DOMAIN b) + 1
         /\ \A kind \in {"update", "amended"} :
               Heard([id |-> n + 1, kind |-> kind, row |-> o], c, n + 1)
<1>1. MaxOrders \in Nat /\ n \in Nat /\ n + 1 \in Amends!Ids /\ n + 1 \notin 1..n /\ n + 1 \in 1..n + 1
      /\ Top \in Nat /\ MaxFills * Top \in Nat /\ f * Top \in Nat
  <2>1. MaxOrders \in Nat /\ Top \in Nat /\ MaxFills * Top \in Nat BY TopIs
  <2>2. f * Top \in Nat BY <2>1, Products
  <2>3. QED BY <2>1, <2>2 DEF Amends!Ids
<1>2. o \in Amends!Orders /\ o.size = size /\ o.filled = 0 BY <1>1, RowMade
<1>3. b \in Amends!Books /\ DOMAIN b \subseteq 1..n
      /\ \A i \in DOMAIN b : b[i].filled <= f * Top /\ b[i].size <= Top + b[i].filled
  BY DEF BookSound
<1>4. /\ c \in Amends!Books /\ DOMAIN c = DOMAIN b \cup {n + 1} /\ c[n + 1] = o
      /\ \A i \in DOMAIN b : i # n + 1 => c[i] = b[i]
  <2>1. PICK k \in Amends!Ids : k = n + 1 BY <1>1
  <2>2. c = Amends!With(b, k, o) BY <2>1
  <2>3. /\ c \in Amends!Books /\ DOMAIN c = DOMAIN b \cup {k} /\ c[k] = o
        /\ \A i \in DOMAIN b : i # k => c[i] = b[i]
    <3>1. b \in Amends!Books /\ o \in Amends!Orders BY <1>2, <1>3
    <3>2. QED BY <2>2, <3>1, MapGrows
  <2>4. QED BY <2>1, <2>3
<1>5. \A i \in DOMAIN b : i # n + 1 /\ c[i] = b[i] BY <1>1, <1>3, <1>4
<1>6. BookSound(c, n + 1, f)
  <2>1. DOMAIN c \subseteq 1..n + 1 BY <1>1, <1>3, <1>4
  <2>2. 0 <= f * Top /\ size <= Top + 0 BY <1>1
  <2>3. \A i \in DOMAIN c : c[i].filled <= f * Top /\ c[i].size <= Top + c[i].filled
    BY <1>2, <1>3, <1>4, <1>5, <2>2
  <2>4. QED BY <1>4, <2>1, <2>3 DEF BookSound
<1>7. Grows(b, n, c, n + 1)
  <2>1. ASSUME NEW i \in DOMAIN c, i \in 1..n
        PROVE  i \in DOMAIN b /\ b[i].filled \in Nat /\ c[i].filled \in Nat
               /\ b[i].filled <= c[i].filled
    <3>1. i \in DOMAIN b /\ c[i] = b[i] BY <1>1, <1>4, <1>5, <2>1
    <3>2. b[i] \in Amends!Orders BY <1>3, <3>1, MapIs
    <3>3. b[i].filled \in Nat BY <3>2, RowIs
    <3>4. QED BY <3>1, <3>3
  <2>2. QED BY <1>1, <2>1 DEF Grows
<1>8. Cardinality(DOMAIN c) = Cardinality(DOMAIN b) + 1
  <2>1. PICK D \in SUBSET (1..n) : D = DOMAIN b BY <1>3
  <2>2. QED BY <1>1, <1>4, <2>1, Indices, Zenon
<1>9. ASSUME NEW kind \in {"update", "amended"}
      PROVE  Heard([id |-> n + 1, kind |-> kind, row |-> o], c, n + 1)
  <2>1. PICK m : m = [id |-> n + 1, kind |-> kind, row |-> o] BY Zenon
  <2>2. m \in Messages /\ m.id = n + 1 /\ m.row = o BY <1>1, <1>2, <2>1 DEF Messages
  <2>3. m.row.filled <= c[m.id].filled BY <1>2, <1>4, <2>2
  <2>4. QED BY <1>1, <2>1, <2>2, <2>3 DEF Heard
<1>10. QED BY <1>6, <1>7, <1>8, <1>9

\* The book, its size and how it grows at an opening.
LEMMA OpenOf ==
  ASSUME Amends!ConstantsOK, AmendsInv, NEW price \in Amends!Prices, NEW size \in Nat, size <= Top,
         NEW n \in {0, 1}, Amends!Open(price, size, n),
         UNCHANGED <<a_mirror, a_wire, a_link, a_snap, a_fills, a_step>>
  PROVE  AmendsInv'
<1>1. CASE n = 0
  <2>1. UNCHANGED <<a_book, a_news, a_opened>>
    <3>1. a_opened' = a_opened + 0 BY <1>1 DEF Amends!Open
    <3>2. a_opened \in Nat BY TopIs DEF AmendsInv
    <3>3. QED BY <1>1, <3>1, <3>2 DEF Amends!Open
  <2>2. QED BY <2>1 DEF AmendsInv
<1>2. CASE n = 1
  <2>1. PICK o : o = Amends!Order(price, size, 0) OBVIOUS
  <2>2. PICK k \in 0..MaxOrders : k = a_opened BY DEF AmendsInv
  <2>3. PICK c : c = Amends!With(a_book, k + 1, o) OBVIOUS
  <2>4. PICK m : m = [id |-> k + 1, kind |-> "update", row |-> o] BY Zenon
  <2>5. /\ k + 1 <= MaxOrders /\ Amends!Room /\ a_opened' = k + 1 /\ a_book' = c
        /\ a_news' = IF a_link THEN Append(a_news, m) ELSE a_news
    BY <1>2, <2>1, <2>2, <2>3, <2>4 DEF Amends!Open
  <2>6. /\ BookSound(a_book, k, a_fills) /\ a_fills \in Nat /\ Believed(a_mirror, a_book, k)
        /\ SnapSound(a_snap, a_book, k)
        /\ WireSound(a_wire, a_book, k) /\ NewsSound(a_news, a_book, k)
    BY <2>2, TopIs DEF AmendsInv
  <2>7. /\ BookSound(c, k + 1, a_fills) /\ Grows(a_book, k, c, k + 1)
        /\ Heard(m, c, k + 1)
    <3>0. PICK b : b = a_book OBVIOUS
    <3>1. PICK f \in Nat : b = a_book /\ f = a_fills BY <2>6, <3>0
    <3>2. BookSound(b, k, f) /\ c = Amends!With(b, k + 1, o) BY <2>3, <2>6, <3>1
    <3>3. "update" \in {"update", "amended"} OBVIOUS
    <3>4. /\ BookSound(c, k + 1, f) /\ Grows(b, k, c, k + 1)
          /\ \A kind \in {"update", "amended"} :
               Heard([id |-> k + 1, kind |-> kind, row |-> o], c, k + 1)
      BY <2>1, <2>5, <3>2, Opened, Zenon
    <3>5. QED BY <2>4, <3>1, <3>3, <3>4
  <2>8. /\ Believed(a_mirror, c, k + 1) /\ SnapSound(a_snap, c, k + 1)
        /\ WireSound(a_wire, c, k + 1) /\ NewsSound(a_news, c, k + 1)
    BY <2>6, <2>7, Carried, CarriedAll
  <2>9. /\ NewsSound(a_news', c, k + 1) /\ Len(a_news') \in Nat /\ Len(a_news) \in Nat
        /\ Len(a_wire) \in Nat /\ Len(a_news') <= Len(a_news) + 1
    <3>1. /\ NewsSound(Append(a_news, m), c, k + 1) /\ Len(Append(a_news, m)) = Len(a_news) + 1
          /\ Len(a_news) \in Nat
      BY <2>7, <2>8, NewsMore
    <3>2. Len(a_wire) \in Nat BY <2>8, Lengths
    <3>3. CASE a_link BY <2>5, <3>1, <3>2, <3>3
    <3>4. CASE ~a_link BY <2>5, <2>8, <3>1, <3>2, <3>4
    <3>5. QED BY <3>3, <3>4
  <2>10. k + 1 \in 0..MaxOrders BY <2>5, TopIs
  <2>11. Fits(a_wire, a_news', c, k + 1)
    <3>1. Len(a_wire) + Len(a_news) < WireCap BY <2>5 DEF Amends!Room
    <3>2. Len(a_wire) + Len(a_news') <= WireCap BY <2>9, <3>1, TopIs
    <3>3. DOMAIN c \subseteq 1..k + 1 BY <2>7 DEF BookSound
    <3>4. QED BY <2>9, <2>10, <3>2, <3>3, FitsRoom
  <2>12. a_fills' \in 0..MaxFills /\ a_link' \in BOOLEAN /\ a_step'.at \in {"idle", "near", "parked"}
    BY DEF AmendsInv
  <2>13. QED BY <2>5, <2>7, <2>8, <2>9, <2>10, <2>11, <2>12 DEF AmendsInv
<1>3. QED BY <1>1, <1>2

\* What touches neither the book nor the ids.
LEMMA AmendsKeep ==
  ASSUME Amends!ConstantsOK, AmendsInv, UNCHANGED <<a_book, a_opened, a_fills, a_step>>,
         a_link' \in BOOLEAN, Believed(a_mirror', a_book, a_opened),
         SnapSound(a_snap', a_book, a_opened), WireSound(a_wire', a_book, a_opened),
         NewsSound(a_news', a_book, a_opened),
         Len(a_wire') + Len(a_news') <= Len(a_wire) + Len(a_news) \/ Len(a_wire') + Len(a_news') <= WireCap
  PROVE  AmendsInv'
<1>1. /\ a_opened \in 0..MaxOrders /\ BookSound(a_book, a_opened, a_fills)
      /\ WireSound(a_wire, a_book, a_opened) /\ NewsSound(a_news, a_book, a_opened)
      /\ Fits(a_wire, a_news, a_book, a_opened)
  BY DEF AmendsInv
<1>2. DOMAIN a_book \subseteq 1..a_opened BY <1>1 DEF BookSound
<1>3. Len(a_wire) \in Nat /\ Len(a_news) \in Nat BY <1>1, Lengths
<1>4. Len(a_wire') \in Nat /\ Len(a_news') \in Nat BY Lengths
<1>5. Fits(a_wire', a_news', a_book, a_opened)
  BY <1>1, <1>2, <1>3, <1>4, FitsRoom, FitsStays
<1>6. QED BY <1>1, <1>5 DEF AmendsInv

\* The messages and requests that the program and the exchange make.
LEMMA CancelIs ==
  ASSUME Amends!ConstantsOK, NEW b \in Amends!Books, NEW n, NEW id \in Amends!Ids, id \in 1..n
  PROVE  Asked(Amends!Cancel(id), b, n)
<1>1. PICK r : r = Amends!Cancel(id) OBVIOUS
<1>2. r \in Requests /\ r.id = id /\ r.size = 0
  BY <1>1 DEF Requests, Amends!Cancel, Amends!Unasked
<1>3. ASSUME id \in DOMAIN b PROVE 0 <= Top + b[id].filled
  <2>1. b[id] \in Amends!Orders BY <1>3, MapIs
  <2>2. b[id].filled \in Nat BY <2>1, RowIs
  <2>3. QED BY <2>2, TopIs
<1>4. QED BY <1>1, <1>2, <1>3 DEF Asked

\* The mirror takes a row, or drops it.
LEMMA MirrorTakes ==
  ASSUME Amends!ConstantsOK, NEW f, NEW b, NEW n, Believed(f, b, n), NEW id \in Amends!Ids, id \in 1..n,
         NEW o \in Amends!Orders, id \in DOMAIN b => o.filled <= b[id].filled
  PROVE  /\ Believed(Amends!With(f, id, o), b, n) /\ Believed(Amends!Without(f, id), b, n)
<1>1. f \in Amends!Books /\ DOMAIN f \subseteq 1..n
      /\ \A i \in DOMAIN f : i \in DOMAIN b => f[i].filled <= b[i].filled
  BY DEF Believed
<1>2. PICK g : g = Amends!With(f, id, o) OBVIOUS
<1>3. PICK h : h = Amends!Without(f, id) OBVIOUS
<1>4. /\ g \in Amends!Books /\ DOMAIN g = DOMAIN f \cup {id} /\ g[id] = o
      /\ \A i \in DOMAIN f : i # id => g[i] = f[i]
      /\ h \in Amends!Books /\ DOMAIN h = DOMAIN f \ {id}
      /\ \A i \in DOMAIN f \ {id} : h[i] = f[i]
  BY <1>1, <1>2, <1>3, MapChanges
<1>5. Believed(g, b, n)
  <2>1. \A i \in DOMAIN g : i = id \/ (i \in DOMAIN f /\ i # id) BY <1>4
  <2>2. QED BY <1>1, <1>4, <2>1 DEF Believed
<1>6. Believed(h, b, n) BY <1>1, <1>4 DEF Believed
<1>7. QED BY <1>2, <1>3, <1>5, <1>6

\* The mirror drops a row, whatever it was.
LEMMA MirrorLoses ==
  ASSUME Amends!ConstantsOK, NEW f, NEW b, NEW n, Believed(f, b, n), NEW id
  PROVE  Believed(Amends!Without(f, id), b, n)
<1>1. f \in Amends!Books /\ DOMAIN f \subseteq 1..n
      /\ \A i \in DOMAIN f : i \in DOMAIN b => f[i].filled <= b[i].filled
  BY DEF Believed
<1>2. PICK h : h = Amends!Without(f, id) OBVIOUS
<1>3. DOMAIN h = DOMAIN f \ {id} /\ \A i \in DOMAIN f \ {id} : h[i] = f[i]
  BY <1>2 DEF Amends!Without
<1>4. h \in Amends!Books
  <2>1. DOMAIN f \subseteq Amends!Ids /\ \A i \in DOMAIN f : f[i] \in Amends!Orders BY <1>1, MapIs
  <2>2. h \in [DOMAIN f \ {id} -> Amends!Orders] BY <1>2, <2>1 DEF Amends!Without
  <2>3. DOMAIN f \ {id} \in SUBSET Amends!Ids BY <2>1
  <2>4. QED BY <2>2, <2>3 DEF Amends!Books
<1>5. QED BY <1>1, <1>2, <1>3, <1>4 DEF Believed

\* A snapshot that is stored keeps what it did not lose.
LEMMA SnapStored ==
  ASSUME Amends!ConstantsOK, NEW f, NEW b, NEW n, Believed(f, b, n), NEW S
  PROVE  Believed([i \in DOMAIN f \ S |-> f[i]], b, n)
<1>1. f \in Amends!Books /\ DOMAIN f \subseteq 1..n
      /\ \A i \in DOMAIN f : i \in DOMAIN b => f[i].filled <= b[i].filled
  BY DEF Believed
<1>2. PICK h : h = [i \in DOMAIN f \ S |-> f[i]] BY Zenon
<1>3. DOMAIN h = DOMAIN f \ S /\ \A i \in DOMAIN f \ S : h[i] = f[i] BY <1>2
<1>4. h \in Amends!Books
  <2>1. DOMAIN f \subseteq Amends!Ids /\ \A i \in DOMAIN f : f[i] \in Amends!Orders BY <1>1, MapIs
  <2>2. h \in [DOMAIN f \ S -> Amends!Orders] BY <1>2, <2>1
  <2>3. DOMAIN f \ S \in SUBSET Amends!Ids BY <2>1
  <2>4. QED BY <2>2, <2>3 DEF Amends!Books
<1>5. QED BY <1>1, <1>2, <1>3, <1>4 DEF Believed

\* What fills can add up to.
LEMMA Steps ==
  ASSUME Amends!ConstantsOK, NEW f \in Nat, NEW g \in Nat, f <= g
  PROVE  f * Top \in Nat /\ g * Top \in Nat /\ f * Top <= g * Top
<1>1. PICK t \in Nat : t = Top BY TopIs
<1>2. f * t \in Nat /\ g * t \in Nat /\ f * t <= g * t BY Products
<1>3. QED BY <1>1, <1>2

\* An order leaves the book.
LEMMA BookLess ==
  ASSUME Amends!ConstantsOK, NEW b, NEW n \in Nat, NEW f \in Nat, BookSound(b, n, f),
         NEW id \in DOMAIN b, NEW c, c = Amends!Without(b, id)
  PROVE  /\ BookSound(c, n, f) /\ Grows(b, n, c, n)
         /\ Cardinality(DOMAIN c) = Cardinality(DOMAIN b) - 1
<1>1. b \in Amends!Books /\ DOMAIN b \subseteq 1..n
      /\ \A i \in DOMAIN b : b[i].filled <= f * Top /\ b[i].size <= Top + b[i].filled
  BY DEF BookSound
<1>2. DOMAIN c = DOMAIN b \ {id} /\ \A i \in DOMAIN b \ {id} : c[i] = b[i]
  BY DEF Amends!Without
<1>3. c \in Amends!Books
  <2>0. b \in Amends!Books BY <1>1
  <2>1. DOMAIN b \subseteq Amends!Ids /\ \A i \in DOMAIN b : b[i] \in Amends!Orders BY <2>0, MapIs
  <2>2. c \in [DOMAIN b \ {id} -> Amends!Orders] BY <2>1 DEF Amends!Without
  <2>3. DOMAIN b \ {id} \in SUBSET Amends!Ids BY <2>1
  <2>4. QED BY <2>2, <2>3 DEF Amends!Books
<1>4. BookSound(c, n, f) BY <1>1, <1>2, <1>3 DEF BookSound
<1>5. Grows(b, n, c, n)
  <2>1. ASSUME NEW i \in DOMAIN c
        PROVE  i \in DOMAIN b /\ b[i].filled \in Nat /\ c[i].filled \in Nat
               /\ b[i].filled <= c[i].filled
    <3>1. i \in DOMAIN b /\ c[i] = b[i] BY <1>2
    <3>2. b \in Amends!Books BY <1>1
    <3>3. b[i] \in Amends!Orders BY <3>1, <3>2, MapIs
    <3>4. b[i].filled \in Nat BY <3>3, RowIs
    <3>5. QED BY <3>1, <3>4
  <2>2. QED BY <2>1 DEF Grows
<1>6. Cardinality(DOMAIN c) = Cardinality(DOMAIN b) - 1
  <2>1. DOMAIN b \subseteq 1..n BY <1>1
  <2>2. IsFiniteSet(DOMAIN b) BY <2>1, BookCount
  <2>3. QED BY <1>2, <2>2, FS_RemoveElement
<1>7. QED BY <1>4, <1>5, <1>6

\* One more fill may come.
LEMMA BookMore ==
  ASSUME Amends!ConstantsOK, NEW b, NEW n \in Nat, NEW f \in Nat, BookSound(b, n, f),
         NEW g \in Nat, f <= g
  PROVE  BookSound(b, n, g)
<1>1. b \in Amends!Books /\ DOMAIN b \subseteq 1..n
      /\ \A i \in DOMAIN b : b[i].filled <= f * Top /\ b[i].size <= Top + b[i].filled
  BY DEF BookSound
<1>2. PICK x \in Nat, y \in Nat : x = f * Top /\ y = g * Top /\ x <= y BY Steps
<1>3. ASSUME NEW i \in DOMAIN b PROVE b[i].filled <= g * Top
  <2>1. b \in Amends!Books BY <1>1
  <2>2. b[i] \in Amends!Orders BY <2>1, MapIs
  <2>3. b[i].filled \in Nat BY <2>2, RowIs
  <2>4. b[i].filled <= x BY <1>1, <1>2
  <2>5. b[i].filled <= y BY <1>2, <2>3, <2>4
  <2>6. QED BY <1>2, <2>5
<1>4. QED BY <1>1, <1>3 DEF BookSound

\* An order of the book is filled further or amended.
LEMMA BookPut ==
  ASSUME Amends!ConstantsOK, NEW b, NEW n \in Nat, NEW f \in Nat, BookSound(b, n, f),
         NEW id \in DOMAIN b, NEW o \in Amends!Orders, b[id].filled <= o.filled,
         o.filled <= f * Top, o.size <= Top + o.filled, NEW c, c = [b EXCEPT ![id] = o]
  PROVE  /\ BookSound(c, n, f) /\ Grows(b, n, c, n) /\ DOMAIN c = DOMAIN b /\ c[id] = o
<1>1. b \in Amends!Books /\ DOMAIN b \subseteq 1..n
      /\ \A i \in DOMAIN b : b[i].filled <= f * Top /\ b[i].size <= Top + b[i].filled
  BY DEF BookSound
<1>2. DOMAIN c = DOMAIN b /\ c[id] = o /\ \A i \in DOMAIN b : i # id => c[i] = b[i]
  OBVIOUS
<1>3. c \in Amends!Books
  <2>0. b \in Amends!Books BY <1>1
  <2>1. /\ DOMAIN b \subseteq Amends!Ids /\ (\A i \in DOMAIN b : b[i] \in Amends!Orders)
        /\ b = [i \in DOMAIN b |-> b[i]]
    BY <2>0, MapIs
  <2>2. c \in [DOMAIN b -> Amends!Orders] BY <2>1
  <2>3. QED BY <2>1, <2>2 DEF Amends!Books
<1>4. \A i \in DOMAIN c : c[i].filled <= f * Top /\ c[i].size <= Top + c[i].filled
  <2> TAKE i \in DOMAIN c
  <2>1. CASE i = id BY <1>2, <2>1
  <2>2. CASE i # id BY <1>1, <1>2, <2>2
  <2>3. QED BY <2>1, <2>2
<1>5. Grows(b, n, c, n)
  <2>1. ASSUME NEW i \in DOMAIN c
        PROVE  i \in DOMAIN b /\ b[i].filled \in Nat /\ c[i].filled \in Nat
               /\ b[i].filled <= c[i].filled
    <3>1. i \in DOMAIN b BY <1>2
    <3>2. b \in Amends!Books BY <1>1
    <3>3. b[i] \in Amends!Orders BY <3>1, <3>2, MapIs
    <3>4. b[i].filled \in Nat BY <3>3, RowIs
    <3>5. o.filled \in Nat BY RowIs
    <3>6. CASE i = id BY <1>2, <3>1, <3>4, <3>5, <3>6
    <3>7. CASE i # id
      <4>1. c[i] = b[i] BY <1>2, <3>1, <3>7
      <4>2. QED BY <3>1, <3>4, <4>1
    <3>8. QED BY <3>6, <3>7
  <2>2. QED BY <2>1 DEF Grows
<1>6. BookSound(c, n, f) BY <1>1, <1>2, <1>3, <1>4 DEF BookSound
<1>7. QED BY <1>2, <1>5, <1>6

\* The two messages about an order that is filled by an amend.
LEMMA TwoMore ==
  ASSUME NEW S, NEW q \in Seq(S), NEW x \in S, NEW y \in S
  PROVE  q \o <<x, y>> = Append(Append(q, x), y)
<1>1. PICK p : p = Append(q, x) BY Zenon
<1>2. /\ p \in Seq(S) /\ Len(q) \in Nat /\ Len(p) = Len(q) + 1
      /\ \A i \in 1..Len(q) : p[i] = q[i]
      /\ p[Len(q) + 1] = x
  BY <1>1, Appended
<1>3. PICK r : r = Append(p, y) BY Zenon
<1>4. /\ r \in Seq(S) /\ Len(r) = Len(p) + 1
      /\ \A i \in 1..Len(p) : r[i] = p[i]
      /\ r[Len(p) + 1] = y
  BY <1>2, <1>3, Appended
<1>5. PICK t : t = <<x, y>> BY Zenon
<1>6. t \in Seq(S) /\ Len(t) = 2 /\ t[1] = x /\ t[2] = y BY <1>5
<1>7. PICK s : s = q \o t BY Zenon
<1>8. /\ s \in Seq(S) /\ Len(s) = Len(q) + Len(t)
      /\ \A i \in 1..Len(q) + Len(t) : s[i] = IF i <= Len(q) THEN q[i] ELSE t[i - Len(q)]
  BY <1>6, <1>7, ConcatProperties, Zenon
<1>9. PICK n \in Nat : n = Len(q) BY <1>2
<1>10. Len(s) = n + 2 /\ Len(r) = n + 2 BY <1>2, <1>4, <1>6, <1>8, <1>9
<1>11. ASSUME NEW i \in 1..n + 2 PROVE s[i] = r[i]
  <2>1. CASE i \in 1..n
    <3>1. s[i] = q[i] BY <1>8, <1>9, <1>10, <2>1
    <3>2. r[i] = p[i] /\ p[i] = q[i] BY <1>2, <1>4, <1>9, <2>1
    <3>3. QED BY <3>1, <3>2
  <2>2. CASE i = n + 1
    <3>1. s[i] = t[1] BY <1>8, <1>9, <1>10, <2>2
    <3>2. r[i] = x BY <1>2, <1>4, <1>9, <2>2
    <3>3. QED BY <1>6, <3>1, <3>2
  <2>3. CASE i = n + 2
    <3>1. s[i] = t[2] BY <1>8, <1>9, <1>10, <2>3
    <3>2. r[i] = y BY <1>2, <1>4, <1>9, <2>3
    <3>3. QED BY <1>6, <3>1, <3>2
  <2>4. QED BY <2>1, <2>2, <2>3
<1>12. s = r BY <1>4, <1>8, <1>10, <1>11, SeqEqual, Zenon
<1>13. QED BY <1>1, <1>3, <1>5, <1>7, <1>12

\* A handled message.
LEMMA HandleStep ==
  ASSUME Amends!ConstantsOK, AmendsInv, Amends!Handle
  PROVE  AmendsInv'
<1>1. PICK n \in 0..MaxOrders, f \in Nat : n = a_opened /\ f = a_fills
  BY TopIs DEF AmendsInv
<1>2. /\ BookSound(a_book, n, f) /\ Believed(a_mirror, a_book, n)
      /\ SnapSound(a_snap, a_book, n) /\ WireSound(a_wire, a_book, n)
      /\ NewsSound(a_news, a_book, n) /\ Fits(a_wire, a_news, a_book, n)
  BY <1>1 DEF AmendsInv
<1>3. a_news # <<>> /\ UNCHANGED <<a_link, a_snap, a_step, a_chances, a_losses, a_fills>>
  BY DEF Amends!Handle
<1>4. PICK msg : msg = Head(a_news) OBVIOUS
<1>5. PICK rest : rest = Tail(a_news) BY Zenon
<1>6. /\ Heard(msg, a_book, n) /\ NewsSound(rest, a_book, n)
      /\ Len(rest) = Len(a_news) - 1 /\ Len(a_news) \in Nat \ {0} /\ Len(rest) \in Nat
  <2>1. /\ NewsSound(Tail(a_news), a_book, n) /\ Len(Tail(a_news)) = Len(a_news) - 1
        /\ Len(a_news) \in Nat \ {0} /\ Heard(Head(a_news), a_book, n)
    BY <1>2, <1>3, NewsLess
  <2>2. QED BY <1>4, <1>5, <2>1
<1>7. /\ msg.id \in Amends!Ids /\ msg.id \in 1..n
      /\ msg.row # Amends!Finished => /\ msg.row \in Amends!Orders
                                      /\ msg.id \in DOMAIN a_book =>
                                           msg.row.filled <= a_book[msg.id].filled
  BY <1>6 DEF Heard, Messages
<1>8. Len(a_wire) \in Nat BY <1>2, Lengths
<1>9. a_link' \in BOOLEAN BY <1>3 DEF AmendsInv
<1>10. CASE Amends!Update(msg)
  <2>1. /\ UNCHANGED <<a_wire, a_book, a_opened>> /\ a_news' = rest
        /\ a_mirror' = IF msg.row = Amends!Finished THEN Amends!Without(a_mirror, msg.id)
                       ELSE Amends!With(a_mirror, msg.id, msg.row)
    BY <1>5, <1>10 DEF Amends!Update
  <2>2. Believed(a_mirror', a_book, n)
    <3>1. CASE msg.row = Amends!Finished BY <1>2, <2>1, <3>1, MirrorLoses
    <3>2. CASE msg.row # Amends!Finished BY <1>2, <1>7, <2>1, <3>2, MirrorTakes
    <3>3. QED BY <3>1, <3>2
  <2>3. Len(a_wire') + Len(a_news') <= Len(a_wire) + Len(a_news) BY <1>6, <1>8, <2>1
  <2>4. QED BY <1>1, <1>2, <1>3, <1>6, <1>9, <2>1, <2>2, <2>3, AmendsKeep
<1>11. CASE Amends!Answer(msg)
  <2>1. /\ UNCHANGED <<a_book, a_opened>> /\ a_news' = rest /\ msg.row # Amends!Finished
        /\ a_mirror' = Amends!With(a_mirror, msg.id, msg.row)
        /\ \/ a_wire' = a_wire
           \/ a_wire' = Amends!Sent(a_wire, [id |-> msg.id, price |-> "half",
                                              size |-> Amends!WantedSize(msg.row, 1)])
    BY <1>5, <1>11 DEF Amends!Answer, Amends!MinSize
  <2>2. Believed(a_mirror', a_book, n) BY <1>2, <1>7, <2>1, MirrorTakes
  <2>3. /\ WireSound(a_wire', a_book, n) /\ Len(a_wire') \in Nat
        /\ Len(a_wire') <= Len(a_wire) + 1
    <3>1. PICK s \in Nat : s = Amends!WantedSize(msg.row, 1) /\ s <= Top + msg.row.filled
      BY <1>7, <2>1, WantedIs
    <3>2. PICK r : r = [id |-> msg.id, price |-> "half", size |-> s] BY Zenon
    <3>3. r \in Requests /\ r.id = msg.id /\ r.size = s
      BY <1>7, <3>2 DEF Requests, Amends!Prices
    <3>4. ASSUME msg.id \in DOMAIN a_book PROVE s <= Top + a_book[msg.id].filled
      <4>1. a_book[msg.id] \in Amends!Orders BY <1>2, <3>4, MapIs DEF BookSound
      <4>2. a_book[msg.id].filled \in Nat /\ msg.row.filled \in Nat BY <1>7, <2>1, <4>1, RowIs
      <4>3. msg.row.filled <= a_book[msg.id].filled BY <1>7, <2>1, <3>4
      <4>4. QED BY <3>1, <4>2, <4>3, TopIs
    <3>5. Asked(r, a_book, n) BY <1>7, <3>3, <3>4 DEF Asked
    <3>6. CASE a_wire' = a_wire BY <1>2, <1>8, <3>6
    <3>7. CASE a_wire' = Amends!Sent(a_wire, r) BY <1>2, <3>5, <3>7, SentSound
    <3>8. QED BY <2>1, <3>1, <3>2, <3>6, <3>7
  <2>4. Len(a_wire') + Len(a_news') <= Len(a_wire) + Len(a_news) BY <1>6, <1>8, <2>1, <2>3
  <2>5. QED BY <1>1, <1>2, <1>3, <1>6, <1>9, <2>1, <2>2, <2>3, <2>4, AmendsKeep
<1>12. CASE Amends!AnswerGone(msg)
  <2>1. /\ a_mirror' = Amends!Without(a_mirror, msg.id) /\ UNCHANGED a_wire
        /\ \E k \in {0, 1} :
             /\ n + k <= MaxOrders /\ a_opened' = n + k
             /\ a_book' = IF k = 0 THEN a_book
                          ELSE Amends!With(a_book, n + 1, Amends!Order("half", 1, 0))
             /\ a_news' = IF k = 0 THEN rest
                          ELSE Append(rest, [id |-> n + 1, kind |-> "update",
                                             row |-> Amends!Order("half", 1, 0)])
    BY <1>1, <1>5, <1>12 DEF Amends!AnswerGone, Amends!MinSize
  <2>2. Believed(a_mirror', a_book, n) BY <1>2, <2>1, MirrorLoses
  <2>3. CASE a_book' = a_book /\ a_news' = rest /\ a_opened' = n
    <3>1. Len(a_wire') + Len(a_news') <= Len(a_wire) + Len(a_news) BY <1>6, <1>8, <2>1, <2>3
    <3>2. QED BY <1>1, <1>2, <1>3, <1>6, <1>9, <2>1, <2>2, <2>3, <3>1, AmendsKeep
  <2>4. CASE ~(a_book' = a_book /\ a_news' = rest /\ a_opened' = n)
    <3>1. PICK o : o = Amends!Order("half", 1, 0) OBVIOUS
    <3>2. PICK c : c = Amends!With(a_book, n + 1, o) OBVIOUS
    <3>3. PICK m : m = [id |-> n + 1, kind |-> "update", row |-> o] BY Zenon
    <3>4. /\ n + 1 <= MaxOrders /\ a_opened' = n + 1 /\ a_book' = c /\ a_news' = Append(rest, m)
      BY <1>1, <2>1, <2>4, <3>1, <3>2, <3>3
    <3>5. /\ BookSound(c, n + 1, f) /\ Grows(a_book, n, c, n + 1)
          /\ Cardinality(DOMAIN c) = Cardinality(DOMAIN a_book) + 1 /\ Heard(m, c, n + 1)
      <4>1. PICK b : b = a_book OBVIOUS
      <4>2. BookSound(b, n, f) /\ c = Amends!With(b, n + 1, o) BY <1>2, <3>2, <4>1
      <4>3. "update" \in {"update", "amended"} /\ "half" \in Amends!Prices /\ 1 \in Nat /\ 1 <= Top
        BY TopIs DEF Amends!Prices
      <4>4. /\ BookSound(c, n + 1, f) /\ Grows(b, n, c, n + 1)
            /\ Cardinality(DOMAIN c) = Cardinality(DOMAIN b) + 1
            /\ \A kind \in {"update", "amended"} :
                 Heard([id |-> n + 1, kind |-> kind, row |-> o], c, n + 1)
        BY <3>1, <3>4, <4>2, <4>3, Opened
      <4>5. QED BY <3>3, <4>1, <4>3, <4>4
    <3>6. /\ Believed(a_mirror', c, n + 1) /\ SnapSound(a_snap, c, n + 1)
          /\ WireSound(a_wire, c, n + 1) /\ NewsSound(rest, c, n + 1)
      BY <1>2, <1>6, <2>2, <3>5, Carried, CarriedAll
    <3>7. NewsSound(a_news', c, n + 1) /\ Len(a_news') = Len(rest) + 1
      BY <3>4, <3>5, <3>6, NewsMore
    <3>8. Fits(a_wire, a_news', c, n + 1)
      <4>1. Cardinality(DOMAIN a_book) \in 0..n
        <5>1. DOMAIN a_book \subseteq 1..n /\ n \in Nat BY <1>2 DEF BookSound
        <5>2. QED BY <5>1, BookCount
      <4>2. PICK x \in Nat, y \in Nat, z \in Nat : /\ x = Len(a_wire) /\ y = Len(a_news)
                                                  /\ z = Cardinality(DOMAIN a_book)
        BY <1>6, <1>8, <4>1
      <4>3. x + y + z + (MaxOrders - n) <= WireCap + MaxOrders BY <1>2, <4>2 DEF Fits
      <4>4. x + y + (z + 1) + (MaxOrders - (n + 1)) <= WireCap + MaxOrders BY <4>3, TopIs
      <4>5. Len(a_news') = y /\ Cardinality(DOMAIN c) = z + 1 BY <1>6, <3>5, <3>7, <4>2
      <4>6. QED BY <4>2, <4>4, <4>5 DEF Fits
    <3>9. n + 1 \in 0..MaxOrders BY <3>4, TopIs
    <3>10. a_fills' \in 0..MaxFills /\ a_step'.at \in {"idle", "near", "parked"}
           /\ a_fills' = f /\ a_snap' = a_snap /\ a_wire' = a_wire
      BY <1>1, <1>3, <2>1 DEF AmendsInv
    <3>11. QED BY <1>9, <3>4, <3>5, <3>6, <3>7, <3>8, <3>9, <3>10 DEF AmendsInv
  <2>5. QED BY <2>3, <2>4
<1>13. QED BY <1>4, <1>10, <1>11, <1>12 DEF Amends!Handle

\* What the exchange says of an order that is gone.
LEMMA GoneIs ==
  ASSUME NEW id \in Amends!Ids, NEW b, NEW n, id \in 1..n, NEW filled \in BOOLEAN
  PROVE  /\ Heard(Amends!Gone(id, filled)[1], b, n) /\ Heard(Amends!Gone(id, filled)[2], b, n)
         /\ Amends!Gone(id, filled) = <<Amends!Gone(id, filled)[1], Amends!Gone(id, filled)[2]>>
<1>1. PICK x : x = [id |-> id, kind |-> "update", row |-> Amends!Finished] BY Zenon
<1>2. PICK y : y = [id |-> id, kind |-> "amended", row |-> Amends!Finished, filled |-> filled]
  BY Zenon
<1>3. Amends!Gone(id, filled) = <<x, y>> BY <1>1, <1>2 DEF Amends!Gone
<1>4. Amends!Gone(id, filled)[1] = x /\ Amends!Gone(id, filled)[2] = y BY <1>3
<1>5. x \in Messages /\ x.id = id /\ x.row = Amends!Finished BY <1>1 DEF Messages
<1>6. y \in Messages /\ y.id = id /\ y.row = Amends!Finished BY <1>2 DEF Messages
<1>7. Heard(x, b, n) /\ Heard(y, b, n) BY <1>5, <1>6 DEF Heard
<1>8. QED BY <1>3, <1>4, <1>7

\* The exchange takes a request: it cancels, amends, or answers for an order that is
\* gone; an amend to no more than what is filled ends the order.
LEMMA ProcessStep ==
  ASSUME Amends!ConstantsOK, AmendsInv, Amends!Process
  PROVE  AmendsInv'
<1>1. PICK n \in 0..MaxOrders, f \in Nat : n = a_opened /\ f = a_fills /\ f <= MaxFills
  BY TopIs DEF AmendsInv
<1>2. /\ BookSound(a_book, n, f) /\ Believed(a_mirror, a_book, n)
      /\ SnapSound(a_snap, a_book, n) /\ WireSound(a_wire, a_book, n)
      /\ NewsSound(a_news, a_book, n) /\ Fits(a_wire, a_news, a_book, n)
  BY <1>1 DEF AmendsInv
<1>3. a_wire # <<>> /\ UNCHANGED <<a_opened, a_mirror, a_link, a_snap, a_step, a_fills>>
  BY DEF Amends!Process
<1>4. PICK req : req = Head(a_wire) OBVIOUS
<1>5. PICK rest : rest = Tail(a_wire) BY Zenon
<1>6. /\ Asked(req, a_book, n) /\ WireSound(rest, a_book, n)
      /\ Len(rest) = Len(a_wire) - 1 /\ Len(a_wire) \in Nat \ {0} /\ Len(rest) \in Nat
  <2>1. /\ WireSound(Tail(a_wire), a_book, n) /\ Len(Tail(a_wire)) = Len(a_wire) - 1
        /\ Len(a_wire) \in Nat \ {0} /\ Asked(Head(a_wire), a_book, n)
    BY <1>2, <1>3, WireLess
  <2>2. QED BY <1>4, <1>5, <2>1
<1>7. PICK id : id = req.id OBVIOUS
<1>8. /\ req \in Requests /\ id \in Amends!Ids /\ id \in 1..n
      /\ req.price \in Amends!Prices \cup {"cancel"} /\ req.size \in Nat
      /\ id \in DOMAIN a_book => req.size <= Top + a_book[id].filled
  BY <1>6, <1>7 DEF Asked, Requests
<1>9. Len(a_news) \in Nat BY <1>2, Lengths
<1>10. a_wire' = rest BY <1>5 DEF Amends!Process
<1>11. n \in Nat BY TopIs
<1>12. a_opened' = n /\ a_opened' \in 0..MaxOrders /\ a_fills' = f /\ a_fills' \in 0..MaxFills
       /\ a_link' \in BOOLEAN /\ a_step'.at \in {"idle", "near", "parked"}
       /\ a_mirror' = a_mirror /\ a_snap' = a_snap
  BY <1>1, <1>3 DEF AmendsInv
<1>13. PICK x \in Nat, y \in Nat, z \in 0..n :
          /\ x = Len(a_wire) /\ y = Len(a_news) /\ z = Cardinality(DOMAIN a_book)
          /\ x + y + z + (MaxOrders - n) <= WireCap + MaxOrders /\ Len(rest) = x - 1
  <2>1. DOMAIN a_book \subseteq 1..n BY <1>2 DEF BookSound
  <2>2. Cardinality(DOMAIN a_book) \in 0..n BY <1>11, <2>1, BookCount
  <2>3. QED BY <1>2, <1>6, <1>9, <2>2, Zenon DEF Fits
<1>14. ASSUME NEW c, NEW m, BookSound(c, n, f), Grows(a_book, n, c, n), NewsSound(m, c, n),
              Len(rest) + Len(m) + Cardinality(DOMAIN c) <= x + y + z,
              Len(m) \in Nat, Cardinality(DOMAIN c) \in Nat, a_book' = c, a_news' = m
       PROVE  AmendsInv'
  <2>1. /\ Believed(a_mirror, c, n) /\ SnapSound(a_snap, c, n) /\ WireSound(rest, c, n)
    BY <1>2, <1>6, <1>14, Carried, CarriedAll
  <2>2. Fits(rest, m, c, n)
    <3>1. PICK u \in Nat, v \in Nat, w \in Nat : u = Len(rest) /\ v = Len(m)
                                                /\ w = Cardinality(DOMAIN c)
      BY <1>6, <1>14
    <3>2. u + v + w <= x + y + z BY <1>14, <3>1
    <3>5. PICK M \in Nat, C \in Nat : M = MaxOrders /\ C = WireCap BY TopIs
    <3>6. x + y + z + (M - n) <= C + M /\ z \in Nat BY <1>11, <1>13, <3>5
    <3>7. u + v + w + (M - n) <= C + M BY <1>11, <3>2, <3>6
    <3>3. u + v + w + (MaxOrders - n) <= WireCap + MaxOrders BY <3>5, <3>7
    <3>4. QED BY <3>1, <3>3 DEF Fits
  <2>3. QED BY <1>10, <1>12, <1>14, <2>1, <2>2 DEF AmendsInv
<1>15. CASE id \notin DOMAIN a_book
  <2>1. a_book' = a_book /\ a_news' = a_news
    BY <1>4, <1>7, <1>15 DEF Amends!Process
  <2>2. Len(a_wire') + Len(a_news') <= Len(a_wire) + Len(a_news)
    BY <1>6, <1>9, <1>10, <2>1
  <2>3. QED BY <1>1, <1>2, <1>3, <1>6, <1>10, <1>12, <2>1, <2>2, AmendsKeep
<1>16. CASE id \in DOMAIN a_book /\ req.price = "cancel"
  <2>1. PICK c : c = Amends!Without(a_book, id) OBVIOUS
  <2>2. PICK g : g = Amends!Gone(id, FALSE)[1] BY Zenon
  <2>3. a_book' = c /\ a_news' = Append(a_news, g)
    BY <1>4, <1>7, <1>16, <2>1, <2>2, Zenon DEF Amends!Process
  <2>4. BookSound(c, n, f) /\ Grows(a_book, n, c, n) /\ Cardinality(DOMAIN c) = z - 1
    <3>1. PICK b : b = a_book OBVIOUS
    <3>2. BookSound(b, n, f) /\ id \in DOMAIN b /\ c = Amends!Without(b, id)
      BY <1>2, <1>16, <2>1, <3>1
    <3>3. /\ BookSound(c, n, f) /\ Grows(b, n, c, n)
          /\ Cardinality(DOMAIN c) = Cardinality(DOMAIN b) - 1
      BY <1>11, <3>2, BookLess
    <3>4. QED BY <1>13, <3>1, <3>3
  <2>5. FALSE \in BOOLEAN OBVIOUS
  <2>6. Heard(g, c, n) BY <1>8, <2>2, <2>5, GoneIs, Zenon
  <2>7. NewsSound(a_news, c, n) BY <1>2, <2>4, CarriedAll
  <2>8. NewsSound(a_news', c, n) /\ Len(a_news') = y + 1 BY <1>13, <2>3, <2>6, <2>7, NewsMore
  <2>9. Cardinality(DOMAIN c) \in Nat
    <3>1. DOMAIN c \subseteq 1..n BY <2>4 DEF BookSound
    <3>2. QED BY <1>11, <3>1, BookCount
  <2>10. Len(a_news') \in Nat /\ Len(rest) + Len(a_news') + Cardinality(DOMAIN c) <= x + y + z
    BY <1>13, <2>4, <2>8
  <2>11. QED BY <1>14, <2>3, <2>4, <2>8, <2>9, <2>10, Zenon
<1>17. CASE id \in DOMAIN a_book /\ req.price # "cancel"
  <2>1. PICK old : old = a_book[id] OBVIOUS
  <2>2. /\ old \in Amends!Orders /\ old.size \in Nat /\ old.filled \in Nat
        /\ old.filled <= MaxFills * Top /\ old.filled <= f * Top /\ old.size <= Top + old.filled
    <3>1. a_book \in Amends!Books /\ old.filled <= f * Top /\ old.size <= Top + old.filled
      BY <1>2, <1>17, <2>1 DEF BookSound
    <3>2. old \in Amends!Orders BY <1>17, <2>1, <3>1, MapIs
    <3>3. QED BY <3>1, <3>2, RowIs
  <2>3. PICK s \in Nat : s = (IF req.size = 0 THEN old.size ELSE req.size)
                         /\ s <= Top + old.filled
    BY <1>8, <1>17, <2>1, <2>2
  <2>4. PICK o : o = Amends!Order(req.price, s, old.filled) OBVIOUS
  <2>5. Amends!Amended(a_book[id], req) = o
    BY <2>1, <2>3, <2>4 DEF Amends!Amended, Amends!Unasked
  <2>6. o \in Amends!Orders /\ o.size = s /\ o.filled = old.filled
    <3>1. req.price \in Amends!Prices BY <1>8, <1>17
    <3>2. QED BY <2>2, <2>3, <2>4, <3>1, RowMade
  <2>7. CASE Amends!Left(o) <= 0
    <3>1. PICK c : c = Amends!Without(a_book, id) OBVIOUS
    <3>2. PICK g, h : g = Amends!Gone(id, TRUE)[1] /\ h = Amends!Gone(id, TRUE)[2] BY Zenon
    <3>3. a_book' = c /\ a_news' = a_news \o Amends!Gone(id, TRUE)
      BY <1>4, <1>7, <1>17, <2>5, <2>7, <3>1, Zenon DEF Amends!Process
    <3>4. BookSound(c, n, f) /\ Grows(a_book, n, c, n) /\ Cardinality(DOMAIN c) = z - 1
      <4>1. PICK b : b = a_book OBVIOUS
      <4>2. BookSound(b, n, f) /\ id \in DOMAIN b /\ c = Amends!Without(b, id)
        BY <1>2, <1>17, <3>1, <4>1
      <4>3. /\ BookSound(c, n, f) /\ Grows(b, n, c, n)
            /\ Cardinality(DOMAIN c) = Cardinality(DOMAIN b) - 1
        BY <1>11, <4>2, BookLess
      <4>4. QED BY <1>13, <4>1, <4>3
    <3>5. TRUE \in BOOLEAN OBVIOUS
    <3>6. Heard(g, c, n) /\ Heard(h, c, n) /\ Amends!Gone(id, TRUE) = <<g, h>>
      BY <1>8, <3>2, <3>5, GoneIs, Zenon
    <3>7. NewsSound(a_news, c, n) BY <1>2, <3>4, CarriedAll
    <3>8. a_news' = Append(Append(a_news, g), h)
      <4>1. PICK q \in Seq(Messages) : q = a_news BY <3>7 DEF NewsSound
      <4>2. g \in Messages /\ h \in Messages BY <3>6 DEF Heard
      <4>3. q \o <<g, h>> = Append(Append(q, g), h) BY <4>2, TwoMore
      <4>4. a_news' = q \o <<g, h>> BY <3>3, <3>6, <4>1, Zenon
      <4>5. QED BY <4>1, <4>3, <4>4
    <3>9. PICK m : m = Append(a_news, g) BY Zenon
    <3>10. NewsSound(m, c, n) /\ Len(m) = y + 1 BY <1>13, <3>6, <3>7, <3>9, NewsMore
    <3>11. NewsSound(a_news', c, n) /\ Len(a_news') = y + 2
      <4>1. /\ NewsSound(Append(m, h), c, n) /\ Len(Append(m, h)) = Len(m) + 1
        BY <3>6, <3>10, NewsMore
      <4>2. QED BY <3>8, <3>9, <3>10, <4>1
    <3>12. Cardinality(DOMAIN c) \in Nat
      <4>1. DOMAIN c \subseteq 1..n BY <3>4 DEF BookSound
      <4>2. QED BY <1>11, <4>1, BookCount
    <3>13. Len(a_news') \in Nat /\ Len(rest) + Len(a_news') + Cardinality(DOMAIN c) <= x + y + z
      BY <1>13, <3>4, <3>11
    <3>14. QED BY <1>14, <3>3, <3>4, <3>11, <3>12, <3>13, Zenon
  <2>8. CASE ~(Amends!Left(o) <= 0)
    <3>1. PICK c : c = [a_book EXCEPT ![id] = o] BY Zenon
    <3>2. PICK g : g = [id |-> id, kind |-> "amended", row |-> o] BY Zenon
    <3>3. a_book' = c /\ a_news' = Append(a_news, g)
      BY <1>4, <1>7, <1>17, <2>5, <2>8, <3>1, <3>2, Zenon DEF Amends!Process
    <3>4. BookSound(c, n, f) /\ Grows(a_book, n, c, n) /\ DOMAIN c = DOMAIN a_book /\ c[id] = o
      <4>1. PICK b : b = a_book OBVIOUS
      <4>2. BookSound(b, n, f) /\ id \in DOMAIN b /\ c = [b EXCEPT ![id] = o] /\ b[id] = old
        BY <1>2, <1>17, <2>1, <3>1, <4>1
      <4>3. b[id].filled <= o.filled /\ o.filled <= f * Top /\ o.size <= Top + o.filled
        BY <2>2, <2>3, <2>6, <4>2
      <4>4. BookSound(c, n, f) /\ Grows(b, n, c, n) /\ DOMAIN c = DOMAIN b /\ c[id] = o
        BY <1>11, <2>6, <4>2, <4>3, BookPut, Zenon
      <4>5. QED BY <4>1, <4>4
    <3>5. Heard(g, c, n)
      <4>1. g \in Messages /\ g.id = id /\ g.row = o BY <1>8, <2>6, <3>2 DEF Messages
      <4>2. g.row.filled <= c[g.id].filled BY <2>2, <2>6, <3>4, <4>1
      <4>3. QED BY <1>8, <4>1, <4>2 DEF Heard
    <3>6. NewsSound(a_news, c, n) BY <1>2, <3>4, CarriedAll
    <3>7. NewsSound(a_news', c, n) /\ Len(a_news') = y + 1 BY <1>13, <3>3, <3>5, <3>6, NewsMore
    <3>8. Cardinality(DOMAIN c) = z BY <1>13, <3>4
    <3>9. Len(a_news') \in Nat /\ Len(rest) + Len(a_news') + Cardinality(DOMAIN c) <= x + y + z
      BY <1>13, <3>7, <3>8
    <3>10. Cardinality(DOMAIN c) \in Nat BY <3>8
    <3>11. QED BY <1>14, <3>3, <3>4, <3>7, <3>9, <3>10, Zenon
  <2>9. QED BY <2>7, <2>8
<1>18. QED BY <1>15, <1>16, <1>17

\* The exchange fills an order, in part or whole.
LEMMA FillStep ==
  ASSUME Amends!ConstantsOK, AmendsInv, NEW id \in Amends!Ids, NEW k \in 1..Top,
         Amends!Fill(id, k)
  PROVE  AmendsInv'
<1>1. PICK n \in 0..MaxOrders, f \in Nat : n = a_opened /\ f = a_fills /\ f <= MaxFills
  BY TopIs DEF AmendsInv
<1>2. /\ BookSound(a_book, n, f) /\ Believed(a_mirror, a_book, n)
      /\ SnapSound(a_snap, a_book, n) /\ WireSound(a_wire, a_book, n)
      /\ NewsSound(a_news, a_book, n)
  BY <1>1 DEF AmendsInv
<1>3. /\ f < MaxFills /\ id \in DOMAIN a_book /\ a_book[id].price = "near"
      /\ k <= Amends!Left(a_book[id]) /\ Amends!Room /\ a_fills' = f + 1
      /\ UNCHANGED <<a_opened, a_mirror, a_link, a_wire, a_snap, a_step>>
  BY <1>1 DEF Amends!Fill
<1>4. n \in Nat /\ f + 1 \in Nat /\ MaxFills \in Nat /\ Top \in Nat /\ k \in Nat /\ k <= Top
  BY TopIs
<1>5. Len(a_wire) \in Nat /\ Len(a_news) \in Nat BY <1>2, Lengths
<1>6. PICK old : old = a_book[id] OBVIOUS
<1>7. /\ old \in Amends!Orders /\ old.size \in Nat /\ old.filled \in Nat
      /\ old.filled <= f * Top /\ old.size <= Top + old.filled
  <2>1. a_book \in Amends!Books /\ old.filled <= f * Top /\ old.size <= Top + old.filled
    BY <1>2, <1>3, <1>6 DEF BookSound
  <2>2. old \in Amends!Orders BY <1>3, <1>6, <2>1, MapIs
  <2>3. QED BY <2>1, <2>2, RowIs
<1>8. PICK o : o = [old EXCEPT !.filled = old.filled + k] BY Zenon
<1>9. /\ o.size = old.size /\ o.filled = old.filled + k /\ o.price = "near"
      /\ o.filled <= (f + 1) * Top /\ o \in Amends!Orders /\ o # Amends!Finished
  <2>0. PICK t \in Nat : t = Top BY <1>4
  <2>1. PICK a \in Nat, b \in Nat, c \in Nat :
           /\ a = f * Top /\ b = (f + 1) * Top /\ c = MaxFills * Top
           /\ b = a + Top /\ b <= c
    <3>2. f * t \in Nat /\ (f + 1) * t = f * t + 1 * t BY Products
    <3>3. (f + 1) * t \in Nat /\ MaxFills * t \in Nat BY <1>4, Products
    <3>4. f + 1 <= MaxFills BY <1>3, <1>4
    <3>5. (f + 1) * t <= MaxFills * t BY <1>4, <3>4, Products
    <3>6. PICK a \in Nat, b \in Nat, c \in Nat : a = f * t /\ b = (f + 1) * t /\ c = MaxFills * t
      BY <3>2, <3>3, Zenon
    <3>7. b = a + t /\ b <= c BY <3>2, <3>5, <3>6
    <3>8. QED BY <2>0, <3>6, <3>7, Zenon
  <2>2. old.filled <= a BY <1>7, <2>1
  <2>3. old.filled + k \in Nat /\ old.filled + k <= b
    BY <1>4, <1>7, <2>1, <2>2
  <2>4. old.filled + k <= c BY <2>1, <2>3
  <2>5. o.size = old.size /\ o.filled = old.filled + k /\ o.price = old.price
    BY <1>7, <1>8 DEF Amends!Orders
  <2>6. old.filled + k \in 0..MaxFills * Top BY <2>1, <2>3, <2>4
  <2>7. o \in Amends!Orders BY <1>7, <1>8, <2>6 DEF Amends!Orders, Top
  <2>8. o.price = "near" /\ Amends!Finished.price = "none"
    BY <1>3, <1>6, <2>5 DEF Amends!Finished, Amends!Order
  <2>9. QED BY <2>1, <2>3, <2>5, <2>7, <2>8
<1>10. PICK row : row = IF Amends!Left(o) = 0 THEN Amends!Finished ELSE o OBVIOUS
<1>11. PICK msg : msg = [id |-> id, kind |-> "update", row |-> row] BY Zenon
<1>12. /\ a_book' = IF row = Amends!Finished THEN Amends!Without(a_book, id)
                    ELSE [a_book EXCEPT ![id] = o]
       /\ a_news' = IF a_link THEN Append(a_news, msg) ELSE a_news
  BY <1>6, <1>8, <1>10, <1>11 DEF Amends!Fill
<1>13. PICK c : c = a_book' OBVIOUS
<1>14. /\ BookSound(c, n, f + 1) /\ Grows(a_book, n, c, n)
       /\ row # Amends!Finished => row = o /\ c[id] = o
  <2>1. PICK b : b = a_book OBVIOUS
  <2>2. BookSound(b, n, f) /\ id \in DOMAIN b /\ b[id] = old BY <1>2, <1>3, <1>6, <2>1
  <2>3. f <= f + 1 BY <1>4
  <2>4. BookSound(b, n, f + 1) BY <1>4, <2>2, <2>3, BookMore
  <2>5. CASE row = Amends!Finished
    <3>1. c = Amends!Without(b, id) BY <1>12, <1>13, <2>1, <2>5
    <3>2. BookSound(c, n, f + 1) /\ Grows(b, n, c, n)
      BY <1>4, <2>2, <2>4, <3>1, BookLess
    <3>3. QED BY <2>1, <2>5, <3>2
  <2>6. CASE row # Amends!Finished
    <3>1. c = [b EXCEPT ![id] = o] /\ row = o BY <1>10, <1>12, <1>13, <2>1, <2>6
    <3>2. b[id].filled <= o.filled /\ o.size <= Top + o.filled
      BY <1>4, <1>7, <1>9, <2>2
    <3>3. BookSound(c, n, f + 1) /\ Grows(b, n, c, n) /\ c[id] = o
      BY <1>4, <1>9, <2>2, <2>4, <3>1, <3>2, BookPut, Zenon
    <3>4. QED BY <2>1, <3>1, <3>3
  <2>7. QED BY <2>5, <2>6
<1>15. id \in 1..n BY <1>2, <1>3 DEF BookSound
<1>16. Heard(msg, c, n)
  <2>1. row \in Amends!Orders \cup {Amends!Finished} BY <1>9, <1>10
  <2>2. msg \in Messages /\ msg.id = id /\ msg.row = row BY <1>11, <2>1 DEF Messages
  <2>3. ASSUME row # Amends!Finished PROVE row.filled <= c[id].filled
    BY <1>4, <1>7, <1>9, <1>14, <2>3
  <2>4. QED BY <1>15, <2>2, <2>3 DEF Heard
<1>17. /\ Believed(a_mirror, c, n) /\ SnapSound(a_snap, c, n)
       /\ WireSound(a_wire, c, n) /\ NewsSound(a_news, c, n)
  BY <1>2, <1>14, Carried, CarriedAll
<1>18. NewsSound(a_news', c, n) /\ Len(a_news') \in Nat /\ Len(a_news') <= Len(a_news) + 1
  <2>1. NewsSound(Append(a_news, msg), c, n) /\ Len(Append(a_news, msg)) = Len(a_news) + 1
    BY <1>16, <1>17, NewsMore
  <2>2. CASE a_link BY <1>5, <1>12, <2>1, <2>2
  <2>3. CASE ~a_link BY <1>5, <1>12, <1>17, <2>3
  <2>4. QED BY <2>2, <2>3
<1>19. Fits(a_wire, a_news', c, n)
  <2>1. Len(a_wire) + Len(a_news) < WireCap BY <1>3 DEF Amends!Room
  <2>2. Len(a_wire) + Len(a_news') <= WireCap BY <1>5, <1>18, <2>1, TopIs
  <2>3. DOMAIN c \subseteq 1..n BY <1>14 DEF BookSound
  <2>4. QED BY <1>5, <1>18, <2>2, <2>3, FitsRoom
<1>20. f + 1 \in 0..MaxFills BY <1>3, <1>4
<1>21. a_opened' = n /\ a_link' \in BOOLEAN /\ a_step'.at \in {"idle", "near", "parked"}
  BY <1>1, <1>3 DEF AmendsInv
<1>22. QED BY <1>3, <1>13, <1>14, <1>17, <1>18, <1>19, <1>20, <1>21 DEF AmendsInv

\* So every step keeps the invariant.
LEMMA AmendsStep ==
  ASSUME Amends!ConstantsOK, AmendsInv, Amends!Next
  PROVE  AmendsInv'
<1>1. /\ a_opened \in 0..MaxOrders /\ a_fills \in 0..MaxFills /\ a_link \in BOOLEAN
      /\ a_step.at \in {"idle", "near", "parked"}
      /\ BookSound(a_book, a_opened, a_fills)
      /\ Believed(a_mirror, a_book, a_opened)
      /\ SnapSound(a_snap, a_book, a_opened)
      /\ WireSound(a_wire, a_book, a_opened) /\ NewsSound(a_news, a_book, a_opened)
  BY DEF AmendsInv
<1>2. Len(a_wire) \in Nat /\ Len(a_news) \in Nat BY <1>1, Lengths
<1>3. \A p \in {"near", "half", "fifth"} : p \in Amends!Prices BY DEF Amends!Prices
<1>4. 0 \in AmendSizes \cup {0} /\ Amends!Unasked = 0 BY DEF Amends!Unasked
<1>5. CASE \E id \in Amends!Ids, n \in AmendSizes, c \in BOOLEAN : Amends!TakeChance(id, n, c)
  <2>1. PICK id \in Amends!Ids, n \in AmendSizes, c \in BOOLEAN : Amends!TakeChance(id, n, c)
    BY <1>5
  <2>2. /\ Amends!Amend(id, "near", n)
        /\ a_step' = [at |-> "near", id |-> id, close |-> c]
        /\ UNCHANGED <<a_book, a_opened, a_link, a_news, a_snap, a_fills>>
    BY <2>1 DEF Amends!TakeChance
  <2>3. a_step'.at = "near" BY <2>2
  <2>4. QED BY <1>3, <2>2, <2>3, AmendOf
<1>6. CASE \E n \in AmendSizes : Amends!NewOrder(n)
  <2>1. PICK size \in AmendSizes : Amends!NewOrder(size) BY <1>6
  <2>2. PICK n \in {0, 1} : Amends!Open("near", size, n) BY <2>1 DEF Amends!NewOrder
  <2>3. UNCHANGED <<a_mirror, a_wire, a_link, a_snap, a_fills, a_step>>
    BY <2>1 DEF Amends!NewOrder
  <2>4. size \in Nat /\ size <= Top BY TopIs
  <2>5. QED BY <1>3, <2>2, <2>3, <2>4, OpenOf
<1>7. CASE Amends!Park
  <2>1. /\ Amends!Amend(a_step.id, "half", 0)
        /\ a_step' = (IF a_step.close THEN Amends!NoStep ELSE [a_step EXCEPT !.at = "parked"])
        /\ UNCHANGED <<a_book, a_opened, a_link, a_news, a_snap, a_fills>>
        /\ a_step.at = "near"
    BY <1>4, <1>7 DEF Amends!Park
  <2>2. a_step'.at \in {"idle", "near", "parked"}
    <3>1. CASE a_step' = Amends!NoStep BY <3>1 DEF Amends!NoStep
    <3>2. CASE a_step' = [a_step EXCEPT !.at = "parked"]
      <4>1. a_step'.at \in {a_step.at, "parked"} BY <3>2
      <4>2. QED BY <1>1, <4>1
    <3>3. QED BY <2>1, <3>1, <3>2
  <2>3. QED BY <1>3, <1>4, <2>1, <2>2, AmendOf
<1>8. CASE Amends!ParkFurther
  <2>1. /\ Amends!Amend(a_step.id, "fifth", 0) /\ a_step' = Amends!NoStep
        /\ UNCHANGED <<a_book, a_opened, a_link, a_news, a_snap, a_fills>>
    BY <1>4, <1>8 DEF Amends!ParkFurther
  <2>2. a_step'.at \in {"idle", "near", "parked"} BY <2>1 DEF Amends!NoStep
  <2>3. QED BY <1>3, <1>4, <2>1, <2>2, AmendOf
<1>9. CASE \E id \in Amends!Ids : Amends!ParkStray(id)
  <2>1. PICK id \in Amends!Ids : Amends!ParkStray(id) BY <1>9
  <2>2. /\ Amends!Amend(id, "half", 0)
        /\ UNCHANGED <<a_book, a_opened, a_link, a_news, a_snap, a_step, a_fills>>
    BY <1>4, <2>1 DEF Amends!ParkStray
  <2>3. a_step'.at \in {"idle", "near", "parked"} BY <1>1, <2>2
  <2>4. QED BY <1>3, <1>4, <2>2, <2>3, AmendOf
<1>10. CASE Amends!SmallOrder
  <2>1. PICK n \in {0, 1} : Amends!Open("half", 1, n)
    BY <1>10 DEF Amends!SmallOrder, Amends!MinSize
  <2>2. UNCHANGED <<a_mirror, a_wire, a_link, a_snap, a_fills, a_step>>
    BY <1>10 DEF Amends!SmallOrder
  <2>3. 1 \in Nat /\ 1 <= Top BY TopIs
  <2>4. QED BY <1>3, <2>1, <2>2, <2>3, OpenOf
<1>11. CASE Amends!CancelDuplicates \/ Amends!CancelLarge
  <2>1. PICK id \in Amends!Duplicates(DOMAIN a_mirror) \cup Amends!TooLarge(a_mirror) :
           Amends!Room /\ a_wire' = Amends!Sent(a_wire, Amends!Cancel(id))
    BY <1>11 DEF Amends!CancelDuplicates, Amends!CancelLarge
  <2>2. UNCHANGED <<a_book, a_opened, a_mirror, a_link, a_news, a_snap, a_step, a_fills>>
    BY <1>11 DEF Amends!CancelDuplicates, Amends!CancelLarge
  <2>3. id \in DOMAIN a_mirror BY DEF Amends!Duplicates, Amends!TooLarge
  <2>4. id \in 1..a_opened /\ id \in Amends!Ids /\ a_book \in Amends!Books
    <3>1. a_mirror \in Amends!Books /\ DOMAIN a_mirror \subseteq 1..a_opened
      BY <1>1 DEF Believed
    <3>2. QED BY <1>1, <2>3, <3>1, MapIs DEF BookSound
  <2>5. Asked(Amends!Cancel(id), a_book, a_opened) BY <2>4, CancelIs
  <2>6. /\ WireSound(a_wire', a_book, a_opened) /\ Len(a_wire') \in Nat
        /\ Len(a_wire') <= Len(a_wire) + 1
    BY <1>1, <2>1, <2>5, SentSound
  <2>7. Len(a_wire) + Len(a_news) < WireCap BY <2>1 DEF Amends!Room
  <2>8. Len(a_wire') + Len(a_news') <= WireCap BY <1>2, <2>2, <2>6, <2>7, TopIs
  <2>9. QED BY <1>1, <2>2, <2>6, <2>8, AmendsKeep
<1>12. CASE Amends!Poll
  <2>1. /\ a_snap' = <<a_book>>
        /\ UNCHANGED <<a_book, a_opened, a_mirror, a_link, a_wire, a_news, a_step, a_fills>>
    BY <1>12 DEF Amends!Poll
  <2>2. Believed(a_book, a_book, a_opened)
    <3>1. a_book \in Amends!Books /\ DOMAIN a_book \subseteq 1..a_opened
      BY <1>1 DEF BookSound
    <3>2. ASSUME NEW i \in DOMAIN a_book PROVE a_book[i].filled <= a_book[i].filled
      <4>1. a_book[i] \in Amends!Orders BY <3>1, MapIs
      <4>2. a_book[i].filled \in Nat BY <4>1, RowIs
      <4>3. QED BY <4>2
    <3>3. QED BY <3>1, <3>2 DEF Believed
  <2>3. SnapSound(a_snap', a_book, a_opened) BY <2>1, <2>2 DEF SnapSound
  <2>4. Len(a_wire') + Len(a_news') <= Len(a_wire) + Len(a_news) BY <1>2, <2>1
  <2>5. QED BY <1>1, <2>1, <2>3, <2>4, AmendsKeep
<1>13. CASE Amends!PollStore
  <2>1. a_snap # <<>> /\ a_snap' = <<>>
        /\ UNCHANGED <<a_book, a_opened, a_link, a_news, a_step, a_fills>>
    BY <1>13 DEF Amends!PollStore
  <2>2. PICK f : a_snap = <<f>> /\ Believed(f, a_book, a_opened)
    BY <1>1, <2>1 DEF SnapSound
  <2>3. a_snap[1] = f BY <2>2
  <2>4. PICK S \in SUBSET Amends!TooLarge(f) :
           /\ S # {} => Amends!Room
           /\ a_mirror' = [i \in DOMAIN f \ S |-> f[i]]
           /\ a_wire' = IF S = {} THEN a_wire
                        ELSE Amends!Sent(a_wire, Amends!Cancel(CHOOSE i \in S : TRUE))
    BY <1>13, <2>3, Zenon DEF Amends!PollStore
  <2>5. Believed(a_mirror', a_book, a_opened) BY <2>2, <2>4, SnapStored
  <2>6. SnapSound(a_snap', a_book, a_opened) BY <2>1 DEF SnapSound
  <2>7. /\ WireSound(a_wire', a_book, a_opened)
        /\ \/ Len(a_wire') + Len(a_news') <= Len(a_wire) + Len(a_news)
           \/ Len(a_wire') + Len(a_news') <= WireCap
    <3>1. CASE S = {} BY <1>1, <1>2, <2>1, <2>4, <3>1
    <3>2. CASE S # {}
      <4>1. PICK id : id = CHOOSE i \in S : TRUE OBVIOUS
      <4>2. id \in S BY <3>2, <4>1
      <4>3. id \in DOMAIN f BY <4>2 DEF Amends!TooLarge
      <4>4. id \in 1..a_opened /\ id \in Amends!Ids /\ a_book \in Amends!Books
        <5>1. f \in Amends!Books /\ DOMAIN f \subseteq 1..a_opened BY <2>2 DEF Believed
        <5>2. QED BY <1>1, <4>3, <5>1, MapIs DEF BookSound
      <4>5. Asked(Amends!Cancel(id), a_book, a_opened) BY <4>4, CancelIs
      <4>6. a_wire' = Amends!Sent(a_wire, Amends!Cancel(id)) /\ Amends!Room
        BY <2>4, <3>2, <4>1
      <4>7. /\ WireSound(a_wire', a_book, a_opened) /\ Len(a_wire') \in Nat
            /\ Len(a_wire') <= Len(a_wire) + 1
        BY <1>1, <4>5, <4>6, SentSound
      <4>8. Len(a_wire) + Len(a_news) < WireCap BY <4>6 DEF Amends!Room
      <4>9. Len(a_wire') + Len(a_news') <= WireCap BY <1>2, <2>1, <4>7, <4>8, TopIs
      <4>10. QED BY <4>7, <4>9
    <3>3. QED BY <3>1, <3>2
  <2>8. QED BY <1>1, <2>1, <2>5, <2>6, <2>7, AmendsKeep
<1>14. CASE Amends!Handle BY <1>14, HandleStep
<1>15. CASE Amends!Process BY <1>15, ProcessStep
<1>16. CASE Amends!Expire
  <2>1. /\ a_wire # <<>> /\ a_wire' = Tail(a_wire)
        /\ UNCHANGED <<a_book, a_opened, a_mirror, a_link, a_news, a_snap, a_step, a_fills>>
    BY <1>16 DEF Amends!Expire
  <2>2. WireSound(a_wire', a_book, a_opened) /\ Len(a_wire') = Len(a_wire) - 1
    BY <1>1, <2>1, WireLess
  <2>3. Len(a_wire') + Len(a_news') <= Len(a_wire) + Len(a_news) BY <1>2, <2>1, <2>2
  <2>4. QED BY <1>1, <2>1, <2>2, <2>3, AmendsKeep
<1>17. CASE \E id \in Amends!Ids, k \in 1..Amends!Largest : Amends!Fill(id, k)
  <2>1. PICK id \in Amends!Ids, k \in 1..Top : Amends!Fill(id, k) BY <1>17 DEF Top
  <2>2. QED BY <2>1, FillStep
<1>18. CASE Amends!Lose
  <2>1. /\ a_link' = FALSE /\ a_wire' = <<>> /\ a_news' = <<>>
        /\ UNCHANGED <<a_book, a_opened, a_mirror, a_snap, a_step, a_fills>>
    BY <1>18 DEF Amends!Lose
  <2>2. \A S : <<>> \in Seq(S) /\ DOMAIN <<>> = {} /\ Len(<<>>) = 0 OBVIOUS
  <2>3. WireSound(a_wire', a_book, a_opened) /\ NewsSound(a_news', a_book, a_opened)
    BY <2>1, <2>2 DEF WireSound, NewsSound
  <2>4. Len(a_wire') + Len(a_news') <= Len(a_wire) + Len(a_news) BY <1>2, <2>1, <2>2
  <2>5. QED BY <1>1, <2>1, <2>3, <2>4, AmendsKeep, Zenon
<1>19. CASE Amends!Reconnect
  <2>1. /\ a_link' = TRUE
        /\ UNCHANGED <<a_book, a_opened, a_mirror, a_wire, a_news, a_snap, a_step, a_fills>>
    BY <1>19 DEF Amends!Reconnect
  <2>2. Len(a_wire') + Len(a_news') <= Len(a_wire) + Len(a_news) BY <1>2, <2>1
  <2>3. QED BY <1>1, <2>1, <2>2, AmendsKeep
<1>20. QED
  BY <1>5, <1>6, <1>7, <1>8, <1>9, <1>10, <1>11, <1>12, <1>13, <1>14, <1>15, <1>16, <1>17,
     <1>18, <1>19 DEF Amends!Next, Amends!Strategy

\* The invariant gives the types, and that no order is left too large.
LEMMA AmendsHold ==
  ASSUME Amends!ConstantsOK, AmendsInv
  PROVE  Amends!TypeOK /\ Amends!NeverOversized
<1>1. /\ a_opened \in 0..MaxOrders /\ a_fills \in 0..MaxFills /\ a_link \in BOOLEAN
      /\ a_step.at \in {"idle", "near", "parked"}
      /\ BookSound(a_book, a_opened, a_fills)
      /\ Believed(a_mirror, a_book, a_opened)
      /\ WireSound(a_wire, a_book, a_opened) /\ NewsSound(a_news, a_book, a_opened)
      /\ Fits(a_wire, a_news, a_book, a_opened)
  BY DEF AmendsInv
<1>2. Len(a_wire) \in Nat /\ Len(a_news) \in Nat BY <1>1, Lengths
<1>3. a_opened \in Nat /\ a_opened <= MaxOrders /\ MaxOrders \in Nat /\ WireCap \in Nat
  BY <1>1, TopIs
<1>4. Cardinality(DOMAIN a_book) \in 0..a_opened
  <2>1. DOMAIN a_book \subseteq 1..a_opened BY <1>1 DEF BookSound
  <2>2. QED BY <1>3, <2>1, BookCount
<1>5. Len(a_wire) + Len(a_news) <= WireCap + MaxOrders
  <2>1. PICK x \in Nat, y \in Nat, z \in Nat, n \in Nat :
          /\ x = Len(a_wire) /\ y = Len(a_news) /\ z = Cardinality(DOMAIN a_book)
          /\ n = a_opened /\ n <= MaxOrders
    BY <1>2, <1>3, <1>4
  <2>2. x + y + z + (MaxOrders - n) <= WireCap + MaxOrders BY <1>1, <2>1 DEF Fits
  <2>3. n <= MaxOrders BY <2>1
  <2>4. x + y <= WireCap + MaxOrders BY <1>3, <2>2, <2>3
  <2>5. QED BY <2>1, <2>4
<1>6. a_book \in Amends!Books /\ a_mirror \in Amends!Books
  BY <1>1 DEF BookSound, Believed
<1>7. Amends!TypeOK BY <1>1, <1>5, <1>6 DEF Amends!TypeOK
<1>8. ASSUME NEW i \in DOMAIN a_book PROVE Amends!Left(a_book[i]) <= Top
  <2>1. a_book[i].size <= Top + a_book[i].filled BY <1>1 DEF BookSound
  <2>2. a_book[i] \in Amends!Orders BY <1>6, MapIs
  <2>3. a_book[i].size \in Nat /\ a_book[i].filled \in Nat BY <2>2, RowIs
  <2>4. PICK s \in Nat, g \in Nat : s = a_book[i].size /\ g = a_book[i].filled BY <2>3
  <2>5. s <= Top + g BY <2>1, <2>4
  <2>6. s - g <= Top BY <2>5, TopIs
  <2>7. QED BY <2>4, <2>6 DEF Amends!Left
<1>9. Amends!NeverOversized BY <1>8 DEF Amends!NeverOversized, Top
<1>10. QED BY <1>7, <1>9

-----------------------------------------------------------------------------
(* HandleChance                                                            *)

\* The sizes that are set; and what a position and an order of it may come to.
Orders == ChanceSizes \cup {OrderSize, CloseSize}
CapAll == Chance!Most((3 * MaxPosition) \div 2, Chance!LargestOrder)

\* The largest order there can be: of v7 also a fifth of a position.
Biggest == IF version = "v7" THEN Chance!Most(Chance!LargestOrder, Chance!Exposure \div 5)
           ELSE Chance!LargestOrder

\* The constants of an approval.
LEMMA ChanceConstants ==
  ASSUME Chance!ConstantsOK
  PROVE  /\ IsFiniteSet(Symbols) /\ Strategies \subseteq {"v6", "v7", "v8", "v10"}
         /\ ChanceSizes \subseteq Nat \ {0} /\ OrderSize \in Nat \ {0} /\ CloseSize \in Nat \ {0}
         /\ MaxPosition \in Nat /\ ManyGap \in Nat /\ Lag \in Nat
         /\ RateWindow \in Nat \ {0} /\ RecentCap \in Nat \ {0} /\ ChannelCap \in Nat \ {0}
         /\ Chance!LargestOrder \in Nat \ {0}
         /\ (\A n \in ChanceSizes : n <= Chance!LargestOrder)
         /\ OrderSize <= Chance!LargestOrder /\ CloseSize <= Chance!LargestOrder
         /\ Chance!AgeCap \in Nat /\ RateWindow <= Chance!AgeCap /\ Lag <= Chance!AgeCap
         /\ ("v7" \in Strategies => Lag <= 4)
<1>1. /\ Chance!IsFiniteSet(Symbols) /\ Strategies \subseteq {"v6", "v7", "v8", "v10"}
      /\ Orders \subseteq Nat \ {0}
      /\ \E n \in Orders : \A k \in Orders : k <= n
      /\ TimeGaps \subseteq Nat /\ \E g \in TimeGaps : \A h \in TimeGaps : h <= g
      /\ {MaxPosition, ManyGap, Lag} \subseteq Nat
      /\ {RateWindow, RecentCap, ChannelCap} \subseteq Nat \ {0}
      /\ Lag <= Chance!AgeCap /\ ("v7" \in Strategies => Lag <= 4)
  BY DEF Chance!ConstantsOK, Orders
<1>2. IsFiniteSet(Symbols) BY <1>1 DEF Chance!IsFiniteSet, IsFiniteSet
<1>3. Chance!LargestOrder \in Orders /\ \A m \in Orders : m <= Chance!LargestOrder
  BY <1>1 DEF Chance!LargestOrder, Orders
<1>4. Chance!MaxGap \in TimeGaps BY <1>1, Zenon DEF Chance!MaxGap
<1>5. PICK g \in Nat, m \in Nat, w \in Nat : g = Chance!MaxGap /\ m = ManyGap /\ w = RateWindow
  BY <1>1, <1>4
<1>6. Chance!AgeCap = Chance!Most(4 * g, Chance!Most(2 * m, w)) BY <1>5 DEF Chance!AgeCap
<1>7. Chance!AgeCap \in Nat /\ w <= Chance!AgeCap BY <1>6 DEF Chance!Most
<1>8. QED BY <1>1, <1>2, <1>3, <1>5, <1>7 DEF Orders

\* What late orders add to the cap.
LEMMA Fifths ==
  ASSUME NEW cap \in Nat, NEW n \in Nat, NEW lag \in 0..4, NEW e \in Nat,
         cap + lag * n <= e, (5 * cap) \div (5 - lag) <= e
  PROVE  cap + lag * n <= e /\ cap + lag * (e \div 5) <= e
<1>1. PICK q \in Nat, r \in 0..4 : q = e \div 5 /\ e = 5 * q + r OBVIOUS
<1>2. CASE lag = 0 BY <1>2
<1>3. CASE lag = 1
  <2>1. PICK f \in Nat : f = (5 * cap) \div 4 /\ 4 * f >= 5 * cap - 3 OBVIOUS
  <2>2. f <= e BY <1>3, <2>1
  <2>3. cap + q <= e BY <1>1, <2>1, <2>2
  <2>4. QED BY <1>1, <1>3, <2>3
<1>4. CASE lag = 2
  <2>1. PICK f \in Nat : f = (5 * cap) \div 3 /\ 3 * f >= 5 * cap - 2 OBVIOUS
  <2>2. f <= e BY <1>4, <2>1
  <2>3. cap + 2 * q <= e BY <1>1, <2>1, <2>2
  <2>4. QED BY <1>1, <1>4, <2>3
<1>5. CASE lag = 3
  <2>1. PICK f \in Nat : f = (5 * cap) \div 2 /\ 2 * f >= 5 * cap - 1 OBVIOUS
  <2>2. f <= e BY <1>5, <2>1
  <2>3. cap + 3 * q <= e BY <1>1, <2>1, <2>2
  <2>4. QED BY <1>1, <1>5, <2>3
<1>6. CASE lag = 4
  <2>1. 5 * cap <= e BY <1>6
  <2>2. cap + 4 * q <= e BY <1>1, <2>1
  <2>3. QED BY <1>1, <1>6, <2>2
<1>7. QED BY <1>2, <1>3, <1>4, <1>5, <1>6

\* The bound holds the cap and an order of every pass the mirror may be behind.
LEMMA ExposureFits ==
  ASSUME Chance!ConstantsOK, version \in Strategies
  PROVE  /\ CapAll \in Nat /\ Chance!Exposure \in Nat /\ Biggest \in Nat
         /\ Chance!LargestOrder <= Biggest /\ Chance!LargestOrder <= CapAll
         /\ (3 * MaxPosition) \div 2 <= CapAll
         /\ Lag * Biggest \in Nat
         /\ CapAll + Lag * Biggest <= Chance!Exposure
         /\ version = "v7" => Chance!Exposure \div 5 <= Biggest
<1>1. PICK n \in Nat, m \in Nat, lag \in Nat : n = Chance!LargestOrder /\ m = MaxPosition /\ lag = Lag
  BY ChanceConstants
<1>2. PICK cap \in Nat : cap = CapAll /\ n <= cap /\ (3 * m) \div 2 <= cap
  BY <1>1 DEF CapAll, Chance!Most
<1>3. lag * n \in Nat BY Products
<1>4. PICK late \in Nat : late = cap + lag * n BY <1>3
<1>5. CASE version # "v7"
  <2>1. Chance!Exposure = late BY <1>1, <1>2, <1>4, <1>5 DEF Chance!Exposure, CapAll
  <2>2. Biggest = n BY <1>1, <1>5 DEF Biggest
  <2>3. QED BY <1>1, <1>2, <1>3, <1>4, <1>5, <2>1, <2>2
<1>6. CASE version = "v7"
  <2>1. lag \in 0..4 BY <1>1, <1>6, ChanceConstants
  <2>2. PICK f \in Nat : f = (5 * cap) \div (5 - lag) BY <2>1
  <2>3. PICK e \in Nat : e = Chance!Most(late, f) /\ late <= e /\ f <= e BY DEF Chance!Most
  <2>4. Chance!Exposure = e
    BY <1>1, <1>2, <1>4, <1>6, <2>2, <2>3 DEF Chance!Exposure, CapAll
  <2>5. PICK q \in Nat : q = e \div 5 OBVIOUS
  <2>6. cap + lag * n <= e /\ cap + lag * q <= e BY <1>4, <2>1, <2>2, <2>3, <2>5, Fifths
  <2>7. Biggest = Chance!Most(n, q) BY <1>1, <1>6, <2>4, <2>5 DEF Biggest
  <2>8. (Biggest = n \/ Biggest = q) /\ n <= Biggest /\ q <= Biggest BY <2>7 DEF Chance!Most
  <2>9. lag * q \in Nat BY Products
  <2>10. cap + lag * Biggest <= e /\ lag * Biggest \in Nat BY <1>3, <2>6, <2>8, <2>9
  <2>11. Biggest \in Nat BY <2>8
  <2>12. QED BY <1>1, <1>2, <2>4, <2>5, <2>8, <2>10, <2>11
<1>7. QED BY <1>5, <1>6

-----------------------------------------------------------------------------
\* Sizes.
LEMMA SizesAre ==
  ASSUME Chance!ConstantsOK, NEW p \in Int, NEW n \in ChanceSizes
  PROVE  /\ Chance!OrDefault(n) \in Nat /\ Chance!OrDefault(n) <= Chance!LargestOrder
         /\ Chance!OrDefault(Chance!Hundredth(n)) \in Nat
         /\ Chance!OrDefault(Chance!Hundredth(n)) <= Chance!LargestOrder
         /\ Chance!Abs(p) \in Nat
<1>1. PICK L \in Nat, x \in Nat \ {0}, o \in Nat \ {0} :
        L = Chance!LargestOrder /\ x = n /\ o = OrderSize /\ x <= L /\ o <= L
  BY ChanceConstants
<1>2. (x + 50) \div 100 \in Nat /\ (x + 50) \div 100 <= x BY <1>1
<1>3. PICK h \in Nat : h = Chance!Hundredth(n) /\ h <= x BY <1>1, <1>2 DEF Chance!Hundredth
<1>4. Chance!OrDefault(n) \in {x, o} BY <1>1 DEF Chance!OrDefault
<1>5. Chance!OrDefault(h) \in {h, o} BY <1>1 DEF Chance!OrDefault
<1>6. Chance!Abs(p) \in Nat BY DEF Chance!Abs
<1>7. QED BY <1>1, <1>3, <1>4, <1>5, <1>6

\* The size of an approved chance.
ChanceIs(c) ==
  /\ c.sym \in Symbols /\ c.side \in {1, -1} /\ c.size \in ChanceSizes
  /\ c.net \in {1, 0, -1}

\* No version asks for more than the largest order; v7 closes a fifth of a position.
LEMMA SizeBounded ==
  ASSUME Chance!ConstantsOK, version \in Strategies, position \in [Symbols -> Int],
         NEW c, ChanceIs(c), Chance!Abs(position[c.sym]) <= Chance!Exposure
  PROVE  /\ Chance!Size(c) \in Nat \ {0} /\ Chance!Size(c) <= Biggest
         /\ Chance!Reduces(c) \/ Chance!CloseLevel(c) \/ version # "v7"
               \/ Chance!Size(c) <= Chance!LargestOrder
         /\ version # "v7" => Chance!Size(c) <= Chance!LargestOrder
<1>1. PICK L \in Nat \ {0}, n \in Nat \ {0}, k \in Nat \ {0} :
        L = Chance!LargestOrder /\ n = c.size /\ k = CloseSize /\ n <= L /\ k <= L
  BY ChanceConstants DEF ChanceIs
<1>2. PICK p \in Int : p = position[c.sym] BY DEF ChanceIs
<1>3. PICK a \in Nat : a = Chance!Abs(p) /\ a <= Chance!Exposure BY <1>1, <1>2, SizesAre DEF ChanceIs
<1>4. PICK e \in Nat, b \in Nat : /\ e = Chance!Exposure /\ b = Biggest /\ L <= b
                                 /\ (version = "v7" => e \div 5 <= b)
  BY <1>1, ExposureFits
<1>5. PICK x \in Nat : /\ x = Chance!CloseBy(c)
                       /\ version = "v7" => x <= b
  <2>1. PICK f \in Nat : f = a \div 5 /\ f <= e \div 5 BY <1>3, <1>4
  <2>2. Chance!CloseBy(c) = Chance!Most(k, f) BY <1>1, <1>2, <1>3, <2>1 DEF Chance!CloseBy
  <2>3. Chance!CloseBy(c) \in {k, f} BY <2>2 DEF Chance!Most
  <2>4. version = "v7" => f <= b
    <3>1. e \div 5 \in Nat BY <1>4
    <3>2. QED BY <1>4, <2>1, <3>1
  <2>5. k <= b BY <1>1, <1>4
  <2>6. QED BY <2>3, <2>4, <2>5
<1>6. /\ Chance!OrDefault(c.size) \in Nat /\ Chance!OrDefault(c.size) <= L
      /\ Chance!OrDefault(Chance!Hundredth(c.size)) \in Nat
      /\ Chance!OrDefault(Chance!Hundredth(c.size)) <= L
  <2>1. c.size \in ChanceSizes BY DEF ChanceIs
  <2>2. QED BY <1>1, <1>2, <2>1, SizesAre
<1>7. \A y \in Nat : /\ Chance!Least(y, n) \in Nat /\ Chance!Least(y, n) <= n
                     /\ Chance!Most(y, 1) \in Nat \ {0}
                     /\ Chance!Most(y, 1) <= y \/ Chance!Most(y, 1) = 1
  BY DEF Chance!Least, Chance!Most
<1>8. \A y \in Nat : /\ Chance!Most(Chance!Least(y, n), 1) \in Nat \ {0}
                     /\ Chance!Most(Chance!Least(y, n), 1) <= L
  BY <1>1 DEF Chance!Least, Chance!Most
<1>9. ASSUME NEW cut \in BOOLEAN
      PROVE  /\ Chance!OrDefault(IF cut THEN Chance!Hundredth(c.size) ELSE c.size) \in Nat
             /\ Chance!OrDefault(IF cut THEN Chance!Hundredth(c.size) ELSE c.size) <= L
  <2>1. CASE cut BY <1>6, <2>1
  <2>2. CASE ~cut BY <1>6, <2>2
  <2>3. QED BY <2>1, <2>2
<1>10. CASE version = "v6"
  <2>1. PICK cut \in BOOLEAN : cut = (c.record = "ema" /\ Chance!SameSide(c)) BY Zenon
  <2>2. PICK y \in Nat : y = IF Chance!CloseLevel(c) \/ Chance!Reduces(c) THEN Chance!CloseBy(c)
               ELSE Chance!OrDefault(IF cut THEN Chance!Hundredth(c.size) ELSE c.size)
    BY <1>5, <1>9
  <2>3. Chance!Size(c) = Chance!Most(Chance!Least(y, n), 1)
    BY <1>1, <1>10, <2>1, <2>2, Zenon DEF Chance!Size, Chance!SizeV6, Chance!MinSize
  <2>4. QED BY <1>1, <1>4, <1>8, <1>10, <2>3
<1>11. CASE version = "v7"
  <2>1. PICK cut \in BOOLEAN : cut = (c.record = "ema" /\ Chance!SameSide(c)) BY Zenon
  <2>2. PICK y \in Nat :
          /\ y = IF Chance!CloseLevel(c) \/ Chance!Reduces(c) THEN Chance!CloseBy(c)
                 ELSE Chance!OrDefault(IF cut THEN Chance!Hundredth(c.size) ELSE c.size)
          /\ y <= b /\ (Chance!CloseLevel(c) \/ Chance!Reduces(c) \/ y <= L)
    <3>1. CASE Chance!CloseLevel(c) \/ Chance!Reduces(c) BY <1>5, <1>11, <3>1
    <3>2. CASE ~(Chance!CloseLevel(c) \/ Chance!Reduces(c)) BY <1>1, <1>4, <1>9, <3>2
    <3>3. QED BY <3>1, <3>2
  <2>3. PICK z \in Nat : z = (IF c.level = "market_close" THEN Chance!Least(y, n) ELSE y) /\ z <= y
    BY DEF Chance!Least
  <2>4. Chance!Size(c) = Chance!Most(z, 1)
    BY <1>1, <1>11, <2>1, <2>2, <2>3, Zenon DEF Chance!Size, Chance!SizeV7, Chance!MinSize
  <2>5. Chance!Size(c) \in Nat \ {0} /\ (Chance!Size(c) = z \/ Chance!Size(c) = 1)
    BY <2>4 DEF Chance!Most
  <2>6. 1 <= L /\ 1 <= b BY <1>1, <1>4
  <2>7. Chance!Size(c) <= b BY <2>2, <2>3, <2>5, <2>6
  <2>8. Chance!CloseLevel(c) \/ Chance!Reduces(c) \/ Chance!Size(c) <= L
    BY <2>2, <2>3, <2>5, <2>6
  <2>9. QED BY <1>1, <1>4, <1>11, <2>5, <2>7, <2>8
<1>12. CASE version = "v8"
  <2>1. PICK cut \in BOOLEAN : cut = (c.record = "ema" /\ ~Chance!Reduces(c) /\ ~Chance!NetClose(c))
    BY Zenon
  <2>2. PICK w \in Nat : w = Chance!OrDefault(IF cut THEN Chance!Hundredth(c.size) ELSE c.size)
    BY <1>9
  <2>3. PICK y \in Nat : y = IF Chance!NetClose(c) THEN w ELSE w \div 2 OBVIOUS
  <2>4. Chance!Size(c) = Chance!Most(Chance!Least(y, n), 1)
    BY <1>1, <1>12, <2>1, <2>2, <2>3, Zenon DEF Chance!Size, Chance!SizeV8, Chance!MinSize
  <2>5. QED BY <1>1, <1>4, <1>8, <1>12, <2>4
<1>13. CASE version = "v10"
  <2>1. PICK cut \in BOOLEAN : cut = (c.record = "ema" /\ Chance!SameSide(c)) BY Zenon
  <2>2. PICK y \in Nat : y = Chance!OrDefault(IF cut THEN Chance!Hundredth(c.size) ELSE c.size)
    BY <1>9
  <2>3. Chance!Size(c) = Chance!Most(Chance!Least(y, n), 1)
    BY <1>1, <1>13, <2>1, <2>2, Zenon DEF Chance!Size, Chance!SizeV10, Chance!MinSize
  <2>4. QED BY <1>1, <1>4, <1>8, <1>13, <2>3
<1>14. QED BY <1>10, <1>11, <1>12, <1>13, ChanceConstants

\* How far an approved order goes, as the mirror shows the position.
LEMMA Approved ==
  ASSUME Chance!ConstantsOK, version \in Strategies, position \in [Symbols -> Int],
         NEW c, ChanceIs(c), Chance!Abs(position[c.sym]) <= Chance!Exposure,
         Chance!SideAllowed(c), Chance!CapAllows(c)
  PROVE  \E k \in Nat \ {0} : /\ Chance!SignedSize(c) = c.side * k /\ k <= Biggest
                              /\ c.side * position[c.sym] + k <= CapAll
<1>1. PICK n \in Nat \ {0} : n = Chance!Size(c) BY SizeBounded
<1>2. n <= Biggest /\ (version # "v7" => n <= Chance!LargestOrder)
      /\ (Chance!Reduces(c) \/ Chance!CloseLevel(c) \/ n <= Chance!LargestOrder)
  BY <1>1, SizeBounded
<1>3. PICK L \in Nat, b \in Nat, cap \in Nat, m \in Nat :
        /\ L = Chance!LargestOrder /\ b = Biggest /\ cap = CapAll /\ m = MaxPosition
        /\ L <= b /\ L <= cap /\ (3 * m) \div 2 <= cap
  BY ChanceConstants, ExposureFits, Zenon
<1>4. PICK p \in Int, d \in {1, -1} : p = position[c.sym] /\ d = c.side BY DEF ChanceIs
<1>5. Chance!Reduces(c) <=> p * d < 0 BY <1>4 DEF Chance!Reduces
<1>6. Chance!SameSide(c) <=> p * d > 0 BY <1>4 DEF Chance!SameSide
<1>7. PICK x \in Int : x = d * p /\ x = p * d /\ Chance!Abs(p) = (IF x < 0 THEN -x ELSE x)
  <2>1. CASE d = 1 BY <2>1 DEF Chance!Abs
  <2>2. CASE d = -1 BY <2>2 DEF Chance!Abs
  <2>3. QED BY <2>1, <2>2
<1>8. CASE Chance!Reduces(c)
  <2>1. x < 0 BY <1>5, <1>7, <1>8
  <2>2. CASE version # "v8"
    <3>1. PICK k \in Nat \ {0} : k = Chance!Least(n, Chance!Abs(p)) /\ k <= n /\ k <= -x
      BY <1>7, <2>1 DEF Chance!Least
    <3>2. Chance!SignedSize(c) = c.side * k
      BY <1>1, <1>4, <1>8, <2>2, <3>1 DEF Chance!SignedSize
    <3>3. k <= b /\ x + k <= cap BY <1>2, <1>3, <2>1, <3>1
    <3>4. QED BY <1>3, <1>4, <1>7, <3>2, <3>3
  <2>3. CASE version = "v8"
    <3>1. Chance!SignedSize(c) = c.side * n
      BY <1>1, <2>3 DEF Chance!SignedSize
    <3>2. n <= L BY <1>2, <1>3, <2>3
    <3>3. n <= b /\ x + n <= cap BY <1>3, <2>1, <3>2
    <3>4. QED BY <1>3, <1>4, <1>7, <3>1, <3>3
  <2>4. QED BY <2>2, <2>3
<1>9. CASE ~Chance!Reduces(c)
  <2>1. Chance!SignedSize(c) = c.side * n BY <1>1, <1>9 DEF Chance!SignedSize
  <2>2. n <= b BY <1>2, <1>3
  <2>3. x >= 0 BY <1>5, <1>7, <1>9
  <2>4. CASE x = 0
    <3>1. ~Chance!CloseLevel(c) BY <1>9 DEF Chance!SideAllowed
    <3>2. n <= L BY <1>2, <1>3, <1>9, <3>1
    <3>3. x + n <= cap BY <1>3, <2>4, <3>2
    <3>4. QED BY <1>3, <1>4, <1>7, <2>1, <2>2, <3>3
  <2>5. CASE x > 0
    <3>1. Chance!Abs(p) + n <= Chance!Cap(c)
      BY <1>1, <1>4, <1>6, <1>7, <2>5 DEF Chance!CapAllows
    <3>2. PICK o \in Nat : /\ o = (IF c.net * c.side < 0 THEN (3 * m) \div 2 ELSE m)
                           /\ o <= (3 * m) \div 2
      <4>1. m <= (3 * m) \div 2 /\ (3 * m) \div 2 \in Nat OBVIOUS
      <4>2. QED BY <4>1
    <3>3. Chance!Cap(c) = o \/ Chance!Cap(c) = o \div 2 BY <1>3, <3>2 DEF Chance!Cap
    <3>4. o \div 2 <= o /\ o \div 2 \in Nat OBVIOUS
    <3>5. Chance!Cap(c) <= cap BY <1>3, <3>2, <3>3, <3>4
    <3>6. x + n <= Chance!Cap(c) /\ Chance!Cap(c) \in Nat BY <1>7, <2>5, <3>1, <3>3, <3>4
    <3>7. x + n <= cap BY <1>3, <3>5, <3>6
    <3>8. QED BY <1>3, <1>4, <1>7, <2>1, <2>2, <3>7
  <2>6. QED BY <2>3, <2>4, <2>5
<1>10. QED BY <1>8, <1>9

\* V[j] is the sum of g after j.
Behind(V, g, n) ==
  /\ V \in [0..n -> Int] /\ V[n] = 0
  /\ \A j \in 1..n : g[j] \in Int /\ V[j-1] = V[j] + g[j]

\* What is on its way to a position in one direction.  The mirror shows p, the
\* exchange r; n fills with gains g, moves w and ages a have not been seen, l orders
\* with gains h and ages b not been sent.  What is as young as an entry was
\* approved in as many passes as the entry is old, M of each, and one more when the
\* symbol has had its turn of this pass (e).
Tally(n, l, g, w, a, h, b, p, r, e, M, E) ==
  \E V, W, Q :
    /\ Behind(V, g, n) /\ Behind(W, w, n) /\ Behind(Q, h, l)
    /\ \A j \in 0..n : V[j] >= 0 /\ W[j] <= V[j]
    /\ \A j \in 0..l : Q[j] >= 0
    /\ p + W[0] = r /\ p + V[0] + Q[0] <= E
    /\ \A j \in 1..n : V[j-1] + Q[0] <= M[a[j] + e]
    /\ \A j \in 1..l : Q[j-1] <= M[b[j] + e]

\* M of each pass.
Passes(M) ==
  /\ M \in [Nat -> Nat] /\ M[0] = 0
  /\ \A i, k \in Nat : i <= k => M[i] <= M[k]
  /\ \A k \in Nat : M[k] <= M[k + 1]

\* The sums after one more entry.
LEMMA BehindAppend ==
  ASSUME NEW n \in Nat, NEW g, NEW h, NEW V, Behind(V, g, n),
         \A j \in 1..n : h[j] = g[j], h[n + 1] \in Int
  PROVE  \E U : /\ Behind(U, h, n + 1) /\ \A j \in 0..n : U[j] = V[j] + h[n + 1]
                /\ U[n + 1] = 0
<1>0. PICK x \in Int : x = h[n + 1] OBVIOUS
<1> DEFINE U == [j \in 0..n + 1 |-> IF j <= n THEN V[j] + x ELSE 0]
<1>1. /\ V \in [0..n -> Int] /\ V[n] = 0
      /\ \A j \in 1..n : g[j] \in Int /\ V[j-1] = V[j] + g[j]
  BY DEF Behind
<1>2. \A j \in 0..n + 1 : U[j] \in Int BY <1>1
<1>3. U \in [0..n + 1 -> Int] BY <1>2
<1>4. U[n + 1] = 0 /\ \A j \in 0..n : U[j] = V[j] + x BY <1>1
<1> HIDE DEF U
<1>5. ASSUME NEW j \in 1..n + 1 PROVE h[j] \in Int /\ U[j-1] = U[j] + h[j]
  <2>1. CASE j <= n
    <3>0. j \in 1..n BY <2>1
    <3>1. h[j] \in Int /\ V[j-1] = V[j] + h[j] /\ V[j] \in Int
      <4>1. h[j] = g[j] BY <3>0
      <4>2. g[j] \in Int /\ V[j-1] = V[j] + g[j] BY <1>1, <3>0
      <4>3. V[j] \in Int BY <1>1, <2>1
      <4>4. QED BY <4>1, <4>2, <4>3
    <3>2. U[j-1] = V[j-1] + x /\ U[j] = V[j] + x BY <1>4, <2>1
    <3>3. QED BY <3>1, <3>2
  <2>2. CASE j = n + 1 BY <1>0, <1>1, <1>4, <2>2
  <2>3. QED BY <2>1, <2>2
<1>6. QED BY <1>0, <1>3, <1>4, <1>5, Zenon DEF Behind

\* The sums without the first entry.
LEMMA BehindTail ==
  ASSUME NEW n \in Nat \ {0}, NEW g, NEW h, NEW V, Behind(V, g, n),
         \A j \in 1..n - 1 : h[j] = g[j + 1]
  PROVE  \E U : Behind(U, h, n - 1) /\ \A j \in 0..n - 1 : U[j] = V[j + 1]
<1> DEFINE U == [j \in 0..n - 1 |-> V[j + 1]]
<1>1. /\ V \in [0..n -> Int] /\ V[n] = 0
      /\ \A j \in 1..n : g[j] \in Int /\ V[j-1] = V[j] + g[j]
  BY DEF Behind
<1>2. U \in [0..n - 1 -> Int] /\ \A j \in 0..n - 1 : U[j] = V[j + 1] BY <1>1
<1> HIDE DEF U
<1>3. U[n - 1] = 0 BY <1>1, <1>2
<1>4. ASSUME NEW j \in 1..n - 1 PROVE h[j] \in Int /\ U[j-1] = U[j] + h[j]
  <2>1. j + 1 \in 1..n /\ (j + 1) - 1 = j /\ j - 1 \in 0..n - 1 /\ j \in 0..n - 1 OBVIOUS
  <2>2. g[j + 1] \in Int /\ V[j] = V[j + 1] + g[j + 1] BY <1>1, <2>1
  <2>3. U[j-1] = V[j] /\ U[j] = V[j + 1] BY <1>2, <2>1
  <2>4. QED BY <2>2, <2>3
<1>5. QED BY <1>2, <1>3, <1>4, Zenon DEF Behind

\* The sums of the same entries.
LEMMA BehindSame ==
  ASSUME NEW n \in Nat, NEW g, NEW h, NEW V, Behind(V, g, n), \A j \in 1..n : h[j] = g[j]
  PROVE  Behind(V, h, n)
BY Zenon DEF Behind

\* Nothing is on its way at the start.
LEMMA TallyStart ==
  ASSUME NEW g, NEW w, NEW a, NEW h, NEW b, NEW e, NEW M, NEW E \in Nat
  PROVE  Tally(0, 0, g, w, a, h, b, 0, 0, e, M, E)
<1> DEFINE Z == [j \in 0..0 |-> 0]
<1>1. Z \in [0..0 -> Int] /\ Z[0] = 0 OBVIOUS
<1> HIDE DEF Z
<1>2. Behind(Z, g, 0) /\ Behind(Z, w, 0) /\ Behind(Z, h, 0) BY <1>1 DEF Behind
<1>3. /\ \A j \in 0..0 : Z[j] >= 0 /\ Z[j] <= Z[j]
      /\ \A j \in 0..0 : Z[j] >= 0
      /\ 0 + Z[0] = 0 /\ 0 + Z[0] + Z[0] <= E
      /\ \A j \in 1..0 : Z[j-1] + Z[0] <= M[a[j] + e]
      /\ \A j \in 1..0 : Z[j-1] <= M[b[j] + e]
  BY <1>1
<1>4. QED BY <1>2, <1>3 DEF Tally

\* Entries grow older, or the symbol has had its turn.
Older(n, l, g, w, a, h, b, e, M, g2, w2, a2, h2, b2, e2) ==
  /\ n \in Nat /\ l \in Nat /\ e \in {0, 1} /\ e2 \in {0, 1} /\ Passes(M)
  /\ \A j \in 1..n : a[j] \in Nat /\ a2[j] \in Nat /\ a[j] + e <= a2[j] + e2
  /\ \A j \in 1..l : b[j] \in Nat /\ b2[j] \in Nat /\ b[j] + e <= b2[j] + e2
  /\ \A j \in 1..n : g2[j] = g[j] /\ w2[j] = w[j]
  /\ \A j \in 1..l : h2[j] = h[j]

\* A tally of entries that grew older.
LEMMA TallyAged ==
  ASSUME NEW n, NEW l, NEW g, NEW w, NEW a, NEW h, NEW b, NEW p, NEW r, NEW e, NEW M, NEW E,
         NEW g2, NEW w2, NEW a2, NEW h2, NEW b2, NEW e2,
         Tally(n, l, g, w, a, h, b, p, r, e, M, E),
         Older(n, l, g, w, a, h, b, e, M, g2, w2, a2, h2, b2, e2)
  PROVE  Tally(n, l, g2, w2, a2, h2, b2, p, r, e2, M, E)
<1>a. /\ n \in Nat /\ l \in Nat /\ e \in {0, 1} /\ e2 \in {0, 1} /\ Passes(M)
      /\ \A j \in 1..n : a[j] \in Nat /\ a2[j] \in Nat /\ a[j] + e <= a2[j] + e2
      /\ \A j \in 1..l : b[j] \in Nat /\ b2[j] \in Nat /\ b[j] + e <= b2[j] + e2
      /\ \A j \in 1..n : g2[j] = g[j] /\ w2[j] = w[j]
      /\ \A j \in 1..l : h2[j] = h[j]
  BY DEF Older
<1> USE <1>a
<1>1. PICK V, W, Q :
    /\ Behind(V, g, n) /\ Behind(W, w, n) /\ Behind(Q, h, l)
    /\ \A j \in 0..n : V[j] >= 0 /\ W[j] <= V[j]
    /\ \A j \in 0..l : Q[j] >= 0
    /\ p + W[0] = r /\ p + V[0] + Q[0] <= E
    /\ \A j \in 1..n : V[j-1] + Q[0] <= M[a[j] + e]
    /\ \A j \in 1..l : Q[j-1] <= M[b[j] + e]
  BY Zenon DEF Tally
<1>2. Behind(V, g2, n) /\ Behind(W, w2, n) /\ Behind(Q, h2, l)
  BY <1>1, BehindSame
<1>3. V \in [0..n -> Int] /\ Q \in [0..l -> Int] BY <1>1 DEF Behind
<1>4. ASSUME NEW j \in 1..n PROVE V[j-1] + Q[0] <= M[a2[j] + e2]
  <2>1. PICK i \in Nat, k \in Nat : i = a[j] + e /\ k = a2[j] + e2 /\ i <= k OBVIOUS
  <2>2. M[i] <= M[k] /\ M[i] \in Nat /\ M[k] \in Nat BY <2>1, Zenon DEF Passes
  <2>3. V[j-1] \in Int /\ Q[0] \in Int
    <3>1. j - 1 \in 0..n /\ 0 \in 0..l OBVIOUS
    <3>2. QED BY <1>3, <3>1
  <2>4. V[j-1] + Q[0] <= M[i] BY <1>1, <2>1
  <2>5. QED BY <2>1, <2>2, <2>3, <2>4
<1>5. ASSUME NEW j \in 1..l PROVE Q[j-1] <= M[b2[j] + e2]
  <2>1. PICK i \in Nat, k \in Nat : i = b[j] + e /\ k = b2[j] + e2 /\ i <= k OBVIOUS
  <2>2. M[i] <= M[k] /\ M[i] \in Nat /\ M[k] \in Nat BY <2>1, Zenon DEF Passes
  <2>3. Q[j-1] \in Int BY <1>3
  <2>4. Q[j-1] <= M[i] BY <1>1, <2>1
  <2>5. QED BY <2>1, <2>2, <2>3, <2>4
<1>6. /\ \A j \in 0..n : V[j] >= 0 /\ W[j] <= V[j]
      /\ \A j \in 0..l : Q[j] >= 0
      /\ p + W[0] = r /\ p + V[0] + Q[0] <= E
  BY <1>1
<1>7. QED BY <1>2, <1>4, <1>5, <1>6 DEF Tally

\* One more order of the symbol in its turn.
Joined(n, l, a, h, b, p, M, E, l2, h2, b2) ==
  /\ n \in Nat /\ l \in Nat /\ p \in Int /\ E \in Nat /\ Passes(M) /\ l2 = l + 1
  /\ \A k \in Nat : M[k] + M[1] = M[k + 1]
  /\ h2[l + 1] \in Nat /\ b2[l + 1] = 0 /\ h2[l + 1] <= M[1]
  /\ \A j \in 1..l : h2[j] = h[j] /\ b2[j] = b[j]
  /\ \E lag \in Nat :
       /\ \A j \in 1..n : a[j] \in 0..lag
       /\ \A j \in 1..l : b[j] \in 0..lag
       /\ h2[l + 1] = 0 \/ p + h2[l + 1] + M[lag] <= E

\* A tally with an order of this pass: it fits the cap, and what is older fits the
\* passes it was approved in.
LEMMA TallyOrder ==
  ASSUME NEW n, NEW l, NEW g, NEW w, NEW a, NEW h, NEW b, NEW p, NEW r, NEW M, NEW E,
         NEW l2, NEW h2, NEW b2, Tally(n, l, g, w, a, h, b, p, r, 0, M, E),
         Joined(n, l, a, h, b, p, M, E, l2, h2, b2)
  PROVE  Tally(n, l2, g, w, a, h2, b2, p, r, 1, M, E)
<1>a. /\ n \in Nat /\ l \in Nat /\ p \in Int /\ E \in Nat /\ Passes(M) /\ l2 = l + 1
      /\ \A k \in Nat : M[k] + M[1] = M[k + 1]
      /\ h2[l + 1] \in Nat /\ b2[l + 1] = 0 /\ h2[l + 1] <= M[1]
      /\ \A j \in 1..l : h2[j] = h[j] /\ b2[j] = b[j]
  BY DEF Joined
<1>b. PICK lag \in Nat :
       /\ \A j \in 1..n : a[j] \in 0..lag
       /\ \A j \in 1..l : b[j] \in 0..lag
       /\ h2[l + 1] = 0 \/ p + h2[l + 1] + M[lag] <= E
  BY Zenon DEF Joined
<1>c. PICK x \in Nat : x = h2[l + 1] BY <1>a
<1> USE <1>a, <1>b, <1>c
<1>1. PICK V, W, Q :
    /\ Behind(V, g, n) /\ Behind(W, w, n) /\ Behind(Q, h, l)
    /\ \A j \in 0..n : V[j] >= 0 /\ W[j] <= V[j]
    /\ \A j \in 0..l : Q[j] >= 0
    /\ p + W[0] = r /\ p + V[0] + Q[0] <= E
    /\ \A j \in 1..n : V[j-1] + Q[0] <= M[a[j] + 0]
    /\ \A j \in 1..l : Q[j-1] <= M[b[j] + 0]
  BY DEF Tally
<1>3. PICK U : /\ Behind(U, h2, l + 1) /\ \A j \in 0..l : U[j] = Q[j] + x
               /\ U[l + 1] = 0
  <2>1. \A j \in 1..l : h2[j] = h[j] OBVIOUS
  <2>2. Behind(Q, h, l) BY <1>1
  <2>3. h2[l + 1] \in Int OBVIOUS
  <2>4. PICK U : /\ Behind(U, h2, l + 1) /\ \A j \in 0..l : U[j] = Q[j] + h2[l + 1]
                 /\ U[l + 1] = 0
    BY ONLY <2>1, <2>2, <2>3, <1>a, BehindAppend
  <2>5. QED BY <2>4
<1>4. V \in [0..n -> Int] /\ Q \in [0..l -> Int] /\ V[n] = 0 /\ Q[l] = 0 BY <1>1, Zenon DEF Behind
<1>5. U[0] = Q[0] + x BY <1>3
<1>6. \A k \in Nat : M[k] \in Nat BY Zenon DEF Passes
<1>7. V[0] + Q[0] <= M[lag]
  <2>1. CASE n > 0
    <3>1. PICK k \in Nat : k = a[1] + 0 /\ k <= lag BY <2>1
    <3>2. V[0] + Q[0] <= M[k]
      <4>1. 1 \in 1..n /\ 1 - 1 = 0 BY <2>1
      <4>2. QED BY <1>1, <3>1, <4>1
    <3>3. M[k] <= M[lag] /\ M[k] \in Nat /\ M[lag] \in Nat BY <3>1, <1>6, Zenon DEF Passes
    <3>4. V[0] \in Int /\ Q[0] \in Int BY <1>4
    <3>5. QED BY <3>2, <3>3, <3>4
  <2>2. CASE n = 0 /\ l > 0
    <3>1. PICK k \in Nat : k = b[1] + 0 /\ k <= lag BY <2>2
    <3>2. Q[0] <= M[k]
      <4>1. 1 \in 1..l /\ 1 - 1 = 0 BY <2>2
      <4>2. QED BY <1>1, <3>1, <4>1
    <3>3. M[k] <= M[lag] /\ M[k] \in Nat /\ M[lag] \in Nat BY <3>1, <1>6, Zenon DEF Passes
    <3>4. V[0] = 0 BY <1>4, <2>2
    <3>5. Q[0] \in Int BY <1>4
    <3>6. QED BY <3>2, <3>3, <3>4, <3>5
  <2>3. CASE n = 0 /\ l = 0 BY <1>4, <1>6, <2>3
  <2>4. QED BY <2>1, <2>2, <2>3
<1>8. p + V[0] + U[0] <= E
  <2>1. V[0] \in Int /\ Q[0] \in Int BY <1>4
  <2>2. p + V[0] + Q[0] <= E BY <1>1
  <2>3. M[lag] \in Nat BY <1>6
  <2>4. QED BY <1>5, <1>7, <2>1, <2>2, <2>3
<1>9. ASSUME NEW j \in 1..n PROVE V[j-1] + U[0] <= M[a[j] + 1]
  <2>1. V[j-1] \in Int /\ Q[0] \in Int BY <1>4
  <2>2. a[j] \in Nat /\ a[j] + 0 = a[j] OBVIOUS
  <2>3. V[j-1] + Q[0] <= M[a[j]] BY <1>1, <2>2
  <2>4. M[a[j]] + M[1] = M[a[j] + 1] /\ M[a[j]] \in Nat /\ M[1] \in Nat BY <1>6, <2>2
  <2>5. QED BY <1>5, <2>1, <2>3, <2>4
<1>10. ASSUME NEW j \in 1..l + 1 PROVE U[j-1] <= M[b2[j] + 1]
  <2>1. CASE j <= l
    <3>1. j \in 1..l /\ j - 1 \in 0..l BY <2>1
    <3>2. U[j-1] = Q[j-1] + x /\ Q[j-1] \in Int BY <1>3, <1>4, <3>1, Zenon
    <3>3. b2[j] = b[j] /\ b[j] \in Nat /\ b[j] + 0 = b[j] BY <3>1
    <3>4. Q[j-1] <= M[b[j]] BY <1>1, <3>1, <3>3
    <3>5. M[b[j]] + M[1] = M[b[j] + 1] /\ M[b[j]] \in Nat /\ M[1] \in Nat BY <1>6, <3>3
    <3>6. QED BY <3>2, <3>3, <3>4, <3>5
  <2>2. CASE j = l + 1
    <3>1. j - 1 = l /\ l \in 0..l /\ U[j-1] = x
      <4>1. j - 1 = l /\ l \in 0..l BY <2>2
      <4>2. U[l] = Q[l] + x BY <1>3, <4>1
      <4>3. Q[l] = 0 BY <1>4
      <4>4. 0 + x = x OBVIOUS
      <4>5. QED BY ONLY <4>1, <4>2, <4>3, <4>4
    <3>2. M[b2[j] + 1] = M[1] BY <2>2
    <3>3. QED BY <3>1, <3>2
  <2>3. QED BY <2>1, <2>2
<1>11. ASSUME NEW j \in 0..l + 1 PROVE U[j] >= 0
  <2>1. CASE j <= l
    <3>1. j \in 0..l BY <2>1
    <3>2. U[j] = Q[j] + x /\ Q[j] \in Int /\ Q[j] >= 0 BY <1>1, <1>3, <1>4, <3>1, Zenon
    <3>3. QED BY <3>2
  <2>2. CASE j = l + 1 BY <1>3, <2>2
  <2>3. QED BY <2>1, <2>2
<1>12. /\ \A j \in 0..n : V[j] >= 0 /\ W[j] <= V[j]
       /\ p + W[0] = r
  BY <1>1
<1>13. Tally(n, l + 1, g, w, a, h2, b2, p, r, 1, M, E) BY <1>1, <1>3, <1>8, <1>9, <1>10, <1>11, <1>12 DEF Tally
<1>14. QED BY <1>13

\* The oldest order leaves.
LEMMA TallyDropped ==
  ASSUME NEW n \in Nat, NEW l \in Nat \ {0}, NEW g, NEW w, NEW a, NEW h, NEW b, NEW p \in Int,
         NEW r \in Int, NEW e, NEW M, NEW E \in Nat, \A j \in 1..n : M[a[j] + e] \in Nat,
         Tally(n, l, g, w, a, h, b, p, r, e, M, E), h[1] \in Nat,
         NEW h2, NEW b2, \A j \in 1..l - 1 : h2[j] = h[j + 1] /\ b2[j] = b[j + 1],
         NEW l2, l2 = l - 1
  PROVE  Tally(n, l2, g, w, a, h2, b2, p, r, e, M, E)
<1>1. PICK V, W, Q :
    /\ Behind(V, g, n) /\ Behind(W, w, n) /\ Behind(Q, h, l)
    /\ \A j \in 0..n : V[j] >= 0 /\ W[j] <= V[j]
    /\ \A j \in 0..l : Q[j] >= 0
    /\ p + W[0] = r /\ p + V[0] + Q[0] <= E
    /\ \A j \in 1..n : V[j-1] + Q[0] <= M[a[j] + e]
    /\ \A j \in 1..l : Q[j-1] <= M[b[j] + e]
  BY DEF Tally
<1>2. \A j \in 1..l - 1 : h2[j] = h[j + 1] OBVIOUS
<1>3. PICK U : Behind(U, h2, l - 1) /\ \A j \in 0..l - 1 : U[j] = Q[j + 1]
  BY <1>1, <1>2, BehindTail
<1>4. V \in [0..n -> Int] /\ Q \in [0..l -> Int] BY <1>1, Zenon DEF Behind
<1>5. Q[0] = Q[1] + h[1]
  <2>1. \A j \in 1..l : Q[j-1] = Q[j] + h[j] BY <1>1 DEF Behind
  <2>2. 1 \in 1..l /\ 1 - 1 = 0 OBVIOUS
  <2>3. QED BY <2>1, <2>2
<1>6. U[0] = Q[1] /\ Q[1] \in Int /\ Q[0] \in Int /\ Q[1] <= Q[0]
  <2>1. U[0] = Q[0 + 1] BY <1>3
  <2>2. QED BY <1>4, <1>5, <2>1
<1>7. p + V[0] + U[0] <= E
  <2>1. V[0] \in Int BY <1>4
  <2>2. p + V[0] + Q[0] <= E BY <1>1
  <2>3. QED BY <1>6, <2>1, <2>2
<1>8. ASSUME NEW j \in 1..n PROVE V[j-1] + U[0] <= M[a[j] + e]
  <2>1. V[j-1] \in Int BY <1>4
  <2>2. V[j-1] + Q[0] <= M[a[j] + e] BY <1>1
  <2>3. M[a[j] + e] \in Nat OBVIOUS
  <2>4. QED BY <1>6, <2>1, <2>2, <2>3
<1>9. ASSUME NEW j \in 1..l - 1 PROVE U[j-1] <= M[b2[j] + e]
  <2>1. j - 1 \in 0..l - 1 /\ (j - 1) + 1 = j /\ j + 1 \in 1..l /\ (j + 1) - 1 = j OBVIOUS
  <2>2. U[j-1] = Q[j] BY <1>3, <2>1
  <2>3. Q[j] <= M[b[j + 1] + e] BY <1>1, <2>1
  <2>4. QED BY <2>2, <2>3
<1>10. ASSUME NEW j \in 0..l - 1 PROVE U[j] >= 0
  <2>1. U[j] = Q[j + 1] /\ j + 1 \in 0..l BY <1>3
  <2>2. QED BY <1>1, <2>1
<1>11. /\ \A j \in 0..n : V[j] >= 0 /\ W[j] <= V[j]
       /\ p + W[0] = r
  BY <1>1
<1>12. Tally(n, l - 1, g, w, a, h2, b2, p, r, e, M, E) BY <1>1, <1>3, <1>7, <1>8, <1>9, <1>10, <1>11 DEF Tally
<1>13. QED BY <1>12

\* The oldest order leaves and is filled, no more than whole.
Sent(n, l, g, w, a, h, b, r, e, M, n2, l2, g2, w2, a2, h2, b2, r2) ==
  /\ n \in Nat /\ l \in Nat \ {0} /\ r \in Int /\ r2 \in Int
  /\ \A j \in 1..n : M[a[j] + e] \in Nat
  /\ M[b[1] + e] \in Nat /\ h[1] \in Nat
  /\ n2 = n + 1 /\ l2 = l - 1
  /\ \A j \in 1..l - 1 : h2[j] = h[j + 1] /\ b2[j] = b[j + 1]
  /\ \A j \in 1..n : g2[j] = g[j] /\ w2[j] = w[j] /\ a2[j] = a[j]
  /\ g2[n + 1] \in Nat /\ w2[n + 1] \in Int
  /\ g2[n + 1] <= h[1] /\ w2[n + 1] <= g2[n + 1]
  /\ a2[n + 1] = b[1] /\ r2 = r + w2[n + 1]

\* A tally with an order that became a fill.
LEMMA TallySent ==
  ASSUME NEW n, NEW l, NEW g, NEW w, NEW a, NEW h, NEW b, NEW p \in Int, NEW r, NEW e, NEW M,
         NEW E \in Nat, NEW n2, NEW l2, NEW g2, NEW w2, NEW a2, NEW h2, NEW b2, NEW r2,
         Tally(n, l, g, w, a, h, b, p, r, e, M, E),
         Sent(n, l, g, w, a, h, b, r, e, M, n2, l2, g2, w2, a2, h2, b2, r2)
  PROVE  Tally(n2, l2, g2, w2, a2, h2, b2, p, r2, e, M, E)
<1>a. /\ n \in Nat /\ l \in Nat \ {0} /\ r \in Int /\ r2 \in Int
      /\ \A j \in 1..n : M[a[j] + e] \in Nat
      /\ M[b[1] + e] \in Nat /\ h[1] \in Nat
      /\ n2 = n + 1 /\ l2 = l - 1
      /\ \A j \in 1..l - 1 : h2[j] = h[j + 1] /\ b2[j] = b[j + 1]
      /\ \A j \in 1..n : g2[j] = g[j] /\ w2[j] = w[j] /\ a2[j] = a[j]
      /\ g2[n + 1] \in Nat /\ w2[n + 1] \in Int
      /\ g2[n + 1] <= h[1] /\ w2[n + 1] <= g2[n + 1]
      /\ a2[n + 1] = b[1] /\ r2 = r + w2[n + 1]
  BY DEF Sent
<1> USE <1>a
<1>0. PICK y \in Nat, z \in Int : y = g2[n + 1] /\ z = w2[n + 1] OBVIOUS
<1>1. PICK V, W, Q :
    /\ Behind(V, g, n) /\ Behind(W, w, n) /\ Behind(Q, h, l)
    /\ \A j \in 0..n : V[j] >= 0 /\ W[j] <= V[j]
    /\ \A j \in 0..l : Q[j] >= 0
    /\ p + W[0] = r /\ p + V[0] + Q[0] <= E
    /\ \A j \in 1..n : V[j-1] + Q[0] <= M[a[j] + e]
    /\ \A j \in 1..l : Q[j-1] <= M[b[j] + e]
  BY DEF Tally
<1>2. \A j \in 1..l - 1 : h2[j] = h[j + 1] OBVIOUS
<1>3. PICK U : Behind(U, h2, l - 1) /\ \A j \in 0..l - 1 : U[j] = Q[j + 1]
  BY <1>1, <1>2, BehindTail
<1>4. /\ V \in [0..n -> Int] /\ W \in [0..n -> Int] /\ Q \in [0..l -> Int]
      /\ V[n] = 0 /\ W[n] = 0
  BY <1>1, Zenon DEF Behind
<1>5. Q[0] = Q[1] + h[1]
  <2>1. \A j \in 1..l : Q[j-1] = Q[j] + h[j] BY <1>1 DEF Behind
  <2>2. 1 \in 1..l /\ 1 - 1 = 0 OBVIOUS
  <2>3. QED BY <2>1, <2>2
<1>6. U[0] = Q[1] /\ Q[1] \in Int /\ Q[0] \in Int /\ Q[1] + y <= Q[0]
  <2>1. U[0] = Q[0 + 1] BY <1>3
  <2>2. y <= h[1] BY <1>0
  <2>3. QED BY <1>4, <1>5, <2>1, <2>2
<1>7. PICK X : Behind(X, g2, n + 1) /\ (\A j \in 0..n : X[j] = V[j] + y) /\ X[n + 1] = 0
  <2>1. \A j \in 1..n : g2[j] = g[j] OBVIOUS
  <2>2. Behind(V, g, n) BY <1>1
  <2>3. g2[n + 1] \in Int OBVIOUS
  <2>4. PICK X : /\ Behind(X, g2, n + 1) /\ \A j \in 0..n : X[j] = V[j] + g2[n + 1]
                 /\ X[n + 1] = 0
    BY ONLY <2>1, <2>2, <2>3, <1>a, BehindAppend
  <2>5. QED BY <1>0, <2>4
<1>8. PICK Y : Behind(Y, w2, n + 1) /\ (\A j \in 0..n : Y[j] = W[j] + z) /\ Y[n + 1] = 0
  <2>1. \A j \in 1..n : w2[j] = w[j] OBVIOUS
  <2>2. Behind(W, w, n) BY <1>1
  <2>3. w2[n + 1] \in Int OBVIOUS
  <2>4. PICK Y : /\ Behind(Y, w2, n + 1) /\ \A j \in 0..n : Y[j] = W[j] + w2[n + 1]
                 /\ Y[n + 1] = 0
    BY ONLY <2>1, <2>2, <2>3, <1>a, BehindAppend
  <2>5. QED BY <1>0, <2>4
<1>9. ASSUME NEW j \in 0..n + 1 PROVE X[j] >= 0 /\ Y[j] <= X[j]
  <2>1. CASE j = n + 1 BY <1>7, <1>8, <2>1
  <2>2. CASE j <= n
    <3>1. j \in 0..n BY <2>2
    <3>2. V[j] \in Int /\ W[j] \in Int BY <1>4, <3>1, Zenon
    <3>3. V[j] >= 0 /\ W[j] <= V[j] BY <1>1, <3>1
    <3>4. X[j] = V[j] + y /\ Y[j] = W[j] + z BY <1>7, <1>8, <3>1
    <3>5. z <= y BY <1>0
    <3>6. QED BY <3>2, <3>3, <3>4, <3>5
  <2>3. QED BY <2>1, <2>2
<1>10. p + Y[0] = r2 /\ p + X[0] + U[0] <= E
  <2>1. V[0] \in Int /\ W[0] \in Int BY <1>4
  <2>2. X[0] = V[0] + y /\ Y[0] = W[0] + z BY <1>7, <1>8
  <2>3. p + W[0] = r /\ p + V[0] + Q[0] <= E BY <1>1
  <2>4. r2 = r + z BY <1>0
  <2>5. QED BY <1>6, <2>1, <2>2, <2>3, <2>4
<1>11. ASSUME NEW j \in 1..n + 1 PROVE X[j-1] + U[0] <= M[a2[j] + e]
  <2>1. CASE j <= n
    <3>1. j \in 1..n /\ j - 1 \in 0..n BY <2>1
    <3>2. V[j-1] \in Int BY <1>4, <3>1
    <3>3. V[j-1] + Q[0] <= M[a[j] + e] BY <1>1, <3>1
    <3>4. M[a[j] + e] \in Nat BY <3>1
    <3>5. X[j-1] = V[j-1] + y BY <1>7, <3>1
    <3>6. a2[j] = a[j] BY <3>1
    <3>7. X[j-1] + U[0] <= M[a[j] + e] BY <1>6, <3>2, <3>3, <3>4, <3>5
    <3>8. QED BY <3>6, <3>7
  <2>2. CASE j = n + 1
    <3>1. j - 1 = n /\ n \in 0..n BY <2>2
    <3>2. X[j-1] = y
      <4>1. X[n] = V[n] + y BY <1>7, <3>1
      <4>2. QED BY <1>4, <3>1, <4>1
    <3>3. Q[0] <= M[b[1] + e]
      <4>1. 1 \in 1..l /\ 1 - 1 = 0 OBVIOUS
      <4>2. QED BY <1>1, <4>1
    <3>4. a2[j] = b[1] BY <2>2
    <3>5. M[b[1] + e] \in Nat OBVIOUS
    <3>6. X[j-1] + U[0] <= M[b[1] + e] BY <1>6, <3>2, <3>3, <3>5
    <3>7. QED BY <3>4, <3>6
  <2>3. QED BY <2>1, <2>2
<1>12. ASSUME NEW j \in 1..l - 1 PROVE U[j-1] <= M[b2[j] + e]
  <2>1. j - 1 \in 0..l - 1 /\ (j - 1) + 1 = j /\ j + 1 \in 1..l /\ (j + 1) - 1 = j OBVIOUS
  <2>2. U[j-1] = Q[j] BY <1>3, <2>1
  <2>3. Q[j] <= M[b[j + 1] + e] BY <1>1, <2>1
  <2>4. QED BY <2>2, <2>3
<1>13. ASSUME NEW j \in 0..l - 1 PROVE U[j] >= 0
  <2>1. U[j] = Q[j + 1] /\ j + 1 \in 0..l BY <1>3
  <2>2. QED BY <1>1, <2>1
<1>14. Tally(n + 1, l - 1, g2, w2, a2, h2, b2, p, r2, e, M, E) BY <1>3, <1>7, <1>8, <1>9, <1>10, <1>11, <1>12, <1>13 DEF Tally
<1>15. QED BY <1>14

\* The mirror learns of the oldest fill.
LEMMA TallyLearned ==
  ASSUME NEW n \in Nat \ {0}, NEW l \in Nat, NEW g, NEW w, NEW a, NEW h, NEW b, NEW p \in Int,
         NEW r \in Int, NEW e, NEW M, NEW E \in Nat,
         Tally(n, l, g, w, a, h, b, p, r, e, M, E),
         g[1] \in Int, w[1] \in Int, w[1] <= g[1],
         NEW g2, NEW w2, NEW a2,
         \A j \in 1..n - 1 : g2[j] = g[j + 1] /\ w2[j] = w[j + 1] /\ a2[j] = a[j + 1],
         NEW p2 \in Int, p2 = p + w[1],
         NEW n2, n2 = n - 1
  PROVE  Tally(n2, l, g2, w2, a2, h, b, p2, r, e, M, E)
<1>1. PICK V, W, Q :
    /\ Behind(V, g, n) /\ Behind(W, w, n) /\ Behind(Q, h, l)
    /\ \A j \in 0..n : V[j] >= 0 /\ W[j] <= V[j]
    /\ \A j \in 0..l : Q[j] >= 0
    /\ p + W[0] = r /\ p + V[0] + Q[0] <= E
    /\ \A j \in 1..n : V[j-1] + Q[0] <= M[a[j] + e]
    /\ \A j \in 1..l : Q[j-1] <= M[b[j] + e]
  BY DEF Tally
<1>2. PICK X : Behind(X, g2, n - 1) /\ \A j \in 0..n - 1 : X[j] = V[j + 1]
  <2>1. \A j \in 1..n - 1 : g2[j] = g[j + 1] OBVIOUS
  <2>2. Behind(V, g, n) BY <1>1
  <2>3. QED BY ONLY <2>1, <2>2, n \in Nat \ {0}, BehindTail
<1>3. PICK Y : Behind(Y, w2, n - 1) /\ \A j \in 0..n - 1 : Y[j] = W[j + 1]
  <2>1. \A j \in 1..n - 1 : w2[j] = w[j + 1] OBVIOUS
  <2>2. Behind(W, w, n) BY <1>1
  <2>3. QED BY ONLY <2>1, <2>2, n \in Nat \ {0}, BehindTail
<1>4. V \in [0..n -> Int] /\ W \in [0..n -> Int] /\ Q \in [0..l -> Int]
  BY <1>1, Zenon DEF Behind
<1>5. V[0] = V[1] + g[1] /\ W[0] = W[1] + w[1]
  <2>1. \A j \in 1..n : V[j-1] = V[j] + g[j] /\ W[j-1] = W[j] + w[j] BY <1>1, Zenon DEF Behind
  <2>2. 1 \in 1..n /\ 1 - 1 = 0 OBVIOUS
  <2>3. QED BY <2>1, <2>2
<1>6. X[0] = V[1] /\ Y[0] = W[1]
  <2>1. X[0] = V[0 + 1] /\ Y[0] = W[0 + 1] BY <1>2, <1>3
  <2>2. QED BY <2>1
<1>7. p2 + Y[0] = r /\ p2 + X[0] + Q[0] <= E
  <2>1. V[0] \in Int /\ W[0] \in Int /\ V[1] \in Int /\ W[1] \in Int /\ Q[0] \in Int BY <1>4
  <2>2. p + W[0] = r /\ p + V[0] + Q[0] <= E BY <1>1
  <2>3. QED BY <1>5, <1>6, <2>1, <2>2
<1>8. ASSUME NEW j \in 0..n - 1 PROVE X[j] >= 0 /\ Y[j] <= X[j]
  <2>1. X[j] = V[j + 1] /\ Y[j] = W[j + 1] /\ j + 1 \in 0..n BY <1>2, <1>3
  <2>2. QED BY <1>1, <2>1
<1>9. ASSUME NEW j \in 1..n - 1 PROVE X[j-1] + Q[0] <= M[a2[j] + e]
  <2>1. j - 1 \in 0..n - 1 /\ (j - 1) + 1 = j /\ j + 1 \in 1..n /\ (j + 1) - 1 = j OBVIOUS
  <2>2. X[j-1] = V[j] BY <1>2, <2>1
  <2>3. V[j] + Q[0] <= M[a[j + 1] + e] BY <1>1, <2>1
  <2>4. a2[j] = a[j + 1] OBVIOUS
  <2>5. QED BY <2>2, <2>3, <2>4
<1>10. Tally(n - 1, l, g2, w2, a2, h, b, p2, r, e, M, E) BY <1>1, <1>2, <1>3, <1>7, <1>8, <1>9 DEF Tally
<1>11. QED BY <1>10

\* What a tally bounds.
LEMMA TallyBounds ==
  ASSUME NEW n \in Nat, NEW l \in Nat, NEW g, NEW w, NEW a, NEW h, NEW b, NEW p \in Int,
         NEW r \in Int, NEW e, NEW M, NEW E \in Nat,
         Tally(n, l, g, w, a, h, b, p, r, e, M, E)
  PROVE  p <= E /\ r <= E
<1>1. PICK V, W, Q :
    /\ Behind(V, g, n) /\ Behind(W, w, n) /\ Behind(Q, h, l)
    /\ \A j \in 0..n : V[j] >= 0 /\ W[j] <= V[j]
    /\ \A j \in 0..l : Q[j] >= 0
    /\ p + W[0] = r /\ p + V[0] + Q[0] <= E
    /\ \A j \in 1..n : V[j-1] + Q[0] <= M[a[j] + e]
    /\ \A j \in 1..l : Q[j-1] <= M[b[j] + e]
  BY DEF Tally
<1>2. V \in [0..n -> Int] /\ W \in [0..n -> Int] /\ Q \in [0..l -> Int]
  BY <1>1 DEF Behind
<1>3. 0 \in 0..n /\ 0 \in 0..l OBVIOUS
<1>4. V[0] \in Int /\ W[0] \in Int /\ Q[0] \in Int BY <1>2, <1>3
<1>5. V[0] >= 0 /\ W[0] <= V[0] /\ Q[0] >= 0 BY <1>1, <1>3
<1>6. p + W[0] = r /\ p + V[0] + Q[0] <= E BY <1>1
<1>7. QED BY <1>4, <1>5, <1>6

\* An order that does not add in this direction.
LEMMA TallyOther ==
  ASSUME NEW n \in Nat, NEW l \in Nat, NEW g, NEW w, NEW a, NEW h, NEW b, NEW p \in Int,
         NEW r \in Int, NEW e, NEW M, NEW E \in Nat,
         Tally(n, l, g, w, a, h, b, p, r, e, M, E),
         NEW h2, NEW b2,
         \A j \in 1..l : h2[j] = h[j] /\ b2[j] = b[j],
         h2[l + 1] = 0, M[b2[l + 1] + e] \in Nat,
         NEW l2, l2 = l + 1
  PROVE  Tally(n, l2, g, w, a, h2, b2, p, r, e, M, E)
<1>1. PICK V, W, Q :
    /\ Behind(V, g, n) /\ Behind(W, w, n) /\ Behind(Q, h, l)
    /\ \A j \in 0..n : V[j] >= 0 /\ W[j] <= V[j]
    /\ \A j \in 0..l : Q[j] >= 0
    /\ p + W[0] = r /\ p + V[0] + Q[0] <= E
    /\ \A j \in 1..n : V[j-1] + Q[0] <= M[a[j] + e]
    /\ \A j \in 1..l : Q[j-1] <= M[b[j] + e]
  BY DEF Tally
<1>2. Q \in [0..l -> Int] /\ Q[l] = 0 BY <1>1 DEF Behind
<1>3. PICK U : /\ Behind(U, h2, l + 1) /\ \A j \in 0..l : U[j] = Q[j]
               /\ U[l + 1] = 0
  <2>1. \A j \in 1..l : h2[j] = h[j] OBVIOUS
  <2>2. Behind(Q, h, l) BY <1>1
  <2>3. h2[l + 1] \in Int OBVIOUS
  <2>4. PICK U : /\ Behind(U, h2, l + 1) /\ \A j \in 0..l : U[j] = Q[j] + h2[l + 1]
                 /\ U[l + 1] = 0
    BY ONLY <2>1, <2>2, <2>3, l \in Nat, BehindAppend
  <2>5. ASSUME NEW j \in 0..l PROVE U[j] = Q[j]
    <3>1. U[j] = Q[j] + h2[l + 1] BY <2>4
    <3>2. h2[l + 1] = 0 /\ Q[j] \in Int BY <1>2
    <3>3. QED BY <3>1, <3>2
  <2>6. QED BY <2>4, <2>5
<1>4. U[0] = Q[0] BY <1>3
<1>5. ASSUME NEW j \in 0..l + 1 PROVE U[j] >= 0
  <2>1. CASE j = l + 1 BY <1>3, <2>1
  <2>2. CASE j <= l
    <3>1. j \in 0..l BY <2>2
    <3>2. QED BY <1>1, <1>3, <3>1
  <2>3. QED BY <2>1, <2>2
<1>6. ASSUME NEW j \in 1..l + 1 PROVE U[j-1] <= M[b2[j] + e]
  <2>1. CASE j <= l
    <3>1. j \in 1..l /\ j - 1 \in 0..l BY <2>1
    <3>2. U[j-1] = Q[j-1] BY <1>3, <3>1
    <3>3. Q[j-1] <= M[b[j] + e] BY <1>1, <3>1
    <3>4. b2[j] = b[j] BY <3>1
    <3>5. QED BY <3>2, <3>3, <3>4
  <2>2. CASE j = l + 1
    <3>1. j - 1 = l /\ l \in 0..l BY <2>2
    <3>2. U[j-1] = 0 BY <1>2, <1>3, <3>1
    <3>3. M[b2[j] + e] \in Nat BY <2>2
    <3>4. QED BY <3>2, <3>3
  <2>3. QED BY <2>1, <2>2
<1>7. p + V[0] + U[0] <= E /\ \A j \in 1..n : V[j-1] + U[0] <= M[a[j] + e]
  BY <1>1, <1>4
<1>8. p + W[0] = r /\ \A j \in 0..n : V[j] >= 0 /\ W[j] <= V[j] BY <1>1
<1>9. Tally(n, l + 1, g, w, a, h2, b2, p, r, e, M, E) BY <1>1, <1>3, <1>5, <1>6, <1>7, <1>8 DEF Tally
<1>10. QED BY <1>9

-----------------------------------------------------------------------------
\* What an order or a fill adds to the position of s in direction d, and how it
\* moves it.
Gain(s, d, o) == IF o.sym = s /\ d * o.size > 0 THEN d * o.size ELSE 0
Move(s, d, o) == IF o.sym = s THEN d * o.size ELSE 0
Measures(g, w, a, q, s, d) ==
  \A j \in 1..Len(q) : g[j] = Gain(s, d, q[j]) /\ w[j] = Move(s, d, q[j]) /\ a[j] = q[j].age
Fills == [sym : Symbols, size : Int, age : 0..Lag]
Pending == [sym : Symbols, size : Int \ {0}, reduce : BOOLEAN, age : 0..Lag]
Turn(s) == IF s \in evaluated THEN 1 ELSE 0
Due == [k \in Nat |-> k * Biggest]
Weighed(s, d) ==
  \E g, w, a, h, x, b :
    /\ Measures(g, w, a, news, s, d) /\ Measures(h, x, b, queue, s, d)
    /\ Tally(Len(news), Len(queue), g, w, a, h, b, d * position[s], d * real[s], Turn(s), Due,
             Chance!Exposure)
ExposureInv ==
  /\ version \in Strategies /\ evaluated \in SUBSET Symbols
  /\ position \in [Symbols -> Int] /\ real \in [Symbols -> Int]
  /\ news \in Seq(Fills) /\ queue \in Seq(Pending)
  /\ \A s \in Symbols, d \in {1, -1} : Weighed(s, d)

\* An order of the largest size for every pass.
LEMMA DuePasses ==
  ASSUME Chance!ConstantsOK, version \in Strategies
  PROVE  /\ Passes(Due) /\ Due[1] = Biggest /\ Due[Lag] = Lag * Biggest
         /\ \A k \in Nat : Due[k] \in Nat /\ Due[k] + Due[1] = Due[k + 1]
<1>1. PICK b \in Nat : b = Biggest BY ExposureFits
<1>2. Due = [k \in Nat |-> k * b] BY <1>1 DEF Due
<1>3. \A k \in Nat : k * b \in Nat BY Products
<1>4. \A i, k \in Nat : i <= k => i * b <= k * b BY Products
<1>5. \A k \in Nat : (k + 1) * b = k * b + 1 * b BY Products
<1>6. 0 * b = 0 /\ 1 * b = b OBVIOUS
<1>7. Due \in [Nat -> Nat] BY <1>2, <1>3
<1>8. Due[0] = 0 /\ Due[1] = b BY <1>2, <1>6
<1>9. ASSUME NEW i \in Nat, NEW k \in Nat, i <= k PROVE Due[i] <= Due[k]
  <2>1. Due[i] = i * b /\ Due[k] = k * b BY <1>2
  <2>2. i * b <= k * b BY <1>4, <1>9
  <2>3. QED BY <2>1, <2>2
<1>10. ASSUME NEW k \in Nat PROVE Due[k] + Due[1] = Due[k + 1]
  <2>1. Due[k] = k * b /\ Due[k + 1] = (k + 1) * b BY <1>2
  <2>2. (k + 1) * b = k * b + b BY <1>5, <1>6
  <2>3. QED BY <1>8, <2>1, <2>2
<1>11. \A k \in Nat : Due[k] <= Due[k + 1] BY <1>9
<1>12. Due[Lag] = Lag * b
  <2>1. Lag \in Nat BY ChanceConstants
  <2>2. QED BY <1>2, <2>1
<1>13. \A k \in Nat : Due[k] \in Nat BY <1>7
<1>14. Passes(Due) BY <1>7, <1>8, <1>9, <1>11, Zenon DEF Passes
<1>15. QED BY <1>1, <1>8, <1>10, <1>12, <1>13, <1>14

\* A gain is what moves in the direction, and not less than the move.
LEMMA GainIs ==
  ASSUME NEW s, NEW d \in {1, -1}, NEW o, o.size \in Int
  PROVE  /\ Gain(s, d, o) \in Nat /\ Move(s, d, o) \in Int
         /\ Move(s, d, o) <= Gain(s, d, o)
<1>1. PICK x \in Int : x = d * o.size BY d = 1 \/ d = -1
<1>2. Gain(s, d, o) = (IF o.sym = s /\ x > 0 THEN x ELSE 0) BY <1>1 DEF Gain
<1>3. Move(s, d, o) = (IF o.sym = s THEN x ELSE 0) BY <1>1 DEF Move
<1>4. QED BY <1>2, <1>3

\* Gains, moves and ages of a sequence of orders.
LEMMA MeasuresExist ==
  ASSUME NEW q, NEW s, NEW d
  PROVE  \E g, w, a : Measures(g, w, a, q, s, d)
<1> DEFINE g == [j \in 1..Len(q) |-> Gain(s, d, q[j])]
           w == [j \in 1..Len(q) |-> Move(s, d, q[j])]
           a == [j \in 1..Len(q) |-> q[j].age]
<1>1. \A j \in 1..Len(q) : g[j] = Gain(s, d, q[j]) /\ w[j] = Move(s, d, q[j]) /\ a[j] = q[j].age
  OBVIOUS
<1> HIDE DEF g, w, a
<1>2. QED BY <1>1 DEF Measures

\* Those of a sequence with one more.
LEMMA MeasuresAppend ==
  ASSUME NEW q, NEW r, NEW s, NEW d, NEW g, NEW w, NEW a, Measures(g, w, a, q, s, d),
         NEW g2, NEW w2, NEW a2, Measures(g2, w2, a2, r, s, d), NEW n \in Nat, n = Len(q),
         NEW o, Len(r) = n + 1, r[n + 1] = o, \A j \in 1..n : r[j] = q[j]
  PROVE  /\ \A j \in 1..n : g2[j] = g[j] /\ w2[j] = w[j] /\ a2[j] = a[j]
         /\ g2[n + 1] = Gain(s, d, o) /\ w2[n + 1] = Move(s, d, o) /\ a2[n + 1] = o.age
<1>1. ASSUME NEW j \in 1..n PROVE g2[j] = g[j] /\ w2[j] = w[j] /\ a2[j] = a[j]
  <2>1. j \in 1..Len(q) /\ j \in 1..Len(r) /\ r[j] = q[j] OBVIOUS
  <2>2. QED BY <2>1 DEF Measures
<1>2. n + 1 \in 1..Len(r) OBVIOUS
<1>3. g2[n + 1] = Gain(s, d, o) /\ w2[n + 1] = Move(s, d, o) /\ a2[n + 1] = o.age
  BY <1>2 DEF Measures
<1>4. QED BY <1>1, <1>3

\* Those of a sequence without its first.
LEMMA MeasuresTail ==
  ASSUME NEW q, NEW r, NEW s, NEW d, NEW g, NEW w, NEW a, Measures(g, w, a, q, s, d),
         NEW g2, NEW w2, NEW a2, Measures(g2, w2, a2, r, s, d), NEW n \in Nat \ {0}, n = Len(q),
         Len(r) = n - 1, \A j \in 1..n - 1 : r[j] = q[j + 1]
  PROVE  /\ \A j \in 1..n - 1 : g2[j] = g[j + 1] /\ w2[j] = w[j + 1] /\ a2[j] = a[j + 1]
         /\ g[1] = Gain(s, d, q[1]) /\ w[1] = Move(s, d, q[1]) /\ a[1] = q[1].age
<1>1. ASSUME NEW j \in 1..n - 1 PROVE g2[j] = g[j + 1] /\ w2[j] = w[j + 1] /\ a2[j] = a[j + 1]
  <2>1. j + 1 \in 1..Len(q) /\ j \in 1..Len(r) /\ r[j] = q[j + 1] OBVIOUS
  <2>2. QED BY <2>1 DEF Measures
<1>2. 1 \in 1..Len(q) OBVIOUS
<1>3. QED BY <1>1, <1>2 DEF Measures

\* The start: nothing held, nothing on its way.
LEMMA ExposureStart ==
  ASSUME Chance!ConstantsOK, Chance!Init
  PROVE  ExposureInv
<1>1. /\ version \in Strategies /\ evaluated = {}
      /\ position = [s \in Symbols |-> 0] /\ real = [s \in Symbols |-> 0]
      /\ queue = <<>> /\ news = <<>>
  BY DEF Chance!Init
<1>2. Chance!Exposure \in Nat BY <1>1, ExposureFits
<1>3. Len(queue) = 0 /\ Len(news) = 0 /\ queue \in Seq(Pending) /\ news \in Seq(Fills) BY <1>1
<1>4. ASSUME NEW s \in Symbols, NEW d \in {1, -1} PROVE Weighed(s, d)
  <2>1. d * position[s] = 0 /\ d * real[s] = 0 BY <1>1
  <2>2. PICK E \in Nat : E = Chance!Exposure BY <1>2
  <2>3. PICK g, w, a : Measures(g, w, a, news, s, d) BY MeasuresExist
  <2>4. PICK h, x, b : Measures(h, x, b, queue, s, d) BY MeasuresExist
  <2>5. Tally(0, 0, g, w, a, h, b, 0, 0, Turn(s), Due, E) BY TallyStart
  <2>6. QED BY <1>3, <2>1, <2>2, <2>3, <2>4, <2>5 DEF Weighed
<1>5. QED BY <1>1, <1>3, <1>4 DEF ExposureInv

\* What ExposureInv says of the numbers.
LEMMA ExposureFacts ==
  ASSUME Chance!ConstantsOK, ExposureInv
  PROVE  /\ \A s \in Symbols : /\ position[s] \in Int /\ real[s] \in Int
                               /\ Chance!Abs(position[s]) <= Chance!Exposure
                               /\ Chance!Abs(real[s]) <= Chance!Exposure
         /\ Len(news) \in Nat /\ Len(queue) \in Nat
         /\ \A j \in 1..Len(news) : news[j] \in Fills
         /\ \A j \in 1..Len(queue) : queue[j] \in Pending
<1>1. Len(news) \in Nat /\ Len(queue) \in Nat BY LenProperties DEF ExposureInv
<1>2. ASSUME NEW s \in Symbols
      PROVE  /\ position[s] \in Int /\ real[s] \in Int
             /\ Chance!Abs(position[s]) <= Chance!Exposure
             /\ Chance!Abs(real[s]) <= Chance!Exposure
  <2>1. PICK E \in Nat : E = Chance!Exposure BY ExposureFits DEF ExposureInv
  <2>2. PICK p \in Int, r \in Int : p = position[s] /\ r = real[s] BY DEF ExposureInv
  <2>3. PICK n \in Nat, l \in Nat : n = Len(news) /\ l = Len(queue) BY <1>1
  <2>4. ASSUME NEW d \in {1, -1} PROVE d * p <= E /\ d * r <= E
    <3>1. Weighed(s, d) BY DEF ExposureInv
    <3>2. PICK x \in Int, y \in Int : x = d * p /\ y = d * r BY d = 1 \/ d = -1
    <3>3. PICK g, w, a, h, b : Tally(n, l, g, w, a, h, b, x, y, Turn(s), Due, E)
      BY <2>1, <2>2, <2>3, <3>1, <3>2 DEF Weighed
    <3>4. QED BY <3>2, <3>3, TallyBounds
  <2>5. 1 * p <= E /\ 1 * r <= E /\ (-1) * p <= E /\ (-1) * r <= E BY <2>4
  <2>6. Chance!Abs(p) <= E /\ Chance!Abs(r) <= E BY <2>5 DEF Chance!Abs
  <2>7. QED BY <2>1, <2>2, <2>6
<1>3. QED BY <1>1, <1>2, ElementOfSeq DEF ExposureInv

\* The state of one direction, with names for its parts.
LEMMA WeighedIs ==
  ASSUME Chance!ConstantsOK, ExposureInv, NEW s \in Symbols, NEW d \in {1, -1}
  PROVE  /\ d * position[s] \in Int /\ d * real[s] \in Int /\ Turn(s) \in {0, 1}
         /\ Chance!Exposure \in Nat
         /\ \E g, w, a, h, x, b :
              /\ Measures(g, w, a, news, s, d) /\ Measures(h, x, b, queue, s, d)
              /\ \A j \in 1..Len(news) :
                   g[j] \in Nat /\ w[j] \in Int /\ w[j] <= g[j] /\ a[j] \in 0..Lag
              /\ \A j \in 1..Len(queue) : h[j] \in Nat /\ b[j] \in 0..Lag
              /\ Tally(Len(news), Len(queue), g, w, a, h, b, d * position[s], d * real[s],
                       Turn(s), Due, Chance!Exposure)
<1>1. position[s] \in Int /\ real[s] \in Int BY DEF ExposureInv
<1>2. d * position[s] \in Int /\ d * real[s] \in Int
  <2>1. CASE d = 1 BY <1>1, <2>1
  <2>2. CASE d = -1 BY <1>1, <2>2
  <2>3. QED BY <2>1, <2>2
<1>3. PICK g, w, a, h, x, b :
              /\ Measures(g, w, a, news, s, d) /\ Measures(h, x, b, queue, s, d)
              /\ Tally(Len(news), Len(queue), g, w, a, h, b, d * position[s], d * real[s],
                       Turn(s), Due, Chance!Exposure)
  BY DEF ExposureInv, Weighed
<1>4. PICK n \in Nat, l \in Nat : n = Len(news) /\ l = Len(queue) BY ExposureFacts
<1>5. ASSUME NEW j \in 1..n
      PROVE  g[j] \in Nat /\ w[j] \in Int /\ w[j] <= g[j] /\ a[j] \in 0..Lag
  <2>1. news[j] \in Fills BY <1>4, ExposureFacts
  <2>2. news[j].size \in Int /\ news[j].age \in 0..Lag BY <2>1 DEF Fills
  <2>3. Measures(g, w, a, news, s, d) /\ j \in 1..Len(news) BY <1>3, <1>4
  <2>4. g[j] = Gain(s, d, news[j]) /\ w[j] = Move(s, d, news[j]) /\ a[j] = news[j].age
    BY <2>3 DEF Measures
  <2>5. QED BY <2>2, <2>4, GainIs
<1>6. ASSUME NEW j \in 1..l PROVE h[j] \in Nat /\ b[j] \in 0..Lag
  <2>1. queue[j] \in Pending BY <1>4, ExposureFacts
  <2>2. queue[j].size \in Int /\ queue[j].age \in 0..Lag BY <2>1 DEF Pending
  <2>3. Measures(h, x, b, queue, s, d) /\ j \in 1..Len(queue) BY <1>3, <1>4
  <2>4. h[j] = Gain(s, d, queue[j]) /\ b[j] = queue[j].age BY <2>3 DEF Measures
  <2>5. QED BY <2>2, <2>4, GainIs
<1>7. Chance!Exposure \in Nat BY ExposureFits DEF ExposureInv
<1>8. /\ \A j \in 1..Len(news) :
           g[j] \in Nat /\ w[j] \in Int /\ w[j] <= g[j] /\ a[j] \in 0..Lag
      /\ \A j \in 1..Len(queue) : h[j] \in Nat /\ b[j] \in 0..Lag
  BY <1>4, <1>5, <1>6
<1>9. Turn(s) \in {0, 1} BY DEF Turn
<1>10. QED BY <1>2, <1>3, <1>7, <1>8, <1>9

\* The mirror learns of a fill.
LEMMA ExposureLearn ==
  ASSUME Chance!ConstantsOK, ExposureInv, Chance!Learn
  PROVE  ExposureInv'
<1>1. /\ news # <<>>
      /\ position' = [position EXCEPT ![Head(news).sym] = @ + Head(news).size]
      /\ news' = Tail(news)
      /\ UNCHANGED <<version, evaluated, real, queue>>
  BY DEF Chance!Learn
<1>2. news \in Seq(Fills) /\ queue \in Seq(Pending) /\ position \in [Symbols -> Int]
  BY DEF ExposureInv
<1>3. PICK m : m = news' OBVIOUS
<1>4. m \in Seq(Fills) /\ m = Tail(news) BY <1>1, <1>2, <1>3, Tailed
<1>5. PICK o \in Fills : o = Head(news) BY <1>1, <1>2, Tailed
<1>6. o.sym \in Symbols /\ o.size \in Int BY <1>5 DEF Fills
<1>7. PICK P : P = position' OBVIOUS
<1>8. P = [position EXCEPT ![o.sym] = @ + o.size] BY <1>1, <1>5, <1>7
<1>9. /\ P \in [Symbols -> Int] /\ P[o.sym] = position[o.sym] + o.size
      /\ \A s \in Symbols \ {o.sym} : P[s] = position[s]
  BY <1>2, <1>6, <1>8
<1>10. ASSUME NEW s \in Symbols, NEW d \in {1, -1} PROVE Weighed(s, d)'
  <2>1. PICK n \in Nat \ {0}, l \in Nat : n = Len(news) /\ l = Len(queue)
    BY <1>1, <1>2, Tailed, LenProperties
  <2>2. PICK M : M = Due OBVIOUS
  <2>3. PICK E \in Nat : E = Chance!Exposure BY WeighedIs
  <2>4. E = Chance!Exposure' /\ M = Due'
    BY <1>1, <2>2, <2>3 DEF Chance!Exposure, Due, Biggest
  <2>5. PICK p \in Int, r \in Int, e \in {0, 1} :
          p = d * position[s] /\ r = d * real[s] /\ e = Turn(s)
    BY WeighedIs, Zenon
  <2>6. PICK g, w, a, h, x, b :
              /\ Measures(g, w, a, news, s, d) /\ Measures(h, x, b, queue, s, d)
              /\ \A j \in 1..n :
                   g[j] \in Nat /\ w[j] \in Int /\ w[j] <= g[j] /\ a[j] \in 0..Lag
              /\ \A j \in 1..l : h[j] \in Nat /\ b[j] \in 0..Lag
              /\ Tally(n, l, g, w, a, h, b, p, r, e, M, E)
    BY <2>1, <2>2, <2>3, <2>5, WeighedIs, Zenon
  <2>7. g[1] \in Int /\ w[1] \in Int /\ w[1] <= g[1]
    <3>1. 1 \in 1..n OBVIOUS
    <3>2. QED BY <2>6, <3>1
  <2>8. PICK g2, w2, a2 : Measures(g2, w2, a2, m, s, d) BY MeasuresExist
  <2>9. /\ \A j \in 1..n - 1 : g2[j] = g[j + 1] /\ w2[j] = w[j + 1] /\ a2[j] = a[j + 1]
        /\ w[1] = Move(s, d, Head(news))
    <3>1. Measures(g, w, a, news, s, d) BY <2>6
    <3>2. n = Len(news) /\ Len(m) = n - 1 /\ (\A j \in 1..n - 1 : m[j] = news[j + 1])
      BY <1>1, <1>2, <1>4, <2>1, Tailed
    <3>3. Head(news) = news[1] BY <1>1, <1>2, Tailed
    <3>4. /\ \A j \in 1..n - 1 : g2[j] = g[j + 1] /\ w2[j] = w[j + 1] /\ a2[j] = a[j + 1]
          /\ w[1] = Move(s, d, news[1])
      BY ONLY <2>8, <3>1, <3>2, n \in Nat \ {0}, MeasuresTail
    <3>5. QED BY <3>3, <3>4
  <2>10. PICK p2 \in Int : p2 = d * P[s] /\ p2 = p + w[1]
    <3>1. PICK q \in Int, z \in Int : q = position[s] /\ z = o.size BY <1>2, <1>6
    <3>2. CASE o.sym = s
      <4>1. P[s] = q + z BY <1>9, <3>1, <3>2
      <4>2. w[1] = d * z BY <1>5, <2>9, <3>1, <3>2 DEF Move
      <4>3. p = d * q BY <2>5, <3>1
      <4>4. d * (q + z) = d * q + d * z /\ d * (q + z) \in Int
        <5>1. CASE d = 1 BY <5>1
        <5>2. CASE d = -1 BY <5>2
        <5>3. QED BY <5>1, <5>2
      <4>5. QED BY <4>1, <4>2, <4>3, <4>4
    <3>3. CASE o.sym # s
      <4>1. P[s] = position[s] BY <1>9, <3>3
      <4>2. w[1] = 0 BY <1>5, <2>9, <3>3 DEF Move
      <4>3. p + 0 = p OBVIOUS
      <4>4. QED BY <2>5, <4>1, <4>2, <4>3
    <3>4. QED BY <3>2, <3>3
  <2>11. PICK n2 : n2 = n - 1 OBVIOUS
  <2>12. Tally(n2, l, g2, w2, a2, h, b, p2, r, e, M, E)
    <3>1. Tally(n, l, g, w, a, h, b, p, r, e, M, E) BY <2>6
    <3>2. \A j \in 1..n - 1 : g2[j] = g[j + 1] /\ w2[j] = w[j + 1] /\ a2[j] = a[j + 1]
      BY <2>9
    <3>3. p2 = p + w[1] BY <2>10
    <3>4. QED
      BY ONLY <2>7, <2>11, <3>1, <3>2, <3>3, n \in Nat \ {0}, l \in Nat, p \in Int, r \in Int,
         E \in Nat, p2 \in Int, TallyLearned, SMTT(30)
  <2>13. Len(m) = n - 1 BY <1>1, <1>2, <1>4, <2>1, Tailed
  <2>14. Measures(h, x, b, queue, s, d) BY <2>6
  <2>15. (d * position[s])' = p2 /\ (d * real[s])' = r /\ Turn(s)' = e
    BY <1>1, <1>7, <2>5, <2>10 DEF Turn
  <2>16. /\ Measures(g2, w2, a2, news', s, d) /\ Measures(h, x, b, queue', s, d)
         /\ Tally(Len(news'), Len(queue'), g2, w2, a2, h, b, (d * position[s])',
                  (d * real[s])', Turn(s)', Due', Chance!Exposure')
    BY <1>1, <1>3, <2>1, <2>4, <2>8, <2>11, <2>12, <2>13, <2>14, <2>15, Zenon
  <2>17. QED BY <2>16 DEF Weighed
<1>11. QED BY <1>1, <1>2, <1>3, <1>4, <1>7, <1>9, <1>10 DEF ExposureInv

\* A step that leaves positions and orders alone.
LEMMA ExposureStill ==
  ASSUME ExposureInv, UNCHANGED <<version, evaluated, position, real, queue, news>>
  PROVE  ExposureInv'
<1>1. ASSUME NEW s \in Symbols, NEW d \in {1, -1} PROVE Weighed(s, d)'
  <2>1. Weighed(s, d) BY DEF ExposureInv
  <2>2. Due' = Due /\ Chance!Exposure' = Chance!Exposure /\ Turn(s)' = Turn(s)
    BY DEF Chance!Exposure, Due, Biggest, Turn
  <2>3. QED BY <2>1, <2>2 DEF Weighed
<1>2. QED BY <1>1 DEF ExposureInv

\* A fill is no more than its order and of its direction.
LEMMA FilledIs ==
  ASSUME ExposureInv, NEW o \in Pending, NEW D \in {0, Chance!Filled(o)}
  PROVE  /\ D \in Int
         /\ o.size > 0 => 0 <= D /\ D <= o.size
         /\ o.size < 0 => o.size <= D /\ D <= 0
<1>1. PICK z \in Int, p \in Int : z = o.size /\ p = real[o.sym] BY DEF ExposureInv, Pending
<1>2. PICK x \in Nat, y \in Nat : x = Chance!Abs(z) /\ y = Chance!Abs(p) BY DEF Chance!Abs
<1>3. PICK m \in Nat : m = Chance!Least(x, y) /\ m <= x BY DEF Chance!Least
<1>4. Chance!Filled(o) \in {z, 0, m, -m}
      /\ (Chance!Filled(o) = m => z > 0 \/ Chance!Filled(o) = 0 \/ Chance!Filled(o) = z)
      /\ (Chance!Filled(o) = -m => z <= 0 \/ Chance!Filled(o) = 0 \/ Chance!Filled(o) = z)
  <2>1. CASE ~o.reduce BY <1>1, <2>1 DEF Chance!Filled
  <2>2. CASE o.reduce /\ p * z >= 0 BY <1>1, <2>2 DEF Chance!Filled
  <2>3. CASE o.reduce /\ ~(p * z >= 0)
    <3>1. Chance!Filled(o) = (IF z > 0 THEN 1 ELSE -1) * m
      BY <1>1, <1>2, <1>3, <2>3 DEF Chance!Filled
    <3>2. CASE z > 0
      <4>1. Chance!Filled(o) = 1 * m BY <3>1, <3>2
      <4>2. 1 * m = m OBVIOUS
      <4>3. m = -m => m = 0 OBVIOUS
      <4>4. QED BY <3>2, <4>1, <4>2, <4>3
    <3>3. CASE ~(z > 0)
      <4>1. Chance!Filled(o) = (-1) * m BY <3>1, <3>3
      <4>2. (-1) * m = -m OBVIOUS
      <4>3. m = -m => m = 0 OBVIOUS
      <4>4. QED BY <1>1, <3>3, <4>1, <4>2, <4>3
    <3>4. QED BY <3>2, <3>3
  <2>4. QED BY <2>1, <2>2, <2>3
<1>5. PICK f \in Int : f = Chance!Filled(o)
                       /\ (z > 0 => 0 <= f /\ f <= z) /\ (z < 0 => z <= f /\ f <= 0)
  <2>1. (z > 0 => x = z) /\ (z <= 0 => x = -z) BY <1>2 DEF Chance!Abs
  <2>2. PICK f \in Int : f = Chance!Filled(o) BY <1>4
  <2>3. f \in {z, 0, m, -m} /\ (f = m => z > 0 \/ f = 0 \/ f = z)
        /\ (f = -m => z <= 0 \/ f = 0 \/ f = z)
    BY <1>4, <2>2
  <2>4. QED BY <1>3, <2>1, <2>2, <2>3
<1>6. QED BY <1>1, <1>5

\* A worker sends the oldest order, or skips it.
LEMMA ExposureSend ==
  ASSUME Chance!ConstantsOK, ExposureInv, Chance!Send
  PROVE  ExposureInv'
<1>1. /\ queue # <<>> /\ queue' = Tail(queue)
      /\ UNCHANGED <<version, evaluated, position>>
  BY DEF Chance!Send
<1>2. /\ news \in Seq(Fills) /\ queue \in Seq(Pending) /\ real \in [Symbols -> Int]
      /\ version \in Strategies
  BY DEF ExposureInv
<1>3. PICK o \in Pending : o = Head(queue) /\ o = queue[1] BY <1>1, <1>2, Tailed
<1>4. PICK D \in {0, Chance!Filled(o)} :
         /\ real' = [real EXCEPT ![o.sym] = @ + D]
         /\ news' = IF D = 0 THEN news
                    ELSE Append(news, [sym |-> o.sym, size |-> D, age |-> o.age])
  BY <1>3, Zenon DEF Chance!Send
<1>5. /\ D \in Int
      /\ o.size > 0 => 0 <= D /\ D <= o.size
      /\ o.size < 0 => o.size <= D /\ D <= 0
  BY FilledIs
<1>6. o.sym \in Symbols /\ o.size \in Int /\ o.size # 0 /\ o.age \in 0..Lag BY <1>3 DEF Pending
<1>7. PICK k : k = queue' OBVIOUS
<1>8. k \in Seq(Pending) /\ k = Tail(queue) BY <1>1, <1>2, <1>7, Tailed
<1>9. PICK R : R = real' OBVIOUS
<1>10. /\ R \in [Symbols -> Int] /\ R[o.sym] = real[o.sym] + D
       /\ \A s \in Symbols \ {o.sym} : R[s] = real[s]
  <2>1. R = [real EXCEPT ![o.sym] = @ + D] BY <1>4, <1>9
  <2>2. QED BY <1>2, <1>5, <1>6, <2>1
<1>11. PICK f : f = [sym |-> o.sym, size |-> D, age |-> o.age] BY Zenon
<1>12. f \in Fills /\ f.sym = o.sym /\ f.size = D /\ f.age = o.age
  BY <1>5, <1>6, <1>11 DEF Fills
<1>13. PICK m : m = news' OBVIOUS
<1>14. /\ m \in Seq(Fills)
       /\ D = 0 => m = news
       /\ D # 0 => m = Append(news, f)
  <2>1. CASE D = 0 BY <1>2, <1>4, <1>13, <2>1
  <2>2. CASE D # 0
    <3>1. m = Append(news, f) BY <1>4, <1>11, <1>13, <2>2
    <3>2. QED BY <1>2, <1>12, <2>2, <3>1, Appended
  <2>3. QED BY <2>1, <2>2
<1>15. ASSUME NEW s \in Symbols, NEW d \in {1, -1} PROVE Weighed(s, d)'
  <2>1. PICK n \in Nat, l \in Nat \ {0} : n = Len(news) /\ l = Len(queue)
    BY <1>1, <1>2, Tailed, LenProperties
  <2>2. PICK M : M = Due OBVIOUS
  <2>3. PICK E \in Nat : E = Chance!Exposure BY WeighedIs
  <2>4. E = Chance!Exposure' /\ M = Due'
    BY <1>1, <2>2, <2>3 DEF Chance!Exposure, Due, Biggest
  <2>5. PICK p \in Int, r \in Int, e \in {0, 1} :
          p = d * position[s] /\ r = d * real[s] /\ e = Turn(s)
    BY WeighedIs, Zenon
  <2>6. PICK g, w, a, h, x, b :
              /\ Measures(g, w, a, news, s, d) /\ Measures(h, x, b, queue, s, d)
              /\ \A j \in 1..n :
                   g[j] \in Nat /\ w[j] \in Int /\ w[j] <= g[j] /\ a[j] \in 0..Lag
              /\ \A j \in 1..l : h[j] \in Nat /\ b[j] \in 0..Lag
              /\ Tally(n, l, g, w, a, h, b, p, r, e, M, E)
    BY <2>1, <2>2, <2>3, <2>5, WeighedIs, Zenon
  <2>7. \A i \in Nat : M[i + e] \in Nat
    <3>1. M \in [Nat -> Nat] BY <1>2, <2>2, DuePasses, Zenon DEF Passes
    <3>2. \A i \in Nat : i + e \in Nat OBVIOUS
    <3>3. QED BY <3>1, <3>2
  <2>8. (\A j \in 1..n : M[a[j] + e] \in Nat) /\ M[b[1] + e] \in Nat /\ h[1] \in Nat
    <3>1. \A j \in 1..n : a[j] \in Nat BY <2>6, ChanceConstants
    <3>2. 1 \in 1..l OBVIOUS
    <3>3. b[1] \in Nat /\ h[1] \in Nat BY <2>6, <3>2, ChanceConstants
    <3>4. QED BY <2>7, <3>1, <3>3, Zenon
  <2>9. PICK h2, x2, b2 : Measures(h2, x2, b2, k, s, d) BY MeasuresExist
  <2>10. /\ \A j \in 1..l - 1 : h2[j] = h[j + 1] /\ b2[j] = b[j + 1]
         /\ h[1] = Gain(s, d, o) /\ b[1] = o.age
    <3>1. Measures(h, x, b, queue, s, d) BY <2>6
    <3>2. l = Len(queue) /\ Len(k) = l - 1 /\ (\A j \in 1..l - 1 : k[j] = queue[j + 1])
      BY <1>1, <1>2, <1>8, <2>1, Tailed
    <3>3. /\ \A j \in 1..l - 1 : h2[j] = h[j + 1] /\ b2[j] = b[j + 1]
          /\ h[1] = Gain(s, d, queue[1]) /\ b[1] = queue[1].age
      BY ONLY <2>9, <3>1, <3>2, l \in Nat \ {0}, MeasuresTail
    <3>4. QED BY <1>3, <3>3
  <2>11. PICK l2 : l2 = l - 1 OBVIOUS
  <2>12. Len(k) = l2 BY <1>1, <1>2, <1>8, <2>1, <2>11, Tailed
  <2>13. (d * position[s])' = p /\ Turn(s)' = e BY <1>1, <2>5 DEF Turn
  <2>14. (d * real[s])' = d * R[s] BY <1>9
  <2>15. \A j \in 1..l - 1 : h2[j] = h[j + 1] /\ b2[j] = b[j + 1] BY <2>10
  <2>16. Tally(n, l, g, w, a, h, b, p, r, e, M, E) BY <2>6
  <2>17. CASE D = 0
    <3>1. Tally(n, l2, g, w, a, h2, b2, p, r, e, M, E)
      BY ONLY <2>8, <2>11, <2>15, <2>16, n \in Nat, l \in Nat \ {0}, p \in Int, r \in Int,
         E \in Nat, TallyDropped, SMTT(30)
    <3>2. R[s] = real[s]
      <4>1. real[o.sym] + 0 = real[o.sym] BY <1>2, <1>6
      <4>2. QED BY <1>10, <2>17, <4>1
    <3>3. Measures(g, w, a, news, s, d) BY <2>6
    <3>4. /\ Measures(g, w, a, news', s, d) /\ Measures(h2, x2, b2, queue', s, d)
          /\ Tally(Len(news'), Len(queue'), g, w, a, h2, b2, (d * position[s])',
                  (d * real[s])', Turn(s)', Due', Chance!Exposure')
      BY <1>7, <1>13, <1>14, <2>1, <2>4, <2>5, <2>9, <2>12, <2>13, <2>14, <2>17, <3>1, <3>2, <3>3
    <3>5. QED BY <3>4 DEF Weighed
  <2>18. CASE D # 0
    <3>1. PICK g2, w2, a2 : Measures(g2, w2, a2, m, s, d) BY MeasuresExist
    <3>2. PICK y \in Nat, z \in Int : y = Gain(s, d, f) /\ z = Move(s, d, f) /\ z <= y
      BY <1>5, <1>12, GainIs
    <3>3. n = Len(news) /\ Len(m) = n + 1 /\ m[n + 1] = f /\ \A j \in 1..n : m[j] = news[j]
      <4>1. m = Append(news, f) /\ news \in Seq(Fills) /\ f \in Fills
        BY <1>2, <1>12, <1>14, <2>18
      <4>2. /\ Len(m) = Len(news) + 1 /\ m[Len(news) + 1] = f
            /\ \A j \in 1..Len(news) : m[j] = news[j]
        BY <4>1, Appended
      <4>3. QED BY <2>1, <4>2
    <3>4. /\ \A j \in 1..n : g2[j] = g[j] /\ w2[j] = w[j] /\ a2[j] = a[j]
          /\ g2[n + 1] = y /\ w2[n + 1] = z /\ a2[n + 1] = f.age
      <4>1. Measures(g, w, a, news, s, d) BY <2>6
      <4>2. /\ \A j \in 1..n : g2[j] = g[j] /\ w2[j] = w[j] /\ a2[j] = a[j]
            /\ g2[n + 1] = Gain(s, d, f) /\ w2[n + 1] = Move(s, d, f) /\ a2[n + 1] = f.age
        BY ONLY <3>1, <3>3, <4>1, n \in Nat, MeasuresAppend
      <4>3. QED BY <3>2, <4>2
    <3>5. y <= h[1]
      <4>0. PICK t \in Int, c \in Int : t = o.size /\ c = D BY <1>5, <1>6
      <4>1. PICK u \in Int, v \in Int : u = d * o.size /\ v = d * D /\ (v > 0 => v <= u)
        <5>1. CASE d = 1
          <6>1. 1 * t = t /\ 1 * c = c /\ (c > 0 => c <= t) BY <1>5, <1>6, <4>0
          <6>2. QED BY <4>0, <5>1, <6>1
        <5>2. CASE d = -1
          <6>1. (-1) * t = -t /\ (-1) * c = -c /\ (-c > 0 => -c <= -t) BY <1>5, <1>6, <4>0
          <6>2. QED BY <4>0, <5>2, <6>1
        <5>3. QED BY <5>1, <5>2
      <4>2. y = (IF o.sym = s /\ v > 0 THEN v ELSE 0) BY <1>12, <3>2, <4>1 DEF Gain
      <4>3. h[1] = (IF o.sym = s /\ u > 0 THEN u ELSE 0) BY <2>10, <4>1 DEF Gain
      <4>4. QED BY <4>1, <4>2, <4>3
    <3>6. PICK r2 \in Int : r2 = d * R[s] /\ r2 = r + z
      <4>1. PICK q \in Int, v \in Int : q = real[s] /\ v = D BY <1>2, <1>5
      <4>2. CASE o.sym = s
        <5>1. R[s] = q + v BY <1>10, <4>1, <4>2
        <5>2. z = d * v BY <1>12, <3>2, <4>1, <4>2 DEF Move
        <5>3. d * (q + v) = d * q + d * v /\ d * (q + v) \in Int
          <6>1. CASE d = 1 BY <6>1
          <6>2. CASE d = -1 BY <6>2
          <6>3. QED BY <6>1, <6>2
        <5>4. QED BY <2>5, <4>1, <5>1, <5>2, <5>3
      <4>3. CASE o.sym # s
        <5>1. R[s] = real[s] BY <1>10, <4>3
        <5>2. z = 0 BY <1>12, <3>2, <4>3 DEF Move
        <5>3. r + 0 = r OBVIOUS
        <5>4. QED BY <2>5, <5>1, <5>2, <5>3
      <4>4. QED BY <4>2, <4>3
    <3>7. PICK n2 : n2 = n + 1 OBVIOUS
    <3>8. a2[n + 1] = b[1] BY <1>12, <2>10, <3>4
    <3>9. \A j \in 1..n : g2[j] = g[j] /\ w2[j] = w[j] /\ a2[j] = a[j] BY <3>4
    <3>10. /\ g2[n + 1] \in Nat /\ w2[n + 1] \in Int /\ g2[n + 1] <= h[1]
           /\ w2[n + 1] <= g2[n + 1] /\ r2 = r + w2[n + 1]
      BY <3>2, <3>4, <3>5, <3>6
    <3>14. Sent(n, l, g, w, a, h, b, r, e, M, n2, l2, g2, w2, a2, h2, b2, r2)
      BY ONLY <2>8, <2>11, <2>15, <3>7, <3>8, <3>9, <3>10, n \in Nat, l \in Nat \ {0},
         r \in Int, r2 \in Int DEF Sent
    <3>11. Tally(n2, l2, g2, w2, a2, h2, b2, p, r2, e, M, E)
      BY ONLY <2>16, <3>14, p \in Int, E \in Nat, TallySent
    <3>12. /\ Measures(g2, w2, a2, news', s, d) /\ Measures(h2, x2, b2, queue', s, d)
           /\ Tally(Len(news'), Len(queue'), g2, w2, a2, h2, b2, (d * position[s])',
                  (d * real[s])', Turn(s)', Due', Chance!Exposure')
      BY <1>7, <1>13, <2>4, <2>9, <2>12, <2>13, <2>14, <3>1, <3>3, <3>6, <3>7, <3>11
    <3>13. QED BY <3>12 DEF Weighed
  <2>19. QED BY <2>17, <2>18
<1>16. QED BY <1>1, <1>2, <1>7, <1>8, <1>9, <1>10, <1>13, <1>14, <1>15 DEF ExposureInv

\* A pass makes each age one more.
LEMMA AgedIs ==
  ASSUME Chance!ConstantsOK, NEW q, NEW n \in Nat, n = Len(q), DOMAIN q = 1..n,
         \A j \in 1..n : q[j].age \in Nat /\ q[j].age < Lag,
         NEW m, m = Chance!Aged(q)
  PROVE  /\ Len(m) = n /\ DOMAIN m = 1..n
         /\ \A j \in 1..n : m[j] = [q[j] EXCEPT !.age = q[j].age + 1]
<1>1. Lag \in Nat /\ Chance!AgeCap \in Nat /\ Lag <= Chance!AgeCap BY ChanceConstants
<1>2. ASSUME NEW j \in 1..n PROVE Chance!Older(q[j].age) = q[j].age + 1
  <2>1. PICK y \in Nat, cap \in Nat : y = q[j].age /\ cap = Chance!AgeCap /\ y + 1 <= cap
    BY <1>1
  <2>2. Chance!Older(y) = (IF y + 1 < cap THEN y + 1 ELSE cap)
    BY <2>1 DEF Chance!Older, Chance!Least
  <2>3. QED BY <2>1, <2>2
<1>3. m = [i \in 1..n |-> [q[i] EXCEPT !.age = Chance!Older(q[i].age)]]
  BY DEF Chance!Aged
<1>4. DOMAIN m = 1..n /\ \A j \in 1..n : m[j] = [q[j] EXCEPT !.age = Chance!Older(q[j].age)]
  BY <1>3
<1>5. Len(m) = n BY <1>3
<1>6. QED BY <1>2, <1>4, <1>5

\* The next pass: everything on its way is a pass older, every symbol has a turn.
LEMMA ExposurePass ==
  ASSUME Chance!ConstantsOK, ExposureInv, Chance!NextPass
  PROVE  ExposureInv'
<1>1. /\ \A i \in DOMAIN queue : queue[i].age < Lag
      /\ \A i \in DOMAIN news : news[i].age < Lag
      /\ evaluated' = {}
      /\ queue' = Chance!Aged(queue) /\ news' = Chance!Aged(news)
      /\ UNCHANGED <<version, position, real>>
  BY DEF Chance!NextPass
<1>2. PICK n \in Nat, l \in Nat : /\ n = Len(news) /\ l = Len(queue)
                                  /\ DOMAIN news = 1..n /\ DOMAIN queue = 1..l
  BY LenProperties DEF ExposureInv
<1>3. Lag \in Nat BY ChanceConstants
<1>4. \A j \in 1..n : /\ news[j] \in Fills /\ news[j].sym \in Symbols /\ news[j].size \in Int
                      /\ news[j].age \in 0..Lag /\ news[j].age < Lag
  <2>1. \A j \in 1..n : news[j] \in Fills BY <1>2, ExposureFacts
  <2>2. QED BY <1>1, <1>2, <2>1 DEF Fills
<1>5. \A j \in 1..l : /\ queue[j] \in Pending /\ queue[j].sym \in Symbols
                      /\ queue[j].size \in Int \ {0} /\ queue[j].reduce \in BOOLEAN
                      /\ queue[j].age \in 0..Lag /\ queue[j].age < Lag
  <2>1. \A j \in 1..l : queue[j] \in Pending BY <1>2, ExposureFacts
  <2>2. QED BY <1>1, <1>2, <2>1 DEF Pending
<1>6. PICK m : m = news' OBVIOUS
<1>7. PICK k : k = queue' OBVIOUS
<1>8. /\ Len(m) = n /\ DOMAIN m = 1..n
      /\ \A j \in 1..n : m[j] = [news[j] EXCEPT !.age = news[j].age + 1]
  <2>1. \A j \in 1..n : news[j].age \in Nat /\ news[j].age < Lag BY <1>3, <1>4
  <2>2. QED BY <1>1, <1>2, <1>6, <2>1, AgedIs
<1>9. /\ Len(k) = l /\ DOMAIN k = 1..l
      /\ \A j \in 1..l : k[j] = [queue[j] EXCEPT !.age = queue[j].age + 1]
  <2>1. \A j \in 1..l : queue[j].age \in Nat /\ queue[j].age < Lag BY <1>3, <1>5
  <2>2. QED BY <1>1, <1>2, <1>7, <2>1, AgedIs
<1>10. ASSUME NEW j \in 1..n
       PROVE  /\ m[j] \in Fills /\ m[j].sym = news[j].sym /\ m[j].size = news[j].size
              /\ m[j].age = news[j].age + 1
  <2>1. PICK y \in Fills : y = news[j] BY <1>4
  <2>2. PICK z \in 0..Lag : z = news[j].age + 1 BY <1>3, <1>4
  <2>3. m[j] = [y EXCEPT !.age = z] BY <1>8, <2>1, <2>2
  <2>4. m[j] \in Fills /\ m[j].sym = y.sym /\ m[j].size = y.size /\ m[j].age = z
    BY <2>3 DEF Fills
  <2>5. QED BY <2>1, <2>2, <2>4
<1>11. ASSUME NEW j \in 1..l
       PROVE  /\ k[j] \in Pending /\ k[j].sym = queue[j].sym /\ k[j].size = queue[j].size
              /\ k[j].age = queue[j].age + 1
  <2>1. PICK y \in Pending : y = queue[j] BY <1>5
  <2>2. PICK z \in 0..Lag : z = queue[j].age + 1 BY <1>3, <1>5
  <2>3. k[j] = [y EXCEPT !.age = z] BY <1>9, <2>1, <2>2
  <2>4. k[j] \in Pending /\ k[j].sym = y.sym /\ k[j].size = y.size /\ k[j].age = z
    BY <2>3 DEF Pending
  <2>5. QED BY <2>1, <2>2, <2>4
<1>12. m \in Seq(Fills) /\ k \in Seq(Pending)
  <2>1. m = [j \in 1..n |-> m[j]] /\ k = [j \in 1..l |-> k[j]]
    <3>1. m = Chance!Aged(news) /\ k = Chance!Aged(queue) BY <1>1, <1>6, <1>7
    <3>2. QED BY <1>2, <3>1 DEF Chance!Aged
  <2>2. \A j \in 1..n : m[j] \in Fills BY <1>10
  <2>3. \A j \in 1..l : k[j] \in Pending BY <1>11
  <2>4. m \in [1..n -> Fills] BY <2>1, <2>2
  <2>5. k \in [1..l -> Pending] BY <2>1, <2>3
  <2>6. QED BY <2>4, <2>5, SeqDef
<1>13. ASSUME NEW s \in Symbols, NEW d \in {1, -1} PROVE Weighed(s, d)'
  <2>1. PICK M : M = Due OBVIOUS
  <2>2. PICK E \in Nat : E = Chance!Exposure BY WeighedIs
  <2>3. E = Chance!Exposure' /\ M = Due'
    BY <1>1, <2>1, <2>2 DEF Chance!Exposure, Due, Biggest
  <2>4. PICK p \in Int, r \in Int, e \in {0, 1} :
          p = d * position[s] /\ r = d * real[s] /\ e = Turn(s)
    BY WeighedIs, Zenon
  <2>5. PICK g, w, a, h, x, b :
              /\ Measures(g, w, a, news, s, d) /\ Measures(h, x, b, queue, s, d)
              /\ Tally(n, l, g, w, a, h, b, p, r, e, M, E)
    BY <1>2, <2>1, <2>2, <2>4, WeighedIs, Zenon
  <2>6. PICK g2, w2, a2 : Measures(g2, w2, a2, m, s, d) BY MeasuresExist
  <2>7. PICK h2, x2, b2 : Measures(h2, x2, b2, k, s, d) BY MeasuresExist
  <2>8. ASSUME NEW j \in 1..n
        PROVE  /\ g2[j] = g[j] /\ w2[j] = w[j] /\ a[j] \in Nat /\ a2[j] = a[j] + 1
    <3>1. g[j] = Gain(s, d, news[j]) /\ w[j] = Move(s, d, news[j]) /\ a[j] = news[j].age
      BY <1>2, <2>5 DEF Measures
    <3>2. g2[j] = Gain(s, d, m[j]) /\ w2[j] = Move(s, d, m[j]) /\ a2[j] = m[j].age
      BY <1>8, <2>6 DEF Measures
    <3>3. Gain(s, d, m[j]) = Gain(s, d, news[j]) /\ Move(s, d, m[j]) = Move(s, d, news[j])
      BY <1>10 DEF Gain, Move
    <3>4. QED BY <1>3, <1>4, <1>10, <3>1, <3>2, <3>3
  <2>9. ASSUME NEW j \in 1..l
        PROVE  /\ h2[j] = h[j] /\ b[j] \in Nat /\ b2[j] = b[j] + 1
    <3>1. h[j] = Gain(s, d, queue[j]) /\ b[j] = queue[j].age
      BY <1>2, <2>5 DEF Measures
    <3>2. h2[j] = Gain(s, d, k[j]) /\ b2[j] = k[j].age
      BY <1>9, <2>7 DEF Measures
    <3>3. Gain(s, d, k[j]) = Gain(s, d, queue[j])
      BY <1>11 DEF Gain
    <3>4. QED BY <1>3, <1>5, <1>11, <3>1, <3>2, <3>3
  <2>10. Passes(M) BY <2>1, DuePasses DEF ExposureInv
  <2>11. Older(n, l, g, w, a, h, b, e, M, g2, w2, a2, h2, b2, 0)
    <3>1. \A j \in 1..n : a[j] \in Nat /\ a2[j] \in Nat /\ a[j] + e <= a2[j] + 0 BY <2>8
    <3>2. \A j \in 1..l : b[j] \in Nat /\ b2[j] \in Nat /\ b[j] + e <= b2[j] + 0 BY <2>9
    <3>3. \A j \in 1..n : g2[j] = g[j] /\ w2[j] = w[j] BY <2>8
    <3>4. \A j \in 1..l : h2[j] = h[j] BY <2>9
    <3>5. QED BY <2>10, <3>1, <3>2, <3>3, <3>4 DEF Older
  <2>12. Tally(n, l, g2, w2, a2, h2, b2, p, r, 0, M, E) BY <2>5, <2>11, TallyAged
  <2>13. (d * position[s])' = p /\ (d * real[s])' = r /\ Turn(s)' = 0
    BY <1>1, <2>4 DEF Turn
  <2>14. /\ Measures(g2, w2, a2, news', s, d) /\ Measures(h2, x2, b2, queue', s, d)
         /\ Tally(Len(news'), Len(queue'), g2, w2, a2, h2, b2, (d * position[s])',
                  (d * real[s])', Turn(s)', Due', Chance!Exposure')
    BY <1>6, <1>7, <1>8, <1>9, <2>3, <2>6, <2>7, <2>12, <2>13
  <2>15. QED BY <2>14 DEF Weighed
<1>14. QED BY <1>1, <1>6, <1>7, <1>12, <1>13 DEF ExposureInv

\* The order of an approved chance.
LEMMA OrderIs ==
  ASSUME Chance!ConstantsOK, ExposureInv, NEW c, ChanceIs(c), c.side \in {1, -1},
         Chance!SideAllowed(c), Chance!CapAllows(c), NEW d \in {1, -1}, NEW s
  PROVE  /\ Chance!Order(c) \in Pending /\ Chance!Order(c).age = 0
         /\ Chance!Order(c).sym = c.sym
         /\ Gain(s, d, Chance!Order(c)) \in Nat
         /\ Gain(s, d, Chance!Order(c)) <= Biggest
         /\ s # c.sym => Gain(s, d, Chance!Order(c)) = 0
         /\ \/ Gain(s, d, Chance!Order(c)) = 0
            \/ d * position[c.sym] + Gain(s, d, Chance!Order(c)) <= CapAll
<1>1. c.sym \in Symbols BY DEF ChanceIs
<1>2. PICK k \in Nat \ {0} : /\ Chance!SignedSize(c) = c.side * k /\ k <= Biggest
                             /\ c.side * position[c.sym] + k <= CapAll
  BY <1>1, Approved, ExposureFacts, Zenon DEF ExposureInv
<1>3. PICK b \in Nat, f \in {1, -1}, p \in Int, cap \in Nat :
         b = Biggest /\ f = c.side /\ p = position[c.sym] /\ cap = CapAll
  BY <1>1, ExposureFits, Zenon DEF ExposureInv
<1>4. PICK z \in Int \ {0} : z = f * k
  <2>1. CASE f = 1 BY <2>1
  <2>2. CASE f = -1 BY <2>2
  <2>3. QED BY <2>1, <2>2
<1>5. PICK o : o = Chance!Order(c) OBVIOUS
<1>6. o = [sym |-> c.sym, size |-> z, reduce |-> Chance!CloseLevel(c), age |-> 0]
  BY <1>2, <1>3, <1>4, <1>5 DEF Chance!Order
<1>7. Chance!CloseLevel(c) \in BOOLEAN BY DEF Chance!CloseLevel
<1>8. 0 \in 0..Lag BY ChanceConstants
<1>9. o \in Pending /\ o.age = 0 /\ o.sym = c.sym /\ o.size = z
  BY <1>1, <1>6, <1>7, <1>8 DEF Pending
<1>10. CASE d = f
  <2>1. d * z = k
    <3>1. CASE f = 1 BY <1>4, <1>10, <3>1
    <3>2. CASE f = -1 BY <1>4, <1>10, <3>2
    <3>3. QED BY <3>1, <3>2
  <2>2. Gain(s, d, o) = (IF s = c.sym THEN k ELSE 0)
    <3>1. k > 0 OBVIOUS
    <3>2. QED BY <1>9, <2>1, <3>1 DEF Gain
  <2>3. PICK t \in Int : t = d * p /\ t + k <= cap
    <3>1. PICK t \in Int : t = d * p
      <4>1. CASE d = 1 BY <4>1
      <4>2. CASE d = -1 BY <4>2
      <4>3. QED BY <4>1, <4>2
    <3>2. QED BY <1>2, <1>3, <1>10, <3>1
  <2>4. QED BY <1>2, <1>3, <1>5, <1>9, <2>2, <2>3
<1>11. CASE d # f
  <2>1. d * z = -k
    <3>1. CASE f = 1
      <4>1. d = -1 BY <1>11, <3>1
      <4>2. z = k BY <1>4, <3>1
      <4>3. QED BY <4>1, <4>2
    <3>2. CASE f = -1
      <4>1. d = 1 BY <1>11, <3>2
      <4>2. z = -k BY <1>4, <3>2
      <4>3. QED BY <4>1, <4>2
    <3>3. QED BY <3>1, <3>2
  <2>2. ~(-k > 0) OBVIOUS
  <2>3. Gain(s, d, o) = 0 BY <1>9, <2>1, <2>2 DEF Gain
  <2>4. QED BY <1>3, <1>5, <1>9, <2>3
<1>12. QED BY <1>10, <1>11

\* A chance of a symbol in its turn, approved from the mirror.
LEMMA ExposureChance ==
  ASSUME Chance!ConstantsOK, ExposureInv, NEW s \in Symbols, Chance!HandleChance(s)
  PROVE  ExposureInv'
<1>1. PICK side \in {Chance!Buy, Chance!Sell}, level \in ChanceLevels, size \in ChanceSizes,
           net \in {Chance!Buy, 0, Chance!Sell}, record \in Records, gap \in TimeGaps,
           dropped \in BOOLEAN :
        LET c == [sym |-> s, side |-> side, level |-> level, size |-> size,
                  net |-> net, record |-> record]
        IN  /\ Chance!Approves(c, gap)
            /\ queue' = IF dropped THEN queue ELSE Append(queue, Chance!Order(c))
  BY DEF Chance!HandleChance
<1>2. PICK c : c = [sym |-> s, side |-> side, level |-> level, size |-> size,
                    net |-> net, record |-> record]
  BY Zenon
<1>3. /\ s \notin evaluated /\ evaluated' = evaluated \cup {s}
      /\ UNCHANGED <<version, position, real, news>>
  BY DEF Chance!HandleChance
<1>4. /\ Chance!SideAllowed(c) /\ Chance!CapAllows(c)
      /\ queue' = IF dropped THEN queue ELSE Append(queue, Chance!Order(c))
  BY <1>1, <1>2 DEF Chance!Approves
<1>5. ChanceIs(c) /\ c.sym = s
  BY <1>2 DEF ChanceIs, Chance!Buy, Chance!Sell
<1>6. PICK o : o = Chance!Order(c) OBVIOUS
<1>7. c.side \in {1, -1} BY <1>5 DEF ChanceIs
<1>8. \A t \in Symbols, d \in {1, -1} :
        /\ o \in Pending /\ o.age = 0 /\ o.sym = s
        /\ Gain(t, d, o) \in Nat /\ Gain(t, d, o) <= Biggest
        /\ t # s => Gain(t, d, o) = 0
        /\ \/ Gain(t, d, o) = 0
           \/ d * position[s] + Gain(t, d, o) <= CapAll
  BY <1>4, <1>5, <1>6, <1>7, OrderIs
<1>9. /\ news \in Seq(Fills) /\ queue \in Seq(Pending) /\ version \in Strategies
      /\ evaluated \in SUBSET Symbols
  BY DEF ExposureInv
<1>10. o \in Pending /\ o.age = 0 /\ o.sym = s BY <1>8
<1>11. PICK k : k = queue' OBVIOUS
<1>12. k = (IF dropped THEN queue ELSE Append(queue, o)) BY <1>4, <1>6, <1>11
<1>13. k \in Seq(Pending)
  <2>1. CASE dropped BY <1>9, <1>12, <2>1
  <2>2. CASE ~dropped
    <3>1. k = Append(queue, o) BY <1>12, <2>2
    <3>2. QED BY <1>9, <1>10, <3>1, Appended
  <2>3. QED BY <2>1, <2>2
<1>14. PICK n \in Nat, l \in Nat : n = Len(news) /\ l = Len(queue)
  BY <1>9, LenProperties
<1>15. PICK lag \in Nat, B \in Nat : /\ lag = Lag /\ B = Biggest
  BY <1>9, ChanceConstants, ExposureFits, Zenon
<1>16. ASSUME NEW t \in Symbols, NEW d \in {1, -1} PROVE Weighed(t, d)'
  <2>1. PICK M : M = Due OBVIOUS
  <2>2. PICK E \in Nat : E = Chance!Exposure BY WeighedIs
  <2>3. E = Chance!Exposure' /\ M = Due'
    BY <1>3, <2>1, <2>2 DEF Chance!Exposure, Due, Biggest
  <2>4. PICK p \in Int, r \in Int, e \in {0, 1} :
          p = d * position[t] /\ r = d * real[t] /\ e = Turn(t)
    BY WeighedIs, Zenon
  <2>5. PICK g, w, a, h, x, b :
              /\ Measures(g, w, a, news, t, d) /\ Measures(h, x, b, queue, t, d)
              /\ \A j \in 1..n :
                   g[j] \in Nat /\ w[j] \in Int /\ w[j] <= g[j] /\ a[j] \in 0..Lag
              /\ \A j \in 1..l : h[j] \in Nat /\ b[j] \in 0..Lag
              /\ Tally(n, l, g, w, a, h, b, p, r, e, M, E)
    BY <1>14, <2>1, <2>2, <2>4, WeighedIs, Zenon
  <2>6. /\ Passes(M) /\ M[1] = B /\ M[lag] = lag * B
        /\ \A i \in Nat : M[i] \in Nat /\ M[i] + M[1] = M[i + 1]
    BY <1>9, <1>15, <2>1, DuePasses, Zenon
  <2>7. PICK e2 \in {0, 1} : e2 = Turn(t)' /\ e <= e2 /\ (t = s => e = 0 /\ e2 = 1)
                             /\ (t # s => e2 = e)
    BY <1>3, <2>4 DEF Turn
  <2>8. (d * position[t])' = p /\ (d * real[t])' = r BY <1>3, <2>4
  <2>9. Measures(g, w, a, news', t, d) BY <1>3, <2>5
  <2>10. CASE dropped
    <3>1. Older(n, l, g, w, a, h, b, e, M, g, w, a, h, b, e2)
      <4>1. \A j \in 1..n : a[j] \in Nat /\ a[j] \in Nat /\ a[j] + e <= a[j] + e2
        BY <1>15, <2>5, <2>7
      <4>2. \A j \in 1..l : b[j] \in Nat /\ b[j] \in Nat /\ b[j] + e <= b[j] + e2
        BY <1>15, <2>5, <2>7
      <4>3. QED BY <2>6, <4>1, <4>2 DEF Older
    <3>2. Tally(n, l, g, w, a, h, b, p, r, e2, M, E) BY <2>5, <3>1, TallyAged
    <3>3. k = queue BY <1>12, <2>10
    <3>4. Measures(h, x, b, queue', t, d) BY <1>11, <2>5, <3>3
    <3>5. Tally(Len(news'), Len(queue'), g, w, a, h, b, (d * position[t])',
                (d * real[t])', Turn(t)', Due', Chance!Exposure')
      BY <1>3, <1>11, <1>14, <2>3, <2>7, <2>8, <3>2, <3>3, Zenon
    <3>6. QED BY <2>9, <3>4, <3>5 DEF Weighed
  <2>11. CASE ~dropped
    <3>1. k = Append(queue, o) BY <1>12, <2>11
    <3>2. PICK h2, x2, b2 : Measures(h2, x2, b2, k, t, d) BY MeasuresExist
    <3>3. l = Len(queue) /\ Len(k) = l + 1 /\ k[l + 1] = o /\ \A j \in 1..l : k[j] = queue[j]
      <4>1. /\ Len(k) = Len(queue) + 1 /\ k[Len(queue) + 1] = o
            /\ \A j \in 1..Len(queue) : k[j] = queue[j]
        BY <1>9, <1>10, <3>1, Appended
      <4>2. QED BY <1>14, <4>1
    <3>4. /\ \A j \in 1..l : h2[j] = h[j] /\ b2[j] = b[j]
          /\ h2[l + 1] = Gain(t, d, o) /\ b2[l + 1] = o.age
      <4>1. Measures(h, x, b, queue, t, d) BY <2>5
      <4>2. QED BY ONLY <3>2, <3>3, <4>1, l \in Nat, MeasuresAppend
    <3>5. h2[l + 1] \in Nat /\ h2[l + 1] <= B /\ b2[l + 1] = 0 BY <1>8, <1>10, <1>15, <3>4
    <3>6. PICK l2 : l2 = l + 1 OBVIOUS
    <3>7. Tally(n, l, g, w, a, h, b, p, r, e, M, E) BY <2>5
    <3>8. Tally(n, l2, g, w, a, h2, b2, p, r, e2, M, E)
      <4>1. CASE t = s
        <5>1. h2[l + 1] = 0 \/ p + h2[l + 1] + M[lag] <= E
          <6>1. PICK y \in Nat : y = h2[l + 1] BY <3>5
          <6>2. y = 0 \/ p + y <= CapAll BY <1>8, <2>4, <3>4, <4>1, <6>1
          <6>3. PICK cap \in Nat, rest \in Nat : /\ cap = CapAll /\ rest = lag * B
                                                 /\ cap + rest <= E
            BY <1>9, <1>15, <2>2, ExposureFits
          <6>4. M[lag] = rest BY <2>6, <6>3
          <6>5. y = 0 \/ p + y + rest <= E BY <6>2, <6>3
          <6>6. QED BY <6>1, <6>4, <6>5
        <5>2. /\ \A j \in 1..n : a[j] \in 0..lag
              /\ \A j \in 1..l : b[j] \in 0..lag
          BY <1>15, <2>5
        <5>3. /\ \A j \in 1..l : h2[j] = h[j] /\ b2[j] = b[j]
              /\ h2[l + 1] <= M[1]
          BY <2>6, <3>4, <3>5
        <5>4. \A i \in Nat : M[i] + M[1] = M[i + 1] BY <2>6
        <5>5. Joined(n, l, a, h, b, p, M, E, l2, h2, b2)
          BY <2>6, <3>5, <3>6, <5>1, <5>2, <5>3, <5>4, Zenon DEF Joined
        <5>6. e = 0 /\ e2 = 1 BY <2>7, <4>1
        <5>7. Tally(n, l, g, w, a, h, b, p, r, 0, M, E) BY <3>7, <5>6
        <5>8. QED BY <5>5, <5>6, <5>7, TallyOrder
      <4>2. CASE t # s
        <5>1. h2[l + 1] = 0 BY <1>8, <3>4, <4>2
        <5>2. M[b2[l + 1] + e] \in Nat
          <6>1. b2[l + 1] + e \in Nat BY <3>5
          <6>2. QED BY <2>6, <6>1
        <5>3. \A j \in 1..l : h2[j] = h[j] /\ b2[j] = b[j] BY <3>4
        <5>4. Tally(n, l2, g, w, a, h2, b2, p, r, e, M, E)
          BY ONLY <3>6, <3>7, <5>1, <5>2, <5>3, n \in Nat, l \in Nat, p \in Int, r \in Int,
             E \in Nat, TallyOther, SMTT(30)
        <5>5. e2 = e BY <2>7, <4>2
        <5>6. QED BY <5>4, <5>5
      <4>3. QED BY <4>1, <4>2
    <3>9. Measures(h2, x2, b2, queue', t, d) BY <1>11, <3>2
    <3>10. Tally(Len(news'), Len(queue'), g, w, a, h2, b2, (d * position[t])',
                (d * real[t])', Turn(t)', Due', Chance!Exposure')
      BY <1>3, <1>11, <1>14, <2>3, <2>7, <2>8, <3>3, <3>6, <3>8, Zenon
    <3>11. QED BY <2>9, <3>9, <3>10 DEF Weighed
  <2>12. QED BY <2>10, <2>11
<1>17. QED BY <1>3, <1>9, <1>11, <1>13, <1>16 DEF ExposureInv

-----------------------------------------------------------------------------
\* T are the ages of N records, oldest first, of which the first r are in the queue of
\* recent orders; O the ages of L opening orders, oldest first.  Each opening order has
\* a record that is not older, of its own; or the queue is full of such records.
Rated(r, N, T, L, O, cap) ==
  /\ N \in Nat /\ L \in Nat /\ cap \in Nat \ {0} /\ r \in 0..cap /\ r <= N
  /\ T \in [1..N -> Nat] /\ O \in [1..L -> Nat]
  /\ \A i, j \in 1..N : i <= j => T[j] <= T[i]
  /\ \A i \in 1..L : \/ i + N - L >= 1 /\ T[i + N - L] <= O[i]
                     \/ r = cap /\ T[1] <= O[i]

\* T2 is T with one more record.
Extended(N, T, T2) ==
  T2 \in [1..N + 1 -> Nat] /\ T2[N + 1] = 0 /\ \A i \in 1..N : T2[i] = T[i]

\* A record of an order that opens.
LEMMA RatedOpen ==
  ASSUME NEW r, NEW N, NEW T, NEW L, NEW O, NEW cap, Rated(r, N, T, L, O, cap),
         NEW T2, Extended(N, T, T2), NEW O2, Extended(L, O, O2)
  PROVE  Rated(r, N + 1, T2, L + 1, O2, cap)
<1>1. /\ N \in Nat /\ L \in Nat /\ cap \in Nat \ {0} /\ r \in 0..cap /\ r <= N
      /\ T \in [1..N -> Nat] /\ O \in [1..L -> Nat]
      /\ \A i, j \in 1..N : i <= j => T[j] <= T[i]
      /\ \A i \in 1..L : \/ i + N - L >= 1 /\ T[i + N - L] <= O[i]
                         \/ r = cap /\ T[1] <= O[i]
  BY DEF Rated
<1>2. T2 \in [1..N + 1 -> Nat] /\ T2[N + 1] = 0 /\ \A i \in 1..N : T2[i] = T[i]
  BY DEF Extended
<1>3. O2 \in [1..L + 1 -> Nat] /\ O2[L + 1] = 0 /\ \A i \in 1..L : O2[i] = O[i]
  BY DEF Extended
<1>4. ASSUME NEW i \in 1..N + 1, NEW j \in 1..N + 1, i <= j PROVE T2[j] <= T2[i]
  <2>1. CASE j = N + 1
    <3>1. T2[i] \in Nat BY <1>2
    <3>2. QED BY <1>2, <2>1, <3>1
  <2>2. CASE j <= N
    <3>1. i \in 1..N /\ j \in 1..N BY <1>1, <1>4, <2>2
    <3>2. T2[i] = T[i] /\ T2[j] = T[j] BY <1>2, <3>1
    <3>3. QED BY <1>1, <1>4, <3>1, <3>2
  <2>3. QED BY <1>1, <2>1, <2>2
<1>5. ASSUME NEW i \in 1..L + 1
      PROVE  \/ i + (N + 1) - (L + 1) >= 1 /\ T2[i + (N + 1) - (L + 1)] <= O2[i]
             \/ r = cap /\ T2[1] <= O2[i]
  <2>1. PICK k \in Int : k = i + N - L /\ k = i + (N + 1) - (L + 1) BY <1>1
  <2>2. CASE i = L + 1
    <3>1. k = N + 1 BY <1>1, <2>1, <2>2
    <3>2. T2[k] = 0 /\ O2[i] = 0 BY <1>2, <1>3, <2>2, <3>1
    <3>3. k >= 1 BY <1>1, <3>1
    <3>4. QED BY <2>1, <3>2, <3>3
  <2>3. CASE i <= L
    <3>1. i \in 1..L BY <1>1, <2>3
    <3>2. O2[i] = O[i] BY <1>3, <3>1
    <3>3. CASE k >= 1 /\ T[k] <= O[i]
      <4>1. k \in 1..N BY <1>1, <2>1, <3>1, <3>3
      <4>2. T2[k] = T[k] BY <1>2, <4>1
      <4>3. QED BY <2>1, <3>2, <3>3, <4>2
    <3>4. CASE r = cap /\ T[1] <= O[i]
      <4>1. 1 \in 1..N BY <1>1, <3>4
      <4>2. T2[1] = T[1] BY <1>2, <4>1
      <4>3. QED BY <3>2, <3>4, <4>2
    <3>5. QED BY <1>1, <2>1, <3>1, <3>3, <3>4
  <2>4. QED BY <1>1, <2>2, <2>3
<1>6. N + 1 \in Nat /\ L + 1 \in Nat /\ r <= N + 1 BY <1>1
<1>7. \A i, j \in 1..N + 1 : i <= j => T2[j] <= T2[i] BY <1>4
<1>8. \A i \in 1..L + 1 : \/ i + (N + 1) - (L + 1) >= 1 /\ T2[i + (N + 1) - (L + 1)] <= O2[i]
                          \/ r = cap /\ T2[1] <= O2[i]
  BY <1>5
<1>9. QED BY <1>1, <1>2, <1>3, <1>6, <1>7, <1>8 DEF Rated

\* A record of an order that opens nothing.
LEMMA RatedRecord ==
  ASSUME NEW r, NEW N, NEW T, NEW L, NEW O, NEW cap, Rated(r, N, T, L, O, cap),
         NEW T2, Extended(N, T, T2)
  PROVE  Rated(r, N + 1, T2, L, O, cap)
<1>1. /\ N \in Nat /\ L \in Nat /\ cap \in Nat \ {0} /\ r \in 0..cap /\ r <= N
      /\ T \in [1..N -> Nat] /\ O \in [1..L -> Nat]
      /\ \A i, j \in 1..N : i <= j => T[j] <= T[i]
      /\ \A i \in 1..L : \/ i + N - L >= 1 /\ T[i + N - L] <= O[i]
                         \/ r = cap /\ T[1] <= O[i]
  BY DEF Rated
<1>2. T2 \in [1..N + 1 -> Nat] /\ T2[N + 1] = 0 /\ \A i \in 1..N : T2[i] = T[i]
  BY DEF Extended
<1>4. ASSUME NEW i \in 1..N + 1, NEW j \in 1..N + 1, i <= j PROVE T2[j] <= T2[i]
  <2>1. CASE j = N + 1
    <3>1. T2[i] \in Nat BY <1>2
    <3>2. QED BY <1>2, <2>1, <3>1
  <2>2. CASE j <= N
    <3>1. i \in 1..N /\ j \in 1..N BY <1>1, <1>4, <2>2
    <3>2. T2[i] = T[i] /\ T2[j] = T[j] BY <1>2, <3>1
    <3>3. QED BY <1>1, <1>4, <3>1, <3>2
  <2>3. QED BY <1>1, <2>1, <2>2
<1>5. ASSUME NEW i \in 1..L
      PROVE  \/ i + (N + 1) - L >= 1 /\ T2[i + (N + 1) - L] <= O[i]
             \/ r = cap /\ T2[1] <= O[i]
  <2>1. PICK k \in Int : k = i + N - L /\ k + 1 = i + (N + 1) - L BY <1>1
  <2>2. O[i] \in Nat BY <1>1
  <2>3. CASE k >= 1 /\ T[k] <= O[i]
    <3>1. k \in 1..N BY <1>1, <2>1, <2>3
    <3>2. T[k] \in Nat /\ T2[k] = T[k] BY <1>1, <1>2, <3>1
    <3>3. T2[k + 1] <= T2[k]
      <4>1. k \in 1..N + 1 /\ k + 1 \in 1..N + 1 /\ k <= k + 1 BY <1>1, <3>1
      <4>2. QED BY <1>4, <4>1
    <3>4. T2[k + 1] \in Nat
      <4>1. k + 1 \in 1..N + 1 BY <1>1, <3>1
      <4>2. QED BY <1>2, <4>1
    <3>5. k + 1 >= 1 /\ T2[k + 1] <= O[i] BY <2>2, <2>3, <3>2, <3>3, <3>4
    <3>6. QED BY <2>1, <3>5
  <2>4. CASE r = cap /\ T[1] <= O[i]
    <3>1. 1 \in 1..N BY <1>1, <2>4
    <3>2. T2[1] = T[1] BY <1>2, <3>1
    <3>3. QED BY <2>4, <3>2
  <2>5. QED BY <1>1, <2>1, <2>3, <2>4
<1>6. N + 1 \in Nat /\ r <= N + 1 BY <1>1
<1>7. \A i, j \in 1..N + 1 : i <= j => T2[j] <= T2[i] BY <1>4
<1>8. QED BY <1>1, <1>2, <1>5, <1>6, <1>7 DEF Rated

\* The oldest record leaves the full queue for the oldest of the channel.
LEMMA RatedMove ==
  ASSUME NEW N, NEW T, NEW L, NEW O, NEW cap, Rated(cap, N, T, L, O, cap), cap < N,
         NEW T2, T2 \in [1..N - 1 -> Nat], \A i \in 1..N - 1 : T2[i] = T[i + 1]
  PROVE  Rated(cap, N - 1, T2, L, O, cap)
<1>1. /\ N \in Nat /\ L \in Nat /\ cap \in Nat \ {0} /\ cap \in 0..cap /\ cap <= N
      /\ T \in [1..N -> Nat] /\ O \in [1..L -> Nat]
      /\ \A i, j \in 1..N : i <= j => T[j] <= T[i]
      /\ \A i \in 1..L : \/ i + N - L >= 1 /\ T[i + N - L] <= O[i]
                         \/ cap = cap /\ T[1] <= O[i]
  BY Zenon DEF Rated
<1>2. ASSUME NEW i \in 1..N - 1, NEW j \in 1..N - 1, i <= j PROVE T2[j] <= T2[i]
  <2>1. i + 1 \in 1..N /\ j + 1 \in 1..N /\ i + 1 <= j + 1 BY <1>1, <1>2
  <2>2. QED BY <1>1, <2>1
<1>3. T2[1] <= T[1] /\ T2[1] \in Nat /\ T[1] \in Nat
  <2>1. 1 \in 1..N - 1 /\ 1 \in 1..N /\ 2 \in 1..N /\ 1 + 1 = 2 BY <1>1
  <2>2. T2[1] = T[2] BY <2>1
  <2>3. T[2] <= T[1] BY <1>1, <2>1
  <2>4. QED BY <1>1, <2>1, <2>2, <2>3
<1>4. ASSUME NEW i \in 1..L
      PROVE  \/ i + (N - 1) - L >= 1 /\ T2[i + (N - 1) - L] <= O[i]
             \/ cap = cap /\ T2[1] <= O[i]
  <2>1. PICK k \in Int : k = i + N - L /\ k - 1 = i + (N - 1) - L BY <1>1
  <2>2. O[i] \in Nat BY <1>1, Zenon
  <2>3. CASE k >= 2 /\ T[k] <= O[i]
    <3>1. k - 1 \in 1..N - 1 /\ (k - 1) + 1 = k BY <1>1, <2>1, <2>3
    <3>2. T2[k - 1] = T[k] BY <3>1
    <3>3. QED BY <2>1, <2>3, <3>2
  <2>4. CASE T[1] <= O[i]
    <3>1. T2[1] <= O[i] BY <1>3, <2>2, <2>4
    <3>2. QED BY <3>1
  <2>5. k = 1 \/ k >= 2 \/ k < 1 BY <2>1
  <2>6. QED BY <1>1, <2>1, <2>3, <2>4, <2>5
<1>5. N - 1 \in Nat /\ cap <= N - 1 BY <1>1
<1>6. QED BY <1>1, <1>2, <1>4, <1>5, Zenon DEF Rated

\* A record of the channel joins the queue.
LEMMA RatedJoin ==
  ASSUME NEW r, NEW N, NEW T, NEW L, NEW O, NEW cap, Rated(r, N, T, L, O, cap), r < cap, r < N
  PROVE  Rated(r + 1, N, T, L, O, cap)
<1>1. /\ N \in Nat /\ L \in Nat /\ cap \in Nat \ {0} /\ r \in 0..cap /\ r <= N
      /\ T \in [1..N -> Nat] /\ O \in [1..L -> Nat]
      /\ \A i, j \in 1..N : i <= j => T[j] <= T[i]
      /\ \A i \in 1..L : \/ i + N - L >= 1 /\ T[i + N - L] <= O[i]
                         \/ r = cap /\ T[1] <= O[i]
  BY Zenon DEF Rated
<1>2. r # cap /\ r + 1 \in 0..cap /\ r + 1 <= N BY <1>1
<1>3. \A i \in 1..L : \/ i + N - L >= 1 /\ T[i + N - L] <= O[i]
                      \/ r + 1 = cap /\ T[1] <= O[i]
  BY <1>1, <1>2
<1>4. QED BY <1>1, <1>2, <1>3, Zenon DEF Rated

\* A pass: records are at most a pass older, the oldest openings leave the window.
LEMMA RatedPass ==
  ASSUME NEW r, NEW N, NEW T, NEW L, NEW O, NEW cap, Rated(r, N, T, L, O, cap),
         NEW T2 \in [1..N -> Nat], \A i \in 1..N : T2[i] <= T[i] + 1,
         \A i, j \in 1..N : i <= j => T2[j] <= T2[i],
         NEW y \in 0..L, NEW O2 \in [1..y -> Nat], \A i \in 1..y : O2[i] = O[i + L - y] + 1
  PROVE  Rated(r, N, T2, y, O2, cap)
<1>1. /\ N \in Nat /\ L \in Nat /\ cap \in Nat \ {0} /\ r \in 0..cap /\ r <= N
      /\ T \in [1..N -> Nat] /\ O \in [1..L -> Nat]
      /\ \A i, j \in 1..N : i <= j => T[j] <= T[i]
      /\ \A i \in 1..L : \/ i + N - L >= 1 /\ T[i + N - L] <= O[i]
                         \/ r = cap /\ T[1] <= O[i]
  BY Zenon DEF Rated
<1>2. ASSUME NEW i \in 1..y
      PROVE  \/ i + N - y >= 1 /\ T2[i + N - y] <= O2[i]
             \/ r = cap /\ T2[1] <= O2[i]
  <2>1. PICK m \in 1..L : m = i + L - y BY <1>1
  <2>2. PICK k \in Int : k = m + N - L /\ k = i + N - y BY <1>1, <2>1
  <2>3. O2[i] = O[m] + 1 /\ O[m] \in Nat BY <1>1, <2>1
  <2>4. CASE k >= 1 /\ T[k] <= O[m]
    <3>1. k \in 1..N BY <1>1, <2>1, <2>2, <2>4
    <3>2. T[k] \in Nat /\ T2[k] \in Nat /\ T2[k] <= T[k] + 1 BY <1>1, <3>1
    <3>3. T2[k] <= O2[i] BY <2>3, <2>4, <3>2
    <3>4. QED BY <2>2, <2>4, <3>3
  <2>5. CASE r = cap /\ T[1] <= O[m]
    <3>1. 1 \in 1..N BY <1>1, <2>5
    <3>2. T[1] \in Nat /\ T2[1] \in Nat /\ T2[1] <= T[1] + 1 BY <1>1, <3>1
    <3>3. QED BY <2>3, <2>5, <3>2
  <2>6. QED BY <1>1, <2>1, <2>2, <2>4, <2>5
<1>3. y \in Nat BY <1>1
<1>4. QED BY <1>1, <1>2, <1>3, Zenon DEF Rated

\* An opening the rate allows: all earlier ones have records, and not the whole queue.
LEMMA RatedBounds ==
  ASSUME NEW r, NEW N, NEW T, NEW L, NEW O, NEW cap, Rated(r, N, T, L, O, cap),
         NEW window \in Nat, \A i \in 1..L : O[i] < window,
         r # cap \/ T[1] >= window
  PROVE  L = 0 \/ L <= N - r + cap - 1
<1>1. /\ N \in Nat /\ L \in Nat /\ cap \in Nat \ {0} /\ r \in 0..cap /\ r <= N
      /\ T \in [1..N -> Nat] /\ O \in [1..L -> Nat]
      /\ \A i, j \in 1..N : i <= j => T[j] <= T[i]
      /\ \A i \in 1..L : \/ i + N - L >= 1 /\ T[i + N - L] <= O[i]
                         \/ r = cap /\ T[1] <= O[i]
  BY Zenon DEF Rated
<1>2. CASE L >= 1
  <2>1. 1 \in 1..L BY <1>1, <1>2
  <2>2. O[1] \in Nat /\ O[1] < window BY <1>1, <2>1
  <2>3. r = cap => 1 \in 1..N /\ T[1] \in Nat /\ T[1] >= window BY <1>1
  <2>4. ~(r = cap /\ T[1] <= O[1]) BY <2>2, <2>3
  <2>5. PICK k \in Int : k = 1 + N - L BY <1>1
  <2>6. k >= 1 /\ T[k] <= O[1] BY <1>1, <2>1, <2>4, <2>5
  <2>7. r = cap => k # 1 BY <2>4, <2>6
  <2>8. QED BY <1>1, <2>5, <2>6, <2>7
<1>3. QED BY <1>1, <1>2

\* So every step keeps the invariant.
LEMMA ExposureStep ==
  ASSUME Chance!ConstantsOK, ExposureInv, Chance!Next
  PROVE  ExposureInv'
<1>1. CASE \E s \in Symbols : Chance!HandleChance(s) BY <1>1, ExposureChance
<1>2. CASE Chance!Record
  <2>1. UNCHANGED <<version, evaluated, position, real, queue, news>>
    BY <1>2 DEF Chance!Record
  <2>2. QED BY <2>1, ExposureStill
<1>3. CASE Chance!Send BY <1>3, ExposureSend
<1>4. CASE Chance!Learn BY <1>4, ExposureLearn
<1>5. CASE Chance!NextPass BY <1>5, ExposurePass
<1>6. QED BY <1>1, <1>2, <1>3, <1>4, <1>5 DEF Chance!Next

\* The invariant gives the bound on every position.
LEMMA ExposureHolds ==
  ASSUME Chance!ConstantsOK, ExposureInv
  PROVE  Chance!ExposureBounded
BY ExposureFacts DEF Chance!ExposureBounded

-----------------------------------------------------------------------------
\* The ages of the records, in the queue (q, r of them) and then in the channel (c, m of
\* them), and the L opening orders o.
Noted(q, r, c, m, o, L) ==
  \E T : /\ r \in Nat /\ m \in Nat /\ T \in [1..r + m -> Nat]
         /\ \A i \in 1..r : T[i] = q[i].age
         /\ \A i \in 1..m : T[r + i] = c[i].age
         /\ Rated(r, r + m, T, L, o, RecentCap)

\* The opening orders, oldest first.
Aging(o, L) == o \in [1..L -> Nat] /\ \A i, j \in 1..L : i <= j => o[j] <= o[i]

\* The channel: z records of the last pass, then those of this one.
Passing(c, m, z) ==
  /\ \A i \in 1..m : c[i].age = IF i <= z THEN 1 ELSE 0
  /\ z \in 0..m

\* An opening order and its record in the channel.
LEMMA NotedOpen ==
  ASSUME NEW q, NEW r, NEW c, NEW m, NEW o, NEW L, Noted(q, r, c, m, o, L),
         NEW c2, \A i \in 1..m : c2[i] = c[i], c2[m + 1].age = 0, NEW o2, Extended(L, o, o2)
  PROVE  Noted(q, r, c2, m + 1, o2, L + 1)
<1>1. PICK T : /\ r \in Nat /\ m \in Nat /\ T \in [1..r + m -> Nat]
               /\ \A i \in 1..r : T[i] = q[i].age
               /\ \A i \in 1..m : T[r + i] = c[i].age
               /\ Rated(r, r + m, T, L, o, RecentCap)
  BY Zenon DEF Noted
<1>2. PICK n \in Nat : n = r + m BY <1>1
<1>3. Rated(r, n, T, L, o, RecentCap) BY <1>1, <1>2
<1>4. PICK T2 : T2 = [i \in 1..n + 1 |-> IF i = n + 1 THEN 0 ELSE T[i]] BY Zenon
<1>5. T2 \in [1..n + 1 -> Nat] /\ T2[n + 1] = 0 /\ \A i \in 1..n : T2[i] = T[i]
  <2>1. \A i \in 1..n : T[i] \in Nat BY <1>1, <1>2
  <2>2. QED BY <1>4, <2>1
<1>6. Extended(n, T, T2) BY <1>5 DEF Extended
<1>7. Rated(r, n + 1, T2, L + 1, o2, RecentCap) BY <1>3, <1>6, RatedOpen
<1>8. \A i \in 1..r : T2[i] = q[i].age
  <2>1. \A i \in 1..r : i \in 1..n BY <1>1, <1>2
  <2>2. QED BY <1>1, <1>5, <2>1, Zenon
<1>9. ASSUME NEW i \in 1..m + 1 PROVE T2[r + i] = c2[i].age
  <2>1. CASE i = m + 1
    <3>1. r + i = n + 1 BY <1>1, <1>2, <2>1
    <3>2. QED BY <1>5, <2>1, <3>1
  <2>2. CASE i # m + 1
    <3>1. i \in 1..m /\ r + i \in 1..n BY <1>1, <1>2, <2>2
    <3>2. T2[r + i] = T[r + i] BY <1>5, <3>1
    <3>3. c2[i] = c[i] /\ T[r + i] = c[i].age BY <1>1, <3>1
    <3>4. QED BY <3>2, <3>3
  <2>3. QED BY <2>1, <2>2
<1>10. n + 1 = r + (m + 1) /\ m + 1 \in Nat BY <1>1, <1>2
<1>11. QED BY <1>1, <1>5, <1>7, <1>8, <1>9, <1>10, Zenon DEF Noted

\* A record of an order that opens nothing.
LEMMA NotedRecord ==
  ASSUME NEW q, NEW r, NEW c, NEW m, NEW o, NEW L, Noted(q, r, c, m, o, L),
         NEW c2, \A i \in 1..m : c2[i] = c[i], c2[m + 1].age = 0
  PROVE  Noted(q, r, c2, m + 1, o, L)
<1>1. PICK T : /\ r \in Nat /\ m \in Nat /\ T \in [1..r + m -> Nat]
               /\ \A i \in 1..r : T[i] = q[i].age
               /\ \A i \in 1..m : T[r + i] = c[i].age
               /\ Rated(r, r + m, T, L, o, RecentCap)
  BY Zenon DEF Noted
<1>2. PICK n \in Nat : n = r + m BY <1>1
<1>3. Rated(r, n, T, L, o, RecentCap) BY <1>1, <1>2
<1>4. PICK T2 : T2 = [i \in 1..n + 1 |-> IF i = n + 1 THEN 0 ELSE T[i]] BY Zenon
<1>5. T2 \in [1..n + 1 -> Nat] /\ T2[n + 1] = 0 /\ \A i \in 1..n : T2[i] = T[i]
  <2>1. \A i \in 1..n : T[i] \in Nat BY <1>1, <1>2
  <2>2. QED BY <1>4, <2>1
<1>6. Extended(n, T, T2) BY <1>5 DEF Extended
<1>7. Rated(r, n + 1, T2, L, o, RecentCap) BY <1>3, <1>6, RatedRecord
<1>8. \A i \in 1..r : T2[i] = q[i].age
  <2>1. \A i \in 1..r : i \in 1..n BY <1>1, <1>2
  <2>2. QED BY <1>1, <1>5, <2>1, Zenon
<1>9. ASSUME NEW i \in 1..m + 1 PROVE T2[r + i] = c2[i].age
  <2>1. CASE i = m + 1
    <3>1. r + i = n + 1 BY <1>1, <1>2, <2>1
    <3>2. QED BY <1>5, <2>1, <3>1
  <2>2. CASE i # m + 1
    <3>1. i \in 1..m /\ r + i \in 1..n BY <1>1, <1>2, <2>2
    <3>2. T2[r + i] = T[r + i] BY <1>5, <3>1
    <3>3. c2[i] = c[i] /\ T[r + i] = c[i].age BY <1>1, <3>1
    <3>4. QED BY <3>2, <3>3
  <2>3. QED BY <2>1, <2>2
<1>10. n + 1 = r + (m + 1) /\ m + 1 \in Nat BY <1>1, <1>2
<1>11. QED BY <1>1, <1>5, <1>7, <1>8, <1>9, <1>10, Zenon DEF Noted

\* The first record of the channel joins a queue that is not full.
LEMMA NotedJoin ==
  ASSUME NEW q, NEW r, NEW c, NEW m, NEW o, NEW L, Noted(q, r, c, m, o, L), r < RecentCap,
         m >= 1, NEW q2, \A i \in 1..r : q2[i] = q[i], q2[r + 1].age = c[1].age,
         NEW c2, \A i \in 1..m - 1 : c2[i] = c[i + 1]
  PROVE  Noted(q2, r + 1, c2, m - 1, o, L)
<1>1. PICK T : /\ r \in Nat /\ m \in Nat /\ T \in [1..r + m -> Nat]
               /\ \A i \in 1..r : T[i] = q[i].age
               /\ \A i \in 1..m : T[r + i] = c[i].age
               /\ Rated(r, r + m, T, L, o, RecentCap)
  BY Zenon DEF Noted
<1>2. PICK n \in Nat : n = r + m /\ n = (r + 1) + (m - 1) BY <1>1
<1>3. Rated(r, n, T, L, o, RecentCap) /\ r < n BY <1>1, <1>2
<1>4. Rated(r + 1, n, T, L, o, RecentCap) BY <1>3, RatedJoin
<1>5. ASSUME NEW i \in 1..r + 1 PROVE T[i] = q2[i].age
  <2>1. CASE i = r + 1
    <3>1. 1 \in 1..m BY <1>1
    <3>2. T[r + 1] = c[1].age BY <1>1, <3>1
    <3>3. QED BY <2>1, <3>2
  <2>2. CASE i # r + 1
    <3>1. i \in 1..r BY <1>1, <2>2
    <3>2. QED BY <1>1, <3>1, Zenon
  <2>3. QED BY <2>1, <2>2
<1>6. ASSUME NEW i \in 1..m - 1 PROVE T[(r + 1) + i] = c2[i].age
  <2>1. i + 1 \in 1..m /\ (r + 1) + i = r + (i + 1) BY <1>1
  <2>2. T[r + (i + 1)] = c[i + 1].age BY <1>1, <2>1
  <2>3. QED BY <2>1, <2>2
<1>7. r + 1 \in Nat /\ m - 1 \in Nat BY <1>1
<1>8. QED BY <1>1, <1>2, <1>4, <1>5, <1>6, <1>7, Zenon DEF Noted

\* It joins a full one, whose oldest leaves.
LEMMA NotedMove ==
  ASSUME NEW q, NEW r, NEW c, NEW m, NEW o, NEW L, Noted(q, r, c, m, o, L), r = RecentCap,
         m >= 1, NEW q2, \A i \in 1..r - 1 : q2[i] = q[i + 1], q2[r].age = c[1].age,
         NEW c2, \A i \in 1..m - 1 : c2[i] = c[i + 1]
  PROVE  Noted(q2, r, c2, m - 1, o, L)
<1>1. PICK T : /\ r \in Nat /\ m \in Nat /\ T \in [1..r + m -> Nat]
               /\ \A i \in 1..r : T[i] = q[i].age
               /\ \A i \in 1..m : T[r + i] = c[i].age
               /\ Rated(r, r + m, T, L, o, RecentCap)
  BY DEF Noted
<1>2. PICK n \in Nat : n = r + m /\ n - 1 = r + (m - 1) /\ r < n BY <1>1
<1>3. Rated(RecentCap, n, T, L, o, RecentCap) /\ RecentCap < n BY <1>1, <1>2
<1>4. PICK T2 : T2 = [i \in 1..n - 1 |-> T[i + 1]] BY Zenon
<1>5. T2 \in [1..n - 1 -> Nat] /\ \A i \in 1..n - 1 : T2[i] = T[i + 1]
  <2>1. \A i \in 1..n - 1 : T[i + 1] \in Nat
    <3>1. \A i \in 1..n - 1 : i + 1 \in 1..n OBVIOUS
    <3>2. QED BY <1>1, <1>2, <3>1
  <2>2. QED BY <1>4, <2>1
<1>6. Rated(RecentCap, n - 1, T2, L, o, RecentCap) BY <1>3, <1>5, RatedMove
<1>7. ASSUME NEW i \in 1..r PROVE T2[i] = q2[i].age
  <2>1. i \in 1..n - 1 BY <1>1, <1>2
  <2>2. T2[i] = T[i + 1] BY <1>5, <2>1
  <2>3. CASE i = r
    <3>1. 1 \in 1..m BY <1>1
    <3>2. T[r + 1] = c[1].age BY <1>1, <3>1
    <3>3. QED BY <2>2, <2>3, <3>2
  <2>4. CASE i # r
    <3>1. i \in 1..r - 1 /\ i + 1 \in 1..r BY <1>1, <2>4
    <3>2. T[i + 1] = q[i + 1].age /\ q2[i] = q[i + 1] BY <1>1, <3>1
    <3>3. QED BY <2>2, <3>2
  <2>5. QED BY <2>3, <2>4
<1>8. ASSUME NEW i \in 1..m - 1 PROVE T2[r + i] = c2[i].age
  <2>1. r + i \in 1..n - 1 /\ (r + i) + 1 = r + (i + 1) /\ i + 1 \in 1..m BY <1>1, <1>2
  <2>2. T2[r + i] = T[r + (i + 1)] BY <1>5, <2>1
  <2>3. T[r + (i + 1)] = c[i + 1].age BY <1>1, <2>1
  <2>4. QED BY <2>2, <2>3
<1>9. m - 1 \in Nat BY <1>1
<1>10. QED BY <1>1, <1>2, <1>5, <1>6, <1>7, <1>8, <1>9, Zenon DEF Noted

\* A pass adds at most one to an age, in order.
LEMMA OlderIs ==
  ASSUME Chance!ConstantsOK
  PROVE  /\ \A n \in Nat : Chance!Older(n) \in Nat /\ Chance!Older(n) <= n + 1
         /\ \A n, k \in Nat : n <= k => Chance!Older(n) <= Chance!Older(k)
         /\ Chance!Older(0) = 1
<1>1. PICK a \in Nat : a = Chance!AgeCap /\ a >= 1
  <2>1. RateWindow \in Nat \ {0} /\ Chance!AgeCap \in Nat /\ RateWindow <= Chance!AgeCap
    BY ChanceConstants
  <2>2. QED BY <2>1
<1>2. \A n \in Nat : Chance!Older(n) = IF n + 1 < a THEN n + 1 ELSE a
  BY <1>1 DEF Chance!Older, Chance!Least
<1>3. QED BY <1>1, <1>2

\* The records are a pass older; of the L openings o the last y stay, a pass older.
Later(q, q2, r) == \A i \in 1..r : q2[i].age = Chance!Older(q[i].age)
Remain(o, L, o2, y) ==
  y \in 0..L /\ o2 \in [1..y -> Nat] /\ \A i \in 1..y : o2[i] = o[i + L - y] + 1

\* A pass keeps the records of the openings that stay.
LEMMA NotedPass ==
  ASSUME Chance!ConstantsOK, NEW q, NEW r, NEW c, NEW m, NEW o, NEW L, Noted(q, r, c, m, o, L),
         NEW q2, Later(q, q2, r), NEW c2, Later(c, c2, m), NEW y, NEW o2, Remain(o, L, o2, y)
  PROVE  Noted(q2, r, c2, m, o2, y)
<1>1. PICK T : /\ r \in Nat /\ m \in Nat /\ T \in [1..r + m -> Nat]
               /\ \A i \in 1..r : T[i] = q[i].age
               /\ \A i \in 1..m : T[r + i] = c[i].age
               /\ Rated(r, r + m, T, L, o, RecentCap)
  BY Zenon DEF Noted
<1>2. PICK n \in Nat : n = r + m BY <1>1
<1>3. Rated(r, n, T, L, o, RecentCap) /\ T \in [1..n -> Nat] BY <1>1, <1>2
<1>4. \A i, j \in 1..n : i <= j => T[j] <= T[i] BY <1>3 DEF Rated
<1>5. PICK T2 : T2 = [i \in 1..n |-> Chance!Older(T[i])] BY Zenon
<1>6. \A i \in 1..n : T[i] \in Nat BY <1>3
<1>7. T2 \in [1..n -> Nat] /\ \A i \in 1..n : T2[i] = Chance!Older(T[i]) /\ T2[i] <= T[i] + 1
  BY <1>5, <1>6, OlderIs, Zenon
<1>8. ASSUME NEW i \in 1..n, NEW j \in 1..n, i <= j PROVE T2[j] <= T2[i]
  <2>1. T[j] <= T[i] /\ T[i] \in Nat /\ T[j] \in Nat BY <1>4, <1>6, <1>8
  <2>2. Chance!Older(T[j]) <= Chance!Older(T[i]) BY <2>1, OlderIs, Zenon
  <2>3. QED BY <1>7, <2>2
<1>9. Rated(r, n, T2, y, o2, RecentCap)
  <2>1. \A i, j \in 1..n : i <= j => T2[j] <= T2[i] BY <1>8
  <2>2. \A i \in 1..n : T2[i] <= T[i] + 1 BY <1>7
  <2>3. T2 \in [1..n -> Nat] BY <1>7
  <2>4. o2 \in [1..y -> Nat] /\ \A i \in 1..y : o2[i] = o[i + L - y] + 1 BY DEF Remain
  <2>5. y \in 0..L BY DEF Remain
  <2>6. QED BY ONLY <1>3, <2>1, <2>2, <2>3, <2>4, <2>5, RatedPass, Zenon
<1>10. ASSUME NEW i \in 1..r PROVE T2[i] = q2[i].age
  <2>1. i \in 1..n BY <1>1, <1>2
  <2>2. q2[i].age = Chance!Older(q[i].age) BY DEF Later
  <2>3. QED BY <1>1, <1>7, <2>1, <2>2, Zenon
<1>11. ASSUME NEW i \in 1..m PROVE T2[r + i] = c2[i].age
  <2>1. r + i \in 1..n BY <1>1, <1>2
  <2>2. T2[r + i] = Chance!Older(T[r + i]) /\ T[r + i] = c[i].age BY <1>1, <1>7, <2>1
  <2>3. c2[i].age = Chance!Older(c[i].age) BY DEF Later
  <2>4. QED BY <2>2, <2>3
<1>12. QED BY <1>1, <1>2, <1>7, <1>9, <1>10, <1>11, Zenon DEF Noted

\* How many openings there are before one that the rate allows.
LEMMA NotedBounds ==
  ASSUME NEW q, NEW r, NEW c, NEW m, NEW o, NEW L, Noted(q, r, c, m, o, L),
         RecentCap \in Nat \ {0}, RateWindow \in Nat,
         \A i \in 1..L : o[i] < RateWindow, ~ (r = RecentCap /\ q[1].age < RateWindow)
  PROVE  L \in Nat /\ (L = 0 \/ L <= m + RecentCap - 1)
<1>1. PICK T : /\ r \in Nat /\ m \in Nat /\ T \in [1..r + m -> Nat]
               /\ \A i \in 1..r : T[i] = q[i].age
               /\ \A i \in 1..m : T[r + i] = c[i].age
               /\ Rated(r, r + m, T, L, o, RecentCap)
  BY Zenon DEF Noted
<1>2. PICK n \in Nat, k \in Nat \ {0}, w \in Nat : n = r + m /\ k = RecentCap /\ w = RateWindow
  <2>1. r + m \in Nat BY <1>1
  <2>2. RecentCap \in Nat \ {0} /\ RateWindow \in Nat OBVIOUS
  <2>3. QED BY ONLY <2>1, <2>2, Zenon
<1>3. Rated(r, n, T, L, o, k) BY <1>1, <1>2
<1>4. L \in Nat BY <1>3 DEF Rated
<1>5. r # k \/ T[1] >= w
  <2>1. CASE r = k
    <3>1. 1 \in 1..r /\ 1 \in 1..n BY <1>1, <1>2, <2>1
    <3>2. T[1] = q[1].age /\ T[1] \in Nat BY <1>1, <1>2, <3>1
    <3>3. QED BY <1>2, <2>1, <3>2
  <2>2. QED BY <2>1
<1>6. \A i \in 1..L : o[i] < w BY <1>2
<1>7. L = 0 \/ L <= n - r + k - 1 BY <1>3, <1>5, <1>6, RatedBounds
<1>8. QED BY <1>1, <1>2, <1>4, <1>7

\* The orders that stay in the window are the last of them.
LEMMA YoungSuffix ==
  ASSUME NEW L \in Nat, NEW o, Aging(o, L), NEW w \in Nat, NEW Y \in SUBSET (1..L),
         \A i \in 1..L : i \in Y <=> o[i] + 1 < w, NEW y, y = Cardinality(Y)
  PROVE  y \in 0..L /\ \A k \in 1..y : o[k + L - y] + 1 < w
<1> SUFFICES /\ Cardinality(Y) \in 0..L
             /\ \A k \in 1..Cardinality(Y) : o[k + L - Cardinality(Y)] + 1 < w
  OBVIOUS
<1>1. \A i \in Y : i \in 1..L /\ o[i] + 1 < w OBVIOUS
<1>2. Y \subseteq 1..L OBVIOUS
<1>3. o \in [1..L -> Nat] /\ \A i, j \in 1..L : i <= j => o[j] <= o[i] BY DEF Aging
<1>4. CASE Y = {}
  <2>1. IsFiniteSet(Y) /\ Cardinality(Y) = 0 BY <1>4, FS_EmptySet
  <2>2. Cardinality(Y) \in 0..L BY <2>1
  <2>3. \A k \in 1..Cardinality(Y) : FALSE BY <2>1
  <2>4. QED BY <2>1, <2>2, <2>3
<1>5. CASE Y # {}
  <2>1. Y \in SUBSET Nat BY <1>2
  <2>2. PICK x \in Y : \A z \in Y : x <= z BY <1>5, <2>1, LeastExists
  <2>3. x \in 1..L /\ o[x] \in Nat /\ o[x] + 1 < w BY <1>1, <1>2, <1>3, <2>2
  <2>4. ASSUME NEW j \in x..L PROVE j \in Y /\ o[j] + 1 < w
    <3>1. j \in 1..L /\ x <= j BY <2>3
    <3>2. o[j] <= o[x] /\ o[j] \in Nat BY <1>3, <2>3, <3>1
    <3>3. QED BY <1>1, <2>3, <3>1, <3>2
  <2>5. Y = x..L
    <3>1. \A j \in Y : j \in x..L
      <4>1. \A j \in Y : j \in 1..L /\ x <= j BY <1>2, <2>2
      <4>2. QED BY <2>3, <4>1
    <3>2. QED BY <2>4, <3>1, Zenon
  <2>6. IsFiniteSet(Y) /\ Cardinality(Y) = L - x + 1
    <3>1. x \in Int /\ L \in Int /\ x <= L BY <2>3
    <3>2. QED BY <2>5, <3>1, FS_Interval
  <2>7. PICK n \in 1..L : n = Cardinality(Y) /\ n = L - x + 1 BY <2>3, <2>6
  <2>8. \A k \in 1..n : k + L - n \in x..L BY <2>3, <2>7
  <2>9. \A k \in 1..n : o[k + L - n] + 1 < w BY <2>4, <2>8
  <2>10. QED BY <2>6, <2>7, <2>9
<1>6. QED BY <1>4, <1>5

-----------------------------------------------------------------------------
Recents == [sym : Symbols, age : Nat]
Notes == [sym : Symbols, level : ChanceLevels, side : {1, -1}, age : 0..1]

\* The rate: where the channel holds the records of two passes, each opening order of
\* the window has a record of its own that is not older, or the queue is full of such.
RateInv ==
  /\ evaluated \in SUBSET Symbols
  /\ recent \in Seq(Recents) /\ Len(recent) <= RecentCap
  /\ channel \in Seq(Notes) /\ Len(channel) <= ChannelCap
  /\ opened \in Seq(Nat) /\ Aging(opened, Len(opened))
  /\ \A i \in 1..Len(opened) : opened[i] < RateWindow
  /\ 2 * Cardinality(Symbols) <= ChannelCap =>
       /\ Len(opened) <= RecentCap - 1 + 2 * Cardinality(Symbols)
       /\ \E z : /\ Passing(channel, Len(channel), z) /\ z <= Cardinality(Symbols)
                 /\ Len(channel) - z <= Cardinality(evaluated)
       /\ Noted(recent, Len(recent), channel, Len(channel), opened, Len(opened))

\* An instance counts with the same operators.
LEMMA ChanceCounts ==
  ASSUME NEW S
  PROVE  Chance!Cardinality(S) = Cardinality(S) /\ Chance!IsFiniteSet(S) = IsFiniteSet(S)
BY DEF Chance!Cardinality, Cardinality, Chance!IsFiniteSet, IsFiniteSet

\* The start: no records.
LEMMA RateStart ==
  ASSUME Chance!ConstantsOK, Chance!Init
  PROVE  RateInv
<1>1. evaluated = {} /\ recent = <<>> /\ channel = <<>> /\ opened = <<>> BY DEF Chance!Init
<1>2. /\ recent \in Seq(Recents) /\ channel \in Seq(Notes) /\ opened \in Seq(Nat)
      /\ Len(recent) = 0 /\ Len(channel) = 0 /\ Len(opened) = 0 /\ opened \in [1..0 -> Nat]
  <2>1. \A S : <<>> \in Seq(S) BY EmptySeq
  <2>2. Len(<<>>) = 0 BY EmptySeq
  <2>3. <<>> \in [1..0 -> Nat] BY <2>1, <2>2, LenProperties
  <2>4. QED BY <1>1, <2>1, <2>2, <2>3
<1>3. RecentCap \in Nat \ {0} /\ ChannelCap \in Nat BY ChanceConstants
<1>4. Cardinality(Symbols) \in Nat /\ Cardinality(evaluated) \in Nat
  BY <1>1, ChanceConstants, FS_CardinalityType, FS_EmptySet
<1>5. Aging(opened, 0) BY <1>2 DEF Aging
<1>6. Passing(channel, 0, 0) BY DEF Passing
<1>7. Noted(recent, 0, channel, 0, opened, 0)
  <2>1. PICK T : T = [i \in 1..0 |-> 0] OBVIOUS
  <2>2. T \in [1..0 -> Nat] BY <2>1
  <2>3. 0 \in 0..RecentCap BY <1>3
  <2>4. Rated(0, 0, T, 0, opened, RecentCap) BY <1>2, <1>3, <2>2, <2>3 DEF Rated
  <2>5. 0 + 0 = 0 OBVIOUS
  <2>6. T \in [1..0 + 0 -> Nat] /\ Rated(0, 0 + 0, T, 0, opened, RecentCap) BY <2>2, <2>4, <2>5
  <2>7. (\A i \in 1..0 : T[i] = recent[i].age) /\ \A i \in 1..0 : T[0 + i] = channel[i].age
    OBVIOUS
  <2>8. QED BY ONLY <2>6, <2>7, 0 \in Nat, Zenon DEF Noted
<1>8. evaluated \in SUBSET Symbols BY <1>1
<1>9. 0 <= RecentCap /\ 0 <= ChannelCap /\ 0 <= RecentCap - 1 + 2 * Cardinality(Symbols)
  BY <1>3, <1>4
<1>10. \E z : /\ Passing(channel, Len(channel), z) /\ z <= Cardinality(Symbols)
              /\ Len(channel) - z <= Cardinality(evaluated)
  BY <1>2, <1>4, <1>6
<1>11. QED BY <1>2, <1>5, <1>7, <1>8, <1>9, <1>10 DEF RateInv

\* A step that touches no record.
LEMMA RateStill ==
  ASSUME RateInv, UNCHANGED <<evaluated, recent, channel, opened>>
  PROVE  RateInv'
BY Zenon DEF RateInv, Aging, Passing, Noted

\* The symbols that have had their turn, and one more.
LEMMA SetCounts ==
  ASSUME Chance!ConstantsOK, evaluated \in SUBSET Symbols, NEW s \in Symbols, s \notin evaluated
  PROVE  /\ Cardinality(Symbols) \in Nat /\ Cardinality(evaluated) \in Nat
         /\ Cardinality(evaluated \cup {s}) = Cardinality(evaluated) + 1
         /\ Cardinality(evaluated) + 1 <= Cardinality(Symbols)
<1>1. IsFiniteSet(Symbols) BY ChanceConstants
<1>2. IsFiniteSet(evaluated) /\ Cardinality(evaluated) \in Nat /\ Cardinality(Symbols) \in Nat
  BY <1>1, FS_Subset, FS_CardinalityType
<1>3. Cardinality(evaluated \cup {s}) = Cardinality(evaluated) + 1 BY <1>2, FS_AddElement, Zenon
<1>4. evaluated \cup {s} \in SUBSET Symbols OBVIOUS
<1>5. Cardinality(evaluated \cup {s}) <= Cardinality(Symbols) BY <1>1, <1>4, FS_Subset
<1>6. QED BY <1>2, <1>3, <1>5

\* The record of a chance in the channel.
LEMMA NoteIs ==
  ASSUME RateInv, NEW c, ChanceIs(c), c.level \in ChanceLevels, c.side \in {1, -1}, c.sym \in Symbols,
         NEW ch, ch = Chance!Recorded(c), ChannelCap \in Nat
  PROVE  /\ ch \in Seq(Notes) /\ Len(ch) <= ChannelCap
         /\ ch # channel => /\ Len(channel) < ChannelCap
                            /\ Len(ch) = Len(channel) + 1 /\ ch[Len(channel) + 1].age = 0
                            /\ \A i \in 1..Len(channel) : ch[i] = channel[i]
         /\ Len(channel) < ChannelCap => ch # channel
<1>1. channel \in Seq(Notes) /\ Len(channel) <= ChannelCap BY DEF RateInv
<1>2. Len(channel) \in Nat BY <1>1, LenProperties
<1>3. PICK e : e = [sym |-> c.sym, level |-> c.level, side |-> c.side, age |-> 0] BY Zenon
<1>4. e \in Notes /\ e.age = 0 BY <1>3 DEF Notes
<1>5. CASE Len(channel) < ChannelCap
  <2>1. ch = Append(channel, e) BY <1>3, <1>5 DEF Chance!Recorded
  <2>2. /\ ch \in Seq(Notes) /\ Len(ch) = Len(channel) + 1 /\ ch[Len(channel) + 1] = e
        /\ \A i \in 1..Len(channel) : ch[i] = channel[i]
    BY <1>1, <1>4, <2>1, Appended
  <2>3. ch # channel /\ Len(ch) <= ChannelCap BY <1>2, <1>5, <2>2
  <2>4. QED BY <1>4, <1>5, <2>2, <2>3
<1>6. CASE ~ (Len(channel) < ChannelCap)
  <2>1. ch = channel BY <1>6 DEF Chance!Recorded
  <2>2. QED BY <1>1, <1>6, <2>1
<1>7. QED BY <1>5, <1>6

\* What a chance does to the records and the openings.
LEMMA ChanceMoves ==
  ASSUME NEW s \in Symbols, Chance!HandleChance(s)
  PROVE  \E c : /\ ChanceIs(c) /\ c.level \in ChanceLevels /\ c.side \in {1, -1} /\ c.sym = s
                /\ Chance!RateAllows(c)
                /\ \/ channel' = Chance!Recorded(c) /\ opened' = Append(opened, 0)
                      /\ ~ Chance!Reduces(c)
                   \/ channel' = Chance!Recorded(c) /\ opened' = opened
                   \/ channel' = channel /\ opened' = opened
                /\ evaluated' = evaluated \cup {s} /\ s \notin evaluated /\ recent' = recent
<1>1. PICK side \in {Chance!Buy, Chance!Sell}, level \in ChanceLevels, size \in ChanceSizes,
           net \in {Chance!Buy, 0, Chance!Sell}, record \in Records, gap \in TimeGaps,
           dropped \in BOOLEAN :
        LET c == [sym |-> s, side |-> side, level |-> level, size |-> size,
                  net |-> net, record |-> record]
        IN  /\ Chance!Approves(c, gap)
            /\ channel' = IF dropped /\ version = "v7" THEN channel ELSE Chance!Recorded(c)
            /\ opened' = IF dropped \/ Chance!Reduces(c) THEN opened ELSE Append(opened, 0)
  BY DEF Chance!HandleChance
<1>2. PICK c : c = [sym |-> s, side |-> side, level |-> level, size |-> size,
                    net |-> net, record |-> record]
  BY Zenon
<1>3. /\ s \notin evaluated /\ evaluated' = evaluated \cup {s} /\ recent' = recent
  BY DEF Chance!HandleChance
<1>4. /\ Chance!RateAllows(c)
      /\ channel' = IF dropped /\ version = "v7" THEN channel ELSE Chance!Recorded(c)
      /\ opened' = IF dropped \/ Chance!Reduces(c) THEN opened ELSE Append(opened, 0)
  BY <1>1, <1>2 DEF Chance!Approves
<1>5. ChanceIs(c) /\ c.sym = s /\ c.level \in ChanceLevels
  BY <1>2 DEF ChanceIs, Chance!Buy, Chance!Sell
<1>6. c.side \in {1, -1} BY <1>5 DEF ChanceIs
<1>7. CASE dropped BY <1>3, <1>4, <1>5, <1>6, <1>7
<1>8. CASE ~dropped /\ Chance!Reduces(c) BY <1>3, <1>4, <1>5, <1>6, <1>8
<1>9. CASE ~dropped /\ ~Chance!Reduces(c) BY <1>3, <1>4, <1>5, <1>6, <1>9
<1>10. QED BY <1>7, <1>8, <1>9

\* One more opening order, just made.
LEMMA OpenedNow ==
  ASSUME RateWindow \in Nat \ {0}, opened \in Seq(Nat), Aging(opened, Len(opened)),
         \A i \in 1..Len(opened) : opened[i] < RateWindow, NEW op, op = Append(opened, 0)
  PROVE  /\ Len(opened) \in Nat /\ op \in Seq(Nat) /\ Len(op) = Len(opened) + 1
         /\ Aging(op, Len(opened) + 1) /\ Extended(Len(opened), opened, op)
         /\ \A i \in 1..Len(opened) + 1 : op[i] < RateWindow
<1>1. PICK n \in Nat : n = Len(opened) BY LenProperties
<1>2. /\ op \in Seq(Nat) /\ Len(op) = n + 1 /\ op[n + 1] = 0 /\ \A i \in 1..n : op[i] = opened[i]
      /\ DOMAIN op = 1..n + 1
  BY <1>1, Appended
<1>3. op \in [1..n + 1 -> Nat] BY <1>2, LenProperties, Zenon
<1>4. opened \in [1..n -> Nat] /\ \A i, j \in 1..n : i <= j => opened[j] <= opened[i]
  BY <1>1 DEF Aging
<1>5. ASSUME NEW i \in 1..n + 1, NEW j \in 1..n + 1, i <= j PROVE op[j] <= op[i]
  <2>1. CASE j = n + 1 BY <1>2, <1>3, <2>1
  <2>2. CASE j # n + 1
    <3>1. i \in 1..n /\ j \in 1..n BY <1>5, <2>2
    <3>2. QED BY <1>2, <1>4, <1>5, <3>1
  <2>3. QED BY <2>1, <2>2, Zenon
<1>6. ASSUME NEW i \in 1..n + 1 PROVE op[i] < RateWindow
  <2>1. CASE i = n + 1 BY <1>2, <2>1
  <2>2. CASE i # n + 1
    <3>1. i \in 1..n BY <2>2
    <3>2. QED BY <1>1, <1>2, <3>1
  <2>3. QED BY <2>1, <2>2, Zenon
<1>7. Aging(op, n + 1) BY <1>3, <1>5, Zenon DEF Aging
<1>8. Extended(n, opened, op) BY <1>2, <1>3 DEF Extended
<1>9. QED BY <1>1, <1>2, <1>6, <1>7, <1>8

\* A chance keeps the rate: the channel is not full while it holds at most two passes,
\* and what the rate allows finds fewer than the bound.
LEMMA RateChance ==
  ASSUME Chance!ConstantsOK, RateInv, NEW s \in Symbols, Chance!HandleChance(s)
  PROVE  RateInv'
<1>1. PICK c : /\ ChanceIs(c) /\ c.level \in ChanceLevels /\ c.side \in {1, -1} /\ c.sym = s
               /\ Chance!RateAllows(c)
               /\ \/ channel' = Chance!Recorded(c) /\ opened' = Append(opened, 0)
                     /\ ~ Chance!Reduces(c)
                  \/ channel' = Chance!Recorded(c) /\ opened' = opened
                  \/ channel' = channel /\ opened' = opened
               /\ evaluated' = evaluated \cup {s} /\ s \notin evaluated /\ recent' = recent
  BY ChanceMoves
<1>2. /\ evaluated \in SUBSET Symbols
      /\ recent \in Seq(Recents) /\ Len(recent) <= RecentCap
      /\ channel \in Seq(Notes) /\ Len(channel) <= ChannelCap
      /\ opened \in Seq(Nat) /\ Aging(opened, Len(opened))
      /\ \A i \in 1..Len(opened) : opened[i] < RateWindow
  BY DEF RateInv
<1>3. PICK cap \in Nat \ {0}, room \in Nat, w \in Nat \ {0} :
        cap = RecentCap /\ room = ChannelCap /\ w = RateWindow
  BY ChanceConstants
<1>4. PICK k \in Nat, e \in Nat : /\ k = Cardinality(Symbols) /\ e = Cardinality(evaluated)
                                  /\ Cardinality(evaluated') = e + 1 /\ e + 1 <= k
  BY <1>1, <1>2, SetCounts, Zenon
<1>5. PICK r \in Nat, m \in Nat, L \in Nat : r = Len(recent) /\ m = Len(channel) /\ L = Len(opened)
  BY <1>2, LenProperties
<1>6. PICK ch, op : ch = channel' /\ op = opened' OBVIOUS
<1>7. ch = channel \/ ch = Chance!Recorded(c) BY <1>1, <1>6
<1>8. /\ ch \in Seq(Notes) /\ Len(ch) <= room
      /\ ch # channel => /\ Len(ch) = m + 1 /\ ch[m + 1].age = 0
                         /\ \A i \in 1..m : ch[i] = channel[i]
      /\ (ch = Chance!Recorded(c) /\ m < room) => ch # channel
  <2>1. CASE ch = channel
    <3>1. ch = Chance!Recorded(c) /\ m < room => FALSE
      BY <1>1, <1>3, <1>5, <2>1, NoteIs
    <3>2. QED BY <1>2, <1>3, <2>1, <3>1
  <2>2. CASE ch = Chance!Recorded(c) BY <1>1, <1>3, <1>5, <2>2, NoteIs
  <2>3. QED BY <1>7, <2>1, <2>2
<1>9. op = opened \/ (op = Append(opened, 0) /\ ch = Chance!Recorded(c) /\ ~ Chance!Reduces(c))
  BY <1>1, <1>6
<1>10. op = Append(opened, 0) =>
         /\ op \in Seq(Nat) /\ Len(op) = L + 1 /\ Aging(op, L + 1) /\ Extended(L, opened, op)
         /\ \A i \in 1..L + 1 : op[i] < RateWindow
  BY <1>2, <1>3, <1>5, OpenedNow, Zenon
<1>11. /\ op \in Seq(Nat) /\ Aging(op, Len(op))
       /\ \A i \in 1..Len(op) : op[i] < RateWindow
  <2>1. CASE op = opened BY <1>2, <2>1
  <2>2. CASE op = Append(opened, 0)
    <3>1. PICK j : j = L + 1 OBVIOUS
    <3>2. /\ op \in Seq(Nat) /\ Len(op) = j /\ Aging(op, j) /\ \A i \in 1..j : op[i] < RateWindow
      BY <1>10, <2>2, <3>1
    <3>3. QED BY <3>2
  <2>3. QED BY <1>9, <2>1, <2>2
<1>12. ASSUME 2 * k <= room
       PROVE  /\ Len(op) <= cap - 1 + 2 * k
              /\ \E z : /\ Passing(ch, Len(ch), z) /\ z <= k /\ Len(ch) - z <= e + 1
              /\ Noted(recent, r, ch, Len(ch), op, Len(op))
  <2>1. /\ L <= cap - 1 + 2 * k
        /\ \E z : Passing(channel, m, z) /\ z <= k /\ m - z <= e
        /\ Noted(recent, r, channel, m, opened, L)
    BY <1>3, <1>4, <1>5, <1>12 DEF RateInv
  <2>2. PICK z : Passing(channel, m, z) /\ z <= k /\ m - z <= e BY <2>1
  <2>3. z \in 0..m /\ \A i \in 1..m : channel[i].age = IF i <= z THEN 1 ELSE 0
    BY <2>2 DEF Passing
  <2>4. m < room BY <1>4, <1>12, <2>2, <2>3
  <2>5. CASE ch = channel
    <3>1. op = opened BY <1>8, <1>9, <2>4, <2>5
    <3>2. m - z <= e + 1 BY <1>4, <2>2, <2>3
    <3>3. QED BY <1>5, <2>1, <2>2, <2>5, <3>1, <3>2
  <2>6. CASE ch # channel
    <3>1. Len(ch) = m + 1 /\ ch[m + 1].age = 0 /\ \A i \in 1..m : ch[i] = channel[i]
      BY <1>8, <2>6
    <3>2. Passing(ch, m + 1, z) /\ (m + 1) - z <= e + 1
      <4>1. ASSUME NEW i \in 1..m + 1 PROVE ch[i].age = IF i <= z THEN 1 ELSE 0
        <5>1. CASE i = m + 1
          <6>1. ~ (i <= z) BY <2>3, <5>1
          <6>2. QED BY <3>1, <5>1, <6>1
        <5>2. CASE i # m + 1
          <6>1. i \in 1..m BY <5>2
          <6>2. QED BY <2>3, <3>1, <6>1
        <5>3. QED BY <5>1, <5>2
      <4>2. z \in 0..m + 1 /\ (m + 1) - z <= e + 1 BY <1>4, <2>2, <2>3
      <4>3. QED BY <4>1, <4>2 DEF Passing
    <3>3. PICK m2 \in Nat : m2 = m + 1 OBVIOUS
    <3>4. \E y : Passing(ch, Len(ch), y) /\ y <= k /\ Len(ch) - y <= e + 1
      BY <2>2, <3>1, <3>2, <3>3
    <3>5. CASE op = opened
      <4>1. Noted(recent, r, ch, m + 1, opened, L) BY <2>1, <3>1, NotedRecord, Zenon
      <4>2. QED BY <1>5, <2>1, <3>1, <3>4, <3>5, <4>1
    <3>6. CASE op # opened
      <4>1. op = Append(opened, 0) /\ ~ Chance!Reduces(c) BY <1>9, <3>6
      <4>2. Len(op) = L + 1 /\ Extended(L, opened, op) BY <1>10, <4>1
      <4>3. Noted(recent, r, ch, m + 1, op, L + 1) BY <2>1, <3>1, <4>2, NotedOpen, Zenon
      <4>4. ~ (r = RecentCap /\ recent[1].age < RateWindow)
        BY <1>1, <1>5, <4>1 DEF Chance!RateAllows, Chance!TooMany, Chance!Full
      <4>5. L = 0 \/ L <= m + RecentCap - 1
        <5>1. \A i \in 1..L : opened[i] < RateWindow BY <1>2, <1>5
        <5>2. RecentCap \in Nat \ {0} /\ RateWindow \in Nat BY <1>3
        <5>3. QED BY <2>1, <4>4, <5>1, <5>2, NotedBounds
      <4>6. L + 1 <= cap - 1 + 2 * k
        <5>1. m <= 2 * k - 1 /\ k >= 1 BY <1>4, <2>2, <2>3
        <5>2. L = 0 \/ L <= m + cap - 1 BY <1>3, <4>5
        <5>3. QED BY ONLY <5>1, <5>2, m \in Nat, L \in Nat, k \in Nat, cap \in Nat \ {0}
      <4>7. QED BY <3>1, <3>4, <4>2, <4>3, <4>6
    <3>7. QED BY <3>5, <3>6
  <2>7. QED BY <2>5, <2>6
<1>13. evaluated' \in SUBSET Symbols BY <1>1, <1>2
<1>14. recent' = recent /\ Len(recent') = r BY <1>1, <1>5
<1>15. 2 * Cardinality(Symbols) <= ChannelCap =>
       /\ Len(opened') <= RecentCap - 1 + 2 * Cardinality(Symbols)
       /\ \E z : /\ Passing(channel', Len(channel'), z) /\ z <= Cardinality(Symbols)
                 /\ Len(channel') - z <= Cardinality(evaluated')
       /\ Noted(recent', Len(recent'), channel', Len(channel'), opened', Len(opened'))
  BY <1>3, <1>4, <1>6, <1>12, <1>14
<1>16. /\ recent' \in Seq(Recents) /\ Len(recent') <= RecentCap
       /\ channel' \in Seq(Notes) /\ Len(channel') <= ChannelCap
       /\ opened' \in Seq(Nat) /\ Aging(opened', Len(opened'))
       /\ \A i \in 1..Len(opened') : opened'[i] < RateWindow
  BY <1>2, <1>3, <1>6, <1>8, <1>11, <1>14
<1>17. QED BY <1>13, <1>15, <1>16, Zenon DEF RateInv, Aging, Passing, Noted

\* The record thread moves the oldest record of the channel to the queue.
LEMMA RateRecord ==
  ASSUME Chance!ConstantsOK, RateInv, Chance!Record
  PROVE  RateInv'
<1>1. /\ evaluated \in SUBSET Symbols
      /\ recent \in Seq(Recents) /\ Len(recent) <= RecentCap
      /\ channel \in Seq(Notes) /\ Len(channel) <= ChannelCap
      /\ opened \in Seq(Nat) /\ Aging(opened, Len(opened))
      /\ \A i \in 1..Len(opened) : opened[i] < RateWindow
  BY DEF RateInv
<1>2. channel # <<>> /\ channel' = Tail(channel) /\ UNCHANGED <<evaluated, opened>>
  BY DEF Chance!Record
<1>3. PICK cap \in Nat \ {0} : cap = RecentCap BY ChanceConstants
<1>4. PICK r \in Nat, m \in Nat \ {0} : r = Len(recent) /\ m = Len(channel)
  BY <1>1, <1>2, LenProperties, EmptySeq
<1>5. PICK ch : ch = channel' OBVIOUS
<1>6. /\ ch \in Seq(Notes) /\ Len(ch) = m - 1 /\ \A i \in 1..m - 1 : ch[i] = channel[i + 1]
      /\ Head(channel) = channel[1] /\ channel[1] \in Notes
  BY <1>1, <1>2, <1>4, <1>5, Tailed
<1>7. PICK n : n = [sym |-> Head(channel).sym, age |-> Head(channel).age] BY Zenon
<1>8. n \in Recents /\ n.age = channel[1].age BY <1>6, <1>7 DEF Recents, Notes
<1>9. PICK g : g = Append(recent, n) BY Zenon
<1>10. /\ g \in Seq(Recents) /\ Len(g) = r + 1 /\ g[r + 1] = n /\ g # <<>>
       /\ \A i \in 1..r : g[i] = recent[i]
  <2>1. /\ g \in Seq(Recents) /\ Len(g) = Len(recent) + 1 /\ g[Len(recent) + 1] = n /\ g # <<>>
        /\ \A i \in 1..Len(recent) : g[i] = recent[i]
    <3>1. recent \in Seq(Recents) /\ n \in Recents /\ g = Append(recent, n) BY <1>1, <1>8, <1>9
    <3>2. QED BY ONLY <3>1, Appended
  <2>2. QED BY <1>4, <2>1
<1>11. PICK q : q = recent' OBVIOUS
<1>12. q = IF Len(g) > RecentCap THEN Tail(g) ELSE g
  BY <1>7, <1>9, <1>11 DEF Chance!Record
<1>13. PICK k \in Nat, e \in Nat : k = Cardinality(Symbols) /\ e = Cardinality(evaluated)
  BY <1>1, ChanceConstants, FS_Subset, FS_CardinalityType, Zenon
<1>14. ASSUME NEW z, Passing(channel, m, z), z <= k, m - z <= e
       PROVE  \E y : Passing(ch, m - 1, y) /\ y <= k /\ (m - 1) - y <= e
  <2>1. z \in 0..m /\ \A i \in 1..m : channel[i].age = IF i <= z THEN 1 ELSE 0
    BY <1>14 DEF Passing
  <2>2. PICK y \in 0..m - 1 : y = IF z = 0 THEN 0 ELSE z - 1 BY <2>1
  <2>3. ASSUME NEW i \in 1..m - 1 PROVE ch[i].age = IF i <= y THEN 1 ELSE 0
    <3>1. i + 1 \in 1..m OBVIOUS
    <3>2. ch[i].age = IF i + 1 <= z THEN 1 ELSE 0 BY <1>6, <2>1, <3>1
    <3>3. i + 1 <= z <=> i <= y BY <2>1, <2>2
    <3>4. QED BY <3>2, <3>3
  <2>4. y <= k /\ (m - 1) - y <= e BY <1>14, <2>1, <2>2
  <2>5. Passing(ch, m - 1, y) BY <2>3 DEF Passing
  <2>6. QED BY <2>4, <2>5
<1>15. ASSUME NEW L, Noted(recent, r, channel, m, opened, L)
       PROVE  Noted(q, Len(q), ch, m - 1, opened, L)
  <2>1. m >= 1 OBVIOUS
  <2>2. \A i \in 1..m - 1 : ch[i] = channel[i + 1] BY <1>6
  <2>3. CASE r < cap
    <3>1. q = g BY <1>3, <1>10, <1>12, <2>3
    <3>2. (\A i \in 1..r : q[i] = recent[i]) /\ q[r + 1].age = channel[1].age
      BY <1>8, <1>10, <3>1
    <3>3. r < RecentCap BY <1>3, <2>3
    <3>4. Noted(q, r + 1, ch, m - 1, opened, L)
      BY ONLY <1>15, <2>1, <2>2, <3>2, <3>3, NotedJoin
    <3>5. QED BY <1>10, <3>1, <3>4
  <2>4. CASE r = cap
    <3>1. q = Tail(g) BY <1>3, <1>10, <1>12, <2>4
    <3>2. Len(q) = r /\ \A i \in 1..r : q[i] = g[i + 1]
      <4>1. Len(q) = Len(g) - 1 /\ \A i \in 1..Len(g) - 1 : q[i] = g[i + 1]
        BY <1>10, <3>1, Tailed
      <4>2. Len(g) - 1 = r BY <1>10
      <4>3. QED BY <4>1, <4>2
    <3>3. \A i \in 1..r - 1 : q[i] = recent[i + 1]
      <4>1. \A i \in 1..r - 1 : i \in 1..r /\ i + 1 \in 1..r OBVIOUS
      <4>2. QED BY <1>10, <3>2, <4>1
    <3>4. q[r].age = channel[1].age
      <4>1. r \in 1..r BY <2>4
      <4>2. q[r] = g[r + 1] BY <3>2, <4>1
      <4>3. QED BY <1>8, <1>10, <4>2
    <3>5. r = RecentCap BY <1>3, <2>4
    <3>6. Noted(q, r, ch, m - 1, opened, L)
      BY ONLY <1>15, <2>1, <2>2, <3>3, <3>4, <3>5, NotedMove
    <3>7. QED BY <3>2, <3>6
  <2>5. QED BY <1>1, <1>3, <1>4, <2>3, <2>4
<1>16. q \in Seq(Recents) /\ Len(q) <= RecentCap
  <2>1. CASE Len(g) > RecentCap
    <3>1. q \in Seq(Recents) /\ Len(q) = Len(g) - 1 BY <1>10, <1>12, <2>1, Tailed
    <3>2. QED BY <1>1, <1>3, <1>4, <1>10, <3>1
  <2>2. CASE ~ (Len(g) > RecentCap)
    <3>1. q = g BY <1>12, <2>2
    <3>2. QED BY <1>3, <1>10, <2>2, <3>1
  <2>3. QED BY <2>1, <2>2
<1>17. 2 * k <= ChannelCap =>
       /\ Len(opened) <= RecentCap - 1 + 2 * k
       /\ \E y : Passing(ch, Len(ch), y) /\ y <= k /\ Len(ch) - y <= e
       /\ Noted(q, Len(q), ch, Len(ch), opened, Len(opened))
  <2>1. 2 * k <= ChannelCap =>
           /\ Len(opened) <= RecentCap - 1 + 2 * k
           /\ \E z : Passing(channel, m, z) /\ z <= k /\ m - z <= e
           /\ Noted(recent, r, channel, m, opened, Len(opened))
    BY <1>4, <1>13 DEF RateInv
  <2>2. Len(ch) = m - 1 BY <1>6
  <2>3. QED BY <1>14, <1>15, <2>1, <2>2
<1>18. opened' = opened /\ evaluated' = evaluated BY <1>2
<1>19. 2 * Cardinality(Symbols) <= ChannelCap =>
       /\ Len(opened') <= RecentCap - 1 + 2 * Cardinality(Symbols)
       /\ \E z : /\ Passing(channel', Len(channel'), z) /\ z <= Cardinality(Symbols)
                 /\ Len(channel') - z <= Cardinality(evaluated')
       /\ Noted(recent', Len(recent'), channel', Len(channel'), opened', Len(opened'))
  BY <1>5, <1>11, <1>13, <1>17, <1>18
<1>20. Len(channel') <= ChannelCap
  <2>1. ChannelCap \in Nat BY ChanceConstants
  <2>2. QED BY <1>1, <1>4, <1>5, <1>6, <2>1
<1>21. /\ recent' \in Seq(Recents) /\ Len(recent') <= RecentCap
       /\ channel' \in Seq(Notes) /\ Len(channel') <= ChannelCap
       /\ opened' \in Seq(Nat) /\ Aging(opened', Len(opened'))
       /\ \A i \in 1..Len(opened') : opened'[i] < RateWindow
       /\ evaluated' \in SUBSET Symbols
  BY <1>1, <1>5, <1>6, <1>11, <1>16, <1>18, <1>20
<1>22. QED BY <1>19, <1>21, Zenon DEF RateInv, Aging, Passing, Noted

-----------------------------------------------------------------------------
\* The ages a pass gives to a sequence of records.
LEMMA PassedAges ==
  ASSUME Chance!ConstantsOK, NEW S, NEW q \in Seq(S), \A e \in S : e.age \in Nat,
         \A e \in S, a \in Nat : [e EXCEPT !.age = a].age = a, NEW m, m = Chance!Aged(q)
  PROVE  /\ Len(q) \in Nat /\ Len(m) = Len(q) /\ DOMAIN m = 1..Len(q)
         /\ m = [i \in 1..Len(q) |-> [q[i] EXCEPT !.age = Chance!Older(q[i].age)]]
         /\ \A i \in 1..Len(q) : m[i].age = Chance!Older(q[i].age)
<1>1. PICK n \in Nat : n = Len(q) /\ DOMAIN q = 1..n BY LenProperties
<1>2. m = [i \in 1..n |-> [q[i] EXCEPT !.age = Chance!Older(q[i].age)]]
  BY <1>1 DEF Chance!Aged
<1>3. ASSUME NEW i \in 1..n PROVE m[i].age = Chance!Older(q[i].age)
  <2>1. PICK e \in S : e = q[i] BY <1>1, ElementOfSeq
  <2>2. PICK a \in Nat : a = Chance!Older(e.age) BY <2>1, OlderIs
  <2>3. m[i] = [e EXCEPT !.age = a] BY <1>2, <2>1, <2>2
  <2>4. QED BY <2>1, <2>2, <2>3
<1>4. DOMAIN m = 1..n /\ Len(m) = n BY <1>2
<1>5. QED BY <1>1, <1>2, <1>3, <1>4

\* The next pass: all records of the channel are of this pass, and a pass older then.
LEMMA RatePass ==
  ASSUME Chance!ConstantsOK, RateInv, Chance!NextPass
  PROVE  RateInv'
<1>1. /\ evaluated \in SUBSET Symbols
      /\ recent \in Seq(Recents) /\ Len(recent) <= RecentCap
      /\ channel \in Seq(Notes) /\ Len(channel) <= ChannelCap
      /\ opened \in Seq(Nat) /\ Aging(opened, Len(opened))
      /\ \A i \in 1..Len(opened) : opened[i] < RateWindow
  BY DEF RateInv
<1>2. /\ \A i \in DOMAIN channel : channel[i].age = 0
      /\ evaluated' = {} /\ recent' = Chance!Aged(recent) /\ channel' = Chance!Aged(channel)
  BY DEF Chance!NextPass
<1>3. PICK cap \in Nat \ {0}, room \in Nat, w \in Nat \ {0} :
        cap = RecentCap /\ room = ChannelCap /\ w = RateWindow
  BY ChanceConstants
<1>4. PICK k \in Nat, e \in Nat : k = Cardinality(Symbols) /\ e = Cardinality(evaluated) /\ e <= k
  BY <1>1, ChanceConstants, FS_Subset, FS_CardinalityType, Zenon
<1>5. PICK r \in Nat, m \in Nat, L \in Nat :
        /\ r = Len(recent) /\ m = Len(channel) /\ L = Len(opened)
        /\ DOMAIN recent = 1..r /\ DOMAIN channel = 1..m /\ DOMAIN opened = 1..L
  BY <1>1, LenProperties
<1>6. PICK q, ch, op : q = recent' /\ ch = channel' /\ op = opened' OBVIOUS
<1>7. /\ Len(q) = r /\ (\A i \in 1..r : q[i].age = Chance!Older(recent[i].age))
      /\ q = [i \in 1..r |-> [recent[i] EXCEPT !.age = Chance!Older(recent[i].age)]]
  <2>1. \A x \in Recents : x.age \in Nat BY DEF Recents
  <2>2. \A x \in Recents, a \in Nat : [x EXCEPT !.age = a].age = a BY DEF Recents
  <2>3. recent \in Seq(Recents) /\ q = Chance!Aged(recent) BY <1>1, <1>2, <1>6
  <2>4. /\ Len(q) = Len(recent)
        /\ q = [i \in 1..Len(recent) |-> [recent[i] EXCEPT !.age = Chance!Older(recent[i].age)]]
        /\ \A i \in 1..Len(recent) : q[i].age = Chance!Older(recent[i].age)
    BY <2>1, <2>2, <2>3, PassedAges
  <2>5. QED BY <1>5, <2>4, Zenon
<1>8. /\ Len(ch) = m /\ (\A i \in 1..m : ch[i].age = Chance!Older(channel[i].age))
      /\ ch = [i \in 1..m |-> [channel[i] EXCEPT !.age = Chance!Older(channel[i].age)]]
  <2>1. \A x \in Notes : x.age \in Nat BY DEF Notes
  <2>2. \A x \in Notes, a \in Nat : [x EXCEPT !.age = a].age = a BY DEF Notes
  <2>3. channel \in Seq(Notes) /\ ch = Chance!Aged(channel) BY <1>1, <1>2, <1>6
  <2>4. /\ Len(ch) = Len(channel)
        /\ ch = [i \in 1..Len(channel) |-> [channel[i] EXCEPT !.age = Chance!Older(channel[i].age)]]
        /\ \A i \in 1..Len(channel) : ch[i].age = Chance!Older(channel[i].age)
    BY <2>1, <2>2, <2>3, PassedAges
  <2>5. QED BY <1>5, <2>4, Zenon
<1>9. q \in Seq(Recents)
  <2>1. ASSUME NEW i \in 1..r
        PROVE  [recent[i] EXCEPT !.age = Chance!Older(recent[i].age)] \in Recents
    <3>1. PICK x \in Recents : x = recent[i] BY <1>1, <1>5, ElementOfSeq
    <3>2. x.age \in Nat BY DEF Recents
    <3>3. PICK a \in Nat : a = Chance!Older(x.age) BY <3>2, OlderIs, Zenon
    <3>4. [x EXCEPT !.age = a] \in Recents BY DEF Recents
    <3>5. QED BY <3>1, <3>3, <3>4
  <2>2. q \in [1..r -> Recents] BY <1>7, <2>1
  <2>3. QED BY <2>2, SeqDef
<1>10. \A i \in 1..m : channel[i].age = 0 /\ ch[i].age = 1 BY <1>2, <1>5, <1>8, OlderIs, Zenon
<1>11. ch \in Seq(Notes)
  <2>1. ASSUME NEW i \in 1..m
        PROVE  [channel[i] EXCEPT !.age = Chance!Older(channel[i].age)] \in Notes
    <3>1. PICK x \in Notes : x = channel[i] BY <1>1, <1>5, ElementOfSeq
    <3>2. Chance!Older(x.age) = 1 BY <1>10, <3>1, OlderIs, Zenon
    <3>3. [x EXCEPT !.age = 1] \in Notes BY DEF Notes
    <3>4. QED BY <3>1, <3>2, <3>3
  <2>2. ch \in [1..m -> Notes] BY <1>8, <2>1
  <2>3. QED BY <2>2, SeqDef
<1>12. PICK y : y = Cardinality({i \in 1..L : opened[i] + 1 < w}) OBVIOUS
<1>13. /\ y \in 0..L /\ \A i \in 1..y : opened[i + L - y] + 1 < w
  <2>1. Aging(opened, L) BY <1>1, <1>5
  <2>2. PICK Y : Y = {i \in 1..L : opened[i] + 1 < w} BY Zenon
  <2>3. Y \in SUBSET (1..L) /\ \A i \in 1..L : i \in Y <=> opened[i] + 1 < w BY <2>2
  <2>4. y = Cardinality(Y) BY <1>12, <2>2
  <2>5. QED BY ONLY <2>1, <2>3, <2>4, L \in Nat, w \in Nat, YoungSuffix
<1>14. op = [i \in 1..y |-> opened[i + L - y] + 1]
  <2>1. opened' = LET young == {i \in DOMAIN opened : opened[i] + 1 < RateWindow}
                  IN  [i \in 1 .. Chance!Cardinality(young) |->
                         opened[i + Len(opened) - Chance!Cardinality(young)] + 1]
    BY DEF Chance!NextPass
  <2>2. PICK Y : Y = {i \in DOMAIN opened : opened[i] + 1 < RateWindow} BY Zenon
  <2>3. opened' = [i \in 1 .. Chance!Cardinality(Y) |->
                     opened[i + Len(opened) - Chance!Cardinality(Y)] + 1]
    BY <2>1, <2>2
  <2>4. Chance!Cardinality(Y) = Cardinality(Y) BY ChanceCounts
  <2>5. Y = {i \in 1..L : opened[i] + 1 < w} BY <1>3, <1>5, <2>2
  <2>6. QED BY <1>5, <1>6, <1>12, <2>3, <2>4, <2>5
<1>15. opened \in [1..L -> Nat] /\ \A i, j \in 1..L : i <= j => opened[j] <= opened[i]
  BY <1>1, <1>5 DEF Aging
<1>16. \A i \in 1..y : i + L - y \in 1..L BY <1>13
<1>17. /\ op \in [1..y -> Nat] /\ \A i \in 1..y : op[i] = opened[i + L - y] + 1 /\ op[i] < w
  <2>1. \A i \in 1..y : opened[i + L - y] \in Nat BY <1>15, <1>16
  <2>2. ASSUME NEW i \in 1..y
        PROVE  opened[i + L - y] + 1 \in Nat /\ opened[i + L - y] + 1 < w
    <3>1. opened[i + L - y] \in Nat BY <2>1
    <3>2. opened[i + L - y] + 1 < w BY <1>13
    <3>3. QED BY <3>1, <3>2
  <2>3. op \in [1..y -> Nat] BY ONLY <1>14, <2>2
  <2>4. \A i \in 1..y : op[i] = opened[i + L - y] + 1 BY ONLY <1>14
  <2>5. QED BY <2>2, <2>3, <2>4
<1>18. op \in Seq(Nat) /\ Len(op) = y
  <2>1. y \in Nat BY <1>13
  <2>2. QED BY <1>17, <2>1
<1>19. Aging(op, y)
  <2>1. ASSUME NEW i \in 1..y, NEW j \in 1..y, i <= j PROVE op[j] <= op[i]
    <3>1. i + L - y \in 1..L /\ j + L - y \in 1..L /\ i + L - y <= j + L - y BY <1>13, <1>16, <2>1
    <3>2. opened[j + L - y] <= opened[i + L - y] BY <1>15, <3>1
    <3>3. opened[j + L - y] \in Nat /\ opened[i + L - y] \in Nat BY <1>15, <3>1
    <3>4. QED BY <1>17, <3>2, <3>3
  <2>2. QED BY <1>17, <2>1 DEF Aging
<1>20. ASSUME 2 * k <= room
       PROVE  /\ Len(op) <= cap - 1 + 2 * k
              /\ \E z : /\ Passing(ch, Len(ch), z) /\ z <= k /\ Len(ch) - z <= 0
              /\ Noted(q, r, ch, m, op, y)
  <2>1. /\ L <= cap - 1 + 2 * k
        /\ \E z : Passing(channel, m, z) /\ z <= k /\ m - z <= e
        /\ Noted(recent, r, channel, m, opened, L)
    BY <1>3, <1>4, <1>5, <1>20 DEF RateInv
  <2>2. PICK z : Passing(channel, m, z) /\ z <= k /\ m - z <= e BY <2>1
  <2>3. z = 0
    <3>1. z \in 0..m /\ \A i \in 1..m : channel[i].age = IF i <= z THEN 1 ELSE 0
      BY <2>2 DEF Passing
    <3>2. CASE z >= 1
      <4>1. z \in 1..m BY <3>1, <3>2
      <4>2. QED BY <1>10, <3>1, <4>1
    <3>3. QED BY <3>1, <3>2
  <2>4. m <= k BY <1>4, <2>2, <2>3
  <2>5. Passing(ch, m, m) BY <1>10 DEF Passing
  <2>6. Noted(q, r, ch, m, op, y)
    <3>1. Later(recent, q, r) BY <1>7, Zenon DEF Later
    <3>2. Later(channel, ch, m) BY <1>8, Zenon DEF Later
    <3>3. Remain(opened, L, op, y) BY <1>13, <1>17 DEF Remain
    <3>4. QED BY <2>1, <3>1, <3>2, <3>3, NotedPass
  <2>7. Len(op) <= cap - 1 + 2 * k BY <1>13, <1>18, <2>1
  <2>8. Passing(ch, Len(ch), m) /\ m <= k /\ Len(ch) - m <= 0 BY <1>8, <2>4, <2>5
  <2>9. QED BY <2>6, <2>7, <2>8
<1>21. Cardinality(evaluated') = 0 BY <1>2, FS_EmptySet
<1>22. 2 * Cardinality(Symbols) <= ChannelCap =>
       /\ Len(opened') <= RecentCap - 1 + 2 * Cardinality(Symbols)
       /\ \E z : /\ Passing(channel', Len(channel'), z) /\ z <= Cardinality(Symbols)
                 /\ Len(channel') - z <= Cardinality(evaluated')
       /\ Noted(recent', Len(recent'), channel', Len(channel'), opened', Len(opened'))
  BY <1>3, <1>4, <1>6, <1>7, <1>8, <1>18, <1>20, <1>21, Zenon
<1>23. /\ evaluated' \in SUBSET Symbols
       /\ recent' \in Seq(Recents) /\ Len(recent') <= RecentCap
       /\ channel' \in Seq(Notes) /\ Len(channel') <= ChannelCap
       /\ opened' \in Seq(Nat) /\ Aging(opened', Len(opened'))
       /\ \A i \in 1..Len(opened') : opened'[i] < RateWindow
  <2>1. evaluated' \in SUBSET Symbols BY <1>2
  <2>2. Aging(op, Len(op)) /\ \A i \in 1..Len(op) : op[i] < RateWindow BY <1>3, <1>17, <1>18, <1>19
  <2>3. QED BY <1>1, <1>5, <1>6, <1>7, <1>8, <1>9, <1>11, <1>18, <2>1, <2>2, Zenon
<1>24. QED BY <1>22, <1>23, Zenon DEF RateInv, Aging, Passing, Noted

-----------------------------------------------------------------------------
\* So every step keeps the rate.
LEMMA RateStep ==
  ASSUME Chance!ConstantsOK, RateInv, Chance!Next
  PROVE  RateInv'
<1>1. CASE \E s \in Symbols : Chance!HandleChance(s) BY <1>1, RateChance
<1>2. CASE Chance!Record BY <1>2, RateRecord
<1>3. CASE Chance!Send BY <1>3, RateStill DEF Chance!Send
<1>4. CASE Chance!Learn BY <1>4, RateStill DEF Chance!Learn
<1>5. CASE Chance!NextPass BY <1>5, RatePass
<1>6. QED BY <1>1, <1>2, <1>3, <1>4, <1>5 DEF Chance!Next

\* The invariant gives the bound on the openings of a window.
LEMMA RateHolds ==
  ASSUME Chance!ConstantsOK, RateInv
  PROVE  Chance!RateBounded
BY ChanceCounts DEF RateInv, Chance!RateBounded

\* Both invariants give the types of an approval.
LEMMA ChanceTypes ==
  ASSUME Chance!ConstantsOK, RateInv, ExposureInv
  PROVE  Chance!TypeOK
<1>1. /\ version \in Strategies /\ evaluated \subseteq Symbols
      /\ position \in [Symbols -> Int] /\ real \in [Symbols -> Int]
      /\ Len(recent) <= RecentCap /\ Len(channel) <= ChannelCap
  BY DEF ExposureInv, RateInv
<1>2. DOMAIN queue = 1..Len(queue) BY LenProperties DEF ExposureInv
<1>3. \A i \in DOMAIN queue : queue[i].sym \in Symbols /\ queue[i].size # 0
  <2>1. \A i \in DOMAIN queue : queue[i] \in Pending BY <1>2, ExposureFacts
  <2>2. QED BY <2>1 DEF Pending
<1>4. \A i \in DOMAIN opened : opened[i] \in 0..RateWindow
  <2>1. /\ opened \in Seq(Nat) /\ \A i \in 1..Len(opened) : opened[i] < RateWindow
    BY DEF RateInv
  <2>2. DOMAIN opened = 1..Len(opened) /\ \A i \in 1..Len(opened) : opened[i] \in Nat
    BY <2>1, LenProperties, ElementOfSeq
  <2>3. RateWindow \in Nat BY ChanceConstants
  <2>4. QED BY <2>1, <2>2, <2>3
<1>5. QED BY <1>1, <1>3, <1>4 DEF Chance!TypeOK

-----------------------------------------------------------------------------
(* The components together: one moves, and the others stay where they are.   *)

\* The inductive invariant of the composition.
OrdersInv ==
  /\ ExposureInv /\ RateInv
  /\ CacheInv /\ DecisionInv /\ AmendsInv /\ ClientInv

\* It holds at the start, where every component is at its own.
LEMMA OrdersStart == OrdersInit => OrdersInv
<1> SUFFICES ASSUME OrdersInit PROVE OrdersInv
  OBVIOUS
<1>1. /\ Chance!Init /\ Cache!Init /\ Decision!Init /\ Amends!Init /\ Client!Init
  BY DEF OrdersInit
<1>2. ExposureInv /\ RateInv
  BY <1>1, MCOrdersAssumption, ExposureStart, RateStart DEF MCOrdersAssumption
<1>3. CacheInv /\ DecisionInv /\ AmendsInv /\ ClientInv
  BY <1>1, MCOrdersAssumption, CacheStart, DecisionStart, AmendsStart, ClientStart
  DEF MCOrdersAssumption
<1>4. QED BY <1>2, <1>3 DEF OrdersInv

\* A component that stays where it is keeps its invariant.
LEMMA ChanceStays == ExposureInv /\ RateInv /\ UNCHANGED chance => (ExposureInv /\ RateInv)'
BY ExposureStill, RateStill DEF chance

\* So does the cache.
LEMMA CacheStays == CacheInv /\ UNCHANGED cache => CacheInv'
BY DEF cache, CacheInv, CacheTypes, Feeding, Fresh, Steady

\* And the decision.
LEMMA DecisionStays == DecisionInv /\ UNCHANGED decide => DecisionInv'
BY DEF decide, DecisionInv, Decision!OnlyCloseHolds, Decision!ClosesOppose

\* And the parked orders.
LEMMA AmendsStays == AmendsInv /\ UNCHANGED amend => AmendsInv'
BY DEF amend, AmendsInv

\* And the client.
LEMMA ClientStays == ClientInv /\ UNCHANGED client => ClientInv'
BY DEF client, ClientInv

\* A step of the composition is a step of the one in focus.
LEMMA OrdersStep == OrdersInv /\ [OrdersNext]_allvars => OrdersInv'
<1> SUFFICES ASSUME OrdersInv, [OrdersNext]_allvars PROVE OrdersInv'
  OBVIOUS
<1>1. /\ Chance!Next \/ UNCHANGED chance
      /\ Cache!Next \/ UNCHANGED cache
      /\ Decision!Next \/ UNCHANGED decide
      /\ Amends!Next \/ UNCHANGED amend
      /\ Client!Next \/ UNCHANGED client
  BY DEF OrdersNext, allvars
<1>2. /\ Chance!ConstantsOK /\ Cache!ConstantsOK /\ Decision!ConstantsOK
      /\ Amends!ConstantsOK /\ Client!ConstantsOK
  BY MCOrdersAssumption DEF MCOrdersAssumption
<1>3. /\ ExposureInv /\ RateInv /\ CacheInv /\ DecisionInv /\ AmendsInv /\ ClientInv
  BY DEF OrdersInv
<1>4. ExposureInv' /\ RateInv' BY <1>1, <1>2, <1>3, ExposureStep, RateStep, ChanceStays
<1>5. CacheInv' BY <1>1, <1>2, <1>3, CacheStep, CacheStays
<1>6. DecisionInv' BY <1>1, <1>2, <1>3, DecisionStep, DecisionStays
<1>7. AmendsInv' BY <1>1, <1>2, <1>3, AmendsStep, AmendsStays
<1>8. ClientInv' BY <1>1, <1>2, <1>3, ClientStep, ClientStays
<1>9. QED BY <1>4, <1>5, <1>6, <1>7, <1>8 DEF OrdersInv

\* The invariants of all components hold in every run.
THEOREM OrdersAlways == OrdersSpec => []OrdersInv
BY OrdersStart, OrdersStep, PTL DEF OrdersSpec

\* Whatever the constants, all variables keep their types.
THEOREM OrdersTypes == OrdersSpec => []TypesOK
<1>1. OrdersInv => TypesOK
  BY MCOrdersAssumption, ChanceTypes, CacheHolds, DecisionHolds, AmendsHold, ClientHolds
  DEF MCOrdersAssumption, OrdersInv, TypesOK
<1>2. QED BY <1>1, OrdersAlways, PTL

\* However many symbols, sizes, versions and passes there are, and however late (within
\* Lag) the mirror learns of its orders, a position stays within its cap and what was
\* approved before the mirror showed it; and no order of the WebSocket strategy that an
\* amend and a fill raced for is left with more than the largest size asked for.
THEOREM PositionsAreCapped == OrdersSpec => []ExposureBounded
<1>1. OrdersInv => ExposureBounded
  BY MCOrdersAssumption, ExposureHolds, AmendsHold
  DEF MCOrdersAssumption, OrdersInv, ExposureBounded
<1>2. QED BY <1>1, OrdersAlways, PTL

\* The window of opening orders is kept up to the records on their way, if the channel
\* holds two passes of them; and so are the window and the buckets of the client, whatever
\* their sizes and however often they are trimmed.
THEOREM RatesAreKept == OrdersSpec => []RateBounded
<1>1. OrdersInv => RateBounded
  BY MCOrdersAssumption, RateHolds, ClientHolds
  DEF MCOrdersAssumption, OrdersInv, RateBounded
<1>2. QED BY <1>1, OrdersAlways, PTL

\* A decision is on books of one moment, the newest, and on samples as old as asked,
\* whatever the feeds and loops; and no answer of any strategy opens what may only be
\* closed, or closes with the position.
THEOREM DecisionsAreSound == OrdersSpec => []DecisionsSound
<1>1. OrdersInv => DecisionsSound
  BY MCOrdersAssumption, CacheHolds, DecisionHolds
  DEF MCOrdersAssumption, OrdersInv, DecisionsSound
<1>2. QED BY <1>1, OrdersAlways, PTL
===============================================================================
