--------------------------- MODULE PaperBookProofs ---------------------------
(***************************************************************************)
(* The paper book of strategies.rs for any strategies, bases, prices and   *)
(* limits: the cap and the one position per strategy and base hold around  *)
(* a sweep that replaces the whole list, the hard timeout bounds every     *)
(* position, and the signals of the pairs strategy implement the ledger.   *)
(***************************************************************************)
EXTENDS PaperBook, FiniteSetTheorems, SequenceTheorems, TLAPS

\* Ticks and the paper latency are shorter than the holds.  Otherwise a position can
\* be opened, or filled, past its hard timeout, and wait another latency for its exit.
Timely ==
    /\ Latency <= MaxHold
    /\ \A d \in Delays : d <= MaxHold /\ d <= LatencyHold

IdsOf(S) == {p.id : p \in S}
Quotes == {None} \union [mid : Prices, age : 0..Latest]
Entries == [id : Ids, strat : {"latency", "pairs", "funding"}, base : Bases,
            side : {-1, 1}, f : Int, h : Int, mean : Int, stop : Int, held : Int,
            left : Int, pending : BOOLEAN, fill_in : Nat, leaving : BOOLEAN,
            exit_in : Nat]
Closes == [id : Ids, base : Bases, pairs : BOOLEAN, pnl : Int, booked : BOOLEAN]

-----------------------------------------------------------------------------
(* Sets and the queue they are put in                                      *)

\* A set is queued once over: each member once, and nothing else.
LEMMA Queued ==
  ASSUME NEW S, IsFiniteSet(S)
  PROVE  /\ SetToSeq(S) \in Seq(S)
         /\ IsInjective(SetToSeq(S))
<1> DEFINE n == Cardinality(S)
<1>1. n \in Nat /\ ExistsBijection(1..n, S) BY FS_CardinalityType
<1>2. PICK f \in Bijection(1..n, S) : TRUE BY <1>1 DEF ExistsBijection
<1>3. f \in [1..n -> S] /\ IsInjective(f)
  BY <1>2 DEF Bijection, Injection
<1>4. SetToSeq(S) \in [1..n -> S] /\ IsInjective(SetToSeq(S))
  BY <1>3 DEF SetToSeq
<1>5. QED BY <1>1, <1>4

\* Positions with ids of their own are as many as their ids.
LEMMA IdsCount ==
  ASSUME NEW S, IsFiniteSet(S), \A p, q \in S : p.id = q.id => p = q
  PROVE  IsFiniteSet(IdsOf(S)) /\ Cardinality(IdsOf(S)) = Cardinality(S)
<1> DEFINE f == [p \in S |-> p.id]
<1>1. f \in [S -> IdsOf(S)] BY DEF IdsOf
<1>2. f \in Injection(S, IdsOf(S)) BY <1>1 DEF Injection, IsInjective
<1>3. f \in Surjection(S, IdsOf(S)) BY <1>1 DEF Surjection, IdsOf
<1>4. ExistsBijection(S, IdsOf(S)) BY <1>2, <1>3 DEF ExistsBijection, Bijection
<1>5. QED BY <1>4, FS_Bijection

\* A set of positions that stem from others, each from one of its own, is no larger.
LEMMA NoMore ==
  ASSUME NEW S, NEW T, IsFiniteSet(S), \A p, q \in S : p.id = q.id => p = q,
         \A p, q \in T : p.id = q.id => p = q, IdsOf(T) \subseteq IdsOf(S)
  PROVE  IsFiniteSet(T) /\ Cardinality(T) <= Cardinality(S)
<1> DEFINE f == [p \in T |-> p.id]
<1>1. f \in Injection(T, IdsOf(S)) BY DEF Injection, IsInjective, IdsOf
<1>2. IsFiniteSet(IdsOf(S)) /\ Cardinality(IdsOf(S)) = Cardinality(S) BY IdsCount
<1>3. QED BY <1>1, <1>2, FS_Injection

-----------------------------------------------------------------------------
(* The inductive invariant                                                 *)

\* The quotes, the statistics and the countdowns.
MarketInv ==
    /\ mids \in [Bases -> [Venues -> Quotes]]
    /\ stats \in [Bases -> [n : Nat, sum : Int]]

\* The positions: typed, with ids below next_id, each its own; one of a strategy and
\* base; no more than the cap.
PositionsInv ==
    /\ positions \subseteq Entries /\ IsFiniteSet(positions)
    /\ \A p \in positions : p.strat \in Strategies /\ p.id < next_id
    /\ \A p, q \in positions : p.id = q.id => p = q
    /\ \A p, q \in positions : p.strat = q.strat /\ p.base = q.base => p = q
    /\ Cardinality(positions) <= MaxConcurrent

\* What the sweeper took out: each position once, none that is still there.
ClosingInv ==
    /\ closing \in Seq(Closes)
    /\ \A k \in 1..Len(closing) :
          closing[k].id < next_id /\ closing[k].id \notin IdsOf(positions)
    /\ \A k, m \in 1..Len(closing) : closing[k].id = closing[m].id => k = m

\* The pairs strategy announced each of its positions, and took none of them back
\* before its exit.
SignalsInv ==
    /\ next_id \in 1..(MaxPosId + 1)
    /\ entered \subseteq Ids /\ \A i \in entered : i < next_id
    /\ exits \in [Ids -> 0..1]
    /\ \A i \in Ids : exits[i] = 1 => i \in entered
    /\ \A p \in positions : p.strat = "pairs" => p.id \in entered /\ exits[p.id] = 0
    /\ \A k \in 1..Len(closing) :
          closing[k].pairs => closing[k].id \in entered /\ exits[closing[k].id] = 0

BookInv == MarketInv /\ PositionsInv /\ ClosingInv /\ SignalsInv

\* Initially the book is empty.
LEMMA BookInit == ConstantsOK /\ Init => BookInv
<1> SUFFICES ASSUME ConstantsOK, Init PROVE BookInv
  OBVIOUS
<1> USE DEF Init, ConstantsOK
<1>1. MarketInv BY DEF MarketInv, Quotes
<1>2. PositionsInv BY FS_EmptySet DEF PositionsInv
<1>3. ClosingInv BY DEF ClosingInv
<1>4. SignalsInv BY DEF SignalsInv, Ids
<1>5. QED BY <1>1, <1>2, <1>3, <1>4 DEF BookInv

\* The clock makes everything older and changes nobody.
LEMMA ClockStep == ASSUME ConstantsOK, BookInv, Clock PROVE BookInv'
<1> DEFINE older(p) == [p EXCEPT !.held = @ + 1, !.left = @ - 1,
                                 !.fill_in = Down(@), !.exit_in = Down(@)]
<1>1. /\ positions' = {older(p) : p \in positions}
      /\ mids' = [b \in Bases |-> [v \in Venues |-> Older(mids[b][v])]]
      /\ UNCHANGED <<stats, closing, next_id, entered, exits>>
  BY DEF Clock, signals
<1>2. \A p \in positions : /\ older(p) \in Entries /\ older(p).id = p.id
                           /\ older(p).strat = p.strat /\ older(p).base = p.base
  <2> TAKE p \in positions
  <2>1. p \in Entries BY DEF BookInv, PositionsInv
  <2>2. p.held + 1 \in Int /\ p.left - 1 \in Int BY <2>1 DEF Entries
  <2>3. Down(p.fill_in) \in Nat /\ Down(p.exit_in) \in Nat
    BY <2>1 DEF Entries, Down
  <2> HIDE DEF Down
  <2>4. QED BY <2>1, <2>2, <2>3 DEF Entries
<1> HIDE DEF older
<1>3. \A b \in Bases, v \in Venues : Older(mids[b][v]) \in Quotes
  <2> TAKE b \in Bases, v \in Venues
  <2>1. mids[b][v] \in Quotes BY DEF BookInv, MarketInv
  <2>2. QED BY <2>1 DEF Older, Quotes, Latest, ConstantsOK
<1>4. MarketInv' BY <1>1, <1>3 DEF BookInv, MarketInv
<1>5. IdsOf(positions') = IdsOf(positions) BY <1>1, <1>2 DEF IdsOf
<1>6. PositionsInv'
  <2>1. \A p, q \in positions' : p.id = q.id => p = q
    BY <1>1, <1>2 DEF BookInv, PositionsInv
  <2>2. IsFiniteSet(positions') /\ Cardinality(positions') <= Cardinality(positions)
    BY <1>5, <2>1, NoMore DEF BookInv, PositionsInv
  <2>3. Cardinality(positions') <= MaxConcurrent
    BY <2>2, FS_CardinalityType DEF BookInv, PositionsInv, ConstantsOK
  <2>4. \A p, q \in positions' : p.strat = q.strat /\ p.base = q.base => p = q
    BY <1>1, <1>2 DEF BookInv, PositionsInv
  <2>5. QED BY <1>1, <1>2, <2>1, <2>2, <2>3, <2>4 DEF BookInv, PositionsInv
<1>7. ClosingInv' BY <1>1, <1>5 DEF BookInv, ClosingInv
<1>8. SignalsInv' BY <1>1, <1>2 DEF BookInv, SignalsInv
<1>9. QED BY <1>4, <1>6, <1>7, <1>8 DEF BookInv

\* An entry passes the cap and finds its strategy without a position of the base.
LEMMA OpenStep ==
  ASSUME ConstantsOK, BookInv, NEW b \in Bases, NEW s \in Strategies,
         NEW side \in {-1, 1}, NEW hold \in Nat, NEW d \in Nat,
         Room(s, b), Open(s, b, side, 0, hold, d),
         mids'[b].flipster.mid \in Int, mids'[b].hedge.mid \in Int, MarketInv',
         UNCHANGED <<closing, exits>>,
         entered' = IF s = "pairs" THEN entered \union {next_id} ELSE entered
  PROVE  BookInv'
<1> DEFINE f == mids'[b].flipster.mid
           h == mids'[b].hedge.mid
           new == Position(s, b, side, f, h, 0, hold, d)
<1>1. /\ positions' = positions \union {new}
      /\ next_id' = next_id + 1 /\ next_id \in Ids /\ next_id \in Nat
  BY DEF Open, BookInv, SignalsInv, Ids, ConstantsOK
<1>2. /\ new \in Entries /\ new.id = next_id /\ new.strat = s /\ new.base = b
  <2>1. (s = "pairs" /\ Latency > 0) \in BOOLEAN OBVIOUS
  <2>2. Latency \in Nat /\ EntryBp \in Nat /\ s \in {"latency", "pairs", "funding"}
    BY DEF ConstantsOK
  <2>3. (IF s = "pairs" THEN Down(Latency - d) ELSE 0) \in Nat BY <2>2 DEF Down
  <2>4. QED BY <1>1, <2>1, <2>2, <2>3 DEF Position, Entries
<1> HIDE DEF new
<1>3. next_id \notin IdsOf(positions) /\ new \notin positions
      /\ \A p \in positions : ~(p.strat = s /\ p.base = b)
  <2>1. \A p \in positions : p.id < next_id BY DEF BookInv, PositionsInv
  <2>2. \A p \in positions : p.id # next_id BY <1>1, <2>1
  <2>3. QED BY <1>2, <2>2 DEF IdsOf, Room, OpenOn
<1>4. PositionsInv'
  <2>1. IsFiniteSet(positions') /\ Cardinality(positions') = Cardinality(positions) + 1
    BY <1>1, <1>3, FS_AddElement DEF BookInv, PositionsInv
  <2>2. Cardinality(positions') <= MaxConcurrent
    <3>1. Cardinality(positions) \in Nat
      BY FS_CardinalityType DEF BookInv, PositionsInv
    <3>2. Cardinality(positions) < MaxConcurrent /\ MaxConcurrent \in Nat
      BY DEF Room, ConstantsOK
    <3>3. QED BY <2>1, <3>1, <3>2
  <2>3. \A p, q \in positions' : p.id = q.id => p = q
    BY <1>1, <1>2, <1>3 DEF BookInv, PositionsInv, IdsOf
  <2>4. \A p, q \in positions' : p.strat = q.strat /\ p.base = q.base => p = q
    BY <1>1, <1>2, <1>3 DEF BookInv, PositionsInv
  <2>5. \A p \in positions' : p \in Entries /\ p.strat \in Strategies /\ p.id < next_id'
    <3>1. \A p \in positions : p \in Entries /\ p.strat \in Strategies /\ p.id < next_id
      BY DEF BookInv, PositionsInv
    <3>2. \A p \in positions : p.id \in Int BY <3>1 DEF Entries, Ids
    <3>3. \A p \in positions : p.id < next_id' BY <1>1, <3>1, <3>2
    <3>4. QED BY <1>1, <1>2, <3>1, <3>3
  <2>6. QED BY <2>1, <2>2, <2>3, <2>4, <2>5 DEF PositionsInv
<1>5. IdsOf(positions') = IdsOf(positions) \union {next_id} BY <1>1, <1>2 DEF IdsOf
<1>6. \A k \in 1..Len(closing) : closing[k].id \in Ids /\ closing[k].id < next_id
  <2>1. \A k \in 1..Len(closing) : closing[k] \in Closes /\ closing[k].id < next_id
    BY DEF BookInv, ClosingInv
  <2>2. QED BY <2>1 DEF Closes
<1>7. ClosingInv'
  <2>1. \A k \in 1..Len(closing) :
           closing[k].id < next_id' /\ closing[k].id # next_id
    BY <1>1, <1>6 DEF Ids
  <2>2. QED BY <1>5, <2>1 DEF BookInv, ClosingInv
<1>8. SignalsInv'
  <2>1. next_id' \in 1..(MaxPosId + 1)
    BY <1>1 DEF Ids, ConstantsOK
  <2>2. entered' \subseteq Ids /\ (\A i \in entered' : i < next_id') /\ entered \subseteq entered'
    <3>1. entered \subseteq Ids /\ \A i \in entered : i < next_id
      BY DEF BookInv, SignalsInv
    <3>2. entered \subseteq entered' /\ entered' \subseteq entered \union {next_id}
      OBVIOUS
    <3>3. \A i \in entered' : i < next_id' BY <1>1, <3>1, <3>2 DEF Ids
    <3>4. QED BY <1>1, <3>1, <3>2, <3>3
  <2>3. exits[next_id] = 0 BY <1>1 DEF BookInv, SignalsInv, Ids
  <2>4. \A p \in positions' : p.strat = "pairs" => p.id \in entered' /\ exits[p.id] = 0
    BY <1>1, <1>2, <2>2, <2>3 DEF BookInv, SignalsInv
  <2>5. QED BY <2>1, <2>2, <2>4 DEF BookInv, SignalsInv
<1>9. QED BY <1>4, <1>7, <1>8 DEF BookInv

\* A quote that is there has an integer mid.
LEMMA QuoteMid == ASSUME ConstantsOK, NEW q \in Quotes, q # None PROVE q.mid \in Int
<1>1. q \in [mid : Prices, age : 0..Latest] BY DEF Quotes
<1>2. q.mid \in Nat BY <1>1 DEF ConstantsOK
<1>3. QED BY <1>2, SMT

\* A tick is stored, and may open a position of the strategy that waits for it.
LEMMA OnTickStep ==
  ASSUME ConstantsOK, BookInv, NEW b \in Bases, NEW v \in Venues,
         NEW mid \in Prices, NEW d \in Delays, OnTick(b, v, mid, d)
  PROVE  BookInv'
<1>1. mids' = [mids EXCEPT ![b][v] = [mid |-> mid, age |-> d]]
      /\ UNCHANGED <<stats, closing, exits>>
  BY DEF OnTick
<1>2. d \in Nat /\ [mid |-> mid, age |-> d] \in Quotes
  BY DEF ConstantsOK, Quotes, Latest
<1>3. MarketInv' BY <1>1, <1>2 DEF BookInv, MarketInv
<1>4. \A w \in Venues : mids'[b][w] # None => mids'[b][w].mid \in Int
  BY <1>3, QuoteMid DEF MarketInv
<1>5. CASE UNCHANGED <<positions, next_id, entered, cooldowns>>
  <2>1. PositionsInv' BY <1>5 DEF BookInv, PositionsInv
  <2>2. ClosingInv' BY <1>1, <1>5 DEF BookInv, ClosingInv
  <2>3. SignalsInv' BY <1>1, <1>5 DEF BookInv, SignalsInv
  <2>4. QED BY <1>3, <2>1, <2>2, <2>3 DEF BookInv
<1>6. CASE v = "hedge" /\ mids[b].flipster # None /\ TryEnterLatency(b, d)
  <2>1. PICK side \in {-1, 1} : Open("latency", b, side, 0, LatencyHold, d)
    BY <1>6 DEF TryEnterLatency
  <2>2. /\ "latency" \in Strategies /\ Room("latency", b) /\ UNCHANGED entered
        /\ mids'[b].flipster # None
    BY <1>6 DEF TryEnterLatency, Fresh
  <2>3. mids'[b].hedge = [mid |-> mid, age |-> d]
    BY <1>1, <1>6 DEF BookInv, MarketInv
  <2>4. mids'[b].flipster.mid \in Int /\ mids'[b].hedge.mid \in Int
    BY <1>4, <2>2, <2>3 DEF Venues, ConstantsOK
  <2>5. LatencyHold \in Nat BY DEF ConstantsOK
  <2>6. QED BY <1>1, <1>2, <1>3, <2>1, <2>2, <2>4, <2>5, OpenStep
<1>7. CASE v = "flipster" /\ mids[b].hedge # None /\ TryEnterPairs(b, d)
  <2> DEFINE side == IF mids'[b].flipster.mid - mids'[b].hedge.mid > 0 THEN -1 ELSE 1
  <2>1. /\ Open("pairs", b, side, 0, MaxHold, d)
        /\ "pairs" \in Strategies /\ Room("pairs", b)
        /\ entered' = entered \union {next_id}
        /\ mids'[b].flipster # None /\ mids'[b].hedge # None
    BY <1>7 DEF TryEnterPairs, Fresh
  <2>2. mids'[b].flipster.mid \in Int /\ mids'[b].hedge.mid \in Int
    BY <1>4, <2>1 DEF Venues
  <2>3. MaxHold \in Nat /\ side \in {-1, 1} BY DEF ConstantsOK
  <2> HIDE DEF side
  <2>4. QED BY <1>1, <1>2, <1>3, <2>1, <2>2, <2>3, OpenStep
<1>8. QED BY <1>5, <1>6, <1>7 DEF OnTick

\* The funding scan opens on two quotes of any age.
LEMMA FundingStep ==
  ASSUME ConstantsOK, BookInv, NEW b \in Bases, FundingScan(b)
  PROVE  BookInv'
<1>1. PICK side \in {-1, 1} : Open("funding", b, side, 0, FundingHold, 0)
  BY DEF FundingScan
<1>2. /\ "funding" \in Strategies /\ Room("funding", b)
      /\ mids[b].flipster # None /\ mids[b].hedge # None
      /\ UNCHANGED <<mids, stats, closing, exits, entered>>
  BY DEF FundingScan
<1>3. \A w \in Venues : mids[b][w] # None => mids[b][w].mid \in Int
  BY QuoteMid DEF BookInv, MarketInv
<1>4. mids'[b].flipster.mid \in Int /\ mids'[b].hedge.mid \in Int
  BY <1>2, <1>3 DEF Venues
<1>5. MarketInv' /\ FundingHold \in Nat /\ 0 \in Nat
  BY <1>2 DEF BookInv, MarketInv, ConstantsOK
<1>6. QED BY <1>1, <1>2, <1>4, <1>5, OpenStep

-----------------------------------------------------------------------------
(* The sweep                                                               *)

\* What is neither abandoned nor changed by its fill: who a position is.
LEMMA FilledFacts ==
  ASSUME ConstantsOK, BookInv, NEW p \in positions \ Abandoned
  PROVE  /\ Filled(p) \in Entries /\ Filled(p).id = p.id
         /\ Filled(p).strat = p.strat /\ Filled(p).base = p.base
<1>1. p \in Entries /\ p.base \in Bases BY DEF BookInv, PositionsInv, Entries
<1>2. CASE FillDue(p)
  <2>1. BothFresh(p.base) BY <1>2 DEF Abandoned
  <2>2. \A w \in Venues : mids[p.base][w].mid \in Int
    BY <1>1, <2>1, QuoteMid DEF BothFresh, Fresh, BookInv, MarketInv
  <2>3. mids[p.base].flipster.mid \in Int /\ mids[p.base].hedge.mid \in Int
    BY <2>2 DEF Venues
  <2>4. Filled(p) = [p EXCEPT !.f = mids[p.base].flipster.mid,
                              !.h = mids[p.base].hedge.mid, !.held = 0, !.pending = FALSE]
    BY <1>2 DEF Filled
  <2>5. Filled(p) = [id |-> p.id, strat |-> p.strat, base |-> p.base, side |-> p.side,
                     f |-> mids[p.base].flipster.mid, h |-> mids[p.base].hedge.mid,
                     mean |-> p.mean, stop |-> p.stop, held |-> 0, left |-> p.left,
                     pending |-> FALSE, fill_in |-> p.fill_in,
                     leaving |-> p.leaving, exit_in |-> p.exit_in]
    BY <1>1, <2>4 DEF Entries
  <2>6. QED BY <1>1, <2>3, <2>5 DEF Entries
<1>3. CASE ~FillDue(p) BY <1>1, <1>3 DEF Filled
<1>4. QED BY <1>2, <1>3

\* Live positions are some of those in the book.
LEMMA LiveFacts ==
  ASSUME ConstantsOK, BookInv
  PROVE  /\ Live \subseteq Entries
         /\ \A p \in Live : p.strat \in Strategies /\ p.id < next_id
         /\ \A p \in Live : \E q \in positions :
               p.id = q.id /\ p.strat = q.strat /\ p.base = q.base
         /\ \A p, q \in Live : p.id = q.id => p = q
         /\ \A p, q \in Live : p.strat = q.strat /\ p.base = q.base => p = q
BY FilledFacts DEF Live, BookInv, PositionsInv

\* What remains in the book stems from live positions that do not close.
LEMMA RemainFacts ==
  ASSUME ConstantsOK, BookInv
  PROVE  /\ Remain \subseteq Entries
         /\ \A r \in Remain : \E p \in Live \ Due :
               /\ r.id = p.id /\ r.strat = p.strat /\ r.base = p.base
               /\ p \notin Scheduled => r = p
               /\ p \in Scheduled => r = [p EXCEPT !.leaving = TRUE, !.exit_in = Latency]
<1>1. Live \subseteq Entries /\ Latency \in Nat BY LiveFacts DEF ConstantsOK
<1>2. Scheduled \subseteq Live \ Due BY DEF Scheduled, Leaving, Due
<1>3. \A p \in Scheduled : LET r == [p EXCEPT !.leaving = TRUE, !.exit_in = Latency]
                           IN  /\ r \in Entries /\ r.id = p.id
                               /\ r.strat = p.strat /\ r.base = p.base
  <2> TAKE p \in Scheduled
  <2>1. p \in Entries BY <1>1, <1>2
  <2>2. QED BY <1>1, <2>1 DEF Entries
<1>4. QED BY <1>1, <1>2, <1>3 DEF Remain

\* A position that can be written closes with an integer profit.
LEMMA WritableFacts ==
  ASSUME ConstantsOK, BookInv, NEW p \in Writable
  PROVE  /\ p \in Live /\ p \in Due /\ p \in Entries
         /\ NetPnl(p) \in Int
<1>1. p \in Due /\ BothFresh(p.base) BY DEF Writable
<1>2. p \in Live BY <1>1 DEF Due, Leaving
<1>3. p \in Entries BY <1>2, LiveFacts
<1>4. p.base \in Bases /\ p.side \in {-1, 1} /\ p.f \in Int /\ p.h \in Int
  BY <1>3 DEF Entries
<1>5. \A w \in Venues : mids[p.base][w].mid \in Int
  BY <1>1, <1>4, QuoteMid DEF BothFresh, Fresh, BookInv, MarketInv
<1>6. mids[p.base].flipster.mid \in Int /\ mids[p.base].hedge.mid \in Int
  BY <1>5 DEF Venues
<1>7. Fee \in Int BY DEF ConstantsOK
<1>8. NetPnl(p) \in Int
  <2> DEFINE x == (mids[p.base].flipster.mid - p.f) - (mids[p.base].hedge.mid - p.h)
  <2>1. x \in Int BY <1>4, <1>6
  <2>2. NetPnl(p) = p.side * x - Fee BY DEF NetPnl
  <2> HIDE DEF x
  <2>3. p.side * x \in Int BY <1>4, <2>1
  <2>4. QED BY <1>7, <2>2, <2>3
<1>9. QED BY <1>1, <1>2, <1>3, <1>8

\* The sweep replaces the list under the lock and queues what it closes.
LEMMA SweepStep == ASSUME ConstantsOK, BookInv, SweepExits PROVE BookInv'
<1> DEFINE rec(p) == [id |-> p.id, base |-> p.base, pairs |-> p.strat = "pairs",
                      pnl |-> NetPnl(p), booked |-> FALSE]
           W == {rec(p) : p \in Writable}
<1>1. /\ positions' = Remain /\ closing' = SetToSeq(W)
      /\ UNCHANGED <<mids, stats, next_id, entered, exits>>
  BY DEF SweepExits, signals
<1>2. MarketInv' BY <1>1 DEF BookInv, MarketInv
<1>3. \A r \in Remain : \E q \in positions :
         r.id = q.id /\ r.strat = q.strat /\ r.base = q.base
  <2> TAKE r \in Remain
  <2>1. PICK p \in Live \ Due : r.id = p.id /\ r.strat = p.strat /\ r.base = p.base
    BY RemainFacts
  <2>2. PICK q \in positions : p.id = q.id /\ p.strat = q.strat /\ p.base = q.base
    BY LiveFacts
  <2>3. QED BY <2>1, <2>2
<1>4. \A p, q \in Remain : (p.id = q.id \/ (p.strat = q.strat /\ p.base = q.base)) => p = q
  <2> TAKE r, t \in Remain
  <2> HAVE r.id = t.id \/ (r.strat = t.strat /\ r.base = t.base)
  <2>1. PICK p \in Live \ Due :
               /\ r.id = p.id /\ r.strat = p.strat /\ r.base = p.base
               /\ p \notin Scheduled => r = p
               /\ p \in Scheduled => r = [p EXCEPT !.leaving = TRUE, !.exit_in = Latency]
    BY RemainFacts
  <2>2. PICK q \in Live \ Due :
               /\ t.id = q.id /\ t.strat = q.strat /\ t.base = q.base
               /\ q \notin Scheduled => t = q
               /\ q \in Scheduled => t = [q EXCEPT !.leaving = TRUE, !.exit_in = Latency]
    BY RemainFacts
  <2>3. p = q
    <3>1. p.id = q.id \/ (p.strat = q.strat /\ p.base = q.base) BY <2>1, <2>2
    <3>2. p \in Live /\ q \in Live OBVIOUS
    <3>3. QED BY <3>1, <3>2, LiveFacts
  <2>4. CASE p \in Scheduled BY <2>1, <2>2, <2>3, <2>4
  <2>5. CASE p \notin Scheduled BY <2>1, <2>2, <2>3, <2>5
  <2>6. QED BY <2>4, <2>5
<1>5. PositionsInv'
  <2>1. IdsOf(Remain) \subseteq IdsOf(positions) BY <1>3 DEF IdsOf
  <2>2. IsFiniteSet(Remain) /\ Cardinality(Remain) <= Cardinality(positions)
    BY <1>4, <2>1, NoMore DEF BookInv, PositionsInv
  <2>3. Cardinality(Remain) <= MaxConcurrent
    BY <2>2, FS_CardinalityType DEF BookInv, PositionsInv, ConstantsOK
  <2>4. \A r \in Remain : r.strat \in Strategies /\ r.id < next_id
    BY <1>3 DEF BookInv, PositionsInv
  <2>5. QED BY <1>1, <1>4, <2>2, <2>3, <2>4, RemainFacts DEF PositionsInv
<1>6. W \subseteq Closes
  <2> SUFFICES ASSUME NEW p \in Writable PROVE rec(p) \in Closes
    OBVIOUS
  <2>1. p \in Entries /\ NetPnl(p) \in Int BY WritableFacts
  <2>2. p.id \in Ids /\ p.base \in Bases /\ (p.strat = "pairs") \in BOOLEAN
    BY <2>1 DEF Entries
  <2>3. QED BY <2>1, <2>2 DEF Closes
<1>7. IsFiniteSet(W)
  <2>1. IdsOf(Live) \subseteq IdsOf(positions) BY LiveFacts DEF IdsOf
  <2>2. IsFiniteSet(Live) BY <2>1, LiveFacts, NoMore DEF BookInv, PositionsInv
  <2>3. Writable \subseteq Live BY WritableFacts
  <2>4. IsFiniteSet(Writable) BY <2>2, <2>3, FS_Subset
  <2> DEFINE f == [p \in Writable |-> rec(p)]
  <2> HIDE DEF rec
  <2>5. f \in Surjection(Writable, W) BY DEF Surjection
  <2>6. QED BY <2>4, <2>5, FS_Surjection
<1>8. closing' \in Seq(W) /\ IsInjective(closing') BY <1>1, <1>7, Queued
<1>9. \A k \in 1..Len(closing') : closing'[k] \in W /\ closing'[k] \in Closes
  BY <1>6, <1>8
<1>10. \A k \in 1..Len(closing') : \E p \in Writable : closing'[k] = rec(p)
  BY <1>9
<1>11. ClosingInv'
  <2>1. closing' \in Seq(Closes) BY <1>6, <1>8
  <2>2. \A k \in 1..Len(closing') :
           closing'[k].id < next_id /\ closing'[k].id \notin IdsOf(Remain)
    <3> TAKE k \in 1..Len(closing')
    <3>1. PICK p \in Writable : closing'[k] = rec(p) BY <1>10
    <3>2. p \in Live /\ p \in Due /\ closing'[k].id = p.id BY <3>1, WritableFacts
    <3>3. p.id < next_id BY <3>2, LiveFacts
    <3>4. p.id \notin IdsOf(Remain)
      <4> SUFFICES ASSUME NEW r \in Remain, r.id = p.id PROVE FALSE
        BY DEF IdsOf
      <4>1. PICK q \in Live \ Due : r.id = q.id BY RemainFacts
      <4>2. QED BY <3>2, <4>1, LiveFacts
    <3>5. QED BY <3>2, <3>3, <3>4
  <2>3. \A k, m \in 1..Len(closing') : closing'[k].id = closing'[m].id => k = m
    <3> TAKE k, m \in 1..Len(closing')
    <3> HAVE closing'[k].id = closing'[m].id
    <3>1. PICK p \in Writable : closing'[k] = rec(p) BY <1>10
    <3>2. PICK q \in Writable : closing'[m] = rec(q) BY <1>10
    <3>3. p = q BY <3>1, <3>2, WritableFacts, LiveFacts
    <3>4. closing'[k] = closing'[m] BY <3>1, <3>2, <3>3
    <3>5. QED BY <1>8, <3>4 DEF IsInjective
  <2>4. QED BY <1>1, <2>1, <2>2, <2>3 DEF ClosingInv
<1>12. SignalsInv'
  <2>1. \A r \in Remain : r.strat = "pairs" => r.id \in entered /\ exits[r.id] = 0
    BY <1>3 DEF BookInv, SignalsInv
  <2>2. \A k \in 1..Len(closing') :
           closing'[k].pairs => closing'[k].id \in entered /\ exits[closing'[k].id] = 0
    <3> TAKE k \in 1..Len(closing')
    <3>1. PICK p \in Writable : closing'[k] = rec(p) BY <1>10
    <3>2. PICK q \in positions : p.id = q.id /\ p.strat = q.strat
      BY WritableFacts, LiveFacts
    <3>3. rec(p).id = p.id /\ rec(p).pairs = (p.strat = "pairs") OBVIOUS
    <3> HIDE DEF rec
    <3>4. closing'[k].id = q.id /\ (closing'[k].pairs => q.strat = "pairs")
      BY <3>1, <3>2, <3>3
    <3>5. QED BY <3>4 DEF BookInv, SignalsInv
  <2>3. QED BY <1>1, <2>1, <2>2 DEF BookInv, SignalsInv
<1>13. QED BY <1>2, <1>5, <1>11, <1>12 DEF BookInv

\* The head of the queue is booked: the statistics change, the queue's ids do not.
LEMMA BookingStep == ASSUME ConstantsOK, BookInv, Book PROVE BookInv'
<1>1. /\ closing # <<>> /\ closing' = [closing EXCEPT ![1].booked = TRUE]
      /\ UNCHANGED <<mids, positions, next_id, entered, exits>>
  BY DEF Book, signals
<1>2. closing \in Seq(Closes) BY DEF BookInv, ClosingInv
<1>3. Head(closing) \in Closes /\ closing[1] = Head(closing) /\ 1 \in 1..Len(closing)
  BY <1>1, <1>2
<1>4. MarketInv'
  <2> DEFINE c == Head(closing)
             s == [n |-> stats[c.base].n + 1, sum |-> stats[c.base].sum + c.pnl]
  <2>1. c.base \in Bases /\ c.pnl \in Int BY <1>3 DEF Closes
  <2>2. s \in [n : Nat, sum : Int] BY <2>1 DEF BookInv, MarketInv
  <2>3. [n |-> 0, sum |-> 0] \in [n : Nat, sum : Int] OBVIOUS
  <2>4. PICK t \in [n : Nat, sum : Int] : stats' = [stats EXCEPT ![c.base] = t]
    BY <2>2, <2>3 DEF Book
  <2>5. QED BY <1>1, <2>4 DEF BookInv, MarketInv
<1>5. /\ Len(closing') = Len(closing) /\ closing' \in Seq(Closes)
      /\ \A k \in 1..Len(closing) :
            closing'[k].id = closing[k].id /\ closing'[k].pairs = closing[k].pairs
  <2>1. [closing[1] EXCEPT !.booked = TRUE] \in Closes BY <1>3 DEF Closes
  <2>2. closing' = [closing EXCEPT ![1] = [closing[1] EXCEPT !.booked = TRUE]]
    BY <1>1, <1>2
  <2>3. closing' \in Seq(Closes) /\ Len(closing') = Len(closing)
    BY <1>2, <1>3, <2>1, <2>2
  <2>4. \A k \in 1..Len(closing) :
            closing'[k].id = closing[k].id /\ closing'[k].pairs = closing[k].pairs
    BY <1>2, <1>3, <2>2 DEF Closes
  <2>5. QED BY <2>3, <2>4
<1>6. PositionsInv' BY <1>1 DEF BookInv, PositionsInv
<1>7. ClosingInv' BY <1>1, <1>5 DEF BookInv, ClosingInv
<1>8. SignalsInv' BY <1>1, <1>5 DEF BookInv, SignalsInv
<1>9. QED BY <1>4, <1>6, <1>7, <1>8 DEF BookInv

\* The exit of the head is signalled; no other entry of the queue has its id.
LEMMA SendExitStep == ASSUME ConstantsOK, BookInv, SendExit PROVE BookInv'
<1>1. /\ closing # <<>> /\ closing' = Tail(closing)
      /\ exits' = IF Head(closing).pairs
                  THEN [exits EXCEPT ![Head(closing).id] = @ + 1] ELSE exits
      /\ UNCHANGED <<mids, positions, stats, next_id, entered>>
  BY DEF SendExit, book
<1>2. closing \in Seq(Closes) BY DEF BookInv, ClosingInv
<1>3. /\ closing[1] = Head(closing) /\ 1 \in 1..Len(closing)
      /\ closing' \in Seq(Closes) /\ Len(closing') = Len(closing) - 1
      /\ \A k \in 1..Len(closing') : closing'[k] = closing[k + 1] /\ k + 1 \in 1..Len(closing)
  BY <1>1, <1>2
<1>4. Head(closing).id \in Ids
  <2>1. Head(closing) \in Closes BY <1>1, <1>2
  <2>2. QED BY <2>1 DEF Closes
<1>5. \A k \in 1..Len(closing') : closing'[k].id # Head(closing).id
  BY <1>3 DEF BookInv, ClosingInv
<1>6. exits' \in [Ids -> 0..1] /\ \A i \in Ids \ {Head(closing).id} : exits'[i] = exits[i]
  <2>1. Head(closing).pairs => exits[Head(closing).id] = 0
    BY <1>3 DEF BookInv, SignalsInv
  <2>2. QED BY <1>1, <1>4, <2>1 DEF BookInv, SignalsInv
<1>7. exits'[Head(closing).id] = 1 => Head(closing).id \in entered
  BY <1>1, <1>3, <1>4 DEF BookInv, SignalsInv
<1>8. MarketInv' /\ PositionsInv' BY <1>1 DEF BookInv, MarketInv, PositionsInv
<1>9. ClosingInv' BY <1>1, <1>3 DEF BookInv, ClosingInv
<1>10. SignalsInv'
  <2>1. \A p \in positions : p.id # Head(closing).id /\ p.id \in Ids
    BY <1>3 DEF BookInv, ClosingInv, PositionsInv, IdsOf, Entries
  <2>2. \A k \in 1..Len(closing') : closing'[k].id \in Ids \ {Head(closing).id}
    <3> TAKE k \in 1..Len(closing')
    <3>1. closing'[k] \in Closes BY <1>3
    <3>2. QED BY <1>5, <3>1 DEF Closes
  <2>3. \A p \in positions : p.strat = "pairs" => p.id \in entered /\ exits'[p.id] = 0
    BY <1>6, <2>1 DEF BookInv, SignalsInv
  <2>4. \A k \in 1..Len(closing') :
           closing'[k].pairs => closing'[k].id \in entered /\ exits'[closing'[k].id] = 0
    <3> TAKE k \in 1..Len(closing')
    <3>1. PICK m \in 1..Len(closing) : closing'[k] = closing[m] BY <1>3
    <3>2. exits'[closing'[k].id] = exits[closing'[k].id] BY <1>6, <2>2
    <3>3. QED BY <3>1, <3>2 DEF BookInv, SignalsInv
  <2>5. QED BY <1>1, <1>6, <1>7, <2>3, <2>4 DEF BookInv, SignalsInv
<1>11. QED BY <1>8, <1>9, <1>10 DEF BookInv

\* No step of the book breaks the invariant.
LEMMA BookStep == ConstantsOK /\ BookInv /\ [Next]_vars => BookInv'
<1> SUFFICES ASSUME ConstantsOK, BookInv, [Next]_vars PROVE BookInv'
  OBVIOUS
<1>1. CASE UNCHANGED vars
  BY <1>1 DEF vars, book, signals, BookInv, MarketInv, PositionsInv, ClosingInv,
              SignalsInv, IdsOf
<1>2. CASE Clock BY <1>2, ClockStep
<1>3. CASE SweepExits BY <1>3, SweepStep
<1>4. CASE Book BY <1>4, BookingStep
<1>5. CASE SendExit BY <1>5, SendExitStep
<1>6. CASE \E b \in Bases : FundingScan(b) BY <1>6, FundingStep
<1>7. CASE \E b \in Bases, v \in Venues, mid \in Prices, d \in Delays : OnTick(b, v, mid, d)
  BY <1>7, OnTickStep
<1>8. QED BY <1>1, <1>2, <1>3, <1>4, <1>5, <1>6, <1>7 DEF Next

\* The invariant of the book is one.
LEMMA BookInvCorrect == ConstantsOK /\ Spec => []BookInv
<1> SUFFICES ASSUME ConstantsOK PROVE Spec => []BookInv
  OBVIOUS
<1>1. Init => BookInv BY BookInit
<1>2. BookInv /\ [Next]_vars => BookInv' BY BookStep
<1>3. QED BY <1>1, <1>2, PTL DEF Spec

-----------------------------------------------------------------------------
(* What follows                                                            *)

\* Variables keep their types.
THEOREM BookTypes == ConstantsOK /\ Spec => []TypeOK
<1>1. BookInv => TypeOK
  <2> SUFFICES ASSUME BookInv PROVE TypeOK
    OBVIOUS
  <2>1. \A p \in positions : p.id \in Ids /\ p.base \in Bases /\ p.strat \in Strategies
    BY DEF BookInv, PositionsInv, Entries
  <2>2. \A b \in Bases : stats[b].n \in Nat /\ stats[b].sum \in Int
    BY DEF BookInv, MarketInv
  <2>3. QED
    BY <2>1, <2>2 DEF BookInv, MarketInv, ClosingInv, SignalsInv, Quotes, Closes, TypeOK
<1>2. QED BY <1>1, BookInvCorrect, PTL

\* The cap on the positions of all strategies and the one position per strategy and
\* base hold, and what the sweeper took out of the list is not in it.
THEOREM CapCorrect == ConstantsOK /\ Spec => []CapAndOnePerBase
<1>1. BookInv => CapAndOnePerBase
  <2> SUFFICES ASSUME BookInv PROVE CapAndOnePerBase
    OBVIOUS
  <2>1. InClosing \intersect {p.id : p \in positions} = {}
    BY DEF BookInv, ClosingInv, InClosing, IdsOf
  <2>2. QED BY <2>1 DEF BookInv, PositionsInv, CapAndOnePerBase
<1>2. QED BY <1>1, BookInvCorrect, PTL

\* An opening takes the next id, which no signal had; a booked close sends the one
\* exit of an entry that was announced.
LEMMA LedgerStep ==
  ASSUME ConstantsOK, BookInv, [Next]_vars
  PROVE  [Ledger!Next]_(Ledger!ledger)
<1> USE DEF Ledger!ledger
<1>1. CASE UNCHANGED <<entered, exits>> BY <1>1
<1>2. CASE SendExit
  <2> DEFINE c == Head(closing)
  <2>1. closing # <<>> /\ closing \in Seq(Closes)
    BY <1>2 DEF SendExit, BookInv, ClosingInv
  <2>2. c \in Closes /\ c = closing[1] /\ 1 \in 1..Len(closing) BY <2>1
  <2>3. c.id \in Ids BY <2>2 DEF Closes
  <2>4. CASE c.pairs
    <3>1. c.id \in entered /\ exits[c.id] = 0
      BY <2>2, <2>4 DEF BookInv, SignalsInv
    <3>2. exits' = [exits EXCEPT ![c.id] = 1]
      BY <1>2, <2>3, <2>4, <3>1 DEF SendExit, BookInv, SignalsInv
    <3>3. Ledger!Exit(c.id) BY <1>2, <3>1, <3>2 DEF SendExit, Ledger!Exit
    <3>4. QED BY <2>3, <3>3 DEF Ledger!Next
  <2>5. CASE ~c.pairs BY <1>2, <2>5 DEF SendExit
  <2>6. QED BY <2>4, <2>5
<1>3. ASSUME NEW b \in Bases, NEW d \in Delays, TryEnterPairs(b, d), UNCHANGED exits
      PROVE  Ledger!Next
  <2>1. next_id <= MaxPosId /\ entered' = entered \union {next_id}
    BY <1>3 DEF TryEnterPairs, Open
  <2>2. next_id \in Ids /\ next_id \notin entered
    BY <2>1 DEF BookInv, SignalsInv, Ids, ConstantsOK
  <2>3. Ledger!Enter(next_id) BY <1>3, <2>1, <2>2 DEF Ledger!Enter
  <2>4. QED BY <2>2, <2>3 DEF Ledger!Next
<1>4. CASE \E b \in Bases, v \in Venues, mid \in Prices, d \in Delays : OnTick(b, v, mid, d)
  <2>1. PICK b \in Bases, v \in Venues, mid \in Prices, d \in Delays : OnTick(b, v, mid, d)
    BY <1>4
  <2>2. UNCHANGED exits BY <2>1 DEF OnTick
  <2>3. UNCHANGED entered \/ TryEnterPairs(b, d)
    BY <2>1 DEF OnTick, TryEnterLatency
  <2>4. QED BY <1>1, <1>3, <2>2, <2>3
<1>5. CASE Clock \/ SweepExits \/ Book BY <1>1, <1>5 DEF Clock, SweepExits, Book, signals
<1>6. CASE \E b \in Bases : FundingScan(b) BY <1>1, <1>6 DEF FundingScan
<1>7. CASE UNCHANGED vars BY <1>1, <1>7 DEF vars, signals
<1>8. QED BY <1>2, <1>4, <1>5, <1>6, <1>7 DEF Next

\* What the coordinator sees of the pairs strategy is a PaperLedger: every entry under
\* an id of its own, one exit of it, after it.
THEOREM PairsImplementsLedger == ConstantsOK /\ Spec => Ledger!Spec
<1> SUFFICES ASSUME ConstantsOK PROVE Spec => Ledger!Spec
  OBVIOUS
<1>1. Init => Ledger!Init BY DEF Init, Ledger!Init
<1>2. BookInv /\ [Next]_vars => [Ledger!Next]_(Ledger!ledger) BY LedgerStep
<1>3. QED BY <1>1, <1>2, BookInvCorrect, PTL DEF Spec, Ledger!Spec

-----------------------------------------------------------------------------
(* The hard timeout                                                        *)

\* A fill comes before the hard timeout; the sweep after the timeout takes a filled
\* position out or gives it the paper latency, and the sweep after that takes it.
InTime(p, w) ==
    /\ p.pending =>
          /\ p.strat = "pairs" /\ ~p.leaving
          /\ p.fill_in > 0 => p.left >= p.fill_in
          /\ p.fill_in = 0 => p.left >= IF w THEN 0 ELSE -1
    /\ ~p.pending /\ ~p.leaving => p.left >= IF w THEN 0 ELSE -1
    /\ p.leaving => p.left >= p.exit_in - Latency - 1 /\ (w => p.exit_in > 0)

RiskInv == swept \in BOOLEAN /\ \A p \in positions : InTime(p, swept)

\* A position is opened in time.
LEMMA OpenInTime ==
  ASSUME ConstantsOK, BookInv, RiskInv, NEW b \in Bases, NEW s \in Strategies,
         NEW side \in {-1, 1}, NEW hold \in Nat, NEW d \in Nat,
         Open(s, b, side, 0, hold, d), UNCHANGED swept,
         d <= hold, s = "pairs" => Latency <= hold
  PROVE  RiskInv'
<1> DEFINE new == Position(s, b, side, mids'[b].flipster.mid, mids'[b].hedge.mid, 0, hold, d)
<1>1. positions' = positions \union {new} BY DEF Open
<1>2. InTime(new, swept)
  <2>1. /\ new.left = hold - d /\ new.leaving = FALSE /\ new.strat = s
        /\ new.fill_in = IF s = "pairs" THEN Down(Latency - d) ELSE 0
        /\ new.pending = (s = "pairs" /\ Latency > 0)
    BY DEF Position
  <2>2. Latency \in Nat BY DEF ConstantsOK
  <2> HIDE DEF new
  <2>3. new.left \in Nat BY <2>1
  <2>4. s = "pairs" /\ new.fill_in > 0 => new.left >= new.fill_in
    BY <2>1, <2>2 DEF Down
  <2>5. ~new.leaving /\ (new.pending => s = "pairs") BY <2>1
  <2>6. CASE new.pending BY <2>1, <2>3, <2>4, <2>5, <2>6 DEF InTime
  <2>7. CASE ~new.pending BY <2>3, <2>5, <2>7 DEF InTime
  <2>8. QED BY <2>6, <2>7
<1> HIDE DEF new
<1>3. QED BY <1>1, <1>2 DEF RiskInv

\* The clock moves only after a sweep, and takes one tick of everybody's time.
LEMMA ClockInTime == ASSUME ConstantsOK, BookInv, RiskInv, Clock PROVE RiskInv'
<1> DEFINE older(p) == [p EXCEPT !.held = @ + 1, !.left = @ - 1,
                                 !.fill_in = Down(@), !.exit_in = Down(@)]
<1>1. positions' = {older(p) : p \in positions} /\ swept = TRUE /\ swept' = FALSE
  <2>1. swept BY DEF Clock
  <2>2. QED BY <2>1 DEF Clock, RiskInv
<1>2. ASSUME NEW p \in positions PROVE InTime(older(p), FALSE)
  <2>1. p \in Entries /\ InTime(p, TRUE)
    BY <1>1 DEF BookInv, PositionsInv, RiskInv
  <2>2. /\ older(p).left = p.left - 1 /\ older(p).fill_in = Down(p.fill_in)
        /\ older(p).exit_in = Down(p.exit_in) /\ older(p).pending = p.pending
        /\ older(p).leaving = p.leaving /\ older(p).strat = p.strat
    BY <2>1 DEF Entries
  <2>3. p.left \in Int /\ p.fill_in \in Nat /\ p.exit_in \in Nat /\ Latency \in Nat
    BY <2>1 DEF Entries, ConstantsOK
  <2> HIDE DEF older
  <2>4. CASE p.pending BY <2>1, <2>2, <2>3, <2>4 DEF InTime, Down
  <2>5. CASE ~p.pending BY <2>1, <2>2, <2>3, <2>5 DEF InTime, Down
  <2>6. QED BY <2>4, <2>5
<1> HIDE DEF older
<1>3. QED BY <1>1, <1>2 DEF RiskInv

\* A sweep leaves nobody past its time: who was, leaves, now or after the latency.
LEMMA SweepInTime == ASSUME ConstantsOK, BookInv, RiskInv, SweepExits PROVE RiskInv'
<1>1. positions' = Remain /\ swept' = TRUE /\ swept = FALSE
  BY DEF SweepExits, RiskInv
<1>2. ASSUME NEW p \in Live \ Due PROVE
        /\ p \notin Scheduled => InTime(p, TRUE)
        /\ p \in Scheduled => InTime([p EXCEPT !.leaving = TRUE, !.exit_in = Latency], TRUE)
  <2>1. PICK q \in positions \ Abandoned : p = Filled(q) BY DEF Live
  <2>2. q \in Entries /\ InTime(q, FALSE) BY <1>1 DEF BookInv, PositionsInv, RiskInv
  <2>3. /\ p \in Entries /\ p.strat = q.strat /\ p.left = q.left /\ p.leaving = q.leaving
        /\ p.exit_in = q.exit_in /\ p.fill_in = q.fill_in
        /\ p.pending = (q.pending /\ q.fill_in # 0)
    <3>1. CASE FillDue(q) BY <2>1, <2>2, <3>1, FilledFacts DEF Filled, FillDue, Entries
    <3>2. CASE ~FillDue(q)
      <4>1. p = q /\ q.pending \in BOOLEAN BY <2>1, <2>2, <3>2 DEF Filled, Entries
      <4>2. p.pending = (q.pending /\ q.fill_in # 0) BY <3>2, <4>1 DEF FillDue
      <4>3. QED BY <2>2, <4>1, <4>2
    <3>3. QED BY <3>1, <3>2
  <2>4. p.left \in Int /\ p.fill_in \in Nat /\ p.exit_in \in Nat /\ Latency \in Nat
    BY <2>3 DEF Entries, ConstantsOK
  <2>5. CASE p \in Scheduled
    <3>1. ~p.pending /\ ~p.leaving /\ Latency > 0
      BY <2>5 DEF Scheduled, Leaving
    <3>2. p.left >= -1 BY <2>2, <2>3, <2>4, <3>1 DEF InTime
    <3> DEFINE r == [p EXCEPT !.leaving = TRUE, !.exit_in = Latency]
    <3>3. r.left = p.left /\ r.exit_in = Latency /\ r.leaving = TRUE /\ r.pending = p.pending
      BY <2>3 DEF Entries
    <3> HIDE DEF r
    <3>4. InTime(r, TRUE) BY <2>4, <3>1, <3>2, <3>3 DEF InTime
    <3>5. QED BY <2>5, <3>4 DEF r
  <2>6. CASE p \notin Scheduled
    <3>1. CASE p.pending
      <4>1. q.pending /\ p.fill_in # 0 BY <2>3, <3>1
      <4>2. p.strat = "pairs" /\ p.leaving = q.leaving /\ ~q.leaving /\ p.left >= p.fill_in
        BY <2>2, <2>3, <2>4, <4>1 DEF InTime
      <4>3. ~p.leaving BY <4>2
      <4>4. QED BY <2>4, <2>6, <3>1, <4>1, <4>2, <4>3 DEF InTime
    <3>2. CASE p.leaving /\ ~p.pending
      <4>1. p.exit_in # 0 BY <3>2 DEF Due
      <4>2. q.leaving BY <2>3, <3>2
      <4>3. p.left >= p.exit_in - Latency - 1 BY <2>2, <2>3, <4>2 DEF InTime
      <4>4. QED BY <2>4, <2>6, <3>2, <4>1, <4>3 DEF InTime
    <3>3. CASE ~p.leaving /\ ~p.pending
      <4>1. p.left > 0
        <5>1. ~ShouldExit(p) BY <2>6, <3>3 DEF Due, Leaving
        <5>2. QED BY <2>4, <5>1 DEF ShouldExit
      <4>2. QED BY <2>4, <2>6, <3>3, <4>1 DEF InTime
    <3>4. QED BY <2>6, <3>1, <3>2, <3>3
  <2>7. QED BY <2>5, <2>6
<1>3. QED
  <2> SUFFICES ASSUME NEW r \in Remain PROVE InTime(r, TRUE)
    BY <1>1 DEF RiskInv
  <2>1. PICK p \in Live \ Due :
               /\ p \notin Scheduled => r = p
               /\ p \in Scheduled => r = [p EXCEPT !.leaving = TRUE, !.exit_in = Latency]
    BY RemainFacts
  <2>2. CASE p \in Scheduled BY <1>2, <2>1, <2>2
  <2>3. CASE p \notin Scheduled BY <1>2, <2>1, <2>3
  <2>4. QED BY <2>2, <2>3

\* No step leaves a position behind its time.
LEMMA RiskStep ==
  ASSUME ConstantsOK, Timely, BookInv, RiskInv, [Next]_vars
  PROVE  RiskInv'
<1>1. CASE UNCHANGED <<positions, swept>> BY <1>1 DEF RiskInv
<1>2. CASE Clock BY <1>2, ClockInTime
<1>3. CASE SweepExits BY <1>3, SweepInTime
<1>4. ASSUME NEW b \in Bases, FundingScan(b) PROVE RiskInv'
  <2>1. PICK side \in {-1, 1} : Open("funding", b, side, 0, FundingHold, 0)
    BY <1>4 DEF FundingScan
  <2>2. "funding" \in Strategies /\ UNCHANGED swept BY <1>4 DEF FundingScan
  <2>3. FundingHold \in Nat /\ 0 <= FundingHold BY DEF ConstantsOK
  <2>4. QED BY <2>1, <2>2, <2>3, OpenInTime
<1>5. ASSUME NEW b \in Bases, NEW v \in Venues, NEW mid \in Prices, NEW d \in Delays,
             OnTick(b, v, mid, d)
      PROVE  RiskInv'
  <2>1. UNCHANGED swept /\ d \in Nat /\ d <= MaxHold /\ d <= LatencyHold /\ Latency <= MaxHold
        /\ MaxHold \in Nat /\ LatencyHold \in Nat
    BY <1>5 DEF OnTick, ConstantsOK, Timely
  <2>2. CASE UNCHANGED <<positions, next_id, entered, cooldowns>> BY <1>1, <2>1, <2>2
  <2>3. CASE TryEnterLatency(b, d)
    <3>1. PICK side \in {-1, 1} : Open("latency", b, side, 0, LatencyHold, d)
      BY <2>3 DEF TryEnterLatency
    <3>2. "latency" \in Strategies BY <2>3 DEF TryEnterLatency
    <3>3. QED BY <2>1, <3>1, <3>2, OpenInTime
  <2>4. CASE TryEnterPairs(b, d)
    <3>1. PICK side \in {-1, 1} : Open("pairs", b, side, 0, MaxHold, d)
      BY <2>4 DEF TryEnterPairs
    <3>2. "pairs" \in Strategies BY <2>4 DEF TryEnterPairs
    <3>3. QED BY <2>1, <3>1, <3>2, OpenInTime
  <2>5. QED BY <1>5, <2>2, <2>3, <2>4 DEF OnTick
<1>6. CASE Book \/ SendExit BY <1>1, <1>6 DEF Book, SendExit, book
<1>7. CASE UNCHANGED vars BY <1>1, <1>7 DEF vars, book
<1>8. QED BY <1>2, <1>3, <1>4, <1>5, <1>6, <1>7 DEF Next

\* "Hard timeout still wins to bound risk": nothing outlives it by more than the paper
\* latency and a sweep, when ticks and latency are shorter than the holds.
THEOREM RiskBoundedCorrect == ConstantsOK /\ Timely /\ Spec => []RiskBounded
<1> SUFFICES ASSUME ConstantsOK, Timely PROVE Spec => []RiskBounded
  OBVIOUS
<1>1. Init => RiskInv BY DEF Init, RiskInv
<1>2. BookInv /\ RiskInv /\ [Next]_vars => RiskInv' BY RiskStep
<1>3. BookInv /\ RiskInv => RiskBounded
  <2> SUFFICES ASSUME BookInv, RiskInv, NEW p \in positions PROVE p.left >= -(Latency + 1)
    BY DEF RiskBounded
  <2>1. /\ p.left \in Int /\ p.exit_in \in Nat /\ p.fill_in \in Nat /\ Latency \in Nat
        /\ InTime(p, swept)
    BY DEF BookInv, PositionsInv, RiskInv, Entries, ConstantsOK
  <2>2. QED BY <2>1 DEF InTime
<1>4. QED BY <1>1, <1>2, <1>3, BookInvCorrect, PTL DEF Spec
===============================================================================
