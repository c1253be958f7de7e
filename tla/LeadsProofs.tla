----------------------------- MODULE LeadsProofs -----------------------------
(***************************************************************************)
(* The invariants of MCLeads, for any values of its constants.             *)
(*                                                                         *)
(* Position ids are unique and no fresh signal is dropped: every id ever   *)
(* issued lies below the clock, and below the generator of the running     *)
(* process, so a generator seeded from the clock starts above everything   *)
(* its predecessors issued.                                                *)
(*                                                                         *)
(* The BingX executor settles a position once and strands none in silence: *)
(* a position at the venue is minded by an entry that polls, by its row,   *)
(* or by an exit that closes, unless an accident happened on its base.     *)
(*                                                                         *)
(* Of the lead strategies, the theorems of GateLeadProofs are taken by     *)
(* instances under the substitutions of MCLeads.  A definition under two   *)
(* instances is two definitions to the prover, so the lemmas "Same" expand *)
(* both.  Two strategies with one generator of ids keep theirs apart.      *)
(***************************************************************************)
EXTENDS MCLeads, FiniteSetTheorems, TLAPS

lvars == <<focus, vars, lead, fills, anchor, fleet, trade, feed, sink, reader>>

-----------------------------------------------------------------------------
(* Position identifiers                                                    *)

\* The state of PosId has its type.
THEOREM TypeCorrect == Spec => []TypeOK
<1>1. Init => TypeOK
  BY PosIdAssumption DEF Init, TypeOK, Signals, NoGen, Key
<1>2. TypeOK /\ [Next]_vars => TypeOK'
  <2> SUFFICES ASSUME TypeOK, [Next]_vars PROVE TypeOK'
    OBVIOUS
  <2> USE DEF TypeOK, Signals, NoGen, Key
  <2>1. CASE Tick BY <2>1 DEF Tick
  <2>2. ASSUME NEW b \in Bases, NextId(b) PROVE TypeOK'
    BY <2>2, PosIdAssumption DEF NextId, Seed
  <2>3. CASE RestartCollector BY <2>3 DEF RestartCollector
  <2>4. ASSUME NEW s \in wire, HandleEntry(s) PROVE TypeOK'
    BY <2>4 DEF HandleEntry
  <2>5. ASSUME NEW s \in wire, LoseEntry(s) PROVE TypeOK'
    BY <2>5 DEF LoseEntry
  <2>6. CASE RestartExecutor BY <2>6 DEF RestartExecutor
  <2>7. CASE UNCHANGED vars BY <2>7 DEF vars
  <2>8. QED BY <2>1, <2>2, <2>3, <2>4, <2>5, <2>6, <2>7 DEF Next
<1>3. QED BY <1>1, <1>2, PTL DEF Spec

\* Everything issued lies below the clock and below a running generator, which
\* itself has not overtaken the clock.
Below ==
    /\ clock >= 1
    /\ gen # NoGen => gen <= clock
    /\ \A s \in issued : s.id < clock /\ (gen # NoGen => s.id < gen)

\* The executor knows issued keys only, and none that is still on the wire.
Unseen ==
    /\ \A k \in seen : \E s \in issued : k = Key(s)
    /\ \A s \in wire : Key(s) \notin seen

IInv == TypeOK /\ Below /\ IdsUnique /\ Unseen /\ NoFreshSignalDropped

\* The identifier NextId hands out.
NewId == IF gen = NoGen THEN Seed(clock) ELSE gen

\* It is above everything issued.
LEMMA NewIdFresh ==
  ASSUME TypeOK, Below
  PROVE  NewId \in Nat /\ NewId <= clock /\ \A s \in issued : s.id < NewId
BY DEF TypeOK, Below, NewId, Seed, NoGen, Signals

\* The one step that issues an identifier keeps the invariant.
LEMMA NextIdStep ==
  ASSUME IInv, TypeOK', NEW b \in Bases, NextId(b)
  PROVE  IInv'
<1> DEFINE s == [base |-> b, id |-> NewId, run |-> run]
<1>1. /\ gen' = NewId + 1 /\ clock' = clock + 1
      /\ issued' = issued \union {s} /\ wire' = wire \union {s}
      /\ UNCHANGED <<run, seen, dropped>>
  BY DEF NextId, NewId
<1>2. NewId \in Nat /\ NewId <= clock /\ \A t \in issued : t.id < NewId
  BY NewIdFresh DEF IInv
<1>3. clock \in Nat /\ \A t \in issued : t.id \in Nat
  BY DEF IInv, TypeOK, Signals
<1>4. s.id = NewId OBVIOUS
<1> HIDE DEF s
<1>5. Below'
  <2>1. clock' >= 1 /\ gen' <= clock' BY <1>1, <1>2, <1>3
  <2>2. ASSUME NEW t \in issued' PROVE t.id < clock' /\ t.id < gen'
    <3>1. CASE t = s BY <1>1, <1>2, <1>3, <1>4, <3>1
    <3>2. CASE t \in issued BY <1>1, <1>2, <1>3, <3>2
    <3>3. QED BY <1>1, <2>2, <3>1, <3>2
  <2>3. QED BY <2>1, <2>2 DEF Below
<1>6. IdsUnique'
  <2> SUFFICES ASSUME NEW t \in issued', NEW u \in issued', t.id = u.id PROVE t = u
    BY DEF IdsUnique
  <2>1. \A v \in issued : v.id # s.id BY <1>2, <1>3, <1>4
  <2>2. QED BY <1>1, <2>1 DEF IInv, IdsUnique
<1>7. Unseen'
  <2>1. Key(s) \notin seen
    <3>1. \A t \in issued : Key(t) # Key(s) BY <1>2, <1>3, <1>4 DEF Key
    <3>2. QED BY <3>1 DEF IInv, Unseen
  <2>2. \A k \in seen' : \E t \in issued' : k = Key(t)
    BY <1>1 DEF IInv, Unseen
  <2>3. QED BY <1>1, <2>1, <2>2 DEF IInv, Unseen
<1>8. NoFreshSignalDropped' BY <1>1 DEF IInv, NoFreshSignalDropped
<1>9. QED BY <1>5, <1>6, <1>7, <1>8 DEF IInv

\* Handling a signal: nothing else on the wire has its key.
LEMMA HandleEntryStep ==
  ASSUME IInv, TypeOK', NEW s \in wire, HandleEntry(s)
  PROVE  IInv'
<1>1. /\ wire' = wire \ {s} /\ seen' = seen \union {Key(s)}
      /\ UNCHANGED <<clock, gen, issued>>
  BY DEF HandleEntry
<1>2. wire \subseteq issued BY DEF IInv, TypeOK
<1>3. Key(s) \notin seen BY DEF IInv, Unseen
<1>4. \A t \in wire' : Key(t) # Key(s)
  BY <1>1, <1>2 DEF IInv, IdsUnique, Key
<1>5. Unseen' BY <1>1, <1>2, <1>4 DEF IInv, Unseen
<1>6. NoFreshSignalDropped' BY <1>3 DEF HandleEntry, IInv, NoFreshSignalDropped
<1>7. Below' /\ IdsUnique' BY <1>1 DEF IInv, Below, IdsUnique
<1>8. QED BY <1>5, <1>6, <1>7 DEF IInv

\* Every reachable state satisfies the invariant.
LEMMA IInvCorrect == Spec => []IInv
<1>1. Init => Below /\ IdsUnique /\ Unseen /\ NoFreshSignalDropped
  BY PosIdAssumption DEF Init, Below, IdsUnique, Unseen, NoFreshSignalDropped
<1>2. IInv /\ TypeOK' /\ [Next]_vars => IInv'
  <2> SUFFICES ASSUME IInv, TypeOK', [Next]_vars PROVE IInv'
    OBVIOUS
  <2> USE DEF IInv, Below, IdsUnique, Unseen, NoFreshSignalDropped
  <2>1. CASE Tick BY <2>1 DEF Tick, TypeOK, Signals
  <2>2. ASSUME NEW b \in Bases, NextId(b) PROVE IInv' BY <2>2, NextIdStep
  <2>3. CASE RestartCollector BY <2>3 DEF RestartCollector
  <2>4. ASSUME NEW s \in wire, HandleEntry(s) PROVE IInv'
    BY <2>4, HandleEntryStep
  <2>5. ASSUME NEW s \in wire, LoseEntry(s) PROVE IInv' BY <2>5 DEF LoseEntry
  <2>6. CASE RestartExecutor BY <2>6 DEF RestartExecutor
  <2>7. CASE UNCHANGED vars BY <2>7 DEF vars
  <2>8. QED BY <2>1, <2>2, <2>3, <2>4, <2>5, <2>6, <2>7 DEF Next
<1>3. TypeOK /\ Below /\ IdsUnique /\ Unseen /\ NoFreshSignalDropped => IInv
  BY DEF IInv
<1>4. QED BY <1>1, <1>2, <1>3, TypeCorrect, PTL DEF Spec

\* No two positions, of whatever strategy and whatever collector process, share
\* an identifier: the claim of pos_id.rs.
THEOREM IdsUniqueCorrect == Spec => []IdsUnique
<1>1. IInv => IdsUnique BY DEF IInv
<1>2. QED BY <1>1, IInvCorrect, PTL

\* Restarts on either side never make the executor take a fresh signal for one
\* it has seen.
THEOREM NoFreshSignalDroppedCorrect == Spec => []NoFreshSignalDropped
<1>1. IInv => NoFreshSignalDropped BY DEF IInv
<1>2. QED BY <1>1, IInvCorrect, PTL

-----------------------------------------------------------------------------
(* The BingX executor                                                      *)

Idle == {"none", "sent"}

\* The values of the executor's fields.
BxFields ==
    /\ x_mode \in Modes
    /\ x_paper \in [Bx!Ids -> {Bx!NoPaper} \cup [base : Coins, side : {1, -1}]]
    /\ x_entry \in [Bx!Ids -> {"none", "sent", "resolve", "store",
        "done"} \cup Bx!InFlight]
    /\ x_exit \in [Bx!Ids -> {"none", "sent", "close", "done"}]
    /\ x_found \in [Bx!Ids -> 0..MaxId]
    /\ x_open \in [Coins -> [id : 0..MaxId, pid : 0..MaxId]]
    /\ x_taken \in [Bx!Ids -> [id : 0..MaxId, pid : 0..MaxId]]
    /\ x_resting \subseteq Bx!Ids /\ x_lost \subseteq Coins
    /\ x_rows \in Nat /\ x_settled \in Nat

\* The venue's position of a base has an id while there is one.
BxVenue ==
    /\ x_real \in [Coins -> [qty : Int, pid : 0..MaxId]]
    /\ \A b \in Coins : x_real[b].qty = 0 <=> x_real[b].pid = 0

\* A task has a signal before it; a dry run sends nothing.
BxSignals ==
    /\ \A i \in Bx!Ids : x_paper[i] = Bx!NoPaper => x_entry[i] = "none" /\ x_exit[i] = "none"
    /\ \A i \in x_resting : x_paper[i] # Bx!NoPaper
    /\ x_mode = "dry" =>
          /\ x_resting = {} /\ \A b \in Coins : x_real[b].qty = 0
          /\ \A i \in Bx!Ids : x_entry[i] \notin {"poll", "register"}

\* A row is that of an entry on its base which is past its registration; unless an
\* accident happened there, the exit of the row is still to take it.
BxRows ==
    \A b \in Coins : x_open[b] # Bx!NoRow =>
        /\ x_open[b].id \in Bx!Ids
        /\ x_entry[x_open[b].id] \in {"resolve", "store", "done"}
        /\ b \notin x_lost =>
              Bx!Base(x_open[b].id) = b /\ x_exit[x_open[b].id] \in Idle

\* Unless an accident happened on its base, an entry under way has an exit that did
\* not give up on it, and an order rests only while its entry polls.
BxTasks ==
    \A i \in Bx!Ids : x_paper[i] # Bx!NoPaper /\ Bx!Base(i) \notin x_lost =>
        /\ x_entry[i] \in Bx!InFlight \cup {"sent"} => x_exit[i] \in Idle
        /\ i \in x_resting => x_entry[i] = "poll"

\* Who will see to a position at the venue: an entry that polls for its fill or
\* registers it, the row, or an exit that closes.
Minded(b) ==
    \/ x_open[b] # Bx!NoRow
    \/ \E i \in Bx!Ids :
          /\ x_paper[i] # Bx!NoPaper /\ Bx!Base(i) = b
          /\ \/ x_entry[i] = "poll" /\ i \notin x_resting
             \/ x_entry[i] = "register"
             \/ x_exit[i] = "close"

BxMinded == \A b \in Coins : x_real[b].qty # 0 /\ b \notin x_lost => Minded(b)

Closes == {i \in Bx!Ids : x_exit[i] = "close"}
OpenRows == {b \in Coins : x_open[b] # Bx!NoRow}
BxCount ==
  /\ IsFiniteSet(OpenRows)
  /\ x_settled + Cardinality(Closes) + Cardinality(OpenRows) <= x_rows

BxInv == BxFields /\ BxVenue /\ BxSignals /\ BxRows /\ BxTasks /\ BxMinded /\ BxCount

\* Initially there is nothing to see to.
LEMMA BxInit == Bx!ConstantsOK /\ Bx!Init => BxInv
<1> SUFFICES ASSUME Bx!ConstantsOK, Bx!Init PROVE BxInv
  OBVIOUS
<1>1. BxFields BY DEF Bx!Init, BxFields, Bx!NoRow, Bx!NoPaper, Bx!Ids, Bx!ConstantsOK
<1>2. BxVenue /\ BxSignals
  BY DEF Bx!Init, BxVenue, BxSignals, Bx!Ids, Bx!ConstantsOK
<1>3. BxRows /\ BxTasks /\ BxMinded
  BY DEF Bx!Init, BxRows, BxTasks, BxMinded, Bx!NoPaper
<1>4. BxCount
  <2>1. OpenRows = {} /\ Closes = {} BY DEF Bx!Init, OpenRows, Closes
  <2>2. x_settled = 0 /\ x_rows = 0 BY DEF Bx!Init
  <2>3. QED BY <2>1, <2>2, FS_EmptySet DEF BxCount
<1>5. QED BY <1>1, <1>2, <1>3, <1>4 DEF BxInv

\* The invariant is what is asked.
LEMMA BxShows == BxInv => Bx!TypeOK /\ Bx!NoSilentStrand /\ Bx!SettledOnce
<1> SUFFICES ASSUME BxInv PROVE Bx!TypeOK /\ Bx!NoSilentStrand /\ Bx!SettledOnce
  OBVIOUS
<1>1. Bx!TypeOK BY DEF BxInv, BxFields, BxVenue, Bx!TypeOK
<1>2. ASSUME Bx!Quiet, NEW b \in Coins, x_real[b].qty # 0, b \notin x_lost PROVE FALSE
  <2>1. Minded(b) BY <1>2 DEF BxInv, BxMinded
  <2>2. CASE x_open[b] # Bx!NoRow
    <3>1. x_open[b].id \in Bx!Ids /\ x_entry[x_open[b].id] # "none" /\ x_exit[x_open[b].id] \in Idle
      BY <1>2, <2>2 DEF BxInv, BxRows
    <3>2. x_paper[x_open[b].id] # Bx!NoPaper BY <3>1 DEF BxInv, BxSignals
    <3>3. QED BY <1>2, <3>1, <3>2 DEF Bx!Quiet, Idle
  <2>3. CASE x_open[b] = Bx!NoRow BY <1>2, <2>1, <2>3 DEF Minded, Bx!Quiet
  <2>4. QED BY <2>2, <2>3
<1>3. Bx!SettledOnce
  BY DEF BxInv, BxCount, Closes, OpenRows, Bx!SettledOnce, Bx!Cardinality, Cardinality
<1>4. QED BY <1>1, <1>2, <1>3 DEF Bx!NoSilentStrand

\* What a task of the executor works on.
LEMMA BxBase ==
  ASSUME Bx!ConstantsOK, BxFields, BxVenue, BxSignals, NEW i \in Bx!Ids,
         x_entry[i] # "none" \/ x_exit[i] # "none" \/ i \in x_resting
  PROVE  /\ x_paper[i] # Bx!NoPaper /\ x_paper[i] \in [base : Coins, side : {1, -1}]
         /\ Bx!Base(i) \in Coins /\ x_paper[i].side \in {1, -1}
         /\ x_open[Bx!Base(i)] \in [id : 0..MaxId, pid : 0..MaxId]
         /\ x_real[Bx!Base(i)] \in [qty : Int, pid : 0..MaxId]
         /\ x_real[Bx!Base(i)].qty \in Int /\ x_real[Bx!Base(i)].pid \in 0..MaxId
         /\ MaxId \in Nat /\ i \in 1..MaxId
<1>1. x_paper[i] # Bx!NoPaper BY DEF BxSignals
<1>2. x_paper[i] \in [base : Coins, side : {1, -1}] BY <1>1 DEF BxFields
<1>3. Bx!Base(i) \in Coins /\ x_paper[i].side \in {1, -1} BY <1>2 DEF Bx!Base
<1>4. QED BY <1>1, <1>2, <1>3 DEF BxFields, BxVenue, Bx!ConstantsOK, Bx!Ids

\* The position after a fill.
LEMMA BxFilled ==
  ASSUME Bx!ConstantsOK, BxFields, BxVenue, BxSignals, NEW i \in Bx!Ids,
         x_entry[i] # "none" \/ i \in x_resting
  PROVE  /\ Bx!Filled(i) \in [Coins -> [qty : Int, pid : 0..MaxId]]
         /\ \A b \in Coins : Bx!Filled(i)[b].qty = 0 <=> Bx!Filled(i)[b].pid = 0
         /\ \A b \in Coins \ {Bx!Base(i)} : Bx!Filled(i)[b] = x_real[b]
<1> DEFINE p == x_real[Bx!Base(i)]
           q == p.qty + x_paper[i].side
           r == [qty |-> q, pid |-> IF q = 0 THEN 0 ELSE IF p.qty = 0 THEN i ELSE p.pid]
<1>1. Bx!Base(i) \in Coins /\ x_paper[i].side \in {1, -1} /\ p.qty \in Int
      /\ p.pid \in 0..MaxId /\ MaxId \in Nat /\ i \in 1..MaxId /\ (p.qty = 0 <=> p.pid = 0)
  BY BxBase DEF BxVenue
<1>2. Bx!Filled(i) = [x_real EXCEPT ![Bx!Base(i)] = r] BY DEF Bx!Filled
<1>3. r \in [qty : Int, pid : 0..MaxId] /\ (r.qty = 0 <=> r.pid = 0) BY <1>1
<1> HIDE DEF r
<1>4. QED BY <1>1, <1>2, <1>3 DEF BxVenue

\* The search for the positionId ends, or found one.
LEMMA ResolveDoes ==
  ASSUME Bx!ConstantsOK, BxInv, NEW i \in Bx!Ids, Bx!ResolveLook(i)
  PROVE  \E at \in {"store", "done"}, f \in 0..MaxId :
           /\ x_entry[i] = "resolve" /\ x_entry' = [x_entry EXCEPT ![i] = at]
           /\ x_found' = [x_found EXCEPT ![i] = f]
           /\ UNCHANGED <<x_mode, x_paper, x_exit, x_open, x_taken, x_pnl, Bx!venue,
               x_restarts, Bx!ghost>>
<1>1. x_entry[i] = "resolve"
      /\ UNCHANGED <<x_mode, x_paper, x_exit, x_open, x_taken, x_pnl, Bx!venue,
          x_restarts, Bx!ghost>>
  BY DEF Bx!ResolveLook
<1>2. x_real[Bx!Base(i)].pid \in 0..MaxId BY <1>1, BxBase DEF BxInv
<1>3. x_found[i] \in 0..MaxId /\ x_found = [x_found EXCEPT ![i] = x_found[i]]
  BY DEF BxInv, BxFields
<1>4. CASE Bx!Go(i, "store") /\ x_found' = [x_found EXCEPT ![i] = x_real[Bx!Base(i)].pid]
  BY <1>1, <1>2, <1>4 DEF Bx!Go
<1>5. CASE Bx!Go(i, "done") /\ UNCHANGED x_found BY <1>1, <1>3, <1>5 DEF Bx!Go
<1>6. QED BY <1>4, <1>5 DEF Bx!ResolveLook

\* What was found goes into the row the base has by then, if any.
LEMMA StoreDoes ==
  ASSUME Bx!ConstantsOK, BxInv, NEW i \in Bx!Ids, Bx!ResolveStore(i)
  PROVE  \E row \in [id : 0..MaxId, pid : 0..MaxId] :
           /\ x_entry[i] = "store" /\ x_open' = [x_open EXCEPT ![Bx!Base(i)] = row]
           /\ row = Bx!NoRow <=> x_open[Bx!Base(i)] = Bx!NoRow
           /\ row.id = x_open[Bx!Base(i)].id
           /\ x_entry' = [x_entry EXCEPT ![i] = "done"]
           /\ UNCHANGED <<x_mode, x_paper, x_exit, x_found, x_taken, x_pnl, Bx!venue,
               x_restarts, Bx!ghost>>
<1> DEFINE old == x_open[Bx!Base(i)]
           row == [old EXCEPT !.pid = IF old = Bx!NoRow THEN 0 ELSE x_found[i]]
<1>1. /\ x_entry[i] = "store" /\ x_entry' = [x_entry EXCEPT ![i] = "done"]
      /\ UNCHANGED <<x_mode, x_paper, x_exit, x_found, x_taken, x_pnl, Bx!venue,
          x_restarts, Bx!ghost>>
      /\ x_open' = [x_open EXCEPT ![Bx!Base(i)].pid = IF old = Bx!NoRow THEN 0 ELSE x_found[i]]
  BY DEF Bx!ResolveStore, Bx!Go
<1>2. old \in [id : 0..MaxId, pid : 0..MaxId] /\ MaxId \in Nat /\ Bx!Base(i) \in Coins
  BY <1>1, BxBase DEF BxInv
<1>3. x_found[i] \in 0..MaxId BY DEF BxInv, BxFields
<1>4. row \in [id : 0..MaxId, pid : 0..MaxId] /\ row.id = old.id BY <1>2, <1>3
<1>5. old # Bx!NoRow => old.id # 0
  BY <1>2 DEF BxInv, BxRows, Bx!Ids
<1>6. row = Bx!NoRow <=> old = Bx!NoRow BY <1>2, <1>4, <1>5 DEF Bx!NoRow
<1>7. x_open' = [x_open EXCEPT ![Bx!Base(i)] = row] BY <1>1
<1>8. QED BY <1>1, <1>4, <1>6, <1>7

\* The fields keep their values: ResolveLook.
LEMMA ResolveLookFields ==
  ASSUME Bx!ConstantsOK, BxInv, NEW i \in Bx!Ids, Bx!ResolveLook(i)
  PROVE  BxFields'
<1>1. PICK at \in {"store", "done"}, f \in 0..MaxId :
        /\ x_entry' = [x_entry EXCEPT ![i] = at] /\ x_found' = [x_found EXCEPT ![i] = f]
        /\ UNCHANGED <<x_mode, x_paper, x_exit, x_open, x_taken, x_pnl, Bx!venue,
            x_restarts, Bx!ghost>>
  BY ResolveDoes
<1>2. QED BY <1>1 DEF BxInv, BxFields, Bx!venue, Bx!ghost

\* The fields keep their values: ResolveStore.
LEMMA ResolveStoreFields ==
  ASSUME Bx!ConstantsOK, BxInv, NEW i \in Bx!Ids, Bx!ResolveStore(i)
  PROVE  BxFields'
<1>1. PICK row \in [id : 0..MaxId, pid : 0..MaxId] :
        /\ x_open' = [x_open EXCEPT ![Bx!Base(i)] = row]
        /\ x_entry' = [x_entry EXCEPT ![i] = "done"]
        /\ UNCHANGED <<x_mode, x_paper, x_exit, x_found, x_taken, x_pnl, Bx!venue,
            x_restarts, Bx!ghost>>
  BY StoreDoes
<1>2. QED BY <1>1, BxBase DEF BxInv, BxFields, Bx!venue, Bx!ghost

\* The fields keep their values: Restart.
LEMMA RestartFields ==
  ASSUME Bx!ConstantsOK, BxInv, Bx!Restart
  PROVE  BxFields'
<1>1. MaxId \in Nat BY DEF Bx!ConstantsOK
<1>2. x_lost' \subseteq Coins
  <2>1. \A i \in x_resting : Bx!Base(i) \in Coins BY BxBase DEF BxInv, BxFields
  <2>2. QED BY <2>1 DEF BxInv, Bx!Restart, Bx!Lost, BxFields
<1>3. /\ x_entry' \in [Bx!Ids -> {"none", "done"}] /\ x_exit' \in [Bx!Ids -> {"none",
          "done"}]
      /\ x_found' \in [Bx!Ids -> 0..MaxId] /\ Bx!NoRow \in [id : 0..MaxId, pid : 0..MaxId]
  BY <1>1 DEF Bx!Restart, Bx!NoRow
<1>4. QED BY <1>2, <1>3 DEF BxInv, Bx!Restart, Bx!venue, BxFields

\* The fields keep their values.
LEMMA BxFieldsStep ==
  ASSUME Bx!ConstantsOK, BxInv, Bx!Next
  PROVE  BxFields'
<1> USE
  DEF BxInv, BxFields, BxVenue, BxSignals, BxRows, BxTasks, BxMinded, Bx!venue, Bx!ghost
<1>1. ASSUME NEW i \in Bx!Ids, NEW b \in Coins, NEW side \in {1, -1}, Bx!PaperEntry(i,
    b, side) PROVE BxFields'
  BY <1>1, BxBase DEF Bx!Go, Bx!InFlight, Bx!NoPaper, Bx!NoRow, Bx!PaperEntry
<1>2. ASSUME NEW i \in Bx!Ids, Bx!PaperExit(i) PROVE BxFields'
  BY <1>2, BxBase DEF Bx!InFlight, Bx!NoPaper, Bx!NoRow, Bx!PaperExit
<1>3. ASSUME NEW i \in Bx!Ids, Bx!DryEntry(i) PROVE BxFields'
  BY <1>3, BxBase DEF Bx!DryEntry, Bx!Go, Bx!InFlight, Bx!NoPaper, Bx!NoRow
<1>4. ASSUME NEW i \in Bx!Ids, Bx!Order(i) PROVE BxFields'
  BY <1>4, BxBase, BxFilled
    DEF Bx!Go, Bx!InFlight, Bx!Lost, Bx!NoPaper, Bx!NoRow, Bx!Order
<1>5. ASSUME NEW i \in Bx!Ids, Bx!VenueFill(i) PROVE BxFields'
  BY <1>5, BxBase, BxFilled DEF Bx!InFlight, Bx!NoPaper, Bx!NoRow, Bx!VenueFill
<1>6. ASSUME NEW i \in Bx!Ids, Bx!PollFinds(i) PROVE BxFields'
  BY <1>6, BxBase DEF Bx!Go, Bx!InFlight, Bx!Lost, Bx!NoPaper, Bx!NoRow, Bx!PollFinds
<1>7. ASSUME NEW i \in Bx!Ids, Bx!Register(i) PROVE BxFields'
  BY <1>7, BxBase DEF Bx!Go, Bx!InFlight, Bx!NoPaper, Bx!NoRow, Bx!Register, Bx!Row
<1>8. ASSUME NEW i \in Bx!Ids, Bx!ResolveLook(i) PROVE BxFields'
  BY <1>8, ResolveLookFields
<1>9. ASSUME NEW i \in Bx!Ids, Bx!ResolveStore(i) PROVE BxFields'
  BY <1>9, ResolveStoreFields
<1>10. ASSUME NEW i \in Bx!Ids, Bx!Take(i) PROVE BxFields'
  BY <1>10, BxBase DEF Bx!InFlight, Bx!Lost, Bx!NoPaper, Bx!NoRow, Bx!Take
<1>11. ASSUME NEW i \in Bx!Ids, Bx!GiveUp(i) PROVE BxFields'
  BY <1>11, BxBase DEF Bx!GiveUp, Bx!InFlight, Bx!Lost, Bx!NoPaper, Bx!NoRow
<1>12. ASSUME NEW i \in Bx!Ids, NEW ok \in BOOLEAN, Bx!Gate(i, ok) PROVE BxFields'
  BY <1>12, BxBase DEF Bx!Gate, Bx!Go, Bx!InFlight, Bx!NoPaper, Bx!NoRow
<1>13. ASSUME NEW i \in Bx!Ids, NEW ok \in BOOLEAN, Bx!CancelUnfilled(i, ok)
  PROVE BxFields'
  BY <1>13, BxBase
    DEF Bx!CancelUnfilled, Bx!Go, Bx!InFlight, Bx!Lost, Bx!NoPaper, Bx!NoRow
<1>14. ASSUME NEW i \in Bx!Ids, NEW ok \in BOOLEAN, Bx!CloseFails(i, ok) PROVE BxFields'
  BY <1>14, BxBase DEF Bx!CloseFails, Bx!Flat, Bx!InFlight, Bx!Lost, Bx!NoPaper, Bx!NoRow
<1>15. ASSUME NEW i \in Bx!Ids, NEW gain \in Gains, Bx!Close(i, gain) PROVE BxFields'
  BY <1>15, BxBase DEF Bx!Close, Bx!Flat, Bx!InFlight, Bx!NoPaper, Bx!NoRow
<1>16. CASE Bx!Restart BY <1>16, RestartFields
<1> HIDE DEF BxInv
<1>17. QED
  BY <1>1, <1>2, <1>3, <1>4, <1>5, <1>6, <1>7, <1>8, <1>9, <1>10, <1>11, <1>12, <1>13,
    <1>14, <1>15, <1>16 DEF Bx!Next

\* The venue's positions keep their ids: Close.
LEMMA CloseVenue ==
  ASSUME Bx!ConstantsOK, BxInv, NEW i \in Bx!Ids, NEW gain \in Gains, Bx!Close(i, gain)
  PROVE  BxVenue'
<1>1. MaxId \in Nat BY DEF Bx!ConstantsOK
<1>2. x_real' = x_real \/ x_real' = [x_real EXCEPT ![Bx!Base(i)] = [qty |-> 0, pid |-> 0]]
  BY DEF Bx!Close, Bx!Flat
<1>3. QED BY <1>1, <1>2 DEF BxInv, BxVenue

\* The venue's positions keep their ids.
LEMMA BxVenueStep ==
  ASSUME Bx!ConstantsOK, BxInv, Bx!Next
  PROVE  BxVenue'
<1> USE
  DEF BxInv, BxFields, BxVenue, BxSignals, BxRows, BxTasks, BxMinded, Bx!venue, Bx!ghost
<1>1. ASSUME NEW i \in Bx!Ids, NEW b \in Coins, NEW side \in {1, -1}, Bx!PaperEntry(i,
    b, side) PROVE BxVenue'
  BY <1>1, BxBase DEF Bx!Go, Bx!InFlight, Bx!PaperEntry
<1>2. ASSUME NEW i \in Bx!Ids, Bx!PaperExit(i) PROVE BxVenue'
  BY <1>2, BxBase DEF Bx!InFlight, Bx!PaperExit
<1>3. ASSUME NEW i \in Bx!Ids, Bx!DryEntry(i) PROVE BxVenue'
  BY <1>3, BxBase DEF Bx!DryEntry, Bx!Go, Bx!InFlight
<1>4. ASSUME NEW i \in Bx!Ids, Bx!Order(i) PROVE BxVenue'
  BY <1>4, BxBase, BxFilled DEF Bx!Go, Bx!InFlight, Bx!Lost, Bx!Order
<1>5. ASSUME NEW i \in Bx!Ids, Bx!VenueFill(i) PROVE BxVenue'
  BY <1>5, BxBase, BxFilled DEF Bx!InFlight, Bx!VenueFill
<1>6. ASSUME NEW i \in Bx!Ids, Bx!PollFinds(i) PROVE BxVenue'
  BY <1>6, BxBase DEF Bx!Go, Bx!InFlight, Bx!Lost, Bx!PollFinds
<1>7. ASSUME NEW i \in Bx!Ids, Bx!Register(i) PROVE BxVenue'
  BY <1>7, BxBase DEF Bx!Go, Bx!InFlight, Bx!Register, Bx!Row
<1>8. ASSUME NEW i \in Bx!Ids, Bx!ResolveLook(i) PROVE BxVenue'
  BY <1>8, BxBase DEF Bx!Go, Bx!InFlight, Bx!ResolveLook
<1>9. ASSUME NEW i \in Bx!Ids, Bx!ResolveStore(i) PROVE BxVenue'
  BY <1>9, BxBase DEF Bx!Go, Bx!InFlight, Bx!ResolveStore
<1>10. ASSUME NEW i \in Bx!Ids, Bx!Take(i) PROVE BxVenue'
  BY <1>10, BxBase DEF Bx!InFlight, Bx!Lost, Bx!Take
<1>11. ASSUME NEW i \in Bx!Ids, Bx!GiveUp(i) PROVE BxVenue'
  BY <1>11, BxBase DEF Bx!GiveUp, Bx!InFlight, Bx!Lost
<1>12. ASSUME NEW i \in Bx!Ids, NEW ok \in BOOLEAN, Bx!Gate(i, ok) PROVE BxVenue'
  BY <1>12, BxBase DEF Bx!Gate, Bx!Go, Bx!InFlight
<1>13. ASSUME NEW i \in Bx!Ids, NEW ok \in BOOLEAN, Bx!CancelUnfilled(i, ok)
  PROVE BxVenue'
  BY <1>13, BxBase DEF Bx!CancelUnfilled, Bx!Go, Bx!InFlight, Bx!Lost
<1>14. ASSUME NEW i \in Bx!Ids, NEW ok \in BOOLEAN, Bx!CloseFails(i, ok) PROVE BxVenue'
  BY <1>14, BxBase DEF Bx!CloseFails, Bx!Flat, Bx!InFlight, Bx!Lost
<1>15. ASSUME NEW i \in Bx!Ids, NEW gain \in Gains, Bx!Close(i, gain) PROVE BxVenue'
  BY <1>15, CloseVenue
<1>16. CASE Bx!Restart BY <1>16, BxBase DEF Bx!InFlight, Bx!Lost, Bx!Restart
<1> HIDE DEF BxInv
<1>17. QED
  BY <1>1, <1>2, <1>3, <1>4, <1>5, <1>6, <1>7, <1>8, <1>9, <1>10, <1>11, <1>12, <1>13,
    <1>14, <1>15, <1>16 DEF Bx!Next

\* Tasks stay behind their signals.
LEMMA BxSignalsStep ==
  ASSUME Bx!ConstantsOK, BxInv, Bx!Next
  PROVE  BxSignals'
<1> USE
  DEF BxInv, BxFields, BxVenue, BxSignals, BxRows, BxTasks, BxMinded, Bx!venue, Bx!ghost
<1>1. ASSUME NEW i \in Bx!Ids, NEW b \in Coins, NEW side \in {1, -1}, Bx!PaperEntry(i,
    b, side) PROVE BxSignals'
  BY <1>1, BxBase DEF Bx!Go, Bx!InFlight, Bx!NoPaper, Bx!PaperEntry
<1>2. ASSUME NEW i \in Bx!Ids, Bx!PaperExit(i) PROVE BxSignals'
  BY <1>2, BxBase DEF Bx!InFlight, Bx!NoPaper, Bx!PaperExit
<1>3. ASSUME NEW i \in Bx!Ids, Bx!DryEntry(i) PROVE BxSignals'
  BY <1>3, BxBase DEF Bx!DryEntry, Bx!Go, Bx!InFlight, Bx!NoPaper
<1>4. ASSUME NEW i \in Bx!Ids, Bx!Order(i) PROVE BxSignals'
  BY <1>4, BxBase, BxFilled DEF Bx!Go, Bx!InFlight, Bx!Lost, Bx!NoPaper, Bx!Order
<1>5. ASSUME NEW i \in Bx!Ids, Bx!VenueFill(i) PROVE BxSignals'
  BY <1>5, BxBase, BxFilled DEF Bx!InFlight, Bx!NoPaper, Bx!VenueFill
<1>6. ASSUME NEW i \in Bx!Ids, Bx!PollFinds(i) PROVE BxSignals'
  BY <1>6, BxBase DEF Bx!Go, Bx!InFlight, Bx!Lost, Bx!NoPaper, Bx!PollFinds
<1>7. ASSUME NEW i \in Bx!Ids, Bx!Register(i) PROVE BxSignals'
  BY <1>7, BxBase DEF Bx!Go, Bx!InFlight, Bx!NoPaper, Bx!Register, Bx!Row
<1>8. ASSUME NEW i \in Bx!Ids, Bx!ResolveLook(i) PROVE BxSignals'
  BY <1>8, BxBase DEF Bx!Go, Bx!InFlight, Bx!NoPaper, Bx!ResolveLook
<1>9. ASSUME NEW i \in Bx!Ids, Bx!ResolveStore(i) PROVE BxSignals'
  BY <1>9, BxBase DEF Bx!Go, Bx!InFlight, Bx!NoPaper, Bx!ResolveStore
<1>10. ASSUME NEW i \in Bx!Ids, Bx!Take(i) PROVE BxSignals'
  BY <1>10, BxBase DEF Bx!InFlight, Bx!Lost, Bx!NoPaper, Bx!Take
<1>11. ASSUME NEW i \in Bx!Ids, Bx!GiveUp(i) PROVE BxSignals'
  BY <1>11, BxBase DEF Bx!GiveUp, Bx!InFlight, Bx!Lost, Bx!NoPaper
<1>12. ASSUME NEW i \in Bx!Ids, NEW ok \in BOOLEAN, Bx!Gate(i, ok) PROVE BxSignals'
  BY <1>12, BxBase DEF Bx!Gate, Bx!Go, Bx!InFlight, Bx!NoPaper
<1>13. ASSUME NEW i \in Bx!Ids, NEW ok \in BOOLEAN, Bx!CancelUnfilled(i, ok)
  PROVE BxSignals'
  BY <1>13, BxBase DEF Bx!CancelUnfilled, Bx!Go, Bx!InFlight, Bx!Lost, Bx!NoPaper
<1>14. ASSUME NEW i \in Bx!Ids, NEW ok \in BOOLEAN, Bx!CloseFails(i, ok) PROVE BxSignals'
  BY <1>14, BxBase DEF Bx!CloseFails, Bx!Flat, Bx!InFlight, Bx!Lost, Bx!NoPaper
<1>15. ASSUME NEW i \in Bx!Ids, NEW gain \in Gains, Bx!Close(i, gain) PROVE BxSignals'
  BY <1>15, BxBase DEF Bx!Close, Bx!Flat, Bx!InFlight, Bx!NoPaper
<1>16. CASE Bx!Restart BY <1>16, BxBase DEF Bx!InFlight, Bx!Lost, Bx!NoPaper, Bx!Restart
<1> HIDE DEF BxInv
<1>17. QED
  BY <1>1, <1>2, <1>3, <1>4, <1>5, <1>6, <1>7, <1>8, <1>9, <1>10, <1>11, <1>12, <1>13,
    <1>14, <1>15, <1>16 DEF Bx!Next

\* A row stays one its exit is to take: Order.
LEMMA OrderRows ==
  ASSUME Bx!ConstantsOK, BxInv, NEW i \in Bx!Ids, Bx!Order(i)
  PROVE  BxRows'
<1>1. /\ x_entry[i] = "order" /\ UNCHANGED <<x_open, x_exit,
          x_paper>> /\ x_lost \subseteq x_lost'
      /\ \A j \in Bx!Ids \ {i} : x_entry'[j] = x_entry[j]
  BY DEF BxInv, BxFields, Bx!Order, Bx!Go, Bx!Lost
<1>2. \A b \in Coins : x_open[b] # Bx!NoRow => x_open[b].id \in Bx!Ids \ {i}
  BY <1>1 DEF BxInv, BxRows
<1>3. QED BY <1>1, <1>2 DEF BxInv, BxRows, Bx!Base

\* A row stays one its exit is to take: ResolveLook.
LEMMA ResolveLookRows ==
  ASSUME Bx!ConstantsOK, BxInv, NEW i \in Bx!Ids, Bx!ResolveLook(i)
  PROVE  BxRows'
<1>1. PICK at \in {"store", "done"}, f \in 0..MaxId :
        /\ x_entry' = [x_entry EXCEPT ![i] = at]
        /\ UNCHANGED <<x_paper, x_exit, x_open, Bx!ghost>>
  BY ResolveDoes
<1>2. QED BY <1>1 DEF BxInv, BxRows, BxFields, Bx!Base, Bx!ghost

\* A row stays one its exit is to take: ResolveStore.
LEMMA ResolveStoreRows ==
  ASSUME Bx!ConstantsOK, BxInv, NEW i \in Bx!Ids, Bx!ResolveStore(i)
  PROVE  BxRows'
<1>1. PICK row \in [id : 0..MaxId, pid : 0..MaxId] :
        /\ x_open' = [x_open EXCEPT ![Bx!Base(i)] = row]
        /\ row = Bx!NoRow <=> x_open[Bx!Base(i)] = Bx!NoRow
        /\ row.id = x_open[Bx!Base(i)].id
        /\ x_entry' = [x_entry EXCEPT ![i] = "done"]
        /\ UNCHANGED <<x_paper, x_exit, Bx!ghost>>
  BY StoreDoes
<1>2. \A b \in Coins : /\ x_open'[b] = Bx!NoRow <=> x_open[b] = Bx!NoRow
                       /\ x_open[b] # Bx!NoRow => x_open'[b].id = x_open[b].id
  BY <1>1 DEF BxInv, BxFields
<1>3. QED BY <1>1, <1>2 DEF BxInv, BxRows, BxFields, Bx!Base, Bx!ghost

\* A row stays one its exit is to take.
LEMMA BxRowsStep ==
  ASSUME Bx!ConstantsOK, BxInv, Bx!Next
  PROVE  BxRows'
<1> USE
  DEF BxInv, BxFields, BxVenue, BxSignals, BxRows, BxTasks, BxMinded, Bx!venue, Bx!ghost
<1>1. ASSUME NEW i \in Bx!Ids, NEW b \in Coins, NEW side \in {1, -1}, Bx!PaperEntry(i,
    b, side) PROVE BxRows'
  BY <1>1, BxBase
    DEF Bx!Base, Bx!Go, Idle, Bx!Ids, Bx!InFlight, Bx!NoPaper, Bx!NoRow, Bx!PaperEntry
<1>2. ASSUME NEW i \in Bx!Ids, Bx!PaperExit(i) PROVE BxRows'
  BY <1>2, BxBase
    DEF Bx!Base, Idle, Bx!Ids, Bx!InFlight, Bx!NoPaper, Bx!NoRow, Bx!PaperExit
<1>3. ASSUME NEW i \in Bx!Ids, Bx!DryEntry(i) PROVE BxRows'
  BY <1>3, BxBase
    DEF Bx!Base, Bx!DryEntry, Bx!Go, Idle, Bx!Ids, Bx!InFlight, Bx!NoPaper, Bx!NoRow
<1>4. ASSUME NEW i \in Bx!Ids, Bx!Order(i) PROVE BxRows'
  BY <1>4, OrderRows
<1>5. ASSUME NEW i \in Bx!Ids, Bx!VenueFill(i) PROVE BxRows'
  BY <1>5, BxBase, BxFilled
    DEF Bx!Base, Idle, Bx!Ids, Bx!InFlight, Bx!NoPaper, Bx!NoRow, Bx!VenueFill
<1>6. ASSUME NEW i \in Bx!Ids, Bx!PollFinds(i) PROVE BxRows'
  BY <1>6, BxBase, SMTT(30)
    DEF Bx!Base, Bx!Go, Idle, Bx!Ids, Bx!InFlight, Bx!Lost, Bx!NoPaper, Bx!NoRow,
      Bx!PollFinds
<1>7. ASSUME NEW i \in Bx!Ids, Bx!Register(i) PROVE BxRows'
  BY <1>7, BxBase
    DEF Bx!Base, Bx!Go, Idle, Bx!Ids, Bx!InFlight, Bx!NoPaper, Bx!NoRow, Bx!Register,
      Bx!Row
<1>8. ASSUME NEW i \in Bx!Ids, Bx!ResolveLook(i) PROVE BxRows'
  BY <1>8, ResolveLookRows
<1>9. ASSUME NEW i \in Bx!Ids, Bx!ResolveStore(i) PROVE BxRows'
  BY <1>9, ResolveStoreRows
<1>10. ASSUME NEW i \in Bx!Ids, Bx!Take(i) PROVE BxRows'
  BY <1>10, BxBase
    DEF Bx!Base, Idle, Bx!Ids, Bx!InFlight, Bx!Lost, Bx!NoPaper, Bx!NoRow, Bx!Take
<1>11. ASSUME NEW i \in Bx!Ids, Bx!GiveUp(i) PROVE BxRows'
  BY <1>11, BxBase
    DEF Bx!Base, Bx!GiveUp, Idle, Bx!Ids, Bx!InFlight, Bx!Lost, Bx!NoPaper, Bx!NoRow
<1>12. ASSUME NEW i \in Bx!Ids, NEW ok \in BOOLEAN, Bx!Gate(i, ok) PROVE BxRows'
  BY <1>12, BxBase
    DEF Bx!Base, Bx!Gate, Bx!Go, Idle, Bx!Ids, Bx!InFlight, Bx!NoPaper, Bx!NoRow
<1>13. ASSUME NEW i \in Bx!Ids, NEW ok \in BOOLEAN, Bx!CancelUnfilled(i, ok) PROVE BxRows'
  BY <1>13, BxBase
    DEF Bx!Base, Bx!CancelUnfilled, Bx!Go, Idle, Bx!Ids, Bx!InFlight, Bx!Lost,
      Bx!NoPaper, Bx!NoRow
<1>14. ASSUME NEW i \in Bx!Ids, NEW ok \in BOOLEAN, Bx!CloseFails(i, ok) PROVE BxRows'
  BY <1>14, BxBase
    DEF Bx!Base, Bx!CloseFails, Bx!Flat, Idle, Bx!Ids, Bx!InFlight, Bx!Lost,
      Bx!NoPaper, Bx!NoRow
<1>15. ASSUME NEW i \in Bx!Ids, NEW gain \in Gains, Bx!Close(i, gain) PROVE BxRows'
  BY <1>15, BxBase
    DEF Bx!Base, Bx!Close, Bx!Flat, Idle, Bx!Ids, Bx!InFlight, Bx!NoPaper, Bx!NoRow
<1>16. CASE Bx!Restart BY <1>16, BxBase
  DEF Bx!Base, Idle, Bx!Ids, Bx!InFlight, Bx!Lost, Bx!NoPaper, Bx!NoRow, Bx!Restart
<1> HIDE DEF BxInv
<1>17. QED
  BY <1>1, <1>2, <1>3, <1>4, <1>5, <1>6, <1>7, <1>8, <1>9, <1>10, <1>11, <1>12, <1>13,
    <1>14, <1>15, <1>16 DEF Bx!Next

\* An entry under way keeps its exit.
LEMMA BxTasksStep ==
  ASSUME Bx!ConstantsOK, BxInv, Bx!Next
  PROVE  BxTasks'
<1> USE
  DEF BxInv, BxFields, BxVenue, BxSignals, BxRows, BxTasks, BxMinded, Bx!venue, Bx!ghost
<1>1. ASSUME NEW i \in Bx!Ids, NEW b \in Coins, NEW side \in {1, -1}, Bx!PaperEntry(i,
    b, side) PROVE BxTasks'
  BY <1>1, BxBase DEF Bx!Base, Bx!Go, Idle, Bx!InFlight, Bx!NoPaper, Bx!PaperEntry
<1>2. ASSUME NEW i \in Bx!Ids, Bx!PaperExit(i) PROVE BxTasks'
  BY <1>2, BxBase DEF Bx!Base, Idle, Bx!InFlight, Bx!NoPaper, Bx!PaperExit
<1>3. ASSUME NEW i \in Bx!Ids, Bx!DryEntry(i) PROVE BxTasks'
  BY <1>3, BxBase DEF Bx!Base, Bx!DryEntry, Bx!Go, Idle, Bx!InFlight, Bx!NoPaper
<1>4. ASSUME NEW i \in Bx!Ids, Bx!Order(i) PROVE BxTasks'
  BY <1>4, BxBase, BxFilled
    DEF Bx!Base, Bx!Go, Idle, Bx!InFlight, Bx!Lost, Bx!NoPaper, Bx!Order
<1>5. ASSUME NEW i \in Bx!Ids, Bx!VenueFill(i) PROVE BxTasks'
  BY <1>5, BxBase, BxFilled DEF Bx!Base, Idle, Bx!InFlight, Bx!NoPaper, Bx!VenueFill
<1>6. ASSUME NEW i \in Bx!Ids, Bx!PollFinds(i) PROVE BxTasks'
  BY <1>6, BxBase DEF Bx!Base, Bx!Go, Idle, Bx!InFlight, Bx!Lost, Bx!NoPaper, Bx!PollFinds
<1>7. ASSUME NEW i \in Bx!Ids, Bx!Register(i) PROVE BxTasks'
  BY <1>7, BxBase DEF Bx!Base, Bx!Go, Idle, Bx!InFlight, Bx!NoPaper, Bx!Register, Bx!Row
<1>8. ASSUME NEW i \in Bx!Ids, Bx!ResolveLook(i) PROVE BxTasks'
  BY <1>8, BxBase DEF Bx!Base, Bx!Go, Idle, Bx!InFlight, Bx!NoPaper, Bx!ResolveLook
<1>9. ASSUME NEW i \in Bx!Ids, Bx!ResolveStore(i) PROVE BxTasks'
  BY <1>9, BxBase DEF Bx!Base, Bx!Go, Idle, Bx!InFlight, Bx!NoPaper, Bx!ResolveStore
<1>10. ASSUME NEW i \in Bx!Ids, Bx!Take(i) PROVE BxTasks'
  BY <1>10, BxBase, SMTT(30) DEF Bx!Base, Idle, Bx!InFlight, Bx!Lost, Bx!NoPaper, Bx!Take
<1>11. ASSUME NEW i \in Bx!Ids, Bx!GiveUp(i) PROVE BxTasks'
  BY <1>11, BxBase DEF Bx!Base, Bx!GiveUp, Idle, Bx!InFlight, Bx!Lost, Bx!NoPaper
<1>12. ASSUME NEW i \in Bx!Ids, NEW ok \in BOOLEAN, Bx!Gate(i, ok) PROVE BxTasks'
  BY <1>12, BxBase DEF Bx!Base, Bx!Gate, Bx!Go, Idle, Bx!InFlight, Bx!NoPaper
<1>13. ASSUME NEW i \in Bx!Ids, NEW ok \in BOOLEAN, Bx!CancelUnfilled(i, ok)
  PROVE BxTasks'
  BY <1>13, BxBase
    DEF Bx!Base, Bx!CancelUnfilled, Bx!Go, Idle, Bx!InFlight, Bx!Lost, Bx!NoPaper
<1>14. ASSUME NEW i \in Bx!Ids, NEW ok \in BOOLEAN, Bx!CloseFails(i, ok) PROVE BxTasks'
  BY <1>14, BxBase
    DEF Bx!Base, Bx!CloseFails, Bx!Flat, Idle, Bx!InFlight, Bx!Lost, Bx!NoPaper
<1>15. ASSUME NEW i \in Bx!Ids, NEW gain \in Gains, Bx!Close(i, gain) PROVE BxTasks'
  BY <1>15, BxBase DEF Bx!Base, Bx!Close, Bx!Flat, Idle, Bx!InFlight, Bx!NoPaper
<1>16. CASE Bx!Restart BY <1>16, BxBase
  DEF Bx!Base, Idle, Bx!InFlight, Bx!Lost, Bx!NoPaper, Bx!Restart
<1> HIDE DEF BxInv
<1>17. QED
  BY <1>1, <1>2, <1>3, <1>4, <1>5, <1>6, <1>7, <1>8, <1>9, <1>10, <1>11, <1>12, <1>13,
    <1>14, <1>15, <1>16 DEF Bx!Next

\* A position at the venue stays minded: PaperEntry.
LEMMA PaperEntryMinded ==
  ASSUME Bx!ConstantsOK, BxInv, NEW i \in Bx!Ids, NEW b \in Coins, NEW side \in {1,
      -1}, Bx!PaperEntry(i, b, side)
  PROVE  BxMinded'
<1> SUFFICES ASSUME NEW a \in Coins, x_real'[a].qty # 0, a \notin x_lost' PROVE Minded(a)'
  BY DEF BxInv, BxMinded
<1>1. /\ x_paper[i] = Bx!NoPaper /\ UNCHANGED <<x_exit, x_open, Bx!venue, Bx!ghost>>
      /\ \A j \in Bx!Ids \ {i} : x_paper'[j] = x_paper[j] /\ x_entry'[j] = x_entry[j]
  BY DEF Bx!PaperEntry, Bx!Go
<1>2. Minded(a) BY <1>1 DEF BxInv, BxMinded, Bx!venue, Bx!ghost
<1>3. QED BY <1>1, <1>2 DEF Minded, Bx!Base, Bx!venue

\* A position at the venue stays minded: Order.
LEMMA OrderMinded ==
  ASSUME Bx!ConstantsOK, BxInv, NEW i \in Bx!Ids, Bx!Order(i)
  PROVE  BxMinded'
<1> SUFFICES ASSUME NEW b \in Coins, x_real'[b].qty # 0, b \notin x_lost' PROVE Minded(b)'
  BY DEF BxInv, BxMinded
<1>1. /\ x_entry[i] = "order" /\ UNCHANGED <<x_open, x_exit,
          x_paper>> /\ x_lost \subseteq x_lost'
      /\ \A j \in Bx!Ids \ {i} : x_entry'[j] = x_entry[j]
      /\ x_resting' \subseteq x_resting \cup {i}
  BY DEF BxInv, BxFields, Bx!Order, Bx!Go, Bx!Lost, Bx!venue
<1>2. CASE x_real' = x_real
  <2>1. Minded(b) BY <1>1, <1>2 DEF BxInv, BxMinded
  <2>2. QED BY <1>1, <2>1 DEF Minded, Bx!Base
<1>3. CASE x_real' = Bx!Filled(i) /\ x_entry' = [x_entry EXCEPT ![i] = "register"]
  <2>1. x_paper'[i] # Bx!NoPaper /\ x_entry'[i] = "register"
    BY <1>1, <1>3, BxBase DEF BxInv, BxFields
  <2>2. CASE b = Bx!Base(i) BY <1>1, <2>1, <2>2 DEF Minded, Bx!Base
  <2>3. CASE b # Bx!Base(i)
    <3>1. x_real'[b] = x_real[b] BY <1>1, <1>3, <2>3, BxFilled DEF BxInv, BxFields
    <3>2. Minded(b) BY <1>1, <3>1 DEF BxInv, BxMinded
    <3>3. QED BY <1>1, <3>2 DEF Minded, Bx!Base
  <2>4. QED BY <2>2, <2>3
<1>4. QED BY <1>2, <1>3 DEF Bx!Order, Bx!Go, Bx!venue

\* A position at the venue stays minded: VenueFill.
LEMMA VenueFillMinded ==
  ASSUME Bx!ConstantsOK, BxInv, NEW i \in Bx!Ids, Bx!VenueFill(i)
  PROVE  BxMinded'
<1> SUFFICES ASSUME NEW b \in Coins, x_real'[b].qty # 0, b \notin x_lost' PROVE Minded(b)'
  BY DEF BxInv, BxMinded
<1>1. /\ i \in x_resting /\ x_resting' = x_resting \ {i} /\ x_real' = Bx!Filled(i)
      /\ UNCHANGED <<x_paper, x_entry, x_exit, x_open, x_lost>>
  BY DEF Bx!VenueFill, Bx!ghost
<1>2. CASE b = Bx!Base(i)
  <2>1. x_paper[i] # Bx!NoPaper BY <1>1, BxBase DEF BxInv, BxFields
  <2>2. x_entry[i] = "poll" BY <1>1, <1>2, <2>1 DEF BxInv, BxTasks
  <2>3. QED BY <1>1, <1>2, <2>1, <2>2 DEF Minded, Bx!Base
<1>3. CASE b # Bx!Base(i)
  <2>1. x_real'[b] = x_real[b] BY <1>1, <1>3, BxFilled DEF BxInv, BxFields
  <2>2. Minded(b) BY <1>1, <2>1 DEF BxInv, BxMinded
  <2>3. QED BY <1>1, <2>2 DEF Minded, Bx!Base
<1>4. QED BY <1>2, <1>3

\* A position at the venue stays minded: Register.
LEMMA RegisterMinded ==
  ASSUME Bx!ConstantsOK, BxInv, NEW i \in Bx!Ids, Bx!Register(i)
  PROVE  BxMinded'
<1> SUFFICES ASSUME NEW b \in Coins, x_real'[b].qty # 0, b \notin x_lost' PROVE Minded(b)'
  BY DEF BxInv, BxMinded
<1>1. /\ x_entry[i] = "register" /\ x_open' = [x_open EXCEPT ![Bx!Base(i)] = Bx!Row(i)]
      /\ UNCHANGED <<x_paper, x_exit, x_real, x_resting, x_lost>>
      /\ \A j \in Bx!Ids \ {i} : x_entry'[j] = x_entry[j]
  BY DEF Bx!Register, Bx!Go, Bx!venue
<1>2. Bx!Base(i) \in Coins /\ Bx!Row(i) # Bx!NoRow
  BY <1>1, BxBase DEF BxInv, BxFields, Bx!Row, Bx!NoRow
<1>3. CASE b = Bx!Base(i) BY <1>1, <1>2, <1>3 DEF BxInv, Minded, BxFields
<1>4. CASE b # Bx!Base(i)
  <2>1. x_open'[b] = x_open[b] BY <1>1, <1>4 DEF BxInv, BxFields
  <2>2. Minded(b) BY <1>1 DEF BxInv, BxMinded
  <2>3. QED BY <1>1, <1>4, <2>1, <2>2 DEF Minded, Bx!Base
<1>5. QED BY <1>3, <1>4

\* A position at the venue stays minded: ResolveLook.
LEMMA ResolveLookMinded ==
  ASSUME Bx!ConstantsOK, BxInv, NEW i \in Bx!Ids, Bx!ResolveLook(i)
  PROVE  BxMinded'
<1> SUFFICES ASSUME NEW b \in Coins, x_real'[b].qty # 0, b \notin x_lost' PROVE Minded(b)'
  BY DEF BxInv, BxMinded
<1>1. PICK at \in {"store", "done"}, f \in 0..MaxId :
        /\ x_entry[i] = "resolve" /\ x_entry' = [x_entry EXCEPT ![i] = at]
        /\ UNCHANGED <<x_paper, x_exit, x_open, Bx!venue, Bx!ghost>>
  BY ResolveDoes
<1>2. Minded(b) BY <1>1 DEF BxInv, BxMinded, Bx!venue, Bx!ghost
<1>3. \A j \in Bx!Ids \ {i} : x_entry'[j] = x_entry[j] BY <1>1 DEF BxInv, BxFields
<1>4. QED BY <1>1, <1>2, <1>3 DEF Minded, Bx!Base, Bx!venue

\* A position at the venue stays minded: ResolveStore.
LEMMA ResolveStoreMinded ==
  ASSUME Bx!ConstantsOK, BxInv, NEW i \in Bx!Ids, Bx!ResolveStore(i)
  PROVE  BxMinded'
<1> SUFFICES ASSUME NEW b \in Coins, x_real'[b].qty # 0, b \notin x_lost' PROVE Minded(b)'
  BY DEF BxInv, BxMinded
<1>1. PICK row \in [id : 0..MaxId, pid : 0..MaxId] :
        /\ x_entry[i] = "store" /\ x_open' = [x_open EXCEPT ![Bx!Base(i)] = row]
        /\ row = Bx!NoRow <=> x_open[Bx!Base(i)] = Bx!NoRow
        /\ x_entry' = [x_entry EXCEPT ![i] = "done"]
        /\ UNCHANGED <<x_paper, x_exit, Bx!venue, Bx!ghost>>
  BY StoreDoes
<1>2. Minded(b) BY <1>1 DEF BxInv, BxMinded, Bx!venue, Bx!ghost
<1>3. \A j \in Bx!Ids \ {i} : x_entry'[j] = x_entry[j] BY <1>1 DEF BxInv, BxFields
<1>4. x_open'[b] = Bx!NoRow <=> x_open[b] = Bx!NoRow BY <1>1 DEF BxInv, BxFields
<1>5. QED BY <1>1, <1>2, <1>3, <1>4 DEF Minded, Bx!Base, Bx!venue

\* A position at the venue stays minded: CancelUnfilled.
LEMMA CancelUnfilledMinded ==
  ASSUME Bx!ConstantsOK, BxInv, NEW i \in Bx!Ids, NEW ok \in BOOLEAN,
      Bx!CancelUnfilled(i, ok)
  PROVE  BxMinded'
<1> SUFFICES ASSUME NEW b \in Coins, x_real'[b].qty # 0, b \notin x_lost' PROVE Minded(b)'
  BY DEF BxInv, BxMinded
<1>1. /\ x_entry[i] = "poll" /\ UNCHANGED <<x_paper, x_exit, x_open, x_real>>
      /\ x_lost \subseteq x_lost' /\ x_resting' \subseteq x_resting
      /\ ~ (ok /\ i \in x_resting) => Bx!Base(i) \in x_lost'
      /\ \A j \in Bx!Ids \ {i} : x_entry'[j] = x_entry[j]
  BY DEF Bx!CancelUnfilled, Bx!Go, Bx!Lost
<1>2. Minded(b) BY <1>1 DEF BxInv, BxMinded
<1>3. CASE x_open[b] # Bx!NoRow BY <1>1, <1>3 DEF Minded
<1>4. CASE x_open[b] = Bx!NoRow
  <2>1. PICK j \in Bx!Ids :
           /\ x_paper[j] # Bx!NoPaper /\ Bx!Base(j) = b
           /\ \/ x_entry[j] = "poll" /\ j \notin x_resting
              \/ x_entry[j] = "register"
              \/ x_exit[j] = "close"
    BY <1>2, <1>4 DEF Minded
  <2>2. CASE x_exit[j] = "close" BY <1>1, <2>1, <2>2 DEF Minded, Bx!Base
  <2>3. CASE x_exit[j] # "close"
    <3>1. j # i BY <1>1, <2>1, <2>3
    <3>2. QED BY <1>1, <2>1, <3>1 DEF Minded, Bx!Base
  <2>4. QED BY <2>2, <2>3
<1>5. QED BY <1>3, <1>4

\* A position at the venue stays minded: Close.
LEMMA CloseMinded ==
  ASSUME Bx!ConstantsOK, BxInv, NEW i \in Bx!Ids, NEW gain \in Gains, Bx!Close(i, gain)
  PROVE  BxMinded'
<1> SUFFICES ASSUME NEW b \in Coins, x_real'[b].qty # 0, b \notin x_lost' PROVE Minded(b)'
  BY DEF BxInv, BxMinded
<1>1. /\ x_exit[i] = "close" /\ UNCHANGED <<x_mode, x_paper, x_entry, x_open,
          x_resting, x_lost>>
      /\ \A j \in Bx!Ids \ {i} : x_exit'[j] = x_exit[j]
      /\ IF x_mode = "dry" THEN x_real' = x_real ELSE x_real' = Bx!Flat(Bx!Base(i))
  BY DEF Bx!Close
<1>2. Bx!Base(i) \in Coins BY <1>1, BxBase DEF BxInv, BxFields
<1>3. x_mode # "dry" /\ b # Bx!Base(i)
  <2>1. x_mode # "dry" BY <1>1 DEF BxInv, BxSignals
  <2>2. x_real'[Bx!Base(i)].qty = 0 BY <1>1, <1>2, <2>1 DEF BxInv, Bx!Flat, BxVenue
  <2>3. QED BY <2>1, <2>2
<1>4. x_real'[b] = x_real[b] BY <1>1, <1>3 DEF BxInv, Bx!Flat, BxVenue
<1>5. Minded(b) BY <1>1, <1>4 DEF BxInv, BxMinded
<1>6. QED BY <1>1, <1>3, <1>5 DEF Minded, Bx!Base

\* A position at the venue stays minded.
LEMMA BxMindedStep ==
  ASSUME Bx!ConstantsOK, BxInv, Bx!Next
  PROVE  BxMinded'
<1> USE
  DEF BxInv, BxFields, BxVenue, BxSignals, BxRows, BxTasks, BxMinded, Bx!venue, Bx!ghost
<1>1. ASSUME NEW i \in Bx!Ids, NEW b \in Coins, NEW side \in {1, -1}, Bx!PaperEntry(i,
    b, side) PROVE BxMinded'
  BY <1>1, PaperEntryMinded
<1>2. ASSUME NEW i \in Bx!Ids, Bx!PaperExit(i) PROVE BxMinded'
  BY <1>2, BxBase
    DEF Bx!Base, Bx!Ids, Bx!InFlight, Minded, Bx!NoPaper, Bx!NoRow, Bx!PaperExit
<1>3. ASSUME NEW i \in Bx!Ids, Bx!DryEntry(i) PROVE BxMinded'
  BY <1>3, BxBase
    DEF Bx!Base, Bx!DryEntry, Bx!Go, Bx!Ids, Bx!InFlight, Minded, Bx!NoPaper, Bx!NoRow
<1>4. ASSUME NEW i \in Bx!Ids, Bx!Order(i) PROVE BxMinded'
  BY <1>4, OrderMinded
<1>5. ASSUME NEW i \in Bx!Ids, Bx!VenueFill(i) PROVE BxMinded'
  BY <1>5, VenueFillMinded
<1>6. ASSUME NEW i \in Bx!Ids, Bx!PollFinds(i) PROVE BxMinded'
  BY <1>6, BxBase
    DEF Bx!Base, Bx!Go, Bx!Ids, Bx!InFlight, Bx!Lost, Minded, Bx!NoPaper, Bx!NoRow,
      Bx!PollFinds
<1>7. ASSUME NEW i \in Bx!Ids, Bx!Register(i) PROVE BxMinded'
  BY <1>7, RegisterMinded
<1>8. ASSUME NEW i \in Bx!Ids, Bx!ResolveLook(i) PROVE BxMinded'
  BY <1>8, ResolveLookMinded
<1>9. ASSUME NEW i \in Bx!Ids, Bx!ResolveStore(i) PROVE BxMinded'
  BY <1>9, ResolveStoreMinded
<1>10. ASSUME NEW i \in Bx!Ids, Bx!Take(i) PROVE BxMinded'
  BY <1>10, BxBase
    DEF Bx!Base, Bx!Ids, Bx!InFlight, Bx!Lost, Minded, Bx!NoPaper, Bx!NoRow, Bx!Take
<1>11. ASSUME NEW i \in Bx!Ids, Bx!GiveUp(i) PROVE BxMinded'
  BY <1>11, BxBase
    DEF Bx!Base, Bx!GiveUp, Bx!Ids, Bx!InFlight, Bx!Lost, Minded, Bx!NoPaper, Bx!NoRow
<1>12. ASSUME NEW i \in Bx!Ids, NEW ok \in BOOLEAN, Bx!Gate(i, ok) PROVE BxMinded'
  BY <1>12, BxBase
    DEF Bx!Base, Bx!Gate, Bx!Go, Bx!Ids, Bx!InFlight, Minded, Bx!NoPaper, Bx!NoRow
<1>13. ASSUME NEW i \in Bx!Ids, NEW ok \in BOOLEAN, Bx!CancelUnfilled(i, ok)
  PROVE BxMinded'
  BY <1>13, CancelUnfilledMinded
<1>14. ASSUME NEW i \in Bx!Ids, NEW ok \in BOOLEAN, Bx!CloseFails(i, ok) PROVE BxMinded'
  BY <1>14, BxBase
    DEF Bx!Base, Bx!CloseFails, Bx!Flat, Bx!Ids, Bx!InFlight, Bx!Lost, Minded,
      Bx!NoPaper, Bx!NoRow
<1>15. ASSUME NEW i \in Bx!Ids, NEW gain \in Gains, Bx!Close(i, gain) PROVE BxMinded'
  BY <1>15, CloseMinded
<1>16. CASE Bx!Restart BY <1>16, BxBase
  DEF Bx!Base, Bx!Ids, Bx!InFlight, Bx!Lost, Minded, Bx!NoPaper, Bx!NoRow, Bx!Restart
<1> HIDE DEF BxInv
<1>17. QED
  BY <1>1, <1>2, <1>3, <1>4, <1>5, <1>6, <1>7, <1>8, <1>9, <1>10, <1>11, <1>12, <1>13,
    <1>14, <1>15, <1>16 DEF Bx!Next

\* One element more makes a finite set at most one larger.
LEMMA OneMore ==
  ASSUME NEW S, IsFiniteSet(S), NEW x
  PROVE  IsFiniteSet(S \cup {x}) /\ Cardinality(S \cup {x}) <= Cardinality(S) + 1
<1>1. Cardinality(S) \in Nat BY FS_CardinalityType
<1>2. CASE x \in S
  <2>1. S \cup {x} = S BY <1>2
  <2>2. IsFiniteSet(S \cup {x}) /\ Cardinality(S \cup {x}) = Cardinality(S)
    BY <2>1, Zenon
  <2>3. QED BY <1>1, <2>2
<1>3. CASE x \notin S
  <2>1. IsFiniteSet(S \cup {x}) /\ Cardinality(S \cup {x}) = Cardinality(S) + 1
    BY <1>3, FS_AddElement
  <2>2. QED BY <1>1, <2>1
<1>4. QED BY <1>2, <1>3

\* Rows and settlements are counted: a row is open, its exit closes, or its trade was
\* settled or given up.
LEMMA BxCountStep ==
  ASSUME Bx!ConstantsOK, BxInv, Bx!Next
  PROVE  BxCount'
<1>1. /\ MaxId \in Nat /\ IsFiniteSet(Bx!Ids) /\ x_rows \in Nat /\ x_settled \in Nat
      /\ IsFiniteSet(OpenRows) /\ IsFiniteSet(Closes)
      /\ x_settled + Cardinality(Closes) + Cardinality(OpenRows) <= x_rows
  <2>1. MaxId \in Nat /\ IsFiniteSet(Bx!Ids) BY FS_Interval DEF Bx!ConstantsOK, Bx!Ids
  <2>2. Closes \subseteq Bx!Ids BY DEF Closes
  <2>3. QED BY <2>1, <2>2, FS_Subset
    DEF BxInv, BxFields, BxCount
<1>2. Cardinality(OpenRows) \in Nat /\ Cardinality(Closes) \in Nat
  BY <1>1, FS_CardinalityType
<1> SUFFICES /\ IsFiniteSet(OpenRows')
             /\ x_settled' + Cardinality(Closes') + Cardinality(OpenRows') <= x_rows'
  BY DEF BxCount
<1>3. ASSUME OpenRows' = OpenRows, Closes' = Closes, UNCHANGED <<x_rows, x_settled>>
      PROVE  /\ IsFiniteSet(OpenRows')
             /\ x_settled' + Cardinality(Closes') + Cardinality(OpenRows') <= x_rows'
  BY <1>1, <1>3
<1>4. ASSUME NEW i \in Bx!Ids, x_entry[i] # "none", NEW row,
             x_open' = [x_open EXCEPT ![Bx!Base(i)] = row],
             x_rows' = x_rows + 1, UNCHANGED <<x_exit, x_settled>>
      PROVE  /\ IsFiniteSet(OpenRows')
             /\ x_settled' + Cardinality(Closes') + Cardinality(OpenRows') <= x_rows'
  <2>1. Bx!Base(i) \in Coins BY <1>4, BxBase DEF BxInv
  <2>2. IsFiniteSet(OpenRows \cup {Bx!Base(i)})
        /\ Cardinality(OpenRows \cup {Bx!Base(i)}) <= Cardinality(OpenRows) + 1
    BY <1>1, OneMore
  <2>3. OpenRows' \subseteq OpenRows \cup {Bx!Base(i)}
    BY <1>4 DEF BxInv, BxFields, OpenRows
  <2>4. IsFiniteSet(OpenRows') /\ Cardinality(OpenRows') <= Cardinality(OpenRows \cup {Bx!Base(i)})
        /\ Cardinality(OpenRows') \in Nat /\ Cardinality(OpenRows \cup {Bx!Base(i)}) \in Nat
    BY <2>2, <2>3, FS_Subset, FS_CardinalityType
  <2>5. Closes' = Closes BY <1>4 DEF Closes
  <2>6. QED BY <1>1, <1>2, <1>4, <2>2, <2>4, <2>5
<1>5. ASSUME NEW i \in Bx!Ids, x_exit[i] = "close",
    x_exit' = [x_exit EXCEPT ![i] = "done"],
             x_settled' \in {x_settled, x_settled + 1}, UNCHANGED <<x_open, x_rows>>
      PROVE  /\ IsFiniteSet(OpenRows')
             /\ x_settled' + Cardinality(Closes') + Cardinality(OpenRows') <= x_rows'
  <2>1. OpenRows' = OpenRows BY <1>5 DEF OpenRows
  <2>2. Closes' = Closes \ {i} /\ i \in Closes BY <1>5 DEF BxInv, BxFields, Closes
  <2>3. Cardinality(Closes \ {i}) = Cardinality(Closes) - 1
    BY <1>1, <2>2, FS_RemoveElement
  <2>4. QED BY <1>1, <1>2, <1>5, <2>1, <2>2, <2>3
<1>6. ASSUME NEW i \in Bx!Ids, NEW b \in Coins, NEW side \in {1, -1}, Bx!PaperEntry(i,
    b, side)
      PROVE OpenRows' = OpenRows /\ Closes' = Closes /\ UNCHANGED <<x_rows, x_settled>>
  BY <1>6 DEF Bx!PaperEntry, OpenRows, Closes, Bx!ghost
<1>7. ASSUME NEW i \in Bx!Ids, Bx!PaperExit(i)
      PROVE OpenRows' = OpenRows /\ Closes' = Closes /\ UNCHANGED <<x_rows, x_settled>>
  BY <1>7 DEF Bx!PaperExit, OpenRows, Closes, Bx!ghost, BxInv, BxFields
<1>8. ASSUME NEW i \in Bx!Ids, Bx!Order(i)
      PROVE OpenRows' = OpenRows /\ Closes' = Closes /\ UNCHANGED <<x_rows, x_settled>>
  BY <1>8 DEF Bx!Order, OpenRows, Closes
<1>9. ASSUME NEW i \in Bx!Ids, Bx!VenueFill(i)
      PROVE OpenRows' = OpenRows /\ Closes' = Closes /\ UNCHANGED <<x_rows, x_settled>>
  BY <1>9 DEF Bx!VenueFill, OpenRows, Closes, Bx!ghost
<1>10. ASSUME NEW i \in Bx!Ids, Bx!PollFinds(i)
      PROVE OpenRows' = OpenRows /\ Closes' = Closes /\ UNCHANGED <<x_rows, x_settled>>
  BY <1>10 DEF Bx!PollFinds, OpenRows, Closes
<1>11. ASSUME NEW i \in Bx!Ids, Bx!ResolveLook(i)
      PROVE OpenRows' = OpenRows /\ Closes' = Closes /\ UNCHANGED <<x_rows, x_settled>>
  BY <1>11 DEF Bx!ResolveLook, OpenRows, Closes, Bx!ghost
<1>12. ASSUME NEW i \in Bx!Ids, Bx!ResolveStore(i)
      PROVE OpenRows' = OpenRows /\ Closes' = Closes /\ UNCHANGED <<x_rows, x_settled>>
  <2>1. PICK row \in [id : 0..MaxId, pid : 0..MaxId] :
           /\ x_open' = [x_open EXCEPT ![Bx!Base(i)] = row]
           /\ row = Bx!NoRow <=> x_open[Bx!Base(i)] = Bx!NoRow
           /\ UNCHANGED <<x_exit, Bx!ghost>>
    BY <1>12, StoreDoes
  <2>2. QED BY <2>1 DEF BxInv, BxFields, OpenRows, Closes, Bx!ghost
<1>13. ASSUME NEW i \in Bx!Ids, Bx!GiveUp(i)
      PROVE OpenRows' = OpenRows /\ Closes' = Closes /\ UNCHANGED <<x_rows, x_settled>>
  BY <1>13 DEF Bx!GiveUp, OpenRows, Closes, BxInv, BxFields
<1>14. ASSUME NEW i \in Bx!Ids, NEW ok \in BOOLEAN, Bx!Gate(i,
    ok) \/ Bx!CancelUnfilled(i, ok)
      PROVE OpenRows' = OpenRows /\ Closes' = Closes /\ UNCHANGED <<x_rows, x_settled>>
  BY <1>14 DEF Bx!Gate, Bx!CancelUnfilled, OpenRows, Closes, Bx!ghost
<1>15. ASSUME NEW i \in Bx!Ids, Bx!DryEntry(i) \/ Bx!Register(i)
      PROVE  /\ IsFiniteSet(OpenRows')
             /\ x_settled' + Cardinality(Closes') + Cardinality(OpenRows') <= x_rows'
  <2>1. x_entry[i] # "none" /\ x_rows' = x_rows + 1 /\ UNCHANGED <<x_exit, x_settled>>
    BY <1>15 DEF Bx!DryEntry, Bx!Register
  <2>2. \E row : x_open' = [x_open EXCEPT ![Bx!Base(i)] = row]
    BY <1>15 DEF Bx!DryEntry, Bx!Register
  <2>3. QED BY <1>4, <2>1, <2>2
<1>16. ASSUME NEW i \in Bx!Ids, Bx!Take(i)
      PROVE  /\ IsFiniteSet(OpenRows')
             /\ x_settled' + Cardinality(Closes') + Cardinality(OpenRows') <= x_rows'
  <2>1. /\ x_exit[i] = "sent" /\ x_open[Bx!Base(i)] # Bx!NoRow
        /\ x_open' = [x_open EXCEPT ![Bx!Base(i)] = Bx!NoRow]
        /\ x_exit' = [x_exit EXCEPT ![i] = "close"] /\ UNCHANGED <<x_rows, x_settled>>
    BY <1>16 DEF Bx!Take
  <2>2. Bx!Base(i) \in Coins BY <2>1, BxBase DEF BxInv
  <2>3. OpenRows' = OpenRows \ {Bx!Base(i)} /\ Bx!Base(i) \in OpenRows
    BY <2>1, <2>2 DEF BxInv, BxFields, OpenRows
  <2>4. Closes' = Closes \cup {i} /\ i \notin Closes
    BY <2>1 DEF BxInv, BxFields, Closes
  <2>5. IsFiniteSet(OpenRows \ {Bx!Base(i)})
        /\ Cardinality(OpenRows \ {Bx!Base(i)}) = Cardinality(OpenRows) - 1
    BY <1>1, <2>3, FS_RemoveElement
  <2>6. Cardinality(Closes \cup {i}) = Cardinality(Closes) + 1
    BY <1>1, <2>4, FS_AddElement
  <2>7. QED BY <1>1, <1>2, <2>1, <2>3, <2>4, <2>5, <2>6
<1>17. ASSUME NEW i \in Bx!Ids, NEW ok \in BOOLEAN, Bx!CloseFails(i, ok)
      PROVE  /\ IsFiniteSet(OpenRows')
             /\ x_settled' + Cardinality(Closes') + Cardinality(OpenRows') <= x_rows'
  BY <1>5, <1>17 DEF Bx!CloseFails
<1>18. ASSUME NEW i \in Bx!Ids, NEW gain \in Gains, Bx!Close(i, gain)
      PROVE  /\ IsFiniteSet(OpenRows')
             /\ x_settled' + Cardinality(Closes') + Cardinality(OpenRows') <= x_rows'
  BY <1>5, <1>18 DEF Bx!Close
<1>19. CASE Bx!Restart
  <2>1. OpenRows' = {} /\ Closes' = {} /\ x_rows' = 0 /\ x_settled' = 0
    BY <1>19 DEF Bx!Restart, OpenRows, Closes
  <2>2. QED BY <2>1, FS_EmptySet
<1>20. QED
  BY <1>3, <1>6, <1>7, <1>8, <1>9, <1>10, <1>11, <1>12, <1>13, <1>14, <1>15, <1>16,
     <1>17, <1>18, <1>19 DEF Bx!Next

\* Every step keeps the invariant.
LEMMA BxStep == Bx!ConstantsOK /\ BxInv /\ [Bx!Next]_(Bx!vars) => BxInv'
<1> SUFFICES ASSUME Bx!ConstantsOK, BxInv, [Bx!Next]_(Bx!vars) PROVE BxInv'
  OBVIOUS
<1>1. CASE Bx!Next
  BY <1>1, BxFieldsStep, BxVenueStep, BxSignalsStep, BxRowsStep, BxTasksStep,
     BxMindedStep, BxCountStep DEF BxInv
<1>2. CASE UNCHANGED Bx!vars
  BY <1>2
    DEF Bx!vars, Bx!venue, Bx!ghost, BxInv, BxFields, BxVenue, BxSignals, BxRows,
        BxTasks, BxMinded, Minded, BxCount, Closes, OpenRows, Bx!Base
<1>3. QED BY <1>1, <1>2

\* Every reachable state satisfies the invariant.
LEMMA BxInvCorrect == Bx!ConstantsOK /\ Bx!Spec => []BxInv
<1> SUFFICES ASSUME Bx!ConstantsOK PROVE Bx!Spec => []BxInv
  OBVIOUS
<1>1. Bx!Init => BxInv BY BxInit
<1>2. BxInv /\ [Bx!Next]_(Bx!vars) => BxInv' BY BxStep
<1>3. QED BY <1>1, <1>2, PTL DEF Bx!Spec

-----------------------------------------------------------------------------
(* Two strategies, one generator of ids                                    *)

HlP == INSTANCE GateLeadProofs WITH
    state <- hl_state, closing <- hl_closing, next_id <- f_next_id,
    entered <- f_entered, exits <- f_exits, Bases <- Coins

MexcP == INSTANCE GateLeadProofs WITH
    state <- mexc_state, closing <- mexc_closing, next_id <- f_next_id,
    entered <- f_entered, exits <- f_exits, Bases <- Coins

\* The Hyperliquid strategy of the fleet.
LEMMA HlSame ==
  /\ Fleet!Hl!ConstantsOK => HlP!ConstantsOK
  /\ Fleet!Hl!Init => HlP!Init
<1>1. Fleet!Hl!ConstantsOK => HlP!ConstantsOK
  BY DEF
        Fleet!Hl!ConstantsOK, HlP!ConstantsOK, Fleet!Hl!IsFiniteSet, HlP!IsFiniteSet
<1>2. Fleet!Hl!Init => HlP!Init
  BY DEF
        Fleet!Hl!Init, HlP!Init, Fleet!Hl!None, HlP!None, Fleet!Hl!OldEntry,
        HlP!OldEntry, Fleet!Hl!OldStop, HlP!OldStop, Fleet!Hl!Tasks, HlP!Tasks,
        Fleet!Hl!Ids, HlP!Ids, Fleet!Hl!Larger, HlP!Larger, Fleet!Hl!Late, HlP!Late,
        Fleet!Hl!OldHeld, HlP!OldHeld
<1>3. QED BY <1>1, <1>2

\* The MEXC strategy of the fleet.
LEMMA MexcSame ==
  /\ Fleet!Mexc!ConstantsOK => MexcP!ConstantsOK
  /\ Fleet!Mexc!Init => MexcP!Init
<1>1. Fleet!Mexc!ConstantsOK => MexcP!ConstantsOK
  BY DEF
        Fleet!Mexc!ConstantsOK, MexcP!ConstantsOK, Fleet!Mexc!IsFiniteSet,
        MexcP!IsFiniteSet
<1>2. Fleet!Mexc!Init => MexcP!Init
  BY DEF
        Fleet!Mexc!Init, MexcP!Init, Fleet!Mexc!None, MexcP!None, Fleet!Mexc!OldEntry,
        MexcP!OldEntry, Fleet!Mexc!OldStop, MexcP!OldStop, Fleet!Mexc!Tasks,
        MexcP!Tasks, Fleet!Mexc!Ids, MexcP!Ids, Fleet!Mexc!Larger, MexcP!Larger,
        Fleet!Mexc!Late, MexcP!Late, Fleet!Mexc!OldHeld, MexcP!OldHeld
<1>3. QED BY <1>1, <1>2

\* A step of the fleet is a step of one strategy, or the clock of both.
LEMMA FleetSteps ==
  ASSUME Fleet!Next
  PROVE  \/ HlP!Next /\ UNCHANGED <<mexc_state, mexc_closing>>
         \/ MexcP!Next /\ UNCHANGED <<hl_state, hl_closing>>
         \/ /\ HlP!Age \/ UNCHANGED <<hl_state, hl_closing>>
            /\ MexcP!Age \/ UNCHANGED <<mexc_state, mexc_closing>>
            /\ UNCHANGED <<f_next_id, f_entered, f_exits>>
<1>1. ASSUME NEW b \in Coins, NEW mid \in Prices, NEW d \in Delays,
             Fleet!HlOnLeader(b, mid, d) \/ Fleet!HlOnFollower(b, mid, d)
      PROVE  HlP!Next /\ UNCHANGED <<mexc_state, mexc_closing>>
  <2>1. UNCHANGED <<mexc_state, mexc_closing>>
    BY <1>1 DEF Fleet!HlOnLeader, Fleet!HlOnFollower, Fleet!mexc
  <2>2. HlP!OnLeader(b, mid, d) \/ HlP!OnFollower(b, mid, d)
    BY <1>1 DEF Fleet!HlOnLeader, Fleet!HlOnFollower,
        Fleet!Hl!OnLeader, HlP!OnLeader, Fleet!Hl!OnFollower, HlP!OnFollower,
        Fleet!Hl!Accepted, HlP!Accepted, Fleet!Hl!Remember, HlP!Remember,
        Fleet!Hl!Signals, HlP!Signals, Fleet!Hl!Enter, HlP!Enter, Fleet!Hl!Push,
        HlP!Push, Fleet!Hl!None, HlP!None, Fleet!Hl!ExitReason, HlP!ExitReason,
        Fleet!Hl!Leave, HlP!Leave, Fleet!Hl!AnchorMid, HlP!AnchorMid, Fleet!Hl!Ready,
        HlP!Ready, Fleet!Hl!Tradable, HlP!Tradable, Fleet!Hl!Lags, HlP!Lags,
        Fleet!Hl!Sign, HlP!Sign, Fleet!Hl!CatchingUp, HlP!CatchingUp, Fleet!Hl!Retraced,
        HlP!Retraced, Fleet!Hl!RoundTrip, HlP!RoundTrip, Fleet!Hl!Prune, HlP!Prune,
        Fleet!Hl!StopHit, HlP!StopHit, Fleet!Hl!Median, HlP!Median, Fleet!Hl!MidsOf,
        HlP!MidsOf, Fleet!Hl!ToSet, HlP!ToSet, Fleet!Hl!SelectInSeq, HlP!SelectInSeq,
        Fleet!Hl!Min, HlP!Min
  <2>3. QED BY <2>1, <2>2 DEF HlP!Next
<1>2. CASE Fleet!HlSweepExits
  <2>1. UNCHANGED <<mexc_state, mexc_closing>> BY <1>2 DEF Fleet!HlSweepExits, Fleet!mexc
  <2>2. HlP!SweepExits
    BY <1>2 DEF Fleet!HlSweepExits,
        Fleet!Hl!SweepExits, HlP!SweepExits, Fleet!Hl!Expired, HlP!Expired,
        Fleet!Hl!SetToSeq, HlP!SetToSeq, Fleet!Hl!None, HlP!None, Fleet!Hl!Cardinality,
        HlP!Cardinality, Fleet!Hl!IsInjective, HlP!IsInjective
  <2>3. QED BY <2>1, <2>2 DEF HlP!Next
<1>3. ASSUME NEW t \in Fleet!Hl!Tasks, Fleet!HlLogClose(t)
      PROVE  HlP!Next /\ UNCHANGED <<mexc_state, mexc_closing>>
  <2>1. UNCHANGED <<mexc_state, mexc_closing>> BY <1>3 DEF Fleet!HlLogClose, Fleet!mexc
  <2>2. HlP!LogClose(t) /\ t \in HlP!Tasks
    BY <1>3 DEF Fleet!HlLogClose, Fleet!Hl!Tasks, HlP!Tasks,
        Fleet!Hl!LogClose, HlP!LogClose
  <2>3. QED BY <2>1, <2>2 DEF HlP!Next
<1>4. ASSUME NEW b \in Coins, NEW mid \in Prices, NEW d \in Delays,
             Fleet!MexcOnLeader(b, mid, d) \/ Fleet!MexcOnFollower(b, mid, d)
      PROVE  MexcP!Next /\ UNCHANGED <<hl_state, hl_closing>>
  <2>1. UNCHANGED <<hl_state, hl_closing>>
    BY <1>4 DEF Fleet!MexcOnLeader, Fleet!MexcOnFollower, Fleet!hl
  <2>2. MexcP!OnLeader(b, mid, d) \/ MexcP!OnFollower(b, mid, d)
    BY <1>4 DEF Fleet!MexcOnLeader, Fleet!MexcOnFollower,
        Fleet!Mexc!OnLeader, MexcP!OnLeader, Fleet!Mexc!OnFollower, MexcP!OnFollower,
        Fleet!Mexc!Accepted, MexcP!Accepted, Fleet!Mexc!Remember, MexcP!Remember,
        Fleet!Mexc!Signals, MexcP!Signals, Fleet!Mexc!Enter, MexcP!Enter,
        Fleet!Mexc!Push, MexcP!Push, Fleet!Mexc!None, MexcP!None, Fleet!Mexc!ExitReason,
        MexcP!ExitReason, Fleet!Mexc!Leave, MexcP!Leave, Fleet!Mexc!AnchorMid,
        MexcP!AnchorMid, Fleet!Mexc!Ready, MexcP!Ready, Fleet!Mexc!Tradable,
        MexcP!Tradable, Fleet!Mexc!Lags, MexcP!Lags, Fleet!Mexc!Sign, MexcP!Sign,
        Fleet!Mexc!CatchingUp, MexcP!CatchingUp, Fleet!Mexc!Retraced, MexcP!Retraced,
        Fleet!Mexc!RoundTrip, MexcP!RoundTrip, Fleet!Mexc!Prune, MexcP!Prune,
        Fleet!Mexc!StopHit, MexcP!StopHit, Fleet!Mexc!Median, MexcP!Median,
        Fleet!Mexc!MidsOf, MexcP!MidsOf, Fleet!Mexc!ToSet, MexcP!ToSet,
        Fleet!Mexc!SelectInSeq, MexcP!SelectInSeq, Fleet!Mexc!Min, MexcP!Min
  <2>3. QED BY <2>1, <2>2 DEF MexcP!Next
<1>5. CASE Fleet!MexcSweepExits
  <2>1. UNCHANGED <<hl_state, hl_closing>> BY <1>5 DEF Fleet!MexcSweepExits, Fleet!hl
  <2>2. MexcP!SweepExits
    BY <1>5 DEF Fleet!MexcSweepExits,
        Fleet!Mexc!SweepExits, MexcP!SweepExits, Fleet!Mexc!Expired, MexcP!Expired,
        Fleet!Mexc!SetToSeq, MexcP!SetToSeq, Fleet!Mexc!None, MexcP!None,
        Fleet!Mexc!Cardinality, MexcP!Cardinality, Fleet!Mexc!IsInjective,
        MexcP!IsInjective
  <2>3. QED BY <2>1, <2>2 DEF MexcP!Next
<1>6. ASSUME NEW t \in Fleet!Hl!Tasks, Fleet!MexcLogClose(t)
      PROVE  MexcP!Next /\ UNCHANGED <<hl_state, hl_closing>>
  <2>1. UNCHANGED <<hl_state, hl_closing>> BY <1>6 DEF Fleet!MexcLogClose, Fleet!hl
  <2>2. MexcP!LogClose(t) /\ t \in MexcP!Tasks
    BY <1>6 DEF Fleet!MexcLogClose, Fleet!Hl!Tasks, MexcP!Tasks,
        Fleet!Mexc!LogClose, MexcP!LogClose
  <2>3. QED BY <2>1, <2>2 DEF MexcP!Next
<1>7. CASE Fleet!Age
  <2> USE <1>7 DEF Fleet!Age, Fleet!hl, Fleet!mexc, Fleet!shared,
        Fleet!Hl!Age, Fleet!Mexc!Age, HlP!Age, MexcP!Age, Fleet!Hl!Expired,
        Fleet!Mexc!Expired, HlP!Expired, MexcP!Expired, Fleet!Hl!Aged, Fleet!Mexc!Aged,
        HlP!Aged, MexcP!Aged, Fleet!Hl!None, Fleet!Mexc!None, HlP!None, MexcP!None,
        Fleet!Hl!AgeMids, Fleet!Mexc!AgeMids, HlP!AgeMids, MexcP!AgeMids,
        Fleet!Hl!OldMid, Fleet!Mexc!OldMid, HlP!OldMid, MexcP!OldMid, Fleet!Hl!OldFlip,
        Fleet!Mexc!OldFlip, HlP!OldFlip, MexcP!OldFlip, Fleet!Hl!AgedQuote,
        Fleet!Mexc!AgedQuote, HlP!AgedQuote, MexcP!AgedQuote, Fleet!Hl!AgedOpen,
        Fleet!Mexc!AgedOpen, HlP!AgedOpen, MexcP!AgedOpen, Fleet!Hl!Older,
        Fleet!Mexc!Older, HlP!Older, MexcP!Older, Fleet!Hl!OldEntry,
        Fleet!Mexc!OldEntry, HlP!OldEntry, MexcP!OldEntry, Fleet!Hl!OldStop,
        Fleet!Mexc!OldStop, HlP!OldStop, MexcP!OldStop, Fleet!Hl!Larger,
        Fleet!Mexc!Larger, HlP!Larger, MexcP!Larger, Fleet!Hl!Late, Fleet!Mexc!Late,
        HlP!Late, MexcP!Late, Fleet!Hl!OldQuote, Fleet!Mexc!OldQuote, HlP!OldQuote,
        MexcP!OldQuote, Fleet!Hl!OldHeld, Fleet!Mexc!OldHeld, HlP!OldHeld, MexcP!OldHeld
  <2>1. HlP!Age \/ UNCHANGED <<hl_state, hl_closing>>
    OBVIOUS
  <2>2. MexcP!Age \/ UNCHANGED <<mexc_state, mexc_closing>>
    OBVIOUS
  <2>3. QED BY <2>1, <2>2
<1>8. QED BY <1>1, <1>2, <1>3, <1>4, <1>5, <1>6, <1>7
  DEF Fleet!Next

\* The pending ids of the two strategies are apart; none was signalled closed, every
\* other entered one was, once.
FleetOwed ==
    /\ f_exits \in [HlP!Ids -> 0..1]
    /\ f_entered = HlP!Pending \union MexcP!Pending \union HlP!Exited
    /\ HlP!Pending \intersect MexcP!Pending = {}
    /\ (HlP!Pending \union MexcP!Pending) \intersect HlP!Exited = {}

FleetInv == HlP!Places /\ MexcP!Places /\ FleetOwed

\* The strategies start with nothing pending.
LEMMA FleetInit ==
  ASSUME HlP!ConstantsOK, MexcP!ConstantsOK, HlP!Init, MexcP!Init
  PROVE  FleetInv
<1>1. HlP!Places /\ HlP!Owed BY HlP!LeadInit DEF HlP!LeadInv
<1>2. MexcP!Places /\ MexcP!Owed BY MexcP!LeadInit DEF MexcP!LeadInv
<1>3. f_entered = {} /\ HlP!Exited = MexcP!Exited
  BY DEF HlP!Init, HlP!Exited, MexcP!Exited, HlP!Ids, MexcP!Ids
<1>4. QED BY <1>1, <1>2, <1>3 DEF HlP!Owed, MexcP!Owed, FleetInv, FleetOwed

\* A step of Hyperliquid's strategy leaves the other's places, and what is owed.
LEMMA HlMoves ==
  ASSUME HlP!ConstantsOK, FleetInv, HlP!Next, UNCHANGED <<mexc_state, mexc_closing>>
  PROVE  FleetInv' /\ [Fleet!Ledger!Next]_(Fleet!Ledger!ledger)
<1>1. HlP!Places' /\ (HlP!Waits \/ HlP!Opens \/ HlP!Sends)
  BY HlP!PlacesStep DEF FleetInv
<1>2. MexcP!Pending' = MexcP!Pending
  BY DEF MexcP!Pending, MexcP!OpenIds, MexcP!InClosing
<1>3. f_entered \subseteq f_entered'
  BY <1>1 DEF HlP!Waits, HlP!Opens, HlP!Sends
<1>4. MexcP!Places'
  <2>1. MexcP!Shapes' /\ MexcP!OnePlace'
    BY DEF FleetInv, MexcP!Places, MexcP!Shapes, MexcP!OnePlace, MexcP!OpenIds, MexcP!InClosing
  <2>2. MexcP!Numbered' BY <1>1 DEF HlP!Places, HlP!Numbered, MexcP!Numbered
  <2>3. MexcP!Pending' \subseteq f_entered'
    BY <1>2, <1>3 DEF FleetInv, MexcP!Places
  <2>4. QED BY <2>1, <2>2, <2>3 DEF MexcP!Places
<1>5. /\ HlP!Ids = 1..MaxPosId /\ MexcP!Ids = 1..MaxPosId /\ Fleet!Hl!Ids = 1..MaxPosId
      /\ HlP!Exited = {i \in 1..MaxPosId : f_exits[i] > 0}
      /\ HlP!Exited' = {i \in 1..MaxPosId : f_exits'[i] > 0}
  BY DEF HlP!Ids, MexcP!Ids, Fleet!Hl!Ids, HlP!Exited
<1>6. FleetOwed' /\ [Fleet!Ledger!Next]_(Fleet!Ledger!ledger)
  <2>1. CASE HlP!Waits
    BY <1>2, <1>5, <2>1 DEF FleetInv, FleetOwed, HlP!Waits, Fleet!Ledger!ledger
  <2>2. CASE HlP!Opens
    <3>1. HlP!Exited' = HlP!Exited BY <1>5, <2>2 DEF HlP!Opens
    <3>2. FleetOwed'
      BY <1>2, <1>5, <2>2, <3>1 DEF FleetInv, FleetOwed, HlP!Opens
    <3>3. Fleet!Ledger!Enter(f_next_id)
      BY <1>5, <2>2 DEF HlP!Opens, Fleet!Ledger!Enter
    <3>4. QED BY <1>5, <2>2, <3>2, <3>3 DEF HlP!Opens, Fleet!Ledger!Next
  <2>3. CASE HlP!Sends
    <3>1. PICK i \in 1..MaxPosId :
             /\ i \in HlP!Pending /\ HlP!Pending' = HlP!Pending \ {i}
             /\ f_exits' = [f_exits EXCEPT ![i] = @ + 1]
      BY <1>5, <2>3 DEF HlP!Sends
    <3>2. f_exits[i] = 0 /\ i \in f_entered
      BY <1>5, <3>1 DEF FleetInv, FleetOwed
    <3>3. f_exits' = [f_exits EXCEPT ![i] = 1] BY <3>1, <3>2
    <3>4. f_exits' \in [1..MaxPosId -> 0..1] /\ f_exits'[i] = 1
          /\ \A j \in 1..MaxPosId \ {i} : f_exits'[j] = f_exits[j]
      BY <1>5, <3>3 DEF FleetInv, FleetOwed
    <3>5. HlP!Exited' = HlP!Exited \union {i} BY <1>5, <3>4
    <3>6. FleetOwed'
      BY <1>2, <1>5, <2>3, <3>1, <3>4, <3>5 DEF FleetInv, FleetOwed, HlP!Sends
    <3>7. Fleet!Ledger!Exit(i) BY <2>3, <3>2, <3>3 DEF HlP!Sends, Fleet!Ledger!Exit
    <3>8. QED BY <1>5, <3>1, <3>6, <3>7 DEF Fleet!Ledger!Next
  <2>4. QED BY <1>1, <2>1, <2>2, <2>3
<1>7. QED BY <1>1, <1>4, <1>6 DEF FleetInv

\* A step of MEXC's strategy leaves the other's places, and what is owed.
LEMMA MexcMoves ==
  ASSUME MexcP!ConstantsOK, FleetInv, MexcP!Next, UNCHANGED <<hl_state, hl_closing>>
  PROVE  FleetInv' /\ [Fleet!Ledger!Next]_(Fleet!Ledger!ledger)
<1>1. MexcP!Places' /\ (MexcP!Waits \/ MexcP!Opens \/ MexcP!Sends)
  BY MexcP!PlacesStep DEF FleetInv
<1>2. HlP!Pending' = HlP!Pending
  BY DEF HlP!Pending, HlP!OpenIds, HlP!InClosing
<1>3. f_entered \subseteq f_entered'
  BY <1>1 DEF MexcP!Waits, MexcP!Opens, MexcP!Sends
<1>4. HlP!Places'
  <2>1. HlP!Shapes' /\ HlP!OnePlace'
    BY DEF FleetInv, HlP!Places, HlP!Shapes, HlP!OnePlace, HlP!OpenIds, HlP!InClosing
  <2>2. HlP!Numbered' BY <1>1 DEF MexcP!Places, MexcP!Numbered, HlP!Numbered
  <2>3. HlP!Pending' \subseteq f_entered'
    BY <1>2, <1>3 DEF FleetInv, HlP!Places
  <2>4. QED BY <2>1, <2>2, <2>3 DEF HlP!Places
<1>5. /\ HlP!Ids = 1..MaxPosId /\ MexcP!Ids = 1..MaxPosId /\ Fleet!Hl!Ids = 1..MaxPosId
      /\ HlP!Exited = {i \in 1..MaxPosId : f_exits[i] > 0}
      /\ HlP!Exited' = {i \in 1..MaxPosId : f_exits'[i] > 0}
  BY DEF HlP!Ids, MexcP!Ids, Fleet!Hl!Ids, HlP!Exited
<1>6. FleetOwed' /\ [Fleet!Ledger!Next]_(Fleet!Ledger!ledger)
  <2>1. CASE MexcP!Waits
    BY <1>2, <1>5, <2>1 DEF FleetInv, FleetOwed, MexcP!Waits, Fleet!Ledger!ledger
  <2>2. CASE MexcP!Opens
    <3>1. HlP!Exited' = HlP!Exited BY <1>5, <2>2 DEF MexcP!Opens
    <3>2. FleetOwed'
      BY <1>2, <1>5, <2>2, <3>1 DEF FleetInv, FleetOwed, MexcP!Opens
    <3>3. Fleet!Ledger!Enter(f_next_id)
      BY <1>5, <2>2 DEF MexcP!Opens, Fleet!Ledger!Enter
    <3>4. QED BY <1>5, <2>2, <3>2, <3>3 DEF MexcP!Opens, Fleet!Ledger!Next
  <2>3. CASE MexcP!Sends
    <3>1. PICK i \in 1..MaxPosId :
             /\ i \in MexcP!Pending /\ MexcP!Pending' = MexcP!Pending \ {i}
             /\ f_exits' = [f_exits EXCEPT ![i] = @ + 1]
      BY <1>5, <2>3 DEF MexcP!Sends
    <3>2. f_exits[i] = 0 /\ i \in f_entered
      BY <1>5, <3>1 DEF FleetInv, FleetOwed
    <3>3. f_exits' = [f_exits EXCEPT ![i] = 1] BY <3>1, <3>2
    <3>4. f_exits' \in [1..MaxPosId -> 0..1] /\ f_exits'[i] = 1
          /\ \A j \in 1..MaxPosId \ {i} : f_exits'[j] = f_exits[j]
      BY <1>5, <3>3 DEF FleetInv, FleetOwed
    <3>5. HlP!Exited' = HlP!Exited \union {i} BY <1>5, <3>4
    <3>6. FleetOwed'
      BY <1>2, <1>5, <2>3, <3>1, <3>4, <3>5 DEF FleetInv, FleetOwed, MexcP!Sends
    <3>7. Fleet!Ledger!Exit(i) BY <2>3, <3>2, <3>3 DEF MexcP!Sends, Fleet!Ledger!Exit
    <3>8. QED BY <1>5, <3>1, <3>6, <3>7 DEF Fleet!Ledger!Next
  <2>4. QED BY <1>1, <2>1, <2>2, <2>3
<1>7. QED BY <1>1, <1>4, <1>6 DEF FleetInv

\* The clock of both strategies changes no place.
LEMMA FleetAges ==
  ASSUME HlP!ConstantsOK, MexcP!ConstantsOK, FleetInv,
         HlP!Age \/ UNCHANGED <<hl_state, hl_closing>>,
         MexcP!Age \/ UNCHANGED <<mexc_state, mexc_closing>>,
         UNCHANGED <<f_next_id, f_entered, f_exits>>
  PROVE  FleetInv' /\ UNCHANGED Fleet!Ledger!ledger
<1>1. HlP!Places' /\ HlP!Pending' = HlP!Pending
  <2>1. CASE HlP!Age
    <3>1. HlP!Next BY <2>1 DEF HlP!Next
    <3>2. HlP!Places' BY <3>1, HlP!PlacesStep DEF FleetInv
    <3>3. HlP!Waits BY <2>1, HlP!AgeStep DEF FleetInv
    <3>4. QED BY <3>2, <3>3 DEF HlP!Waits
  <2>2. CASE UNCHANGED <<hl_state, hl_closing>>
    <3>1. HlP!OpenIds' = HlP!OpenIds /\ HlP!InClosing' = HlP!InClosing
      BY <2>2 DEF HlP!OpenIds, HlP!InClosing
    <3>2. HlP!Pending' = HlP!Pending BY <3>1 DEF HlP!Pending
    <3>3. HlP!Shapes' /\ HlP!Numbered'
      BY <2>2 DEF FleetInv, HlP!Places, HlP!Shapes, HlP!Numbered
    <3>4. HlP!OnePlace' BY <2>2, <3>1 DEF FleetInv, HlP!Places, HlP!OnePlace
    <3>5. QED BY <3>2, <3>3, <3>4 DEF FleetInv, HlP!Places
  <2>3. QED BY <2>1, <2>2
<1>2. MexcP!Places' /\ MexcP!Pending' = MexcP!Pending
  <2>1. CASE MexcP!Age
    <3>1. MexcP!Next BY <2>1 DEF MexcP!Next
    <3>2. MexcP!Places' BY <3>1, MexcP!PlacesStep DEF FleetInv
    <3>3. MexcP!Waits BY <2>1, MexcP!AgeStep DEF FleetInv
    <3>4. QED BY <3>2, <3>3 DEF MexcP!Waits
  <2>2. CASE UNCHANGED <<mexc_state, mexc_closing>>
    <3>1. MexcP!OpenIds' = MexcP!OpenIds /\ MexcP!InClosing' = MexcP!InClosing
      BY <2>2 DEF MexcP!OpenIds, MexcP!InClosing
    <3>2. MexcP!Pending' = MexcP!Pending BY <3>1 DEF MexcP!Pending
    <3>3. MexcP!Shapes' /\ MexcP!Numbered'
      BY <2>2 DEF FleetInv, MexcP!Places, MexcP!Shapes, MexcP!Numbered
    <3>4. MexcP!OnePlace' BY <2>2, <3>1 DEF FleetInv, MexcP!Places, MexcP!OnePlace
    <3>5. QED BY <3>2, <3>3, <3>4 DEF FleetInv, MexcP!Places
  <2>3. QED BY <2>1, <2>2
<1>3. FleetOwed' BY <1>1, <1>2 DEF FleetInv, FleetOwed, HlP!Exited
<1>4. QED BY <1>1, <1>2, <1>3 DEF FleetInv, Fleet!Ledger!ledger

\* Every step of the fleet keeps the invariant and is one of the ledger.
LEMMA FleetStep ==
  ASSUME HlP!ConstantsOK, MexcP!ConstantsOK, FleetInv,
         Fleet!Next \/ UNCHANGED Fleet!fleet
  PROVE  FleetInv' /\ [Fleet!Ledger!Next]_(Fleet!Ledger!ledger)
<1>1. CASE Fleet!Next
  <2>1. \/ HlP!Next /\ UNCHANGED <<mexc_state, mexc_closing>>
        \/ MexcP!Next /\ UNCHANGED <<hl_state, hl_closing>>
        \/ /\ HlP!Age \/ UNCHANGED <<hl_state, hl_closing>>
           /\ MexcP!Age \/ UNCHANGED <<mexc_state, mexc_closing>>
           /\ UNCHANGED <<f_next_id, f_entered, f_exits>>
    BY <1>1, FleetSteps
  <2>2. QED BY <2>1, HlMoves, MexcMoves, FleetAges
<1>2. CASE UNCHANGED Fleet!fleet
  <2>1. /\ UNCHANGED <<hl_state, hl_closing>> /\ UNCHANGED <<mexc_state, mexc_closing>>
        /\ UNCHANGED <<f_next_id, f_entered, f_exits>>
    BY <1>2 DEF Fleet!fleet, Fleet!hl, Fleet!mexc, Fleet!shared
  <2>2. QED BY <2>1, FleetAges
<1>3. QED BY <1>1, <1>2

\* The places of the two strategies are apart.
LEMMA FleetInvShows ==
  ASSUME FleetInv
  PROVE  Fleet!Disjoint
<1>1. HlP!OpenIds \intersect HlP!InClosing = {} BY DEF FleetInv, HlP!Places, HlP!OnePlace
<1>2. /\ Fleet!Hl!OpenIds = HlP!OpenIds /\ Fleet!Hl!InClosing = HlP!InClosing
      /\ Fleet!Hl!Exited = HlP!Exited
      /\ Fleet!Mexc!OpenIds = MexcP!OpenIds /\ Fleet!Mexc!InClosing = MexcP!InClosing
  BY DEF
        Fleet!Hl!OpenIds, Fleet!Mexc!OpenIds, HlP!OpenIds, MexcP!OpenIds,
        Fleet!Hl!InClosing, Fleet!Mexc!InClosing, HlP!InClosing, MexcP!InClosing,
        Fleet!Hl!Exited, Fleet!Mexc!Exited, HlP!Exited, MexcP!Exited, Fleet!Hl!None,
        Fleet!Mexc!None, HlP!None, MexcP!None, Fleet!Hl!ToSet, Fleet!Mexc!ToSet,
        HlP!ToSet, MexcP!ToSet, Fleet!Hl!Tasks, Fleet!Mexc!Tasks, HlP!Tasks,
        MexcP!Tasks, Fleet!Hl!Ids, Fleet!Mexc!Ids, HlP!Ids, MexcP!Ids
<1>3. QED BY <1>1, <1>2 DEF Fleet!Disjoint, FleetInv, FleetOwed, HlP!Pending, MexcP!Pending

-----------------------------------------------------------------------------
(* The two instances of a strategy are the same                            *)

GateP == INSTANCE GateLeadProofs WITH
    Bases <- Coins, Delays <- {0, 1}, Cooldown <- 3, FreshFor <- 1, VelWindow <- 1,
    FlipKeep <- 1, StopCooldown <- 4, Grace <- 1, MaxFlips <- 2

ReplayP == INSTANCE GateLeadProofs WITH
    Bases <- Coins, Delays <- {2}, Backtest <- TRUE, FlipKeep <- 2

BingxP == INSTANCE GateLeadProofs WITH
    Bases <- Coins, Cooldown <- 3, VelWindow <- 1, FlipKeep <- 1, StopCooldown <- 4,
    Grace <- 1, MaxFlips <- 2

\* GateLead with late ticks.
LEMMA GateSame ==
  /\ Gate!ConstantsOK => GateP!ConstantsOK
  /\ Gate!Init => GateP!Init
  /\ Gate!Next => GateP!Next
  /\ GateP!ExitOnce => Gate!ExitOnce
  /\ GateP!OneAfterAnother => Gate!OneAfterAnother
  /\ GateP!StopIsRespected => Gate!StopIsRespected
<1>1. Gate!ConstantsOK => GateP!ConstantsOK
  BY DEF
        Gate!ConstantsOK, GateP!ConstantsOK, Gate!IsFiniteSet, GateP!IsFiniteSet
<1>2. Gate!Init => GateP!Init
  BY DEF
        Gate!Init, GateP!Init, Gate!None, GateP!None, Gate!OldEntry, GateP!OldEntry,
        Gate!OldStop, GateP!OldStop, Gate!Tasks, GateP!Tasks, Gate!Ids, GateP!Ids,
        Gate!Larger, GateP!Larger, Gate!Late, GateP!Late, Gate!OldHeld, GateP!OldHeld
<1>3. Gate!Next => GateP!Next
  BY DEF
        Gate!Next, GateP!Next, Gate!OnLeader, GateP!OnLeader, Gate!OnFollower,
        GateP!OnFollower, Gate!SweepExits, GateP!SweepExits, Gate!Tasks, GateP!Tasks,
        Gate!LogClose, GateP!LogClose, Gate!Age, GateP!Age, Gate!Accepted,
        GateP!Accepted, Gate!Remember, GateP!Remember, Gate!Signals, GateP!Signals,
        Gate!Enter, GateP!Enter, Gate!Push, GateP!Push, Gate!None, GateP!None,
        Gate!ExitReason, GateP!ExitReason, Gate!Leave, GateP!Leave, Gate!Expired,
        GateP!Expired, Gate!SetToSeq, GateP!SetToSeq, Gate!Aged, GateP!Aged,
        Gate!AnchorMid, GateP!AnchorMid, Gate!Ready, GateP!Ready, Gate!Tradable,
        GateP!Tradable, Gate!Lags, GateP!Lags, Gate!Sign, GateP!Sign, Gate!CatchingUp,
        GateP!CatchingUp, Gate!Retraced, GateP!Retraced, Gate!RoundTrip,
        GateP!RoundTrip, Gate!Prune, GateP!Prune, Gate!StopHit, GateP!StopHit,
        Gate!Cardinality, GateP!Cardinality, Gate!IsInjective, GateP!IsInjective,
        Gate!AgeMids, GateP!AgeMids, Gate!OldMid, GateP!OldMid, Gate!OldFlip,
        GateP!OldFlip, Gate!AgedQuote, GateP!AgedQuote, Gate!AgedOpen, GateP!AgedOpen,
        Gate!Older, GateP!Older, Gate!OldEntry, GateP!OldEntry, Gate!OldStop,
        GateP!OldStop, Gate!Median, GateP!Median, Gate!MidsOf, GateP!MidsOf, Gate!ToSet,
        GateP!ToSet, Gate!SelectInSeq, GateP!SelectInSeq, Gate!Larger, GateP!Larger,
        Gate!Late, GateP!Late, Gate!OldQuote, GateP!OldQuote, Gate!OldHeld,
        GateP!OldHeld, Gate!Min, GateP!Min
<1>4. GateP!ExitOnce => Gate!ExitOnce
  BY DEF
        Gate!ExitOnce, GateP!ExitOnce, Gate!Ids, GateP!Ids, Gate!OpenIds, GateP!OpenIds,
        Gate!InClosing, GateP!InClosing, Gate!Exited, GateP!Exited, Gate!None,
        GateP!None, Gate!ToSet, GateP!ToSet, Gate!Tasks, GateP!Tasks
<1>5. GateP!OneAfterAnother => Gate!OneAfterAnother
  BY DEF
        Gate!OneAfterAnother, GateP!OneAfterAnother, Gate!Cardinality,
        GateP!Cardinality, Gate!Late, GateP!Late, Gate!Exited, GateP!Exited, Gate!Ids,
        GateP!Ids
<1>6. GateP!StopIsRespected => Gate!StopIsRespected
  BY DEF
        Gate!StopIsRespected, GateP!StopIsRespected, Gate!None, GateP!None,
        Gate!OldStop, GateP!OldStop, Gate!OldHeld, GateP!OldHeld, Gate!Larger,
        GateP!Larger, Gate!Late, GateP!Late
<1>7. QED BY <1>1, <1>2, <1>3, <1>4, <1>5, <1>6

\* GateLead in a replay.
LEMMA ReplaySame ==
  /\ Replay!ConstantsOK => ReplayP!ConstantsOK
  /\ Replay!Init => ReplayP!Init
  /\ Replay!Next => ReplayP!Next
  /\ ReplayP!ExitOnce => Replay!ExitOnce
<1>1. Replay!ConstantsOK => ReplayP!ConstantsOK
  BY DEF
        Replay!ConstantsOK, ReplayP!ConstantsOK, Replay!IsFiniteSet, ReplayP!IsFiniteSet
<1>2. Replay!Init => ReplayP!Init
  BY DEF
        Replay!Init, ReplayP!Init, Replay!None, ReplayP!None, Replay!OldEntry,
        ReplayP!OldEntry, Replay!OldStop, ReplayP!OldStop, Replay!Tasks, ReplayP!Tasks,
        Replay!Ids, ReplayP!Ids, Replay!Larger, ReplayP!Larger, Replay!Late,
        ReplayP!Late, Replay!OldHeld, ReplayP!OldHeld
<1>3. Replay!Next => ReplayP!Next
  BY DEF
        Replay!Next, ReplayP!Next, Replay!OnLeader, ReplayP!OnLeader, Replay!OnFollower,
        ReplayP!OnFollower, Replay!SweepExits, ReplayP!SweepExits, Replay!Tasks,
        ReplayP!Tasks, Replay!LogClose, ReplayP!LogClose, Replay!Age, ReplayP!Age,
        Replay!Accepted, ReplayP!Accepted, Replay!Remember, ReplayP!Remember,
        Replay!Signals, ReplayP!Signals, Replay!Enter, ReplayP!Enter, Replay!Push,
        ReplayP!Push, Replay!None, ReplayP!None, Replay!ExitReason, ReplayP!ExitReason,
        Replay!Leave, ReplayP!Leave, Replay!Expired, ReplayP!Expired, Replay!SetToSeq,
        ReplayP!SetToSeq, Replay!Aged, ReplayP!Aged, Replay!AnchorMid,
        ReplayP!AnchorMid, Replay!Ready, ReplayP!Ready, Replay!Tradable,
        ReplayP!Tradable, Replay!Lags, ReplayP!Lags, Replay!Sign, ReplayP!Sign,
        Replay!CatchingUp, ReplayP!CatchingUp, Replay!Retraced, ReplayP!Retraced,
        Replay!RoundTrip, ReplayP!RoundTrip, Replay!Prune, ReplayP!Prune,
        Replay!StopHit, ReplayP!StopHit, Replay!Cardinality, ReplayP!Cardinality,
        Replay!IsInjective, ReplayP!IsInjective, Replay!AgeMids, ReplayP!AgeMids,
        Replay!OldMid, ReplayP!OldMid, Replay!OldFlip, ReplayP!OldFlip,
        Replay!AgedQuote, ReplayP!AgedQuote, Replay!AgedOpen, ReplayP!AgedOpen,
        Replay!Older, ReplayP!Older, Replay!OldEntry, ReplayP!OldEntry, Replay!OldStop,
        ReplayP!OldStop, Replay!Median, ReplayP!Median, Replay!MidsOf, ReplayP!MidsOf,
        Replay!ToSet, ReplayP!ToSet, Replay!SelectInSeq, ReplayP!SelectInSeq,
        Replay!Larger, ReplayP!Larger, Replay!Late, ReplayP!Late, Replay!OldQuote,
        ReplayP!OldQuote, Replay!OldHeld, ReplayP!OldHeld, Replay!Min, ReplayP!Min
<1>4. ReplayP!ExitOnce => Replay!ExitOnce
  BY DEF
        Replay!ExitOnce, ReplayP!ExitOnce, Replay!Ids, ReplayP!Ids, Replay!OpenIds,
        ReplayP!OpenIds, Replay!InClosing, ReplayP!InClosing, Replay!Exited,
        ReplayP!Exited, Replay!None, ReplayP!None, Replay!ToSet, ReplayP!ToSet,
        Replay!Tasks, ReplayP!Tasks
<1>5. QED BY <1>1, <1>2, <1>3, <1>4

\* BingxLead.
LEMMA BingxSame ==
  /\ Bingx!ConstantsOK => BingxP!ConstantsOK
  /\ Bingx!BInit => BingxP!BInit
  /\ Bingx!BNext => BingxP!BNext
  /\ BingxP!ExitOnce => Bingx!ExitOnce
  /\ BingxP!RefIsOwnFill => Bingx!RefIsOwnFill
<1>1. Bingx!ConstantsOK => BingxP!ConstantsOK
  BY DEF
        Bingx!ConstantsOK, BingxP!ConstantsOK, Bingx!IsFiniteSet, BingxP!IsFiniteSet
<1>2. Bingx!BInit => BingxP!BInit
  BY DEF
        Bingx!BInit, BingxP!BInit, Bingx!Init, BingxP!Init, Bingx!NoReports,
        BingxP!NoReports, Bingx!None, BingxP!None, Bingx!OldEntry, BingxP!OldEntry,
        Bingx!OldStop, BingxP!OldStop, Bingx!Tasks, BingxP!Tasks, Bingx!Ids, BingxP!Ids,
        Bingx!Larger, BingxP!Larger, Bingx!Late, BingxP!Late, Bingx!OldHeld,
        BingxP!OldHeld
<1>3. Bingx!BNext => BingxP!BNext
  BY DEF
        Bingx!BNext, BingxP!BNext, Bingx!BOnLeader, BingxP!BOnLeader, Bingx!BOnFollower,
        BingxP!BOnFollower, Bingx!BSweepExits, BingxP!BSweepExits, Bingx!Tasks,
        BingxP!Tasks, Bingx!BLogClose, BingxP!BLogClose, Bingx!BAge, BingxP!BAge,
        Bingx!Ids, BingxP!Ids, Bingx!OnFill, BingxP!OnFill, Bingx!OnLeader,
        BingxP!OnLeader, Bingx!OnFollower, BingxP!OnFollower, Bingx!SweepExits,
        BingxP!SweepExits, Bingx!LogClose, BingxP!LogClose, Bingx!Age, BingxP!Age,
        Bingx!None, BingxP!None, Bingx!reports, BingxP!reports,
        Bingx!UpToCooldown, BingxP!UpToCooldown, Bingx!Retune,
        BingxP!Retune, Bingx!Accepted, BingxP!Accepted, Bingx!Remember, BingxP!Remember,
        Bingx!Signals, BingxP!Signals, Bingx!Enter, BingxP!Enter, Bingx!Push,
        BingxP!Push, Bingx!ExitReason, BingxP!ExitReason, Bingx!Leave, BingxP!Leave,
        Bingx!Expired, BingxP!Expired, Bingx!SetToSeq, BingxP!SetToSeq, Bingx!Aged,
        BingxP!Aged, Bingx!AnchorMid, BingxP!AnchorMid, Bingx!Ready, BingxP!Ready,
        Bingx!Tradable, BingxP!Tradable, Bingx!Lags, BingxP!Lags, Bingx!Sign,
        BingxP!Sign, Bingx!CatchingUp, BingxP!CatchingUp, Bingx!Retraced,
        BingxP!Retraced, Bingx!RoundTrip, BingxP!RoundTrip, Bingx!Prune, BingxP!Prune,
        Bingx!StopHit, BingxP!StopHit, Bingx!Cardinality, BingxP!Cardinality,
        Bingx!IsInjective, BingxP!IsInjective, Bingx!AgeMids, BingxP!AgeMids,
        Bingx!OldMid, BingxP!OldMid, Bingx!OldFlip, BingxP!OldFlip, Bingx!AgedQuote,
        BingxP!AgedQuote, Bingx!AgedOpen, BingxP!AgedOpen, Bingx!Older, BingxP!Older,
        Bingx!OldEntry, BingxP!OldEntry, Bingx!OldStop, BingxP!OldStop, Bingx!Median,
        BingxP!Median, Bingx!MidsOf, BingxP!MidsOf, Bingx!ToSet, BingxP!ToSet,
        Bingx!SelectInSeq, BingxP!SelectInSeq, Bingx!Larger, BingxP!Larger, Bingx!Late,
        BingxP!Late, Bingx!OldQuote, BingxP!OldQuote, Bingx!OldHeld, BingxP!OldHeld,
        Bingx!Min, BingxP!Min
<1>4. BingxP!ExitOnce => Bingx!ExitOnce
  BY DEF
        Bingx!ExitOnce, BingxP!ExitOnce, Bingx!Ids, BingxP!Ids, Bingx!OpenIds,
        BingxP!OpenIds, Bingx!InClosing, BingxP!InClosing, Bingx!Exited, BingxP!Exited,
        Bingx!None, BingxP!None, Bingx!ToSet, BingxP!ToSet, Bingx!Tasks, BingxP!Tasks
<1>5. BingxP!RefIsOwnFill => Bingx!RefIsOwnFill
  BY DEF
        Bingx!RefIsOwnFill, BingxP!RefIsOwnFill, Bingx!None, BingxP!None
<1>6. QED BY <1>1, <1>2, <1>3, <1>4, <1>5

\* The signals of GateLead and BingxLead go to one ledger.
LEMMA LedgersSame ==
  /\ GateP!Ledger!Init => Gate!Ledger!Init
  /\ ReplayP!Ledger!Init => Gate!Ledger!Init
  /\ BingxP!Ledger!Init => Gate!Ledger!Init
  /\ [GateP!Ledger!Next]_(GateP!Ledger!ledger) => [Gate!Ledger!Next]_(Gate!Ledger!ledger)
  /\ [ReplayP!Ledger!Next]_(ReplayP!Ledger!ledger) => [Gate!Ledger!Next]_(Gate!Ledger!ledger)
  /\ [BingxP!Ledger!Next]_(BingxP!Ledger!ledger) => [Gate!Ledger!Next]_(Gate!Ledger!ledger)
BY DEF Gate!Ledger!Init, GateP!Ledger!Init, ReplayP!Ledger!Init, BingxP!Ledger!Init,
       Gate!Ledger!Next, GateP!Ledger!Next, ReplayP!Ledger!Next, BingxP!Ledger!Next,
       Gate!Ledger!Enter, GateP!Ledger!Enter, ReplayP!Ledger!Enter, BingxP!Ledger!Enter,
       Gate!Ledger!Exit, GateP!Ledger!Exit, ReplayP!Ledger!Exit, BingxP!Ledger!Exit,
       Gate!Ledger!ledger, GateP!Ledger!ledger, ReplayP!Ledger!ledger, BingxP!Ledger!ledger,
       Gate!Ids, GateP!Ids, ReplayP!Ids, BingxP!Ids

-----------------------------------------------------------------------------
(* A behaviour of the leads runs one component                             *)

\* What runs in focus gate is GateLead.
LEMMA GateRuns == LeadsSpec /\ focus = "gate" => GateP!Spec
<1>1. LeadsInit /\ focus = "gate" => GateP!Init
  BY GateSame DEF LeadsInit
<1>2. [LeadsNext]_lvars /\ focus = "gate" =>
         [GateP!Next]_(GateP!vars) /\ (focus = "gate")'
  BY GateSame DEF LeadsNext, lvars, lead, GateP!vars
<1>3. QED BY <1>1, <1>2, PTL DEF LeadsSpec, lvars, GateP!Spec

\* What runs in focus replay is GateLead.
LEMMA ReplayRuns == LeadsSpec /\ focus = "replay" => ReplayP!Spec
<1>1. LeadsInit /\ focus = "replay" => ReplayP!Init
  BY ReplaySame DEF LeadsInit
<1>2. [LeadsNext]_lvars /\ focus = "replay" =>
         [ReplayP!Next]_(ReplayP!vars) /\ (focus = "replay")'
  BY ReplaySame DEF LeadsNext, lvars, lead, ReplayP!vars
<1>3. QED BY <1>1, <1>2, PTL DEF LeadsSpec, lvars, ReplayP!Spec

\* What runs in focus bingx is BingxLead.
LEMMA BingxRuns == LeadsSpec /\ focus = "bingx" => BingxP!BSpec
<1>1. LeadsInit /\ focus = "bingx" => BingxP!BInit
  BY BingxSame DEF LeadsInit, Bingx!BInit
<1>2. [LeadsNext]_lvars /\ focus = "bingx" =>
         [BingxP!BNext]_(BingxP!bvars) /\ (focus = "bingx")'
  BY BingxSame DEF LeadsNext, lvars, lead, fills, BingxP!bvars, BingxP!vars, BingxP!reports
<1>3. QED BY <1>1, <1>2, PTL DEF LeadsSpec, lvars, BingxP!BSpec

\* What runs in focus trade is BingxExecutor.
LEMMA TradeRuns == LeadsSpec /\ focus = "trade" => Bx!Spec
<1>1. LeadsInit /\ focus = "trade" => Bx!Init
  BY DEF LeadsInit
<1>2. [LeadsNext]_lvars /\ focus = "trade" =>
         [Bx!Next]_(Bx!vars) /\ (focus = "trade")'
  BY DEF LeadsNext, lvars, trade, Bx!vars, Bx!venue, Bx!ghost
<1>3. QED BY <1>1, <1>2, PTL DEF LeadsSpec, lvars, Bx!Spec

\* Constants of the instances fit.
LEMMA InstancesOK ==
  /\ GateP!ConstantsOK /\ ReplayP!ConstantsOK /\ BingxP!ConstantsOK
  /\ HlP!ConstantsOK /\ MexcP!ConstantsOK /\ GateP!IsFiniteSet(Coins)
<1>1. GateP!ConstantsOK BY MCLeadsAssumption, GateSame
<1>2. ReplayP!ConstantsOK /\ BingxP!ConstantsOK
  BY MCLeadsAssumption, ReplaySame, BingxSame
<1>3. HlP!ConstantsOK BY MCLeadsAssumption, HlSame
<1>4. Fleet!Mexc!ConstantsOK
  BY MCLeadsAssumption
     DEF Fleet!Hl!ConstantsOK, Fleet!Mexc!ConstantsOK, Fleet!Hl!IsFiniteSet,
         Fleet!Mexc!IsFiniteSet
<1>5. MexcP!ConstantsOK BY <1>4, MexcSame
<1>6. GateP!IsFiniteSet(Coins) BY MCLeadsAssumption DEF GateP!IsFiniteSet, IsFiniteSet
<1>7. QED BY <1>1, <1>2, <1>3, <1>5, <1>6

\* The fleet keeps its invariant, whatever runs, and implements its ledger.
LEMMA FleetCorrect == LeadsSpec => []FleetInv /\ Fleet!Ledger!Spec
<1>1. LeadsInit => FleetInv /\ Fleet!Ledger!Init
  <2> SUFFICES ASSUME LeadsInit PROVE FleetInv /\ Fleet!Ledger!Init
    OBVIOUS
  <2>1. HlP!Init /\ MexcP!Init BY HlSame, MexcSame DEF LeadsInit, Fleet!Init
  <2>2. FleetInv BY <2>1, InstancesOK, FleetInit
  <2>3. Fleet!Ledger!Init
    BY <2>1 DEF HlP!Init, Fleet!Ledger!Init, HlP!Ids, Fleet!Hl!Ids
  <2>4. QED BY <2>2, <2>3
<1>2. FleetInv /\ [LeadsNext]_lvars =>
         FleetInv' /\ [Fleet!Ledger!Next]_(Fleet!Ledger!ledger)
  <2> SUFFICES ASSUME FleetInv, [LeadsNext]_lvars
               PROVE  FleetInv' /\ [Fleet!Ledger!Next]_(Fleet!Ledger!ledger)
    OBVIOUS
  <2>1. Fleet!Next \/ UNCHANGED Fleet!fleet
    BY DEF LeadsNext, lvars, fleet, Fleet!fleet, Fleet!hl, Fleet!mexc, Fleet!shared
  <2>2. QED BY <2>1, InstancesOK, FleetStep
<1>3. QED BY <1>1, <1>2, PTL DEF LeadsSpec, lvars, Fleet!Ledger!Spec

\* The invariant ExitOnce of the leads: one exit of a position, after its entry, whoever
\* races for it; and of BingxExecutor, one settlement, and no silently stranded position.
THEOREM ExitOnceCorrect == LeadsSpec => []ExitOnce
<1>1. LeadsSpec =>
         [](focus = "gate" =>
               Gate!ExitOnce /\ Gate!OneAfterAnother /\ Gate!StopIsRespected)
  <2>1. GateP!Spec => [](Gate!ExitOnce /\ Gate!OneAfterAnother /\ Gate!StopIsRespected)
    BY InstancesOK, GateSame, GateP!LeadExitOnceCorrect, GateP!OneAfterAnotherCorrect,
       GateP!StopIsRespectedCorrect, PTL
  <2>2. /\ [LeadsNext]_lvars /\ focus = "gate" => (focus = "gate")'
        /\ [LeadsNext]_lvars /\ ~(focus = "gate") => ~(focus = "gate")'
    BY DEF LeadsNext, lvars
  <2>3. QED BY <2>1, <2>2, GateRuns, PTL DEF LeadsSpec, lvars
<1>2. LeadsSpec => [](focus = "bingx" => Bingx!ExitOnce /\ Bingx!RefIsOwnFill)
  <2>1. BingxP!BSpec => [](Bingx!ExitOnce /\ Bingx!RefIsOwnFill)
    <3>1. BingxP!BSpec => []BingxP!ExitOnce
      BY InstancesOK, BingxP!BingxExitOnceCorrect
    <3>2. BingxP!BSpec => []BingxP!RefIsOwnFill
      BY InstancesOK, BingxP!RefIsOwnFillCorrect
    <3>3. QED BY <3>1, <3>2, BingxSame, PTL
  <2>2. /\ [LeadsNext]_lvars /\ focus = "bingx" => (focus = "bingx")'
        /\ [LeadsNext]_lvars /\ ~(focus = "bingx") => ~(focus = "bingx")'
    BY DEF LeadsNext, lvars
  <2>3. QED BY <2>1, <2>2, BingxRuns, PTL DEF LeadsSpec, lvars
<1>3. LeadsSpec => [](focus = "trade" => Bx!NoSilentStrand /\ Bx!SettledOnce)
  <2>1. Bx!Spec => [](Bx!NoSilentStrand /\ Bx!SettledOnce)
    BY MCLeadsAssumption, BxShows, BxInvCorrect, PTL
  <2>2. /\ [LeadsNext]_lvars /\ focus = "trade" => (focus = "trade")'
        /\ [LeadsNext]_lvars /\ ~(focus = "trade") => ~(focus = "trade")'
    BY DEF LeadsNext, lvars
  <2>3. QED BY <2>1, <2>2, TradeRuns, PTL DEF LeadsSpec, lvars
<1>4. LeadsSpec => [](focus = "replay" => Replay!ExitOnce)
  <2>1. ReplayP!Spec => []Replay!ExitOnce
    BY InstancesOK, ReplaySame, ReplayP!LeadExitOnceCorrect, PTL
  <2>2. /\ [LeadsNext]_lvars /\ focus = "replay" => (focus = "replay")'
        /\ [LeadsNext]_lvars /\ ~(focus = "replay") => ~(focus = "replay")'
    BY DEF LeadsNext, lvars
  <2>3. QED BY <2>1, <2>2, ReplayRuns, PTL DEF LeadsSpec, lvars
<1>5. FleetInv => Fleet!Disjoint BY FleetInvShows
<1>6. QED BY <1>1, <1>2, <1>3, <1>4, <1>5, FleetCorrect, PTL DEF ExitOnce

\* The signals of GateLead, live or in a replay, of BingxLead and of the fleet are
\* those of the ledger: entries under fresh ids, then an exit of each, once.
THEOREM LedgersImplemented == LeadsSpec => Gate!Ledger!Spec /\ Fleet!Ledger!Spec
<1>1. LeadsSpec /\ focus = "gate" => Gate!Ledger!Spec
  BY InstancesOK, GateRuns, GateP!LeadImplementsLedger, LedgersSame, PTL
     DEF Gate!Ledger!Spec, GateP!Ledger!Spec
<1>2. LeadsSpec /\ focus = "bingx" => Gate!Ledger!Spec
  BY InstancesOK, BingxRuns, BingxP!BingxImplementsLedger, LedgersSame, PTL
     DEF Gate!Ledger!Spec, BingxP!Ledger!Spec
<1>3. LeadsSpec /\ focus = "replay" => Gate!Ledger!Spec
  BY InstancesOK, ReplayRuns, ReplayP!LeadImplementsLedger, LedgersSame, PTL
     DEF Gate!Ledger!Spec, ReplayP!Ledger!Spec
<1> DEFINE Other == focus \notin {"gate", "replay", "bingx"}
<1>4. LeadsSpec /\ Other => Gate!Ledger!Spec
  <2>1. LeadsInit => Gate!Ledger!Init
    BY DEF LeadsInit, Gate!Init, Replay!Init, Bingx!Init, Gate!Ledger!Init, Gate!Ids,
           Replay!Ids, Bingx!Ids
  <2>2. [LeadsNext]_lvars /\ Other =>
           /\ [Gate!Ledger!Next]_(Gate!Ledger!ledger)
           /\ Other'
    BY DEF LeadsNext, lvars, lead, Gate!Ledger!ledger
  <2> HIDE DEF Other
  <2>3. QED BY <2>1, <2>2, PTL DEF LeadsSpec, lvars, Gate!Ledger!Spec
<1>5. focus = "gate" \/ focus = "replay" \/ focus = "bingx" \/ Other OBVIOUS
<1> HIDE DEF Other
<1>6. QED BY <1>1, <1>2, <1>3, <1>4, <1>5, FleetCorrect, PTL
=============================================================================
