--------------------------- MODULE ExecutorProofs ---------------------------
(***************************************************************************)
(* What holds of the executor for any set of positions, any assignment of  *)
(* bases and sides, any size and any number of failed calls.               *)
(*                                                                         *)
(* Each invariant has a strengthening of its own, proved inductive from    *)
(* the type invariant; an action is a step of its own where it touches     *)
(* the variables the invariant reads.                                      *)
(*                                                                         *)
(* Then what it keeps about orders and trades: the bookkeeping of stale    *)
(* orders, the pairing of fill reports and the statistics on disk, for any *)
(* number of orders, positions, losses and crashes.                        *)
(***************************************************************************)
EXTENDS Executor, MCStats, TLAPS

\* What the type of attempts and of gate_leg rests on: a cancel is sent only
\* while attempts remain, and nothing is on Gate before the entry task is there.
Progress ==
    /\ \A p \in Pos : entry[p] \in {"idle", "place"} => attempts[p] = 0
    /\ \A p \in Pos : entry[p] = "cancel" => attempts[p] < MaxAttempts
    /\ \A p \in Pos : entry[p] \in EntryPC \ {"revert", "track", "done"}
                         => gate_leg[p] = 0
    /\ \A p \in Pos : p \notin seen_entries => entry[p] = "idle"

TypeInv == TypeOK /\ Progress

\* 1.5 times a size is a size.
LEMMA OvershootNat == ASSUME NEW q \in Nat PROVE Overshoot(q) \in Nat
  BY DEF Overshoot

\* A reduce-only order leaves the position on its side of zero, or flat.
LEMMA ReducedKeepsSide ==
  ASSUME NEW x \in Int, NEW s \in {-1, 1}, NEW q \in Nat
  PROVE  /\ Reduced(x, s, q) \in Int
         /\ x >= 0 => Reduced(x, s, q) >= 0
         /\ x <= 0 => Reduced(x, s, q) <= 0
<1>1. CASE s = -1 BY <1>1 DEF Reduced, Least, AbsOf
<1>2. CASE s = 1 BY <1>2 DEF Reduced, Least, AbsOf
<1>3. QED BY <1>1, <1>2

\* Absolute values and signs have their types.
LEMMA AbsNat == ASSUME NEW x \in Int PROVE AbsOf(x) \in Nat /\ SignOf(x) \in {-1, 1}
  BY DEF AbsOf, SignOf

\* The other side of a side.
LEMMA NegatedSide == ASSUME NEW x, x \in {-1, 1} PROVE -x \in {-1, 1}
  OBVIOUS

\* A side is plus or minus one, and a size goes either way.
LEMMA SignType ==
  ASSUME NEW p
  PROVE  /\ Sign(p) \in {-1, 1} /\ -Sign(p) \in {-1, 1}
         /\ \A q \in Int : Sign(p) * q = IF p \in Long THEN q ELSE -q
<1>1. CASE p \in Long
  <2>1. Sign(p) = 1 BY <1>1 DEF Sign
  <2>2. \A q \in Int : Sign(p) * q = q BY <2>1
  <2>3. QED BY <1>1, <2>1, <2>2, NegatedSide
<1>2. CASE p \notin Long
  <2>1. Sign(p) = -1 BY <1>2 DEF Sign
  <2>2. \A q \in Int : Sign(p) * q = -q BY <2>1
  <2>3. QED BY <1>2, <2>1, <2>2, NegatedSide
<1>3. QED BY <1>1, <1>2

\* A Gate close takes off at most the leg.
LEMMA ClosableBound ==
  ASSUME TypeOK, NEW p \in Pos
  PROVE  GateClosable(p) \in Nat /\ GateClosable(p) <= gate_leg[p]
<1>1. gate_leg[p] \in Nat BY DEF TypeOK
<1>2. gate_position[BaseOf[p]] \in Int BY ExecutorAssumption DEF TypeOK
<1>3. QED BY <1>1, <1>2 DEF GateClosable, Least, AbsOf

\* The parts of the type that venue calls change.
VenueOK ==
    /\ position \in [Bases -> Int]
    /\ book \in [Orders -> 0..Size]
    /\ filled \in [Pos -> Nat]

\* An execution keeps the venue's types.
LEMMA ExecuteType ==
  ASSUME TypeOK, NEW p \in Pos, NEW q \in 0..Size, NEW r \in 0..Size, Execute(p, q, r)
  PROVE  VenueOK'
<1>1. Sign(p) * q \in Int BY SignType, ExecutorAssumption
<1>2. BaseOf[p] \in Bases BY ExecutorAssumption
<1>3. EntryOrder(p) \in Orders BY DEF EntryOrder, Orders
<1>4. QED BY <1>1, <1>2, <1>3, ExecutorAssumption DEF Execute, VenueOK, TypeOK

\* A close keeps the position's type and the number of faults in bounds.
LEMMA CloseFlipsterType ==
  ASSUME TypeOK, NEW p \in Pos, CloseFlipster(p)
  PROVE  position' \in [Bases -> Int] /\ faults' \in 0..MaxFaults
<1>1. BaseOf[p] \in Bases /\ position[BaseOf[p]] \in Int
  BY ExecutorAssumption DEF TypeOK
<1>2. Reduced(position[BaseOf[p]], -Sign(p), Overshoot(Size)) \in Int
  BY <1>1, SignType, OvershootNat, ReducedKeepsSide, ExecutorAssumption
<1>3. QED
  BY <1>1, <1>2, ExecutorAssumption DEF CloseFlipster, TypeOK, Fault, NoFault

\* Taking contracts off Gate keeps the types of the Gate account.
LEMMA TakeOffGateType ==
  ASSUME TypeOK, NEW p \in Pos, NEW q \in 0..GateClosable(p), TakeOffGate(p, q)
  PROVE  /\ gate_position' \in [Bases -> Int]
         /\ gate_leg' \in [Pos -> 0..Size]
         /\ \A r \in Pos : gate_leg'[r] <= gate_leg[r]
<1>1. BaseOf[p] \in Bases BY ExecutorAssumption
<1>2. q \in Nat /\ q <= gate_leg[p] BY ClosableBound DEF TypeOK
<1>3. Sign(p) * q \in Int BY <1>2, SignType
<1>4. gate_leg[p] - q \in 0..Size BY <1>2, ExecutorAssumption DEF TypeOK
<1>5. QED BY <1>1, <1>2, <1>3, <1>4, ExecutorAssumption DEF TakeOffGate, TypeOK

\* So does a Gate close, whatever its outcome.
LEMMA CloseGateType ==
  ASSUME TypeOK, NEW p \in Pos, CloseGate(p)
  PROVE  /\ gate_position' \in [Bases -> Int]
         /\ gate_leg' \in [Pos -> 0..Size]
         /\ \A r \in Pos : gate_leg'[r] <= gate_leg[r]
         /\ gate_fault' \subseteq Pos
         /\ faults' \in 0..MaxFaults
         /\ gate_leg'[p] > 0 => p \in gate_fault'
<1>1. faults' \in 0..MaxFaults
  BY ExecutorAssumption DEF CloseGate, Fault, NoFault, TypeOK
<1>2. PICK q \in 0..GateClosable(p) : TakeOffGate(p, q)
  BY ClosableBound DEF CloseGate
<1>3. gate_fault' \subseteq Pos /\ (gate_leg'[p] > 0 => p \in gate_fault')
  BY DEF CloseGate, TypeOK
<1>4. QED BY <1>1, <1>2, <1>3, TakeOffGateType

\* Every step keeps the type and the facts it rests on.
LEMMA TypeStep == TypeInv /\ [Next]_allvars => TypeInv'
<1> SUFFICES ASSUME TypeInv, [Next]_allvars PROVE TypeInv'
  OBVIOUS
<1>a. flipster_only' = flipster_only BY DEF Next, allvars
<1> USE <1>a
<1> USE ExecutorAssumption DEF TypeInv, TypeOK, Progress, seen, tracker, watch,
        sweeper, flipster, mirror, gate, EntryPC, CloserPC, WatcherPC,
        Goto, GotoClose, Fault, NoFault
<1>1. ASSUME NEW p \in Pos, HandleEntry(p) PROVE TypeInv'
  BY <1>1 DEF HandleEntry, AfterFilters
<1>2. ASSUME NEW p \in Pos, HandleExit(p) PROVE TypeInv'
  BY <1>2 DEF HandleExit
<1>3. ASSUME NEW p \in Pos, PlaceMarket(p) PROVE TypeInv'
  <2>1. PICK q \in 0..Size : Execute(p, q, 0) BY <1>3 DEF PlaceMarket, LeastFill
  <2>2. VenueOK' BY <2>1, ExecuteType
  <2>3. entry' \in [Pos -> EntryPC] /\ watcher' \in [Pos -> WatcherPC]
    BY <1>3 DEF PlaceMarket, AfterFill, Abort
  <2>4. entry'[p] \notin {"idle", "place", "cancel"}
    BY <1>3 DEF PlaceMarket, AfterFill, Abort
  <2>5. \A r \in Pos \ {p} : entry'[r] = entry[r]
    BY <1>3 DEF PlaceMarket, AfterFill, Abort
  <2>6. faults' \in 0..MaxFaults BY <1>3 DEF PlaceMarket
  <2>7. entry[p] = "place" /\ UNCHANGED <<seen, tracker, attempts, closer,
           leaked, sweeper, mirror, gate, trade_log>>
    BY <1>3 DEF PlaceMarket
  <2>8. QED BY <2>2, <2>3, <2>4, <2>5, <2>6, <2>7 DEF VenueOK
<1>4. ASSUME NEW p \in Pos, PlaceLimit(p) PROVE TypeInv'
  <2>1. PICK q \in 0..Size, rest \in 0..Size : Execute(p, q, rest)
    BY <1>4 DEF PlaceLimit, LeastFill
  <2>2. VenueOK' BY <2>1, ExecuteType
  <2>3. entry' \in [Pos -> EntryPC] /\ watcher' \in [Pos -> WatcherPC]
    BY <1>4 DEF PlaceLimit, AfterFill, Abort
  <2>4. entry'[p] \notin {"idle", "place"}
    BY <1>4 DEF PlaceLimit, AfterFill, Abort
  <2>5. \A r \in Pos \ {p} : entry'[r] = entry[r]
    BY <1>4 DEF PlaceLimit, AfterFill, Abort
  <2>6. faults' \in 0..MaxFaults BY <1>4 DEF PlaceLimit
  <2>7. cancels' \subseteq Orders BY <1>4 DEF PlaceLimit, EntryOrder, Orders
  <2>8. entry[p] = "place" /\ UNCHANGED <<seen, tracker, attempts, closer,
           leaked, closes, unmatched_first_seen, mirror, gate, trade_log>>
    BY <1>4 DEF PlaceLimit
  <2>9. QED BY <2>2, <2>3, <2>4, <2>5, <2>6, <2>7, <2>8 DEF VenueOK
<1>5. ASSUME NEW p \in Pos, CancelEntry(p) PROVE TypeInv'
  BY <1>5 DEF CancelEntry
<1>6. ASSUME NEW p \in Pos, ConfirmCancel(p) PROVE TypeInv'
  BY <1>6 DEF ConfirmCancel
<1>7. ASSUME NEW p \in Pos, VerifyEntry(p) PROVE TypeInv'
  BY <1>7 DEF VerifyEntry, AfterFill, Abort
<1>8. ASSUME NEW p \in Pos, PlaceMakerExit(p) PROVE TypeInv'
  <2>1. ExitOrder(p) \in Orders BY DEF ExitOrder, Orders
  <2>2. book' \in [Orders -> 0..Size]
    <3>1. book' = book \/ book' = [book EXCEPT ![ExitOrder(p)] = Size]
      BY <1>8 DEF PlaceMakerExit
    <3>2. QED BY <2>1, <3>1
  <2>3. exit_order_id' \in [Pos -> BOOLEAN] BY <1>8 DEF PlaceMakerExit
  <2>4. entry' \in [Pos -> EntryPC] /\ entry'[p] = "track" /\ entry[p] = "maker"
    BY <1>8 DEF PlaceMakerExit
  <2>5. faults' \in 0..MaxFaults BY <1>8 DEF PlaceMakerExit
  <2>6. \A r \in Pos \ {p} : entry'[r] = entry[r] BY <1>8 DEF PlaceMakerExit
  <2>7. UNCHANGED <<seen, open_positions, attempts, closer, watch, sweeper,
                    position, filled, mirror, gate, trade_log>>
    BY <1>8 DEF PlaceMakerExit
  <2>8. QED BY <2>2, <2>3, <2>4, <2>5, <2>6, <2>7
<1>9. ASSUME NEW p \in Pos, PlaceGate(p) PROVE TypeInv'
  <2>1. ASSUME NEW q \in 0..Size, OpenGate(p, q), entry[p] = "gate"
        PROVE  /\ gate_position' \in [Bases -> Int] /\ gate_leg' \in [Pos -> 0..Size]
               /\ \A r \in Pos \ {p} : gate_leg'[r] = gate_leg[r]
    <3>1. Sign(p) * q \in Int BY SignType
    <3>2. gate_leg[p] = 0 /\ gate_leg[p] + q \in 0..Size BY <2>1
    <3>3. QED BY <2>1, <3>1, <3>2 DEF OpenGate
  <2>2. entry[p] = "gate" BY <1>9 DEF PlaceGate
  <2>3. /\ gate_position' \in [Bases -> Int] /\ gate_leg' \in [Pos -> 0..Size]
        /\ \A r \in Pos \ {p} : gate_leg'[r] = gate_leg[r]
    BY <1>9, <2>1, <2>2 DEF PlaceGate
  <2>4. entry'[p] \in {"track", "revert"} /\ entry' \in [Pos -> EntryPC]
    BY <1>9 DEF PlaceGate
  <2>5. gate_fault' \subseteq Pos /\ faults' \in 0..MaxFaults BY <1>9 DEF PlaceGate
  <2>6. \A r \in Pos \ {p} : entry'[r] = entry[r] BY <1>9 DEF PlaceGate
  <2>7. UNCHANGED <<seen, tracker, attempts, closer, watch, sweeper, flipster,
                    mirror, trade_log>>
    BY <1>9 DEF PlaceGate
  <2>8. QED BY <2>2, <2>3, <2>4, <2>5, <2>6, <2>7
<1>10. ASSUME NEW p \in Pos, SafetyRevert(p) PROVE TypeInv'
  <2>1. position' \in [Bases -> Int] /\ faults' \in 0..MaxFaults
    BY <1>10, CloseFlipsterType DEF SafetyRevert
  <2>2. QED BY <1>10, <2>1 DEF SafetyRevert, AfterFlipster
<1>11. ASSUME NEW p \in Pos, Track(p) PROVE TypeInv'
  BY <1>11 DEF Track
<1>12. ASSUME NEW p \in Pos, ExitCancel(p) PROVE TypeInv'
  <2>1. ExitOrder(p) \in Orders BY DEF ExitOrder, Orders
  <2>2. book' \in [Orders -> 0..Size] BY <1>12, <2>1 DEF ExitCancel
  <2>3. QED BY <1>12, <2>2 DEF ExitCancel, AfterFlipster
<1>13. ASSUME NEW p \in Pos, ExitCheck(p) PROVE TypeInv'
  BY <1>13 DEF ExitCheck, AfterFlipster
<1>14. ASSUME NEW p \in Pos, ExitClose(p) PROVE TypeInv'
  <2>1. position' \in [Bases -> Int] /\ faults' \in 0..MaxFaults
    BY <1>14, CloseFlipsterType DEF ExitClose
  <2>2. QED BY <1>14, <2>1 DEF ExitClose, AfterFlipster
<1>15. ASSUME NEW p \in Pos, ExitGate(p) PROVE TypeInv'
  <2>1. /\ gate_position' \in [Bases -> Int] /\ gate_leg' \in [Pos -> 0..Size]
        /\ \A r \in Pos : gate_leg'[r] <= gate_leg[r]
        /\ gate_fault' \subseteq Pos /\ faults' \in 0..MaxFaults
    BY <1>15, CloseGateType DEF ExitGate
  <2>2. \A r \in Pos : gate_leg[r] = 0 => gate_leg'[r] = 0 BY <2>1
  <2>3. QED BY <1>15, <2>1, <2>2 DEF ExitGate
<1>16. ASSUME NEW p \in Pos, ExitLog(p) PROVE TypeInv'
  BY <1>16 DEF ExitLog
<1>17. ASSUME NEW p \in Pos, ForceCancel(p) PROVE TypeInv'
  BY <1>17 DEF ForceCancel
<1>18. ASSUME NEW p \in Pos, ForceClose(p) PROVE TypeInv'
  <2>1. position' \in [Bases -> Int] /\ faults' \in 0..MaxFaults
    BY <1>18, CloseFlipsterType DEF ForceClose
  <2>2. QED BY <1>18, <2>1 DEF ForceClose, AfterFlipster
<1>19. ASSUME NEW p \in Pos, ForceGate(p) PROVE TypeInv'
  <2>1. /\ gate_position' \in [Bases -> Int] /\ gate_leg' \in [Pos -> 0..Size]
        /\ \A r \in Pos : gate_leg'[r] <= gate_leg[r]
        /\ gate_fault' \subseteq Pos /\ faults' \in 0..MaxFaults
    BY <1>19, CloseGateType DEF ForceGate
  <2>2. \A r \in Pos : gate_leg[r] = 0 => gate_leg'[r] = 0 BY <2>1
  <2>3. QED BY <1>19, <2>1, <2>2 DEF ForceGate
<1>20. ASSUME NEW p \in Pos, WatchLeak(p) PROVE TypeInv'
  BY <1>20 DEF WatchLeak
<1>21. ASSUME NEW p \in Pos, WatchClean(p) PROVE TypeInv'
  BY <1>21 DEF WatchClean
<1>22. ASSUME NEW p \in Pos, WatchClose(p) PROVE TypeInv'
  <2>1. BaseOf[p] \in Bases /\ position[BaseOf[p]] \in Int /\ leaked[p] \in Int
    OBVIOUS
  <2>2. Reduced(position[BaseOf[p]], -SignOf(leaked[p]),
                Overshoot(AbsOf(leaked[p]))) \in Int
    BY <2>1, AbsNat, NegatedSide, OvershootNat, ReducedKeepsSide
  <2>3. position' \in [Bases -> Int] BY <1>22, <2>1, <2>2 DEF WatchClose
  <2>4. QED BY <1>22, <2>3 DEF WatchClose
<1>23. ASSUME NEW p \in Pos, SweepStalePosition(p) PROVE TypeInv'
  BY <1>23 DEF SweepStalePosition
<1>24. ASSUME NEW p \in Pos, FillEntry(p) PROVE TypeInv'
  <2>1. EntryOrder(p) \in Orders BY DEF EntryOrder, Orders
  <2>2. PICK q \in 1..book[EntryOrder(p)] :
           Execute(p, q, book[EntryOrder(p)] - q)
    BY <1>24 DEF FillEntry
  <2>3. q \in 0..Size /\ book[EntryOrder(p)] - q \in 0..Size BY <2>1
  <2>4. VenueOK' BY <2>2, <2>3, ExecuteType
  <2>5. QED BY <1>24, <2>4 DEF FillEntry, VenueOK
<1>25. ASSUME NEW p \in Pos, FillExit(p) PROVE TypeInv'
  <2>1. ExitOrder(p) \in Orders BY DEF ExitOrder, Orders
  <2>2. /\ \E q \in 1..book[ExitOrder(p)] :
              /\ position' = [position EXCEPT ![BaseOf[p]] = @ - Sign(p) * q]
              /\ book' = [book EXCEPT ![ExitOrder(p)] = @ - q]
        /\ UNCHANGED <<seen, tracker, entry, attempts, closer, watch, sweeper,
                       filled, mirror, gate, trade_log, faults>>
    BY <1>25 DEF FillExit
  <2>3. PICK q \in 1..book[ExitOrder(p)] :
              /\ position' = [position EXCEPT ![BaseOf[p]] = @ - Sign(p) * q]
              /\ book' = [book EXCEPT ![ExitOrder(p)] = @ - q]
    BY <2>2
  <2>4. q \in Int /\ book[ExitOrder(p)] - q \in 0..Size BY <2>1
  <2>5. Sign(p) * q \in Int BY <2>4, SignType
  <2>6. position' \in [Bases -> Int] BY <2>3, <2>5
  <2>7. book' \in [Orders -> 0..Size] BY <2>1, <2>3, <2>4
  <2>8. QED BY <2>2, <2>6, <2>7
<1>26. ASSUME NEW old \in SUBSET unmatched_first_seen, SweepAbortOrphans(old) PROVE TypeInv'
  <2>1. unmatched_first_seen' \subseteq Bases
    BY <1>26 DEF SweepAbortOrphans, Unmatched
  <2>2. closes' \subseteq Bases \X Int
    BY <1>26 DEF SweepAbortOrphans, Unmatched
  <2>3. cancels' \subseteq Orders
    BY <1>26 DEF SweepAbortOrphans
  <2>4. QED BY <1>26, <2>1, <2>2, <2>3 DEF SweepAbortOrphans
<1>27. ASSUME NEW c \in closes, OrphanClose(c) PROVE TypeInv'
  <2>1. c[1] \in Bases /\ position[c[1]] \in Int /\ c[2] \in Int
    OBVIOUS
  <2>2. Reduced(position[c[1]], -SignOf(c[2]), Overshoot(AbsOf(c[2]))) \in Int
    BY <2>1, AbsNat, NegatedSide, OvershootNat, ReducedKeepsSide
  <2>3. position' \in [Bases -> Int] BY <1>27, <2>1, <2>2 DEF OrphanClose
  <2>4. QED BY <1>27, <2>3 DEF OrphanClose
<1>28. ASSUME NEW o \in Orders, SweepStaleOrder(o) PROVE TypeInv'
  BY <1>28 DEF SweepStaleOrder
<1>29. ASSUME NEW o \in Orders, SpawnedCancel(o) PROVE TypeInv'
  BY <1>29 DEF SpawnedCancel
<1>30. ASSUME NEW o \in Orders, WsOrder(o) PROVE TypeInv'
  BY <1>30 DEF WsOrder
<1>31. ASSUME NEW b \in Bases, WsMargin(b) PROVE TypeInv'
  <2>1. Margin(b) \in BOOLEAN BY DEF Margin
  <2>2. QED BY <1>31, <2>1 DEF WsMargin
<1>32. ASSUME NEW b \in Bases, WsSize(b) PROVE TypeInv'
  BY <1>32 DEF WsSize
<1>33. CASE UNCHANGED allvars
  BY <1>33 DEF allvars, vars
<1>34. QED
  BY <1>1, <1>2, <1>3, <1>4, <1>5, <1>6, <1>7, <1>8, <1>9, <1>10, <1>11, <1>12, <1>13,
     <1>14, <1>15, <1>16, <1>17, <1>18, <1>19, <1>20, <1>21, <1>22,
     <1>23, <1>24, <1>25, <1>26, <1>27, <1>28, <1>29, <1>30, <1>31,
     <1>32, <1>33
     DEF Next, EntryTask, CloserTask

\* Every field and every program counter keeps its type, for any number of
\* positions, bases and faults.
THEOREM TypeCorrect == Spec => []TypeOK
<1>1. Init => TypeInv
  BY ExecutorAssumption DEF Init, TypeInv, TypeOK, Progress, EntryPC, CloserPC,
     WatcherPC
<1>2. TypeInv => TypeOK BY DEF TypeInv
<1>3. QED BY <1>1, <1>2, TypeStep, PTL DEF Spec

\* The type invariant with its strengthening, for the proofs below.
LEMMA TypeInvCorrect == Spec => []TypeInv
<1>1. Init => TypeInv
  BY ExecutorAssumption DEF Init, TypeInv, TypeOK, Progress, EntryPC, CloserPC,
     WatcherPC
<1>2. QED BY <1>1, TypeStep, PTL DEF Spec

-----------------------------------------------------------------------------
(* The life of a position: entered, tracked, closed by one task, booked.   *)

\* Until its entry is done a position is neither tracked, nor closed, nor booked;
\* a tracked position and one being closed are not booked yet.
Lifecycle ==
    /\ \A p \in Pos : entry[p] # "done" =>
          closer[p] = "idle" /\ p \notin open_positions /\ trade_log[p] = 0
    /\ \A p \in open_positions : closer[p] = "idle" /\ trade_log[p] = 0
    /\ \A p \in Pos : closer[p] \notin {"idle", "done"} => trade_log[p] = 0
    /\ \A p \in Pos : trade_log[p] \in {0, 1}

\* Every step keeps the order of a position's life.
LEMMA LifecycleStep == TypeInv /\ Lifecycle /\ [Next]_allvars => Lifecycle'
<1> SUFFICES ASSUME TypeInv, Lifecycle, [Next]_allvars PROVE Lifecycle'
  OBVIOUS
<1> USE DEF TypeInv, TypeOK, Lifecycle, Goto, GotoClose, seen, tracker
<1>1. ASSUME NEW p \in Pos, HandleEntry(p) PROVE Lifecycle'
  BY <1>1 DEF HandleEntry, AfterFilters, Progress
<1>2. ASSUME NEW p \in Pos,
             \/ PlaceMarket(p) \/ PlaceLimit(p) \/ CancelEntry(p)
             \/ ConfirmCancel(p) \/ VerifyEntry(p) \/ PlaceMakerExit(p)
             \/ PlaceGate(p)
      PROVE  Lifecycle'
  <2>1. entry[p] # "done" /\ UNCHANGED <<open_positions, closer, trade_log>>
    BY <1>2 DEF PlaceMarket, PlaceLimit, CancelEntry, ConfirmCancel,
       VerifyEntry, PlaceMakerExit, PlaceGate
  <2>2. \A r \in Pos \ {p} : entry'[r] = entry[r]
    BY <1>2 DEF PlaceMarket, PlaceLimit, CancelEntry, ConfirmCancel,
       VerifyEntry, PlaceMakerExit, PlaceGate, Abort
  <2>3. QED BY <2>1, <2>2
<1>3. ASSUME NEW p \in Pos, SafetyRevert(p) PROVE Lifecycle'
  BY <1>3 DEF SafetyRevert
<1>4. ASSUME NEW p \in Pos, Track(p) PROVE Lifecycle'
  BY <1>4 DEF Track
<1>5. ASSUME NEW p \in Pos, HandleExit(p) PROVE Lifecycle'
  BY <1>5 DEF HandleExit
<1>6. ASSUME NEW p \in Pos, SweepStalePosition(p) PROVE Lifecycle'
  BY <1>6 DEF SweepStalePosition
<1>7. ASSUME NEW p \in Pos,
             \/ ExitCancel(p) \/ ExitCheck(p) \/ ExitClose(p) \/ ExitGate(p)
             \/ ForceCancel(p) \/ ForceClose(p) \/ ForceGate(p)
      PROVE  Lifecycle'
  <2>1. /\ closer[p] \notin {"idle", "done"}
        /\ UNCHANGED <<open_positions, entry, trade_log>>
    BY <1>7 DEF ExitCancel, ExitCheck, ExitClose, ExitGate, ForceCancel,
       ForceClose, ForceGate
  <2>2. \A r \in Pos \ {p} : closer'[r] = closer[r]
    BY <1>7 DEF ExitCancel, ExitCheck, ExitClose, ExitGate, ForceCancel,
       ForceClose, ForceGate
  <2>3. QED BY <2>1, <2>2
<1>8. ASSUME NEW p \in Pos, ExitLog(p) PROVE Lifecycle'
  BY <1>8 DEF ExitLog
<1>9. ASSUME UNCHANGED <<open_positions, entry, closer, trade_log>>
      PROVE  Lifecycle'
  BY <1>9
<1>10. ASSUME NEW p \in Pos,
              \/ WatchLeak(p) \/ WatchClean(p) \/ WatchClose(p)
              \/ FillEntry(p) \/ FillExit(p)
       PROVE  Lifecycle'
  BY <1>9, <1>10 DEF WatchLeak, WatchClean, WatchClose, FillEntry, FillExit
<1>11. ASSUME NEW old \in SUBSET unmatched_first_seen, SweepAbortOrphans(old)
       PROVE  Lifecycle'
  BY <1>9, <1>11 DEF SweepAbortOrphans
<1>12. ASSUME NEW c \in closes, OrphanClose(c) PROVE Lifecycle'
  BY <1>9, <1>12 DEF OrphanClose
<1>13. ASSUME NEW o \in Orders, SweepStaleOrder(o) \/ SpawnedCancel(o) \/ WsOrder(o)
       PROVE  Lifecycle'
  BY <1>9, <1>13 DEF SweepStaleOrder, SpawnedCancel, WsOrder
<1>14. ASSUME NEW b \in Bases, WsMargin(b) \/ WsSize(b) PROVE Lifecycle'
  BY <1>9, <1>14 DEF WsMargin, WsSize
<1>15. CASE UNCHANGED allvars
  BY <1>9, <1>15 DEF allvars, vars
<1>16. QED
  BY <1>1, <1>2, <1>3, <1>4, <1>5, <1>6, <1>7, <1>8, <1>10, <1>11, <1>12,
     <1>13, <1>14, <1>15 DEF Next, EntryTask, CloserTask

\* Every reachable state is in order.
LEMMA LifecycleCorrect == Spec => []Lifecycle
<1>1. Init => Lifecycle BY DEF Init, Lifecycle
<1>2. QED BY <1>1, LifecycleStep, TypeInvCorrect, PTL DEF Spec

\* The exit task and the stale-position sweeper never both close a position, and
\* nothing closes one whose entry is still under way.
THEOREM OneCloserCorrect == Spec => []OneCloser
<1>1. TypeInv /\ Lifecycle => OneCloser
  BY DEF TypeInv, TypeOK, Lifecycle, OneCloser
<1>2. QED BY <1>1, TypeInvCorrect, LifecycleCorrect, PTL

\* A position is booked at most once, by its exit or by its safety revert.
THEOREM BookedOnceCorrect == Spec => []BookedOnce
<1>1. Lifecycle => BookedOnce
  <2> SUFFICES ASSUME Lifecycle, NEW p \in Pos PROVE trade_log[p] <= 1
    BY DEF BookedOnce
  <2>1. trade_log[p] = 0 \/ trade_log[p] = 1 BY DEF Lifecycle
  <2>2. QED BY <2>1
<1>2. QED BY <1>1, LifecycleCorrect, PTL

-----------------------------------------------------------------------------
(* The Gate leg                                                            *)

\* Single-leg mode never comes near Gate; otherwise every leg has an owner.
GateOwned ==
    /\ GateLegHasOwner
    /\ flipster_only => \A p \in Pos :
          entry[p] \notin {"gate", "revert"} /\ gate_leg[p] = 0

\* Every step hands a Gate leg on, closes it or records the fault.
LEMMA GateStep == TypeInv /\ GateOwned /\ [Next]_allvars => GateOwned'
<1> SUFFICES ASSUME TypeInv, GateOwned, [Next]_allvars PROVE GateOwned'
  OBVIOUS
<1>a. flipster_only' = flipster_only BY DEF Next, allvars
<1> USE <1>a
<1> USE DEF TypeInv, GateOwned, GateLegHasOwner, Goto, GotoClose, tracker, gate
<1>1. ASSUME NEW p \in Pos,
             \/ HandleEntry(p) \/ PlaceMarket(p) \/ PlaceLimit(p)
             \/ CancelEntry(p) \/ ConfirmCancel(p) \/ VerifyEntry(p)
             \/ PlaceMakerExit(p)
      PROVE  GateOwned'
  <2>1. /\ entry[p] \in {"idle", "place", "cancel", "confirm", "verify", "maker"}
        /\ UNCHANGED <<open_positions, closer, gate>>
    <3>1. CASE HandleEntry(p) BY <3>1 DEF HandleEntry, Progress
    <3>2. CASE ~HandleEntry(p)
      BY <1>1, <3>2 DEF PlaceMarket, PlaceLimit, CancelEntry, ConfirmCancel,
         VerifyEntry, PlaceMakerExit
    <3>3. QED BY <3>1, <3>2
  <2>2. \A r \in Pos \ {p} : entry'[r] = entry[r]
    BY <1>1 DEF HandleEntry, PlaceMarket, PlaceLimit, CancelEntry,
       ConfirmCancel, VerifyEntry, PlaceMakerExit, Abort, TypeOK
  <2>3. flipster_only => entry'[p] \notin {"gate", "revert"}
    BY <1>1 DEF HandleEntry, AfterFilters, PlaceMarket, PlaceLimit, CancelEntry,
       ConfirmCancel, VerifyEntry, PlaceMakerExit, Abort, AfterFill, TypeOK
  <2>4. gate_leg[p] = 0 BY <2>1 DEF Progress, EntryPC
  <2>5. QED BY <2>1, <2>2, <2>3, <2>4
<1>2. ASSUME NEW p \in Pos, PlaceGate(p) PROVE GateOwned'
  <2>1. /\ entry[p] = "gate" /\ ~flipster_only
        /\ UNCHANGED <<open_positions, closer>>
    BY <1>2 DEF PlaceGate
  <2>2. \A r \in Pos \ {p} : entry'[r] = entry[r] /\ gate_leg'[r] = gate_leg[r]
    BY <1>2 DEF PlaceGate, OpenGate, TypeOK
  <2>3. gate_fault \subseteq gate_fault' BY <1>2 DEF PlaceGate
  <2>4. gate_leg[p] = 0 BY <2>1 DEF Progress, EntryPC
  <2>5. gate_leg'[p] > 0 => p \in gate_fault' \/ entry'[p] = "track"
    BY <1>2, <2>4 DEF PlaceGate, TypeOK
  <2>6. QED BY <2>1, <2>2, <2>3, <2>5
<1>3. ASSUME NEW p \in Pos, SafetyRevert(p) PROVE GateOwned'
  BY <1>3 DEF SafetyRevert, TypeOK
<1>4. ASSUME NEW p \in Pos, Track(p) PROVE GateOwned'
  BY <1>4 DEF Track, TypeOK
<1>5. ASSUME NEW p \in Pos, HandleExit(p) PROVE GateOwned'
  BY <1>5 DEF HandleExit, TypeOK
<1>6. ASSUME NEW p \in Pos, SweepStalePosition(p) PROVE GateOwned'
  BY <1>6 DEF SweepStalePosition, TypeOK
<1>7. ASSUME NEW p \in Pos,
             \/ ExitCancel(p) \/ ExitCheck(p) \/ ExitClose(p)
             \/ ForceCancel(p) \/ ForceClose(p) \/ ExitLog(p)
      PROVE  GateOwned'
  <2>1. UNCHANGED <<open_positions, entry, gate>>
    BY <1>7 DEF ExitCancel, ExitCheck, ExitClose, ForceCancel, ForceClose, ExitLog
  <2>2. \A r \in Pos \ {p} : closer'[r] = closer[r]
    BY <1>7 DEF ExitCancel, ExitCheck, ExitClose, ForceCancel, ForceClose,
       ExitLog, TypeOK
  <2>3. \/ closer'[p] \in {"check", "close", "gate", "fclose", "fgate"}
        \/ flipster_only
        \/ closer[p] = "log"
    BY <1>7 DEF ExitCancel, ExitCheck, ExitClose, ForceCancel, ForceClose,
       ExitLog, AfterFlipster, TypeOK
  <2>4. QED BY <2>1, <2>2, <2>3 DEF TypeOK
<1>8. ASSUME NEW p \in Pos, ExitGate(p) \/ ForceGate(p) PROVE GateOwned'
  <2>1. /\ CloseGate(p)
        /\ UNCHANGED <<open_positions, entry>>
    BY <1>8 DEF ExitGate, ForceGate
  <2>2. \A r \in Pos \ {p} : closer'[r] = closer[r]
    BY <1>8 DEF ExitGate, ForceGate, TypeOK
  <2>3. /\ gate_leg' \in [Pos -> 0..Size]
        /\ \A r \in Pos : gate_leg'[r] <= gate_leg[r]
        /\ gate_leg'[p] > 0 => p \in gate_fault'
    BY <2>1, CloseGateType
  <2>4. gate_fault \subseteq gate_fault' BY <2>1 DEF CloseGate
  <2>5. \A r \in Pos : /\ gate_leg'[r] > 0 => gate_leg[r] > 0
                       /\ gate_leg[r] = 0 => gate_leg'[r] = 0
    BY <2>3, ExecutorAssumption DEF TypeOK
  <2>6. QED BY <2>1, <2>2, <2>3, <2>4, <2>5
<1>9. ASSUME UNCHANGED <<open_positions, entry, closer, gate>>
      PROVE  GateOwned'
  BY <1>9
<1>10. ASSUME NEW p \in Pos,
              \/ WatchLeak(p) \/ WatchClean(p) \/ WatchClose(p)
              \/ FillEntry(p) \/ FillExit(p)
       PROVE  GateOwned'
  BY <1>9, <1>10 DEF WatchLeak, WatchClean, WatchClose, FillEntry, FillExit
<1>11. ASSUME NEW old \in SUBSET unmatched_first_seen, SweepAbortOrphans(old)
       PROVE  GateOwned'
  BY <1>9, <1>11 DEF SweepAbortOrphans
<1>12. ASSUME NEW c \in closes, OrphanClose(c) PROVE GateOwned'
  BY <1>9, <1>12 DEF OrphanClose
<1>13. ASSUME NEW o \in Orders, SweepStaleOrder(o) \/ SpawnedCancel(o) \/ WsOrder(o)
       PROVE  GateOwned'
  BY <1>9, <1>13 DEF SweepStaleOrder, SpawnedCancel, WsOrder
<1>14. ASSUME NEW b \in Bases, WsMargin(b) \/ WsSize(b) PROVE GateOwned'
  BY <1>9, <1>14 DEF WsMargin, WsSize
<1>15. CASE UNCHANGED allvars
  BY <1>9, <1>15 DEF allvars, vars
<1>16. QED
  BY <1>1, <1>2, <1>3, <1>4, <1>5, <1>6, <1>7, <1>8, <1>10, <1>11, <1>12,
     <1>13, <1>14, <1>15 DEF Next, EntryTask, CloserTask

\* A Gate leg is never left without a task or a tracked position that will close
\* it, unless a Gate call for that position failed, was refused or filled in part.
THEOREM GateLegOwnerCorrect == Spec => []GateLegHasOwner
<1>1. Init => GateOwned BY DEF Init, GateOwned, GateLegHasOwner
<1>2. GateOwned => GateLegHasOwner BY DEF GateOwned
<1>3. QED BY <1>1, <1>2, GateStep, TypeInvCorrect, PTL DEF Spec

-----------------------------------------------------------------------------
(* The net position                                                        *)

\* A step that moves base b by a reduce-only order keeps every base on its side.
LEMMA ReduceKeepsSide ==
  ASSUME TypeOK, NeverFlips, NEW b \in Bases, NEW t \in {-1, 1}, NEW q \in Nat,
         position' = [position EXCEPT ![b] = Reduced(@, t, q)]
  PROVE  NeverFlips'
<1>1. position[b] \in Int BY DEF TypeOK
<1>2. /\ position'[b] = Reduced(position[b], t, q)
      /\ \A c \in Bases \ {b} : position'[c] = position[c]
  BY DEF TypeOK
<1>3. /\ position[b] >= 0 => position'[b] >= 0
      /\ position[b] <= 0 => position'[b] <= 0
  BY <1>1, <1>2, ReducedKeepsSide
<1>4. QED BY <1>2, <1>3 DEF NeverFlips

\* So does the execution of an entry order.
LEMMA ExecuteKeepsSide ==
  ASSUME TypeOK, NeverFlips, NEW p \in Pos, NEW q \in Nat, NEW r, Execute(p, q, r)
  PROVE  NeverFlips'
<1> DEFINE b == BaseOf[p]
<1>1. b \in Bases /\ position[b] \in Int BY ExecutorAssumption DEF TypeOK
<1>2. /\ position'[b] = position[b] + Sign(p) * q
      /\ \A c \in Bases \ {b} : position'[c] = position[c]
  BY <1>1 DEF TypeOK, Execute
<1>3. Sign(p) * q = IF p \in Long THEN q ELSE -q BY SignType
<1>4. /\ p \in Long => position'[b] >= position[b]
      /\ p \notin Long => position'[b] <= position[b]
  BY <1>1, <1>2, <1>3
<1>5. position'[b] \in Int BY <1>1, <1>2, <1>3
<1>6. (\A s \in Pos : BaseOf[s] = b => s \in Long) => position'[b] >= 0
  <2>1. SUFFICES ASSUME \A s \in Pos : BaseOf[s] = b => s \in Long
                 PROVE  position'[b] >= 0
    OBVIOUS
  <2>2. position[b] >= 0 /\ p \in Long BY <1>1, <2>1 DEF NeverFlips
  <2>3. QED BY <1>1, <1>4, <1>5, <2>2
<1>7. (\A s \in Pos : BaseOf[s] = b => s \notin Long) => position'[b] <= 0
  <2>1. SUFFICES ASSUME \A s \in Pos : BaseOf[s] = b => s \notin Long
                 PROVE  position'[b] <= 0
    OBVIOUS
  <2>2. position[b] <= 0 /\ p \notin Long BY <1>1, <2>1 DEF NeverFlips
  <2>3. QED BY <1>1, <1>4, <1>5, <2>2
<1>8. QED BY <1>2, <1>6, <1>7 DEF NeverFlips

\* Every step keeps every base on its side.
LEMMA SideStep == TypeOK /\ NeverFlips /\ [Next]_allvars => NeverFlips'
<1> SUFFICES ASSUME TypeOK, NeverFlips, [Next]_allvars PROVE NeverFlips'
  OBVIOUS
<1> USE DEF flipster
<1>1. ASSUME position' = position PROVE NeverFlips'
  BY <1>1 DEF NeverFlips
<1>2. ASSUME NEW p \in Pos, PlaceMarket(p) \/ PlaceLimit(p) PROVE NeverFlips'
  <2>1. PICK q \in 0..Size, r \in 0..Size : Execute(p, q, r)
    BY <1>2, ExecutorAssumption DEF PlaceMarket, PlaceLimit, LeastFill
  <2>2. QED BY <2>1, ExecuteKeepsSide
<1>3. ASSUME NEW p \in Pos, FillEntry(p) PROVE NeverFlips'
  <2>1. PICK q \in Nat, r \in Int : Execute(p, q, r)
    <3>1. book[EntryOrder(p)] \in Nat
      BY ExecutorAssumption DEF TypeOK, EntryOrder, Orders
    <3>2. QED BY <1>3, <3>1 DEF FillEntry
  <2>2. QED BY <2>1, ExecuteKeepsSide
<1>4. ASSUME NEW p \in Pos, CloseFlipster(p) PROVE NeverFlips'
  <2>1. CASE position' = position BY <1>1, <2>1
  <2>2. CASE position' = [position EXCEPT ![BaseOf[p]] =
                             Reduced(@, -Sign(p), Overshoot(Size))]
    BY <2>2, SignType, OvershootNat, ReduceKeepsSide, ExecutorAssumption
  <2>3. QED BY <1>4, <2>1, <2>2 DEF CloseFlipster
<1>5. ASSUME NEW p \in Pos, SafetyRevert(p) \/ ExitClose(p) \/ ForceClose(p)
      PROVE  NeverFlips'
  BY <1>4, <1>5 DEF SafetyRevert, ExitClose, ForceClose
<1>6. ASSUME NEW p \in Pos, WatchClose(p) PROVE NeverFlips'
  <2>1. leaked[p] \in Int BY DEF TypeOK
  <2>2. Overshoot(AbsOf(leaked[p])) \in Nat /\ -SignOf(leaked[p]) \in {-1, 1}
    BY <2>1, AbsNat, OvershootNat, NegatedSide
  <2>3. CASE position' = position BY <1>1, <2>3
  <2>4. CASE position' = [position EXCEPT ![BaseOf[p]] =
                Reduced(@, -SignOf(leaked[p]), Overshoot(AbsOf(leaked[p])))]
    BY <2>2, <2>4, ReduceKeepsSide, ExecutorAssumption
  <2>5. QED BY <1>6, <2>3, <2>4 DEF WatchClose
<1>7. ASSUME NEW c \in closes, OrphanClose(c) PROVE NeverFlips'
  <2>1. c[1] \in Bases /\ c[2] \in Int BY DEF TypeOK
  <2>2. Overshoot(AbsOf(c[2])) \in Nat /\ -SignOf(c[2]) \in {-1, 1}
    BY <2>1, AbsNat, OvershootNat, NegatedSide
  <2>3. CASE position' = position BY <1>1, <2>3
  <2>4. CASE position' = [position EXCEPT ![c[1]] =
                Reduced(@, -SignOf(c[2]), Overshoot(AbsOf(c[2])))]
    BY <2>1, <2>2, <2>4, ReduceKeepsSide
  <2>5. QED BY <1>7, <2>3, <2>4 DEF OrphanClose
<1>8. ASSUME NEW p \in Pos, FillExit(p) PROVE NeverFlips'
  <2>1. BaseOf[p] \in Bases /\ position[BaseOf[p]] \in Int
    BY ExecutorAssumption DEF TypeOK
  <2>2. book[ExitOrder(p)] \in Nat
    BY ExecutorAssumption DEF TypeOK, ExitOrder, Orders
  <2>3. PICK q \in 1..book[ExitOrder(p)] :
           /\ q <= AbsOf(position[BaseOf[p]])
           /\ position' = [position EXCEPT ![BaseOf[p]] = @ - Sign(p) * q]
    BY <1>8 DEF FillExit
  <2>4. q \in Nat BY <2>2
  <2>5. position[BaseOf[p]] * Sign(p) > 0 BY <1>8 DEF FillExit
  <2>6. position' = [position EXCEPT ![BaseOf[p]] = Reduced(@, -Sign(p), q)]
    <3>1. position[BaseOf[p]] - Sign(p) * q
            = Reduced(position[BaseOf[p]], -Sign(p), q)
      <4>1. CASE p \in Long
        BY <2>1, <2>3, <2>4, <2>5, <4>1 DEF Sign, Reduced, Least, AbsOf
      <4>2. CASE p \notin Long
        BY <2>1, <2>3, <2>4, <2>5, <4>2 DEF Sign, Reduced, Least, AbsOf
      <4>3. QED BY <4>1, <4>2
    <3>2. QED BY <2>3, <3>1
  <2>7. QED BY <2>1, <2>4, <2>6, SignType, ReduceKeepsSide
<1>9. ASSUME NEW p \in Pos,
             \/ HandleEntry(p) \/ HandleExit(p) \/ CancelEntry(p)
             \/ ConfirmCancel(p) \/ VerifyEntry(p) \/ PlaceMakerExit(p)
             \/ PlaceGate(p) \/ Track(p) \/ WatchLeak(p) \/ WatchClean(p)
             \/ SweepStalePosition(p)
      PROVE  NeverFlips'
  BY <1>1, <1>9 DEF HandleEntry, HandleExit, CancelEntry, ConfirmCancel,
     VerifyEntry, PlaceMakerExit, PlaceGate, Track, WatchLeak, WatchClean,
     SweepStalePosition
<1>10. ASSUME NEW p \in Pos,
              \/ ExitCancel(p) \/ ExitCheck(p) \/ ExitGate(p) \/ ExitLog(p)
              \/ ForceCancel(p) \/ ForceGate(p)
       PROVE  NeverFlips'
  BY <1>1, <1>10 DEF ExitCancel, ExitCheck, ExitGate, ExitLog, ForceCancel,
     ForceGate
<1>11. ASSUME NEW old \in SUBSET unmatched_first_seen, SweepAbortOrphans(old)
       PROVE  NeverFlips'
  BY <1>1, <1>11 DEF SweepAbortOrphans
<1>12. ASSUME NEW o \in Orders, SweepStaleOrder(o) \/ SpawnedCancel(o) \/ WsOrder(o)
       PROVE  NeverFlips'
  BY <1>1, <1>12 DEF SweepStaleOrder, SpawnedCancel, WsOrder
<1>13. ASSUME NEW b \in Bases, WsMargin(b) \/ WsSize(b) PROVE NeverFlips'
  BY <1>1, <1>13 DEF WsMargin, WsSize
<1>14. CASE UNCHANGED allvars
  BY <1>1, <1>14 DEF allvars, vars
<1>15. QED
  BY <1>2, <1>3, <1>5, <1>6, <1>7, <1>8, <1>9, <1>10, <1>11, <1>12, <1>13,
     <1>14 DEF Next, EntryTask, CloserTask

\* However many closers act on a base, none of them knowing of the others, and
\* whatever each believes the size to be, the account never changes sides.
THEOREM NeverFlipsCorrect == Spec => []NeverFlips
<1>1. Init => NeverFlips BY DEF Init, NeverFlips
<1>2. QED BY <1>1, SideStep, TypeCorrect, PTL DEF Spec

-----------------------------------------------------------------------------
(* The bookkeeping of stale orders                                         *)

\* The numbers of retries and of tasks are numbers.
LEMMA StaleConstants == MaxRetries \in Nat \ {0} /\ MaxTasks \in Nat \ {0}
  BY MCStatsAssumption DEF Stale!ConstantsOK

\* An order that the sweeper, a cancel task or the abandon list knows of.
Touched(o) ==
    \/ sent[o] > 0 \/ cancelling[o] > 0 \/ giving_up[o] > 0
    \/ o \in abandoned_orders

\* The mirror shows an order from its first row until it has left the book: what
\* the sweeper has once seen either still rests in plain view or is gone for good.
SeenUntilGone ==
    \A o \in OrderIds :
        /\ Touched(o) \/ o \in ws_copy \/ o \in ws_open =>
              o \in gone \/ (o \in resting /\ o \in ws_open)
        /\ Touched(o) /\ o \in ws_open => o \in ws_copy

\* The count of failures can only run ahead of the limit by as many tasks as are
\* about to abandon the order; and until the order is abandoned or has disappeared,
\* the count and the calls in flight account for every cancel sent.
CancelsAccounted ==
    \A o \in OrderIds :
        /\ cancelling[o] + giving_up[o] <= MaxTasks
        /\ cancel_failure_count[o] <= MaxRetries - 1 + giving_up[o]
        /\ \/ o \in abandoned_orders
           \/ o \notin ws_copy /\ o \notin ws_open
           \/ sent[o] <= cancelling[o] + cancel_failure_count[o]

RetriesInv ==
    /\ Stale!TypeOK /\ resting \intersect gone = {}
    /\ SeenUntilGone /\ CancelsAccounted /\ Stale!RetriesBounded

\* Nothing is resting, cancelled or counted at first.
LEMMA RetriesInit == Stale!Init => RetriesInv
<1> SUFFICES ASSUME Stale!Init PROVE RetriesInv
  OBVIOUS
<1>1. Stale!TypeOK
  <2>1. 0 \in Nat /\ 0 \in 0..MaxTasks BY StaleConstants
  <2>2. QED BY <2>1 DEF Stale!Init, Stale!TypeOK
<1>2. \A o \in OrderIds : /\ sent[o] = 0 /\ cancelling[o] = 0 /\ giving_up[o] = 0
                        /\ cancel_failure_count[o] = 0
  BY DEF Stale!Init
<1>3. SeenUntilGone BY <1>2 DEF Stale!Init, SeenUntilGone, Touched
<1>4. CancelsAccounted /\ Stale!RetriesBounded
  BY <1>2, StaleConstants DEF CancelsAccounted, Stale!RetriesBounded
<1>5. QED BY <1>1, <1>3, <1>4 DEF Stale!Init, RetriesInv

\* What the venue, the mirror and the clock do leaves the accounts alone.
LEMMA VenueStep ==
  ASSUME RetriesInv, NEW o \in OrderIds, Stale!Place(o) \/ Stale!Resolve(o) \/ Stale!WsUpdate(o) \/ Stale!Age(o)
  PROVE  RetriesInv'
<1> USE StaleConstants DEF RetriesInv, Stale!books, Stale!tasks, Stale!venue
<1>1. Stale!TypeOK' /\ (resting \intersect gone = {})'
  BY DEF Stale!TypeOK, Stale!Place, Stale!Resolve, Stale!WsUpdate, Stale!Age
<1>2. SeenUntilGone'
  BY DEF SeenUntilGone, Touched, Stale!TypeOK, Stale!Place, Stale!Resolve, Stale!WsUpdate, Stale!Age
<1>3. UNCHANGED <<sent, cancelling, giving_up, cancel_failure_count, abandoned_orders,
                  ws_copy>>
  BY DEF Stale!Place, Stale!Resolve, Stale!WsUpdate, Stale!Age
<1>4. CancelsAccounted' /\ Stale!RetriesBounded'
  <2> SUFFICES ASSUME NEW p \in OrderIds
               PROVE  \/ p \notin ws_open => p \notin ws_open'
                      \/ sent[p] <= cancelling[p] + cancel_failure_count[p]
                      \/ p \in ws_copy \/ p \in abandoned_orders
    BY <1>3 DEF CancelsAccounted, Stale!RetriesBounded
  <2>1. QED
    BY DEF SeenUntilGone, Touched, Stale!TypeOK, Stale!Place, Stale!Resolve, Stale!WsUpdate, Stale!Age
<1>5. QED BY <1>1, <1>2, <1>4

\* The sweeper's copy forgets an order only when the mirror has.
LEMMA SweepReadStep == RetriesInv /\ Stale!SweepRead => RetriesInv'
BY StaleConstants
   DEF RetriesInv, Stale!SweepRead, Stale!TypeOK, SeenUntilGone, Touched, CancelsAccounted,
       Stale!RetriesBounded, Stale!venue, Stale!books, Stale!tasks

\* A cancel is sent only for an order that is not abandoned, with a task to spare;
\* a count is dropped only with the last trace of its order in the copy.
LEMMA SweepActStep == RetriesInv /\ Stale!SweepAct => RetriesInv'
<1> SUFFICES ASSUME RetriesInv, Stale!SweepAct PROVE RetriesInv'
  OBVIOUS
<1> USE StaleConstants DEF RetriesInv
<1>1. PICK A \in SUBSET Stale!Old :
        /\ \A o \in A : cancelling[o] + giving_up[o] < MaxTasks
        /\ order_first_seen' = Stale!FirstSeenAfter(A)
        /\ cancelling' = [o \in OrderIds |-> IF o \in A THEN cancelling[o] + 1
                                                      ELSE cancelling[o]]
        /\ sent' = [o \in OrderIds |-> IF o \in A THEN sent[o] + 1 ELSE sent[o]]
  BY DEF Stale!SweepAct
<1>2. /\ UNCHANGED <<resting, gone, ws_open, ws_copy, giving_up>>
      /\ sweeping' = FALSE
      /\ cancel_failure_count' =
            [o \in OrderIds |-> IF o \in ws_copy THEN cancel_failure_count[o] ELSE 0]
      /\ abandoned_orders' = abandoned_orders \intersect ws_copy
  BY DEF Stale!SweepAct, Stale!venue
<1>3. A \subseteq ws_copy \ abandoned_orders BY DEF Stale!Old
<1>4. Stale!TypeOK'
  <2>1. order_first_seen' \in [OrderIds -> {"none", "young", "old"}]
    BY <1>1 DEF Stale!TypeOK, Stale!FirstSeenAfter
  <2>2. cancelling' \in [OrderIds -> 0..MaxTasks] /\ sent' \in [OrderIds -> Nat]
    BY <1>1 DEF Stale!TypeOK
  <2>3. cancel_failure_count' \in [OrderIds -> Nat]
    BY <1>2 DEF Stale!TypeOK
  <2>4. QED BY <1>2, <2>1, <2>2, <2>3 DEF Stale!TypeOK
<1>5. SeenUntilGone'
  BY <1>1, <1>2, <1>3 DEF SeenUntilGone, Touched, Stale!TypeOK
<1>6. ASSUME NEW o \in OrderIds
      PROVE  /\ cancelling'[o] + giving_up'[o] <= MaxTasks
             /\ cancel_failure_count'[o] <= MaxRetries - 1 + giving_up'[o]
             /\ \/ o \in abandoned_orders'
                \/ o \notin ws_copy' /\ o \notin ws_open'
                \/ sent'[o] <= cancelling'[o] + cancel_failure_count'[o]
             /\ sent'[o] <= MaxRetries + MaxTasks
  <2>1. CASE o \in A
    BY <1>1, <1>2, <1>3, <2>1 DEF CancelsAccounted, Stale!TypeOK
  <2>2. CASE o \notin A /\ o \in ws_copy
    BY <1>1, <1>2, <2>2 DEF CancelsAccounted, Stale!RetriesBounded, Stale!TypeOK
  <2>3. CASE o \notin A /\ o \notin ws_copy
    <3>1. sent[o] = 0 \/ o \notin ws_open
      BY <2>3 DEF SeenUntilGone, Touched, Stale!TypeOK
    <3>2. QED
      BY <1>1, <1>2, <2>3, <3>1 DEF CancelsAccounted, Stale!RetriesBounded, Stale!TypeOK
  <2>4. QED BY <2>1, <2>2, <2>3
<1>7. CancelsAccounted' /\ Stale!RetriesBounded'
  BY <1>6 DEF CancelsAccounted, Stale!RetriesBounded
<1>8. QED BY <1>2, <1>4, <1>5, <1>7

\* A cancel that returns moves one call from "in flight" to "failed", or pays all.
LEMMA CancelStep ==
  ASSUME RetriesInv, NEW o \in OrderIds, Stale!CancelOk(o) \/ Stale!CancelErr(o) \/ Stale!GiveUp(o)
  PROVE  RetriesInv'
<1> USE StaleConstants DEF RetriesInv, Stale!Add, Stale!Sub, Stale!venue
<1>1. CASE Stale!CancelOk(o)
  <2>1. Stale!TypeOK' BY <1>1 DEF Stale!TypeOK, Stale!CancelOk
  <2>2. SeenUntilGone' /\ (resting \intersect gone = {})'
    BY <1>1 DEF SeenUntilGone, Touched, Stale!TypeOK, Stale!CancelOk
  <2>3. CancelsAccounted' /\ Stale!RetriesBounded'
    BY <1>1 DEF CancelsAccounted, Stale!RetriesBounded, Stale!TypeOK, Stale!CancelOk
  <2>4. QED BY <2>1, <2>2, <2>3
<1>2. CASE Stale!CancelErr(o)
  <2>1. Stale!TypeOK' BY <1>2 DEF Stale!TypeOK, Stale!CancelErr, CancelsAccounted
  <2>2. SeenUntilGone' /\ (resting \intersect gone = {})'
    BY <1>2 DEF SeenUntilGone, Touched, Stale!TypeOK, Stale!CancelErr
  <2>3. CancelsAccounted' /\ Stale!RetriesBounded'
    BY <1>2 DEF CancelsAccounted, Stale!RetriesBounded, Stale!TypeOK, Stale!CancelErr
  <2>4. QED BY <2>1, <2>2, <2>3
<1>3. CASE Stale!GiveUp(o)
  <2>1. Stale!TypeOK' BY <1>3 DEF Stale!TypeOK, Stale!GiveUp
  <2>2. SeenUntilGone' /\ (resting \intersect gone = {})'
    BY <1>3 DEF SeenUntilGone, Touched, Stale!TypeOK, Stale!GiveUp
  <2>3. CancelsAccounted' /\ Stale!RetriesBounded'
    BY <1>3 DEF CancelsAccounted, Stale!RetriesBounded, Stale!TypeOK, Stale!GiveUp
  <2>4. QED BY <2>1, <2>2, <2>3
<1>4. QED BY <1>1, <1>2, <1>3

\* Sweeps, cancel tasks and order rows, in any order, keep the count within its bound.
LEMMA RetriesStep == RetriesInv /\ [Stale!Next]_orderVars => RetriesInv'
<1> SUFFICES ASSUME RetriesInv, [Stale!Next]_orderVars PROVE RetriesInv'
  OBVIOUS
<1>1. CASE UNCHANGED orderVars
  BY <1>1 DEF RetriesInv, Stale!TypeOK, SeenUntilGone, Touched, CancelsAccounted,
              Stale!RetriesBounded, orderVars, Stale!venue, Stale!books, Stale!tasks
<1>2. CASE Stale!Next
  BY <1>2, VenueStep, SweepReadStep, SweepActStep, CancelStep DEF Stale!Next
<1>3. QED BY <1>1, <1>2

-----------------------------------------------------------------------------
(* The statistics on disk                                                  *)

\* Sharper types: the executor's numbers come from its own trades only.
DiskBounds ==
    /\ mem["executor"] <= MaxTrades /\ snapshot["executor"] <= MaxTrades
    /\ saved["executor"] <= MaxTrades
    /\ file["executor"].n <= MaxTrades /\ tmp["executor"].n <= MaxTrades
    /\ pc["collector"] = "boot" => snapshot["collector"] <= MaxTrades

\* While a save is under way its copy is no newer than the memory, and the temporary
\* file that is about to be renamed holds all of the copy.
SaveInHand ==
    \A s \in Disk!Stores :
        /\ pc[s] \in {"write", "rename"} => snapshot[s] <= mem[s]
        /\ pc[s] = "rename" => tmp[s] = Disk!Whole(snapshot[s])

\* Only the collector copies a file in place, and only over one with nothing in it.
BootIsFresh ==
    /\ pc["executor"] # "boot"
    /\ pc["collector"] = "boot" => saved["collector"] = 0

DiskInv ==
    /\ Disk!TypeOK /\ DiskBounds /\ SaveInHand /\ BootIsFresh
    /\ Disk!SavedSurvives /\ Disk!MemoryAhead

\* The bounds of StatsFile are numbers.
LEMMA DiskConstants ==
  MaxTrades \in Nat /\ MaxCrashes \in Nat /\ MaxWriteFaults \in Nat
BY MCStatsAssumption DEF Disk!ConstantsOK

\* What a file can hold; one that was written completely and counts something is
\* not taken for an empty one.
LEMMA ContentFacts ==
  /\ \A c \in Disk!Contents :
        /\ c.n \in 0..(2 * MaxTrades) /\ c.whole \in BOOLEAN /\ c.bytes \in BOOLEAN
        /\ c.whole /\ c.n > 0 => c.bytes
        /\ ~c.whole => c.n = 0
  /\ \A n \in 0..(2 * MaxTrades) :
        /\ Disk!Whole(n) \in Disk!Contents
        /\ Disk!Whole(n).whole /\ Disk!Whole(n).n = n
  /\ Disk!Missing \in Disk!Contents /\ ~Disk!Missing.whole /\ Disk!Missing.n = 0
  /\ Disk!Torn \in Disk!Contents /\ ~Disk!Torn.whole /\ Disk!Torn.n = 0
<1> USE DiskConstants DEF Disk!Contents, Disk!Missing, Disk!Torn, Disk!Whole
<1>1. ASSUME NEW c \in Disk!Contents
      PROVE  /\ c.n \in 0..(2 * MaxTrades) /\ c.whole \in BOOLEAN /\ c.bytes \in BOOLEAN
             /\ c.whole /\ c.n > 0 => c.bytes
             /\ ~c.whole => c.n = 0
  <2>1. \/ c = Disk!Missing \/ c = Disk!Torn
        \/ \E n \in 0..(2 * MaxTrades) : c = Disk!Whole(n)
    BY <1>1
  <2>2. CASE c = Disk!Missing BY <2>2
  <2>3. CASE c = Disk!Torn BY <2>3
  <2>4. ASSUME NEW n \in 0..(2 * MaxTrades), c = Disk!Whole(n)
        PROVE  /\ c.n \in 0..(2 * MaxTrades) /\ c.whole \in BOOLEAN /\ c.bytes \in BOOLEAN
               /\ c.whole /\ c.n > 0 => c.bytes
               /\ ~c.whole => c.n = 0
    <3>1. c.n = n /\ c.whole = TRUE /\ c.bytes = (n > 0) BY <2>4
    <3>2. (n > 0) \in BOOLEAN OBVIOUS
    <3>3. c.bytes \in BOOLEAN BY <3>1, <3>2, Zenon
    <3>4. n > 0 => c.bytes BY <3>1, Zenon
    <3>5. QED BY <3>1, <3>3, <3>4
  <2>5. QED BY <2>1, <2>2, <2>3, <2>4
<1>2. ASSUME NEW n \in 0..(2 * MaxTrades)
      PROVE  /\ Disk!Whole(n) \in Disk!Contents
             /\ Disk!Whole(n).whole /\ Disk!Whole(n).n = n
  OBVIOUS
<1>3. /\ Disk!Missing \in Disk!Contents /\ ~Disk!Missing.whole /\ Disk!Missing.n = 0
      /\ Disk!Torn \in Disk!Contents /\ ~Disk!Torn.whole /\ Disk!Torn.n = 0
  OBVIOUS
<1>4. QED BY <1>1, <1>2, <1>3

\* At first both programs are down and there are no files.
LEMMA DiskInit == Disk!Init => DiskInv
<1> SUFFICES ASSUME Disk!Init PROVE DiskInv
  OBVIOUS
<1> USE DiskConstants, ContentFacts DEF Disk!Init
<1>1. Disk!TypeOK
  <2>1. 0 \in 0..(2 * MaxTrades) /\ 0 \in 0..MaxCrashes /\ 0 \in 0..MaxWriteFaults
    OBVIOUS
  <2>2. QED BY <2>1 DEF Disk!TypeOK
<1>2. DiskBounds BY DEF DiskBounds, Disk!Stores
<1>3. SaveInHand /\ BootIsFresh /\ Disk!SavedSurvives /\ Disk!MemoryAhead
  BY DEF SaveInHand, BootIsFresh, Disk!SavedSurvives, Disk!MemoryAhead, Disk!Running, Disk!Stores
<1>4. QED BY <1>1, <1>2, <1>3 DEF DiskInv

\* A start loads a complete store, if there is one, or starts from nothing.
LEMMA StartStep ==
  ASSUME DiskInv, Disk!StartExecutor \/ Disk!StartCollector \/ Disk!Bootstrapped
  PROVE  DiskInv'
<1> USE DiskConstants, ContentFacts DEF DiskInv, Disk!Stores, Disk!Goto, Disk!Load
<1>1. CASE Disk!StartExecutor
  <2> USE <1>1 DEF Disk!StartExecutor
  <2>1. Disk!TypeOK' BY DEF Disk!TypeOK
  <2>2. DiskBounds' BY DEF Disk!TypeOK, DiskBounds
  <2>3. SaveInHand' /\ BootIsFresh' BY DEF Disk!TypeOK, SaveInHand, BootIsFresh
  <2>4. Disk!SavedSurvives' /\ Disk!MemoryAhead'
    BY DEF Disk!TypeOK, Disk!SavedSurvives, Disk!MemoryAhead, Disk!Running
  <2>5. QED BY <2>1, <2>2, <2>3, <2>4
<1>2. CASE Disk!StartCollector
  <2> USE <1>2 DEF Disk!StartCollector, Disk!WantsBootstrap
  <2>1. Disk!TypeOK' BY DEF Disk!TypeOK
  <2>2. DiskBounds' BY DEF Disk!TypeOK, DiskBounds
  <2>3. SaveInHand' /\ BootIsFresh'
    BY DEF Disk!TypeOK, SaveInHand, BootIsFresh, Disk!SavedSurvives
  <2>4. Disk!SavedSurvives' /\ Disk!MemoryAhead'
    BY DEF Disk!TypeOK, Disk!SavedSurvives, Disk!MemoryAhead, Disk!Running
  <2>5. QED BY <2>1, <2>2, <2>3, <2>4
<1>3. CASE Disk!Bootstrapped
  <2> USE <1>3 DEF Disk!Bootstrapped, Disk!Fault
  <2>1. Disk!TypeOK' BY DEF Disk!TypeOK
  <2>2. DiskBounds' BY DEF Disk!TypeOK, DiskBounds
  <2>3. SaveInHand' /\ BootIsFresh' BY DEF Disk!TypeOK, SaveInHand, BootIsFresh
  <2>4. Disk!SavedSurvives' /\ Disk!MemoryAhead'
    BY DEF Disk!TypeOK, BootIsFresh, Disk!SavedSurvives, Disk!MemoryAhead, Disk!Running
  <2>5. QED BY <2>1, <2>2, <2>3, <2>4
<1>4. QED BY <1>1, <1>2, <1>3

\* A trade makes the memory newer, and a copy is taken of all of it.
LEMMA MemoryStep ==
  ASSUME DiskInv, NEW s \in Disk!Stores, Disk!RecordTrade(s) \/ Disk!Snapshot(s)
  PROVE  DiskInv'
<1> USE DiskConstants, ContentFacts DEF DiskInv, Disk!Stores, Disk!Goto
<1>1. CASE Disk!RecordTrade(s)
  <2> USE <1>1 DEF Disk!RecordTrade, Disk!Running
  <2>1. Disk!TypeOK' BY DEF Disk!TypeOK, DiskBounds
  <2>2. DiskBounds' BY DEF Disk!TypeOK, DiskBounds
  <2>3. SaveInHand' /\ BootIsFresh' BY DEF Disk!TypeOK, SaveInHand, BootIsFresh
  <2>4. Disk!SavedSurvives' /\ Disk!MemoryAhead'
    BY DEF Disk!TypeOK, Disk!SavedSurvives, Disk!MemoryAhead
  <2>5. QED BY <2>1, <2>2, <2>3, <2>4
<1>2. CASE Disk!Snapshot(s)
  <2> USE <1>2 DEF Disk!Snapshot
  <2>1. Disk!TypeOK' BY DEF Disk!TypeOK
  <2>2. DiskBounds' BY DEF Disk!TypeOK, DiskBounds
  <2>3. SaveInHand' /\ BootIsFresh' BY DEF Disk!TypeOK, SaveInHand, BootIsFresh
  <2>4. Disk!SavedSurvives' /\ Disk!MemoryAhead'
    BY DEF Disk!TypeOK, Disk!SavedSurvives, Disk!MemoryAhead, Disk!Running
  <2>5. QED BY <2>1, <2>2, <2>3, <2>4
<1>3. QED BY <1>1, <1>2

\* A save reaches the file only through the rename of a complete copy.
LEMMA SaveStep ==
  ASSUME DiskInv, NEW s \in Disk!Stores, Disk!WriteTmp(s) \/ Disk!Rename(s)
  PROVE  DiskInv'
<1> USE DiskConstants, ContentFacts DEF DiskInv, Disk!Stores, Disk!Goto, Disk!Fault
<1>1. CASE Disk!WriteTmp(s)
  <2> USE <1>1 DEF Disk!WriteTmp
  <2>1. Disk!TypeOK' BY DEF Disk!TypeOK
  <2>2. DiskBounds' BY DEF Disk!TypeOK, DiskBounds
  <2>3. SaveInHand' /\ BootIsFresh' BY DEF Disk!TypeOK, SaveInHand, BootIsFresh
  <2>4. Disk!SavedSurvives' /\ Disk!MemoryAhead'
    BY DEF Disk!TypeOK, Disk!SavedSurvives, Disk!MemoryAhead, Disk!Running
  <2>5. QED BY <2>1, <2>2, <2>3, <2>4
<1>2. CASE Disk!Rename(s)
  <2> USE <1>2 DEF Disk!Rename
  <2>1. Disk!TypeOK' BY DEF Disk!TypeOK
  <2>2. DiskBounds' BY DEF Disk!TypeOK, DiskBounds, SaveInHand
  <2>3. SaveInHand' /\ BootIsFresh' BY DEF Disk!TypeOK, SaveInHand, BootIsFresh
  <2>4. Disk!SavedSurvives' /\ Disk!MemoryAhead'
    BY DEF Disk!TypeOK, SaveInHand, Disk!SavedSurvives, Disk!MemoryAhead, Disk!Running
  <2>5. QED BY <2>1, <2>2, <2>3, <2>4
<1>3. QED BY <1>1, <1>2

\* A crash loses the memory and no file.
LEMMA CrashStep ==
  ASSUME DiskInv, NEW s \in Disk!Stores, Disk!Crash(s)
  PROVE  DiskInv'
<1> USE DiskConstants, ContentFacts DEF DiskInv, Disk!Stores, Disk!Goto, Disk!Crash
<1>1. Disk!TypeOK' BY DEF Disk!TypeOK
<1>2. DiskBounds' BY DEF Disk!TypeOK, DiskBounds
<1>3. SaveInHand' /\ BootIsFresh' BY DEF Disk!TypeOK, SaveInHand, BootIsFresh
<1>4. Disk!SavedSurvives' /\ Disk!MemoryAhead'
  BY DEF Disk!TypeOK, Disk!SavedSurvives, Disk!MemoryAhead, Disk!Running
<1>5. QED BY <1>1, <1>2, <1>3, <1>4

\* Every step of the save, every crash and every failed write keeps the invariant.
LEMMA DiskStep == DiskInv /\ [Disk!Next]_diskVars => DiskInv'
<1>1. DiskInv /\ UNCHANGED diskVars => DiskInv'
  BY DEF diskVars, DiskInv, Disk!TypeOK, DiskBounds, SaveInHand, BootIsFresh,
         Disk!SavedSurvives, Disk!MemoryAhead, Disk!Running
<1>2. DiskInv /\ Disk!Next => DiskInv'
  BY StartStep, MemoryStep, SaveStep, CrashStep DEF Disk!Next
<1>3. QED BY <1>1, <1>2

-----------------------------------------------------------------------------
(* Fill reports on their way into the statistics                           *)

Entry(p) == [action |-> "entry", position |-> p]
Exit(p) == [action |-> "exit", position |-> p]

\* The reports of a position are sent once and in order: its entry when it opens,
\* its exit when it has closed, which is recorded as a trade only when received.
ReportsInOrder ==
    \A p \in Positions :
        /\ \A i \in DOMAIN channel : channel[i] = Entry(p) => stage[p] # "new"
        /\ \A i \in DOMAIN channel : channel[i] = Exit(p) => stage[p] = "closed"
        /\ \A i, j \in DOMAIN channel :
              channel[i] = Exit(p) /\ channel[j] = Exit(p) => i = j
        /\ \A i, j \in DOMAIN channel :
              channel[i] = Entry(p) /\ channel[j] = Exit(p) => i < j

\* A trade of a position is the end of its reports.
RecordedIsOver ==
    \A i \in DOMAIN trades :
        /\ stage[trades[i][2]] = "closed"
        /\ \A j \in DOMAIN channel : channel[j] # Exit(trades[i][2])

\* Nothing is forgotten of a position whose entry is still on its way.
Remembered(p) ==
    \/ stage[p] \in {"open", "closing"}
    \/ Live!InChannel("exit", p)
    \/ p \in missed \union silent

Awaited(p) == Live!InChannel("entry", p) \/ \E e \in pending : e.position = p

EntriesRemembered == \A p \in Positions : Awaited(p) => Remembered(p)

LiveInv ==
    /\ Live!TypeOK /\ ReportsInOrder /\ RecordedIsOver /\ EntriesRemembered
    /\ Live!TradesPaired

\* The bounds of LiveStats are numbers.
LEMMA LiveConstants ==
  Capacity \in Nat \ {0} /\ MaxPending \in Nat /\ MaxRestarts \in Nat
BY MCStatsAssumption DEF Live!ConstantsOK

\* What is left of the channel once its head has been taken.
LEMMA TailFacts ==
  ASSUME Live!TypeOK, channel # <<>>
  PROVE  /\ Head(channel) \in Live!Reports /\ Head(channel) = channel[1]
         /\ 1 \in DOMAIN channel
         /\ Tail(channel) \in Seq(Live!Reports) /\ Len(Tail(channel)) <= Capacity
         /\ \A i \in DOMAIN Tail(channel) :
               /\ i \in Nat \ {0}
               /\ i + 1 \in DOMAIN channel /\ Tail(channel)[i] = channel[i + 1]
         /\ \A i \in DOMAIN channel : i # 1 =>
               i - 1 \in DOMAIN Tail(channel) /\ Tail(channel)[i - 1] = channel[i]
BY LiveConstants DEF Live!TypeOK

\* What a report adds to the channel, if it is not refused.
LEMMA AppendFacts ==
  ASSUME Live!TypeOK, Len(channel) < Capacity, NEW r \in Live!Reports
  PROVE  LET c == Append(channel, r) IN
         /\ c \in Seq(Live!Reports) /\ Len(c) <= Capacity
         /\ DOMAIN c = (DOMAIN channel) \union {Len(channel) + 1}
         /\ \A i \in DOMAIN channel : c[i] = channel[i] /\ i < Len(channel) + 1
         /\ c[Len(channel) + 1] = r
BY LiveConstants DEF Live!TypeOK

\* Nothing was reported at first.
LEMMA LiveInit == Live!Init => LiveInv
<1> SUFFICES ASSUME Live!Init PROVE LiveInv
  OBVIOUS
<1>1. DOMAIN channel = {} /\ DOMAIN trades = {} BY DEF Live!Init
<1>2. Live!TypeOK BY LiveConstants DEF Live!Init, Live!TypeOK
<1>3. QED
  BY <1>1, <1>2 DEF Live!Init, LiveInv, ReportsInOrder, RecordedIsOver,
     EntriesRemembered, Awaited, Live!InChannel, Live!TradesPaired

\* Reports of two positions, and the entry and the exit of one, are different.
LEMMA ReportShapes ==
  \A p, q \in Positions :
      /\ Entry(p) \in Live!Reports /\ Exit(p) \in Live!Reports
      /\ Entry(p) # Exit(q)
      /\ Entry(p) = Entry(q) => p = q
      /\ Exit(p) = Exit(q) => p = q
BY DEF Entry, Exit, Live!Reports

\* A report that is published, or refused, with the new stage of its position.
LEMMA OpenStep ==
  ASSUME LiveInv, NEW p \in Positions, Live!Open(p) PROVE LiveInv'
<1> USE LiveConstants, ReportShapes DEF LiveInv, Live!Open
<1>1. /\ \A q \in Positions : q # p => stage'[q] = stage[q]
      /\ stage[p] = "new" /\ stage'[p] = "open"
      /\ UNCHANGED <<pending, trades, silent, restarts>>
      /\ stage' \in [Positions -> {"new", "open", "closing", "closed"}]
  BY DEF Live!TypeOK
<1>2. CASE UNCHANGED channel /\ missed' = missed \union {p}
  <2>1. Live!TypeOK' BY <1>1, <1>2 DEF Live!TypeOK
  <2>2. ReportsInOrder' BY <1>1, <1>2 DEF ReportsInOrder
  <2>3. RecordedIsOver' BY <1>1, <1>2 DEF RecordedIsOver, Live!TypeOK
  <2>4. EntriesRemembered'
    BY <1>1, <1>2 DEF EntriesRemembered, Awaited, Remembered, Live!InChannel
  <2>5. Live!TradesPaired' BY <1>1 DEF Live!TradesPaired
  <2>6. QED BY <2>1, <2>2, <2>3, <2>4, <2>5
<1>3. CASE /\ Len(channel) < Capacity
           /\ channel' = Append(channel, Entry(p)) /\ UNCHANGED missed
  <2> USE <1>1, <1>3, AppendFacts
  <2>1. Live!TypeOK' BY DEF Live!TypeOK
  <2>2. ReportsInOrder' BY DEF ReportsInOrder
  <2>3. RecordedIsOver' BY DEF RecordedIsOver, Live!TypeOK
  <2>4. EntriesRemembered'
    <3>1. \A q \in Positions : Remembered(q) => Remembered(q)'
      BY DEF Remembered, Live!InChannel
    <3>2. Remembered(p)' BY DEF Remembered
    <3>3. \A q \in Positions : Awaited(q)' => q = p \/ Awaited(q)
      BY DEF Awaited, Live!InChannel, Entry
    <3>4. QED BY <3>1, <3>2, <3>3 DEF EntriesRemembered
  <2>5. Live!TradesPaired' BY DEF Live!TradesPaired
  <2>6. QED BY <2>1, <2>2, <2>3, <2>4, <2>5
<1>4. QED BY <1>2, <1>3 DEF Live!Publish, Entry

\* The report of an exit comes after the report of its entry.
LEMMA ReportStep ==
  ASSUME LiveInv, NEW p \in Positions, Live!Report(p) PROVE LiveInv'
<1> USE LiveConstants, ReportShapes DEF LiveInv, Live!Report
<1>1. /\ \A q \in Positions : q # p => stage'[q] = stage[q]
      /\ stage[p] = "closing" /\ stage'[p] = "closed"
      /\ UNCHANGED <<pending, trades, silent, restarts>>
      /\ stage' \in [Positions -> {"new", "open", "closing", "closed"}]
  BY DEF Live!TypeOK
<1>2. CASE UNCHANGED channel /\ missed' = missed \union {p}
  <2>1. Live!TypeOK' BY <1>1, <1>2 DEF Live!TypeOK
  <2>2. ReportsInOrder' BY <1>1, <1>2 DEF ReportsInOrder
  <2>3. RecordedIsOver' BY <1>1, <1>2 DEF RecordedIsOver, Live!TypeOK
  <2>4. EntriesRemembered'
    BY <1>1, <1>2 DEF EntriesRemembered, Awaited, Remembered, Live!InChannel
  <2>5. Live!TradesPaired' BY <1>1 DEF Live!TradesPaired
  <2>6. QED BY <2>1, <2>2, <2>3, <2>4, <2>5
<1>3. CASE /\ Len(channel) < Capacity
           /\ channel' = Append(channel, Exit(p)) /\ UNCHANGED missed
  <2> USE <1>1, <1>3, AppendFacts
  <2>1. Live!TypeOK' BY DEF Live!TypeOK
  <2>2. ReportsInOrder' BY DEF ReportsInOrder
  <2>3. RecordedIsOver' BY DEF RecordedIsOver, Live!TypeOK
  <2>4. EntriesRemembered'
    <3>0. Live!InChannel("exit", p)' BY DEF Live!InChannel, Exit
    <3>1. \A q \in Positions : Remembered(q) => Remembered(q)'
      BY <3>0 DEF Remembered, Live!InChannel
    <3>2. \A q \in Positions : Awaited(q)' => Awaited(q)
      BY DEF Awaited, Live!InChannel, Exit
    <3>3. QED BY <3>1, <3>2 DEF EntriesRemembered
  <2>5. Live!TradesPaired' BY DEF Live!TradesPaired
  <2>6. QED BY <2>1, <2>2, <2>3, <2>4, <2>5
<1>4. QED BY <1>2, <1>3 DEF Live!Publish, Exit

\* The stage of an open position moves on without a report.
LEMMA CloseStep ==
  ASSUME LiveInv, NEW p \in Positions, Live!Close(p) \/ Live!ForceClose(p)
  PROVE  LiveInv'
<1> USE LiveConstants DEF LiveInv, Live!Close, Live!ForceClose
<1>1. Live!TypeOK' BY DEF Live!TypeOK
<1>2. ReportsInOrder' BY DEF ReportsInOrder, Live!TypeOK
<1>3. RecordedIsOver' BY DEF RecordedIsOver, Live!TypeOK
<1>4. EntriesRemembered'
  BY DEF EntriesRemembered, Awaited, Remembered, Live!InChannel, Live!TypeOK
<1>5. Live!TradesPaired' BY DEF Live!TradesPaired
<1>6. QED BY <1>1, <1>2, <1>3, <1>4, <1>5

\* Taking the head of the channel keeps the order of the rest, and of a position
\* whose exit was the head nothing is left behind it.
LEMMA RestInOrder ==
  ASSUME LiveInv, channel # <<>>, channel' = Tail(channel), UNCHANGED stage
  PROVE  /\ ReportsInOrder'
         /\ \A p \in Positions : Head(channel) = Exit(p) =>
               \A j \in DOMAIN channel' : channel'[j] # Exit(p) /\ channel'[j] # Entry(p)
         /\ \A a \in {"entry", "exit"}, p \in Positions :
               Live!InChannel(a, p) =>
                   Head(channel) = [action |-> a, position |-> p] \/ Live!InChannel(a, p)'
         /\ \A a \in {"entry", "exit"}, p \in Positions :
               Live!InChannel(a, p)' => Live!InChannel(a, p)
<1> USE TailFacts DEF LiveInv
<1>1. ReportsInOrder' BY DEF ReportsInOrder
<1>2. ASSUME NEW p \in Positions, Head(channel) = Exit(p), NEW j \in DOMAIN channel'
      PROVE  channel'[j] # Exit(p) /\ channel'[j] # Entry(p)
  BY <1>2 DEF ReportsInOrder
<1>3. ASSUME NEW a \in {"entry", "exit"}, NEW p \in Positions, Live!InChannel(a, p)
      PROVE  Head(channel) = [action |-> a, position |-> p] \/ Live!InChannel(a, p)'
  BY <1>3 DEF Live!InChannel
<1>4. ASSUME NEW a \in {"entry", "exit"}, NEW p \in Positions, Live!InChannel(a, p)'
      PROVE  Live!InChannel(a, p)
  BY <1>4 DEF Live!InChannel
<1>5. QED BY <1>1, <1>2, <1>3, <1>4

\* A subscriber that lags behind loses the oldest report and no order.
LEMMA LagStep == LiveInv /\ Live!Lag => LiveInv'
<1> SUFFICES ASSUME LiveInv, Live!Lag PROVE LiveInv'
  OBVIOUS
<1> USE LiveConstants, TailFacts, RestInOrder DEF LiveInv, Live!Lag
<1>1. Live!TypeOK' BY DEF Live!TypeOK, Live!Reports
<1>2. ReportsInOrder' OBVIOUS
<1>3. RecordedIsOver' BY DEF RecordedIsOver
<1>4. EntriesRemembered'
  <2>1. \A q \in Positions : Remembered(q) => Remembered(q)'
    BY DEF Remembered
  <2>2. \A q \in Positions : Awaited(q)' => Awaited(q)
    BY DEF Awaited
  <2>3. QED BY <2>1, <2>2 DEF EntriesRemembered
<1>5. Live!TradesPaired' BY DEF Live!TradesPaired
<1>6. QED BY <1>1, <1>2, <1>3, <1>4, <1>5

\* The consumer takes an entry report: it replaces what the key held.
LEMMA ConsumeEntryStep ==
  ASSUME LiveInv, Live!Consume, Head(channel).action = "entry"
  PROVE  LiveInv'
<1> USE LiveConstants, TailFacts DEF LiveInv
<1>0. PICK p \in Positions : p = Head(channel).position
  BY DEF Live!Consume, Live!Reports
<1>1. /\ channel # <<>> /\ channel' = Tail(channel)
      /\ UNCHANGED <<stage, trades, missed, silent, restarts>>
      /\ Head(channel) = Entry(p)
      /\ pending' = (pending \ Live!EntryOf(p)) \union {[key |-> p, position |-> p]}
  BY <1>0 DEF Live!Consume, Live!HandleEntry, Live!Key, Live!Reports, Entry
<1>2. Live!TypeOK' BY <1>1 DEF Live!TypeOK, Live!Key
<1>3. ReportsInOrder' BY <1>1, RestInOrder
<1>4. RecordedIsOver' BY <1>1 DEF RecordedIsOver
<1>5. EntriesRemembered'
  <2>1. \A q \in Positions : Remembered(q) => Remembered(q)'
    BY <1>1, RestInOrder DEF Remembered, Entry
  <2>2. Awaited(p) BY <1>1 DEF Awaited, Live!InChannel, Entry
  <2>3. \A q \in Positions : Awaited(q)' => q = p \/ Awaited(q)
    BY <1>1, RestInOrder DEF Awaited
  <2>4. QED BY <1>1, <2>1, <2>2, <2>3 DEF EntriesRemembered
<1>6. Live!TradesPaired' BY <1>1 DEF Live!TradesPaired
<1>7. QED BY <1>2, <1>3, <1>4, <1>5, <1>6

\* A trade is recorded behind the others.
LEMMA TradeAppended ==
  ASSUME Live!TypeOK, NEW p \in Positions, trades' = Append(trades, <<p, p>>)
  PROVE  \E n : /\ DOMAIN trades' = (DOMAIN trades) \union {n} /\ n \notin DOMAIN trades
                /\ \A i \in DOMAIN trades : trades'[i] = trades[i]
                /\ trades'[n] = <<p, p>> /\ trades'[n][1] = p /\ trades'[n][2] = p
<1>1. trades \in Seq(Positions \X Positions) BY DEF Live!TypeOK
<1>2. DOMAIN trades' = (DOMAIN trades) \union {Len(trades) + 1}
  BY <1>1
<1>3. \A i \in DOMAIN trades : trades'[i] = trades[i] BY <1>1
<1>4. trades'[Len(trades) + 1] = <<p, p>> BY <1>1
<1>5. Len(trades) + 1 \notin DOMAIN trades BY <1>1
<1>6. QED BY <1>2, <1>3, <1>4, <1>5

\* The consumer takes an exit report: what it records is of this position, because
\* the key is the position, and new, because the exit was sent once.
LEMMA ConsumeExitStep ==
  ASSUME LiveInv, Live!Consume, Head(channel).action = "exit"
  PROVE  LiveInv'
<1> USE LiveConstants, TailFacts DEF LiveInv
<1>0. PICK p \in Positions : p = Head(channel).position
  BY DEF Live!Consume, Live!Reports
<1>1. /\ channel # <<>> /\ channel' = Tail(channel)
      /\ UNCHANGED <<stage, missed, silent, restarts>>
      /\ Head(channel) = Exit(p)
      /\ pending' = pending \ Live!EntryOf(p)
      /\ trades' = IF Live!EntryOf(p) = {} THEN trades
                   ELSE Append(trades,
                               <<(CHOOSE e \in Live!EntryOf(p) : TRUE).position, p>>)
  BY <1>0 DEF Live!Consume, Live!HandleExit, Live!Key, Live!Reports, Exit
<1>2. \A e \in Live!EntryOf(p) : e.position = p
  BY DEF Live!EntryOf, Live!TypeOK, Live!Key
<1>3. trades' = trades \/ trades' = Append(trades, <<p, p>>)
  <2>1. CASE Live!EntryOf(p) = {} BY <1>1, <2>1
  <2>2. CASE Live!EntryOf(p) # {}
    <3>1. (CHOOSE e \in Live!EntryOf(p) : TRUE) \in Live!EntryOf(p) BY <2>2
    <3>2. QED BY <1>1, <1>2, <2>2, <3>1
  <2>3. QED BY <2>1, <2>2
<1>4. /\ stage[p] = "closed"
      /\ \A i \in DOMAIN trades : trades[i] # <<p, p>>
  BY <1>1 DEF ReportsInOrder, RecordedIsOver
<1>5. Live!TypeOK' BY <1>1, <1>3 DEF Live!TypeOK
<1>6. ReportsInOrder' BY <1>1, RestInOrder
<1>7. Live!TradesPaired'
  <2>1. CASE trades' = trades BY <2>1 DEF Live!TradesPaired
  <2>2. CASE trades' = Append(trades, <<p, p>>)
    <3>1. PICK n : /\ DOMAIN trades' = (DOMAIN trades) \union {n}
                   /\ n \notin DOMAIN trades
                   /\ \A i \in DOMAIN trades : trades'[i] = trades[i]
                   /\ trades'[n] = <<p, p>>
      BY <2>2, TradeAppended
    <3>2. \A i \in DOMAIN trades' : trades'[i][1] = trades'[i][2]
      BY <3>1 DEF Live!TradesPaired
    <3>3. ASSUME NEW i \in DOMAIN trades', NEW j \in DOMAIN trades', trades'[i] = trades'[j]
          PROVE  i = j
      <4>1. CASE i \in DOMAIN trades /\ j \in DOMAIN trades
        BY <3>1, <3>3, <4>1 DEF Live!TradesPaired
      <4>2. CASE i = n /\ j = n BY <4>2
      <4>3. ~(i = n /\ j \in DOMAIN trades) /\ ~(j = n /\ i \in DOMAIN trades)
        BY <1>4, <3>1, <3>3, Zenon
      <4>4. QED BY <3>1, <4>1, <4>2, <4>3
    <3>4. QED BY <3>2, <3>3 DEF Live!TradesPaired
  <2>3. QED BY <1>3, <2>1, <2>2
<1>8. RecordedIsOver'
  <2>1. \A j \in DOMAIN channel' : channel'[j] # Exit(p) BY <1>1, RestInOrder
  <2>2. \A i \in DOMAIN trades : \A j \in DOMAIN channel' :
            channel'[j] # Exit(trades[i][2])
    BY <1>1 DEF RecordedIsOver
  <2>3. CASE trades' = trades BY <1>1, <2>2, <2>3 DEF RecordedIsOver
  <2>4. CASE trades' = Append(trades, <<p, p>>)
    BY <1>1, <1>4, <2>1, <2>2, <2>4, TradeAppended DEF RecordedIsOver
  <2>5. QED BY <1>3, <2>3, <2>4
<1>9. EntriesRemembered'
  <2>1. \A q \in Positions : q # p /\ Remembered(q) => Remembered(q)'
    BY <1>1, RestInOrder, ReportShapes DEF Remembered, Exit
  <2>2. ~Awaited(p)'
    <3>1. ~Live!InChannel("entry", p)'
      BY <1>1, RestInOrder DEF Live!InChannel, Entry
    <3>2. \A e \in pending' : e.position # p
      BY <1>1 DEF Live!EntryOf, Live!TypeOK, Live!Key
    <3>3. QED BY <3>1, <3>2 DEF Awaited
  <2>3. \A q \in Positions : Awaited(q)' => Awaited(q)
    BY <1>1, RestInOrder DEF Awaited
  <2>4. QED BY <2>1, <2>2, <2>3 DEF EntriesRemembered
<1>10. QED BY <1>5, <1>6, <1>7, <1>8, <1>9

\* The clean-up and a restart forget entries, and note that they did.
LEMMA ForgetStep ==
  ASSUME LiveInv, Live!Gc \/ Live!RestartCollector PROVE LiveInv'
<1> USE LiveConstants DEF LiveInv
<1>1. CASE Live!Gc
  <2> USE <1>1 DEF Live!Gc
  <2>1. Live!TypeOK' BY DEF Live!TypeOK
  <2>2. ReportsInOrder' /\ RecordedIsOver' /\ Live!TradesPaired'
    BY DEF ReportsInOrder, RecordedIsOver, Live!TradesPaired
  <2>3. EntriesRemembered'
    BY DEF EntriesRemembered, Awaited, Remembered, Live!InChannel
  <2>4. QED BY <2>1, <2>2, <2>3
<1>2. CASE Live!RestartCollector
  <2> USE <1>2 DEF Live!RestartCollector
  <2>0. DOMAIN channel' = {} /\ pending' = {} OBVIOUS
  <2>1. Live!TypeOK'
    <3>1. \A i \in DOMAIN channel : channel[i].position \in Positions
      <4>1. \A i \in DOMAIN channel : channel[i] \in Live!Reports
        BY DEF Live!TypeOK
      <4>2. QED BY <4>1 DEF Live!Reports
    <3>2. missed' \subseteq Positions BY <3>1 DEF Live!TypeOK
    <3>3. QED BY <3>2 DEF Live!TypeOK
  <2>2. ReportsInOrder' /\ RecordedIsOver' /\ Live!TradesPaired'
    BY <2>0 DEF ReportsInOrder, RecordedIsOver, Live!TradesPaired
  <2>3. EntriesRemembered'
    BY <2>0 DEF EntriesRemembered, Awaited, Live!InChannel
  <2>4. QED BY <2>1, <2>2, <2>3
<1>3. QED BY <1>1, <1>2

\* Every step from the executor's report to the collector's record keeps the invariant.
LEMMA LiveStep == LiveInv /\ [Live!Next]_liveVars => LiveInv'
<1> SUFFICES ASSUME LiveInv, [Live!Next]_liveVars PROVE LiveInv'
  OBVIOUS
<1>1. CASE UNCHANGED liveVars
  BY <1>1 DEF liveVars, LiveInv, Live!TypeOK, ReportsInOrder, RecordedIsOver,
     EntriesRemembered, Awaited, Remembered, Live!InChannel, Live!TradesPaired
<1>2. CASE Live!Consume
  <2>1. Head(channel).action \in {"entry", "exit"}
    BY <1>2, TailFacts DEF Live!Consume, Live!Reports, LiveInv
  <2>2. QED BY <1>2, <2>1, ConsumeEntryStep, ConsumeExitStep
<1>3. QED
  BY <1>1, <1>2, OpenStep, CloseStep, ReportStep, LagStep, ForgetStep DEF Live!Next

\* An entry in the pending map still has its exit before it.
LEMMA NothingForgotten == LiveInv => Live!NoForgottenEntry
BY DEF LiveInv, Live!NoForgottenEntry, EntriesRemembered, Awaited, Remembered,
       Live!TypeOK

-----------------------------------------------------------------------------
(* The three together                                                      *)

StatsInv ==
    /\ focus = "orders" => RetriesInv
    /\ focus = "fills" => LiveInv
    /\ focus = "disk" => DiskInv

\* Every reachable state of the three components satisfies the invariant.
LEMMA StatsInvCorrect == StatsSpec => []StatsInv
<1>1. StatsInit => StatsInv
  BY RetriesInit, LiveInit, DiskInit DEF StatsInit, StatsInv
<1>2. StatsInv /\ [StatsNext]_statsVars => StatsInv'
  <2> SUFFICES ASSUME StatsInv, [StatsNext]_statsVars PROVE StatsInv'
    OBVIOUS
  <2>1. /\ UNCHANGED focus
        /\ focus = "orders" => [Stale!Next]_orderVars
        /\ focus = "fills" => [Live!Next]_liveVars
        /\ focus = "disk" => [Disk!Next]_diskVars
    BY DEF StatsNext, statsVars
  <2>2. QED BY <2>1, RetriesStep, LiveStep, DiskStep DEF StatsInv
<1>3. QED BY <1>1, <1>2, PTL DEF StatsSpec

\* The maps, the channel, the files and the counters keep their types.
THEOREM TypesCorrect == StatsSpec => []TypesOK
<1>1. StatsInv => TypesOK BY DEF StatsInv, TypesOK, RetriesInv, LiveInv, DiskInv
<1>2. QED BY <1>1, StatsInvCorrect, PTL

\* "Bounded retry": a stuck order costs at most MaxRetries cancels and one for each
\* task that was in flight, for any number of orders, tasks and retries.
THEOREM RetriesBoundedCorrect == StatsSpec => []RetriesBounded
<1>1. StatsInv => RetriesBounded BY DEF StatsInv, RetriesBounded, RetriesInv
<1>2. QED BY <1>1, StatsInvCorrect, PTL

\* Whatever reports are lost, whichever process restarts: a recorded trade joins
\* the entry and the exit of one position of one account, and is recorded once.
THEOREM TradesPairedCorrect == StatsSpec => []TradesPaired
<1>1. StatsInv => TradesPaired BY DEF StatsInv, TradesPaired, LiveInv
<1>2. QED BY <1>1, StatsInvCorrect, PTL

\* An entry that waits for its exit report waits for one that is still to come, or
\* its position was closed in silence, or a report of it was lost.
THEOREM NoForgottenEntryCorrect == StatsSpec => []NoForgottenEntry
<1>1. StatsInv => NoForgottenEntry
  BY NothingForgotten DEF StatsInv, NoForgottenEntry
<1>2. QED BY <1>1, StatsInvCorrect, PTL

\* What a save put on disk survives every crash, every failed write and the copy
\* that the collector makes of the executor's file; and no save goes backwards.
THEOREM SavedSurvivesCorrect == StatsSpec => []SavedSurvives
<1>1. StatsInv => SavedSurvives BY DEF StatsInv, SavedSurvives, DiskInv
<1>2. QED BY <1>1, StatsInvCorrect, PTL

=============================================================================
