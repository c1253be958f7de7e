-------------------------------- MODULE PosId --------------------------------
(***************************************************************************)
(* Position identifiers: the collector's process-wide generator            *)
(* (pairs_core/src/pos_id.rs) across restarts, against the executor's      *)
(* never-collected (base, position_id) deduplication set                   *)
(* (executor/src/executor.rs, handle_event).                               *)
(*                                                                         *)
(* The generator is created lazily, by the first position the process      *)
(* opens, and seeded from the wall clock in nanoseconds.  Nothing is       *)
(* persisted: that a restarted collector never re-issues an identifier     *)
(* rests on the clock alone.                                               *)
(***************************************************************************)
EXTENDS Integers

CONSTANTS Bases,      \* base symbols
          Clock0,     \* wall clock (ns) when the first collector starts
          MaxClock,   \* bound: the wall clock stops here
          MaxRuns     \* bound: number of collector processes

ASSUME PosIdAssumption == Clock0 \in Nat \ {0} /\ MaxClock \in Nat /\ MaxRuns \in Nat

VARIABLES clock,      \* OS wall clock in nanoseconds (external)
          run,        \* which collector process is running (history only)
          gen,        \* PositionIdGen.next, or NoGen before the first global()
          issued,     \* every entry signal emitted by any collector (history)
          wire,       \* entry signals between the publisher and the executor
          seen,       \* Executor.seen_entries
          dropped     \* signals handle_event dropped as duplicates (history)

vars == <<clock, run, gen, issued, wire, seen, dropped>>

\* The OnceLock behind global() before anyone called it.
NoGen == -1

\* A signal, with the process that sent it; the executor sees Key(s) only.
Signals == [base : Bases, id : Nat, run : Nat]
Key(s) == <<s.base, s.id>>

Init ==
    /\ clock = Clock0
    /\ run = 0
    /\ gen = NoGen
    /\ issued = {}
    /\ wire = {}
    /\ seen = {}
    /\ dropped = {}

\* The NTP-synced clock moves forward.
Tick ==
    /\ clock < MaxClock
    /\ clock' = clock + 1
    /\ UNCHANGED <<run, gen, issued, wire, seen, dropped>>

\* Mutants of Seed: the counter that starts at 1 in every process, which the
\* header says the clock seed replaced; and a seed without its floor, taken
\* relative to a later epoch.
SeedFromOne(t) == 1
SeedNoFloor(t) == t - 2

\* PositionIdGen::new: unix nanos, never below 1.
Seed(t) == IF t < 1 THEN 1 ELSE t

\* global().next() in a strategy that opens a position: the generator is created
\* by the first call of the process, then every call is one fetch_add.  A call
\* takes at least a nanosecond, so identifiers are not handed out faster than
\* the clock runs.
NextId(b) ==
    /\ clock < MaxClock
    /\ clock' = clock + 1
    /\ LET id == IF gen = NoGen THEN Seed(clock) ELSE gen
           s  == [base |-> b, id |-> id, run |-> run]
       IN  /\ gen' = id + 1
           /\ issued' = issued \union {s}
           /\ wire' = wire \union {s}
    /\ UNCHANGED <<run, seen, dropped>>

\* The collector dies and is started again; its generator is gone.
RestartCollector ==
    /\ run < MaxRuns
    /\ run' = run + 1
    /\ gen' = NoGen
    /\ UNCHANGED <<clock, issued, wire, seen, dropped>>

\* handle_event, "entry": seen_entries.insert decides before every other filter.
HandleEntry(s) ==
    /\ s \in wire
    /\ wire' = wire \ {s}
    /\ seen' = seen \union {Key(s)}
    /\ dropped' = IF Key(s) \in seen THEN dropped \union {s} ELSE dropped
    /\ UNCHANGED <<clock, run, gen, issued>>

\* A PUB/SUB message has no delivery guarantee.
LoseEntry(s) ==
    /\ s \in wire
    /\ wire' = wire \ {s}
    /\ UNCHANGED <<clock, run, gen, issued, seen, dropped>>

\* A restarted executor starts with an empty deduplication set.
RestartExecutor ==
    /\ seen # {}
    /\ seen' = {}
    /\ UNCHANGED <<clock, run, gen, issued, wire, dropped>>

Next ==
    \/ Tick
    \/ \E b \in Bases : NextId(b)
    \/ RestartCollector
    \/ \E s \in wire : HandleEntry(s) \/ LoseEntry(s)
    \/ RestartExecutor

Spec == Init /\ [][Next]_vars

\* The state has the types of the code's fields.
TypeOK ==
    /\ clock \in Nat
    /\ run \in Nat
    /\ gen \in Nat \union {NoGen}
    /\ issued \subseteq Signals
    /\ wire \subseteq issued
    /\ seen \subseteq (Bases \X Nat)
    /\ dropped \subseteq issued

\* "so collisions cannot happen" (pos_id.rs header): no two positions opened by
\* any strategy of any collector process share an identifier.
IdsUnique ==
    \A s, t \in issued : s.id = t.id => s = t

\* The symptom the generator was written against: however the collector and the
\* executor restart, the executor never drops a signal as a duplicate.
NoFreshSignalDropped == dropped = {}
=============================================================================
