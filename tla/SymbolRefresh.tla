----------------------------- MODULE SymbolRefresh -----------------------------
(* Which symbols flipster_rust watches (runner.rs): those of the configurations *)
(* and those it holds positions in, collected at the start and again whenever   *)
(* the configurations change, while the strategy goes on trading.  A position   *)
(* in a symbol that is not watched is not closed by the strategy.               *)
EXTENDS Integers, FiniteSets

CONSTANTS
  Logins, Symbols,
  Offers,        \* the configurations: sets of pairs of login and symbol
  MaxChanges,    \* bound: refreshes that find a change
  MaxOpens       \* bound: orders that open a position

VARIABLES
  config,        \* configs_shared
  managed,       \* accounts with a GateOrderManager
  symbols,       \* all_symbols_shared
  held,          \* pairs of account and symbol with a position
  flying,        \* orders under way
  todo,          \* accounts the refresh has still to look at
  next,          \* its next_symbols, or Nothing
  late,          \* fills that came after the refresh had looked (history)
  changes, opens

vars == <<config, managed, symbols, held, flying, todo, next, late, changes, opens>>

Nothing == {"nothing"}
OfLogin(pairs, l) == {s \in Symbols : <<l, s>> \in pairs}
collect_symbols(c) == {p[2] : p \in c}
Configured(c) == {p[1] : p \in c}
Idle == next = Nothing

ConstantsOK ==
  /\ \A o \in Offers : o # {} /\ o \subseteq Logins \X Symbols
  /\ Nothing \notin SUBSET Symbols

(* start: an account whose key or positions cannot be had is left out; the    *)
(* others add what they hold.                                                 *)
Init ==
  /\ config \in Offers
  /\ managed \in SUBSET Configured(config) \ {{}}
  /\ held \in SUBSET (Logins \X Symbols)
  /\ symbols = collect_symbols(config) \cup UNION {OfLogin(held, l) : l \in managed}
  /\ flying = {} /\ todo = {} /\ next = Nothing
  /\ late = {} /\ changes = 0 /\ opens = 0

-----------------------------------------------------------------------------
(* The refresh.  A failed, empty or unchanged load changes nothing.           *)

Load(new) ==
  /\ Idle /\ changes < MaxChanges /\ new # config
  /\ config' = new /\ changes' = changes + 1
  /\ next' = collect_symbols(new)
  /\ todo' = Configured(new)
  /\ UNCHANGED <<managed, symbols, held, flying, late, opens>>

(* Mutant: positions do not keep their symbols. *)
CollectNothing(l) ==
  /\ ~Idle /\ l \in todo
  /\ todo' = todo \ {l}
  /\ UNCHANGED <<config, managed, symbols, held, flying, next, late, changes, opens>>

Collect(l) ==
  /\ ~Idle /\ l \in todo
  /\ todo' = todo \ {l}
  /\ next' = IF l \in managed THEN next \cup OfLogin(held, l) ELSE next
  /\ UNCHANGED <<config, managed, symbols, held, flying, late, changes, opens>>

Write ==
  /\ ~Idle /\ todo = {}
  /\ symbols' = next /\ next' = Nothing
  /\ late' = {p \in late : p[2] \notin next}
  /\ UNCHANGED <<config, managed, held, flying, todo, changes, opens>>

-----------------------------------------------------------------------------
(* Trading.  The loop takes symbols and configurations at different moments.  *)

Open(l, s) ==
  /\ opens < MaxOpens /\ s \in symbols /\ <<l, s>> \in config
  /\ flying' = flying \cup {<<l, s>>} /\ opens' = opens + 1
  /\ UNCHANGED <<config, managed, symbols, held, todo, next, late, changes>>

Looked(l, s) == ~Idle /\ l \notin todo /\ s \notin next
Fill(l, s) ==
  /\ <<l, s>> \in flying
  /\ flying' = flying \ {<<l, s>>} /\ held' = held \cup {<<l, s>>}
  /\ late' = IF s \notin symbols \/ Looked(l, s) THEN late \cup {<<l, s>>} ELSE late
  /\ UNCHANGED <<config, managed, symbols, todo, next, changes, opens>>

Close(l, s) ==
  /\ <<l, s>> \in held /\ s \in symbols /\ l \in managed
  /\ held' = held \ {<<l, s>>} /\ late' = late \ {<<l, s>>}
  /\ UNCHANGED <<config, managed, symbols, flying, todo, next, changes, opens>>

Next ==
  \/ \E new \in Offers : Load(new)
  \/ \E l \in Logins : Collect(l)
  \/ Write
  \/ \E l \in Logins, s \in Symbols : Open(l, s) \/ Fill(l, s) \/ Close(l, s)

Spec == Init /\ [][Next]_vars

-----------------------------------------------------------------------------
TypeOK ==
  /\ config \in Offers /\ managed \subseteq Logins
  /\ symbols \subseteq Symbols /\ {held, flying, late} \subseteq SUBSET (Logins \X Symbols)
  /\ todo \subseteq Logins /\ (Idle \/ next \subseteq Symbols)

(* Between refreshes the strategy watches every symbol an account holds,       *)
(* except what filled after the refresh had looked at the account, and except  *)
(* accounts without a manager or without a configuration (runner.rs).          *)
HeldIsWatched ==
  Idle => \A l \in managed \cap Configured(config), s \in Symbols :
            <<l, s>> \in held \ late => s \in symbols
=============================================================================
