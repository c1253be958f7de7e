----------------------------- MODULE PaperLedger -----------------------------
(***************************************************************************)
(* What a paper strategy promises the coordinator, and the executor behind *)
(* it: the entry of a position is signalled under an id of its own, its    *)
(* exit after that, once, and in the end.  The strategies of the collector *)
(* are shown to implement this.                                            *)
(***************************************************************************)
EXTENDS Naturals

CONSTANT Ids

VARIABLES
    entered,    \* ids whose entry was signalled
    exits       \* [Ids -> exits signalled]

ledger == <<entered, exits>>

Init == entered = {} /\ exits = [i \in Ids |-> 0]

Enter(i) ==
    /\ i \in Ids \ entered
    /\ entered' = entered \union {i}
    /\ UNCHANGED exits

Exit(i) ==
    /\ i \in entered
    /\ exits[i] = 0
    /\ exits' = [exits EXCEPT ![i] = 1]
    /\ UNCHANGED entered

Next == \E i \in Ids : Enter(i) \/ Exit(i)

Spec == Init /\ [][Next]_ledger

\* No entry is owed, every exit is.
ExitsOwed == \A i \in Ids : WF_ledger(Exit(i))

FairSpec == Spec /\ ExitsOwed

=============================================================================
