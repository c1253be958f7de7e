----------------------------- MODULE MCExecutor -----------------------------
(***************************************************************************)
(* Instances of Executor: one or two positions on one base symbol.         *)
(***************************************************************************)
EXTENDS Executor, TLC
CONSTANTS p1, p2, b1

OneBase == [p \in Pos |-> b1]

\* Positions of the same side on the same base are interchangeable.
PosSymmetry == Permutations(Pos)
=============================================================================
