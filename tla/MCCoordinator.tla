--------------------------- MODULE MCCoordinator ---------------------------
(***************************************************************************)
(* Coordinator over a gain and a loss.                                     *)
(***************************************************************************)
EXTENDS Coordinator

TwoTrades ==
    {[pnl |-> 6, paper |-> 6, slip |-> 1], [pnl |-> -8, paper |-> 6, slip |-> 6]}

Loss == -2
OneDown == -1
=============================================================================
