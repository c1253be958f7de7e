----------------------------- MODULE MCSilentClose -----------------------------
(***************************************************************************)
(* SpreadRevert on one base with room for one position, which is stopped   *)
(* or times out, and a baseline that may vanish.                           *)
(***************************************************************************)
EXTENDS SpreadRevert

OneBaseline == {[gap |-> 0, cost |-> 0]}
=============================================================================
