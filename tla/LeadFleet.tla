------------------------------ MODULE LeadFleet ------------------------------
(***************************************************************************)
(* Two of the collector's lead strategies in one process, as its main.rs   *)
(* spawns them: collector/src/hl_lead.rs (follower Hyperliquid) and        *)
(* collector/src/mexc_lead.rs (follower MEXC), copies of gate_lead.rs but  *)
(* for names and fees.  Each has its own state, lock, tick loop and        *)
(* sweeper, takes the leader's ticks off the same broadcast at its own     *)
(* pace, and may miss some.  They share the generator of position ids and  *)
(* the coordinator their signals go to.                                    *)
(***************************************************************************)
EXTENDS Integers

CONSTANTS Bases, Prices, Delays, StaleAfter, Backtest, MinMove, Anchor, HoldMax,
          ExitBp, StopBp, Cooldown, HalfWindow, FreshFor, MinLag, MaxVel, VelWindow,
          FlipKeep, Retrace, PreRevert, PreWindow, StopCooldown, Grace, HardBp,
          MaxPosId, MaxHistory, MaxFlips

VARIABLES
    hl_state, hl_closing, mexc_state, mexc_closing,
    next_id, entered, exits     \* shared

shared == <<next_id, entered, exits>>
hl == <<hl_state, hl_closing>>
mexc == <<mexc_state, mexc_closing>>
fleet == <<hl, mexc, shared>>

Hl == INSTANCE GateLead WITH state <- hl_state, closing <- hl_closing
Mexc == INSTANCE GateLead WITH state <- mexc_state, closing <- mexc_closing

Init == Hl!Init /\ Mexc!Init

HlOnLeader(b, mid, d) == Hl!OnLeader(b, mid, d) /\ UNCHANGED mexc
HlOnFollower(b, mid, d) == Hl!OnFollower(b, mid, d) /\ UNCHANGED mexc
HlSweepExits == Hl!SweepExits /\ UNCHANGED mexc
HlLogClose(t) == Hl!LogClose(t) /\ UNCHANGED mexc

MexcOnLeader(b, mid, d) == Mexc!OnLeader(b, mid, d) /\ UNCHANGED hl
MexcOnFollower(b, mid, d) == Mexc!OnFollower(b, mid, d) /\ UNCHANGED hl
MexcSweepExits == Mexc!SweepExits /\ UNCHANGED hl
MexcLogClose(t) == Mexc!LogClose(t) /\ UNCHANGED hl

Age ==
    /\ \A b \in Bases : ~Hl!Expired(b) /\ ~Mexc!Expired(b)
    /\ hl_closing["sweep"] = <<>> /\ mexc_closing["sweep"] = <<>>
    /\ hl_state' = [b \in Bases |-> Hl!Aged(hl_state[b])]
    /\ mexc_state' = [b \in Bases |-> Hl!Aged(mexc_state[b])]
    /\ <<hl_state', mexc_state'>> # <<hl_state, mexc_state>>
    /\ UNCHANGED <<hl_closing, mexc_closing, shared>>

Next ==
    \/ \E b \in Bases, mid \in Prices, d \in Delays :
          \/ HlOnLeader(b, mid, d) \/ HlOnFollower(b, mid, d)
          \/ MexcOnLeader(b, mid, d) \/ MexcOnFollower(b, mid, d)
    \/ HlSweepExits \/ MexcSweepExits
    \/ \E t \in Hl!Tasks : HlLogClose(t) \/ MexcLogClose(t)
    \/ Age

Spec == Init /\ [][Next]_fleet

Fairness ==
    /\ WF_fleet(Age) /\ WF_fleet(HlSweepExits) /\ WF_fleet(MexcSweepExits)
    /\ \A t \in Hl!Tasks : WF_fleet(HlLogClose(t)) /\ WF_fleet(MexcLogClose(t))

FairSpec == Spec /\ Fairness

\* The two together keep the one ledger: no id is used by both, and each exit is
\* sent by the strategy that entered.
Ledger == INSTANCE PaperLedger WITH Ids <- Hl!Ids
ImplementsLedger == Ledger!Spec

\* A position of one strategy is never in the hands of the other, in no stage.
Disjoint ==
    /\ Hl!OpenIds \intersect (Mexc!OpenIds \union Mexc!InClosing) = {}
    /\ Hl!InClosing \intersect (Mexc!OpenIds \union Mexc!InClosing) = {}
    /\ entered = Hl!OpenIds \union Hl!InClosing \union Mexc!OpenIds
                    \union Mexc!InClosing \union Hl!Exited

=============================================================================
