---------------------------- MODULE SymbolStats ----------------------------
(***************************************************************************)
(* SymbolStatsStore (pairs_core/src/symbol_stats.rs): the learning filter  *)
(* of one base symbol, shared by the strategies that ask check_entry and   *)
(* the fill consumer that calls record_trade.                              *)
(*                                                                         *)
(* check_entry releases its read guard before it takes a probe or starts a *)
(* cooldown, so other callers act in between.  Averages are compared as    *)
(* sums; the multiplicative size scale is a level, one step per factor.    *)
(* A cooldown in the past and none at all are the same to every reader.    *)
(***************************************************************************)
EXTENDS Integers, Sequences, FiniteSets, SequencesExt, FiniteSetsExt

CONSTANTS Callers,          \* concurrent users of check_entry
          Trades,           \* records [pnl, paper, slip] that may be recorded
          Window,           \* WINDOW (20)
          MinSamples,       \* MIN_SAMPLES (8)
          MinSamplesScale,  \* MIN_SAMPLES_FOR_SCALE (5)
          PnlThreshold, PaperThreshold,
          SlipHigh, SlipLow, PnlDownsize, PnlUpsize,
          ScaleMin, ScaleMax,   \* levels; 0 is scale_factor 1
          ProbeCount,       \* PROBE_COUNT (5)
          Cooldown,         \* COOLDOWN_SECS, in ticks
          MaxOpen           \* bound: entries whose trade is not recorded yet

ASSUME SymbolStatsAssumption ==
    /\ IsFiniteSet(Callers)
    /\ Window \in Nat \ {0} /\ MinSamples \in 1..Window
    /\ MinSamplesScale \in 1..Window
    /\ ScaleMin \in Int /\ ScaleMax \in Int /\ ScaleMin <= 0 /\ 0 <= ScaleMax
    /\ ProbeCount \in Nat \ {0} /\ Cooldown \in Nat \ {0} /\ MaxOpen \in Nat \ {0}

VARIABLES
    recent,             \* the last Window trades
    cooldown,           \* ticks until cooldown_until_epoch; 0 when not cooling
    probe_remaining,
    scale,              \* level of scale_factor
    pc,                 \* [Callers -> {"idle", "probe", "cool"}] in check_entry
    decision,           \* [Callers -> last FilterDecision]
    granted,            \* probes allowed since set_cooldown (history)
    open_trades         \* admitted entries not recorded yet (external)

stats == <<recent, cooldown, probe_remaining, scale>>
vars == <<stats, pc, decision, granted, open_trades>>

Init ==
    /\ recent = <<>> /\ cooldown = 0 /\ probe_remaining = 0 /\ scale = 0
    /\ pc = [c \in Callers |-> "idle"]
    /\ decision = [c \in Callers |-> "none"]
    /\ granted = 0
    /\ open_trades = 0

\* avg(field) < threshold, once there are enough samples.
SumOf(r, F(_)) == FoldLeft(LAMBDA acc, t : acc + F(t), 0, r)
AvgPnlBelow(r, x) == Len(r) >= MinSamples /\ SumOf(r, LAMBDA t : t.pnl) < x * Len(r)
AvgPnlAbove(r, x) == Len(r) >= MinSamples /\ SumOf(r, LAMBDA t : t.pnl) > x * Len(r)
AvgPaperBelow(r, x) ==
    Len(r) >= MinSamples /\ SumOf(r, LAMBDA t : t.paper) < x * Len(r)
AvgSlipAbove(r, x) ==
    Len(r) >= MinSamplesScale /\ SumOf(r, LAMBDA t : t.slip) > x * Len(r)
AvgSlipBelow(r, x) ==
    Len(r) >= MinSamplesScale /\ SumOf(r, LAMBDA t : t.slip) < x * Len(r)

Losing == AvgPnlBelow(recent, PnlThreshold) \/ AvgPaperBelow(recent, PaperThreshold)

Admitted == open_trades' = Min({open_trades + 1, MaxOpen})

-----------------------------------------------------------------------------
(* check_entry                                                             *)

Decide(c, d) == decision' = [decision EXCEPT ![c] = d]
Goto(c, l) == pc' = [pc EXCEPT ![c] = l]

\* Wide own spread: skip before the statistics are looked at.
SkipWide(c) ==
    /\ pc[c] = "idle"
    /\ Decide(c, "wide")
    /\ UNCHANGED <<stats, pc, granted, open_trades>>

\* Under the read guard: the decision, or the update to make after it.
CheckEntry(c) ==
    /\ pc[c] = "idle"
    /\ \/ /\ cooldown > 0 /\ probe_remaining > 0
          /\ Goto(c, "probe")
          /\ UNCHANGED <<decision, open_trades>>
       \/ /\ cooldown > 0 /\ probe_remaining = 0
          /\ Decide(c, "skip")
          /\ UNCHANGED <<pc, open_trades>>
       \/ /\ cooldown = 0 /\ Losing
          /\ Goto(c, "cool")
          /\ UNCHANGED <<decision, open_trades>>
       \/ /\ cooldown = 0 /\ ~Losing
          /\ Decide(c, "pass")
          /\ Admitted
          /\ UNCHANGED pc
    /\ UNCHANGED <<stats, granted>>

\* Mutant: the guard is trusted after it was released.
TakeProbeUnchecked(c) ==
    /\ pc[c] = "probe"
    /\ probe_remaining' = probe_remaining - 1
    /\ granted' = granted + 1
    /\ Decide(c, "probe")
    /\ Goto(c, "idle")
    /\ Admitted
    /\ UNCHANGED <<recent, cooldown, scale>>

\* Mutant: a probe is not taken off the budget.
TakeProbeFree(c) ==
    /\ pc[c] = "probe"
    /\ granted' = granted + 1
    /\ Decide(c, "probe")
    /\ Goto(c, "idle")
    /\ Admitted
    /\ UNCHANGED stats

\* The write guard: Probe is returned even when the last one is gone by now.
TakeProbe(c) ==
    /\ pc[c] = "probe"
    /\ probe_remaining' = IF probe_remaining > 0 THEN probe_remaining - 1 ELSE 0
    /\ granted' = granted + 1
    /\ Decide(c, "probe")
    /\ Goto(c, "idle")
    /\ Admitted
    /\ UNCHANGED <<recent, cooldown, scale>>

\* Mutant: the cooldown starts without probes.
SetCooldownNoProbes(c) ==
    /\ pc[c] = "cool"
    /\ cooldown' = Cooldown
    /\ granted' = 0
    /\ Decide(c, "skip")
    /\ Goto(c, "idle")
    /\ UNCHANGED <<recent, probe_remaining, scale, open_trades>>

\* set_cooldown, on the averages read before: a trade recorded in between, or a
\* cooldown started by another caller, is not noticed.
SetCooldown(c) ==
    /\ pc[c] = "cool"
    /\ cooldown' = Cooldown
    /\ probe_remaining' = ProbeCount
    /\ granted' = 0
    /\ Decide(c, "skip")
    /\ Goto(c, "idle")
    /\ UNCHANGED <<recent, scale, open_trades>>

-----------------------------------------------------------------------------
(* record_trade                                                            *)

\* SymbolStats::push: the oldest of a full window goes.
Push(r, t) == Append(IF Len(r) >= Window THEN Tail(r) ELSE r, t)

\* SymbolStats::update_scale, on the window r.
UpdateScale(r) ==
    IF Len(r) < MinSamples \/ Len(r) < MinSamplesScale THEN scale
    ELSE IF AvgSlipAbove(r, SlipHigh) \/ AvgPnlBelow(r, PnlDownsize)
         THEN Max({scale - 1, ScaleMin})
    ELSE IF AvgSlipBelow(r, SlipLow) /\ AvgPnlAbove(r, PnlUpsize)
         THEN Min({scale + 1, ScaleMax})
    ELSE scale

\* A trade that ends a cooldown.
Good(t) == t.pnl > 0 /\ t.paper > PaperThreshold

\* One write guard from the push to the end of the cooldown.
RecordTrade(t) ==
    /\ open_trades > 0
    /\ open_trades' = open_trades - 1
    /\ recent' = Push(recent, t)
    /\ scale' = UpdateScale(recent')
    /\ IF cooldown > 0 /\ Good(t)
       THEN cooldown' = 0 /\ probe_remaining' = 0
       ELSE UNCHANGED <<cooldown, probe_remaining>>
    /\ UNCHANGED <<pc, decision, granted>>

Tick ==
    /\ cooldown > 0
    /\ cooldown' = cooldown - 1
    /\ UNCHANGED <<recent, probe_remaining, scale, pc, decision, granted, open_trades>>

Next ==
    \/ \E c \in Callers :
          SkipWide(c) \/ CheckEntry(c) \/ TakeProbe(c) \/ SetCooldown(c)
    \/ \E t \in Trades : RecordTrade(t)
    \/ Tick

Spec == Init /\ [][Next]_vars

\* Strategies keep signalling the symbol, calls finish, time passes, and of the
\* admitted entries some trade is recorded some day.  Whether a trade is good is
\* up to the market.
Fairness ==
    /\ \A c \in Callers :
          /\ WF_vars(CheckEntry(c))
          /\ WF_vars(TakeProbe(c) \/ SetCooldown(c))
    /\ WF_vars(Tick)
    /\ WF_vars(\E t \in Trades : RecordTrade(t))

FairSpec == Spec /\ Fairness

\* Signals come often enough to find the symbol in its cooldown: less than
\* COOLDOWN_SECS apart, again and again.
Frequent == \A c \in Callers : SF_vars(cooldown > 0 /\ CheckEntry(c))

-----------------------------------------------------------------------------
(* Properties                                                              *)

\* Fields and decisions stay in their types; probe_remaining is a u32.
TypeOK ==
    /\ recent \in Seq(Trades) /\ Len(recent) <= Window
    /\ cooldown \in 0..Cooldown
    /\ probe_remaining \in 0..ProbeCount
    /\ scale \in ScaleMin..ScaleMax
    /\ pc \in [Callers -> {"idle", "probe", "cool"}]
    /\ decision \in [Callers -> {"none", "wide", "skip", "probe", "pass"}]
    /\ granted \in Nat
    /\ open_trades \in 0..MaxOpen

\* A cooldown grants ProbeCount probes; every caller but one that read the last
\* of them before it was taken adds one, never more, although the counter is
\* read under one guard and decremented under another.
ProbesBounded == granted <= ProbeCount + Cardinality(Callers) - 1

\* "Cooldown allows occasional probe trades to detect recovery": however badly a
\* symbol trades it is tried again and again; no sequence of losses, cooldowns
\* and races disables it for good.  True of frequent signals.  A symbol whose
\* signals are further apart than the cooldown is skipped every time: the call
\* that finds the cooldown over also finds the old averages and starts another.
NeverDisabledForGood ==
    []<>(\E c \in Callers : decision[c] \in {"probe", "pass"})

\* If from some time on every trade is good, then from some time on no entry is
\* skipped for its statistics: a cooldown started on stale averages ends too.
Recovers ==
    <>[](recent # <<>> /\ Good(Last(recent))) =>
        <>[](\A c \in Callers : decision[c] # "skip")

=============================================================================
