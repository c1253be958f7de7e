----------------------------- MODULE StatsFile -----------------------------
(***************************************************************************)
(* SymbolStatsStore on disk (pairs_core/src/symbol_stats.rs): load at the  *)
(* start, save every 30 s through a temporary file and a rename.  The      *)
(* executor and the collector each have a store and a file; a collector    *)
(* whose file is missing or empty first copies the executor's file, in     *)
(* place (collector/src/live_stats.rs).                                    *)
(*                                                                         *)
(* A content is the number of trades it has learned from and whether all   *)
(* of it was written.  The processes crash and restart at any point.       *)
(***************************************************************************)
EXTENDS Naturals, FiniteSets

CONSTANTS MaxTrades,    \* bound: trades recorded by a store
          MaxCrashes,   \* bound: crashes of both processes together
          MaxFaults     \* bound: failing file operations

ConstantsOK ==
    MaxTrades \in Nat /\ MaxCrashes \in Nat /\ MaxFaults \in Nat

Stores == {"executor", "collector"}

VARIABLES
    file,       \* [Stores -> content at persist_path]
    tmp,        \* [Stores -> content of the temporary file]
    mem,        \* [Stores -> trades in memory]
    pc,         \* [Stores -> {"down", "boot", "up", "write", "rename"}]
    snapshot,   \* [Stores -> trades in the copy being saved]
    saved,      \* [Stores -> most trades a rename has put on disk] (history)
    crashes, faults

vars == <<file, tmp, mem, pc, snapshot, saved, crashes, faults>>

Missing == [n |-> 0, whole |-> FALSE, bytes |-> FALSE]
Torn == [n |-> 0, whole |-> FALSE, bytes |-> TRUE]
Whole(n) == [n |-> n, whole |-> TRUE, bytes |-> n > 0]    \* "{}" has 2 bytes
Contents == {Missing, Torn} \union {Whole(n) : n \in 0..(2 * MaxTrades)}

Init ==
    /\ file = [s \in Stores |-> Missing]
    /\ tmp = [s \in Stores |-> Missing]
    /\ mem = [s \in Stores |-> 0]
    /\ pc = [s \in Stores |-> "down"]
    /\ snapshot = [s \in Stores |-> 0]
    /\ saved = [s \in Stores |-> 0]
    /\ crashes = 0 /\ faults = 0

Goto(s, l) == pc' = [pc EXCEPT ![s] = l]
Fault == faults < MaxFaults /\ faults' = faults + 1

\* SymbolStatsStore::new: a file that does not parse is as good as none.
Load(s, content) == mem' = [mem EXCEPT ![s] = IF content.whole THEN content.n ELSE 0]

-----------------------------------------------------------------------------
(* Start                                                                   *)

StartExecutor ==
    /\ pc["executor"] = "down"
    /\ Load("executor", file["executor"])
    /\ Goto("executor", "up")
    /\ UNCHANGED <<file, tmp, snapshot, saved, crashes, faults>>

\* maybe_bootstrap_from_executor: no more than "{}" here, more than that there.
WantsBootstrap == ~file["collector"].bytes /\ file["executor"].bytes

StartCollector ==
    /\ pc["collector"] = "down"
    /\ IF WantsBootstrap
       THEN \* fs::write truncates first; the bytes read are those of now
            /\ snapshot' = [snapshot EXCEPT !["collector"] = file["executor"].n]
            /\ file' = [file EXCEPT !["collector"] = Torn]
            /\ Goto("collector", "boot")
            /\ UNCHANGED mem
       ELSE /\ Load("collector", file["collector"])
            /\ Goto("collector", "up")
            /\ UNCHANGED <<file, snapshot>>
    /\ UNCHANGED <<tmp, saved, crashes, faults>>

\* The copy is complete, or failed with what it had written.
Bootstrapped ==
    /\ pc["collector"] = "boot"
    /\ \/ /\ file' = [file EXCEPT !["collector"] = Whole(snapshot["collector"])]
          /\ UNCHANGED faults
       \/ Fault /\ UNCHANGED file
    /\ Load("collector", file'["collector"])
    /\ Goto("collector", "up")
    /\ UNCHANGED <<tmp, snapshot, saved, crashes>>

-----------------------------------------------------------------------------
(* Running                                                                 *)

Running(s) == pc[s] \in {"up", "write", "rename"}

\* record_trade does not take save_lock: it may come between any two steps.
RecordTrade(s) ==
    /\ Running(s)
    /\ mem[s] < MaxTrades + IF s = "collector" THEN saved["executor"] ELSE 0
    /\ mem' = [mem EXCEPT ![s] = @ + 1]
    /\ UNCHANGED <<file, tmp, pc, snapshot, saved, crashes, faults>>

\* Mutant: only a file that is not there yet is written.
SnapshotOnce(s) ==
    /\ pc[s] = "up"
    /\ mem[s] > 0 /\ ~file[s].whole
    /\ snapshot' = [snapshot EXCEPT ![s] = mem[s]]
    /\ Goto(s, "write")
    /\ UNCHANGED <<file, tmp, mem, saved, crashes, faults>>

\* save: the copy of the map; nothing to write when all of it is on disk is
\* written all the same, which changes nothing.
Snapshot(s) ==
    /\ pc[s] = "up"
    /\ mem[s] # file[s].n \/ ~file[s].whole
    /\ snapshot' = [snapshot EXCEPT ![s] = mem[s]]
    /\ Goto(s, "write")
    /\ UNCHANGED <<file, tmp, mem, saved, crashes, faults>>

\* Mutant: the file itself is written.
WriteInPlace(s) ==
    /\ pc[s] = "write"
    /\ \/ /\ file' = [file EXCEPT ![s] = Whole(snapshot[s])]
          /\ saved' = [saved EXCEPT ![s] = snapshot[s]]
          /\ UNCHANGED faults
       \/ /\ Fault
          /\ file' = [file EXCEPT ![s] = Torn]
          /\ UNCHANGED saved
    /\ Goto(s, "up")
    /\ UNCHANGED <<tmp, mem, snapshot, crashes>>

\* fs::write of the temporary file; after an error the next save starts anew.
WriteTmp(s) ==
    /\ pc[s] = "write"
    /\ \/ /\ tmp' = [tmp EXCEPT ![s] = Whole(snapshot[s])]
          /\ Goto(s, "rename")
          /\ UNCHANGED faults
       \/ /\ Fault
          /\ tmp' = [tmp EXCEPT ![s] = Torn]
          /\ Goto(s, "up")
    /\ UNCHANGED <<file, mem, snapshot, saved, crashes>>

Rename(s) ==
    /\ pc[s] = "rename"
    /\ \/ /\ file' = [file EXCEPT ![s] = tmp[s]]
          /\ tmp' = [tmp EXCEPT ![s] = Missing]
          /\ saved' = [saved EXCEPT ![s] = snapshot[s]]
          /\ UNCHANGED faults
       \/ Fault /\ UNCHANGED <<file, tmp, saved>>
    /\ Goto(s, "up")
    /\ UNCHANGED <<mem, snapshot, crashes>>

\* What was being written stays as far as it got.
Crash(s) ==
    /\ pc[s] # "down"
    /\ crashes < MaxCrashes
    /\ crashes' = crashes + 1
    /\ tmp' = IF pc[s] = "write" THEN [tmp EXCEPT ![s] = Torn] ELSE tmp
    /\ mem' = [mem EXCEPT ![s] = 0]
    /\ Goto(s, "down")
    /\ UNCHANGED <<file, snapshot, saved, faults>>

Next ==
    \/ StartExecutor \/ StartCollector \/ Bootstrapped
    \/ \E s \in Stores :
          RecordTrade(s) \/ Snapshot(s) \/ WriteTmp(s) \/ Rename(s) \/ Crash(s)

Spec == Init /\ [][Next]_vars

\* The operator restarts what is down, and the 30 s interval ticks for ever.
Fairness ==
    /\ WF_vars(StartExecutor) /\ WF_vars(StartCollector) /\ WF_vars(Bootstrapped)
    /\ \A s \in Stores : WF_vars(Snapshot(s)) /\ WF_vars(WriteTmp(s)) /\ WF_vars(Rename(s))

FairSpec == Spec /\ Fairness

-----------------------------------------------------------------------------
(* Properties                                                              *)

\* Contents, counters and program points have their types.
TypeOK ==
    /\ file \in [Stores -> Contents] /\ tmp \in [Stores -> Contents]
    /\ mem \in [Stores -> 0..(2 * MaxTrades)]
    /\ pc \in [Stores -> {"down", "boot", "up", "write", "rename"}]
    /\ snapshot \in [Stores -> 0..(2 * MaxTrades)]
    /\ saved \in [Stores -> 0..(2 * MaxTrades)]
    /\ crashes \in 0..MaxCrashes /\ faults \in 0..MaxFaults

\* What a save has put on disk once is never lost or torn again, whenever the
\* process crashes, whatever fails, and also when the collector starts beside a
\* running executor: a restart forgets at most what came after the last save.
SavedSurvives ==
    \A s \in Stores : saved[s] > 0 => file[s].whole /\ file[s].n >= saved[s]

\* A running store knows at least what its file knows: no save goes backwards.
MemoryAhead ==
    \A s \in Stores : Running(s) /\ file[s].whole => file[s].n <= mem[s]

\* What a store has learned reaches its file, unless the process dies before.
EventuallySaved ==
    \A s \in Stores : \A k \in 1..MaxTrades :
        mem[s] >= k ~> (saved[s] >= k \/ file[s].n >= k \/ pc[s] = "down")

=============================================================================
