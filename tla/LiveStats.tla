----------------------------- MODULE LiveStats -----------------------------
(***************************************************************************)
(* The way of a fill report from the executor to the statistics of the     *)
(* collector: executor/src/fill_publisher.rs (ZMQ PUB),                    *)
(* collector/src/fill_subscriber.rs (SUB, then a tokio broadcast) and      *)
(* collector/src/live_stats.rs, which keeps the entry report of a position *)
(* until its exit report arrives and records the pair as one trade.        *)
(*                                                                         *)
(* Reports of one executor stay in order, but both hops drop: the PUB      *)
(* socket newest first (send refused), the broadcast oldest first          *)
(* (Lagged).  A position that is force-closed or reverted never gets an    *)
(* exit report.  A report is its position and its action; prices follow    *)
(* from the position it was built for.                                     *)
(***************************************************************************)
EXTENDS Naturals, Sequences, FiniteSets

CONSTANTS Positions,    \* pairs <<account_id, position id>>: two variants that
                        \* act on one signal share the id
          Capacity,     \* broadcast::channel (4096)
          MaxPending,   \* 4096, the limit of the periodic clean-up
          MaxRestarts   \* bound: restarts of the collector

ConstantsOK ==
    Capacity \in Nat \ {0} /\ MaxPending \in Nat /\ MaxRestarts \in Nat

VARIABLES
    stage,      \* [Positions -> {"new", "open", "closing", "closed"}], executor
    channel,    \* reports between send_event and recv
    pending,    \* keys of the map, each with the position whose entry it holds
    trades,     \* pairs <<entry, exit>> given to record_trade, in order
    missed,     \* positions a report of which was dropped, or whose pending
                \* entry was lost with the process or the clean-up (history)
    silent,     \* positions closed without an exit report (history)
    restarts

vars == <<stage, channel, pending, trades, missed, silent, restarts>>

Reports == [action : {"entry", "exit"}, position : Positions]

Init ==
    /\ stage = [p \in Positions |-> "new"]
    /\ channel = <<>>
    /\ pending = {}
    /\ trades = <<>>
    /\ missed = {} /\ silent = {}
    /\ restarts = 0

-----------------------------------------------------------------------------
(* The executor                                                            *)

\* send_event: DONTWAIT, a refused report is only logged.
Publish(action, p) ==
    \/ /\ Len(channel) < Capacity
       /\ channel' = Append(channel, [action |-> action, position |-> p])
       /\ UNCHANGED missed
    \/ /\ missed' = missed \union {p}
       /\ UNCHANGED channel

\* on_entry: the position is tracked and reported without an await in between.
Open(p) ==
    /\ stage[p] = "new"
    /\ stage' = [stage EXCEPT ![p] = "open"]
    /\ Publish("entry", p)
    /\ UNCHANGED <<pending, trades, silent, restarts>>

\* on_exit takes the position out of open_positions ...
Close(p) ==
    /\ stage[p] = "open"
    /\ stage' = [stage EXCEPT ![p] = "closing"]
    /\ UNCHANGED <<channel, pending, trades, missed, silent, restarts>>

\* ... and reports at its end.
Report(p) ==
    /\ stage[p] = "closing"
    /\ stage' = [stage EXCEPT ![p] = "closed"]
    /\ Publish("exit", p)
    /\ UNCHANGED <<pending, trades, silent, restarts>>

\* force_close of the sweeper: no report, no statistics.
ForceClose(p) ==
    /\ stage[p] = "open"
    /\ stage' = [stage EXCEPT ![p] = "closed"]
    /\ silent' = silent \union {p}
    /\ UNCHANGED <<channel, pending, trades, missed, restarts>>

-----------------------------------------------------------------------------
(* The collector                                                           *)

\* The broadcast overtakes a slow consumer: the oldest report is gone.
Lag ==
    /\ channel # <<>>
    /\ missed' = missed \union {Head(channel).position}
    /\ channel' = Tail(channel)
    /\ UNCHANGED <<stage, pending, trades, silent, restarts>>

\* Mutant: the account is left out of the key.
KeyById(p) == p[2]

\* handle_fill: the key of the pending map.
Key(p) == p

EntryOf(k) == {e \in pending : e.key = k}

\* Mutant: the entry is looked up and stays in the map.
HandleExitKeeps(p) ==
    /\ trades' = IF EntryOf(Key(p)) = {} THEN trades
                 ELSE Append(trades,
                             <<(CHOOSE e \in EntryOf(Key(p)) : TRUE).position, p>>)
    /\ UNCHANGED pending

\* handle_fill, "entry": insert replaces what the key held.
HandleEntry(p) ==
    /\ pending' = (pending \ EntryOf(Key(p))) \union {[key |-> Key(p), position |-> p]}
    /\ UNCHANGED trades

\* handle_fill, "exit": remove, and record the pair; without an entry, skip.
HandleExit(p) ==
    /\ pending' = pending \ EntryOf(Key(p))
    /\ trades' = IF EntryOf(Key(p)) = {} THEN trades
                 ELSE Append(trades,
                             <<(CHOOSE e \in EntryOf(Key(p)) : TRUE).position, p>>)

\* The consumer loop takes the next report.
Consume ==
    /\ channel # <<>>
    /\ channel' = Tail(channel)
    /\ LET r == Head(channel) IN
         IF r.action = "entry" THEN HandleEntry(r.position)
         ELSE HandleExit(r.position)
    /\ UNCHANGED <<stage, missed, silent, restarts>>

\* The clean-up task: all or nothing.
Gc ==
    /\ Cardinality(pending) > MaxPending
    /\ pending' = {}
    /\ missed' = missed \union {e.position : e \in pending}
    /\ UNCHANGED <<stage, channel, trades, silent, restarts>>

\* The pending map lives in memory; a SUB socket gets nothing sent before it
\* connects.  Trades recorded by the old process stay recorded.
RestartCollector ==
    /\ restarts < MaxRestarts
    /\ restarts' = restarts + 1
    /\ pending' = {}
    /\ channel' = <<>>
    /\ missed' = missed \union {e.position : e \in pending}
                        \union {channel[i].position : i \in DOMAIN channel}
    /\ UNCHANGED <<stage, trades, silent>>

Next ==
    \/ \E p \in Positions : Open(p) \/ Close(p) \/ Report(p) \/ ForceClose(p)
    \/ Lag \/ Consume \/ Gc \/ RestartCollector

Spec == Init /\ [][Next]_vars

\* Close tasks finish and the consumer keeps receiving (tokio); no position has
\* to be closed and no clean-up has to be due.
Fairness == WF_vars(Consume) /\ \A p \in Positions : WF_vars(Report(p))

FairSpec == Spec /\ Fairness

-----------------------------------------------------------------------------
(* Properties                                                              *)

InChannel(action, p) ==
    \E i \in DOMAIN channel : channel[i] = [action |-> action, position |-> p]

\* Variables keep their types; the broadcast never holds more than its capacity.
TypeOK ==
    /\ stage \in [Positions -> {"new", "open", "closing", "closed"}]
    /\ channel \in Seq(Reports) /\ Len(channel) <= Capacity
    /\ \A e \in pending : e.position \in Positions /\ e.key = Key(e.position)
    /\ trades \in Seq(Positions \X Positions)
    /\ missed \subseteq Positions /\ silent \subseteq Positions
    /\ restarts \in 0..MaxRestarts

\* A recorded trade joins the entry and the exit of one position of one account,
\* and no position is counted twice, whatever is lost and whoever restarts.
TradesPaired ==
    /\ \A i \in DOMAIN trades : trades[i][1] = trades[i][2]
    /\ \A i, j \in DOMAIN trades : trades[i] = trades[j] => i = j

\* Every pending entry waits for something: its position is open or closing, its
\* exit report is on the way, or no exit report will ever arrive because it was
\* dropped or never sent.  Entries of the last kind stay until the clean-up.
NoForgottenEntry ==
    \A e \in pending :
        \/ stage[e.position] \in {"open", "closing"}
        \/ InChannel("exit", e.position)
        \/ e.position \in missed \union silent

\* A position closed by an exit signal is learned from unless a report of it was
\* lost: reports in order are enough, whatever happens to other positions.
ClosedIsLearned ==
    \A p \in Positions :
        stage[p] = "closing" ~>
            (p \in missed \/ \E i \in DOMAIN trades : trades[i] = <<p, p>>)

=============================================================================
