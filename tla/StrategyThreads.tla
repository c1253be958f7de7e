---------------------------- MODULE StrategyThreads ----------------------------
(* The threads of a running strategy of flipster_rust: a loop that looks for    *)
(* signals and puts orders into a queue, a pool of workers that send them, a    *)
(* thread that restarts loop and workers with a new queue every now and then    *)
(* (strategy.rs; strategy_ws.rs and strategy_close.rs have the same threads),   *)
(* and the health check of the account, which the workers consult.  A restart   *)
(* tells the old threads to end by clearing one flag for a second.              *)
EXTENDS Integers, FiniteSets

CONSTANTS
  Programs,      \* subset of {"strategy", "close"}
  Slots,         \* places for generations of threads
  Workers,
  QueueCap       \* bound: orders in a queue

ConstantsOK ==
  /\ Programs \subseteq {"strategy", "close"} /\ Workers # {} /\ QueueCap \in Nat \ {0}

VARIABLES
  prog,
  running,       \* the flag all threads read
  keeper,        \* the restart thread
  current,       \* slot of the last generation
  loop,          \* slot -> where the signal loop is
  worker,        \* slot -> worker -> where it is
  queue,         \* slot -> orders in the channel
  data,          \* the cache has market data
  healthy, check,  \* is_healthy of the account, and where its check is
  posted         \* an update of an order is on its way

vars == <<prog, running, keeper, current, loop, worker, queue, data, healthy, check, posted>>

LoopGone(s) == loop[s] \in {"none", "gone"}
Ended(s) == LoopGone(s) /\ \A w \in Workers : worker[s][w] \in {"none", "gone"}

TypeOK ==
  /\ prog \in Programs /\ {running, data, healthy, posted} \subseteq BOOLEAN
  /\ keeper \in {"sleep", "paused"} /\ current \in Slots
  /\ loop \in [Slots -> {"none", "warm", "wait", "settle", "main", "gone"}]
  /\ worker \in [Slots -> [Workers -> {"none", "idle", "send", "gone"}]]
  /\ queue \in [Slots -> 0..QueueCap]
  /\ check \in {"sleep", "order"}

(* start_internal: the flag, the queue, the workers and the loop.  The closing *)
(* strategy's loop does not sleep before it waits for data.                    *)
FirstAt == IF prog = "close" THEN "wait" ELSE "warm"

start_internal(s) ==
  /\ current' = s
  /\ queue' = [queue EXCEPT ![s] = 0]
  /\ worker' = [worker EXCEPT ![s] = [w \in Workers |-> "idle"]]
  /\ loop' = [loop EXCEPT ![s] = FirstAt]

Init ==
  /\ prog \in Programs /\ running = TRUE
  /\ keeper = "sleep" /\ current \in Slots
  /\ loop = [s \in Slots |-> IF s = current THEN FirstAt ELSE "none"]
  /\ worker = [s \in Slots |-> [w \in Workers |-> IF s = current THEN "idle" ELSE "none"]]
  /\ queue = [s \in Slots |-> 0]
  /\ data = FALSE /\ healthy \in BOOLEAN /\ check = "sleep" /\ posted = FALSE

-----------------------------------------------------------------------------
(* The restart thread.                                                        *)

(* The interval is minutes at least: the loop is past its half minute of      *)
(* warm-up by then.                                                           *)
Warmed == loop[current] = "main"

Clear ==
  /\ keeper = "sleep" /\ Warmed
  /\ keeper' = "paused" /\ running' = FALSE
  /\ UNCHANGED <<prog, current, loop, worker, queue, data, healthy, check, posted>>

(* A second later: what does not block has seen the flag; a worker that sends *)
(* may not have.                                                              *)
Noticed == \A s \in Slots : loop[s] # "main" /\ \A w \in Workers : worker[s][w] # "idle"

Restart(s) ==
  /\ keeper = "paused" /\ Noticed /\ Ended(s)
  /\ keeper' = "sleep" /\ running' = TRUE
  /\ start_internal(s)
  /\ UNCHANGED <<prog, data, healthy, check, posted>>

-----------------------------------------------------------------------------
(* signal_loop.                                                               *)

Leave(s, to) ==
  /\ loop' = [loop EXCEPT ![s] = to]
  /\ UNCHANGED <<prog, running, keeper, current, worker, queue, data, healthy, check, posted>>

WarmUp(s) ==
  \/ loop[s] = "warm" /\ Leave(s, "wait")
  \/ loop[s] = "settle" /\ Leave(s, "main")

(* The wait ends with data, after twenty seconds, or when the flag is cleared. *)
WaitForData(s) ==
  /\ loop[s] = "wait"
  /\ Leave(s, IF prog = "close" THEN "main" ELSE "settle")

(* One round: orders for the accounts are put into the queue, which takes     *)
(* them while a worker holds its other end.                                   *)
Round(s) ==
  /\ loop[s] = "main" /\ running /\ data
  /\ queue[s] < QueueCap
  /\ queue' = [queue EXCEPT ![s] = IF \E w \in Workers : worker[s][w] # "gone" THEN @ + 1 ELSE @]
  /\ UNCHANGED <<prog, running, keeper, current, loop, worker, data, healthy, check, posted>>

LeaveLoop(s) == loop[s] = "main" /\ ~running /\ Leave(s, "gone")

-----------------------------------------------------------------------------
(* order_worker_loop.                                                         *)

Put(s, w, to) == worker' = [worker EXCEPT ![s][w] = to]

(* An order of an account that is not healthy is dropped, nineteen times out  *)
(* of twenty.                                                                 *)
Take(s, w, skip) ==
  /\ worker[s][w] = "idle" /\ running /\ queue[s] > 0
  /\ skip => ~healthy
  /\ queue' = [queue EXCEPT ![s] = @ - 1]
  /\ Put(s, w, IF skip THEN "idle" ELSE "send")
  /\ UNCHANGED <<prog, running, keeper, current, loop, data, healthy, check, posted>>

(* place_order returns, with an answer, an error or a timeout. *)
Sent(s, w) ==
  /\ worker[s][w] = "send"
  /\ Put(s, w, "idle")
  /\ posted' \in {posted, TRUE}
  /\ UNCHANGED <<prog, running, keeper, current, loop, queue, data, healthy, check>>

(* The flag is cleared, or the queue is empty and nobody can fill it. *)
WorkerEnds(s, w) ==
  /\ worker[s][w] = "idle"
  /\ ~running \/ (queue[s] = 0 /\ LoopGone(s))
  /\ Put(s, w, "gone")
  /\ UNCHANGED <<prog, running, keeper, current, loop, queue, data, healthy, check, posted>>

-----------------------------------------------------------------------------
(* start_health_check: the login status, which a failed request leaves at     *)
(* unhealthy; then the account counts as unhealthy until an update of an      *)
(* order, the check's own or another, comes over its WebSocket.               *)

LoginStatus(in) ==
  /\ check = "sleep"
  /\ healthy' = in
  /\ check' \in IF in THEN {"order"} ELSE {"order", "sleep"}
  /\ UNCHANGED <<prog, running, keeper, current, loop, worker, queue, data, posted>>

HealthOrder(accepted) ==
  /\ check = "order"
  /\ healthy' = FALSE /\ check' = "sleep"
  /\ posted' = (posted \/ accepted)
  /\ UNCHANGED <<prog, running, keeper, current, loop, worker, queue, data>>

OrderUpdate ==
  /\ posted /\ posted' = FALSE
  /\ healthy' = TRUE
  /\ UNCHANGED <<prog, running, keeper, current, loop, worker, queue, data, check>>

DataArrives ==
  /\ ~data /\ data' = TRUE
  /\ UNCHANGED <<prog, running, keeper, current, loop, worker, queue, healthy, check, posted>>

Next ==
  \/ Clear \/ DataArrives \/ OrderUpdate
  \/ \E in \in BOOLEAN : LoginStatus(in) \/ HealthOrder(in)
  \/ \E s \in Slots :
       \/ Restart(s) \/ WarmUp(s) \/ WaitForData(s) \/ Round(s) \/ LeaveLoop(s)
       \/ \E w \in Workers :
            (\E skip \in BOOLEAN : Take(s, w, skip)) \/ Sent(s, w) \/ WorkerEnds(s, w)

Spec == Init /\ [][Next]_vars

(* Threads run, their sleeps and their HTTP calls (with timeouts) end. *)
Fairness ==
  /\ WF_vars(Clear) /\ WF_vars(DataArrives)
  /\ WF_vars(\E s \in Slots : Restart(s))
  /\ \A s \in Slots :
       /\ WF_vars(WarmUp(s) \/ WaitForData(s) \/ LeaveLoop(s))
       /\ \A w \in Workers :
            WF_vars((\E skip \in BOOLEAN : Take(s, w, skip)) \/ Sent(s, w) \/ WorkerEnds(s, w))

-----------------------------------------------------------------------------
(* However restarts fall between the steps of the threads, two signal loops    *)
(* never trade at the same time, and the loop that trades has workers for its  *)
(* queue (signal_loop, order_worker_loop).                                     *)
OneTrader ==
  /\ \A s, t \in Slots : loop[s] = "main" /\ loop[t] = "main" => s = t
  /\ \A s \in Slots : loop[s] = "main" /\ running => \E w \in Workers : worker[s][w] # "gone"

(* Every restart ends with a loop that trades again, although workers of       *)
(* earlier generations may outlive the pause.                                  *)
TradesAgain == []<>(\E s \in Slots : loop[s] = "main" /\ running)
=============================================================================
