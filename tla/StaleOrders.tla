---------------------------- MODULE StaleOrders ----------------------------
(***************************************************************************)
(* The bookkeeping of Executor::sweep_stale_orders (executor/src/          *)
(* executor.rs): every 500 ms one order that the WebSocket mirror has      *)
(* shown open for longer than the threshold is cancelled in a task of its  *)
(* own; an order whose cancels keep failing is put on an abandon list.     *)
(* Nothing waits for the cancel tasks, and the HTTP client sets no         *)
(* timeout, so several cancels of one order may be under way.              *)
(***************************************************************************)
EXTENDS Integers, FiniteSets

CONSTANTS Orders,       \* order ids
          MaxRetries,   \* EXECUTOR_MAX_CANCEL_RETRIES
          MaxTasks      \* bound: cancel tasks of one order at a time

ConstantsOK == MaxRetries \in Nat \ {0} /\ MaxTasks \in Nat \ {0}

VARIABLES
    resting,                \* orders on the venue's book (external)
    gone,                   \* orders that have left it (external)
    ws_open,                \* orders in an open status in FlipsterState
    ws_orders,              \* the sweeper's copy of ws_open
    sweeping,               \* the sweeper is between its copy and its work
    order_first_seen,       \* [Orders -> {"none", "young", "old"}]
    cancel_failure_count,   \* [Orders -> Nat], 0 for no entry
    abandoned_orders,
    cancelling,             \* [Orders -> Nat] tasks awaiting cancel_order
    giving_up,              \* [Orders -> Nat] tasks about to abandon the order
    sent                    \* [Orders -> Nat] cancels sent since the last
                            \* success (history)

venue == <<resting, gone>>
books == <<order_first_seen, cancel_failure_count, abandoned_orders>>
tasks == <<cancelling, giving_up>>
vars == <<venue, ws_open, ws_orders, sweeping, books, tasks, sent>>

Init ==
    /\ resting = {} /\ gone = {} /\ ws_open = {} /\ ws_orders = {}
    /\ sweeping = FALSE
    /\ order_first_seen = [o \in Orders |-> "none"]
    /\ cancel_failure_count = [o \in Orders |-> 0]
    /\ abandoned_orders = {}
    /\ cancelling = [o \in Orders |-> 0]
    /\ giving_up = [o \in Orders |-> 0]
    /\ sent = [o \in Orders |-> 0]

-----------------------------------------------------------------------------
(* The venue and the mirror                                                *)

\* An order comes to rest on the book ...
Place(o) ==
    /\ o \notin resting \union gone
    /\ resting' = resting \union {o}
    /\ UNCHANGED <<gone, ws_open, ws_orders, sweeping, books, tasks, sent>>

\* ... and leaves it, filled or cancelled by someone else.
Resolve(o) ==
    /\ o \in resting
    /\ resting' = resting \ {o}
    /\ gone' = gone \union {o}
    /\ UNCHANGED <<ws_open, ws_orders, sweeping, books, tasks, sent>>

\* apply_order_update.  An update may never come: the mirror is not cleared
\* when the connection is lost, so an order can stay in it as a ghost.
WsUpdate(o) ==
    /\ ws_open' = IF o \in resting THEN ws_open \union {o} ELSE ws_open \ {o}
    /\ UNCHANGED <<venue, ws_orders, sweeping, books, tasks, sent>>

-----------------------------------------------------------------------------
(* The sweeper                                                             *)

\* The threshold passes for an order seen by an earlier sweep.
Age(o) ==
    /\ order_first_seen[o] = "young"
    /\ order_first_seen' = [order_first_seen EXCEPT ![o] = "old"]
    /\ UNCHANGED <<venue, ws_open, ws_orders, sweeping, cancel_failure_count,
                   abandoned_orders, tasks, sent>>

\* iter_open_orders under the read lock, which is released before the work.
SweepRead ==
    /\ ~sweeping
    /\ sweeping' = TRUE
    /\ ws_orders' = ws_open
    /\ UNCHANGED <<venue, ws_open, books, tasks, sent>>

\* What a sweep leaves of the first-seen times once it has acted on A.
FirstSeenAfter(A) ==
    [o \in Orders |->
        IF o \notin ws_orders \/ o \in A THEN "none"
        ELSE IF order_first_seen[o] = "none" /\ o \notin abandoned_orders
             THEN "young" ELSE order_first_seen[o]]

\* The orders a sweep may act on.
Old == {o \in ws_orders \ abandoned_orders : order_first_seen[o] = "old"}

\* Mutant: the failure counts of orders that disappeared are kept.
SweepActKeepsCounts ==
    /\ sweeping
    /\ sweeping' = FALSE
    /\ \E A \in SUBSET Old :
          /\ Cardinality(A) <= 1 /\ (A = {} => Old = {})
          /\ \A o \in A : cancelling[o] + giving_up[o] < MaxTasks
          /\ order_first_seen' = FirstSeenAfter(A)
          /\ cancelling' = [o \in Orders |-> IF o \in A THEN cancelling[o] + 1
                                                       ELSE cancelling[o]]
          /\ sent' = [o \in Orders |-> IF o \in A THEN sent[o] + 1 ELSE sent[o]]
    /\ abandoned_orders' = abandoned_orders \intersect ws_orders
    /\ UNCHANGED <<venue, ws_open, ws_orders, cancel_failure_count, giving_up>>

\* The loop over the copy and the three retains (clears, when it is empty).  One
\* old order is acted on, whenever there is one; its first-seen time is dropped.
SweepAct ==
    /\ sweeping
    /\ sweeping' = FALSE
    /\ \E A \in SUBSET Old :
          /\ Cardinality(A) <= 1 /\ (A = {} => Old = {})
          /\ \A o \in A : cancelling[o] + giving_up[o] < MaxTasks
          /\ order_first_seen' = FirstSeenAfter(A)
          /\ cancelling' = [o \in Orders |-> IF o \in A THEN cancelling[o] + 1
                                                       ELSE cancelling[o]]
          /\ sent' = [o \in Orders |-> IF o \in A THEN sent[o] + 1 ELSE sent[o]]
    /\ cancel_failure_count' =
          [o \in Orders |-> IF o \in ws_orders THEN cancel_failure_count[o] ELSE 0]
    /\ abandoned_orders' = abandoned_orders \intersect ws_orders
    /\ UNCHANGED <<venue, ws_open, ws_orders, giving_up>>

-----------------------------------------------------------------------------
(* The spawned cancel task                                                 *)

Sub(f, o) == [f EXCEPT ![o] = @ - 1]
Add(f, o) == [f EXCEPT ![o] = @ + 1]

\* Mutant: a success pays back one failure.
CancelOkPaysBack(o) ==
    /\ cancelling[o] > 0
    /\ o \in resting
    /\ resting' = resting \ {o}
    /\ gone' = gone \union {o}
    /\ cancelling' = Sub(cancelling, o)
    /\ cancel_failure_count' = Sub(cancel_failure_count, o)
    /\ UNCHANGED <<ws_open, ws_orders, sweeping, order_first_seen,
                   abandoned_orders, giving_up, sent>>

\* The venue accepts; it does so at most once per order.
CancelOk(o) ==
    /\ cancelling[o] > 0
    /\ o \in resting
    /\ resting' = resting \ {o}
    /\ gone' = gone \union {o}
    /\ cancelling' = Sub(cancelling, o)
    /\ cancel_failure_count' = [cancel_failure_count EXCEPT ![o] = 0]
    /\ sent' = [sent EXCEPT ![o] = 0]
    /\ UNCHANGED <<ws_open, ws_orders, sweeping, order_first_seen,
                   abandoned_orders, giving_up>>

\* Mutant: reaching the limit starts a new round of retries.
CancelErrNoLimit(o) ==
    /\ cancelling[o] > 0
    /\ cancelling' = Sub(cancelling, o)
    /\ cancel_failure_count' = [cancel_failure_count EXCEPT
                                  ![o] = IF @ < MaxRetries THEN @ + 1 ELSE 0]
    /\ UNCHANGED <<venue, ws_open, ws_orders, sweeping, order_first_seen,
                   abandoned_orders, giving_up, sent>>

\* The call fails, as it also does for an order that is gone.
CancelErr(o) ==
    /\ cancelling[o] > 0
    /\ cancelling' = Sub(cancelling, o)
    /\ cancel_failure_count' = Add(cancel_failure_count, o)
    /\ giving_up' = IF cancel_failure_count[o] + 1 >= MaxRetries
                    THEN Add(giving_up, o) ELSE giving_up
    /\ UNCHANGED <<venue, ws_open, ws_orders, sweeping, order_first_seen,
                   abandoned_orders, sent>>

\* "giving up - added to abandon list"
GiveUp(o) ==
    /\ giving_up[o] > 0
    /\ giving_up' = Sub(giving_up, o)
    /\ cancel_failure_count' = [cancel_failure_count EXCEPT ![o] = 0]
    /\ abandoned_orders' = abandoned_orders \union {o}
    /\ UNCHANGED <<venue, ws_open, ws_orders, sweeping, order_first_seen,
                   cancelling, sent>>

Next ==
    \/ SweepRead \/ SweepAct
    \/ \E o \in Orders :
          \/ Place(o) \/ Resolve(o) \/ WsUpdate(o) \/ Age(o)
          \/ CancelOk(o) \/ CancelErr(o) \/ GiveUp(o)

Spec == Init /\ [][Next]_vars

\* The sweeper ticks for the life of the process, time passes, every call returns
\* some day.  The venue and the mirror owe nothing.
Fairness ==
    /\ WF_vars(SweepRead) /\ WF_vars(SweepAct)
    /\ \A o \in Orders :
          /\ WF_vars(Age(o))
          /\ WF_vars(CancelOk(o) \/ CancelErr(o))
          /\ WF_vars(GiveUp(o))

FairSpec == Spec /\ Fairness

-----------------------------------------------------------------------------
(* Properties                                                              *)

\* The maps and counters stay in their types.
TypeOK ==
    /\ resting \subseteq Orders /\ gone \subseteq Orders
    /\ ws_open \subseteq Orders /\ ws_orders \subseteq Orders
    /\ sweeping \in BOOLEAN
    /\ order_first_seen \in [Orders -> {"none", "young", "old"}]
    /\ cancel_failure_count \in [Orders -> Nat]
    /\ abandoned_orders \subseteq Orders
    /\ cancelling \in [Orders -> 0..MaxTasks]
    /\ giving_up \in [Orders -> 0..MaxTasks]
    /\ sent \in [Orders -> Nat]

\* "Bounded retry": however slowly the calls fail and however they overlap with
\* sweeps, a stuck order costs MaxRetries cancels, and at most MaxTasks more
\* that were sent while earlier ones were failing.
RetriesBounded ==
    \A o \in Orders : sent[o] <= MaxRetries + MaxTasks

\* One action per sweep is enough: an order the mirror shows as open disappears
\* from it or ends up on the abandon list.
NoOrderStarves ==
    \A o \in Orders :
        o \in ws_open ~> (o \notin ws_open \/ o \in abandoned_orders)

\* The maps do not leak: once the mirror no longer shows an order, nothing is
\* left of it in the end, although a late failure still writes to two of them.
BookkeepingEnds ==
    \A o \in Orders :
        <>[](o \notin ws_open) =>
            <>[](/\ order_first_seen[o] = "none"
                 /\ cancel_failure_count[o] = 0
                 /\ o \notin abandoned_orders)

=============================================================================
