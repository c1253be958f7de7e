------------------------------ MODULE OrderClient ------------------------------
(* How an order of flipster_rust leaves the program (order_manager_client.rs).  *)
(* The gRPC client first asks two limiters: token buckets of one and of five    *)
(* seconds, common to all accounts, and a half-hour window per account that     *)
(* lets only larger orders through when it is full.  Then it tries its targets  *)
(* one after the other.  In Flipster mode the order is posted directly, after   *)
(* a last look at the market, and a limit order is cancelled by a task a few    *)
(* milliseconds later.                                                          *)
EXTENDS Integers, Sequences, FiniteSets

CONSTANTS
  Modes,         \* subset of {"grpc", "flipster"}
  Logins,
  Sizes,         \* USDT sizes; as the caller signs them, a buy's is negative
  PerSec, Per5Sec,             \* ORDER_GRPC_CLIENT_RATE_LIMIT_*
  Window,        \* ticks of the half-hour window; a tick is a second
  MaxCount, MinSize,           \* first tier
  MaxCount2, MinSize2,         \* second tier
  TrimEvery, Kept,             \* 16 calls, 600 timestamps
  Targets,       \* number of gRPC targets
  MaxNow,        \* bound: ticks
  MaxCalls,      \* bound: calls
  MaxResting     \* bound: Flipster orders on the book

VARIABLES
  mode, now,
  bucket,        \* tokens times five, and when they were counted
  window,        \* account -> timestamps and calls
  call,          \* the order under way, or None
  calls,
  resting,       \* Flipster: limit orders on the book, and their cancel tasks
  sent           \* orders let through, oldest first (history)

vars == <<mode, now, bucket, window, call, calls, resting, sent>>

None == [at |-> "none"]
AtMost(a, b) == IF a < b THEN a ELSE b

ConstantsOK ==
  /\ Modes \subseteq {"grpc", "flipster"}
  /\ {PerSec, Per5Sec, MaxCount, MaxCount2, TrimEvery, Kept, Targets} \subseteq Nat \ {0}
  /\ MaxCount <= MaxCount2 /\ MaxCount2 <= Kept /\ MinSize <= MinSize2
  /\ Sizes \subseteq Int /\ {MinSize, MinSize2} \subseteq Int
  /\ {Window, MaxNow, MaxCalls, MaxResting} \subseteq Nat

Init ==
  /\ mode \in Modes /\ now = 0
  /\ bucket = [sec |-> 5 * PerSec, five |-> 5 * Per5Sec, last |-> 0]
  /\ window = [l \in Logins |-> [times |-> <<>>, calls |-> 0]]
  /\ call = None /\ calls = 0
  /\ resting = {} /\ sent = <<>>

-----------------------------------------------------------------------------
(* The limiters.                                                              *)

(* ClientRateLimiter::allow fills both buckets up to now. *)
Refilled ==
  LET e == now - bucket.last IN
  [sec |-> AtMost(bucket.sec + e * 5 * PerSec, 5 * PerSec),
   five |-> AtMost(bucket.five + e * Per5Sec, 5 * Per5Sec), last |-> now]

Allows(b) == b.sec >= 5 /\ b.five >= 5
Taken(b) == IF Allows(b) THEN [b EXCEPT !.sec = @ - 5, !.five = @ - 5] ELSE b

(* Window30Min::record_and_allow trims once in TrimEvery calls, refused calls *)
(* counted, and keeps the newest timestamps; they are in order, so the young  *)
(* ones are the last.                                                         *)
Trimmed(w) ==
  LET n == Len(w.times)
      kept == {i \in 1..n : w.times[i] >= now - Window /\ i > n - Kept}
  IN IF w.calls % TrimEvery # 0 THEN w.times
     ELSE SubSeq(w.times, n - Cardinality(kept) + 1, n)

WindowAllows(count, size) ==
  /\ ~(count >= MaxCount2 /\ size < MinSize2)
  /\ ~(count >= MaxCount /\ size < MinSize)

-----------------------------------------------------------------------------
(* The gRPC path.  A call for BTC_USDT goes around the limiters.              *)

Bypass(l) ==
  /\ call' = [at |-> "target", login |-> l, next |-> 1]
  /\ UNCHANGED <<bucket, window, sent>>

Limited(l, size) ==
  /\ bucket' = Taken(Refilled)
  /\ IF ~Allows(Refilled)
     THEN UNCHANGED <<window, call, sent>>
     ELSE LET n == window[l].calls + 1
              times == Trimmed([window[l] EXCEPT !.calls = n])
              ok == WindowAllows(Len(times), size)
          IN /\ window' = [window EXCEPT ![l] =
                  [times |-> IF ok THEN Append(times, now) ELSE times, calls |-> n]]
             /\ IF ok
                THEN /\ sent' = Append(sent, [login |-> l, size |-> size, at |-> now])
                     /\ call' = [at |-> "target", login |-> l, next |-> 1]
                ELSE UNCHANGED <<call, sent>>

try_send_order_grpc(l, size) ==
  /\ mode = "grpc" /\ call = None /\ calls < MaxCalls
  /\ calls' = calls + 1
  /\ Bypass(l) \/ Limited(l, size)
  /\ UNCHANGED <<mode, now, resting>>

(* send_grpc_to_target: a target that refuses, cannot be reached or answers   *)
(* late, though it may have placed the order, is followed by the next.        *)
send_grpc_to_target(ok) ==
  /\ call.at = "target" /\ call.next <= Targets
  /\ call' = IF ok THEN [call EXCEPT !.at = "ok"] ELSE [call EXCEPT !.next = @ + 1]
  /\ UNCHANGED <<mode, now, bucket, window, calls, resting, sent>>

(* send_order: the last target failed, the time for all of them is over, or   *)
(* one of them took the order.                                                *)
send_order ==
  /\ call.at \in {"ok", "target"}
  /\ call' = None
  /\ UNCHANGED <<mode, now, bucket, window, calls, resting, sent>>

-----------------------------------------------------------------------------
(* Flipster mode.                                                             *)

(* The last look: a limit order is given up when the middle of the API feed   *)
(* has come to its price.                                                     *)
Levels == {"market_close", "market_open", "limit_close", "limit_open"}
IsLimit(level) == level \in {"limit_close", "limit_open"}
edge_gone(side, price, mid) == IF side = "buy" THEN mid <= price ELSE mid >= price

(* The post: a limit order that the answer names is cancelled by a task; one  *)
(* whose answer is lost or has no orderId is not.                             *)
Id == CHOOSE n \in 1..MaxResting : n \notin {o.id : o \in resting}
try_send_order_flipster(level, side, price, mid, answer) ==
  /\ mode = "flipster" /\ calls < MaxCalls
  /\ calls' = calls + 1
  /\ IF ~IsLimit(level) \/ edge_gone(side, price, mid) \/ answer = "refused"
     THEN UNCHANGED resting
     ELSE /\ Cardinality(resting) < MaxResting
          /\ resting' = resting \cup {[id |-> Id,
               task |-> IF answer = "named" THEN "armed" ELSE "none"]}
  /\ UNCHANGED <<mode, now, bucket, window, call, sent>>

(* The task sends its one DELETE, which may fail. *)
ExpireCancel(o, ok) ==
  /\ o.task = "armed"
  /\ resting' = (resting \ {o}) \cup (IF ok THEN {} ELSE {[o EXCEPT !.task = "spent"]})
  /\ UNCHANGED <<mode, now, bucket, window, call, calls, sent>>

(* cancel_all_orders: DELETEs for what the mirror lists, until it is empty.   *)
cancel_all_orders(o) ==
  /\ mode = "flipster" /\ o.task # "armed"
  /\ resting' = resting \ {o}
  /\ UNCHANGED <<mode, now, bucket, window, call, calls, sent>>

Fill(o) ==
  /\ resting' = resting \ {o}
  /\ UNCHANGED <<mode, now, bucket, window, call, calls, sent>>

Tick ==
  /\ mode = "grpc" /\ call = None /\ now < MaxNow
  /\ now' = now + 1
  /\ UNCHANGED <<mode, bucket, window, call, calls, resting, sent>>

Next ==
  \/ \E l \in Logins, size \in Sizes : try_send_order_grpc(l, size)
  \/ \E ok \in BOOLEAN : send_grpc_to_target(ok)
  \/ send_order
  \/ \E level \in Levels, side \in {"buy", "sell"}, price, mid \in 1..3,
        answer \in {"named", "unnamed", "refused"} :
       try_send_order_flipster(level, side, price, mid, answer)
  \/ \E o \in resting : (\E ok \in BOOLEAN : ExpireCancel(o, ok)) \/ cancel_all_orders(o) \/ Fill(o)
  \/ Tick

Spec == Init /\ [][Next]_vars
Fairness == \A n \in 1..MaxResting :
  WF_vars(\E o \in resting : o.id = n /\ \E ok \in BOOLEAN : ExpireCancel(o, ok))

-----------------------------------------------------------------------------
TypeOK ==
  /\ mode \in Modes /\ now \in 0..MaxNow /\ calls \in 0..MaxCalls
  /\ bucket.sec \in 0..5 * PerSec /\ bucket.five \in 0..5 * Per5Sec
  /\ bucket.last \in 0..now
  /\ \A l \in Logins : Len(window[l].times) <= Kept + TrimEvery
  /\ Cardinality(resting) <= MaxResting

Let(l, from, to) == {i \in DOMAIN sent : sent[i].login = l /\ sent[i].at \in from..to}

(* Whatever was trimmed and when, an order below the size of a tier is let     *)
(* through only if fewer orders of its account than the tier allows were let   *)
(* through before it in the window (record_and_allow).                         *)
WindowRespected ==
  \A i \in DOMAIN sent :
    LET before == Cardinality({j \in Let(sent[i].login, sent[i].at - Window, sent[i].at) : j < i})
    IN /\ sent[i].size < MinSize => before < MaxCount
       /\ sent[i].size < MinSize2 => before < MaxCount2

(* The buckets let at most a full one and what flows in meanwhile through, so  *)
(* no more than twice the rate of either in its period, over all accounts.     *)
RateKept ==
  \A from \in 0..now :
    LET n(d) == Cardinality({i \in DOMAIN sent : sent[i].at \in from..(from + d)})
    IN n(1) <= 2 * PerSec /\ n(5) <= 2 * Per5Sec

(* An order the exchange named in its answer is filled or cancelled, or its    *)
(* one DELETE has failed: none waits for ever (the expire-cancel task).        *)
NamedExpire == \A n \in 1..MaxResting :
  (\E o \in resting : o.id = n /\ o.task = "armed")
    ~> (\A o \in resting : o.id = n => o.task # "armed")
=============================================================================
