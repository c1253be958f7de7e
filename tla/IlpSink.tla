-------------------------------- MODULE IlpSink --------------------------------
(* Three writers of quote rows into QuestDB over one TCP connection.              *)
(*   feed       data_publisher/src/ilp.rs: a bounded queue and a writer thread    *)
(*              that flushes by count or by time and drops a batch that failed    *)
(*   uploader   questdb_uploader/src/main.rs: flushes only when a row arrives,    *)
(*              drops a batch that failed                                         *)
(*   collector  collector/src/ilp.rs: a buffer behind a mutex; a batch that       *)
(*              failed stays in it and is sent again                              *)
(* Rows are numbered.  A flush that reports an error may have delivered any       *)
(* first part of the batch.                                                       *)
EXTENDS Integers, Sequences, FiniteSets, SequencesExt, FiniteSetsExt

CONSTANTS
  Kinds,         \* subset of {"feed", "uploader", "collector"}
  QueueCap,      \* 65,536 rows
  FlushEvery,    \* FLUSH_EVERY_ROWS, flush_every
  MaxRows,       \* bound: rows
  MaxFails       \* bound: flushes that fail

ConstantsOK == {QueueCap, FlushEvery, MaxRows} \subseteq Nat \ {0} /\ MaxFails \in Nat

VARIABLES
  kind,
  count,         \* rows submitted
  queue,         \* on their way to the writer
  buffer,        \* encoded, not flushed
  pending,       \* rows the writer counts in the buffer
  stored,        \* the table, in the order of arrival
  dropped,       \* rows given up
  up,            \* "up", "closing" (no more rows come), "down"
  fails

vars == <<kind, count, queue, buffer, pending, stored, dropped, up, fails>>

TypeOK ==
  /\ kind \in Kinds /\ count \in 0..MaxRows
  /\ \A s \in {queue, buffer, stored} : ToSet(s) \subseteq 1..count
  /\ pending \in 0..Len(buffer)
  /\ dropped \subseteq 1..count
  /\ up \in {"up", "closing", "down"} /\ fails \in 0..MaxFails

Init ==
  /\ kind \in Kinds
  /\ count = 0 /\ pending = 0 /\ fails = 0
  /\ queue = <<>> /\ buffer = <<>> /\ stored = <<>>
  /\ dropped = {}
  /\ up = "up"

(* A flush of the rows b: sent, or failed with a first part delivered.         *)
Sent(b) ==
  /\ stored' = stored \o b
  /\ buffer' = <<>> /\ pending' = 0
  /\ UNCHANGED <<dropped, fails>>

(* The feed and the uploader clear the buffer.                                 *)
FailedFeed(b) ==
  /\ kind # "collector"
  /\ fails < MaxFails /\ fails' = fails + 1
  /\ \E n \in 0..Len(b) : stored' = stored \o SubSeq(b, 1, n)
  /\ buffer' = <<>> /\ pending' = 0
  /\ dropped' = dropped \cup ToSet(b)

(* The collector's `?` leaves buffer and count as they are.                    *)
FailedCollector(b, n) ==
  /\ kind = "collector"
  /\ fails < MaxFails /\ fails' = fails + 1
  /\ \E k \in 0..Len(b) : stored' = stored \o SubSeq(b, 1, k)
  /\ buffer' = b /\ pending' = n
  /\ UNCHANGED dropped

(* n is the number of rows counted when the flush is tried.                    *)
Flush(b, n) == Sent(b) \/ FailedFeed(b) \/ FailedCollector(b, n)

Hold(b, n) ==
  /\ buffer' = b /\ pending' = n
  /\ UNCHANGED <<stored, dropped, fails>>

-----------------------------------------------------------------------------
(* Feed and uploader.                                                         *)

(* submit: a full queue drops the row.                                        *)
Submit ==
  /\ kind # "collector" /\ up = "up" /\ count < MaxRows
  /\ count' = count + 1
  /\ IF Len(queue) < QueueCap
     THEN queue' = Append(queue, count') /\ UNCHANGED dropped
     ELSE dropped' = dropped \cup {count'} /\ UNCHANGED queue
  /\ UNCHANGED <<kind, buffer, pending, stored, up, fails>>

(* A row is taken; the batch goes out when it is full (feed) or when its time *)
(* has come.                                                                  *)
Take ==
  /\ kind # "collector" /\ up # "down" /\ queue # <<>>
  /\ queue' = Tail(queue)
  /\ LET b == Append(buffer, Head(queue))
     IN  \/ Flush(b, Len(b))
         \/ /\ kind = "feed" => Len(b) < FlushEvery
            /\ Hold(b, Len(b))
  /\ UNCHANGED <<kind, count, up>>

(* recv_timeout: the feed's batch goes out although no row came.              *)
Timeout ==
  /\ kind = "feed" /\ up # "down" /\ buffer # <<>>
  /\ Flush(buffer, Len(buffer))
  /\ UNCHANGED <<kind, count, queue, up>>

(* The senders are gone, or the socket has ended: the last batch is tried     *)
(* once.                                                                      *)
HangUp ==
  /\ kind # "collector" /\ up = "up"
  /\ up' = "closing"
  /\ UNCHANGED <<kind, count, queue, buffer, pending, stored, dropped, fails>>

LastFlush ==
  /\ up = "closing" /\ queue = <<>>
  /\ up' = "down"
  /\ IF buffer # <<>> THEN Flush(buffer, Len(buffer)) ELSE Hold(buffer, pending)
  /\ UNCHANGED <<kind, count, queue>>

-----------------------------------------------------------------------------
(* Collector.                                                                 *)

(* write_tick: the row is counted and the buffer flushed at the limit.        *)
WriteTick ==
  /\ kind = "collector" /\ up = "up" /\ count < MaxRows
  /\ count' = count + 1
  /\ LET b == Append(buffer, count')
     IN  IF pending + 1 >= FlushEvery THEN Flush(b, pending + 1) ELSE Hold(b, pending + 1)
  /\ UNCHANGED <<kind, queue, up>>

(* Health, position and signal rows are flushed at once and never counted.    *)
WriteNow ==
  /\ kind = "collector" /\ up = "up" /\ count < MaxRows
  /\ count' = count + 1
  /\ Flush(Append(buffer, count'), pending)
  /\ UNCHANGED <<kind, queue, up>>

(* flush, by the periodic task.                                               *)
FlushNow ==
  /\ kind = "collector" /\ up = "up" /\ pending > 0
  /\ Flush(buffer, pending)
  /\ UNCHANGED <<kind, count, queue, up>>

(* The process ends between two steps.                                        *)
Kill ==
  /\ up # "down" /\ up' = "down"
  /\ UNCHANGED <<kind, count, queue, buffer, pending, stored, dropped, fails>>

Next ==
  \/ Submit \/ Take \/ Timeout \/ HangUp \/ LastFlush
  \/ WriteTick \/ WriteNow \/ FlushNow \/ Kill

Spec == Init /\ [][Next]_vars

(* The writer thread runs, its timeout comes, the collector's task flushes.   *)
Fairness == WF_vars(Take) /\ WF_vars(Timeout) /\ WF_vars(FlushNow)

-----------------------------------------------------------------------------
FirstAt(r) == Min({i \in 1..Len(stored) : stored[i] = r})

(* Rows arrive in the order they were submitted.  The feed and the uploader   *)
(* store none twice, whatever a failed flush had delivered ("dropping pending *)
(* rows"); the collector, which sends a failed batch again, loses none while  *)
(* it runs (ilp.rs of both programs).                                         *)
RowsKept ==
  /\ kind # "collector" =>
       \A i, j \in 1..Len(stored) : i < j => stored[i] < stored[j]
  /\ kind = "collector" =>
       /\ up = "up" => 1..count = ToSet(stored) \cup ToSet(buffer)
       /\ \A i, j \in ToSet(stored) : i < j => FirstAt(i) < FirstAt(j)

(* A row of the feed is stored or given up, without another row to push it.   *)
Drained == kind = "feed" => <>[](up = "down" \/ (queue = <<>> /\ buffer = <<>>))
=============================================================================
