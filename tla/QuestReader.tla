------------------------------ MODULE QuestReader ------------------------------
(* collector/src/questdb_reader.rs: how the paper bot reads quotes from QuestDB.  *)
(*   poll     live: each table is asked for the rows after a cursor, which then   *)
(*            is the newest timestamp of the answer                               *)
(*   replay   backtest: two tables are read in chunks and merged in the order of  *)
(*            timestamps, up to a watermark                                       *)
(* A row is <<timestamp, number>>; rows of one table may share a timestamp.  Both *)
(* queries are ordered by timestamp and limited.                                  *)
EXTENDS Integers, Sequences, FiniteSets, SequencesExt, FiniteSetsExt

CONSTANTS
  Uses,          \* subset of {"poll", "replay"}
  MaxTime,       \* bound: timestamps
  MaxRows,       \* bound: rows of a table
  Limit          \* batch_limit

ConstantsOK == {MaxTime, MaxRows, Limit} \subseteq Nat \ {0}

Sides == {"fl", "bn"}      \* follower and hedge table; a poller reads "fl"
Rows == (1..MaxTime) \X (1..MaxRows)

VARIABLES
  use,
  table,         \* side -> set of rows in the database
  cursor,        \* side -> newest timestamp read
  buf,           \* side -> rows read and not sent
  done,          \* sides with nothing left
  sent,          \* <<side, row>> as they were broadcast
  over           \* the replay has returned

vars == <<use, table, cursor, buf, done, sent, over>>

TypeOK ==
  /\ use \in Uses /\ table \in [Sides -> SUBSET Rows]
  /\ cursor \in [Sides -> 0..MaxTime]
  /\ \A s \in Sides : ToSet(buf[s]) \subseteq table[s]
  /\ done \subseteq Sides /\ over \in BOOLEAN
  /\ ToSet(sent) \subseteq Sides \X Rows

(* Rows are numbered in the order of insertion into their table.              *)
Tables == {{<<f[i], i>> : i \in 1..n} : n \in 0..MaxRows, f \in [1..MaxRows -> 1..MaxTime]}

Init ==
  /\ use \in Uses
  /\ IF use = "poll" THEN table = [s \in Sides |-> {}] ELSE table \in [Sides -> Tables]
  /\ cursor = [s \in Sides |-> 0]
  /\ buf = [s \in Sides |-> <<>>] /\ done = {}
  /\ sent = <<>> /\ over = FALSE

Before(p, q) == p[1] < q[1] \/ (p[1] = q[1] /\ p[2] < q[2])
Ordered(S) == SetToSortSeq(S, Before)

(* The query: rows after the cursor, the oldest Limit of them.                *)
Chunk(s) ==
  LET rows == Ordered({r \in table[s] : r[1] > cursor[s]})
  IN  SubSeq(rows, 1, IF Len(rows) < Limit THEN Len(rows) ELSE Limit)

-----------------------------------------------------------------------------
(* Live.                                                                      *)

(* Another process writes a row; its timestamp may be older than others'.     *)
Insert(t) ==
  /\ use = "poll" /\ Cardinality(table["fl"]) < MaxRows
  /\ table' = [table EXCEPT !["fl"] = @ \cup {<<t, Cardinality(@) + 1>>}]
  /\ UNCHANGED <<use, cursor, buf, done, sent, over>>

(* poll_once and the sends; a failed query changes nothing.                   *)
Poll ==
  /\ use = "poll" /\ Chunk("fl") # <<>>
  /\ sent' = sent \o [i \in 1..Len(Chunk("fl")) |-> <<"fl", Chunk("fl")[i]>>]
  /\ cursor' = [cursor EXCEPT !["fl"] = Last(Chunk("fl"))[1]]
  /\ UNCHANGED <<use, table, buf, done, over>>

-----------------------------------------------------------------------------
(* replay_merged.                                                             *)

(* An empty buffer is filled with the next chunk, the follower's first.       *)
Refill(s) ==
  /\ use = "replay" /\ ~over
  /\ buf[s] = <<>> /\ s \notin done
  /\ s = "bn" => (buf["fl"] # <<>> \/ "fl" \in done)
  /\ IF Chunk(s) = <<>>
     THEN done' = done \cup {s} /\ UNCHANGED <<buf, cursor>>
     ELSE /\ buf' = [buf EXCEPT ![s] = Chunk(s)]
          /\ cursor' = [cursor EXCEPT ![s] = Last(Chunk(s))[1]]
          /\ UNCHANGED done
  /\ UNCHANGED <<use, table, sent, over>>

(* A failed query ends the replay with an error.                              *)
QueryFails ==
  /\ use = "replay" /\ ~over
  /\ \E s \in Sides : buf[s] = <<>> /\ s \notin done
  /\ over' = TRUE
  /\ UNCHANGED <<use, table, cursor, buf, done, sent>>

Filled == \A s \in Sides : buf[s] # <<>> \/ s \in done

(* The earliest cursor of the tables that are not done.                       *)
Watermark == IF done = Sides THEN MaxTime ELSE Min({cursor[s] : s \in Sides \ done})

(* The rows of both buffers up to the watermark, at equal timestamps the      *)
(* follower's first.                                                          *)
Earlier(p, q) ==
  \/ p[2][1] < q[2][1]
  \/ p[2][1] = q[2][1] /\ p[1] = "fl" /\ q[1] = "bn"
  \/ p[2][1] = q[2][1] /\ p[1] = q[1] /\ p[2][2] < q[2][2]

Due == {p \in Sides \X Rows : p[2] \in ToSet(buf[p[1]]) /\ p[2][1] <= Watermark}

Drain ==
  /\ use = "replay" /\ ~over /\ Filled
  /\ \E s \in Sides : buf[s] # <<>>
  /\ sent' = sent \o SetToSortSeq(Due, Earlier)
  /\ buf' = [s \in Sides |-> SelectSeq(buf[s], LAMBDA r : r[1] > Watermark)]
  /\ UNCHANGED <<use, table, cursor, done, over>>

Finish ==
  /\ use = "replay" /\ ~over
  /\ done = Sides /\ \A s \in Sides : buf[s] = <<>>
  /\ over' = TRUE
  /\ UNCHANGED <<use, table, cursor, buf, done, sent>>

Next ==
  \/ \E t \in 1..MaxTime : Insert(t)
  \/ Poll \/ QueryFails \/ Drain \/ Finish
  \/ \E s \in Sides : Refill(s)

Spec == Init /\ [][Next]_vars

Fairness == WF_vars(Drain) /\ WF_vars(Finish) /\ \A s \in Sides : WF_vars(Refill(s))

-----------------------------------------------------------------------------
(* "merged in timestamp order across flipster + hedge tables": what is broadcast   *)
(* never goes back in time, over all chunks of both tables, and no row comes twice *)
(* (replay_merged; the poll keeps the order of one table).                         *)
InOrder ==
  \A i, j \in 1..Len(sent) :
    i < j => sent[i][2][1] <= sent[j][2][1] /\ sent[i] # sent[j]

(* When the replay is through, a row is missing only if a chunk ended, at its      *)
(* limit, among the rows of its timestamp (fetch_chunk: timestamp > cursor).       *)
OnlyTiesMissed ==
  done = Sides /\ over =>
    \A s \in Sides : \A r \in table[s] :
      <<s, r>> \in ToSet(sent)
        \/ \E q \in table[s] : q[1] = r[1] /\ <<s, q>> \in ToSet(sent)

(* The replay ends: a watermark below both buffers never stops it.                 *)
ReplayEnds == use = "replay" => <>over
=============================================================================
