------------------------------- MODULE DataCache -------------------------------
(* The cache of market data of one symbol (flipster_rust/src/data_cache.rs).     *)
(* Each feed compares a message with what the cache holds and inserts it, in     *)
(* separate turns of the map's lock; a strategy loop reads three books for a     *)
(* snapshot and keeps the lock of each book it has found until it has read the   *)
(* last.  A quote is its server time, a trade its identifier, 0 is none; the     *)
(* time a message was received is inserted with it and left out.                 *)
EXTENDS Integers, Sequences, SequencesExt

CONSTANTS
  Feeds,         \* pairs <<book, copy>>: who writes which book
  Loops,         \* the strategy loops, of one run or of two that overlap
  Interval,      \* BOOKTICKER_SNAPSHOT_HISTORY_PUSH_MIN_INTERVAL_MS
  MaxAge,        \* BOOKTICKER_SNAPSHOT_HISTORY_MAX_AGE_MS
  MaxSamples,    \* BOOKTICKER_SNAPSHOT_HISTORY_MAX (the age limit is met first)
  MaxTime,       \* bound: server times
  MaxWall        \* bound: the wall clock

ConstantsOK ==
  /\ Feeds \subseteq {"gate", "web", "base", "trade"} \X {1, 2}
  /\ {Interval, MaxAge, MaxSamples, MaxTime, MaxWall} \subseteq Nat \ {0}

VARIABLES
  book,          \* book -> the entry: current and, for gate, the one before
  feed,          \* feed -> stage, last message, previous entry it has read
  loop,          \* loop -> stage, current_time_ms, the snapshot so far
  history,       \* bookticker_snapshot_history
  wall           \* the wall clock

vars == <<book, feed, loop, history, wall>>

Books == {"gate", "web", "base", "trade"}
Times == 0..MaxTime
Snapshots == [gate : Times, prev : Times, web : Times, base : Times]
NoSnapshot == [gate |-> 0, prev |-> 0, web |-> 0, base |-> 0]

TypeOK ==
  /\ book \in [Books -> [cur : Times, prev : Times]]
  /\ feed \in [Feeds -> [at : {"idle", "newer", "previous"}, msg : Times, prev : Times]]
  /\ loop \in [Loops -> [at : {"idle", "gate", "web", "taken"}, time : 0..MaxWall,
                         snap : Snapshots]]
  /\ history \in Seq([time : 0..MaxWall, snap : Snapshots])
  /\ wall \in 0..MaxWall

Init ==
  /\ book = [b \in Books |-> [cur |-> 0, prev |-> 0]]
  /\ feed = [f \in Feeds |-> [at |-> "idle", msg |-> 0, prev |-> 0]]
  /\ loop = [l \in Loops |-> [at |-> "idle", time |-> 0, snap |-> NoSnapshot]]
  /\ history = <<>> /\ wall = 0

Tick ==
  /\ wall < MaxWall /\ wall' = wall + 1
  /\ UNCHANGED <<book, feed, loop, history>>

-----------------------------------------------------------------------------
(* update_bookticker, update_webbookticker, update_trade.                     *)

Inserts(b, held, msg) == IF b = "trade" THEN held # msg ELSE held < msg

(* A connection delivers a book's messages in their order.                    *)
Compare(f, msg) ==
  /\ feed[f].at = "idle" /\ feed[f].msg < msg
  /\ feed' = [feed EXCEPT ![f].msg = msg,
                          ![f].at = IF Inserts(f[1], book[f[1]].cur, msg) THEN "newer" ELSE "idle"]
  /\ UNCHANGED <<book, loop, history, wall>>

ReadPrevious(f) ==
  /\ feed[f].at = "newer" /\ f[1] = "gate"
  /\ feed' = [feed EXCEPT ![f].at = "previous", ![f].prev = book["gate"].cur]
  /\ UNCHANGED <<book, loop, history, wall>>

(* A book is locked while a snapshot that has found it is being read.         *)
Locked(b) == \E l \in Loops : loop[l].at \in (CASE b = "gate" -> {"gate", "web"}
                                                 [] b = "web" -> {"web"}
                                                 [] OTHER -> {})

Insert(f) ==
  /\ feed[f].at = IF f[1] = "gate" THEN "previous" ELSE "newer"
  /\ ~Locked(f[1])
  /\ book' = [book EXCEPT ![f[1]] = [cur |-> feed[f].msg, prev |-> feed[f].prev]]
  /\ feed' = [feed EXCEPT ![f].at = "idle", ![f].prev = 0]
  /\ UNCHANGED <<loop, history, wall>>

-----------------------------------------------------------------------------
(* get_symbol_bookticker_snapshot: None without the gate or the web book.     *)

(* The time was taken for all symbols before this one's turn.                 *)
ReadGate(l, time) ==
  /\ loop[l].at = "idle" /\ book["gate"].cur # 0
  /\ loop' = [loop EXCEPT ![l] = [at |-> "gate", time |-> time,
       snap |-> [NoSnapshot EXCEPT !.gate = book["gate"].cur, !.prev = book["gate"].prev]]]
  /\ UNCHANGED <<book, feed, history, wall>>

ReadWeb(l) ==
  /\ loop[l].at = "gate"
  /\ IF book["web"].cur = 0
     THEN loop' = [loop EXCEPT ![l] = [at |-> "idle", time |-> 0, snap |-> NoSnapshot]]
     ELSE loop' = [loop EXCEPT ![l].at = "web",
                               ![l].snap = [loop[l].snap EXCEPT !.web = book["web"].cur]]
  /\ UNCHANGED <<book, feed, history, wall>>

ReadBase(l) ==
  /\ loop[l].at = "web"
  /\ loop' = [loop EXCEPT ![l].at = "taken",
                          ![l].snap = [loop[l].snap EXCEPT !.base = book["base"].cur]]
  /\ UNCHANGED <<book, feed, history, wall>>

(* push_bookticker_snapshot_history of one sample onto the samples h: one of  *)
(* the same time is replaced, one too early is dropped; then the oldest go,   *)
(* down to the cap and as long as they are too old.                           *)
Push(h, sample) ==
  LET last == IF h = <<>> THEN -Interval ELSE Last(h).time
      kept == IF h # <<>> /\ last = sample.time THEN Front(h) ELSE h
      all  == Append(kept, sample)
      left == {i \in DOMAIN all : i > Len(all) - MaxSamples /\ all[i].time >= sample.time - MaxAge}
  IN  IF last # sample.time /\ sample.time - last < Interval THEN h
      ELSE SubSeq(all, CHOOSE i \in left : \A j \in left : i <= j, Len(all))

PushSample(l) ==
  /\ loop[l].at = "taken"
  /\ history' = Push(history, [time |-> loop[l].time, snap |-> loop[l].snap])
  /\ loop' = [loop EXCEPT ![l] = [at |-> "idle", time |-> 0, snap |-> NoSnapshot]]
  /\ UNCHANGED <<book, feed, wall>>

(* The books are too old, or too far apart: no decision now.                  *)
LookAway(l) ==
  /\ loop[l].at = "taken"
  /\ loop' = [loop EXCEPT ![l] = [at |-> "idle", time |-> 0, snap |-> NoSnapshot]]
  /\ UNCHANGED <<book, feed, history, wall>>

(* get_bookticker_snapshot_before_wall_ms: the last sample that is early      *)
(* enough, 0 for none.                                                        *)
Before(deadline) == SelectLastInSeq(history, LAMBDA s : s.time <= deadline)

Next ==
  \/ Tick
  \/ \E f \in Feeds :
       \/ \E msg \in 1..MaxTime : Compare(f, msg)
       \/ ReadPrevious(f) \/ Insert(f)
  \/ \E l \in Loops :
       \/ \E time \in 0..wall : ReadGate(l, time)
       \/ ReadWeb(l) \/ ReadBase(l) \/ PushSample(l) \/ LookAway(l)

Spec == Init /\ [][Next]_vars

-----------------------------------------------------------------------------
(* Properties.                                                                *)

(* A snapshot is of one moment: what a loop has read is still the book when   *)
(* it reads the last of the three, though nothing locks them together.        *)
OneMoment == \A l \in Loops :
  /\ loop[l].at \in {"gate", "web"} =>
       [cur |-> loop[l].snap.gate, prev |-> loop[l].snap.prev] = book["gate"]
  /\ loop[l].at = "web" => loop[l].snap.web = book["web"].cur

(* With one feed of a book the cache holds the newest message that feed has   *)
(* handled, and the gate book's previous quote is the one just before it:     *)
(* the checks made before an insert are still true when it happens.           *)
NewestKept == \A f \in Feeds : (\A g \in Feeds : g[1] = f[1] => g = f) =>
  /\ feed[f].at = "idle" => book[f[1]].cur = feed[f].msg
  /\ feed[f].at # "idle" => Inserts(f[1], book[f[1]].cur, feed[f].msg)
  /\ feed[f].at = "previous" => feed[f].prev = book[f[1]].cur
  /\ book[f[1]].cur # 0 => book[f[1]].prev < book[f[1]].cur

(* The samples stay apart and in the order of their times, whichever loop     *)
(* pushes them and however late, so that a look back finds the newest sample  *)
(* that is old enough.                                                        *)
LooksBack ==
  /\ \A i \in 1..Len(history) - 1 : history[i + 1].time - history[i].time >= Interval
  /\ history # <<>> => Last(history).time - Head(history).time <= MaxAge
  /\ \A deadline \in 0..MaxWall :
       LET early == {i \in DOMAIN history : history[i].time <= deadline}
       IN  IF early = {} THEN Before(deadline) = 0
           ELSE Before(deadline) \in early
                /\ \A i \in early : history[i].time <= history[Before(deadline)].time
=============================================================================
