---------------------------- MODULE AccountsProofs ----------------------------
(***************************************************************************)
(* The invariants of MCAccounts and its action property, for any values of *)
(* its constants.  Every component keeps its own inductive invariant,      *)
(* whichever is in focus, since a step of one is a stutter of the others.  *)
(*                                                                         *)
(* ThreadsInv   only the last generation of a strategy's loop trades       *)
(* RefreshInv   what a refresh collected covers what is held or in flight  *)
(* QuotesInv    a wire carries at most a cancel and the order after it,    *)
(*              and a quote that no cancel precedes is paid for by a loss  *)
(* GateInv      every order of a closer is reduce-only, whatever its map   *)
(*              was, and everything in flight has its type                 *)
(* MirrorInv    what the messages in flight will do to the mirror makes it *)
(*              equal to the account, but for what a gap hid               *)
(* AccountInv   opened and closed positions, with the events still to be   *)
(*              sent, balance the positions                                *)
(***************************************************************************)
EXTENDS MCAccounts, FiniteSetTheorems, SequenceTheorems, FunctionTheorems, TLAPS

-----------------------------------------------------------------------------
(* Sequences                                                               *)

\* Short sequences.
LEMMA Tuples ==
  ASSUME NEW m, NEW n
  PROVE  /\ Append(<<>>, m) = <<m>> /\ Append(<<m>>, n) = <<m, n>>
         /\ Tail(<<m>>) = <<>> /\ Tail(<<m, n>>) = <<n>>
         /\ Head(<<m>>) = m /\ Head(<<m, n>>) = m
         /\ <<m>> # <<>> /\ <<m, n>> # <<>> /\ (<<m>> = <<n>> => m = n)
         /\ \A k : <<k>> # <<m, n>>
         /\ Len(<<>>) = 0 /\ Len(<<m>>) = 1 /\ Len(<<m, n>>) = 2
<1>1. Append(<<>>, m) = <<m>> /\ Len(<<>>) = 0 OBVIOUS
<1>2. Append(<<m>>, n) = <<m, n>> /\ Len(<<m>>) = 1
  <2> DEFINE S == {m, n}  s == Append(<<m>>, n)  t == <<m, n>>
  <2>1. <<m>> \in Seq(S) /\ Len(<<m>>) = 1 OBVIOUS
  <2>2. s \in Seq(S) /\ Len(s) = 2 /\ s[1] = m /\ s[2] = n
    BY <2>1, AppendProperties
  <2>3. t \in Seq(S) /\ Len(t) = 2 /\ t[1] = m /\ t[2] = n OBVIOUS
  <2>4. \A i \in 1..Len(s) : s[i] = t[i]
    <3>1. \A i \in 1..2 : i = 1 \/ i = 2 OBVIOUS
    <3>2. QED BY <2>2, <2>3, <3>1
  <2>5. s = t
    <3> HIDE DEF s, t, S
    <3>1. QED BY <2>2, <2>3, <2>4, SeqEqual
  <2>6. QED BY <2>1, <2>5
<1>3. Tail(<<m>>) = <<>> /\ Head(<<m>>) = m OBVIOUS
<1>4. Tail(<<m, n>>) = <<n>> OBVIOUS
<1>5. Head(<<m, n>>) = m /\ Len(<<m, n>>) = 2 OBVIOUS
<1>6. <<m>> # <<>> /\ <<m, n>> # <<>> OBVIOUS
<1>7. <<m>> = <<n>> => m = n OBVIOUS
<1>8. \A k : <<k>> # <<m, n>> OBVIOUS
<1>9. Append(<<>>, m) = <<m>> /\ Append(<<m>>, n) = <<m, n>> BY <1>1, <1>2
<1>10. Tail(<<m>>) = <<>> /\ Tail(<<m, n>>) = <<n>> BY <1>3, <1>4
<1>11. Head(<<m>>) = m /\ Head(<<m, n>>) = m BY <1>3, <1>5
<1>12. Len(<<>>) = 0 /\ Len(<<m>>) = 1 /\ Len(<<m, n>>) = 2 BY <1>1, <1>2, <1>5
<1>13. <<m>> # <<>> /\ <<m, n>> # <<>> /\ (<<m>> = <<n>> => m = n) BY <1>6, <1>7
<1> QED BY Zenon, <1>8, <1>9, <1>10, <1>11, <1>12, <1>13

-----------------------------------------------------------------------------
(* The threads of a strategy                                               *)

\* The last generation is the only one whose loop has not ended; it goes on while the
\* flag is set, and keeps its workers; the restart thread clears the flag when the loop
\* trades.
ThreadsInv ==
    /\ Threads!TypeOK
    /\ \A s \in LoopIds : s # t_current => Threads!LoopGone(s)
    /\ t_keeper = "sleep" => t_running /\ ~Threads!LoopGone(t_current)
    /\ t_keeper = "paused" => ~t_running /\ t_loop[t_current] \in {"main", "gone"}
    /\ t_running => \A w \in Workers : t_worker[t_current][w] \in {"idle", "send"}

\* The threads start with their invariant.
LEMMA ThreadsInit == Threads!ConstantsOK /\ Threads!Init => ThreadsInv
<1> SUFFICES ASSUME Threads!ConstantsOK, Threads!Init PROVE ThreadsInv
  OBVIOUS
<1> USE DEF Threads!Init
<1>1. t_loop \in [LoopIds -> {"none", "warm", "wait"}]
  BY DEF Threads!FirstAt
<1>2. \A s \in LoopIds : t_worker[s] \in [Workers -> {"none", "idle"}]
  OBVIOUS
<1>3. t_worker \in [LoopIds -> [Workers -> {"none", "idle", "send", "gone"}]]
  BY <1>2
<1>4. t_current \in LoopIds /\ \A w \in Workers : t_worker[t_current][w] = "idle"
  OBVIOUS
<1>5. ~Threads!LoopGone(t_current) /\ \A s \in LoopIds : s # t_current => Threads!LoopGone(s)
  BY DEF Threads!LoopGone, Threads!FirstAt
<1>6. t_queue \in [LoopIds -> 0..QueueCap]
  BY DEF Threads!ConstantsOK
<1>7. Threads!TypeOK
  BY <1>1, <1>3, <1>4, <1>6 DEF Threads!TypeOK
<1>8. QED BY <1>4, <1>5, <1>7 DEF ThreadsInv

\* Every step of a thread keeps it.
LEMMA ThreadsStep ==
  Threads!ConstantsOK /\ ThreadsInv /\ [Threads!Next]_(Threads!vars) => ThreadsInv'
<1> SUFFICES ASSUME Threads!ConstantsOK, ThreadsInv, [Threads!Next]_(Threads!vars)
             PROVE  ThreadsInv'
  OBVIOUS
<1> USE DEF Threads!ConstantsOK, ThreadsInv, Threads!TypeOK, Threads!LoopGone
<1>1. CASE Threads!Clear BY <1>1 DEF Threads!Clear, Threads!Warmed
<1>2. CASE Threads!DataArrives BY <1>2 DEF Threads!DataArrives
<1>3. CASE Threads!OrderUpdate BY <1>3 DEF Threads!OrderUpdate
<1>4. ASSUME NEW in \in BOOLEAN, Threads!LoginStatus(in) PROVE ThreadsInv'
  BY <1>4 DEF Threads!LoginStatus
<1>5. ASSUME NEW in \in BOOLEAN, Threads!HealthOrder(in) PROVE ThreadsInv'
  BY <1>5 DEF Threads!HealthOrder
<1>6. ASSUME NEW s \in LoopIds, Threads!Restart(s) PROVE ThreadsInv'
  BY <1>6 DEF Threads!Restart, Threads!Noticed, Threads!Ended, Threads!start_internal,
              Threads!FirstAt
<1>7. ASSUME NEW s \in LoopIds, Threads!WarmUp(s) PROVE ThreadsInv'
  BY <1>7 DEF Threads!WarmUp, Threads!Leave
<1>8. ASSUME NEW s \in LoopIds, Threads!WaitForData(s) PROVE ThreadsInv'
  BY <1>8 DEF Threads!WaitForData, Threads!Leave
<1>9. ASSUME NEW s \in LoopIds, Threads!Round(s) PROVE ThreadsInv'
  BY <1>9 DEF Threads!Round
<1>10. ASSUME NEW s \in LoopIds, Threads!LeaveLoop(s) PROVE ThreadsInv'
  BY <1>10 DEF Threads!LeaveLoop, Threads!Leave
<1>11. ASSUME NEW s \in LoopIds, NEW w \in Workers, NEW skip \in BOOLEAN, Threads!Take(s, w, skip)
       PROVE ThreadsInv'
  BY <1>11 DEF Threads!Take, Threads!Put
<1>12. ASSUME NEW s \in LoopIds, NEW w \in Workers, Threads!Sent(s, w) PROVE ThreadsInv'
  BY <1>12 DEF Threads!Sent, Threads!Put
<1>13. ASSUME NEW s \in LoopIds, NEW w \in Workers, Threads!WorkerEnds(s, w) PROVE ThreadsInv'
  BY <1>13 DEF Threads!WorkerEnds, Threads!Put
<1>14. CASE UNCHANGED Threads!vars BY <1>14 DEF Threads!vars
<1>15. QED
  BY <1>1, <1>2, <1>3, <1>4, <1>5, <1>6, <1>7, <1>8, <1>9, <1>10, <1>11, <1>12, <1>13,
     <1>14 DEF Threads!Next

\* It leaves one loop that trades.
LEMMA ThreadsShows ==
  Threads!ConstantsOK /\ ThreadsInv => Threads!TypeOK /\ Threads!OneTrader
BY DEF Threads!ConstantsOK, ThreadsInv, Threads!TypeOK, Threads!OneTrader, Threads!LoopGone

-----------------------------------------------------------------------------
(* The watched symbols                                                     *)

\* While a refresh is under way, what it has collected contains every symbol held by an
\* account it has looked at, but for the fills that came after.
Collected ==
    \A l \in (r_managed \cap Refresh!Configured(r_config)) \ r_todo, s \in Symbols :
        <<l, s>> \in r_held \ r_late => s \in r_next

RefreshInv ==
    /\ Refresh!TypeOK
    /\ Refresh!HeldIsWatched
    /\ ~Refresh!Idle => Collected

\* A refresh starts with its invariant.
LEMMA RefreshInit == Refresh!ConstantsOK /\ Refresh!Init => RefreshInv
<1> SUFFICES ASSUME Refresh!ConstantsOK, Refresh!Init PROVE RefreshInv
  OBVIOUS
<1>1. Refresh!Idle BY DEF Refresh!Init, Refresh!Idle
<1>2. r_config \subseteq Users \X Symbols
  BY DEF Refresh!ConstantsOK, Refresh!Init
<1>3. Refresh!collect_symbols(r_config) \subseteq Symbols
  BY <1>2 DEF Refresh!collect_symbols
<1>4. r_managed \subseteq Users
  BY <1>2 DEF Refresh!Init, Refresh!Configured
<1>5. Refresh!TypeOK
  BY <1>1, <1>3, <1>4 DEF Refresh!Init, Refresh!TypeOK, Refresh!OfLogin
<1>6. Refresh!HeldIsWatched
  BY <1>4 DEF Refresh!Init, Refresh!HeldIsWatched, Refresh!OfLogin
<1>7. QED BY <1>1, <1>5, <1>6 DEF RefreshInv

\* Every step of a refresh keeps it.
LEMMA RefreshStep ==
  Refresh!ConstantsOK /\ RefreshInv /\ [Refresh!Next]_(Refresh!vars) => RefreshInv'
<1> SUFFICES ASSUME Refresh!ConstantsOK, RefreshInv, [Refresh!Next]_(Refresh!vars)
             PROVE  RefreshInv'
  OBVIOUS
<1> USE DEF RefreshInv, Refresh!TypeOK, Refresh!HeldIsWatched, Refresh!Idle, Collected
<1>1. ASSUME NEW new \in Offers, Refresh!Load(new) PROVE RefreshInv'
  <2>1. new \subseteq Users \X Symbols BY DEF Refresh!ConstantsOK
  <2>2. Refresh!collect_symbols(new) \subseteq Symbols
    BY <2>1 DEF Refresh!collect_symbols
  <2>3. ~Refresh!Idle' BY <1>1, <2>2 DEF Refresh!Load, Refresh!ConstantsOK, Refresh!Nothing
  <2>4. Refresh!Configured(new) \subseteq Users BY <2>1 DEF Refresh!Configured
  <2>5. QED BY <1>1, <2>2, <2>3, <2>4 DEF Refresh!Load, Refresh!Configured
<1>2. ASSUME NEW l \in Users, Refresh!Collect(l) PROVE RefreshInv'
  <2>1. r_next \subseteq Symbols /\ r_next' \subseteq Symbols
    BY <1>2 DEF Refresh!Collect, Refresh!OfLogin
  <2>2. ~Refresh!Idle' BY <2>1 DEF Refresh!ConstantsOK
  <2>3. QED BY <1>2, <2>1, <2>2 DEF Refresh!Collect, Refresh!Configured, Refresh!OfLogin
<1>3. CASE Refresh!Write
  BY <1>3 DEF Refresh!Write, Refresh!Configured
<1>4. ASSUME NEW l \in Users, NEW s \in Symbols, Refresh!Open(l, s) PROVE RefreshInv'
  BY <1>4 DEF Refresh!Open, Refresh!Configured
<1>5. ASSUME NEW l \in Users, NEW s \in Symbols, Refresh!Fill(l, s) PROVE RefreshInv'
  BY <1>5 DEF Refresh!Fill, Refresh!Looked, Refresh!Configured
<1>6. ASSUME NEW l \in Users, NEW s \in Symbols, Refresh!Close(l, s) PROVE RefreshInv'
  BY <1>6 DEF Refresh!Close, Refresh!Configured
<1>7. CASE UNCHANGED Refresh!vars
  BY <1>7 DEF Refresh!vars, Refresh!Configured
<1>8. QED BY <1>1, <1>2, <1>3, <1>4, <1>5, <1>6, <1>7 DEF Refresh!Next

-----------------------------------------------------------------------------
(* The quotes of the closing program                                       *)

\* The visit of account a is between its cancel and its new order.
Visited(a) == q_placing # 0 /\ Quotes!Account = a

\* What may be in the queue of an account: a cancel, an order, or one before the other.
ShortWire(w) ==
    \/ w = <<>> \/ w = <<Quotes!CancelAll>>
    \/ \E n \in Nat \ {0} : w = <<n>> \/ w = <<Quotes!CancelAll, n>>

\* The types of what is counted, shown and queued.
QuotesTypes ==
    /\ q_placing \in Nat /\ q_last \in Int /\ q_losses \in Nat
    /\ q_real \in [Quotes!Logins -> Int] /\ q_mirror \in [Quotes!Logins -> Int]
    /\ q_link \in [Quotes!Logins -> BOOLEAN]
    /\ q_wire \in [Quotes!Logins -> Seq(Nat)] /\ q_quotes \in [Quotes!Logins -> Seq(Nat \ {0})]

\* The pass has its books while it is under way.
LookTypes ==
    /\ q_look.at \in 0..Len(Accounts)
    /\ q_look.at = 0 => q_look = Quotes!NotLooking
    /\ q_look.at # 0 =>
         /\ q_look.now \in Books /\ q_look.before \in Books /\ q_look.slow \in BOOLEAN
         /\ q_look = [at |-> q_look.at, now |-> q_look.now, before |-> q_look.before,
                      slow |-> q_look.slow]

\* The queues of the accounts the pass has still to visit are empty.
QuotesTurn ==
    /\ q_placing # 0 => q_look.at # 0
    /\ \A i \in DOMAIN Accounts :
          q_look.at # 0 /\ (i > q_look.at \/ (i = q_look.at /\ q_placing = 0)) =>
             q_wire[Accounts[i]] = <<>>

\* An order whose cancel is not before it in the queue was sent after a connection was
\* lost, and that loss has not been used up by an earlier one.
AccountQuotes(a) ==
    /\ ShortWire(q_wire[a])
    /\ Len(q_quotes[a]) <= 1 + q_losses
    /\ \A n \in Nat \ {0} : q_wire[a] = <<n>> => Len(q_quotes[a]) <= q_losses
    /\ ~q_link[a] => q_wire[a] = <<>> /\ Len(q_quotes[a]) <= q_losses
    /\ Visited(a) => \/ q_wire[a] = <<Quotes!CancelAll>>
                     \/ q_wire[a] = <<>> /\ Len(q_quotes[a]) <= q_losses

QuotesInv ==
    QuotesTypes /\ LookTypes /\ QuotesTurn /\ \A a \in Quotes!Logins : AccountQuotes(a)

\* The closing program starts with its invariant.
LEMMA QuotesInit == Quotes!ConstantsOK /\ Quotes!Init => QuotesInv
<1> SUFFICES ASSUME Quotes!ConstantsOK, Quotes!Init PROVE QuotesInv
  OBVIOUS
<1> USE DEF Quotes!ConstantsOK, Quotes!Init
<1>1. q_real \in [Quotes!Logins -> Int] /\ q_mirror \in [Quotes!Logins -> Int]
  OBVIOUS
<1>2. q_look.at = 0 /\ Len(Accounts) \in Nat
  BY DEF Quotes!NotLooking
<1>3. \A a \in Quotes!Logins : q_wire[a] = <<>> /\ q_quotes[a] = <<>> /\ q_link[a] = TRUE
  OBVIOUS
<1>4. QuotesTypes BY <1>1, <1>3 DEF QuotesTypes, Quotes!NoPrice
<1>5. LookTypes BY <1>2 DEF LookTypes
<1>6. \A a \in Quotes!Logins : ~Visited(a) BY DEF Visited
<1>7. QED
  BY <1>1, <1>2, <1>3, <1>4, <1>5, <1>6
     DEF QuotesInv, QuotesTurn, AccountQuotes, ShortWire

\* The account the pass has come to.
LEMMA AccountAt ==
  ASSUME Quotes!ConstantsOK, QuotesInv, q_look.at # 0
  PROVE  /\ q_look.at \in DOMAIN Accounts /\ q_look.at \in 1..Len(Accounts)
         /\ Len(Accounts) \in Nat /\ DOMAIN Accounts = 1..Len(Accounts)
         /\ Quotes!Account \in Quotes!Logins
         /\ \A i \in DOMAIN Accounts : Accounts[i] = Quotes!Account => i = q_look.at
<1>1. Len(Accounts) \in Nat /\ DOMAIN Accounts = 1..Len(Accounts)
  BY DEF Quotes!ConstantsOK
<1>2. q_look.at \in 1..Len(Accounts) BY <1>1 DEF QuotesInv, LookTypes
<1>3. QED BY <1>1, <1>2 DEF Quotes!Account, Quotes!Logins, Quotes!ConstantsOK

\* A new price and the size of a quote are numbers.
LEMMA QuotePrices ==
  ASSUME Quotes!ConstantsOK, QuotesInv, q_look.at # 0, NEW a \in Quotes!Logins
  PROVE  /\ Quotes!Price(Quotes!Side(a), q_look.now) \in Int
         /\ Quotes!QuoteSize(a) \in Nat
<1>1. q_look.now \in Books BY DEF QuotesInv, LookTypes
<1>2. q_look.now.bid \in Int /\ q_look.now.ask \in Int /\ Slippage \in Nat
  BY <1>1 DEF Quotes!ConstantsOK
<1>3. q_mirror[a] \in Int /\ Divider \in Nat \ {0}
  BY DEF QuotesInv, QuotesTypes, Quotes!ConstantsOK
<1>4. Quotes!Price(Quotes!Side(a), q_look.now) \in Int
  BY <1>2 DEF Quotes!Price, Quotes!Spread, Quotes!Side
<1>5. Quotes!QuoteSize(a) \in Nat BY <1>3 DEF Quotes!QuoteSize, Quotes!Abs
<1>6. QED BY <1>4, <1>5

\* The pass goes on to the next account, or ends.
LEMMA OnwardsDoes ==
  ASSUME Quotes!ConstantsOK, QuotesInv, q_look.at # 0, Quotes!Onwards
  PROVE  LookTypes' /\ q_look'.at \in {0, q_look.at + 1}
<1>1. q_look.at \in 1..Len(Accounts) /\ Len(Accounts) \in Nat
  BY AccountAt
<1>2. CASE q_look.at = Len(Accounts)
  <2>1. q_look' = Quotes!NotLooking BY <1>2 DEF Quotes!Onwards
  <2>2. q_look'.at = 0 BY <2>1 DEF Quotes!NotLooking
  <2>3. QED BY <1>1, <2>1, <2>2 DEF LookTypes
<1>3. CASE q_look.at # Len(Accounts)
  <2> DEFINE k == q_look.at  n == q_look.now  b == q_look.before  s == q_look.slow
  <2>1. q_look = [at |-> k, now |-> n, before |-> b, slow |-> s]
    BY DEF QuotesInv, LookTypes
  <2>2. q_look' = [at |-> k + 1, now |-> n, before |-> b, slow |-> s]
    <3>1. q_look' = [q_look EXCEPT !.at = k + 1] BY <1>3 DEF Quotes!Onwards
    <3>2. QED BY <2>1, <3>1
  <2>3. q_look'.at = k + 1 /\ q_look'.now = n /\ q_look'.before = b /\ q_look'.slow = s
    BY <2>2
  <2>4. k + 1 \in 1..Len(Accounts) BY <1>1, <1>3
  <2>5. QED BY <2>2, <2>3, <2>4, <1>1 DEF LookTypes, QuotesInv
<1>4. QED BY <1>2, <1>3

\* A pass begins.
LEMMA LookStep ==
  ASSUME Quotes!ConstantsOK, QuotesInv, NEW now \in Books, NEW before \in Books,
         NEW slow \in Lags, Quotes!Look(now, before, slow)
  PROVE  QuotesInv'
<1> USE DEF Quotes!Look
<1>1. q_look' = [at |-> 1, now |-> now, before |-> before, slow |-> slow]
  OBVIOUS
<1>2. q_look'.at = 1 /\ q_look'.now = now /\ q_look'.before = before /\ q_look'.slow = slow
  BY <1>1
<1>3. 1 \in 0..Len(Accounts) BY DEF Quotes!ConstantsOK
<1>4. QuotesTypes' /\ LookTypes'
  <2>1. QuotesTypes' BY DEF QuotesInv, QuotesTypes
  <2>2. now \in Books /\ before \in Books /\ slow \in BOOLEAN BY DEF Quotes!ConstantsOK
  <2>3. QED BY <1>1, <1>2, <1>3, <2>1, <2>2 DEF LookTypes
<1>5. \A i \in DOMAIN Accounts : q_wire'[Accounts[i]] = <<>>
  BY DEF Quotes!Logins
<1>6. q_placing = 0
  BY DEF QuotesInv, QuotesTurn, Quotes!NotLooking, Quotes!Look
<1>7. QuotesTurn' BY <1>2, <1>5, <1>6 DEF QuotesTurn
<1>8. \A a \in Quotes!Logins : ~Visited(a)' BY <1>6 DEF Visited
<1>9. QED BY <1>4, <1>7, <1>8 DEF QuotesInv, AccountQuotes

\* A request reaches the queue of a connected account.
LEMMA SentDoes ==
  ASSUME QuotesInv, NEW a \in Quotes!Logins, NEW req \in Nat
  PROVE  LET w == Quotes!Sent(a, req) IN
         /\ w \in [Quotes!Logins -> Seq(Nat)]
         /\ \A b \in Quotes!Logins : b # a => w[b] = q_wire[b]
         /\ w[a] = IF q_link[a] THEN Append(q_wire[a], req) ELSE q_wire[a]
BY DEF QuotesInv, QuotesTypes, Quotes!Sent

\* The visit of an account, which cancels before it orders.
LEMMA VisitStep ==
  ASSUME Quotes!ConstantsOK, QuotesInv, Quotes!Visit
  PROVE  QuotesInv'
<1>0. PICK a : a = Quotes!Account OBVIOUS
<1>1. q_look.at # 0 /\ q_placing = 0 /\ UNCHANGED <<q_real, q_mirror, q_link, q_quotes, q_losses>>
  BY DEF Quotes!Visit
<1>2. /\ a \in Quotes!Logins /\ q_look.at \in DOMAIN Accounts
      /\ \A i \in DOMAIN Accounts : Accounts[i] = a => i = q_look.at
  BY <1>0, <1>1, AccountAt
<1>3. Accounts[q_look.at] = a BY <1>0 DEF Quotes!Account
<1>4. q_wire[a] = <<>> BY <1>1, <1>2, <1>3 DEF QuotesInv, QuotesTurn
<1>5. Quotes!Price(Quotes!Side(a), q_look.now) \in Int /\ Quotes!QuoteSize(a) \in Nat
  BY <1>1, <1>2, QuotePrices
<1>6. \/ q_wire' = q_wire \/ q_wire' = Quotes!Sent(a, Quotes!CancelAll)
  BY <1>0 DEF Quotes!Visit
<1>7. /\ q_wire' \in [Quotes!Logins -> Seq(Nat)]
      /\ \A b \in Quotes!Logins : b # a => q_wire'[b] = q_wire[b]
      /\ q_wire'[a] = <<>> \/ q_wire'[a] = <<Quotes!CancelAll>>
      /\ ~q_link[a] => q_wire'[a] = <<>>
  <2>1. CASE q_wire' = q_wire BY <1>2, <1>4, <2>1 DEF QuotesInv, QuotesTypes
  <2>2. CASE q_wire' = Quotes!Sent(a, Quotes!CancelAll)
    <3>1. Quotes!CancelAll \in Nat BY DEF Quotes!CancelAll
    <3>2. Append(q_wire[a], Quotes!CancelAll) = <<Quotes!CancelAll>> BY <1>4, Tuples
    <3>3. QED BY <1>2, <1>4, <2>2, <3>1, <3>2, SentDoes
  <2>3. QED BY <1>6, <2>1, <2>2
<1>8. q_last' \in Int
  BY <1>0, <1>5 DEF Quotes!Visit, QuotesInv, QuotesTypes
<1>9. \A i \in DOMAIN Accounts : i > q_look.at => q_wire'[Accounts[i]] = <<>>
  <2> SUFFICES ASSUME NEW i \in DOMAIN Accounts, i > q_look.at PROVE q_wire'[Accounts[i]] = <<>>
    OBVIOUS
  <2>1. q_look.at \in Nat BY <1>1, AccountAt
  <2>2. Accounts[i] # a /\ Accounts[i] \in Quotes!Logins BY <1>2, <2>1 DEF Quotes!Logins
  <2>3. QED BY <1>1, <1>7, <2>2 DEF QuotesInv, QuotesTurn
<1>10. CASE Quotes!Onwards /\ q_placing' = 0
  <2>1. QuotesTypes' BY <1>1, <1>7, <1>8, <1>10 DEF QuotesInv, QuotesTypes
  <2>2. QuotesTurn'
    BY <1>1, <1>2, <1>9, <1>10, OnwardsDoes, AccountAt DEF QuotesTurn
  <2>6. LookTypes' BY <1>1, <1>10, OnwardsDoes
  <2>3. \A b \in Quotes!Logins : ~Visited(b)' BY <1>10 DEF Visited
  <2>4. ASSUME NEW b \in Quotes!Logins PROVE AccountQuotes(b)'
    <3>1. CASE b = a
      <4>1. \A n \in Nat \ {0} : <<n>> # <<Quotes!CancelAll>> /\ <<n>> # <<>>
        BY Tuples DEF Quotes!CancelAll
      <4>2. AccountQuotes(a) BY <1>2 DEF QuotesInv
      <4>3. QED BY <1>1, <1>2, <1>7, <2>3, <3>1, <4>1, <4>2 DEF AccountQuotes, ShortWire
    <3>2. CASE b # a BY <1>1, <1>2, <1>7, <2>3, <3>2 DEF QuotesInv, AccountQuotes
    <3>3. QED BY <3>1, <3>2
  <2>5. QED BY <2>1, <2>2, <2>4, <2>6 DEF QuotesInv
<1>11. CASE /\ q_look' = q_look /\ q_placing' = Quotes!QuoteSize(a) /\ q_placing' # 0
            /\ q_wire' = Quotes!Sent(a, Quotes!CancelAll)
  <2>1. QuotesTypes'
    BY <1>1, <1>5, <1>7, <1>8, <1>11 DEF QuotesInv, QuotesTypes
  <2>2. QuotesTurn' BY <1>1, <1>9, <1>11 DEF QuotesTurn
  <2>3. \A b \in Quotes!Logins : Visited(b)' => b = a
    BY <1>0, <1>11 DEF Visited, Quotes!Account
  <2>4. q_wire'[a] = IF q_link[a] THEN <<Quotes!CancelAll>> ELSE <<>>
    <3>1. Quotes!CancelAll \in Nat BY DEF Quotes!CancelAll
    <3>2. Append(q_wire[a], Quotes!CancelAll) = <<Quotes!CancelAll>> BY <1>4, Tuples
    <3>3. QED BY <1>2, <1>4, <1>11, <3>1, <3>2, SentDoes
  <2>5. ASSUME NEW b \in Quotes!Logins PROVE AccountQuotes(b)'
    <3>1. CASE b = a
      BY <1>1, <1>2, <1>7, <2>4, <3>1, Tuples
         DEF QuotesInv, QuotesTypes, AccountQuotes, ShortWire, Quotes!CancelAll
    <3>2. CASE b # a BY <1>1, <1>2, <1>7, <2>3, <3>2 DEF QuotesInv, AccountQuotes
    <3>3. QED BY <3>1, <3>2
  <2>6. LookTypes' BY <1>11 DEF QuotesInv, LookTypes
  <2>7. QED BY <2>1, <2>2, <2>5, <2>6 DEF QuotesInv
<1>12. \/ Quotes!Onwards /\ q_placing' = 0
       \/ /\ q_look' = q_look /\ q_placing' = Quotes!QuoteSize(a) /\ q_placing' # 0
          /\ q_wire' = Quotes!Sent(a, Quotes!CancelAll)
  BY <1>0, <1>1, <1>5 DEF Quotes!Visit, Quotes!ConstantsOK
<1>13. QED BY <1>10, <1>11, <1>12

\* The new order of a visit follows its cancel.
LEMMA PlaceStep ==
  ASSUME Quotes!ConstantsOK, QuotesInv, Quotes!Place
  PROVE  QuotesInv'
<1>0. PICK a : a = Quotes!Account OBVIOUS
<1>1. /\ q_placing # 0 /\ q_placing' = 0 /\ q_wire' = Quotes!Sent(a, q_placing)
      /\ Quotes!Onwards /\ UNCHANGED <<q_last, q_real, q_mirror, q_link, q_quotes, q_losses>>
  BY <1>0 DEF Quotes!Place
<1>2. q_look.at # 0 /\ q_placing \in Nat
  BY <1>1 DEF QuotesInv, QuotesTurn, QuotesTypes
<1>3. /\ a \in Quotes!Logins /\ q_look.at \in DOMAIN Accounts
      /\ \A i \in DOMAIN Accounts : Accounts[i] = a => i = q_look.at
  BY <1>0, <1>2, AccountAt
<1>4. Accounts[q_look.at] = a BY <1>0 DEF Quotes!Account
<1>5. Visited(a) BY <1>0, <1>1 DEF Visited
<1>6. /\ q_wire' \in [Quotes!Logins -> Seq(Nat)]
      /\ \A b \in Quotes!Logins : b # a => q_wire'[b] = q_wire[b]
      /\ q_wire'[a] = IF q_link[a] THEN Append(q_wire[a], q_placing) ELSE q_wire[a]
  BY <1>1, <1>2, <1>3, SentDoes
<1>7. \A i \in DOMAIN Accounts : i > q_look.at => q_wire'[Accounts[i]] = <<>>
  <2> SUFFICES ASSUME NEW i \in DOMAIN Accounts, i > q_look.at PROVE q_wire'[Accounts[i]] = <<>>
    OBVIOUS
  <2>1. q_look.at \in Nat BY <1>2, AccountAt
  <2>2. Accounts[i] # a /\ Accounts[i] \in Quotes!Logins BY <1>3, <2>1 DEF Quotes!Logins
  <2>3. QED BY <1>2, <1>6, <2>2 DEF QuotesInv, QuotesTurn
<1>8. QuotesTypes'
  BY <1>1, <1>2, <1>6 DEF QuotesInv, QuotesTypes
<1>9. QuotesTurn'
  BY <1>1, <1>2, <1>3, <1>7, OnwardsDoes, AccountAt DEF QuotesTurn
<1>10. \A b \in Quotes!Logins : ~Visited(b)' BY <1>1 DEF Visited
<1>11. AccountQuotes(a)'
  <2>1. AccountQuotes(a) BY <1>3 DEF QuotesInv
  <2>2. CASE ~q_link[a] BY <1>1, <1>6, <1>10, <2>1, <2>2, <1>3 DEF AccountQuotes
  <2>3. CASE q_link[a] /\ q_wire[a] = <<>> /\ Len(q_quotes[a]) <= q_losses
    <3>1. q_wire'[a] = <<q_placing>> BY <1>6, <2>3, Tuples
    <3>2. QED BY <1>1, <1>2, <1>3, <1>10, <2>1, <2>3, <3>1, Tuples DEF AccountQuotes, ShortWire, Quotes!CancelAll
  <2>4. CASE q_link[a] /\ q_wire[a] = <<Quotes!CancelAll>>
    <3>1. q_wire'[a] = <<Quotes!CancelAll, q_placing>>
      <4>1. Append(<<Quotes!CancelAll>>, q_placing) = <<Quotes!CancelAll, q_placing>> BY Tuples
      <4>2. QED BY <1>6, <2>4, <4>1
    <3>2. QED BY <1>1, <1>2, <1>3, <1>10, <2>1, <2>4, <3>1, Tuples DEF AccountQuotes, ShortWire, Quotes!CancelAll
  <2>5. QED BY <1>5, <2>1, <2>2, <2>3, <2>4 DEF AccountQuotes
<1>12. ASSUME NEW b \in Quotes!Logins, b # a PROVE AccountQuotes(b)'
  BY <1>1, <1>6, <1>10, <1>12 DEF QuotesInv, AccountQuotes
<1>13. LookTypes' BY <1>1, <1>2, OnwardsDoes
<1>14. QED BY <1>8, <1>9, <1>11, <1>12, <1>13 DEF QuotesInv

\* The exchange takes a request from the queue.
LEMMA TakesStep ==
  ASSUME Quotes!ConstantsOK, QuotesInv, NEW a \in Quotes!Logins,
         Quotes!Process(a) \/ Quotes!Refuse(a)
  PROVE  QuotesInv'
<1>0. AccountQuotes(a) BY DEF QuotesInv
<1>1. /\ q_wire[a] # <<>> /\ q_wire' = [q_wire EXCEPT ![a] = Tail(@)]
      /\ UNCHANGED <<q_look, q_placing, q_last, q_real, q_mirror, q_link, q_losses>>
  BY DEF Quotes!Process, Quotes!Refuse
<1>2. q_wire[a] \in Seq(Nat) /\ q_quotes[a] \in Seq(Nat \ {0}) /\ Len(q_quotes[a]) \in Nat
  BY DEF QuotesInv, QuotesTypes
<1>3. Head(q_wire[a]) \in Nat /\ Tail(q_wire[a]) \in Seq(Nat)
  BY <1>1, <1>2
<1>4. /\ q_quotes' \in [Quotes!Logins -> Seq(Nat \ {0})]
      /\ \A b \in Quotes!Logins : b # a => q_quotes'[b] = q_quotes[b]
      /\ Head(q_wire[a]) = 0 => q_quotes'[a] = <<>>
      /\ Head(q_wire[a]) # 0 => Len(q_quotes'[a]) <= Len(q_quotes[a]) + 1
  <2>1. CASE Quotes!Refuse(a)
    BY <1>2, <2>1 DEF Quotes!Refuse, Quotes!CancelAll, QuotesInv, QuotesTypes
  <2>2. CASE Quotes!Process(a)
    <3>1. CASE Head(q_wire[a]) = 0
      BY <2>2, <3>1 DEF Quotes!Process, Quotes!CancelAll, QuotesInv, QuotesTypes
    <3>2. CASE Head(q_wire[a]) # 0
      <4>1. Append(q_quotes[a], Head(q_wire[a])) \in Seq(Nat \ {0})
        BY <1>2, <1>3, <3>2
      <4>2. Len(Append(q_quotes[a], Head(q_wire[a]))) = Len(q_quotes[a]) + 1
        BY <1>2, <1>3, <3>2
      <4>3. q_quotes' = [q_quotes EXCEPT ![a] =
                           IF q_real[a] = 0 THEN @ ELSE Append(@, Head(q_wire[a]))]
        BY <2>2, <3>2 DEF Quotes!Process, Quotes!CancelAll
      <4>4. QED BY <1>2, <3>2, <4>1, <4>2, <4>3 DEF QuotesInv, QuotesTypes
    <3>3. QED BY <3>1, <3>2
  <2>3. QED BY <2>1, <2>2
<1>5. QuotesTypes' BY <1>1, <1>3, <1>4 DEF QuotesInv, QuotesTypes
<1>6. LookTypes' BY <1>1 DEF QuotesInv, LookTypes
<1>7. /\ q_wire'[a] = Tail(q_wire[a])
      /\ \A b \in Quotes!Logins : b # a => q_wire'[b] = q_wire[b]
  BY <1>1 DEF QuotesInv, QuotesTypes
<1>8. QuotesTurn'
  <2>1. \A i \in DOMAIN Accounts : Accounts[i] \in Quotes!Logins BY DEF Quotes!Logins
  <2>2. QED BY <1>1, <1>7, <2>1 DEF QuotesInv, QuotesTurn
<1>9. \A b \in Quotes!Logins : Visited(b)' <=> Visited(b)
  BY <1>1 DEF Visited, Quotes!Account
<1>10. q_losses \in Nat BY DEF QuotesInv, QuotesTypes
<1>11. AccountQuotes(a)'
  <2>1. CASE q_wire[a] = <<Quotes!CancelAll>>
    <3>1. Head(q_wire[a]) = 0 /\ q_wire'[a] = <<>>
      BY <1>7, <2>1, Tuples DEF Quotes!CancelAll
    <3>2. q_quotes'[a] = <<>> /\ Len(q_quotes'[a]) = 0 BY <1>4, <3>1
    <3>3. \A n : <<n>> # <<>> BY Tuples
    <3>4. QED BY <1>1, <1>10, <3>1, <3>2, <3>3 DEF AccountQuotes, ShortWire
  <2>2. ASSUME NEW n \in Nat \ {0}, q_wire[a] = <<n>> PROVE AccountQuotes(a)'
    <3>1. Head(q_wire[a]) # 0 /\ q_wire'[a] = <<>> BY <1>7, <2>2, Tuples
    <3>2. Len(q_quotes[a]) <= q_losses BY <1>0, <2>2 DEF AccountQuotes
    <3>3. Len(q_quotes'[a]) <= 1 + q_losses /\ Len(q_quotes'[a]) \in Nat
      BY <1>2, <1>4, <1>10, <3>1, <3>2
    <3>4. ~Visited(a) /\ q_link[a]
      BY <1>0, <2>2, Tuples DEF AccountQuotes, QuotesInv, QuotesTypes, Quotes!CancelAll
    <3>5. \A k : <<k>> # <<>> BY Tuples
    <3>6. QED BY <1>1, <1>9, <3>1, <3>3, <3>4, <3>5 DEF AccountQuotes, ShortWire
  <2>3. ASSUME NEW n \in Nat \ {0}, q_wire[a] = <<Quotes!CancelAll, n>> PROVE AccountQuotes(a)'
    <3>1. Head(q_wire[a]) = 0 /\ q_wire'[a] = <<n>> BY <1>7, <2>3, Tuples DEF Quotes!CancelAll
    <3>2. q_quotes'[a] = <<>> /\ Len(q_quotes'[a]) = 0 BY <1>4, <3>1
    <3>3. ~Visited(a) /\ q_link[a]
      BY <1>0, <2>3, Tuples DEF AccountQuotes, QuotesInv, QuotesTypes
    <3>4. QED BY <1>1, <1>9, <1>10, <3>1, <3>2, <3>3 DEF AccountQuotes, ShortWire
  <2>4. QED BY <1>0, <1>1, <2>1, <2>2, <2>3 DEF AccountQuotes, ShortWire
<1>12. ASSUME NEW b \in Quotes!Logins, b # a PROVE AccountQuotes(b)'
  BY <1>1, <1>4, <1>7, <1>9, <1>12 DEF QuotesInv, AccountQuotes
<1>13. QED BY <1>5, <1>6, <1>8, <1>11, <1>12 DEF QuotesInv

\* A sequence without one element.
LEMMA WithoutDoes ==
  ASSUME NEW S, NEW s \in Seq(S), NEW i \in DOMAIN s
  PROVE  Quotes!Without(s, i) \in Seq(S) /\ Len(Quotes!Without(s, i)) = Len(s) - 1
<1>1. Len(s) \in Nat /\ i \in 1..Len(s) OBVIOUS
<1>2. \A j \in 1..i - 1 : s[j] \in S BY <1>1
<1>3. \A j \in i + 1..Len(s) : s[j] \in S BY <1>1
<1> DEFINE p == SubSeq(s, 1, i - 1)  q == SubSeq(s, i + 1, Len(s))
<1>4. p \in Seq(S) /\ Len(p) = i - 1
  BY <1>1, <1>2, SubSeqProperties
<1>5. q \in Seq(S) /\ Len(q) = Len(s) - i
  BY <1>1, <1>3, SubSeqProperties
<1>6. p \o q \in Seq(S) /\ Len(p \o q) = Len(p) + Len(q)
  <2> HIDE DEF p, q
  <2>1. QED BY <1>4, <1>5, ConcatProperties
<1>7. Len(p \o q) = Len(s) - 1
  <2> HIDE DEF p, q
  <2>1. QED BY <1>1, <1>4, <1>5, <1>6
<1>8. QED BY <1>6, <1>7 DEF Quotes!Without

\* A fill leaves the account no more quotes than it had.
LEMMA FillStep ==
  ASSUME Quotes!ConstantsOK, QuotesInv, NEW a \in Quotes!Logins, Quotes!Fills(a)
  PROVE  QuotesInv'
<1>1. PICK i \in 1..1 + Breaks, k \in 1..Quotes!Largest : Quotes!Fill(a, i, k)
  BY DEF Quotes!Fills
<1>2. /\ i \in DOMAIN q_quotes[a] /\ k <= q_quotes[a][i]
      /\ q_real' = [q_real EXCEPT ![a] = Quotes!Towards0(@, k)]
      /\ q_quotes' = [q_quotes EXCEPT ![a] =
            IF q_real'[a] = 0 THEN <<>> ELSE Quotes!Filled(@, i, k)]
      /\ UNCHANGED <<q_look, q_placing, q_last, q_mirror, q_link, q_wire, q_losses>>
  BY <1>1 DEF Quotes!Fill
<1>3. /\ q_quotes[a] \in Seq(Nat \ {0}) /\ Len(q_quotes[a]) \in Nat
      /\ q_quotes[a][i] \in Nat \ {0} /\ k \in Int /\ k >= 1
  BY <1>2 DEF QuotesInv, QuotesTypes
<1>4. q_real' \in [Quotes!Logins -> Int]
  BY <1>2, <1>3 DEF QuotesInv, QuotesTypes, Quotes!Towards0
<1>0. PICK v : v = IF q_real'[a] = 0 THEN <<>> ELSE Quotes!Filled(q_quotes[a], i, k)
  OBVIOUS
<1>5. /\ q_quotes' = [q_quotes EXCEPT ![a] = v]
      /\ q_quotes'[a] = v
      /\ \A b \in Quotes!Logins : b # a => q_quotes'[b] = q_quotes[b]
  <2>1. q_quotes' = [q_quotes EXCEPT ![a] = v] BY <1>0, <1>2
  <2>2. QED BY <2>1 DEF QuotesInv, QuotesTypes
<1>6. q_quotes'[a] \in Seq(Nat \ {0}) /\ Len(q_quotes'[a]) <= Len(q_quotes[a])
  <2>1. CASE q_real'[a] = 0 BY <1>0, <1>3, <1>5, <2>1
  <2>2. CASE q_real'[a] # 0 /\ k = q_quotes[a][i]
    BY <1>0, <1>2, <1>3, <1>5, <2>2, WithoutDoes DEF Quotes!Filled
  <2>3. CASE q_real'[a] # 0 /\ k # q_quotes[a][i]
    <3> DEFINE s == q_quotes[a]  n == q_quotes[a][i] - k
    <3>1. n \in Nat \ {0} BY <1>2, <1>3, <2>3
    <3>2. q_quotes'[a] = [s EXCEPT ![i] = n] BY <1>0, <1>5, <2>3 DEF Quotes!Filled
    <3>3. [s EXCEPT ![i] = n] \in Seq(Nat \ {0}) /\ Len([s EXCEPT ![i] = n]) = Len(s)
      <4> HIDE DEF n
      <4>1. QED BY <1>2, <1>3, <3>1, ExceptSeq
    <3>4. QED BY <1>3, <3>2, <3>3
  <2>4. QED BY <2>1, <2>2, <2>3
<1>7. Len(q_quotes'[a]) \in Nat BY <1>6
<1>8. QuotesTypes'
  <2>1. q_quotes' \in [Quotes!Logins -> Seq(Nat \ {0})]
    BY <1>5, <1>6 DEF QuotesInv, QuotesTypes
  <2>2. QED BY <1>2, <1>4, <2>1 DEF QuotesInv, QuotesTypes
<1>9. LookTypes' /\ QuotesTurn' BY <1>2 DEF QuotesInv, LookTypes, QuotesTurn
<1>10. \A b \in Quotes!Logins : Visited(b)' <=> Visited(b)
  BY <1>2 DEF Visited, Quotes!Account
<1>11. \A b \in Quotes!Logins : Len(q_quotes'[b]) <= Len(q_quotes[b]) /\ Len(q_quotes'[b]) \in Nat
  <2> SUFFICES ASSUME NEW b \in Quotes!Logins
               PROVE  Len(q_quotes'[b]) <= Len(q_quotes[b]) /\ Len(q_quotes'[b]) \in Nat
    OBVIOUS
  <2>1. CASE b = a BY <1>6, <1>7, <2>1
  <2>2. CASE b # a BY <1>5, <2>2 DEF QuotesInv, QuotesTypes
  <2>3. QED BY <2>1, <2>2
<1>12. ASSUME NEW b \in Quotes!Logins PROVE AccountQuotes(b)'
  <2>1. AccountQuotes(b) /\ Len(q_quotes[b]) \in Nat /\ q_losses \in Nat
    BY DEF QuotesInv, QuotesTypes
  <2>2. q_wire'[b] = q_wire[b] /\ q_link'[b] = q_link[b] /\ q_losses' = q_losses BY <1>2
  <2>3. QED BY <1>10, <1>11, <2>1, <2>2 DEF AccountQuotes, ShortWire
<1>13. QED BY <1>8, <1>9, <1>12 DEF QuotesInv

\* A mirror learns the position, a connection is lost, or is there again.
LEMMA LinkStep ==
  ASSUME Quotes!ConstantsOK, QuotesInv, NEW a \in Quotes!Logins,
         Quotes!Observe(a) \/ Quotes!Lose(a) \/ Quotes!Reconnect(a)
  PROVE  QuotesInv'
<1>1. UNCHANGED <<q_look, q_placing, q_last, q_real, q_quotes>>
  BY DEF Quotes!Observe, Quotes!Lose, Quotes!Reconnect
<1>2. \A b \in Quotes!Logins : Visited(b)' <=> Visited(b)
  BY <1>1 DEF Visited, Quotes!Account
<1>3. LookTypes' BY <1>1 DEF QuotesInv, LookTypes
<1>4. \A b \in Quotes!Logins : AccountQuotes(b) /\ Len(q_quotes[b]) \in Nat
  BY DEF QuotesInv, QuotesTypes
<1>5. q_losses \in Nat BY DEF QuotesInv, QuotesTypes
<1>6. CASE Quotes!Observe(a)
  <2>1. UNCHANGED <<q_link, q_wire, q_losses>> BY <1>6 DEF Quotes!Observe
  <2>2. QuotesTypes' BY <1>1, <1>6, <2>1 DEF Quotes!Observe, QuotesInv, QuotesTypes
  <2>3. QuotesTurn' BY <1>1, <2>1 DEF QuotesInv, QuotesTurn
  <2>4. \A b \in Quotes!Logins : AccountQuotes(b)'
    BY <1>1, <1>2, <1>4, <2>1 DEF AccountQuotes, ShortWire
  <2>5. QED BY <1>3, <2>2, <2>3, <2>4 DEF QuotesInv
<1>7. CASE Quotes!Lose(a)
  <2>1. /\ q_link' = [q_link EXCEPT ![a] = FALSE] /\ q_wire' = [q_wire EXCEPT ![a] = <<>>]
        /\ q_losses' = q_losses + 1 /\ q_mirror' = q_mirror
    BY <1>7 DEF Quotes!Lose
  <2>2. QuotesTypes' BY <1>1, <2>1 DEF QuotesInv, QuotesTypes
  <2>3. /\ q_wire'[a] = <<>> /\ ~q_link'[a]
        /\ \A b \in Quotes!Logins : b # a => q_wire'[b] = q_wire[b] /\ q_link'[b] = q_link[b]
    BY <2>1 DEF QuotesInv, QuotesTypes
  <2>4. QuotesTurn'
    <3>1. \A i \in DOMAIN Accounts : Accounts[i] \in Quotes!Logins BY DEF Quotes!Logins
    <3>2. QED BY <1>1, <2>3, <3>1 DEF QuotesInv, QuotesTurn
  <2>5. \A n : <<n>> # <<>> BY Tuples
  <2>6. ASSUME NEW b \in Quotes!Logins PROVE AccountQuotes(b)'
    <3>1. CASE b = a
      <4>1. Len(q_quotes[a]) <= 1 + q_losses BY <1>4 DEF AccountQuotes
      <4>2. QED BY <1>1, <1>4, <1>5, <2>1, <2>3, <2>5, <3>1, <4>1 DEF AccountQuotes, ShortWire
    <3>2. CASE b # a
      BY <1>1, <1>2, <1>4, <1>5, <2>1, <2>3, <3>2 DEF AccountQuotes, ShortWire
    <3>3. QED BY <3>1, <3>2
  <2>7. QED BY <1>3, <2>2, <2>4, <2>6 DEF QuotesInv
<1>8. CASE Quotes!Reconnect(a)
  <2>1. /\ ~q_link[a] /\ q_link' = [q_link EXCEPT ![a] = TRUE]
        /\ UNCHANGED <<q_wire, q_losses, q_mirror>>
    BY <1>8 DEF Quotes!Reconnect
  <2>2. QuotesTypes' BY <1>1, <2>1 DEF QuotesInv, QuotesTypes
  <2>3. QuotesTurn' BY <1>1, <2>1 DEF QuotesInv, QuotesTurn
  <2>4. q_link'[a] /\ \A b \in Quotes!Logins : b # a => q_link'[b] = q_link[b]
    BY <2>1 DEF QuotesInv, QuotesTypes
  <2>5. ASSUME NEW b \in Quotes!Logins PROVE AccountQuotes(b)'
    BY <1>1, <1>2, <1>4, <2>1, <2>4 DEF AccountQuotes, ShortWire
  <2>6. QED BY <1>3, <2>2, <2>3, <2>5 DEF QuotesInv
<1>9. QED BY <1>6, <1>7, <1>8

\* Every step of it keeps the invariant.
LEMMA QuotesStep == Quotes!ConstantsOK /\ QuotesInv /\ [Quotes!Next]_quotes => QuotesInv'
<1> SUFFICES ASSUME Quotes!ConstantsOK, QuotesInv, [Quotes!Next]_quotes PROVE QuotesInv'
  OBVIOUS
<1>1. CASE UNCHANGED quotes
  BY <1>1 DEF quotes, QuotesInv, QuotesTypes, LookTypes, QuotesTurn, AccountQuotes, Visited,
              ShortWire, Quotes!Account
<1>2. CASE Quotes!Visit \/ Quotes!Place BY <1>2, VisitStep, PlaceStep
<1>3. CASE \E now, before \in Books, slow \in Lags : Quotes!Look(now, before, slow)
  BY <1>3, LookStep
<1>4. ASSUME NEW a \in Quotes!Logins,
             Quotes!Process(a) \/ Quotes!Refuse(a) \/ Quotes!Fills(a)
               \/ Quotes!Observe(a) \/ Quotes!Lose(a) \/ Quotes!Reconnect(a)
      PROVE  QuotesInv'
  BY <1>4, TakesStep, FillStep, LinkStep
<1>5. QED BY <1>1, <1>2, <1>3, <1>4 DEF Quotes!Next

\* It bounds the quotes of an account.
LEMMA QuotesShows == QuotesInv => Quotes!TypeOK /\ Quotes!OneQuote
<1> SUFFICES ASSUME QuotesInv PROVE Quotes!TypeOK /\ Quotes!OneQuote
  OBVIOUS
<1>1. Quotes!OneQuote BY DEF QuotesInv, AccountQuotes, Quotes!OneQuote
<1>2. \A a \in Quotes!Logins :
        /\ \A i \in DOMAIN q_quotes[a] : q_quotes[a][i] \in Nat \ {0}
        /\ \A i \in DOMAIN q_wire[a] : q_wire[a][i] \in Nat
  <2> SUFFICES ASSUME NEW a \in Quotes!Logins
               PROVE  /\ \A i \in DOMAIN q_quotes[a] : q_quotes[a][i] \in Nat \ {0}
                      /\ \A i \in DOMAIN q_wire[a] : q_wire[a][i] \in Nat
    OBVIOUS
  <2>1. q_quotes[a] \in Seq(Nat \ {0}) /\ q_wire[a] \in Seq(Nat) BY DEF QuotesInv, QuotesTypes
  <2>2. QED BY <2>1
<1>3. \A a \in Quotes!Logins : q_real[a] \in Int /\ q_mirror[a] \in Int /\ q_link[a] \in BOOLEAN
  BY DEF QuotesInv, QuotesTypes
<1>4. q_look # Quotes!NotLooking =>
        q_look.now \in Books /\ q_look.before \in Books /\ q_look.slow \in BOOLEAN
  BY DEF QuotesInv, LookTypes
<1>5. QED BY <1>2, <1>3, <1>4, <1>1 DEF Quotes!TypeOK, QuotesInv, QuotesTypes, LookTypes

-----------------------------------------------------------------------------
(* The managers of a Gate account                                          *)

GateRow == [c : Contracts, row : Gate!Rows]

\* The types, with what an update carries.
GateTypes ==
    /\ g_real \in [Contracts -> Gate!Rows]
    /\ g_mirror \in [Managers -> [Contracts -> Gate!Rows]]
    /\ g_conn \in [Managers -> {"off", "login", "up", "wait", "dead"}]
    /\ g_feed \in [Managers -> Seq(GateRow)]
    /\ g_merge \in [Managers -> {Gate!Idle} \cup [Contracts -> Gate!Rows]]
    /\ g_pc \in [Managers -> {"sleep", "fetched", "check", "close", "sent", "refetched"}]
    /\ g_snap \in [Managers -> [Contracts -> Gate!Rows]]
    /\ g_todo \in [Managers -> SUBSET Contracts]
    /\ g_cur \in [Managers -> Contracts]
    /\ g_booting \in [Managers -> BOOLEAN]
    /\ g_trades \in 0..MaxTrades /\ g_worth \in [Contracts -> Values]

\* An update is taken from the queue only when it is stored.
GateFeeds ==
    \A m \in Managers : Len(g_feed[m]) <= PushCap /\ (g_merge[m] # Gate!Idle => g_feed[m] # <<>>)

\* Every order the exchange works on is a reduce-only close.
GateOrders ==
    /\ \A o \in g_orders :
          o.c \in Contracts /\ o.dir \in -1..1 /\ o.size \in Nat /\ o.reduce = TRUE
    /\ \A m \in Managers :
          IsFiniteSet(Gate!Own(m)) /\ Cardinality(Gate!Own(m)) <= MaxInFlight

GateInv == GateTypes /\ GateFeeds /\ GateOrders

\* The rows a position may have.
LEMMA GateRows ==
  ASSUME Gate!ConstantsOK
  PROVE  /\ Gate!Flat \in Gate!Rows
         /\ \A n \in -TopSize..TopSize : Gate!Row(n) \in Gate!Rows /\ Gate!Row(n).size = n
         /\ \A r \in Gate!Rows : /\ Gate!Aged(r) \in Gate!Rows
                                 /\ Gate!Aged(r).size = r.size /\ r.size \in Int
         /\ TopSize \in Nat /\ Gate!NoRows \in [Contracts -> Gate!Rows]
<1>1. TopSize \in Nat BY DEF Gate!ConstantsOK
<1>2. Gate!Flat \in Gate!Rows BY <1>1 DEF Gate!Flat, Gate!Rows
<1>3. ASSUME NEW r \in Gate!Rows
      PROVE  Gate!Aged(r) \in Gate!Rows /\ Gate!Aged(r).size = r.size /\ r.size \in Int
  <2>1. PICK n \in -TopSize..TopSize, b \in BOOLEAN : r = [size |-> n, old |-> b]
    BY DEF Gate!Rows
  <2>2. Gate!Aged(r) = [size |-> n, old |-> n # 0] BY <2>1 DEF Gate!Aged
  <2>3. Gate!Aged(r).size = n /\ r.size = n /\ n \in Int BY <1>1, <2>1, <2>2
  <2>4. Gate!Aged(r) \in Gate!Rows BY <2>2 DEF Gate!Rows
  <2>5. QED BY <2>3, <2>4
<1>4. QED BY <1>1, <1>2, <1>3 DEF Gate!Row, Gate!Rows, Gate!NoRows

\* The managers start with their invariant.
LEMMA GateInit == Gate!ConstantsOK /\ Gate!Init => GateInv
<1> SUFFICES ASSUME Gate!ConstantsOK, Gate!Init PROVE GateInv
  OBVIOUS
<1>1. g_real \in [Contracts -> Gate!Rows]
  <2>1. {Gate!Flat, Gate!Row(TopSize)} \subseteq Gate!Rows BY GateRows
  <2>2. QED BY <2>1 DEF Gate!Init
<1>2. g_mirror \in [Managers -> [Contracts -> Gate!Rows]] /\ g_snap = g_mirror
  BY GateRows DEF Gate!Init
<1>3. g_cur \in [Managers -> Contracts] BY DEF Gate!Init, Gate!ConstantsOK
<1>4. g_feed \in [Managers -> Seq(GateRow)] /\ \A m \in Managers : Len(g_feed[m]) = 0
  BY DEF Gate!Init
<1>5. g_merge = [m \in Managers |-> Gate!Idle] BY DEF Gate!Init
<1>6. g_trades \in 0..MaxTrades BY DEF Gate!Init, Gate!ConstantsOK
<1>7. GateTypes
  BY <1>1, <1>2, <1>3, <1>4, <1>5, <1>6 DEF GateTypes, Gate!Init
<1>8. GateFeeds BY <1>4, <1>5 DEF GateFeeds, Gate!ConstantsOK
<1>9. GateOrders
  <2>1. \A m : Gate!Own(m) = {} BY DEF Gate!Own, Gate!Init
  <2>2. IsFiniteSet({}) /\ Cardinality({}) = 0 BY FS_EmptySet
  <2>3. \A m : IsFiniteSet(Gate!Own(m)) /\ Cardinality(Gate!Own(m)) = 0 BY <2>1, <2>2
  <2>4. g_orders = {} /\ 0 <= MaxInFlight BY DEF Gate!Init, Gate!ConstantsOK
  <2>5. QED BY <2>3, <2>4 DEF GateOrders
<1>10. QED BY <1>7, <1>8, <1>9 DEF GateInv

\* An update goes to every subscribed manager.
LEMMA GatePush ==
  ASSUME Gate!ConstantsOK, GateInv, NEW c \in Contracts, NEW row \in Gate!Rows,
         Gate!Push(c, row), g_merge' = g_merge
  PROVE  g_feed' \in [Managers -> Seq(GateRow)] /\ GateFeeds'
<1> DEFINE e == [c |-> c, row |-> row]
<1>1. e \in GateRow BY DEF GateRow
<1>2. ASSUME NEW m \in Managers
      PROVE  /\ g_feed'[m] \in Seq(GateRow) /\ Len(g_feed'[m]) <= PushCap
             /\ g_merge[m] # Gate!Idle => g_feed'[m] # <<>>
  <2>1. g_feed[m] \in Seq(GateRow) /\ Len(g_feed[m]) \in Nat BY DEF GateInv, GateTypes
  <2>2. Len(g_feed[m]) <= PushCap /\ (g_merge[m] # Gate!Idle => g_feed[m] # <<>>) /\ PushCap \in Nat
    BY DEF GateInv, GateFeeds, Gate!ConstantsOK
  <2>3. CASE m \in Gate!Subscribed
    <3>1. g_feed'[m] = Append(g_feed[m], e) /\ Len(g_feed[m]) < PushCap
      BY <2>3 DEF Gate!Push
    <3>2. Append(g_feed[m], e) \in Seq(GateRow) /\ Len(Append(g_feed[m], e)) = Len(g_feed[m]) + 1
      <4> HIDE DEF e
      <4>1. QED BY <1>1, <2>1, AppendProperties
    <3>3. Append(g_feed[m], e) # <<>>
      <4> HIDE DEF e
      <4>1. QED BY <2>1, <3>2
    <3>4. QED
      <4> HIDE DEF e
      <4>1. QED BY <2>1, <2>2, <3>1, <3>2, <3>3
  <2>4. CASE m \notin Gate!Subscribed
    <3>1. g_feed'[m] = g_feed[m] BY <2>4 DEF Gate!Push
    <3>2. QED BY <2>1, <2>2, <3>1
  <2>5. QED BY <2>3, <2>4
<1>3. DOMAIN g_feed' = Managers /\ g_feed' = [m \in DOMAIN g_feed' |-> g_feed'[m]]
  BY DEF Gate!Push
<1>4. g_feed' \in [Managers -> Seq(GateRow)] BY <1>2, <1>3
<1>5. QED BY <1>2, <1>4 DEF GateFeeds

\* Orders that are not new stay sound when some go.
LEMMA GateFewer ==
  ASSUME Gate!ConstantsOK, GateOrders, g_orders' \subseteq g_orders PROVE GateOrders'
<1>1. \A m \in Managers : Gate!Own(m)' \subseteq Gate!Own(m) BY DEF Gate!Own
<1>2. ASSUME NEW m \in Managers
      PROVE  IsFiniteSet(Gate!Own(m)') /\ Cardinality(Gate!Own(m)') <= MaxInFlight
  <2>1. PICK S, T : S = Gate!Own(m)' /\ T = Gate!Own(m) OBVIOUS
  <2>2. IsFiniteSet(S) /\ Cardinality(S) <= Cardinality(T) /\ Cardinality(S) \in Nat
        /\ Cardinality(T) \in Nat
    <3>1. S \subseteq T /\ IsFiniteSet(T) BY <1>1, <2>1 DEF GateOrders
    <3>2. QED BY <3>1, FS_Subset, FS_CardinalityType
  <2>3. Cardinality(T) <= MaxInFlight /\ MaxInFlight \in Nat BY <2>1 DEF GateOrders, Gate!ConstantsOK
  <2>4. QED BY <2>1, <2>2, <2>3
<1>3. QED BY <1>2 DEF GateOrders

\* What is not changed keeps its part of the invariant.
LEMMA GateKeeps ==
  ASSUME GateInv
  PROVE  /\ UNCHANGED <<g_feed, g_merge>> => GateFeeds'
         /\ UNCHANGED g_orders => GateOrders'
<1>1. UNCHANGED <<g_feed, g_merge>> => GateFeeds' BY DEF GateInv, GateFeeds
<1>2. UNCHANGED g_orders => GateOrders' BY DEF GateInv, GateOrders, Gate!Own
<1>3. QED BY <1>1, <1>2

\* The exchange's own steps.
LEMMA GateTrade ==
  ASSUME Gate!ConstantsOK, GateInv, NEW c \in Contracts, NEW n \in -TopSize..TopSize,
         Gate!Trade(c, n)
  PROVE  GateInv'
<1>1. Gate!Row(n) \in Gate!Rows BY GateRows
<1>2. Gate!Push(c, Gate!Row(n)) /\ g_merge' = g_merge BY DEF Gate!Trade
<1>3. g_feed' \in [Managers -> Seq(GateRow)] /\ GateFeeds' BY <1>1, <1>2, GatePush
<1>4. GateTypes'
  <2>1. g_real' \in [Contracts -> Gate!Rows] BY <1>1 DEF Gate!Trade, GateInv, GateTypes
  <2>2. g_trades' \in 0..MaxTrades
    BY DEF Gate!Trade, GateInv, GateTypes, Gate!ConstantsOK
  <2>3. QED BY <1>3, <2>1, <2>2 DEF Gate!Trade, GateInv, GateTypes
<1>5. GateOrders' BY GateKeeps DEF Gate!Trade
<1>6. QED BY <1>3, <1>4, <1>5 DEF GateInv

\* Positions grow old.
LEMMA GateAge ==
  ASSUME Gate!ConstantsOK, GateInv, NEW c \in Contracts, Gate!Age(c)
  PROVE  /\ GateInv'
         /\ \A d \in Contracts : g_real'[d].size = g_real[d].size
<1>1. g_real' = [g_real EXCEPT ![c] = Gate!Aged(@)] /\ g_real[c] \in Gate!Rows
  BY DEF Gate!Age, GateInv, GateTypes
<1>2. g_real' \in [Contracts -> Gate!Rows]
  BY <1>1, GateRows DEF GateInv, GateTypes
<1>3. g_mirror' \in [Managers -> [Contracts -> Gate!Rows]]
  <2>1. ASSUME NEW m \in Managers
        PROVE  [g_mirror[m] EXCEPT ![c] = Gate!Aged(@)] \in [Contracts -> Gate!Rows]
    BY GateRows DEF GateInv, GateTypes
  <2>2. g_mirror' = [m \in Managers |-> [g_mirror[m] EXCEPT ![c] = Gate!Aged(@)]]
    BY DEF Gate!Age
  <2>3. QED BY <2>1, <2>2
<1>4. GateTypes' BY <1>2, <1>3 DEF Gate!Age, GateInv, GateTypes
<1>5. GateFeeds' /\ GateOrders' BY GateKeeps DEF Gate!Age
<1>6. \A d \in Contracts : g_real'[d].size = g_real[d].size
  BY <1>1, GateRows DEF GateInv, GateTypes
<1>7. QED BY <1>4, <1>5, <1>6 DEF GateInv

\* A close shrinks the position, to flat at most.
LEMMA GateFilled ==
  ASSUME NEW size \in Int, NEW o, o.dir \in -1..1, o.size \in Nat, o.reduce = TRUE
  PROVE  /\ Gate!Filled(size, o) \in Int
         /\ Gate!Abs(Gate!Filled(size, o)) <= Gate!Abs(size)
         /\ Gate!Sign(Gate!Filled(size, o)) \in {0, Gate!Sign(size)}
<1>1. o.dir = -1 \/ o.dir = 0 \/ o.dir = 1 OBVIOUS
<1>2. CASE o.dir = 1 BY <1>2 DEF Gate!Filled, Gate!Abs, Gate!Sign
<1>3. CASE o.dir = -1 BY <1>3 DEF Gate!Filled, Gate!Abs, Gate!Sign
<1>4. CASE o.dir = 0 BY <1>4 DEF Gate!Filled, Gate!Abs, Gate!Sign
<1>5. QED BY <1>1, <1>2, <1>3, <1>4

\* An order is filled, which only shrinks, or ends unfilled.
LEMMA GateFill ==
  ASSUME Gate!ConstantsOK, GateInv, NEW o \in g_orders, Gate!Fill(o) \/ Gate!Unfilled(o)
  PROVE  /\ GateInv'
         /\ \A d \in Contracts : /\ Gate!Abs(g_real'[d].size) <= Gate!Abs(g_real[d].size)
                                 /\ Gate!Sign(g_real'[d].size) \in {0, Gate!Sign(g_real[d].size)}
<1>1. GateOrders'
  <2>1. g_orders' \subseteq g_orders BY DEF Gate!Fill, Gate!Unfilled
  <2>2. QED BY <2>1, GateFewer DEF GateInv
<1>2. \A d \in Contracts : g_real[d] \in Gate!Rows /\ g_real[d].size \in Int
  BY GateRows DEF GateInv, GateTypes
<1>3. UNCHANGED <<g_mirror, g_conn, g_merge, g_pc, g_snap, g_todo, g_cur, g_booting, g_trades,
               g_worth>>
  BY DEF Gate!Fill, Gate!Unfilled
<1>4. CASE g_real' = g_real /\ g_feed' = g_feed
  <2>1. GateTypes' /\ GateFeeds' BY <1>3, <1>4 DEF GateInv, GateTypes, GateFeeds
  <2>2. \A d \in Contracts : /\ Gate!Abs(g_real[d].size) <= Gate!Abs(g_real[d].size)
                             /\ Gate!Sign(g_real[d].size) \in {0, Gate!Sign(g_real[d].size)}
    BY <1>2 DEF Gate!Abs
  <2>3. QED BY <1>1, <1>4, <2>1, <2>2 DEF GateInv
<1>5. ASSUME ~(g_real' = g_real /\ g_feed' = g_feed)
      PROVE  /\ GateInv'
             /\ \A d \in Contracts :
                   /\ Gate!Abs(g_real'[d].size) <= Gate!Abs(g_real[d].size)
                   /\ Gate!Sign(g_real'[d].size) \in {0, Gate!Sign(g_real[d].size)}
  <2>1. PICK n : n = Gate!Filled(g_real[o.c].size, o) OBVIOUS
  <2>2. /\ Gate!Abs(n) <= TopSize /\ g_real' = [g_real EXCEPT ![o.c] = Gate!Row(n)]
        /\ Gate!Push(o.c, Gate!Row(n))
    BY <1>5, <2>1 DEF Gate!Fill, Gate!Unfilled
  <2>3. o.c \in Contracts /\ o.dir \in -1..1 /\ o.size \in Nat /\ o.reduce = TRUE
    BY DEF GateInv, GateOrders
  <2>4. /\ n \in Int /\ Gate!Abs(n) <= Gate!Abs(g_real[o.c].size)
        /\ Gate!Sign(n) \in {0, Gate!Sign(g_real[o.c].size)}
    BY <1>2, <2>1, <2>3, GateFilled
  <2>5. n \in -TopSize..TopSize BY <2>2, <2>4, GateRows DEF Gate!Abs
  <2>6. Gate!Row(n) \in Gate!Rows /\ Gate!Row(n).size = n BY <2>5, GateRows
  <2>7. g_feed' \in [Managers -> Seq(GateRow)] /\ GateFeeds'
    BY <1>3, <2>2, <2>3, <2>6, GatePush
  <2>8. g_real' \in [Contracts -> Gate!Rows] BY <2>2, <2>3, <2>6 DEF GateInv, GateTypes
  <2>9. GateTypes' BY <1>3, <2>7, <2>8 DEF GateInv, GateTypes
  <2>10. ASSUME NEW d \in Contracts
         PROVE  /\ Gate!Abs(g_real'[d].size) <= Gate!Abs(g_real[d].size)
                /\ Gate!Sign(g_real'[d].size) \in {0, Gate!Sign(g_real[d].size)}
    <3>1. CASE d = o.c
      <4>1. g_real'[d] = Gate!Row(n) BY <2>2, <2>3, <3>1 DEF GateInv, GateTypes
      <4>2. QED BY <2>4, <2>6, <3>1, <4>1
    <3>2. CASE d # o.c
      <4>1. g_real'[d] = g_real[d] BY <2>2, <3>2 DEF GateInv, GateTypes
      <4>2. QED BY <1>2, <4>1 DEF Gate!Abs
    <3>3. QED BY <3>1, <3>2
  <2>11. QED BY <1>1, <2>7, <2>9, <2>10 DEF GateInv
<1>6. QED BY <1>4, <1>5

\* The phases of the WebSocket loop; a connection that ends loses its queue only
\* between two updates.
LEMMA GateSocket ==
  ASSUME Gate!ConstantsOK, GateInv, NEW m \in Managers, Gate!Socket(m)
  PROVE  GateInv' /\ g_trades' = g_trades /\ g_real' = g_real
<1> DEFINE Phases == {"off", "login", "up", "wait", "dead"}
<1>1. CASE \E from, to \in SUBSET Phases : FALSE BY <1>1
<1>2. CASE \/ Gate!Connect(m) \/ Gate!ConnectFails(m) \/ Gate!LoginUnsent(m)
           \/ Gate!LoginAnswer(m) \/ Gate!Backoff(m)
  <2>1. /\ UNCHANGED <<g_real, g_mirror, g_feed, g_merge, g_pc, g_snap, g_todo, g_cur,
                       g_booting, g_orders, g_trades, g_worth>>
        /\ \E to \in Phases : g_conn' = [g_conn EXCEPT ![m] = to]
    BY <1>2 DEF Gate!Connect, Gate!ConnectFails, Gate!LoginUnsent, Gate!LoginAnswer,
                Gate!Backoff, Gate!Phase
  <2>2. g_conn' \in [Managers -> Phases] BY <2>1 DEF GateInv, GateTypes
  <2>3. GateTypes' BY <2>1, <2>2 DEF GateInv, GateTypes
  <2>4. QED BY <2>1, <2>3, GateKeeps DEF GateInv
<1>3. CASE Gate!Disconnect(m)
  <2>1. /\ UNCHANGED <<g_real, g_mirror, g_merge, g_pc, g_snap, g_todo, g_cur, g_booting,
                       g_orders, g_trades, g_worth>>
        /\ g_conn' = [g_conn EXCEPT ![m] = "wait"]
        /\ g_merge[m] = Gate!Idle /\ g_feed' = [g_feed EXCEPT ![m] = <<>>]
    BY <1>3 DEF Gate!Disconnect, Gate!Phase
  <2>2. GateTypes' BY <2>1 DEF GateInv, GateTypes
  <2>3. Len(<<>>) <= PushCap BY DEF Gate!ConstantsOK
  <2>4. GateFeeds' BY <2>1, <2>3 DEF GateInv, GateTypes, GateFeeds
  <2>5. QED BY <2>1, <2>2, <2>4, GateKeeps DEF GateInv
<1>4. CASE Gate!WsLoad(m)
  <2>1. /\ UNCHANGED <<g_real, g_mirror, g_conn, g_feed, g_pc, g_snap, g_todo, g_cur,
                       g_booting, g_orders, g_trades, g_worth>>
        /\ g_feed[m] # <<>> /\ g_merge' = [g_merge EXCEPT ![m] = g_mirror[m]]
    BY <1>4 DEF Gate!WsLoad
  <2>2. g_merge' \in [Managers -> {Gate!Idle} \cup [Contracts -> Gate!Rows]]
    BY <2>1 DEF GateInv, GateTypes
  <2>3. GateTypes' BY <2>1, <2>2 DEF GateInv, GateTypes
  <2>4. GateFeeds' BY <2>1 DEF GateInv, GateTypes, GateFeeds
  <2>5. QED BY <2>1, <2>3, <2>4, GateKeeps DEF GateInv
<1>5. CASE Gate!WsStore(m)
  <2>1. /\ UNCHANGED <<g_real, g_conn, g_pc, g_snap, g_todo, g_cur, g_booting, g_orders, g_trades, g_worth>>
        /\ g_merge[m] # Gate!Idle /\ g_merge' = [g_merge EXCEPT ![m] = Gate!Idle]
        /\ g_feed' = [g_feed EXCEPT ![m] = Tail(@)]
        /\ g_mirror' = [g_mirror EXCEPT ![m] =
                [g_merge[m] EXCEPT ![Head(g_feed[m]).c] = Head(g_feed[m]).row]]
    BY <1>5 DEF Gate!WsStore
  <2>2. g_feed[m] # <<>> /\ g_feed[m] \in Seq(GateRow) /\ Len(g_feed[m]) <= PushCap
    BY <2>1 DEF GateInv, GateTypes, GateFeeds
  <2>3. Head(g_feed[m]) \in GateRow /\ Tail(g_feed[m]) \in Seq(GateRow)
        /\ Len(Tail(g_feed[m])) = Len(g_feed[m]) - 1 /\ Len(g_feed[m]) \in Nat
    BY <2>2
  <2>4. Head(g_feed[m]).row \in Gate!Rows BY <2>3 DEF GateRow
  <2>5. g_merge[m] \in [Contracts -> Gate!Rows] BY <2>1 DEF GateInv, GateTypes
  <2>6. g_mirror' \in [Managers -> [Contracts -> Gate!Rows]]
    BY <2>1, <2>4, <2>5 DEF GateInv, GateTypes
  <2>7. /\ g_feed' \in [Managers -> Seq(GateRow)]
        /\ g_merge' \in [Managers -> {Gate!Idle} \cup [Contracts -> Gate!Rows]]
    BY <2>1, <2>3 DEF GateInv, GateTypes
  <2>8. GateTypes' BY <2>1, <2>6, <2>7 DEF GateInv, GateTypes
  <2>9. ASSUME NEW n \in Managers
        PROVE  Len(g_feed'[n]) <= PushCap /\ (g_merge'[n] # Gate!Idle => g_feed'[n] # <<>>)
    <3>1. PushCap \in Nat BY DEF Gate!ConstantsOK
    <3>2. CASE n = m BY <2>1, <2>2, <2>3, <3>1, <3>2 DEF GateInv, GateTypes
    <3>3. CASE n # m BY <2>1, <3>3 DEF GateInv, GateTypes, GateFeeds
    <3>4. QED BY <3>2, <3>3
  <2>10. QED BY <2>1, <2>8, <2>9, GateKeeps DEF GateInv, GateFeeds
<1>6. QED BY <1>2, <1>3, <1>4, <1>5 DEF Gate!Socket

\* A new order is a reduce-only close of the contract the pass is at.
LEMMA GatePlace ==
  ASSUME Gate!ConstantsOK, GateInv, NEW m \in Managers, Gate!Place(m)
  PROVE  GateInv'
<1>1. PICK o : o = Gate!CloseOrder(m) OBVIOUS
<1>2. /\ UNCHANGED <<g_real, g_mirror, g_conn, g_feed, g_merge, g_snap, g_todo, g_cur,
                     g_booting, g_trades, g_worth>>
      /\ g_pc' = [g_pc EXCEPT ![m] = "sent"]
      /\ g_orders' = g_orders \/ g_orders' = g_orders \cup {o}
      /\ Cardinality(Gate!Own(m) \cup {o}) <= MaxInFlight
  <2>1. Gate!Cardinality(Gate!Own(m) \cup {o}) <= MaxInFlight BY <1>1 DEF Gate!Place
  <2>2. Cardinality(Gate!Own(m) \cup {o}) <= MaxInFlight
    BY <2>1 DEF Gate!Cardinality, Cardinality
  <2>3. QED BY <1>1, <2>2 DEF Gate!Place
<1>3. GateTypes' BY <1>2 DEF GateInv, GateTypes
<1>4. GateFeeds' BY <1>2, GateKeeps
<1>5. o.m = m /\ o.c \in Contracts /\ o.dir \in -1..1 /\ o.size \in Nat /\ o.reduce = TRUE
  <2>0. g_mirror[m][g_cur[m]] \in Gate!Rows BY DEF GateInv, GateTypes
  <2>1. PICK n \in Int : n = g_mirror[m][g_cur[m]].size
    BY <2>0, GateRows
  <2>2. /\ o.m = m /\ o.c = g_cur[m] /\ o.dir = -Gate!Sign(n)
        /\ o.size = Gate!Least(Gate!CloseSize(o.c), Gate!Abs(n)) /\ o.reduce = Gate!ReduceOnly("market_close")
    BY <1>1, <2>1 DEF Gate!CloseOrder
  <2>3. -Gate!Sign(n) \in -1..1 /\ Gate!Least(Gate!CloseSize(o.c), Gate!Abs(n)) \in Nat
    <3>1. Gate!CloseSize(o.c) \in Nat
      <4>1. g_cur[m] \in Contracts BY DEF GateInv, GateTypes
      <4>2. o.c \in Contracts BY <2>2, <4>1
      <4>3. PICK k : k = g_worth[o.c] OBVIOUS
      <4>4. k \in Nat /\ CloseUsdt \in Nat
        BY <4>2, <4>3 DEF GateInv, GateTypes, Gate!ConstantsOK
      <4>5. CASE k = 0 BY <4>3, <4>5 DEF Gate!CloseSize
      <4>6. CASE k # 0
        <5>1. CloseUsdt \div k \in Nat BY <4>4, <4>6
        <5>2. QED BY <4>3, <4>6, <5>1 DEF Gate!CloseSize
      <4>7. QED BY <4>5, <4>6
    <3>2. -Gate!Sign(n) \in -1..1
      <4>1. PICK k : k = Gate!Sign(n) OBVIOUS
      <4>2. k = 1 \/ k = -1 \/ k = 0 BY <4>1 DEF Gate!Sign
      <4>3. -k \in -1..1 BY <4>2
      <4>4. QED BY <4>1, <4>3
    <3>3. Gate!Abs(n) \in Nat BY DEF Gate!Abs
    <3>4. QED BY <3>1, <3>2, <3>3 DEF Gate!Least
  <2>4. Gate!ReduceOnly("market_close") = TRUE BY DEF Gate!ReduceOnly
  <2>5. QED BY <2>2, <2>3, <2>4 DEF GateInv, GateTypes
<1>6. CASE g_orders' = g_orders BY <1>3, <1>4, <1>6, GateKeeps DEF GateInv
<1>7. CASE g_orders' = g_orders \cup {o}
  <2>1. \A n \in Managers : Gate!Own(n)' = IF n = m THEN Gate!Own(m) \cup {o} ELSE Gate!Own(n)
    BY <1>5, <1>7 DEF Gate!Own
  <2>2. IsFiniteSet(Gate!Own(m) \cup {o})
    <3>1. IsFiniteSet(Gate!Own(m)) BY DEF GateInv, GateOrders
    <3>2. QED BY <3>1, FS_AddElement
  <2>3. ASSUME NEW n \in Managers
        PROVE  IsFiniteSet(Gate!Own(n)') /\ Cardinality(Gate!Own(n)') <= MaxInFlight
    <3>1. PICK S, T : S = Gate!Own(n)' /\ T = Gate!Own(n) OBVIOUS
    <3>2. IsFiniteSet(T) /\ Cardinality(T) <= MaxInFlight BY <3>1 DEF GateInv, GateOrders
    <3>3. CASE n = m
      <4>1. S = Gate!Own(m) \cup {o} BY <2>1, <3>1, <3>3
      <4>2. IsFiniteSet(S) /\ Cardinality(S) <= MaxInFlight BY <1>2, <2>2, <4>1
      <4>3. QED BY <3>1, <4>2
    <3>4. CASE n # m
      <4>1. S = T BY <2>1, <3>1, <3>4
      <4>2. QED BY <3>1, <3>2, <4>1
    <3>5. QED BY <3>3, <3>4
  <2>4. \A p \in g_orders' :
          p.c \in Contracts /\ p.dir \in -1..1 /\ p.size \in Nat /\ p.reduce = TRUE
    BY <1>5, <1>7 DEF GateInv, GateOrders
  <2>5. GateOrders' BY <2>3, <2>4 DEF GateOrders
  <2>6. QED BY <1>3, <1>4, <2>5 DEF GateInv
<1>8. QED BY <1>2, <1>6, <1>7

\* A pass that begins looks at the contracts that are open.
LEMMA GateEnters ==
  ASSUME GateInv, NEW m \in Managers, NEW rows, Gate!EnterCheck(m, rows)
  PROVE  /\ g_pc' \in [Managers -> {"sleep", "fetched", "check", "close", "sent", "refetched"}]
         /\ g_todo' \in [Managers -> SUBSET Contracts]
         /\ g_booting' \in [Managers -> BOOLEAN]
<1>1. {c \in Contracts : rows[c].size # 0} \in SUBSET Contracts OBVIOUS
<1>2. CASE Gate!Closes(m) BY <1>1, <1>2 DEF GateInv, GateTypes, Gate!EnterCheck
<1>3. CASE ~Gate!Closes(m) BY <1>3 DEF GateInv, GateTypes, Gate!EnterCheck
<1>4. QED BY <1>2, <1>3

\* The update loop.
LEMMA GateLoop ==
  ASSUME Gate!ConstantsOK, GateInv, NEW m \in Managers, Gate!Loop(m)
  PROVE  GateInv' /\ g_trades' = g_trades /\ g_real' = g_real
<1>1. CASE Gate!Place(m)
  BY <1>1, GatePlace DEF Gate!Place
<1>2. ASSUME UNCHANGED <<g_feed, g_merge, g_orders>>, GateTypes'
      PROVE  GateInv'
  BY <1>2, GateKeeps DEF GateInv
<1>3. CASE Gate!Fetch(m) \/ Gate!Refetch(m)
  <2>1. CASE Gate!Fetch(m)
    <3>1. GateTypes' BY <2>1 DEF Gate!Fetch, GateInv, GateTypes
    <3>2. QED BY <1>2, <2>1, <3>1 DEF Gate!Fetch
  <2>2. CASE Gate!Refetch(m)
    <3>1. GateTypes' BY <2>2 DEF Gate!Refetch, GateInv, GateTypes
    <3>2. QED BY <1>2, <2>2, <3>1 DEF Gate!Refetch
  <2>3. QED BY <1>3, <2>1, <2>2
<1>4. CASE Gate!FetchFails(m)
  <2>1. GateTypes' BY <1>4, GateEnters DEF Gate!FetchFails, GateInv, GateTypes
  <2>2. QED BY <1>2, <1>4, <2>1 DEF Gate!FetchFails
<1>5. CASE Gate!Store(m)
  <2>1. /\ g_mirror' \in [Managers -> [Contracts -> Gate!Rows]]
        /\ g_snap' \in [Managers -> [Contracts -> Gate!Rows]]
    BY <1>5, GateRows DEF Gate!Store, Gate!Cleared, GateInv, GateTypes
  <2>2. GateTypes' BY <1>5, <2>1, GateEnters DEF Gate!Store, GateInv, GateTypes
  <2>3. QED BY <1>2, <1>5, <2>2 DEF Gate!Store
<1>6. CASE Gate!Restore(m)
  <2>1. /\ g_mirror' \in [Managers -> [Contracts -> Gate!Rows]]
        /\ g_snap' \in [Managers -> [Contracts -> Gate!Rows]]
    BY <1>6, GateRows DEF Gate!Restore, Gate!Cleared, GateInv, GateTypes
  <2>2. GateTypes' BY <1>6, <2>1 DEF Gate!Restore, GateInv, GateTypes
  <2>3. QED BY <1>2, <1>6, <2>2 DEF Gate!Restore
<1>7. CASE Gate!PassOver(m) \/ Gate!RefetchFails(m) \/ Gate!Closed(m)
  <2>1. GateTypes'
    BY <1>7 DEF Gate!PassOver, Gate!RefetchFails, Gate!Closed, GateInv, GateTypes
  <2>2. QED BY <1>2, <1>7, <2>1 DEF Gate!PassOver, Gate!RefetchFails, Gate!Closed
<1>8. CASE \E c \in Contracts : Gate!Look(m, c)
  <2>1. PICK c \in Contracts : Gate!Look(m, c) BY <1>8
  <2>2. GateTypes' BY <2>1 DEF Gate!Look, GateInv, GateTypes
  <2>3. QED BY <1>2, <2>1, <2>2 DEF Gate!Look
<1>9. QED BY <1>1, <1>3, <1>4, <1>5, <1>6, <1>7, <1>8 DEF Gate!Loop

\* What a step of the managers or of the exchange keeps and what it does to a position.
LEMMA GateStep ==
  ASSUME Gate!ConstantsOK, GateInv, [Gate!Next]_gate
  PROVE  /\ GateInv'
         /\ g_trades' = g_trades =>
              \A c \in Contracts :
                /\ Gate!Abs(g_real'[c].size) <= Gate!Abs(g_real[c].size)
                /\ Gate!Sign(g_real'[c].size) \in {0, Gate!Sign(g_real[c].size)}
<1> DEFINE Shrinks ==
      \A c \in Contracts : /\ Gate!Abs(g_real'[c].size) <= Gate!Abs(g_real[c].size)
                           /\ Gate!Sign(g_real'[c].size) \in {0, Gate!Sign(g_real[c].size)}
<1>1. ASSUME \A c \in Contracts : g_real'[c].size = g_real[c].size PROVE Shrinks
  <2>1. \A c \in Contracts : g_real[c].size \in Int BY GateRows DEF GateInv, GateTypes
  <2>2. QED BY <1>1, <2>1 DEF Gate!Abs
<1>2. CASE UNCHANGED gate
  <2>1. GateInv' BY <1>2 DEF gate, GateInv, GateTypes, GateFeeds, GateOrders, Gate!Own
  <2>2. g_real' = g_real BY <1>2 DEF gate
  <2>3. QED BY <1>1, <2>1, <2>2
<1>3. CASE \E c \in Contracts, n \in -TopSize..TopSize : Gate!Trade(c, n)
  <2>1. g_trades' # g_trades BY <1>3 DEF Gate!Trade, GateInv, GateTypes
  <2>2. QED BY <1>3, <2>1, GateTrade
<1>4. CASE \E c \in Contracts : Gate!Age(c) BY <1>1, <1>4, GateAge
<1>5. CASE \E o \in g_orders : Gate!Fill(o) \/ Gate!Unfilled(o) BY <1>5, GateFill
<1>6. CASE \E m \in Managers : Gate!Socket(m) \/ Gate!Loop(m)
  BY <1>1, <1>6, GateSocket, GateLoop
<1>7. QED BY <1>2, <1>3, <1>4, <1>5, <1>6 DEF Gate!Next

\* It gives the types.
LEMMA GateShows == Gate!ConstantsOK /\ GateInv => Gate!TypeOK
<1> SUFFICES ASSUME GateInv PROVE Gate!TypeOK
  OBVIOUS
<1>1. \A m \in Managers : Gate!Cardinality({o \in g_orders : o.m = m}) <= MaxInFlight
  BY DEF GateInv, GateOrders, Gate!Own, Gate!Cardinality, Cardinality
<1>2. \A m \in Managers : Len(g_feed[m]) <= PushCap
  BY DEF GateInv, GateFeeds
<1>3. \A m \in Managers : g_merge[m] = Gate!Idle \/ g_merge[m] \in [Contracts -> Gate!Rows]
  BY DEF GateInv, GateTypes
<1>4. QED BY <1>1, <1>2, <1>3 DEF Gate!TypeOK, GateInv, GateTypes

-----------------------------------------------------------------------------
(* The mirrors of Flipster's private channel                               *)

MirrorRow == {Mirror!None} \cup Mirror!Fields
Telling == [kind : {"u", "d"}, sym : Symbols, row : Mirror!Fields]
Opening == [kind : {"s"}, row : UNION {[S -> Mirror!Fields] : S \in SUBSET Symbols}]

Applies(exec, b, row) == IF exec THEN Mirror!ExecutorRow(b, row) ELSE Mirror!RustRow(b, row)

\* The row of symbol s, b so far, after a message.
After(exec, b, msg, s) ==
    IF msg.kind = "s" THEN IF s \in DOMAIN msg.row THEN Applies(exec, b, msg.row[s]) ELSE b
    ELSE IF s # msg.sym THEN b
    ELSE IF msg.kind = "d" THEN Mirror!None ELSE Applies(exec, b, msg.row)

\* The messages f, handled one after the other, turn row a of symbol s into b.
Leads(exec, f, a, b, s) ==
    \E R \in [0..Len(f) -> MirrorRow] :
        /\ R[0] = a /\ R[Len(f)] = b
        /\ \A i \in 1..Len(f) : R[i] = After(exec, R[i - 1], f[i], s)

Executor == m_reader = "executor"

\* A row that counts as a position.
Held(exec, b) == Mirror!Position(b) # 0 \/ (exec /\ b # Mirror!None /\ b.margin = 1)

\* The row b tells what is to be told of s, as far as somebody listened.
Tells(s, b) ==
    /\ m_real[s] # 0 => b # Mirror!None /\ b.pos = m_real[s] /\ b.margin = 1
    /\ m_real[s] = 0 /\ Held(Executor, b) => s \in m_unseen

\* The executor keeps no row without a margin.
Sound(exec, b) == b \in MirrorRow /\ (exec /\ b # Mirror!None => b.margin # 0)

MirrorTypes ==
    /\ m_reader \in Readers /\ m_connected \in BOOLEAN /\ m_unseen \subseteq Symbols
    /\ m_real \in [Symbols -> -TopSize..TopSize]
    /\ m_margin = [s \in Symbols |-> IF m_real[s] = 0 THEN 0 ELSE 1]
    /\ m_rows \in [Symbols -> MirrorRow] /\ m_feed \in Seq(Telling \cup Opening)

\* Once the messages under way are handled, the rows tell the truth; while there is no
\* connection they do for what is closed.
MirrorInv ==
    /\ MirrorTypes
    /\ \A s \in Symbols : Sound(Executor, m_rows[s])
    /\ ~m_connected => m_feed = <<>>
    /\ ~m_connected => \A s \in Symbols : m_real[s] = 0 /\ Held(Executor, m_rows[s]) => s \in m_unseen
    /\ m_connected => \A s \in Symbols : \E b \in MirrorRow :
          Sound(Executor, b) /\ Tells(s, b) /\ Leads(Executor, m_feed, m_rows[s], b, s)

\* What rows and their fields are.
LEMMA MirrorFields ==
  ASSUME Mirror!ConstantsOK
  PROVE  /\ \A r \in Mirror!Fields :
               /\ r # Mirror!None /\ r = [pos |-> r.pos, margin |-> r.margin]
               /\ r.pos \in {Mirror!Absent} \cup (-TopSize..TopSize)
               /\ r.margin \in {Mirror!Absent, 0, 1}
         /\ \A p \in {Mirror!Absent} \cup (-TopSize..TopSize), m \in {Mirror!Absent, 0, 1} :
               [pos |-> p, margin |-> m] \in Mirror!Fields
         /\ Mirror!NoRow \in Mirror!Fields
         /\ Mirror!Absent \in Int /\ Mirror!Absent < -1 /\ TopSize \in Nat \ {0}
         /\ \A p \in -TopSize..TopSize : p \in Int /\ p # Mirror!Absent
         /\ Mirror!None.none = TRUE
<1>1. TopSize \in Nat \ {0} BY DEF Mirror!ConstantsOK
<1>2. Mirror!Absent = -TopSize - 1 BY DEF Mirror!Absent
<1>3. ASSUME NEW r \in Mirror!Fields
      PROVE  /\ r # Mirror!None /\ r = [pos |-> r.pos, margin |-> r.margin]
             /\ r.pos \in {Mirror!Absent} \cup (-TopSize..TopSize)
             /\ r.margin \in {Mirror!Absent, 0, 1}
  <2>1. r \in [pos : {Mirror!Absent} \cup (-TopSize..TopSize), margin : {Mirror!Absent, 0, 1}]
    BY DEF Mirror!Fields
  <2>2. DOMAIN r = {"pos", "margin"} BY <2>1
  <2>3. DOMAIN Mirror!None = {"none"} BY DEF Mirror!None
  <2>4. r # Mirror!None BY <2>2, <2>3
  <2>5. QED BY <2>1, <2>4
<1>4. QED BY <1>1, <1>2, <1>3 DEF Mirror!Fields, Mirror!NoRow, Mirror!None

\* What a program makes of a row and the fields of a message.
LEMMA MergedDoes ==
  ASSUME Mirror!ConstantsOK, NEW b \in MirrorRow, NEW row \in Mirror!Fields
  PROVE  /\ Mirror!Merged(b, row) \in Mirror!Fields
         /\ Mirror!Merged(b, row).pos =
              IF row.pos # Mirror!Absent THEN row.pos
              ELSE IF b = Mirror!None THEN Mirror!Absent ELSE b.pos
         /\ Mirror!Merged(b, row).margin =
              IF row.margin # Mirror!Absent THEN row.margin
              ELSE IF b = Mirror!None THEN Mirror!Absent ELSE b.margin
<1>1. b = Mirror!None \/ b \in Mirror!Fields BY DEF MirrorRow
<1>2. PICK p \in {Mirror!Absent} \cup (-TopSize..TopSize), m \in {Mirror!Absent, 0, 1} :
         row.pos = p /\ row.margin = m
  BY MirrorFields
<1>3. Mirror!NoRow.pos = Mirror!Absent /\ Mirror!NoRow.margin = Mirror!Absent
  BY DEF Mirror!NoRow
<1>4. PICK base \in Mirror!Fields : base = IF b = Mirror!None THEN Mirror!NoRow ELSE b
  BY <1>1, MirrorFields
<1>5. Mirror!Merged(b, row) = [pos |-> IF p = Mirror!Absent THEN base.pos ELSE p,
                               margin |-> IF m = Mirror!Absent THEN base.margin ELSE m]
  BY <1>2, <1>4 DEF Mirror!Merged
<1>6. base.pos \in {Mirror!Absent} \cup (-TopSize..TopSize) /\ base.margin \in {Mirror!Absent, 0, 1}
  BY MirrorFields
<1>7. Mirror!Merged(b, row) \in Mirror!Fields
  <2>1. PICK x \in {Mirror!Absent} \cup (-TopSize..TopSize), y \in {Mirror!Absent, 0, 1} :
           Mirror!Merged(b, row) = [pos |-> x, margin |-> y]
    BY <1>5, <1>6
  <2>2. QED BY <2>1 DEF Mirror!Fields
<1>8. QED BY <1>2, <1>3, <1>4, <1>5, <1>7

\* It keeps a sound row sound.
LEMMA AppliesSound ==
  ASSUME Mirror!ConstantsOK, NEW exec \in BOOLEAN, NEW b \in MirrorRow, NEW row \in Mirror!Fields
  PROVE  Sound(exec, Applies(exec, b, row))
<1>1. Mirror!Merged(b, row) \in Mirror!Fields BY MergedDoes
<1>2. QED BY <1>1 DEF Applies, Sound, MirrorRow, Mirror!ExecutorRow, Mirror!RustRow

\* A message leaves a sound row sound.
LEMMA AfterSound ==
  ASSUME Mirror!ConstantsOK, NEW exec \in BOOLEAN, NEW b, Sound(exec, b),
         NEW msg \in Telling \cup Opening, NEW s \in Symbols
  PROVE  Sound(exec, After(exec, b, msg, s))
<1>1. b \in MirrorRow BY DEF Sound
<1>2. Sound(exec, Mirror!None) BY DEF Sound, MirrorRow
<1>3. CASE msg \in Opening
  <2>1. msg.kind = "s" /\ \A t \in DOMAIN msg.row : msg.row[t] \in Mirror!Fields
    BY <1>3 DEF Opening
  <2>2. QED BY <1>1, <2>1, AppliesSound DEF After
<1>4. CASE msg \in Telling
  <2>1. msg.kind # "s" /\ msg.row \in Mirror!Fields BY <1>4 DEF Telling
  <2>2. QED BY <1>1, <1>2, <2>1, AppliesSound DEF After
<1>5. QED BY <1>3, <1>4

\* No messages lead from a row to that row, and nowhere else.
LEMMA LeadsNowhere ==
  ASSUME NEW exec, NEW a \in MirrorRow, NEW s
  PROVE  /\ Leads(exec, <<>>, a, a, s)
         /\ \A b : Leads(exec, <<>>, a, b, s) => b = a
<1>1. Len(<<>>) = 0 /\ 1..0 = {} OBVIOUS
<1>2. Leads(exec, <<>>, a, a, s)
  <2> DEFINE R == [i \in 0..0 |-> a]
  <2>1. R \in [0..Len(<<>>) -> MirrorRow] /\ R[0] = a BY <1>1
  <2>2. QED BY <1>1, <2>1 DEF Leads
<1>3. QED BY <1>1, <1>2 DEF Leads

\* One more message.
LEMMA LeadsOn ==
  ASSUME NEW exec, NEW M, NEW f \in Seq(M), NEW msg \in M, NEW a, NEW b, NEW s,
         Leads(exec, f, a, b, s), After(exec, b, msg, s) \in MirrorRow
  PROVE  Leads(exec, Append(f, msg), a, After(exec, b, msg, s), s)
<1>1. PICK n : n = Len(f) OBVIOUS
<1>2. n \in Nat BY <1>1
<1>3. PICK R \in [0..n -> MirrorRow] :
        /\ R[0] = a /\ R[n] = b
        /\ \A i \in 1..n : R[i] = After(exec, R[i - 1], f[i], s)
  BY <1>1 DEF Leads
<1>4. PICK g : g = Append(f, msg) OBVIOUS
<1>5. Len(g) = n + 1 /\ g[n + 1] = msg /\ \A i \in 1..n : g[i] = f[i]
  BY <1>1, <1>4, AppendProperties
<1>6. PICK c \in MirrorRow : c = After(exec, b, msg, s) OBVIOUS
<1> DEFINE T == [i \in 0..(n + 1) |-> IF i = n + 1 THEN c ELSE R[i]]
<1>7. T \in [0..(n + 1) -> MirrorRow]
  <2>1. \A i \in 0..(n + 1) : i # n + 1 => i \in 0..n BY <1>2
  <2>2. QED BY <2>1
<1>8. T[0] = a /\ T[n + 1] = c BY <1>2, <1>3
<1>9. ASSUME NEW i \in 1..(n + 1) PROVE T[i] = After(exec, T[i - 1], g[i], s)
  <2>1. i - 1 \in 0..(n + 1) /\ i \in 0..(n + 1) /\ i - 1 # n + 1 BY <1>2
  <2>2. T[i - 1] = R[i - 1] BY <2>1
  <2>3. CASE i = n + 1
    <3>1. i - 1 = n BY <1>2, <2>3
    <3>2. QED BY <1>3, <1>5, <1>6, <1>8, <2>2, <2>3, <3>1
  <2>4. CASE i # n + 1
    <3>1. i \in 1..n /\ T[i] = R[i] BY <1>2, <2>1, <2>4
    <3>2. QED BY <1>3, <1>5, <2>2, <3>1
  <2>5. QED BY <2>3, <2>4
<1>10. QED
  <2> HIDE DEF T
  <2>1. Leads(exec, g, a, c, s) BY <1>5, <1>7, <1>8, <1>9 DEF Leads
  <2>2. QED BY <1>4, <1>6, <2>1

\* One message less.
LEMMA LeadsLess ==
  ASSUME NEW exec, NEW M, NEW f \in Seq(M), f # <<>>, NEW a, NEW b, NEW s,
         Leads(exec, f, a, b, s)
  PROVE  Leads(exec, Tail(f), After(exec, a, Head(f), s), b, s)
<1>1. PICK n : n = Len(f) OBVIOUS
<1>2. n \in Nat \ {0} BY <1>1
<1>3. PICK R \in [0..n -> MirrorRow] :
        /\ R[0] = a /\ R[n] = b
        /\ \A i \in 1..n : R[i] = After(exec, R[i - 1], f[i], s)
  BY <1>1 DEF Leads
<1>4. PICK g : g = Tail(f) OBVIOUS
<1>5. Len(g) = n - 1 /\ \A i \in 1..(n - 1) : g[i] = f[i + 1]
  BY <1>1, <1>4
<1>6. Head(f) = f[1] OBVIOUS
<1> DEFINE T == [i \in 0..(n - 1) |-> R[i + 1]]
<1>7. T \in [0..(n - 1) -> MirrorRow] BY <1>2
<1>8. T[0] = After(exec, a, Head(f), s) /\ T[n - 1] = b
  <2>1. 0 \in 0..(n - 1) /\ n - 1 \in 0..(n - 1) /\ 1 \in 1..n /\ 1 - 1 = 0 /\ (n - 1) + 1 = n
    BY <1>2
  <2>2. T[0] = R[1] /\ T[n - 1] = R[n] BY <2>1
  <2>3. QED BY <1>3, <1>6, <2>1, <2>2
<1>9. ASSUME NEW i \in 1..(n - 1) PROVE T[i] = After(exec, T[i - 1], g[i], s)
  <2>1. i \in 0..(n - 1) /\ i - 1 \in 0..(n - 1) /\ i + 1 \in 1..n /\ (i + 1) - 1 = i
        /\ (i - 1) + 1 = i
    BY <1>2
  <2>2. T[i] = R[i + 1] /\ T[i - 1] = R[i] BY <2>1
  <2>3. QED BY <1>3, <1>5, <2>1, <2>2
<1>10. QED
  <2> HIDE DEF T
  <2>1. Leads(exec, g, T[0], b, s) BY <1>5, <1>7, <1>8, <1>9 DEF Leads
  <2>2. QED BY <1>4, <1>8, <2>1

\* What a change of position does to the row that told the old one.
Reports(exec, p, c) ==
    /\ Sound(exec, c)
    /\ p # 0 => c # Mirror!None /\ c.pos = p /\ c.margin = 1
    /\ p = 0 => ~Held(exec, c)

\* What a row becomes by each kind of report.
LEMMA ToldRows ==
  ASSUME Mirror!ConstantsOK, NEW exec \in BOOLEAN, NEW b, Sound(exec, b),
         NEW p \in -TopSize..TopSize, NEW m, m = IF p = 0 THEN 0 ELSE 1,
         p = 0 => b # Mirror!None /\ b.margin = 1
  PROVE  LET one == [pos |-> p, margin |-> m]
             size == [pos |-> p, margin |-> Mirror!Absent]
             held == [pos |-> Mirror!Absent, margin |-> m]
         IN  /\ Reports(exec, p, Applies(exec, b, one))
             /\ Reports(exec, p, Applies(exec, Applies(exec, b, size), held))
             /\ Reports(exec, p, Applies(exec, Applies(exec, b, held), size))
<1> DEFINE one == [pos |-> p, margin |-> m]
           size == [pos |-> p, margin |-> Mirror!Absent]
           held == [pos |-> Mirror!Absent, margin |-> m]
<1>1. one \in Mirror!Fields /\ size \in Mirror!Fields /\ held \in Mirror!Fields
  BY MirrorFields
<1>2. /\ one.pos = p /\ one.margin = m /\ size.pos = p /\ size.margin = Mirror!Absent
      /\ held.pos = Mirror!Absent /\ held.margin = m
  OBVIOUS
<1>3. p # Mirror!Absent /\ m # Mirror!Absent /\ Mirror!Absent # 0 /\ Mirror!Absent # 1 /\ p \in Int
  BY MirrorFields
<1> HIDE DEF one, size, held
<1>4. b \in MirrorRow BY DEF Sound
<1>5. /\ Sound(exec, Applies(exec, b, one)) /\ Sound(exec, Applies(exec, b, size))
      /\ Sound(exec, Applies(exec, b, held))
  BY <1>1, <1>4, AppliesSound
<1>6. Applies(exec, b, size) \in MirrorRow /\ Applies(exec, b, held) \in MirrorRow
  BY <1>5 DEF Sound
<1>7. /\ Sound(exec, Applies(exec, Applies(exec, b, size), held))
      /\ Sound(exec, Applies(exec, Applies(exec, b, held), size))
  BY <1>1, <1>6, AppliesSound
<1>8. Reports(exec, p, Applies(exec, b, one))
  <2>1. PICK r \in Mirror!Fields : r = Mirror!Merged(b, one) BY <1>1, <1>4, MergedDoes
  <2>2. r.pos = p /\ r.margin = m BY <1>1, <1>2, <1>3, <1>4, <2>1, MergedDoes
  <2>3. Applies(exec, b, one) = IF m = 0 THEN Mirror!None ELSE r
    <3>1. CASE exec BY <2>1, <2>2, <3>1 DEF Applies, Mirror!ExecutorRow
    <3>2. CASE ~exec
      <4>1. r # Mirror!None BY MirrorFields
      <4>2. Mirror!Position(r) = p BY <1>3, <2>2, <4>1 DEF Mirror!Position
      <4>3. QED BY <1>2, <2>1, <2>2, <3>2, <4>2 DEF Applies, Mirror!RustRow
    <3>3. QED BY <3>1, <3>2
  <2>4. r # Mirror!None BY MirrorFields
  <2>5. QED BY <1>5, <2>2, <2>3, <2>4 DEF Reports, Held, Mirror!Position
<1>9. Reports(exec, p, Applies(exec, Applies(exec, b, size), held))
  <2>1. PICK r \in Mirror!Fields : r = Mirror!Merged(b, size) BY <1>1, <1>4, MergedDoes
  <2>2. r.pos = p /\ r.margin = IF b = Mirror!None THEN Mirror!Absent ELSE b.margin
    BY <1>1, <1>2, <1>3, <1>4, <2>1, MergedDoes
  <2>3. r # Mirror!None BY MirrorFields
  <2>4. Applies(exec, b, size) = r
    BY <1>2, <1>3, <2>1, <2>2 DEF Applies, Sound, Mirror!ExecutorRow, Mirror!RustRow
  <2>5. PICK q \in Mirror!Fields : q = Mirror!Merged(r, held)
    BY <1>1, <1>6, <2>4, MergedDoes
  <2>6. q.pos = p /\ q.margin = m BY <1>1, <1>2, <1>3, <1>6, <2>2, <2>3, <2>4, <2>5, MergedDoes
  <2>7. q # Mirror!None BY MirrorFields
  <2>8. Applies(exec, r, held) = IF m = 0 THEN Mirror!None ELSE q
    <3>1. CASE exec BY <2>5, <2>6, <3>1 DEF Applies, Mirror!ExecutorRow
    <3>2. CASE ~exec
      <4>1. Mirror!Position(q) = p BY <1>3, <2>6, <2>7 DEF Mirror!Position
      <4>2. QED BY <1>2, <2>5, <2>6, <3>2, <4>1 DEF Applies, Mirror!RustRow
    <3>3. QED BY <3>1, <3>2
  <2>9. QED BY <1>7, <2>4, <2>6, <2>7, <2>8 DEF Reports, Held, Mirror!Position
<1>10. Reports(exec, p, Applies(exec, Applies(exec, b, held), size))
  <2>1. PICK r \in Mirror!Fields : r = Mirror!Merged(b, held) BY <1>1, <1>4, MergedDoes
  <2>2. r.margin = m /\ r.pos = IF b = Mirror!None THEN Mirror!Absent ELSE b.pos
    BY <1>1, <1>2, <1>3, <1>4, <2>1, MergedDoes
  <2>3. r # Mirror!None BY MirrorFields
  <2>4. Applies(exec, b, held) = r \/ (p = 0 /\ Applies(exec, b, held) = Mirror!None)
    BY <1>2, <1>3, <2>1, <2>2 DEF Applies, Mirror!ExecutorRow, Mirror!RustRow
  <2>5. exec /\ p = 0 => Applies(exec, b, held) = Mirror!None
    BY <2>1, <2>2 DEF Applies, Mirror!ExecutorRow
  <2>6. CASE Applies(exec, b, held) = r
    <3>1. PICK q \in Mirror!Fields : q = Mirror!Merged(r, size) BY <1>1, <1>6, <2>6, MergedDoes
    <3>2. q.pos = p /\ q.margin = m
      BY <1>1, <1>2, <1>3, <1>6, <2>2, <2>3, <2>6, <3>1, MergedDoes
    <3>3. q # Mirror!None BY MirrorFields
    <3>4. ~(exec /\ p = 0) BY <2>3, <2>5, <2>6
    <3>5. Applies(exec, r, size) = q
      BY <1>2, <1>3, <3>1, <3>2, <3>4 DEF Applies, Mirror!ExecutorRow, Mirror!RustRow
    <3>6. QED BY <1>7, <2>6, <3>2, <3>3, <3>4, <3>5 DEF Reports, Held, Mirror!Position
  <2>7. CASE p = 0 /\ Applies(exec, b, held) = Mirror!None
    <3>1. PICK q \in Mirror!Fields : q = Mirror!Merged(Mirror!None, size)
      BY <1>1, <1>6, <2>7, MergedDoes
    <3>2. q.pos = p /\ q.margin = Mirror!Absent
      BY <1>1, <1>2, <1>3, <1>6, <2>7, <3>1, MergedDoes
    <3>3. q # Mirror!None BY MirrorFields
    <3>4. Applies(exec, Mirror!None, size) = q
      BY <1>2, <1>3, <3>1, <3>2 DEF Applies, Mirror!ExecutorRow, Mirror!RustRow
    <3>5. QED BY <1>3, <1>7, <2>7, <3>2, <3>3, <3>4 DEF Reports, Held, Mirror!Position
  <2>8. QED BY <2>4, <2>6, <2>7
<1>11. QED BY <1>8, <1>9, <1>10 DEF one, size, held

\* Messages at the end of a queue, one by one.
LEMMA AppendsOne ==
  ASSUME NEW M, NEW f \in Seq(M), NEW x \in M, NEW t \in Seq(M)
  PROVE  /\ f \o <<x>> = Append(f, x) /\ f \o Append(t, x) = Append(f \o t, x)
         /\ f \o t \in Seq(M) /\ <<x>> \in Seq(M) /\ Append(f, x) \in Seq(M)
         /\ Append(t, x) \in Seq(M)
<1>1. PICK o, z, w : o = <<x>> /\ z = f \o t /\ w = Append(t, x) OBVIOUS
<1>2. o \in Seq(M) /\ Len(o) = 1 /\ o[1] = x BY <1>1
<1>3. /\ z \in Seq(M) /\ Len(z) = Len(f) + Len(t)
      /\ \A i \in 1..(Len(f) + Len(t)) : z[i] = IF i <= Len(f) THEN f[i] ELSE t[i - Len(f)]
  BY <1>1, ConcatProperties
<1>4. /\ w \in Seq(M) /\ Len(w) = Len(t) + 1 /\ w[Len(t) + 1] = x
      /\ \A i \in 1..Len(t) : w[i] = t[i]
  BY <1>1, AppendProperties
<1>5. PICK e, g, u, v : e = f \o o /\ g = Append(f, x) /\ u = f \o w /\ v = Append(z, x)
  OBVIOUS
<1>6. /\ e \in Seq(M) /\ Len(e) = Len(f) + Len(o)
      /\ \A i \in 1..(Len(f) + Len(o)) : e[i] = IF i <= Len(f) THEN f[i] ELSE o[i - Len(f)]
  BY <1>2, <1>5, ConcatProperties
<1>7. /\ g \in Seq(M) /\ Len(g) = Len(f) + 1 /\ g[Len(f) + 1] = x
      /\ \A i \in 1..Len(f) : g[i] = f[i]
  BY <1>5, AppendProperties
<1>8. /\ u \in Seq(M) /\ Len(u) = Len(f) + Len(w)
      /\ \A i \in 1..(Len(f) + Len(w)) : u[i] = IF i <= Len(f) THEN f[i] ELSE w[i - Len(f)]
  <2>1. w \in Seq(M) /\ u = f \o w BY <1>4, <1>5
  <2>2. QED BY <2>1, ConcatProperties
<1>9. /\ v \in Seq(M) /\ Len(v) = Len(z) + 1 /\ v[Len(z) + 1] = x
      /\ \A i \in 1..Len(z) : v[i] = z[i]
  BY <1>3, <1>5, AppendProperties
<1>10. PICK m \in Nat, n \in Nat : m = Len(f) /\ n = Len(t) OBVIOUS
<1>11. e = g
  <2>1. \A i \in 1..Len(e) : e[i] = g[i]
    <3> SUFFICES ASSUME NEW i \in 1..(m + 1) PROVE e[i] = g[i] BY <1>2, <1>6, <1>10
    <3>1. CASE i <= m BY <1>2, <1>6, <1>7, <1>10, <3>1
    <3>2. CASE i = m + 1
      <4>1. i - m = 1 /\ ~(i <= m) BY <3>2
      <4>2. QED BY <1>2, <1>6, <1>7, <1>10, <3>2, <4>1
    <3>3. QED BY <3>1, <3>2
  <2>2. QED BY <1>2, <1>6, <1>7, <2>1, SeqEqual
<1>12. u = v
  <2>1. \A i \in 1..Len(u) : u[i] = v[i]
    <3> SUFFICES ASSUME NEW i \in 1..(m + n + 1) PROVE u[i] = v[i] BY <1>4, <1>8, <1>10
    <3>1. CASE i <= m
      <4>1. i \in 1..(m + n) BY <3>1
      <4>2. u[i] = f[i] BY <1>4, <1>8, <1>10, <3>1
      <4>3. v[i] = z[i] BY <1>3, <1>9, <1>10, <4>1
      <4>4. z[i] = f[i] BY <1>3, <1>10, <3>1, <4>1
      <4>5. QED BY <4>2, <4>3, <4>4
    <3>2. CASE i > m /\ i <= m + n
      <4>1. i - m \in 1..n /\ ~(i <= m) /\ i \in 1..(m + n) BY <3>2
      <4>2. u[i] = w[i - m] BY <1>4, <1>8, <1>10, <4>1
      <4>3. w[i - m] = t[i - m] BY <1>4, <1>10, <4>1
      <4>4. v[i] = z[i] BY <1>3, <1>9, <1>10, <4>1
      <4>5. z[i] = t[i - m] BY <1>3, <1>10, <4>1
      <4>6. QED BY <4>2, <4>3, <4>4, <4>5
    <3>3. CASE i = m + n + 1
      <4>1. i - m = n + 1 /\ ~(i <= m) BY <3>3
      <4>2. u[i] = w[n + 1] BY <1>4, <1>8, <1>10, <4>1
      <4>3. v[i] = x BY <1>3, <1>9, <1>10, <3>3
      <4>4. QED BY <1>4, <1>10, <4>2, <4>3
    <3>4. QED BY <3>1, <3>2, <3>3
  <2>2. Len(u) = Len(v) BY <1>3, <1>4, <1>8, <1>9, <1>10
  <2>3. QED BY <1>8, <1>9, <2>1, <2>2, SeqEqual
<1>13. QED BY <1>1, <1>2, <1>3, <1>4, <1>5, <1>7, <1>11, <1>12

\* One more field of a symbol: its own row takes it, the others stay.
LEMMA LeadsTo ==
  ASSUME Mirror!ConstantsOK, NEW exec \in BOOLEAN, NEW f \in Seq(Telling \cup Opening),
         NEW a, NEW b, Sound(exec, b), NEW q \in Symbols, NEW msg \in Telling,
         Leads(exec, f, a, b, q)
  PROVE  /\ Append(f, msg) \in Seq(Telling \cup Opening)
         /\ msg.sym # q => Leads(exec, Append(f, msg), a, b, q)
         /\ msg.sym = q /\ msg.kind = "d" => Leads(exec, Append(f, msg), a, Mirror!None, q)
         /\ msg.sym = q /\ msg.kind # "d" =>
               /\ Leads(exec, Append(f, msg), a, Applies(exec, b, msg.row), q)
               /\ Sound(exec, Applies(exec, b, msg.row))
<1>1. msg.kind # "s" /\ msg \in Telling \cup Opening BY DEF Telling
<1>2. PICK c : c = After(exec, b, msg, q) OBVIOUS
<1>3. Sound(exec, c) BY <1>1, <1>2, AfterSound
<1>4. c \in MirrorRow BY <1>3 DEF Sound
<1>5. Leads(exec, Append(f, msg), a, c, q) BY <1>1, <1>2, <1>4, LeadsOn
<1>6. Append(f, msg) \in Seq(Telling \cup Opening) BY <1>1, AppendProperties
<1>7. msg.sym # q => c = b BY <1>1, <1>2 DEF After
<1>8. msg.sym = q /\ msg.kind = "d" => c = Mirror!None BY <1>1, <1>2 DEF After
<1>9. msg.sym = q /\ msg.kind # "d" => c = Applies(exec, b, msg.row) BY <1>1, <1>2 DEF After
<1>10. QED BY <1>3, <1>5, <1>6, <1>7, <1>8, <1>9

\* A queue after a change of s to p has been told: s ends up as told, all others as before.
Queued(exec, f, g, a, s, p) ==
    /\ g \in Seq(Telling \cup Opening)
    /\ \E c \in MirrorRow : Reports(exec, p, c) /\ Leads(exec, g, a, c, s)
    /\ \A q \in Symbols \ {s} : \A a2, b2 :
          Sound(exec, b2) /\ Leads(exec, f, a2, b2, q) => Leads(exec, g, a2, b2, q)

\* One report at the end of the queue.
LEMMA QueuedOne ==
  ASSUME Mirror!ConstantsOK, NEW exec \in BOOLEAN, NEW f \in Seq(Telling \cup Opening),
         NEW a, NEW b, Sound(exec, b), NEW s \in Symbols, NEW p, NEW x \in Telling,
         x.sym = s, x.kind # "d", Leads(exec, f, a, b, s), Reports(exec, p, Applies(exec, b, x.row))
  PROVE  Queued(exec, f, Append(f, x), a, s, p)
<1>1. Append(f, x) \in Seq(Telling \cup Opening) BY LeadsTo
<1>2. Leads(exec, Append(f, x), a, Applies(exec, b, x.row), s) BY LeadsTo
<1>3. Applies(exec, b, x.row) \in MirrorRow BY DEF Reports, Sound
<1>4. \A q \in Symbols \ {s} : \A a2, b2 :
        Sound(exec, b2) /\ Leads(exec, f, a2, b2, q) => Leads(exec, Append(f, x), a2, b2, q)
  BY LeadsTo
<1>5. QED BY <1>1, <1>2, <1>3, <1>4 DEF Queued

\* Two reports, of the size and of the margin.
LEMMA QueuedTwo ==
  ASSUME Mirror!ConstantsOK, NEW exec \in BOOLEAN, NEW f \in Seq(Telling \cup Opening),
         NEW a, NEW b, Sound(exec, b), NEW s \in Symbols, NEW p, NEW x \in Telling,
         x.sym = s, x.kind # "d", Leads(exec, f, a, b, s), NEW y \in Telling, y.sym = s,
         y.kind # "d", Reports(exec, p, Applies(exec, Applies(exec, b, x.row), y.row))
  PROVE  Queued(exec, f, Append(Append(f, x), y), a, s, p)
<1>1. PICK g \in Seq(Telling \cup Opening) : g = Append(f, x) BY LeadsTo
<1>2. PICK c : c = Applies(exec, b, x.row) OBVIOUS
<1>3. Leads(exec, g, a, c, s) /\ Sound(exec, c) BY <1>1, <1>2, LeadsTo
<1>4. Queued(exec, g, Append(g, y), a, s, p) BY <1>2, <1>3, QueuedOne
<1>5. \A q \in Symbols \ {s} : \A a2, b2 :
        Sound(exec, b2) /\ Leads(exec, f, a2, b2, q) => Leads(exec, g, a2, b2, q)
  BY <1>1, LeadsTo
<1>6. QED BY <1>1, <1>4, <1>5 DEF Queued

\* A deletion at the end of the queue.
LEMMA QueuedGone ==
  ASSUME Mirror!ConstantsOK, NEW exec \in BOOLEAN, NEW f, NEW g, NEW a, NEW s \in Symbols,
         Queued(exec, f, g, a, s, 0), NEW d \in Telling, d.sym = s, d.kind = "d"
  PROVE  Queued(exec, f, Append(g, d), a, s, 0)
<1>1. g \in Seq(Telling \cup Opening) BY DEF Queued
<1>2. PICK c \in MirrorRow : Reports(exec, 0, c) /\ Leads(exec, g, a, c, s) BY DEF Queued
<1>3. Sound(exec, c) BY <1>2 DEF Reports
<1>4. Append(g, d) \in Seq(Telling \cup Opening) /\ Leads(exec, Append(g, d), a, Mirror!None, s)
  BY <1>1, <1>2, <1>3, LeadsTo
<1>5. Reports(exec, 0, Mirror!None) /\ Mirror!None \in MirrorRow
  BY DEF Reports, Held, Sound, Mirror!Position, MirrorRow
<1>6. ASSUME NEW q \in Symbols \ {s}, NEW a2, NEW b2, Sound(exec, b2), Leads(exec, f, a2, b2, q)
      PROVE  Leads(exec, Append(g, d), a2, b2, q)
  <2>1. Leads(exec, g, a2, b2, q) BY <1>6 DEF Queued
  <2>2. d.sym # q OBVIOUS
  <2>3. QED BY <1>1, <1>6, <2>1, <2>2, LeadsTo
<1>7. QED BY <1>4, <1>5, <1>6 DEF Queued

\* However a change is told, the row of its symbol tells it in the end.
LEMMA ToldLeads ==
  ASSUME Mirror!ConstantsOK, NEW exec \in BOOLEAN, NEW f \in Seq(Telling \cup Opening),
         NEW a, NEW b, Sound(exec, b), NEW s \in Symbols,
         NEW p \in -TopSize..TopSize, NEW m, m = IF p = 0 THEN 0 ELSE 1,
         p = 0 => b # Mirror!None /\ b.margin = 1,
         Leads(exec, f, a, b, s), NEW t \in Mirror!Told(s, p, m)
  PROVE  Queued(exec, f, f \o t, a, s, p)
<1> DEFINE one == Mirror!Update(s, p, m)
           size == Mirror!Update(s, p, Mirror!Absent)
           held == Mirror!Update(s, Mirror!Absent, m)
           del == Mirror!Delete(s)
           Tellings == {<<one>>, <<size, held>>, <<held, size>>}
<1>1. /\ one \in Telling /\ one.sym = s /\ one.kind # "d" /\ one.row = [pos |-> p, margin |-> m]
      /\ size \in Telling /\ size.sym = s /\ size.kind # "d"
      /\ size.row = [pos |-> p, margin |-> Mirror!Absent]
      /\ held \in Telling /\ held.sym = s /\ held.kind # "d"
      /\ held.row = [pos |-> Mirror!Absent, margin |-> m]
      /\ del \in Telling /\ del.sym = s /\ del.kind = "d"
  BY MirrorFields DEF Telling, Mirror!Update, Mirror!Delete
<1>2. /\ Reports(exec, p, Applies(exec, b, one.row))
      /\ Reports(exec, p, Applies(exec, Applies(exec, b, size.row), held.row))
      /\ Reports(exec, p, Applies(exec, Applies(exec, b, held.row), size.row))
  BY <1>1, ToldRows
<1>3. t \in Tellings \/ (p = 0 /\ \E u \in Tellings : t = Append(u, del))
  BY DEF Mirror!Told
<1> HIDE DEF one, size, held, del
<1>4. /\ Queued(exec, f, Append(f, one), a, s, p)
      /\ Queued(exec, f, Append(Append(f, size), held), a, s, p)
      /\ Queued(exec, f, Append(Append(f, held), size), a, s, p)
  BY <1>1, <1>2, QueuedOne, QueuedTwo
<1>5. ASSUME NEW x \in Telling, NEW y \in Telling
      PROVE  /\ <<x>> \in Seq(Telling \cup Opening) /\ f \o <<x>> = Append(f, x)
             /\ <<x, y>> \in Seq(Telling \cup Opening) /\ f \o <<x, y>> = Append(Append(f, x), y)
  <2>1. x \in Telling \cup Opening /\ y \in Telling \cup Opening OBVIOUS
  <2>2. <<x, y>> = Append(<<x>>, y) BY Tuples
  <2>3. <<x>> \in Seq(Telling \cup Opening) /\ f \o <<x>> = Append(f, x) BY <2>1, AppendsOne
  <2>4. f \o Append(<<x>>, y) = Append(f \o <<x>>, y)
        /\ Append(<<x>>, y) \in Seq(Telling \cup Opening)
    BY <2>1, <2>3, AppendsOne
  <2>5. QED BY <2>2, <2>3, <2>4
<1>6. ASSUME NEW u \in Tellings
      PROVE  u \in Seq(Telling \cup Opening) /\ Queued(exec, f, f \o u, a, s, p)
  BY <1>1, <1>4, <1>5
<1>7. CASE t \in Tellings BY <1>6, <1>7
<1>8. ASSUME p = 0, NEW u \in Tellings, t = Append(u, del) PROVE Queued(exec, f, f \o t, a, s, p)
  <2>1. u \in Seq(Telling \cup Opening) /\ Queued(exec, f, f \o u, a, s, 0) BY <1>6, <1>8
  <2>2. f \o t = Append(f \o u, del) BY <1>1, <1>8, <2>1, AppendsOne
  <2>3. QED BY <1>1, <1>8, <2>1, <2>2, QueuedGone
<1>9. QED BY <1>3, <1>7, <1>8

\* A mirror starts with its invariant.
LEMMA MirrorInit == Mirror!ConstantsOK /\ Mirror!Init => MirrorInv
<1> SUFFICES ASSUME Mirror!ConstantsOK, Mirror!Init PROVE MirrorInv
  OBVIOUS
<1>1. {0, 1} \subseteq -TopSize..TopSize BY MirrorFields
<1>2. MirrorTypes
  <2>1. m_real \in [Symbols -> -TopSize..TopSize] BY <1>1 DEF Mirror!Init
  <2>2. m_rows \in [Symbols -> MirrorRow] BY DEF Mirror!Init, MirrorRow
  <2>3. m_feed \in Seq(Telling \cup Opening) BY DEF Mirror!Init
  <2>4. QED BY <2>1, <2>2, <2>3 DEF Mirror!Init, MirrorTypes
<1>3. \A s \in Symbols : m_rows[s] = Mirror!None BY DEF Mirror!Init
<1>4. \A e : Sound(e, Mirror!None) /\ ~Held(e, Mirror!None)
  BY DEF Sound, Held, Mirror!Position, MirrorRow
<1>5. QED BY <1>2, <1>3, <1>4 DEF MirrorInv, Mirror!Init

\* A position changes, and the exchange reports it.
LEMMA MirrorChange ==
  ASSUME Mirror!ConstantsOK, MirrorInv, NEW s \in Symbols, NEW p \in -TopSize..TopSize,
         Mirror!Change(s, p)
  PROVE  MirrorInv'
<1>1. /\ UNCHANGED <<m_reader, m_rows, m_connected>> /\ p # m_real[s]
      /\ m_real' = [m_real EXCEPT ![s] = p]
      /\ m_margin' = [m_margin EXCEPT ![s] = IF p = 0 THEN 0 ELSE 1]
  BY DEF Mirror!Change
<1>2. PICK exec \in BOOLEAN : exec = Executor /\ exec = Executor'
  BY <1>1 DEF Executor
<1>3. /\ m_real' \in [Symbols -> -TopSize..TopSize]
      /\ m_margin' = [q \in Symbols |-> IF m_real'[q] = 0 THEN 0 ELSE 1]
      /\ m_real'[s] = p /\ m_margin'[s] = IF p = 0 THEN 0 ELSE 1
      /\ \A q \in Symbols \ {s} : m_real'[q] = m_real[q]
  BY <1>1 DEF MirrorInv, MirrorTypes
<1>4. \A q \in Symbols : Sound(exec, m_rows'[q])
  BY <1>1, <1>2 DEF MirrorInv
<1>5. CASE ~m_connected
  <2>1. m_feed' = m_feed /\ m_unseen' = IF p = 0 THEN m_unseen \cup {s} ELSE m_unseen \ {s}
    BY <1>5 DEF Mirror!Change
  <2>2. MirrorTypes' BY <1>1, <1>3, <2>1 DEF MirrorInv, MirrorTypes
  <2>3. \A q \in Symbols : m_real'[q] = 0 /\ Held(exec, m_rows'[q]) => q \in m_unseen'
    BY <1>1, <1>2, <1>3, <1>5, <2>1 DEF MirrorInv
  <2>4. QED BY <1>1, <1>2, <1>4, <1>5, <2>1, <2>2, <2>3 DEF MirrorInv
<1>6. CASE m_connected
  <2>1. m_unseen' = m_unseen BY <1>6 DEF Mirror!Change
  <2>2. PICK t \in Mirror!Told(s, p, m_margin'[s]) : m_feed' = m_feed \o t
    BY <1>6 DEF Mirror!Change
  <2>3. PICK f \in Seq(Telling \cup Opening) : f = m_feed
    BY DEF MirrorInv, MirrorTypes
  <2>4. PICK b : Sound(exec, b) /\ Tells(s, b) /\ Leads(exec, f, m_rows[s], b, s)
    BY <1>2, <1>6, <2>3 DEF MirrorInv
  <2>5. p = 0 => b # Mirror!None /\ b.margin = 1 BY <1>1, <2>4 DEF Tells
  <2>6. Queued(exec, f, f \o t, m_rows[s], s, p)
    BY <1>3, <2>2, <2>3, <2>4, <2>5, ToldLeads
  <2>7. PICK g : g = m_feed' OBVIOUS
  <2>8. Queued(exec, f, g, m_rows[s], s, p) BY <2>2, <2>3, <2>6, <2>7
  <2>9. MirrorTypes' BY <1>1, <1>3, <2>1, <2>7, <2>8 DEF MirrorInv, MirrorTypes, Queued
  <2>10. ASSUME NEW q \in Symbols
         PROVE  \E c \in MirrorRow :
                   Sound(exec, c) /\ Tells(q, c)' /\ Leads(exec, g, m_rows[q], c, q)
    <3>1. CASE q = s
      <4>1. PICK c \in MirrorRow : Reports(exec, p, c) /\ Leads(exec, g, m_rows[s], c, s)
        BY <2>8 DEF Queued
      <4>2. Tells(s, c)' BY <1>2, <1>3, <4>1 DEF Tells, Reports
      <4>3. QED BY <3>1, <4>1, <4>2 DEF Reports
    <3>2. CASE q # s
      <4>1. PICK c \in MirrorRow :
               Sound(exec, c) /\ Tells(q, c) /\ Leads(exec, f, m_rows[q], c, q)
        BY <1>2, <1>6, <2>3 DEF MirrorInv
      <4>2. Leads(exec, g, m_rows[q], c, q) BY <2>8, <3>2, <4>1 DEF Queued
      <4>3. Tells(q, c)' BY <1>2, <1>3, <2>1, <3>2, <4>1 DEF Tells
      <4>4. QED BY <4>1, <4>2, <4>3
    <3>3. QED BY <3>1, <3>2
  <2>11. QED BY <1>1, <1>2, <1>4, <1>6, <2>7, <2>9, <2>10 DEF MirrorInv
<1>7. QED BY <1>5, <1>6

\* A connection begins with a snapshot.
LEMMA MirrorConnect ==
  ASSUME Mirror!ConstantsOK, MirrorInv, Mirror!Connect
  PROVE  MirrorInv'
<1> DEFINE row == [s \in Mirror!Open |-> [pos |-> m_real[s], margin |-> m_margin[s]]]
           msg == [kind |-> "s", row |-> row]
<1>1. /\ ~m_connected /\ m_connected' = TRUE /\ m_feed' = <<msg>>
      /\ UNCHANGED <<m_reader, m_real, m_margin, m_rows, m_unseen>>
  BY DEF Mirror!Connect
<1>2. PICK exec \in BOOLEAN : exec = Executor /\ exec = Executor'
  BY <1>1 DEF Executor
<1>3. Mirror!Open \subseteq Symbols /\ \A s \in Symbols : s \in Mirror!Open <=> m_real[s] # 0
  BY DEF Mirror!Open
<1>4. ASSUME NEW s \in Mirror!Open
      PROVE  /\ row[s] \in Mirror!Fields /\ row[s].pos = m_real[s] /\ row[s].margin = 1
             /\ m_real[s] # 0 /\ m_real[s] \in -TopSize..TopSize
  <2>1. m_margin[s] = 1 /\ m_real[s] \in -TopSize..TopSize /\ m_real[s] # 0
    BY <1>3 DEF MirrorInv, MirrorTypes
  <2>2. row[s] = [pos |-> m_real[s], margin |-> 1] BY <2>1
  <2>3. QED BY <2>1, <2>2 DEF Mirror!Fields
<1>5. row \in [Mirror!Open -> Mirror!Fields] BY <1>4
<1>6. msg \in Opening BY <1>3, <1>5 DEF Opening
<1>7. msg.kind = "s" /\ msg.row = row /\ DOMAIN row = Mirror!Open OBVIOUS
<1> HIDE DEF row, msg
<1>8. MirrorTypes' BY <1>1, <1>6 DEF MirrorInv, MirrorTypes
<1>9. Append(<<>>, msg) = <<msg>> BY Tuples
<1>10. \A s \in Symbols : Sound(exec, m_rows[s]) BY <1>2 DEF MirrorInv
<1>11. ASSUME NEW s \in Symbols
       PROVE  \E c \in MirrorRow :
                 Sound(exec, c) /\ Tells(s, c)' /\ Leads(exec, <<msg>>, m_rows[s], c, s)
  <2>1. PICK b \in MirrorRow : b = m_rows[s] /\ Sound(exec, b) BY <1>10 DEF Sound
  <2>2. Leads(exec, <<>>, b, b, s) BY LeadsNowhere
  <2>3. PICK c : c = After(exec, b, msg, s) OBVIOUS
  <2>4. Sound(exec, c) /\ c \in MirrorRow BY <1>6, <2>1, <2>3, AfterSound DEF Sound
  <2>5. <<>> \in Seq(Telling \cup Opening) /\ msg \in Telling \cup Opening BY <1>6
  <2>6. Leads(exec, Append(<<>>, msg), b, c, s) BY <2>2, <2>3, <2>4, <2>5, LeadsOn
  <2>7. Tells(s, c)'
    <3>1. CASE s \in Mirror!Open
      <4>1. c = Applies(exec, b, row[s]) BY <1>7, <2>3, <3>1 DEF After
      <4>2. PICK r \in Mirror!Fields : r = Mirror!Merged(b, row[s])
        BY <1>4, <3>1, MergedDoes
      <4>3. r.pos = m_real[s] /\ r.margin = 1 /\ r # Mirror!None
        BY <1>4, <3>1, <4>2, MergedDoes, MirrorFields
      <4>4. c = r
        BY <1>4, <3>1, <4>1, <4>2, <4>3 DEF Applies, Mirror!ExecutorRow, Mirror!RustRow
      <4>5. QED BY <1>1, <1>4, <3>1, <4>3, <4>4 DEF Tells
    <3>2. CASE s \notin Mirror!Open
      <4>1. c = b /\ m_real[s] = 0 BY <1>3, <1>7, <2>3, <3>2 DEF After
      <4>2. Held(exec, m_rows[s]) => s \in m_unseen BY <1>1, <1>2, <4>1 DEF MirrorInv
      <4>3. QED BY <1>1, <1>2, <2>1, <4>1, <4>2 DEF Tells
    <3>3. QED BY <3>1, <3>2
  <2>8. QED BY <1>9, <2>1, <2>4, <2>6, <2>7
<1>12. QED BY <1>1, <1>2, <1>8, <1>10, <1>11 DEF MirrorInv

\* A connection is lost with what it had queued.
LEMMA MirrorLose ==
  ASSUME Mirror!ConstantsOK, MirrorInv, Mirror!Lose
  PROVE  MirrorInv'
<1>1. /\ m_connected' = FALSE /\ m_feed' = <<>>
      /\ m_unseen' = m_unseen \cup {s \in Symbols : m_real[s] = 0 /\ m_rows[s] # Mirror!None}
      /\ UNCHANGED <<m_reader, m_real, m_margin, m_rows>>
  BY DEF Mirror!Lose
<1>2. PICK exec \in BOOLEAN : exec = Executor /\ exec = Executor'
  BY <1>1 DEF Executor
<1>3. MirrorTypes'
  <2>1. m_unseen' \subseteq Symbols BY <1>1 DEF MirrorInv, MirrorTypes
  <2>2. m_feed' \in Seq(Telling \cup Opening) BY <1>1
  <2>3. QED BY <1>1, <2>1, <2>2 DEF MirrorInv, MirrorTypes
<1>4. ~Held(exec, Mirror!None) BY DEF Held, Mirror!Position
<1>5. \A s \in Symbols : m_real'[s] = 0 /\ Held(exec, m_rows'[s]) => s \in m_unseen'
  BY <1>1, <1>4
<1>6. \A s \in Symbols : Sound(exec, m_rows'[s]) BY <1>1, <1>2 DEF MirrorInv
<1>7. QED BY <1>1, <1>2, <1>3, <1>5, <1>6 DEF MirrorInv

\* The mirror handles the next message.
LEMMA MirrorHandle ==
  ASSUME Mirror!ConstantsOK, MirrorInv, Mirror!Handle
  PROVE  MirrorInv'
<1>1. PICK msg, f : msg = Head(m_feed) /\ f = m_feed OBVIOUS
<1>2. /\ f # <<>> /\ m_feed' = Tail(f)
      /\ UNCHANGED <<m_reader, m_real, m_margin, m_connected, m_unseen>>
  BY <1>1 DEF Mirror!Handle
<1>3. f \in Seq(Telling \cup Opening) BY <1>1 DEF MirrorInv, MirrorTypes
<1>4. msg \in Telling \cup Opening /\ Tail(f) \in Seq(Telling \cup Opening) /\ msg = Head(f)
  BY <1>1, <1>2, <1>3
<1>5. PICK exec \in BOOLEAN : exec = Executor /\ exec = Executor'
  BY <1>2 DEF Executor
<1>6. \A b, row : Mirror!Applied(b, row) = Applies(exec, b, row)
  BY <1>5 DEF Executor, Mirror!Applied, Applies
<1>7. m_connected BY <1>1, <1>2 DEF MirrorInv
<1>8. m_rows \in [Symbols -> MirrorRow] BY DEF MirrorInv, MirrorTypes
<1>9. m_rows' = [s \in Symbols |-> After(exec, m_rows[s], msg, s)]
  <2>1. CASE msg \in Opening
    <3>1. msg.kind = "s" BY <2>1 DEF Opening
    <3>2. m_rows' = Mirror!Snapshot(msg) BY <1>1, <3>1 DEF Mirror!Handle
    <3>3. QED BY <1>6, <3>1, <3>2 DEF Mirror!Snapshot, After
  <2>2. CASE msg \in Telling /\ msg.kind = "u"
    <3>1. m_rows' = [m_rows EXCEPT ![msg.sym] = Applies(exec, @, msg.row)]
      BY <1>1, <1>6, <2>2 DEF Mirror!Handle
    <3>2. msg.sym \in Symbols BY <2>2 DEF Telling
    <3>3. QED BY <1>8, <2>2, <3>1, <3>2 DEF After
  <2>3. CASE msg \in Telling /\ msg.kind = "d"
    <3>1. m_rows' = [m_rows EXCEPT ![msg.sym] = Mirror!None]
      BY <1>1, <2>3 DEF Mirror!Handle
    <3>2. msg.sym \in Symbols BY <2>3 DEF Telling
    <3>3. QED BY <1>8, <2>3, <3>1, <3>2 DEF After
  <2>4. msg \in Telling => msg.kind = "u" \/ msg.kind = "d" BY DEF Telling
  <2>5. QED BY <1>4, <2>1, <2>2, <2>3, <2>4
<1>10. ASSUME NEW s \in Symbols
       PROVE  /\ m_rows'[s] = After(exec, m_rows[s], msg, s)
              /\ Sound(exec, m_rows'[s])
  <2>1. Sound(exec, m_rows[s]) BY <1>5 DEF MirrorInv
  <2>2. m_rows'[s] = After(exec, m_rows[s], msg, s) BY <1>9
  <2>3. QED BY <1>4, <2>1, <2>2, AfterSound
<1>11. m_rows' \in [Symbols -> MirrorRow] BY <1>9, <1>10 DEF Sound
<1>12. MirrorTypes' BY <1>2, <1>4, <1>11 DEF MirrorInv, MirrorTypes
<1>13. ASSUME NEW s \in Symbols
       PROVE  \E c \in MirrorRow :
                 Sound(exec, c) /\ Tells(s, c)' /\ Leads(exec, Tail(f), m_rows'[s], c, s)
  <2>1. PICK c \in MirrorRow : Sound(exec, c) /\ Tells(s, c) /\ Leads(exec, f, m_rows[s], c, s)
    BY <1>1, <1>5, <1>7 DEF MirrorInv
  <2>2. Leads(exec, Tail(f), After(exec, m_rows[s], msg, s), c, s)
    BY <1>2, <1>3, <1>4, <2>1, LeadsLess
  <2>3. Tells(s, c)' BY <1>2, <1>5, <2>1 DEF Tells
  <2>4. QED BY <1>10, <2>1, <2>2, <2>3
<1>14. QED BY <1>2, <1>5, <1>7, <1>10, <1>12, <1>13 DEF MirrorInv

\* Every step of a mirror or of the exchange keeps it.
LEMMA MirrorStep == Mirror!ConstantsOK /\ MirrorInv /\ [Mirror!Next]_mirror => MirrorInv'
<1> SUFFICES ASSUME Mirror!ConstantsOK, MirrorInv, [Mirror!Next]_mirror PROVE MirrorInv'
  OBVIOUS
<1>1. CASE UNCHANGED mirror
  BY <1>1 DEF mirror, MirrorInv, MirrorTypes, Tells, Executor
<1>2. CASE \E s \in Symbols, p \in -TopSize..TopSize : Mirror!Change(s, p)
  BY <1>2, MirrorChange
<1>3. QED BY <1>1, <1>2, MirrorConnect, MirrorLose, MirrorHandle DEF Mirror!Next

\* It gives what a mirror must have.
LEMMA MirrorShows ==
  Mirror!ConstantsOK /\ MirrorInv =>
    Mirror!TypeOK /\ Mirror!NothingMissed /\ Mirror!GhostsOnlyFromGaps
<1> SUFFICES ASSUME Mirror!ConstantsOK, MirrorInv
             PROVE  Mirror!TypeOK /\ Mirror!NothingMissed /\ Mirror!GhostsOnlyFromGaps
  OBVIOUS
<1>1. Mirror!TypeOK BY DEF MirrorInv, MirrorTypes, Mirror!TypeOK, MirrorRow
<1>2. ASSUME Mirror!UpToDate, NEW s \in Symbols
      PROVE  Tells(s, m_rows[s])
  <2>1. m_connected /\ m_feed = <<>> BY <1>2 DEF Mirror!UpToDate
  <2>2. PICK c \in MirrorRow :
           Sound(Executor, c) /\ Tells(s, c) /\ Leads(Executor, m_feed, m_rows[s], c, s)
    BY <2>1 DEF MirrorInv
  <2>3. m_rows[s] \in MirrorRow BY DEF MirrorInv, MirrorTypes
  <2>4. c = m_rows[s] BY <2>1, <2>2, <2>3, LeadsNowhere
  <2>5. QED BY <2>2, <2>4
<1>3. \A s \in Symbols : Mirror!HasPosition(s) <=> Held(Executor, m_rows[s])
  BY DEF Mirror!HasPosition, Held, Executor
<1>4. ASSUME Mirror!UpToDate, NEW s \in Mirror!Open
      PROVE  Mirror!HasPosition(s) /\ Mirror!Position(m_rows[s]) = m_real[s]
  <2>1. s \in Symbols /\ m_real[s] # 0 BY DEF Mirror!Open
  <2>2. m_rows[s] # Mirror!None /\ m_rows[s].pos = m_real[s] BY <1>2, <1>4, <2>1 DEF Tells
  <2>3. m_real[s] # Mirror!Absent BY <2>1, MirrorFields DEF MirrorInv, MirrorTypes
  <2>4. Mirror!Position(m_rows[s]) = m_real[s] BY <2>2, <2>3 DEF Mirror!Position
  <2>5. QED BY <2>1, <2>4 DEF Mirror!HasPosition
<1>5. QED BY <1>1, <1>2, <1>3, <1>4 DEF Mirror!NothingMissed, Mirror!GhostsOnlyFromGaps, Tells

-----------------------------------------------------------------------------
(* The older account state of Flipster                                     *)

Kinds3 == {"Open", "Update", "Close"}
AccountEvent == RowIds \X Kinds3

Has(s, e) == \E i \in DOMAIN s : s[i] = e
Num(s, e) == IF Has(s, e) THEN 1 ELSE 0
Once(s) == \A i, j \in DOMAIN s : s[i] = s[j] => i = j

AccountTypes ==
    /\ a_real \in Account!Amounts /\ a_positions \in Account!Amounts /\ a_conn \in BOOLEAN
    /\ a_feed \in Seq(RowIds \X (0..TopSize)) /\ Len(a_feed) <= FeedCap
    /\ a_poll.at \in {"idle", "asked", "answered"} /\ a_poll.rows \in Account!Amounts
    /\ a_poll = [at |-> a_poll.at, rows |-> a_poll.rows]
    /\ a_emit \in [{"rest", "ws"} -> Seq(AccountEvent)]
    /\ a_opens \in [RowIds -> Nat] /\ a_closes \in [RowIds -> Nat]

\* A task has each event to send at most once, the WebSocket's one event, and none is left
\* when the REST task polls again.
AccountQueues ==
    /\ Once(a_emit["rest"]) /\ Len(a_emit["rest"]) <= Cardinality(RowIds)
    /\ Len(a_emit["ws"]) <= 1
    /\ a_poll.at # "idle" => a_emit["rest"] = <<>>

Left(r, kind) == Num(a_emit["rest"], <<r, kind>>) + Num(a_emit["ws"], <<r, kind>>)

AccountBalance ==
    \A r \in RowIds :
      a_opens[r] + Left(r, "Open") - a_closes[r] - Left(r, "Close")
        = (IF a_positions[r] = 0 THEN 0 ELSE 1)

AccountInv == AccountTypes /\ AccountQueues /\ AccountBalance

\* Cardinality and finiteness under the instance are those of FiniteSets.
LEMMA AccountCards ==
  \A S : /\ Account!Cardinality(S) = Cardinality(S)
         /\ Account!IsFiniteSet(S) <=> IsFiniteSet(S)
<1>1. \A S : Account!Cardinality(S) = Cardinality(S) BY DEF Account!Cardinality, Cardinality
<1>2. \A S : Account!IsFiniteSet(S) <=> IsFiniteSet(S) BY DEF Account!IsFiniteSet, IsFiniteSet
<1>3. QED BY <1>1, <1>2

\* An event is queued once or not at all.
LEMMA NumIs == \A s, e : Num(s, e) \in {0, 1} /\ Num(s, e) \in Nat
BY DEF Num

\* The set an order sends is what the order has.
LEMMA OrderDoes ==
  ASSUME NEW D, IsFiniteSet(D), NEW order \in Account!SetToSeqs(D)
  PROVE  /\ order \in Seq(D) /\ Once(order) /\ Len(order) = Cardinality(D)
         /\ \A e : Has(order, e) <=> e \in D
<1>1. PICK n \in Nat : n = Cardinality(D) BY FS_CardinalityType
<1>2. order \in [1..n -> D] /\ \A i, j \in 1..n : i # j => order[i] # order[j]
  BY <1>1, AccountCards DEF Account!SetToSeqs
<1>3. order \in Seq(D) /\ Len(order) = n /\ DOMAIN order = 1..n BY <1>2
<1>4. order \in Injection(1..n, D) BY <1>2 DEF Injection, IsInjective
<1>5. IsFiniteSet(1..n) /\ Cardinality(1..n) = n BY FS_Interval
<1>6. order \in Surjection(1..n, D) BY <1>1, <1>4, <1>5, FS_Injection
<1>7. \A e \in D : \E i \in 1..n : order[i] = e BY <1>6 DEF Surjection
<1>8. QED BY <1>1, <1>2, <1>3, <1>7 DEF Once, Has

\* Both tasks' events are counted once.
LEMMA PendingIs ==
  ASSUME Account!ConstantsOK, AccountTypes, AccountQueues, NEW r \in RowIds, NEW kind \in Kinds3
  PROVE  Account!Pending(r, kind) = Left(r, kind)
<1>1. PICK e, N, p, q : /\ e = <<r, kind>> /\ N = Cardinality(RowIds)
                        /\ p = a_emit["rest"] /\ q = a_emit["ws"]
  OBVIOUS
<1>2. IsFiniteSet(RowIds) /\ N \in Nat /\ N >= 1
  <2>1. IsFiniteSet(RowIds) BY AccountCards DEF Account!ConstantsOK
  <2>2. N \in Nat /\ N # 0 BY <1>1, <2>1, FS_CardinalityType, FS_EmptySet
  <2>3. QED BY <2>1, <2>2
<1>3. p \in Seq(AccountEvent) /\ q \in Seq(AccountEvent) /\ Len(p) <= N /\ Len(q) <= 1 /\ Once(p)
  BY <1>1 DEF AccountTypes, AccountQueues
<1>4. Len(p) \in Nat /\ Len(q) \in Nat /\ DOMAIN p = 1..Len(p) /\ DOMAIN q = 1..Len(q)
  BY <1>3
<1>5. PICK S : S = {x \in {"rest", "ws"} \X (1..N) : x[2] <= Len(a_emit[x[1]])
                                                    /\ a_emit[x[1]][x[2]] = e}
  OBVIOUS
<1>6. Account!Pending(r, kind) = Cardinality(S)
  BY <1>1, <1>5, AccountCards DEF Account!Pending, Account!Writers
<1>7. \A x : x \in S <=> \/ \E i \in 1..Len(p) : p[i] = e /\ x = <<"rest", i>>
                         \/ \E i \in 1..Len(q) : q[i] = e /\ x = <<"ws", i>>
  <2>1. ASSUME NEW x \in S
        PROVE  \/ \E i \in 1..Len(p) : p[i] = e /\ x = <<"rest", i>>
               \/ \E i \in 1..Len(q) : q[i] = e /\ x = <<"ws", i>>
    <3>1. PICK t \in {"rest", "ws"}, i \in 1..N : x = <<t, i>> BY <1>5, <2>1
    <3>2. i <= Len(a_emit[t]) /\ a_emit[t][i] = e BY <1>5, <2>1, <3>1
    <3>3. CASE t = "rest" BY <1>1, <1>4, <3>1, <3>2, <3>3
    <3>4. CASE t = "ws" BY <1>1, <1>4, <3>1, <3>2, <3>4
    <3>5. QED BY <3>3, <3>4
  <2>2. ASSUME NEW i \in 1..Len(p), p[i] = e PROVE <<"rest", i>> \in S
    <3>1. <<"rest", i>> \in {"rest", "ws"} \X (1..N) BY <1>2, <1>3, <1>4
    <3>2. i <= Len(a_emit["rest"]) /\ a_emit["rest"][i] = e BY <1>1, <1>4, <2>2
    <3>3. QED BY <1>5, <3>1, <3>2
  <2>3. ASSUME NEW i \in 1..Len(q), q[i] = e PROVE <<"ws", i>> \in S
    <3>1. <<"ws", i>> \in {"rest", "ws"} \X (1..N) BY <1>2, <1>3, <1>4
    <3>2. i <= Len(a_emit["ws"]) /\ a_emit["ws"][i] = e BY <1>1, <1>4, <2>3
    <3>3. QED BY <1>5, <3>1, <3>2
  <2>4. QED BY <2>1, <2>2, <2>3
<1>8. \A i, j : i \in 1..Len(q) /\ j \in 1..Len(q) => i = j BY <1>3, <1>4
<1>9. \A i, j : i \in 1..Len(p) /\ j \in 1..Len(p) /\ p[i] = p[j] => i = j
  BY <1>3, <1>4 DEF Once
<1>10. CASE ~Has(p, e) /\ ~Has(q, e)
  <2>1. S = {} BY <1>4, <1>7, <1>10 DEF Has
  <2>2. QED BY <1>1, <1>6, <1>10, <2>1, FS_EmptySet DEF Left, Num
<1>11. CASE Has(p, e) /\ ~Has(q, e)
  <2>1. PICK i \in 1..Len(p) : p[i] = e BY <1>4, <1>11 DEF Has
  <2>2. S = {<<"rest", i>>} BY <1>4, <1>7, <1>9, <1>11, <2>1 DEF Has
  <2>3. Cardinality(S) = 1 BY <2>2, FS_Singleton
  <2>4. Num(p, e) + Num(q, e) = 1 BY <1>11 DEF Num
  <2>5. QED BY <1>1, <1>6, <2>3, <2>4 DEF Left
<1>12. CASE ~Has(p, e) /\ Has(q, e)
  <2>1. PICK i \in 1..Len(q) : q[i] = e BY <1>4, <1>12 DEF Has
  <2>2. S = {<<"ws", i>>} BY <1>4, <1>7, <1>8, <1>12, <2>1 DEF Has
  <2>3. Cardinality(S) = 1 BY <2>2, FS_Singleton
  <2>4. Num(p, e) + Num(q, e) = 1 BY <1>12 DEF Num
  <2>5. QED BY <1>1, <1>6, <2>3, <2>4 DEF Left
<1>13. CASE Has(p, e) /\ Has(q, e)
  <2>1. PICK i \in 1..Len(p), j \in 1..Len(q) : p[i] = e /\ q[j] = e BY <1>4, <1>13 DEF Has
  <2>2. PICK x, y : x = <<"rest", i>> /\ y = <<"ws", j>> OBVIOUS
  <2>3. x # y BY <2>2
  <2>4. S = {x} \cup {y} BY <1>7, <1>8, <1>9, <2>1, <2>2
  <2>5. IsFiniteSet({x}) /\ Cardinality({x}) = 1 /\ y \notin {x} BY <2>3, FS_Singleton
  <2>6. Cardinality(S) = 2
    <3>1. Cardinality({x} \cup {y}) = Cardinality({x}) + 1 BY <2>5, FS_AddElement
    <3>2. QED BY <2>4, <2>5, <3>1
  <2>7. QED BY <1>1, <1>6, <1>13, <2>6 DEF Left, Num
<1>14. QED BY <1>10, <1>11, <1>12, <1>13

\* The account starts with its invariant.
LEMMA AccountInit == Account!ConstantsOK /\ Account!Init => AccountInv
<1> SUFFICES ASSUME Account!ConstantsOK, Account!Init PROVE AccountInv
  OBVIOUS
<1>1. TopSize \in Nat /\ FeedCap \in Nat /\ IsFiniteSet(RowIds)
  BY AccountCards DEF Account!ConstantsOK
<1>2. [r \in RowIds |-> 0] \in Account!Amounts BY <1>1 DEF Account!Amounts
<1>3. a_emit["rest"] = <<>> /\ a_emit["ws"] = <<>> BY DEF Account!Init, Account!Writers
<1>4. AccountTypes
  <2>1. a_poll = [at |-> "idle", rows |-> [r \in RowIds |-> 0]]
    BY DEF Account!Init, Account!Idle
  <2>2. a_poll.at = "idle" /\ a_poll.rows \in Account!Amounts
        /\ a_poll = [at |-> a_poll.at, rows |-> a_poll.rows]
    BY <1>2, <2>1
  <2>3. a_emit \in [{"rest", "ws"} -> Seq(AccountEvent)] BY DEF Account!Init, Account!Writers
  <2>4. a_opens \in [RowIds -> Nat] /\ a_closes \in [RowIds -> Nat] BY DEF Account!Init
  <2>5. a_feed \in Seq(RowIds \X (0..TopSize)) /\ Len(a_feed) <= FeedCap BY <1>1 DEF Account!Init
  <2>6. QED BY <1>2, <2>2, <2>3, <2>4, <2>5 DEF AccountTypes, Account!Init
<1>5. AccountQueues
  <2>1. Cardinality(RowIds) \in Nat BY <1>1, FS_CardinalityType
  <2>2. a_poll.at = "idle" BY DEF Account!Init, Account!Idle
  <2>3. QED BY <1>3, <2>1, <2>2 DEF AccountQueues, Once
<1>6. AccountBalance
  <2>1. \A e : Num(<<>>, e) = 0 BY DEF Num, Has
  <2>2. \A r \in RowIds : a_opens[r] = 0 /\ a_closes[r] = 0 /\ a_positions[r] = 0
    BY DEF Account!Init
  <2>3. \A r \in RowIds : \A k : Left(r, k) = 0 BY <1>3, <2>1 DEF Left
  <2>4. QED BY <2>2, <2>3 DEF AccountBalance
<1>7. QED BY <1>4, <1>5, <1>6 DEF AccountInv

\* What the events and positions are not touched by keeps their part.
LEMMA AccountKeeps ==
  ASSUME AccountInv, UNCHANGED <<a_positions, a_emit, a_opens, a_closes>>
  PROVE  /\ AccountBalance'
         /\ (a_poll'.at # "idle" => a_poll.at # "idle" \/ a_emit["rest"] = <<>>) => AccountQueues'
<1>1. AccountBalance' BY DEF AccountInv, AccountBalance, Left
<1>2. QED BY <1>1 DEF AccountInv, AccountQueues

\* Steps that emit no event and change no position of the state.
LEMMA AccountMinor ==
  ASSUME Account!ConstantsOK, AccountInv,
         \/ \E r \in RowIds, n \in 0..TopSize : Account!Change(r, n)
         \/ Account!StartPoll \/ Account!Answer \/ Account!PollFails
         \/ Account!Connect \/ Account!Disconnect
  PROVE  AccountInv'
<1>1. CASE \E r \in RowIds, n \in 0..TopSize : Account!Change(r, n)
  <2>1. PICK r \in RowIds, n \in 0..TopSize : Account!Change(r, n) BY <1>1
  <2>2. PICK e : e = <<r, n>> OBVIOUS
  <2>3. e \in RowIds \X (0..TopSize) BY <2>2
  <2>4. /\ a_real' = [a_real EXCEPT ![r] = n] /\ Len(a_feed) < FeedCap
        /\ a_feed' = IF a_conn THEN Append(a_feed, e) ELSE a_feed
        /\ UNCHANGED <<a_conn, a_positions, a_poll, a_emit, a_opens, a_closes>>
    BY <2>1, <2>2 DEF Account!Change, Account!sent
  <2>5. a_real' \in Account!Amounts BY <2>4 DEF AccountInv, AccountTypes, Account!Amounts
  <2>6. a_feed' \in Seq(RowIds \X (0..TopSize)) /\ Len(a_feed') <= FeedCap
    <3>1. a_feed \in Seq(RowIds \X (0..TopSize)) /\ Len(a_feed) \in Nat /\ FeedCap \in Nat
      BY DEF AccountInv, AccountTypes, Account!ConstantsOK
    <3>2. Append(a_feed, e) \in Seq(RowIds \X (0..TopSize)) /\ Len(Append(a_feed, e)) = Len(a_feed) + 1
      BY <2>3, <3>1, AppendProperties
    <3>3. QED BY <2>4, <3>1, <3>2
  <2>7. AccountTypes' BY <2>4, <2>5, <2>6 DEF AccountInv, AccountTypes
  <2>8. QED BY <2>4, <2>7, AccountKeeps DEF AccountInv
<1>2. CASE Account!StartPoll
  <2>1. /\ a_poll' = [a_poll EXCEPT !.at = "asked"] /\ a_emit["rest"] = <<>>
        /\ UNCHANGED <<a_real, a_conn, a_feed, a_positions, a_emit, a_opens, a_closes>>
    BY <1>2 DEF Account!StartPoll, Account!wire, Account!sent
  <2>2. a_poll = [at |-> a_poll.at, rows |-> a_poll.rows] BY DEF AccountInv, AccountTypes
  <2>3. a_poll' = [at |-> "asked", rows |-> a_poll.rows] BY <2>1, <2>2
  <2>4. a_poll'.at = "asked" /\ a_poll'.rows = a_poll.rows BY <2>3
  <2>5. AccountTypes' BY <2>1, <2>3, <2>4 DEF AccountInv, AccountTypes
  <2>6. QED BY <2>1, <2>5, AccountKeeps DEF AccountInv
<1>3. CASE Account!Answer
  <2>1. /\ a_poll' = [at |-> "answered", rows |-> a_real] /\ a_poll.at = "asked"
        /\ UNCHANGED <<a_real, a_conn, a_feed, a_positions, a_emit, a_opens, a_closes>>
    BY <1>3 DEF Account!Answer, Account!wire, Account!sent
  <2>2. a_poll'.at = "answered" /\ a_poll'.rows = a_real BY <2>1
  <2>3. AccountTypes' BY <2>1, <2>2 DEF AccountInv, AccountTypes
  <2>4. QED BY <2>1, <2>3, AccountKeeps DEF AccountInv
<1>4. CASE Account!PollFails
  <2>1. /\ a_poll' = [at |-> "idle", rows |-> [r \in RowIds |-> 0]]
        /\ UNCHANGED <<a_real, a_conn, a_feed, a_positions, a_emit, a_opens, a_closes>>
    BY <1>4 DEF Account!PollFails, Account!Idle, Account!wire, Account!sent
  <2>2. a_poll'.at = "idle" /\ a_poll'.rows = [r \in RowIds |-> 0] BY <2>1
  <2>3. [r \in RowIds |-> 0] \in Account!Amounts BY DEF Account!Amounts, Account!ConstantsOK
  <2>4. AccountTypes' BY <2>1, <2>2, <2>3 DEF AccountInv, AccountTypes
  <2>5. QED BY <2>1, <2>2, <2>4, AccountKeeps DEF AccountInv
<1>5. CASE Account!Connect \/ Account!Disconnect
  <2>1. /\ UNCHANGED <<a_real, a_positions, a_poll, a_emit, a_opens, a_closes>>
        /\ a_conn' \in BOOLEAN /\ (a_feed' = a_feed \/ a_feed' = <<>>)
    BY <1>5 DEF Account!Connect, Account!Disconnect, Account!sent
  <2>2. a_feed' \in Seq(RowIds \X (0..TopSize)) /\ Len(a_feed') <= FeedCap
    <3>1. FeedCap \in Nat /\ Len(<<>>) = 0 /\ <<>> \in Seq(RowIds \X (0..TopSize))
      BY DEF Account!ConstantsOK
    <3>2. a_feed \in Seq(RowIds \X (0..TopSize)) /\ Len(a_feed) <= FeedCap
      BY DEF AccountInv, AccountTypes
    <3>3. CASE a_feed' = a_feed BY <3>2, <3>3
    <3>4. CASE a_feed' = <<>> BY <3>1, <3>4
    <3>5. QED BY <2>1, <3>3, <3>4
  <2>3. AccountTypes'
    <3>1. a_conn' \in BOOLEAN BY <1>5 DEF Account!Connect, Account!Disconnect
    <3>2. QED BY <2>1, <2>2, <3>1 DEF AccountInv, AccountTypes
  <2>4. QED BY <2>1, <2>3, AccountKeeps DEF AccountInv
<1>6. QED BY <1>1, <1>2, <1>3, <1>4, <1>5

\* A poll replaces the positions; its events are those of the rows that changed.
LEMMA AccountReplace ==
  ASSUME Account!ConstantsOK, AccountInv, Account!Replace
  PROVE  AccountInv'
<1>1. PICK new \in Account!Amounts, old \in Account!Amounts :
         new = a_poll.rows /\ old = a_positions
  BY DEF AccountInv, AccountTypes
<1>2. PICK D : D = {<<r, Account!Kind(old[r], new[r])>> : r \in {q \in RowIds : old[q] # new[q]}}
  OBVIOUS
<1>3. PICK order \in Account!SetToSeqs(D) : a_emit' = [a_emit EXCEPT !["rest"] = order]
  <2>1. D = Account!diff_positions(a_poll.rows) BY <1>1, <1>2 DEF Account!diff_positions
  <2>2. \E order \in Account!SetToSeqs(Account!diff_positions(a_poll.rows)) :
           a_emit' = [a_emit EXCEPT !["rest"] = order]
    BY DEF Account!Replace
  <2>3. QED BY <2>1, <2>2
<1>4. /\ a_poll.at = "answered" /\ a_poll' = [at |-> "idle", rows |-> [r \in RowIds |-> 0]]
      /\ a_positions' = new /\ UNCHANGED <<a_real, a_conn, a_feed, a_opens, a_closes>>
  BY <1>1 DEF Account!Replace, Account!Idle, Account!wire, Account!sent
<1>5. \A r, kind : <<r, kind>> \in D <=> /\ r \in RowIds /\ old[r] # new[r]
                                         /\ kind = Account!Kind(old[r], new[r])
  BY <1>2
<1>6. \A e \in D : e = <<e[1], e[2]>> BY <1>2
<1>7. D \subseteq AccountEvent
  BY <1>2 DEF AccountEvent, Kinds3, Account!Kind
<1>8. IsFiniteSet(D) /\ Cardinality(D) <= Cardinality(RowIds) /\ Cardinality(RowIds) \in Nat
  <2>1. IsFiniteSet(RowIds) BY AccountCards DEF Account!ConstantsOK
  <2> DEFINE f == [e \in D |-> e[1]]
  <2>2. f \in [D -> RowIds] BY <1>7 DEF AccountEvent
  <2>3. ASSUME NEW c \in D, NEW d \in D, f[c] = f[d] PROVE c = d
    <3>1. c[1] = d[1] BY <2>3
    <3>2. <<c[1], c[2]>> \in D /\ <<d[1], d[2]>> \in D BY <1>6
    <3>3. c[2] = d[2] BY <1>5, <3>1, <3>2
    <3>4. QED BY <1>6, <3>1, <3>3
  <2>4. f \in Injection(D, RowIds) BY <2>2, <2>3 DEF Injection, IsInjective
  <2> HIDE DEF f
  <2>5. QED BY <2>1, <2>4, FS_Injection, FS_CardinalityType
<1>9. /\ order \in Seq(D) /\ Once(order) /\ Len(order) = Cardinality(D)
      /\ \A e : Has(order, e) <=> e \in D
  BY <1>8, OrderDoes
<1>10. order \in Seq(AccountEvent) BY <1>7, <1>9
<1>11. /\ a_emit' \in [{"rest", "ws"} -> Seq(AccountEvent)]
       /\ a_emit'["rest"] = order /\ a_emit'["ws"] = a_emit["ws"]
  BY <1>3, <1>10 DEF AccountInv, AccountTypes
<1>12. a_poll'.at = "idle" /\ a_poll'.rows = [r \in RowIds |-> 0] BY <1>4
<1>13. AccountTypes'
  <2>1. [r \in RowIds |-> 0] \in Account!Amounts BY DEF Account!Amounts, Account!ConstantsOK
  <2>2. QED BY <1>1, <1>4, <1>11, <1>12, <2>1 DEF AccountInv, AccountTypes
<1>14. AccountQueues'
  BY <1>8, <1>9, <1>11, <1>12 DEF AccountInv, AccountQueues
<1>15. AccountBalance'
  <2> SUFFICES ASSUME NEW r \in RowIds
               PROVE  a_opens[r] + Left(r, "Open")' - a_closes[r] - Left(r, "Close")'
                        = (IF new[r] = 0 THEN 0 ELSE 1)
    BY <1>4 DEF AccountBalance
  <2>1. a_emit["rest"] = <<>> BY <1>4 DEF AccountInv, AccountQueues
  <2>2. \A kind : Num(a_emit["rest"], <<r, kind>>) = 0 BY <2>1 DEF Num, Has
  <2>3. PICK x \in Nat, y \in Nat, m \in Nat, n \in Nat :
           /\ x = Num(a_emit["ws"], <<r, "Open">>) /\ y = Num(a_emit["ws"], <<r, "Close">>)
           /\ m = a_opens[r] /\ n = a_closes[r]
    BY NumIs DEF AccountInv, AccountTypes
  <2>4. m + x - n - y = (IF old[r] = 0 THEN 0 ELSE 1)
    BY <1>1, <2>2, <2>3 DEF AccountInv, AccountBalance, Left
  <2>5. PICK u \in {0, 1}, v \in {0, 1} :
           u = Num(order, <<r, "Open">>) /\ v = Num(order, <<r, "Close">>)
    BY NumIs
  <2>6. Left(r, "Open")' = u + x /\ Left(r, "Close")' = v + y BY <1>11, <2>3, <2>5 DEF Left
  <2>7. /\ u = 1 <=> old[r] # new[r] /\ Account!Kind(old[r], new[r]) = "Open"
        /\ v = 1 <=> old[r] # new[r] /\ Account!Kind(old[r], new[r]) = "Close"
    BY <1>5, <1>9, <2>5 DEF Num
  <2>8. u - v = (IF new[r] = 0 THEN 0 ELSE 1) - (IF old[r] = 0 THEN 0 ELSE 1)
    BY <2>7 DEF Account!Kind
  <2>9. QED BY <2>3, <2>4, <2>6, <2>8
<1>16. QED BY <1>13, <1>14, <1>15 DEF AccountInv

\* A row of the WebSocket; an event when it changes what is known.
LEMMA AccountApply ==
  ASSUME Account!ConstantsOK, AccountInv, Account!Apply
  PROVE  AccountInv'
<1>1. a_feed # <<>> /\ a_feed \in Seq(RowIds \X (0..TopSize)) /\ Len(a_feed) <= FeedCap
  BY DEF Account!Apply, AccountInv, AccountTypes
<1>2. Head(a_feed) \in RowIds \X (0..TopSize) /\ Tail(a_feed) \in Seq(RowIds \X (0..TopSize))
      /\ Len(Tail(a_feed)) = Len(a_feed) - 1 /\ Len(a_feed) \in Nat
  BY <1>1
<1>3. PICK s \in RowIds, n \in 0..TopSize : Head(a_feed)[1] = s /\ Head(a_feed)[2] = n
  BY <1>2
<1>4. PICK e : e = <<s, Account!Kind(a_positions[s], n)>> OBVIOUS
<1>5. /\ a_emit["ws"] = <<>> /\ a_feed' = Tail(a_feed)
      /\ a_positions' = [a_positions EXCEPT ![s] = n]
      /\ a_emit' = IF n = a_positions[s] THEN a_emit ELSE [a_emit EXCEPT !["ws"] = <<e>>]
      /\ UNCHANGED <<a_real, a_conn, a_poll, a_opens, a_closes>>
  BY <1>3, <1>4 DEF Account!Apply, Account!sent
<1>6. e \in AccountEvent BY <1>4 DEF AccountEvent, Kinds3, Account!Kind
<1>7. PICK w : w = IF n = a_positions[s] THEN <<>> ELSE <<e>> OBVIOUS
<1>8. w \in Seq(AccountEvent) /\ Len(w) <= 1 BY <1>6, <1>7
<1>9. /\ a_emit' \in [{"rest", "ws"} -> Seq(AccountEvent)]
      /\ a_emit'["rest"] = a_emit["rest"] /\ a_emit'["ws"] = w
  <2>1. CASE n = a_positions[s] BY <1>5, <1>7, <2>1 DEF AccountInv, AccountTypes
  <2>2. CASE n # a_positions[s] BY <1>5, <1>7, <1>8, <2>2 DEF AccountInv, AccountTypes
  <2>3. QED BY <2>1, <2>2
<1>10. a_positions' \in Account!Amounts
  BY <1>5 DEF AccountInv, AccountTypes, Account!Amounts
<1>11. AccountTypes'
  <2>1. Len(a_feed') <= FeedCap /\ a_feed' \in Seq(RowIds \X (0..TopSize))
    BY <1>1, <1>2, <1>5 DEF Account!ConstantsOK
  <2>2. QED BY <1>5, <1>9, <1>10, <2>1 DEF AccountInv, AccountTypes
<1>12. AccountQueues' BY <1>5, <1>8, <1>9 DEF AccountInv, AccountQueues
<1>13. AccountBalance'
  <2> SUFFICES ASSUME NEW r \in RowIds
               PROVE  a_opens[r] + Left(r, "Open")' - a_closes[r] - Left(r, "Close")'
                        = (IF a_positions'[r] = 0 THEN 0 ELSE 1)
    BY <1>5 DEF AccountBalance
  <2>1. \A k : Num(<<>>, k) = 0 BY DEF Num, Has
  <2>2. PICK x \in Nat, y \in Nat, i \in Nat, j \in Nat :
           /\ x = Num(a_emit["rest"], <<r, "Open">>) /\ y = Num(a_emit["rest"], <<r, "Close">>)
           /\ i = a_opens[r] /\ j = a_closes[r]
    BY NumIs DEF AccountInv, AccountTypes
  <2>3. i + x - j - y = (IF a_positions[r] = 0 THEN 0 ELSE 1)
    <3>1. Num(a_emit["ws"], <<r, "Open">>) = 0 /\ Num(a_emit["ws"], <<r, "Close">>) = 0
      BY <1>5, <2>1
    <3>2. Left(r, "Open") = x /\ Left(r, "Close") = y BY <2>2, <3>1 DEF Left
    <3>3. QED BY <2>2, <3>2 DEF AccountInv, AccountBalance
  <2>4. PICK u \in {0, 1}, v \in {0, 1} :
           u = Num(w, <<r, "Open">>) /\ v = Num(w, <<r, "Close">>)
    BY NumIs
  <2>5. Left(r, "Open")' = x + u /\ Left(r, "Close")' = y + v BY <1>9, <2>2, <2>4 DEF Left
  <2>6. a_positions'[r] = IF r = s THEN n ELSE a_positions[r]
    BY <1>5 DEF AccountInv, AccountTypes, Account!Amounts
  <2>7. \A k : Num(<<e>>, k) = IF k = e THEN 1 ELSE 0
    <3>1. \A k : Has(<<e>>, k) <=> k = e BY DEF Has
    <3>2. QED BY <3>1 DEF Num
  <2>8. CASE n = a_positions[s] \/ r # s
    <3>1. u = 0 /\ v = 0
      <4>1. CASE n = a_positions[s] BY <1>7, <2>1, <2>4, <4>1
      <4>2. CASE n # a_positions[s] /\ r # s
        <5>1. <<r, "Open">> # e /\ <<r, "Close">> # e BY <1>4, <4>2
        <5>2. QED BY <1>7, <2>4, <2>7, <4>2, <5>1
      <4>3. QED BY <2>8, <4>1, <4>2
    <3>2. a_positions'[r] = a_positions[r] BY <2>6, <2>8
    <3>3. QED BY <2>2, <2>3, <2>5, <3>1, <3>2
  <2>9. CASE n # a_positions[s] /\ r = s
    <3>1. /\ u = 1 <=> Account!Kind(a_positions[s], n) = "Open"
          /\ v = 1 <=> Account!Kind(a_positions[s], n) = "Close"
      BY <1>4, <1>7, <2>4, <2>7, <2>9
    <3>2. u - v = (IF n = 0 THEN 0 ELSE 1) - (IF a_positions[s] = 0 THEN 0 ELSE 1)
      BY <2>9, <3>1 DEF Account!Kind
    <3>3. QED BY <2>2, <2>3, <2>5, <2>6, <2>9, <3>2
  <2>10. QED BY <2>8, <2>9
<1>14. QED BY <1>11, <1>12, <1>13 DEF AccountInv

\* An event that is sent is no longer to send.
LEMMA TailHas ==
  ASSUME NEW S, NEW q \in Seq(S), q # <<>>, Once(q)
  PROVE  /\ Once(Tail(q)) /\ ~Has(Tail(q), Head(q)) /\ Has(q, Head(q))
         /\ \A e : e # Head(q) => (Has(Tail(q), e) <=> Has(q, e))
<1>0. Len(q) \in Nat \ {0} OBVIOUS
<1>11. PICK n \in Nat \ {0} : n = Len(q) BY <1>0
<1>12. PICK t : t = Tail(q) OBVIOUS
<1>1. n = Len(q) /\ t = Tail(q) BY <1>11, <1>12
<1>2. DOMAIN q = 1..n /\ DOMAIN t = 1..(n - 1) /\ \A i \in 1..(n - 1) : t[i] = q[i + 1]
  BY <1>1
<1>3. Head(q) = q[1] /\ 1 \in 1..n BY <1>1
<1>4. \A i \in 1..(n - 1) : i + 1 \in 1..n /\ i + 1 # 1 OBVIOUS
<1>5. Once(t)
  <2> SUFFICES ASSUME NEW i \in 1..(n - 1), NEW j \in 1..(n - 1), t[i] = t[j] PROVE i = j
    BY <1>2 DEF Once
  <2>1. q[i + 1] = q[j + 1] BY <1>2
  <2>2. i + 1 = j + 1 BY <1>2, <1>4, <2>1 DEF Once
  <2>3. QED BY <2>2
<1>6. ~Has(t, Head(q)) BY <1>2, <1>3, <1>4 DEF Has, Once
<1>7. Has(q, Head(q)) BY <1>2, <1>3 DEF Has
<1>8. ASSUME NEW e, e # Head(q) PROVE Has(t, e) <=> Has(q, e)
  <2>1. ASSUME Has(t, e) PROVE Has(q, e) BY <1>2, <1>4, <2>1 DEF Has
  <2>2. ASSUME Has(q, e) PROVE Has(t, e)
    <3>1. PICK i \in 1..n : q[i] = e BY <1>2, <2>2 DEF Has
    <3>2. i # 1 BY <1>3, <1>8, <3>1
    <3>3. i - 1 \in 1..(n - 1) /\ (i - 1) + 1 = i BY <3>2
    <3>4. t[i - 1] = e BY <1>2, <3>1, <3>3
    <3>5. QED BY <1>2, <3>3, <3>4 DEF Has
  <2>3. QED BY <2>1, <2>2
<1>9. QED BY <1>1, <1>5, <1>6, <1>7, <1>8

\* The next event is sent.
LEMMA AccountEmit ==
  ASSUME Account!ConstantsOK, AccountInv, NEW t \in {"rest", "ws"}, Account!Emit(t)
  PROVE  AccountInv'
<1>1. PICK q, h : q = a_emit[t] /\ h = Head(q) OBVIOUS
<1>2. q # <<>> /\ q \in Seq(AccountEvent) BY <1>1 DEF Account!Emit, AccountInv, AccountTypes
<1>3. Len(q) \in Nat /\ Tail(q) \in Seq(AccountEvent) /\ Len(Tail(q)) = Len(q) - 1 /\ h \in AccountEvent
  BY <1>1, <1>2
<1>4. Once(q)
  <2>1. CASE t = "rest" BY <1>1, <2>1 DEF AccountInv, AccountQueues
  <2>2. CASE t = "ws"
    <3>1. Len(q) <= 1 BY <1>1, <2>2 DEF AccountInv, AccountQueues
    <3>2. QED BY <1>2, <1>3, <3>1 DEF Once
  <2>3. QED BY <2>1, <2>2
<1>5. PICK s \in RowIds, k \in Kinds3 : h = <<s, k>> BY <1>3 DEF AccountEvent
<1>6. h[1] = s /\ h[2] = k BY <1>5
<1>7. /\ a_emit' = [a_emit EXCEPT ![t] = Tail(q)]
      /\ a_opens' = IF k = "Open" THEN [a_opens EXCEPT ![s] = @ + 1] ELSE a_opens
      /\ a_closes' = IF k = "Close" THEN [a_closes EXCEPT ![s] = @ + 1] ELSE a_closes
      /\ UNCHANGED <<a_real, a_conn, a_feed, a_positions, a_poll>>
  BY <1>1, <1>6 DEF Account!Emit, Account!wire
<1>8. /\ a_emit' \in [{"rest", "ws"} -> Seq(AccountEvent)] /\ a_emit'[t] = Tail(q)
      /\ \A u \in {"rest", "ws"} \ {t} : a_emit'[u] = a_emit[u]
  BY <1>3, <1>7 DEF AccountInv, AccountTypes
<1>9. a_opens' \in [RowIds -> Nat] /\ a_closes' \in [RowIds -> Nat]
  BY <1>7 DEF AccountInv, AccountTypes
<1>10. AccountTypes' BY <1>7, <1>8, <1>9 DEF AccountInv, AccountTypes
<1>11. AccountQueues'
  <2>1. CASE t = "rest"
    <3>1. Once(Tail(q)) BY <1>2, <1>4, TailHas
    <3>2. Cardinality(RowIds) \in Nat
      <4>1. IsFiniteSet(RowIds) BY AccountCards DEF Account!ConstantsOK
      <4>2. QED BY <4>1, FS_CardinalityType
    <3>3. Len(Tail(q)) <= Cardinality(RowIds) BY <1>1, <1>3, <2>1, <3>2 DEF AccountInv, AccountQueues
    <3>4. a_poll'.at = "idle" BY <1>1, <1>2, <1>7, <2>1 DEF AccountInv, AccountQueues
    <3>5. QED BY <1>8, <2>1, <3>1, <3>3, <3>4 DEF AccountInv, AccountQueues
  <2>2. CASE t = "ws"
    <3>1. Len(Tail(q)) <= 1 BY <1>1, <1>3, <2>2 DEF AccountInv, AccountQueues
    <3>2. QED BY <1>7, <1>8, <2>2, <3>1 DEF AccountInv, AccountQueues
  <2>3. QED BY <2>1, <2>2
<1>12. AccountBalance'
  <2> SUFFICES ASSUME NEW r \in RowIds
               PROVE  a_opens'[r] + Left(r, "Open")' - a_closes'[r] - Left(r, "Close")'
                        = (IF a_positions[r] = 0 THEN 0 ELSE 1)
    BY <1>7 DEF AccountBalance
  <2>1. PICK i \in Nat, j \in Nat : i = a_opens[r] /\ j = a_closes[r]
    BY DEF AccountInv, AccountTypes
  <2>2. PICK u \in {"rest", "ws"} \ {t} : {t, u} = {"rest", "ws"} OBVIOUS
  <2>3. a_emit'[u] = a_emit[u] /\ u # t BY <1>8, <2>2
  <2>4. \A kind : /\ Left(r, kind) = Num(q, <<r, kind>>) + Num(a_emit[u], <<r, kind>>)
                  /\ Left(r, kind)' = Num(Tail(q), <<r, kind>>) + Num(a_emit[u], <<r, kind>>)
    <3>1. CASE t = "rest" /\ u = "ws" BY <1>1, <1>8, <2>3, <3>1, NumIs DEF Left
    <3>2. CASE t = "ws" /\ u = "rest"
      <4> SUFFICES ASSUME NEW kind
                   PROVE  /\ Left(r, kind) = Num(q, <<r, kind>>) + Num(a_emit[u], <<r, kind>>)
                          /\ Left(r, kind)' = Num(Tail(q), <<r, kind>>) + Num(a_emit[u], <<r, kind>>)
        OBVIOUS
      <4>1. PICK x \in Nat, y \in Nat, z \in Nat :
              /\ x = Num(q, <<r, kind>>) /\ y = Num(a_emit[u], <<r, kind>>)
              /\ z = Num(Tail(q), <<r, kind>>)
        BY NumIs
      <4>2. Left(r, kind) = y + x /\ Left(r, kind)' = y + z
        BY <1>1, <1>8, <2>3, <3>2, <4>1 DEF Left
      <4>3. QED BY <4>1, <4>2
    <3>3. QED BY <2>2, <3>1, <3>2
  <2>5. \A kind : Num(q, <<r, kind>>) = Num(Tail(q), <<r, kind>>) + (IF r = s /\ kind = k THEN 1 ELSE 0)
    <3> SUFFICES ASSUME NEW kind
                 PROVE  Num(q, <<r, kind>>) = Num(Tail(q), <<r, kind>>) + (IF r = s /\ kind = k THEN 1 ELSE 0)
      OBVIOUS
    <3>1. CASE r = s /\ kind = k
      <4>1. <<r, kind>> = h BY <1>5, <3>1
      <4>2. Num(q, h) = 1 /\ Num(Tail(q), h) = 0 BY <1>1, <1>2, <1>4, TailHas DEF Num
      <4>3. QED BY <3>1, <4>1, <4>2
    <3>2. CASE ~(r = s /\ kind = k)
      <4>1. <<r, kind>> # h BY <1>5, <3>2
      <4>2. Num(q, <<r, kind>>) = Num(Tail(q), <<r, kind>>)
        BY <1>1, <1>2, <1>4, <4>1, TailHas DEF Num
      <4>3. QED BY <3>2, <4>2, NumIs
    <3>3. QED BY <3>1, <3>2
  <2>6. /\ a_opens'[r] = i + (IF r = s /\ "Open" = k THEN 1 ELSE 0)
        /\ a_closes'[r] = j + (IF r = s /\ "Close" = k THEN 1 ELSE 0)
    BY <1>7, <2>1 DEF AccountInv, AccountTypes
  <2>7. PICK a \in Nat, b \in Nat, c \in Nat, d \in Nat :
           /\ a = Num(Tail(q), <<r, "Open">>) /\ b = Num(Tail(q), <<r, "Close">>)
           /\ c = Num(a_emit[u], <<r, "Open">>) /\ d = Num(a_emit[u], <<r, "Close">>)
    BY NumIs
  <2>8. PICK m \in Nat, n \in Nat :
           /\ m = (IF r = s /\ "Open" = k THEN 1 ELSE 0) /\ n = (IF r = s /\ "Close" = k THEN 1 ELSE 0)
    OBVIOUS
  <2>9. /\ Left(r, "Open") = a + m + c /\ Left(r, "Close") = b + n + d
        /\ Left(r, "Open")' = a + c /\ Left(r, "Close")' = b + d
        /\ a_opens'[r] = i + m /\ a_closes'[r] = j + n
    BY <2>4, <2>5, <2>6, <2>7, <2>8
  <2>10. i + (a + m + c) - j - (b + n + d) = (IF a_positions[r] = 0 THEN 0 ELSE 1)
    BY <2>1, <2>9 DEF AccountInv, AccountBalance
  <2>11. QED BY <2>9, <2>10
<1>13. QED BY <1>10, <1>11, <1>12 DEF AccountInv

\* Every step of the account keeps it.
LEMMA AccountStep == Account!ConstantsOK /\ AccountInv /\ [Account!Next]_account => AccountInv'
<1> SUFFICES ASSUME Account!ConstantsOK, AccountInv, [Account!Next]_account PROVE AccountInv'
  OBVIOUS
<1>1. CASE UNCHANGED account
  BY <1>1 DEF account, AccountInv, AccountTypes, AccountQueues, AccountBalance, Left
<1>2. CASE \/ \E r \in RowIds, n \in 0..TopSize : Account!Change(r, n)
           \/ Account!StartPoll \/ Account!Answer \/ Account!PollFails
           \/ Account!Connect \/ Account!Disconnect
  BY <1>2, AccountMinor
<1>3. CASE \E t \in Account!Writers : Account!Emit(t) BY <1>3, AccountEmit DEF Account!Writers
<1>4. QED BY <1>1, <1>2, <1>3, AccountReplace, AccountApply DEF Account!Next

\* It balances the events.
LEMMA AccountShows == Account!ConstantsOK /\ AccountInv => Account!TypeOK /\ Account!EventsBalance
<1> SUFFICES ASSUME Account!ConstantsOK, AccountInv PROVE Account!TypeOK /\ Account!EventsBalance
  OBVIOUS
<1>1. \A r \in RowIds : /\ Account!Pending(r, "Open") = Left(r, "Open")
                      /\ Account!Pending(r, "Close") = Left(r, "Close")
  BY PendingIs DEF AccountInv, Kinds3
<1>2. Account!EventsBalance BY <1>1 DEF AccountInv, AccountBalance, Account!EventsBalance
<1>3. Account!ToSet(a_feed) \subseteq RowIds \X (0..TopSize)
  BY DEF AccountInv, AccountTypes, Account!ToSet
<1>4. \A t \in Account!Writers :
        Account!ToSet(a_emit[t]) \subseteq RowIds \X {"Open", "Update", "Close"}
  <2> SUFFICES ASSUME NEW t \in Account!Writers
               PROVE  Account!ToSet(a_emit[t]) \subseteq RowIds \X {"Open", "Update", "Close"}
    OBVIOUS
  <2>1. a_emit[t] \in Seq(RowIds \X {"Open", "Update", "Close"})
    BY DEF AccountInv, AccountTypes, Account!Writers, AccountEvent, Kinds3
  <2>2. QED BY <2>1 DEF Account!ToSet
<1>5. QED BY <1>2, <1>3, <1>4 DEF Account!TypeOK, AccountInv, AccountTypes

-----------------------------------------------------------------------------
(* The receivers of market data                                            *)

DataTask == [feed : {"ipc", "zmq"} \cup Feeds, symbols : 0..MaxRefreshes,
             at : {"top", "open", "read", "woken", "pause", "ending"}]

\* Cardinality under the instance is that of FiniteSets.
LEMMA DataCards == \A S : Data!Cardinality(S) = Cardinality(S)
BY DEF Data!Cardinality, Cardinality

\* A finite set has subsets of every smaller size.
LEMMA SubsetOfSize ==
  ASSUME NEW S, IsFiniteSet(S), NEW n \in Nat, n <= Cardinality(S)
  PROVE  \E T \in SUBSET S : Cardinality(T) = n
<1>1. PICK m \in Nat : m = Cardinality(S) BY FS_CardinalityType
<1>2. PICK b \in Bijection(1..m, S) : TRUE
  BY <1>1, FS_CardinalityType DEF ExistsBijection
<1>3. b \in [1..m -> S] /\ \A i, j \in 1..m : b[i] = b[j] => i = j
  BY <1>2 DEF Bijection, Injection, IsInjective
<1>4. \A i \in 1..n : i \in 1..m BY <1>1
<1>5. PICK T : T = {b[i] : i \in 1..n} OBVIOUS
<1> DEFINE g == [i \in 1..n |-> b[i]]
<1>6. g \in [1..n -> T] BY <1>5
<1>7. g \in Injection(1..n, T) BY <1>3, <1>4, <1>6 DEF Injection, IsInjective
<1>8. g \in Surjection(1..n, T) BY <1>5, <1>6 DEF Surjection
<1>9. g \in Bijection(1..n, T) BY <1>7, <1>8 DEF Bijection
<1> HIDE DEF g
<1>10. IsFiniteSet(1..n) /\ Cardinality(1..n) = n BY FS_Interval
<1>11. Cardinality(T) = n BY <1>9, <1>10, FS_Bijection DEF ExistsBijection
<1>12. T \in SUBSET S BY <1>3, <1>4, <1>5
<1>13. QED BY <1>11, <1>12

\* A start gives every feed a slot of its own.
LEMMA SpawnDoes ==
  ASSUME Data!ConstantsOK, Data!TypeOK, NEW fs, fs \subseteq {"ipc", "zmq"} \cup Feeds, Data!Spawn(fs)
  PROVE  d_task' \in [Data!Slots -> {Data!Nobody} \cup DataTask]
<1>1. MaxTasks \in Nat /\ Feeds \subseteq {"api", "web", "binance"} BY DEF Data!ConstantsOK
<1>2. IsFiniteSet(Data!Slots) BY <1>1, FS_Interval DEF Data!Slots
<1>3. IsFiniteSet(fs)
  <2>1. IsFiniteSet({"ipc"} \cup {"zmq"} \cup {"api"} \cup {"web"} \cup {"binance"})
    BY FS_Singleton, FS_Union
  <2>2. fs \subseteq {"ipc"} \cup {"zmq"} \cup {"api"} \cup {"web"} \cup {"binance"} BY <1>1
  <2>3. QED BY <2>1, <2>2, FS_Subset
<1>4. PICK n \in Nat : n = Cardinality(fs) BY <1>3, FS_CardinalityType
<1>5. PICK r \in Data!Room(n) :
         LET f == CHOOSE g \in [r -> fs] : \A x \in fs : \E t \in r : g[t] = x
         IN d_task' = [t \in Data!Slots |-> IF t \in r THEN Data!First(f[t]) ELSE d_task[t]]
  BY <1>4, DataCards DEF Data!Spawn
<1>6. r \subseteq Data!Slots /\ Cardinality(r) = n
  <2>1. PICK free : free = Data!Slots \ Data!Live OBVIOUS
  <2>2. IsFiniteSet(free) BY <1>2, <2>1, FS_Subset
  <2>3. CASE Cardinality(free) >= n
    <3>1. r = CHOOSE q \in SUBSET free : Cardinality(q) = n
      BY <2>1, <2>3, DataCards DEF Data!Room
    <3>2. \E q \in SUBSET free : Cardinality(q) = n
      BY <2>2, <2>3, SubsetOfSize, FS_CardinalityType
    <3>3. r \in SUBSET free /\ Cardinality(r) = n BY <3>1, <3>2
    <3>4. QED BY <2>1, <3>3
  <2>4. CASE ~(Cardinality(free) >= n) BY <1>5, <2>1, <2>4, DataCards DEF Data!Room
  <2>5. QED BY <2>3, <2>4
<1>7. IsFiniteSet(r) BY <1>2, <1>6, FS_Subset
<1>8. PICK g0 \in Bijection(r, fs) : TRUE
  BY <1>3, <1>4, <1>6, <1>7, FS_SameCardinalityBij DEF ExistsBijection
<1>9. g0 \in [r -> fs] /\ \A x \in fs : \E t \in r : g0[t] = x
  BY <1>8 DEF Bijection, Surjection
<1>10. PICK f : f = CHOOSE g \in [r -> fs] : \A x \in fs : \E t \in r : g[t] = x OBVIOUS
<1>11. f \in [r -> fs] BY <1>9, <1>10
<1>12. d_task' = [t \in Data!Slots |-> IF t \in r THEN Data!First(f[t]) ELSE d_task[t]]
  BY <1>5, <1>10
<1>13. \A x \in fs : Data!First(x) \in DataTask
  BY DEF Data!First, DataTask, Data!TypeOK
<1>14. \A t \in Data!Slots : d_task[t] \in {Data!Nobody} \cup DataTask
  BY DEF Data!TypeOK, DataTask
<1>15. QED BY <1>11, <1>12, <1>13, <1>14

\* A receiver that goes on is a receiver.
LEMMA DataMoves ==
  ASSUME NEW r \in DataTask, NEW to \in {"top", "open", "read", "woken", "pause", "ending"},
         NEW w \in 0..MaxRefreshes
  PROVE  /\ [r EXCEPT !.at = to] \in DataTask
         /\ [r EXCEPT !.at = to, !.symbols = w] \in DataTask
BY DEF DataTask

\* Who has a feed is a receiver.
LEMMA DataNobody ==
  ASSUME Data!TypeOK, NEW t \in Data!Slots
  PROVE  /\ d_task[t] \in {Data!Nobody} \cup DataTask
         /\ d_task[t].feed # "none" => d_task[t] \in DataTask
         /\ Data!Nobody.feed = "none"
BY DEF Data!TypeOK, DataTask, Data!Nobody

\* A receiver goes on, or ends.
LEMMA DataMove ==
  ASSUME Data!TypeOK, NEW t \in Data!Slots, d_task[t].feed # "none",
         NEW to \in {"top", "open", "read", "woken", "pause", "ending", "gone"}, Data!Move(t, to)
  PROVE  d_task' \in [Data!Slots -> {Data!Nobody} \cup DataTask]
<1>1. d_task \in [Data!Slots -> {Data!Nobody} \cup DataTask] BY DEF Data!TypeOK, DataTask
<1>2. d_task[t] \in DataTask BY DataNobody
<1>3. d_wanted \in 0..MaxRefreshes BY DEF Data!TypeOK
<1>4. CASE to = "gone" BY <1>1, <1>4 DEF Data!Move
<1>5. CASE to # "gone"
  <2>1. [d_task[t] EXCEPT !.at = to] \in DataTask BY <1>2, <1>3, <1>5, DataMoves
  <2>2. d_task' = [d_task EXCEPT ![t] = [d_task[t] EXCEPT !.at = to]] BY <1>5 DEF Data!Move
  <2>3. QED BY <1>1, <2>1, <2>2
<1>6. QED BY <1>4, <1>5

\* A notification wakes the receivers.
LEMMA DataNotify ==
  ASSUME Data!TypeOK, Data!Notify
  PROVE  d_task' \in [Data!Slots -> {Data!Nobody} \cup DataTask]
<1>1. d_task \in [Data!Slots -> {Data!Nobody} \cup DataTask] BY DEF Data!TypeOK, DataTask
<1>2. CASE d_task' = d_task BY <1>1, <1>2
<1>3. ASSUME NEW busy, d_task' = Data!Notified(busy)
      PROVE  d_task' \in [Data!Slots -> {Data!Nobody} \cup DataTask]
  <2>1. ASSUME NEW t \in Data!Slots
        PROVE  (IF t \notin Data!Waiting \ busy THEN d_task[t]
                ELSE IF d_task[t].at = "pause" THEN Data!Nobody
                ELSE [d_task[t] EXCEPT !.at = "woken"]) \in {Data!Nobody} \cup DataTask
    <3>1. CASE t \notin Data!Waiting \ busy BY <1>1, <3>1
    <3>2. CASE t \in Data!Waiting \ busy
      <4>1. d_task[t].feed # "none" BY <3>2 DEF Data!Waiting
      <4>2. d_task[t] \in DataTask /\ d_wanted \in 0..MaxRefreshes BY <4>1, DataNobody DEF Data!TypeOK
      <4>3. [d_task[t] EXCEPT !.at = "woken"] \in DataTask BY <4>2, DataMoves
      <4>4. QED BY <3>2, <4>3
    <3>3. QED BY <3>1, <3>2
  <2>2. QED BY <1>3, <2>1 DEF Data!Notified
<1>4. QED BY <1>2, <1>3 DEF Data!Notify

\* The receivers start with their types.
LEMMA DataInit == Data!ConstantsOK /\ Data!Init => Data!TypeOK
<1> SUFFICES ASSUME Data!ConstantsOK, Data!Init PROVE Data!TypeOK
  OBVIOUS
<1>1. d_kind \in Kinds /\ d_running \in BOOLEAN /\ d_server \in BOOLEAN BY DEF Data!Init
<1>2. d_pc \in [Data!Starters -> {"idle", "updated", "stopped", "store"}] BY DEF Data!Init
<1>3. d_wanted \in 0..MaxRefreshes BY DEF Data!Init, Data!ConstantsOK
<1>4. d_task \in [Data!Slots -> {Data!Nobody} \cup DataTask]
  <2>1. d_task = [t \in Data!Slots |-> Data!Nobody] BY DEF Data!Init
  <2> HIDE DEF Data!Nobody
  <2>2. QED BY <2>1
<1>5. QED BY <1>1, <1>2, <1>3, <1>4 DEF Data!TypeOK, DataTask

\* A client is started or stopped.
LEMMA DataStart ==
  ASSUME Data!ConstantsOK, Data!TypeOK, NEW w \in Data!Starters, Data!Start(w) \/ Data!Stop(w)
  PROVE  Data!TypeOK'
<1> DEFINE P == {"idle", "updated", "stopped", "store"}
<1>1. d_pc' \in [Data!Starters -> P]
  <2>1. \E to \in P : d_pc' = [d_pc EXCEPT ![w] = to]
    BY DEF Data!Start, Data!Stop, Data!start_ipc, Data!start_zmq, Data!start_flipster, Data!At
  <2>2. QED BY <2>1 DEF Data!TypeOK
<1>2. UNCHANGED <<d_kind, d_wanted, d_server>> /\ d_running' \in BOOLEAN
  BY DEF Data!Start, Data!Stop, Data!start_ipc, Data!start_zmq, Data!start_flipster, Data!TypeOK
<1>3. \/ d_task' = d_task \/ Data!Spawn({"ipc"}) \/ Data!Spawn({"zmq"}) \/ Data!Spawn(Feeds)
      \/ Data!Notify
  BY DEF Data!Start, Data!Stop, Data!start_ipc, Data!start_zmq, Data!start_flipster
<1>4. d_task' \in [Data!Slots -> {Data!Nobody} \cup DataTask]
  <2>1. CASE d_task' = d_task BY <2>1 DEF Data!TypeOK, DataTask
  <2>2. QED BY <1>3, <2>1, SpawnDoes, DataNotify
<1>5. QED BY <1>1, <1>2, <1>4 DEF Data!TypeOK, DataTask

\* A receiver takes a step.
LEMMA DataReceive ==
  ASSUME Data!TypeOK, NEW t \in Data!Slots, Data!Receive(t) \/ Data!receive_error(t)
  PROVE  Data!TypeOK'
<1>1. UNCHANGED <<d_kind, d_pc, d_wanted, d_server>> /\ d_running' \in BOOLEAN
  BY DEF Data!Receive, Data!receive_ipc, Data!receive_zmq, Data!receive_binance, Data!feed_loop,
         Data!api_feed_once, Data!web_feed_once, Data!receive_error, Data!TypeOK
<1>2. d_task[t].feed # "none"
  BY DEF Data!Receive, Data!receive_ipc, Data!receive_zmq, Data!receive_binance, Data!feed_loop,
         Data!api_feed_once, Data!web_feed_once, Data!receive_error, Data!Polls, Data!Of,
         Data!Reconnects
<1>3. \/ \E to \in {"top", "open", "read", "woken", "pause", "ending", "gone"} : Data!Move(t, to)
      \/ d_task' = [d_task EXCEPT ![t] = [d_task[t] EXCEPT !.at = "open", !.symbols = d_wanted]]
      \/ d_task' = [d_task EXCEPT ![t] = Data!Nobody]
  BY DEF Data!Receive, Data!receive_ipc, Data!receive_zmq, Data!receive_binance, Data!feed_loop,
         Data!api_feed_once, Data!web_feed_once, Data!receive_error
<1>4. d_task' \in [Data!Slots -> {Data!Nobody} \cup DataTask]
  <2>1. d_task \in [Data!Slots -> {Data!Nobody} \cup DataTask] BY DEF Data!TypeOK, DataTask
  <2>2. d_task[t] \in DataTask /\ d_wanted \in 0..MaxRefreshes BY <1>2, DataNobody DEF Data!TypeOK
  <2>3. [d_task[t] EXCEPT !.at = "open", !.symbols = d_wanted] \in DataTask
    BY <2>2, DataMoves
  <2>4. QED BY <1>2, <1>3, <2>1, <2>3, DataMove
<1>5. QED BY <1>1, <1>4 DEF Data!TypeOK, DataTask

\* Every step of the receivers keeps them.
LEMMA DataStep == Data!ConstantsOK /\ Data!TypeOK /\ [Data!Next]_data => Data!TypeOK'
<1> SUFFICES ASSUME Data!ConstantsOK, Data!TypeOK, [Data!Next]_data PROVE Data!TypeOK'
  OBVIOUS
<1>1. CASE UNCHANGED data BY <1>1 DEF data, Data!TypeOK
<1>2. CASE Data!update_symbols
  <2>1. d_task' \in [Data!Slots -> {Data!Nobody} \cup DataTask]
    BY <1>2, DataNotify DEF Data!update_symbols
  <2>2. d_wanted' \in 0..MaxRefreshes
    BY <1>2 DEF Data!update_symbols, Data!TypeOK, Data!ConstantsOK
  <2>3. d_pc' \in [Data!Starters -> {"idle", "updated", "stopped", "store"}]
    BY <1>2 DEF Data!update_symbols, Data!TypeOK, Data!At
  <2>4. UNCHANGED <<d_kind, d_running, d_server>> BY <1>2 DEF Data!update_symbols
  <2>5. QED BY <2>1, <2>2, <2>3, <2>4 DEF Data!TypeOK, DataTask
<1>3. CASE Data!Flap BY <1>3 DEF Data!Flap, Data!TypeOK
<1>4. QED BY <1>1, <1>2, <1>3, DataStart, DataReceive DEF Data!Next

-----------------------------------------------------------------------------
(* The composition                                                         *)

\* Every component keeps its invariant, in focus or not.
AccountsInv ==
    /\ GateInv /\ MirrorInv /\ AccountInv /\ Data!TypeOK
    /\ ThreadsInv /\ RefreshInv /\ QuotesInv

\* Its start.
LEMMA AccountsStart == AccountsInit => AccountsInv
<1> SUFFICES ASSUME AccountsInit PROVE AccountsInv
  OBVIOUS
<1>1. /\ Gate!Init /\ Mirror!Init /\ Account!Init /\ Data!Init /\ Threads!Init
      /\ Refresh!Init /\ Quotes!Init
  BY DEF AccountsInit
<1>2. QED
  BY <1>1, MCAccountsAssumption, GateInit, MirrorInit, AccountInit, DataInit, ThreadsInit,
     RefreshInit, QuotesInit DEF MCAccountsAssumption, AccountsInv

\* A step is a step of every component, a stutter of all but the one in focus.
LEMMA AccountsSteps ==
  [AccountsNext]_allvars =>
    /\ [Gate!Next]_gate /\ [Mirror!Next]_mirror /\ [Account!Next]_account /\ [Data!Next]_data
    /\ [Threads!Next]_threads /\ [Refresh!Next]_refresh /\ [Quotes!Next]_quotes
BY DEF AccountsNext, allvars

\* Its step.
LEMMA AccountsStep == AccountsInv /\ [AccountsNext]_allvars => AccountsInv'
<1> SUFFICES ASSUME AccountsInv, [AccountsNext]_allvars PROVE AccountsInv'
  OBVIOUS
<1>1. /\ [Gate!Next]_gate /\ [Mirror!Next]_mirror /\ [Account!Next]_account
      /\ [Data!Next]_data /\ [Threads!Next]_threads /\ [Refresh!Next]_refresh
      /\ [Quotes!Next]_quotes
  BY AccountsSteps
<1>2. GateInv' BY <1>1, MCAccountsAssumption, GateStep DEF MCAccountsAssumption, AccountsInv
<1>3. MirrorInv' BY <1>1, MCAccountsAssumption, MirrorStep DEF MCAccountsAssumption, AccountsInv
<1>4. AccountInv' BY <1>1, MCAccountsAssumption, AccountStep DEF MCAccountsAssumption, AccountsInv
<1>5. (Data!TypeOK)' BY <1>1, MCAccountsAssumption, DataStep DEF MCAccountsAssumption, AccountsInv
<1>6. ThreadsInv'
  BY <1>1, MCAccountsAssumption, ThreadsStep
  DEF MCAccountsAssumption, AccountsInv, threads, Threads!vars
<1>7. RefreshInv'
  BY <1>1, MCAccountsAssumption, RefreshStep
  DEF MCAccountsAssumption, AccountsInv, refresh, Refresh!vars
<1>8. QuotesInv' BY <1>1, MCAccountsAssumption, QuotesStep DEF MCAccountsAssumption, AccountsInv
<1>9. QED BY <1>2, <1>3, <1>4, <1>5, <1>6, <1>7, <1>8 DEF AccountsInv

\* The invariants of all components hold in every run.
THEOREM AccountsAlways == AccountsSpec => []AccountsInv
BY AccountsStart, AccountsStep, PTL DEF AccountsSpec

\* Whatever the constants, all variables keep their types.
THEOREM AccountsTypes == AccountsSpec => []TypesOK
<1>1. AccountsInv => TypesOK
  BY MCAccountsAssumption, GateShows, MirrorShows, AccountShows, ThreadsShows, QuotesShows
  DEF MCAccountsAssumption, AccountsInv, RefreshInv, TypesOK
<1>2. QED BY <1>1, AccountsAlways, PTL

\* In every run of a program, however many symbols, feeds, losses and restarts there
\* are: a mirror has every position but those that a gap hid, the events of an
\* account balance its positions, one loop trades, and what is held is watched.
THEOREM AccountsKnown == AccountsSpec => []PositionsKnown
<1>1. AccountsInv => PositionsKnown
  BY MCAccountsAssumption, MirrorShows, AccountShows, ThreadsShows, QuotesShows
  DEF MCAccountsAssumption, AccountsInv, RefreshInv, PositionsKnown, QuotesBounded
<1>2. QED BY <1>1, AccountsAlways, PTL

\* The closing program never has more quotes on an account than it lost connections,
\* and one, for every number of accounts, every market and every order of its calls.
THEOREM QuotesAreBounded == AccountsSpec => []QuotesBounded
<1>1. AccountsInv => QuotesBounded
  BY QuotesShows DEF AccountsInv, QuotesBounded
<1>2. QED BY <1>1, AccountsAlways, PTL

\* Any number of closers, with maps of any age, only shrink a position.
THEOREM ClosesOnlyEverShrink == AccountsSpec => ClosesShrink
<1> DEFINE Shrinks == \A c \in Contracts :
             /\ Gate!Abs(g_real'[c].size) <= Gate!Abs(g_real[c].size)
             /\ Gate!Sign(g_real'[c].size) \in {0, Gate!Sign(g_real[c].size)}
<1>1. AccountsInv /\ [AccountsNext]_allvars => [g_trades' = g_trades => Shrinks]_gate
  BY AccountsSteps, MCAccountsAssumption, GateStep DEF MCAccountsAssumption, AccountsInv
<1>2. QED
  BY <1>1, AccountsAlways, PTL DEF AccountsSpec, ClosesShrink, Gate!ClosesOnlyShrink, Gate!vars, gate
=============================================================================
