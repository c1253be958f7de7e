------------------------------ MODULE CloseQuotes ------------------------------
(* The closing program of flipster_rust (strategy_close.rs): for one symbol, each *)
(* pass visits the accounts in turn and keeps one reduce-only, post-only quote    *)
(* per account that holds more than a threshold, on the side that shrinks it.     *)
(* The quote is replaced, a cancel and a new order over the account's WebSocket,  *)
(* when its price has moved far enough from the last one ordered.  That last      *)
(* price is kept per symbol and shared by all accounts.                           *)
(*                                                                                *)
(* Prices are integers, so that a change in basis points of the last price is     *)
(* compared as a difference.  Sizes are contracts, the threshold too; the mark    *)
(* price is left out, and the three reads of a position in one visit are one.     *)
(* Gate mode: with Flipster the same calls go over HTTP.                          *)
EXTENDS Integers, Sequences, FiniteSets

CONSTANTS
  Accounts,     \* the configurations that trade the symbol, in their order
  Books,        \* [bid, ask]: the books the loop may find
  Lags,         \* whether the feed may lag: BOOLEAN, or {FALSE}
  Slippage,     \* distance of a quote from the best price, in spreads
  Threshold,    \* smallest position that is closed
  Divider,      \* share of a position that is quoted
  MinSize,      \* get_min_order_size
  Starts,       \* positions the accounts may hold at first
  MaxLosses     \* bound: losses of a WebSocket

Logins == {Accounts[i] : i \in DOMAIN Accounts}
NoPrice == -1000
NotLooking == [at |-> 0]

VARIABLES
  look,      \* the pass: the account visited next, the books read, the feed's lag
  placing,   \* the new order of the visit, after its cancel
  last,      \* last_order_price_map of the symbol
  real,      \* position of an account at the exchange
  mirror,    \* the position its GateOrderManager shows
  link,      \* its WebSocket is connected
  wire,      \* requests in the queue of that WebSocket
  quotes,    \* sizes of its orders at the exchange, oldest first
  losses

vars == <<look, placing, last, real, mirror, link, wire, quotes, losses>>

Abs(n) == IF n < 0 THEN -n ELSE n
Spread(b) == b.ask - b.bid

ConstantsOK ==
  /\ Accounts \in Seq(Logins) /\ Accounts # <<>>
  /\ \A i, j \in DOMAIN Accounts : Accounts[i] = Accounts[j] => i = j
  /\ \A b \in Books : b.bid \in Int /\ b.ask \in Int /\ b.bid < b.ask
  /\ Lags \subseteq BOOLEAN /\ Divider \in Nat \ {0}
  /\ {Slippage, MinSize, Threshold, MaxLosses} \subseteq Nat
  /\ Starts \subseteq [Logins -> Int]

TypeOK ==
  /\ look.at \in 0 .. Len(Accounts)
  /\ look # NotLooking =>
       look.now \in Books /\ look.before \in Books /\ look.slow \in BOOLEAN
  /\ placing \in Nat /\ last \in Int
  /\ \A a \in Logins :
       /\ real[a] \in Int /\ mirror[a] \in Int /\ link[a] \in BOOLEAN
       /\ \A i \in DOMAIN quotes[a] : quotes[a][i] \in Nat \ {0}
       /\ \A i \in DOMAIN wire[a] : wire[a][i] \in Nat

Init ==
  /\ look = NotLooking /\ placing = 0 /\ last = NoPrice
  /\ real \in Starts /\ mirror = real
  /\ link = [a \in Logins |-> TRUE]
  /\ wire = [a \in Logins |-> <<>>] /\ quotes = [a \in Logins |-> <<>>]
  /\ losses = 0

-----------------------------------------------------------------------------
(* Whether the quote has to move.                                             *)

Side(a) == IF mirror[a] < 0 THEN "buy" ELSE "sell"
Best(side, b) == IF side = "buy" THEN b.bid ELSE b.ask
Price(side, b) ==
  IF side = "buy" THEN b.bid - Spread(b) * Slippage ELSE b.ask + Spread(b) * Slippage

(* p is nearer to the market's other side than q. *)
Keener(side, p, q) == IF side = "buy" THEN p > q ELSE p < q

(* Mutant: the sign is forgotten, every short position is small. *)
SmallSigned(a) == mirror[a] < Threshold

Small(a) == Abs(mirror[a]) < Threshold

(* Nothing is done when the price is the last one ordered, or keener by less  *)
(* than the slippage; nor when it is that of the book before, or keener than  *)
(* that with the same best price.                                             *)
Stays(side) ==
  LET price == Price(side, look.now)
      former == Price(side, look.before)
  IN \/ last = price
     \/ /\ last # NoPrice /\ Keener(side, price, last)
        /\ Abs(price - last) < Spread(look.now) * Slippage
     \/ former = price
     \/ Best(side, look.now) = Best(side, look.before) /\ Keener(side, price, former)

-----------------------------------------------------------------------------
(* The loop.                                                                  *)

CancelAll == 0     \* futures.order_cancel_cp: every order of the contract
Sent(a, req) == IF link[a] THEN [wire EXCEPT ![a] = Append(@, req)] ELSE wire

(* A pass begins.  Queues hold 65536 requests; a bound of this module is that *)
(* those of the pass before have been read.                                   *)
Look(now, before, slow) ==
  /\ look = NotLooking /\ \A a \in Logins : wire[a] = <<>>
  /\ look' = [at |-> 1, now |-> now, before |-> before, slow |-> slow]
  /\ UNCHANGED <<placing, last, real, mirror, link, wire, quotes, losses>>

Account == Accounts[look.at]
Onwards == look' = IF look.at = Len(Accounts) THEN NotLooking ELSE [look EXCEPT !.at = @ + 1]

QuoteSize(a) == Abs(mirror[a]) \div Divider

(* Mutant: a quote is ordered without a cancel of the one before. *)
VisitUncancelled ==
  /\ look.at # 0 /\ placing = 0
  /\ IF Small(Account) \/ Stays(Side(Account)) \/ look.slow \/ QuoteSize(Account) <= MinSize
     THEN Onwards /\ UNCHANGED <<placing, last>>
     ELSE /\ last' = Price(Side(Account), look.now)
          /\ placing' = QuoteSize(Account)
          /\ UNCHANGED look
  /\ UNCHANGED <<real, mirror, link, wire, quotes, losses>>

(* process_symbol for one account, up to the new order. *)
Visit ==
  /\ look.at # 0 /\ placing = 0
  /\ IF Small(Account) \/ Stays(Side(Account))
     THEN Onwards /\ UNCHANGED <<placing, last, wire>>
     ELSE /\ wire' = Sent(Account, CancelAll)
          /\ IF look.slow
             THEN /\ last' = Price(Side(Account), look.now)
                  /\ Onwards /\ UNCHANGED placing
             ELSE IF QuoteSize(Account) <= MinSize
             THEN Onwards /\ UNCHANGED <<placing, last>>
             ELSE /\ last' = Price(Side(Account), look.now)
                  /\ placing' = QuoteSize(Account)
                  /\ UNCHANGED look
  /\ UNCHANGED <<real, mirror, link, quotes, losses>>

(* An error of either call is only logged. *)
Place ==
  /\ placing # 0
  /\ wire' = Sent(Account, placing)
  /\ placing' = 0
  /\ Onwards
  /\ UNCHANGED <<last, real, mirror, link, quotes, losses>>

-----------------------------------------------------------------------------
(* The exchange, the connection and the mirror.                               *)

Process(a) ==
  /\ wire[a] # <<>>
  /\ LET req == Head(wire[a])
     IN quotes' = [quotes EXCEPT ![a] =
          IF req = CancelAll THEN <<>> ELSE IF real[a] = 0 THEN @ ELSE Append(@, req)]
  /\ wire' = [wire EXCEPT ![a] = Tail(@)]
  /\ UNCHANGED <<look, placing, last, real, mirror, link, losses>>

(* A new order that comes after its x-gate-exptime, or, post-only, would      *)
(* trade at once.                                                             *)
Refuse(a) ==
  /\ wire[a] # <<>> /\ Head(wire[a]) # CancelAll
  /\ wire' = [wire EXCEPT ![a] = Tail(@)]
  /\ UNCHANGED <<look, placing, last, real, mirror, link, quotes, losses>>

Towards0(n, k) == IF n > 0 THEN n - k ELSE n + k
Without(s, i) == SubSeq(s, 1, i - 1) \o SubSeq(s, i + 1, Len(s))
Filled(s, i, k) == IF k = s[i] THEN Without(s, i) ELSE [s EXCEPT ![i] = @ - k]

(* A reduce-only order ends with the position. *)
Fill(a, i, k) ==
  /\ i \in DOMAIN quotes[a] /\ k <= quotes[a][i] /\ k <= Abs(real[a])
  /\ real' = [real EXCEPT ![a] = Towards0(@, k)]
  /\ quotes' = [quotes EXCEPT ![a] =
       IF real'[a] = 0 THEN <<>> ELSE Filled(@, i, k)]
  /\ UNCHANGED <<look, placing, last, mirror, link, wire, losses>>

Observe(a) ==
  /\ mirror[a] # real[a]
  /\ mirror' = [mirror EXCEPT ![a] = real[a]]
  /\ UNCHANGED <<look, placing, last, real, link, wire, quotes, losses>>

(* Orders outlive the connection they were sent over. *)
Lose(a) ==
  /\ link[a] /\ losses < MaxLosses
  /\ link' = [link EXCEPT ![a] = FALSE] /\ wire' = [wire EXCEPT ![a] = <<>>]
  /\ losses' = losses + 1
  /\ UNCHANGED <<look, placing, last, real, mirror, quotes>>

Reconnect(a) ==
  /\ ~link[a]
  /\ link' = [link EXCEPT ![a] = TRUE]
  /\ UNCHANGED <<look, placing, last, real, mirror, wire, quotes, losses>>

Largest == CHOOSE n \in {Abs(s[a]) : s \in Starts, a \in Logins} :
             \A s \in Starts, a \in Logins : Abs(s[a]) <= n
Fills(a) == \E i \in 1 .. 1 + MaxLosses, k \in 1 .. Largest : Fill(a, i, k)

Next ==
  \/ \E now, before \in Books, slow \in Lags : Look(now, before, slow)
  \/ Visit \/ Place
  \/ \E a \in Logins :
       Process(a) \/ Refuse(a) \/ Fills(a) \/ Observe(a) \/ Lose(a) \/ Reconnect(a)

(* The loop runs, answers come, connections return; the market takes quotes,  *)
(* new orders are not refused for ever; the loop finds every book after every *)
(* other again and again, and the feed lags for a while only: a slow pass     *)
(* cancels and takes its price for ordered.                                   *)
Fairness ==
  /\ WF_vars(Visit \/ Place)
  /\ \A now, before \in Books : []<><<Look(now, before, FALSE)>>_vars
  /\ <>[][\A now, before \in Books : ~Look(now, before, TRUE)]_vars
  /\ \A a \in Logins :
       /\ WF_vars(Process(a)) /\ SF_vars(Process(a) /\ Head(wire[a]) # CancelAll)
       /\ WF_vars(Observe(a)) /\ WF_vars(Reconnect(a))
       /\ SF_vars(Fills(a))

Spec == Init /\ [][Next]_vars /\ Fairness

-----------------------------------------------------------------------------
(* Properties.                                                                *)

(* An account has one quote, and one more for every connection that was lost  *)
(* between a quote and its cancel, although orders are never read back.       *)
OneQuote == \A a \in Logins : Len(quotes[a]) <= 1 + losses

(* Every account is brought below what is worth a quote, although the last    *)
(* price of one keeps others from quoting and is kept for orders that were    *)
(* refused.                                                                   *)
Closed(a) == Abs(real[a]) < Threshold \/ Abs(real[a]) \div Divider <= MinSize
AllClosed == <>[](\A a \in Logins : Closed(a))
=============================================================================
