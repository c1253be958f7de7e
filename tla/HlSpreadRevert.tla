--------------------------- MODULE HlSpreadRevert ---------------------------
(***************************************************************************)
(* collector/src/hl_spread_revert.rs: the strategy of SpreadRevert with    *)
(* Hyperliquid as the follower, whose paper entries and exits may also be  *)
(* traded (HSR_LIVE): an entry fires an IOC order and, when it has filled, *)
(* a reduce-only maker order at the target; the paper exit cancels that    *)
(* order and closes with an IOC.  Each of the two is a task of its own.    *)
(* The orders go through hl_pairs/src/exec.rs with its kill switch; a      *)
(* cache of the account (hl_pairs/src/live_state.rs), two requests every   *)
(* five seconds, tells which coins are busy.  Every entry has size 1.      *)
(***************************************************************************)
EXTENDS SpreadRevert

CONSTANTS
    Guarded,    \* HLP_MASTER_ADDRESS is set
    LossCap     \* daily_loss_cap_usd in losing trades

HlConstantsOK == ConstantsOK /\ Guarded \in BOOLEAN /\ LossCap \in Nat \ {0}

VARIABLES
    leg,        \* id -> [base, side] of a live entry, or None
    entering,   \* ids -> where its entry task is
    leaving,    \* ids -> where its close task is
    pending,    \* PENDING_EXITS: ids whose maker exit is known
    loss,       \* realized_loss_usd
    busy, look, \* the account cache, and the positions read for its next state
    real, resting,  \* the venue: position of a base, ids with a maker exit
    lost        \* bases where one of the known accidents happened (history)

tasks == <<leg, entering, leaving, pending>>
cache == <<busy, look>>
account == <<real, resting>>
live == <<tasks, loss, cache, account, lost>>
hvars == <<vars, live>>

LiveInit ==
    /\ leg = [i \in Ids |-> None]
    /\ entering = [i \in Ids |-> "none"] /\ leaving = [i \in Ids |-> "none"]
    /\ pending = {} /\ loss = 0
    /\ busy = {} /\ look = None
    /\ real = [b \in Bases |-> 0] /\ resting = {} /\ lost = {}

HInit == Init /\ LiveInit

killed == loss >= LossCap
Coin(i) == leg[i].base
BasesOf(S) == {Coin(i) : i \in S}

-----------------------------------------------------------------------------
(* The paper strategy and what it fires                                    *)

HRefresh == Refresh /\ UNCHANGED live
HExpire(b, v) == Expire(b, v) /\ UNCHANGED live
HAge == Age /\ UNCHANGED live
HReadBaseline(b, v, price) == ReadBaseline(b, v, price) /\ UNCHANGED live
HSweepExits == SweepExits /\ UNCHANGED live

coin_busy(b) == Guarded /\ b \in busy

FireEntry(p) ==
    IF coin_busy(p.base) THEN UNCHANGED live
    ELSE /\ leg' = [leg EXCEPT ![p.id] = [base |-> p.base, side |-> p.side]]
         /\ entering' = [entering EXCEPT ![p.id] = "ioc"]
         /\ UNCHANGED <<leaving, pending, loss, cache, account, lost>>

HOnTick == OnTick /\ entered' = entered /\ UNCHANGED live
HOnTickEnters ==
    /\ OnTick /\ entered' # entered
    /\ \E p \in open' \ open : FireEntry(p)

\* The close: the maker exit of the id is taken out of the map, or there is none,
\* because the entry was not made, failed, or is still on its way.
FireClose(i) ==
    /\ pending' = pending \ {i}
    /\ leaving' = [leaving EXCEPT ![i] = IF i \in pending THEN "cancel" ELSE @]
    /\ lost' = lost \union (IF entering[i] \in {"ioc", "alo"} THEN {Coin(i)} ELSE {})

HLogClose(t, down) ==
    /\ LogClose(t)
    /\ FireClose(Head(closing[t]))
    /\ loss' = IF killed THEN loss ELSE loss + down
    /\ UNCHANGED <<leg, entering, cache, account>>

-----------------------------------------------------------------------------
(* The entry task                                                          *)

Enters(i, at) == entering' = [entering EXCEPT ![i] = at]
Leaves(i, at) == leaving' = [leaving EXCEPT ![i] = at]
Lost(bs) == lost' = lost \union bs
Fill(i) == real' = [real EXCEPT ![Coin(i)] = @ + leg[i].side]

\* A reduce-only order of the leg: nothing when there is nothing to reduce.
Reducible(i) == real[Coin(i)] * leg[i].side > 0
Reduce(i) == real' = IF Reducible(i) THEN [real EXCEPT ![Coin(i)] = @ - leg[i].side] ELSE real

\* place_ioc: refused by the kill switch, not filled, filled, or filled without
\* an answer.
EntryIoc(i) ==
    /\ entering[i] = "ioc"
    /\ \/ Enters(i, "done") /\ UNCHANGED <<real, lost>>
       \/ ~killed /\ Fill(i) /\ Enters(i, "alo") /\ UNCHANGED lost
       \/ ~killed /\ Fill(i) /\ Enters(i, "done") /\ Lost({Coin(i)})
    /\ UNCHANGED <<vars, leg, leaving, pending, loss, cache, resting>>

\* place_alo: the maker exit rests or fills at once, is refused, or rests without
\* an answer.
PlaceExit(i) ==
    /\ entering[i] = "alo" /\ Enters(i, "done")
    /\ \/ /\ ~killed /\ Reducible(i) /\ pending' = pending \union {i}
          /\ \/ resting' = resting \union {i} /\ UNCHANGED real
             \/ Reduce(i) /\ UNCHANGED resting
          /\ UNCHANGED lost
       \/ Lost({Coin(i)}) /\ UNCHANGED <<real, resting, pending>>
       \/ /\ ~killed /\ Reducible(i) /\ resting' = resting \union {i}
          /\ Lost({Coin(i)}) /\ UNCHANGED <<real, pending>>
    /\ UNCHANGED <<vars, leg, leaving, loss, cache>>

\* The maker exit fills; the venue drops it when there is nothing to reduce.
MakerFill(i) ==
    /\ i \in resting /\ resting' = resting \ {i}
    /\ Reduce(i)
    /\ UNCHANGED <<vars, tasks, loss, cache, lost>>

-----------------------------------------------------------------------------
(* The close task                                                          *)

\* The cancel: done; of an order that is gone, which the venue may answer as if it
\* were done; or any other error, whether it was cancelled or not.
CancelExit(i) ==
    /\ leaving[i] = "cancel"
    /\ \/ resting' = resting \ {i} /\ Leaves(i, "ioc") /\ UNCHANGED lost
       \/ i \notin resting /\ Leaves(i, "done") /\ UNCHANGED <<resting, lost>>
       \/ resting' \in {resting, resting \ {i}} /\ Leaves(i, "done") /\ Lost({Coin(i)})
    /\ UNCHANGED <<vars, leg, entering, pending, loss, cache, real>>

\* The fallback: the kill switch refuses it like any order.
CloseIoc(i) ==
    /\ leaving[i] = "ioc" /\ Leaves(i, "done")
    /\ \/ ~killed /\ Reduce(i) /\ UNCHANGED lost
       \/ Lost({Coin(i)}) /\ UNCHANGED real
    /\ UNCHANGED <<vars, leg, entering, pending, loss, cache, resting>>

-----------------------------------------------------------------------------
(* The account cache                                                       *)

LookPositions ==
    /\ Guarded /\ look = None
    /\ look' = [coins |-> {b \in Bases : real[b] # 0}]
    /\ UNCHANGED <<vars, tasks, loss, busy, account, lost>>

LookOrders ==
    /\ look # None /\ look' = None
    /\ busy' = look.coins \union BasesOf(resting)
    /\ UNCHANGED <<vars, tasks, loss, account, lost>>

LookFails ==
    /\ look # None /\ look' = None
    /\ UNCHANGED <<vars, tasks, loss, busy, account, lost>>

HNext ==
    \/ HRefresh \/ HAge \/ HOnTick \/ HOnTickEnters \/ HSweepExits
    \/ \E b \in Bases, v \in Venues :
          HExpire(b, v) \/ \E price \in Prices : HReadBaseline(b, v, price)
    \/ \E t \in Tasks, down \in {0, 1} : HLogClose(t, down)
    \/ \E i \in Ids :
          EntryIoc(i) \/ PlaceExit(i) \/ MakerFill(i) \/ CancelExit(i) \/ CloseIoc(i)
    \/ LookPositions \/ LookOrders \/ LookFails

HSpec == HInit /\ [][HNext]_hvars

-----------------------------------------------------------------------------
HTypeOK ==
    /\ TypeOK
    /\ leg \in [Ids -> {None} \union [base : Bases, side : {1, -1}]]
    /\ entering \in [Ids -> {"none", "ioc", "alo", "done"}]
    /\ leaving \in [Ids -> {"none", "cancel", "ioc", "done"}]
    /\ pending \subseteq Ids /\ resting \subseteq Ids
    /\ loss \in 0..LossCap /\ busy \subseteq Bases /\ lost \subseteq Bases

\* Legs of a base that something will still be done about.
Attended(b) ==
    {i \in Ids : leg[i] # None /\ Coin(i) = b
        /\ \/ exits[i] = 0 /\ i \notin IdsOf(dropped)
           \/ entering[i] \in {"ioc", "alo"} \/ leaving[i] \in {"cancel", "ioc"}}

\* However paper exits overtake live entries and maker fills race their cancels, a
\* live position that nobody attends to any more is left only where an order or a
\* cancel failed or was refused, or the paper exit came before the maker exit was
\* known (fire_live_entry_with_maker_exit, fire_live_close), or a tick without a
\* baseline dropped the paper exit.
NoSilentLive ==
    \A b \in Bases : real[b] # 0 /\ Attended(b) = {} =>
        b \in lost \/ \E i \in IdsOf(dropped) : leg[i] # None /\ Coin(i) = b

=============================================================================
