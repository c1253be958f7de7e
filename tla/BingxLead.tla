------------------------------ MODULE BingxLead ------------------------------
(***************************************************************************)
(* collector/src/bingx_lead.rs: the lead strategy of GateLead with another *)
(* follower and a third task, which takes the fills the executor reports   *)
(* and sets the reference price of the base's open position to the price   *)
(* of the fill.  The report carries account, base and position id.  Of the *)
(* other lines the two files differ in names and fees only.                *)
(***************************************************************************)
EXTENDS GateLead

VARIABLES
    home,       \* [Ids -> the base, None before the entry] (history)
    since,      \* [Ids -> age of the entry, counted up to Cooldown] (history)
    fill,       \* [Ids -> price reported, 0 before] (history)
    tardy       \* ids reported a cooldown or more after their entry (history)

reports == <<home, since, fill, tardy>>
bvars == <<vars, reports>>

NoReports ==
    /\ home = [i \in Ids |-> None] /\ since = [i \in Ids |-> 0]
    /\ fill = [i \in Ids |-> 0] /\ tardy = {}
BInit == Init /\ NoReports

UpToCooldown(a) == IF a < Cooldown THEN a ELSE Cooldown

BOnLeader(b, mid, d) ==
    /\ OnLeader(b, mid, d)
    /\ LET Entered(i) == i = next_id /\ next_id' # next_id IN
         /\ home' = [i \in Ids |-> IF Entered(i) THEN b ELSE home[i]]
         /\ since' = [i \in Ids |-> IF Entered(i) THEN UpToCooldown(d) ELSE since[i]]
    /\ UNCHANGED <<fill, tardy>>

BOnFollower(b, mid, d) == OnFollower(b, mid, d) /\ UNCHANGED reports
BSweepExits == SweepExits /\ UNCHANGED reports
BLogClose(t) == LogClose(t) /\ UNCHANGED reports

BAge ==
    /\ Age
    /\ since' = [i \in Ids |-> IF i \in entered THEN Older(since[i], Cooldown) ELSE 0]
    /\ UNCHANGED <<home, fill, tardy>>

\* Whatever position is open on the base.
Retune(b, price) ==
    state' = IF state[b].open = None THEN state
             ELSE [state EXCEPT ![b].open.ref = price]

\* Mutant: the action of the report is not looked at, so that the report of an exit
\* retunes like that of an entry.
OnFillAnyAction(i, price) ==
    /\ home[i] # None /\ (fill[i] = 0 \/ i \in Exited)
    /\ Retune(home[i], price)
    /\ fill' = [fill EXCEPT ![i] = IF @ = 0 THEN price ELSE @]
    /\ tardy' = IF fill[i] = 0 /\ since[i] = Cooldown THEN tardy \union {i} ELSE tardy
    /\ UNCHANGED <<closing, next_id, entered, exits, home, since>>

\* The report of an entry's fill, at most one of each position, at any time: the
\* position it belongs to may be closed, and another one be open on its base.
OnFill(i, price) ==
    /\ home[i] # None /\ fill[i] = 0
    /\ Retune(home[i], price)
    /\ fill' = [fill EXCEPT ![i] = price]
    /\ tardy' = IF since[i] = Cooldown THEN tardy \union {i} ELSE tardy
    /\ UNCHANGED <<closing, next_id, entered, exits, home, since>>

BNext ==
    \/ \E b \in Bases, mid \in Prices, d \in Delays :
          BOnLeader(b, mid, d) \/ BOnFollower(b, mid, d)
    \/ BSweepExits
    \/ \E t \in Tasks : BLogClose(t)
    \/ BAge
    \/ \E i \in Ids, price \in Prices : OnFill(i, price)

BSpec == BInit /\ [][BNext]_bvars

\* "ref_mid is the actual maker fill price, not the signal-time mid": once the fill of
\* the open position is known, exits are measured from it, although reports are looked
\* up by base alone.  Only the report of another position of the base that came a
\* cooldown or more after its entry can have put its own price there.
RefIsOwnFill ==
    \A b \in Bases :
        LET p == state[b].open
            strays == {i \in tardy : home[i] = b /\ i # p.id}
        IN p # None /\ fill[p.id] # 0 =>
              p.ref = fill[p.id] \/ \E i \in strays : p.ref = fill[i]

=============================================================================
