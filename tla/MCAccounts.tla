------------------------------- MODULE MCAccounts -------------------------------
(***************************************************************************)
(* What flipster_rust believes of its accounts and of the market, and its  *)
(* threads.  A behaviour runs one component, named by focus, while the     *)
(* others stay at their start; a run chooses the components by Foci:       *)
(*   gate     the managers of one account (GateAccount)                    *)
(*   mirror   the mirror of Flipster's private channel (FlipsterMirror)    *)
(*   account  the older account state of Flipster (FlipsterAccount)        *)
(*   data     the receivers of market data (DataFeed)                      *)
(*   threads  restarts of the strategy (StrategyThreads)                   *)
(*   refresh  changes of the configuration (SymbolRefresh)                 *)
(*   quotes   the closing program (CloseQuotes)                            *)
(***************************************************************************)
EXTENDS Integers, Sequences, FiniteSets

CONSTANTS
    Foci,
    Contracts, Managers, Monitors, Sockets, CloseUsdt, Values, MaxTrades, PushCap,
    MaxInFlight,                                       \* of GateAccount
    Symbols, Readers, TopSize, MaxChanges, MaxLosses,  \* of FlipsterMirror
    RowIds, FeedCap,                                   \* of FlipsterAccount
    Kinds, Feeds, MaxTasks, MaxRefreshes,              \* of DataFeed
    Programs, LoopIds, Workers, QueueCap,              \* of StrategyThreads
    Users, Offers, MaxOpens,                           \* of SymbolRefresh
    Accounts, Books, Lags, Slippage, Threshold, Divider, MinSize, Starts,
    Breaks                                             \* of CloseQuotes

\* Values the configuration cannot write.
Configurations == {{<<"l1", "a">>, <<"l2", "b">>}, {<<"l1", "b">>, <<"l2", "b">>},
                   {<<"l2", "a">>}}
TwoBooks == {[bid |-> 10, ask |-> 11], [bid |-> 14, ask |-> 15]}
ThreeBooks == TwoBooks \cup {[bid |-> 9, ask |-> 10]}
TwoLogins == <<"l1", "l2">>
OneLogin == <<"l1">>
LongAndShort == {[l1 |-> 4, l2 |-> -4]}
OneAccount == {[l1 |-> -4]}

VARIABLES focus,
    g_real, g_mirror, g_conn, g_feed, g_merge, g_pc, g_snap, g_todo, g_cur,
    g_booting, g_orders, g_trades, g_worth, m_reader, m_real, m_margin, m_rows, m_connected,
    m_feed, m_changes, m_losses, m_unseen, a_real, a_conn, a_feed, a_positions,
    a_poll, a_emit, a_opens, a_closes, a_changes, d_kind, d_running, d_pc, d_wanted,
    d_server, d_task, t_prog, t_running, t_keeper, t_current, t_loop, t_worker,
    t_queue, t_data, t_healthy, t_check, t_posted, r_config, r_managed, r_symbols,
    r_held, r_flying, r_todo, r_next, r_late, r_changes, r_opens, q_look, q_placing,
    q_last, q_real, q_mirror, q_link, q_wire, q_quotes, q_losses

gate == <<g_real, g_mirror, g_conn, g_feed, g_merge, g_pc, g_snap, g_todo, g_cur,
    g_booting, g_orders, g_trades, g_worth>>
mirror == <<m_reader, m_real, m_margin, m_rows, m_connected, m_feed, m_changes,
    m_losses, m_unseen>>
account == <<a_real, a_conn, a_feed, a_positions, a_poll, a_emit, a_opens, a_closes,
    a_changes>>
data == <<d_kind, d_running, d_pc, d_wanted, d_server, d_task>>
threads == <<t_prog, t_running, t_keeper, t_current, t_loop, t_worker, t_queue,
    t_data, t_healthy, t_check, t_posted>>
refresh == <<r_config, r_managed, r_symbols, r_held, r_flying, r_todo, r_next,
    r_late, r_changes, r_opens>>
quotes == <<q_look, q_placing, q_last, q_real, q_mirror, q_link, q_wire, q_quotes,
    q_losses>>

Gate == INSTANCE GateAccount WITH
    real <- g_real, mirror <- g_mirror, conn <- g_conn, feed <- g_feed, merge <-
    g_merge, pc <- g_pc, snap <- g_snap, todo <- g_todo, cur <- g_cur, booting <-
    g_booting, orders <- g_orders, trades <- g_trades, worth <- g_worth,
    FeedCap <- PushCap, Largest <- TopSize

Mirror == INSTANCE FlipsterMirror WITH
    reader <- m_reader, real <- m_real, margin <- m_margin, rows <- m_rows,
    connected <- m_connected, feed <- m_feed, changes <- m_changes, losses <-
    m_losses, unseen <- m_unseen, Largest <- TopSize

Account == INSTANCE FlipsterAccount WITH
    real <- a_real, conn <- a_conn, feed <- a_feed, positions <- a_positions, poll
    <- a_poll, emit <- a_emit, opens <- a_opens, closes <- a_closes, changes <-
    a_changes, Rows <- RowIds, Largest <- TopSize

Data == INSTANCE DataFeed WITH
    kind <- d_kind, running <- d_running, pc <- d_pc, wanted <- d_wanted, server <-
    d_server, task <- d_task

Threads == INSTANCE StrategyThreads WITH
    prog <- t_prog, running <- t_running, keeper <- t_keeper, current <- t_current,
    loop <- t_loop, worker <- t_worker, queue <- t_queue, data <- t_data, healthy <-
    t_healthy, check <- t_check, posted <- t_posted, Slots <- LoopIds

Refresh == INSTANCE SymbolRefresh WITH
    config <- r_config, managed <- r_managed, symbols <- r_symbols, held <- r_held,
    flying <- r_flying, todo <- r_todo, next <- r_next, late <- r_late, changes <-
    r_changes, opens <- r_opens, Logins <- Users

Quotes == INSTANCE CloseQuotes WITH
    look <- q_look, placing <- q_placing, last <- q_last, real <- q_real, mirror <-
    q_mirror, link <- q_link, wire <- q_wire, quotes <- q_quotes, losses <-
    q_losses, MaxLosses <- Breaks

ASSUME MCAccountsAssumption ==
    /\ Foci \subseteq {"gate", "mirror", "account", "data", "threads", "refresh", "quotes"}
    /\ Gate!ConstantsOK /\ Mirror!ConstantsOK /\ Account!ConstantsOK
    /\ Data!ConstantsOK /\ Threads!ConstantsOK /\ Refresh!ConstantsOK
    /\ Quotes!ConstantsOK

\* A component that is not in focus has one start.
AccountsInit ==
    /\ focus \in Foci
    /\ Gate!Init /\ (focus # "gate" => g_real = Gate!NoRows)
    /\ focus # "gate" => g_worth = [c \in Contracts |-> CHOOSE v \in Values : TRUE]
    /\ Mirror!Init
    /\ focus # "mirror" => m_reader = CHOOSE r \in Readers : TRUE
    /\ focus # "mirror" => m_real = [s \in Symbols |-> 0]
    /\ Account!Init /\ (focus # "account" => a_real = a_positions)
    /\ Data!Init
    /\ focus # "data" => d_kind = (CHOOSE k \in Kinds : TRUE) /\ ~d_server
    /\ Threads!Init
    /\ focus # "threads" =>
          t_prog = (CHOOSE p \in Programs : TRUE) /\ t_current = (CHOOSE s \in LoopIds : TRUE)
    /\ focus # "threads" => ~t_healthy
    /\ Refresh!Init
    /\ focus # "refresh" => r_held = {} /\ r_config = CHOOSE c \in Offers : TRUE
    /\ focus # "refresh" => r_managed = Refresh!Configured(r_config)
    /\ Quotes!Init /\ (focus # "quotes" => q_real = CHOOSE s \in Starts : TRUE)

AccountsNext ==
    /\ UNCHANGED focus
    /\ \/ focus = "gate" /\ Gate!Next
          /\ UNCHANGED <<mirror, account, data, threads, refresh, quotes>>
       \/ focus = "mirror" /\ Mirror!Next
          /\ UNCHANGED <<gate, account, data, threads, refresh, quotes>>
       \/ focus = "account" /\ Account!Next
          /\ UNCHANGED <<gate, mirror, data, threads, refresh, quotes>>
       \/ focus = "data" /\ Data!Next
          /\ UNCHANGED <<gate, mirror, account, threads, refresh, quotes>>
       \/ focus = "threads" /\ Threads!Next
          /\ UNCHANGED <<gate, mirror, account, data, refresh, quotes>>
       \/ focus = "refresh" /\ Refresh!Next
          /\ UNCHANGED <<gate, mirror, account, data, threads, quotes>>
       \/ focus = "quotes" /\ Quotes!Next
          /\ UNCHANGED <<gate, mirror, account, data, threads, refresh>>

allvars == <<focus, gate, mirror, account, data, threads, refresh, quotes>>
AccountsSpec == AccountsInit /\ [][AccountsNext]_allvars

\* All variables keep their types.
TypesOK ==
    /\ focus = "gate" => Gate!TypeOK
    /\ focus = "mirror" => Mirror!TypeOK
    /\ focus = "account" => Account!TypeOK
    /\ focus = "data" => Data!TypeOK
    /\ focus = "threads" => Threads!TypeOK
    /\ focus = "refresh" => Refresh!TypeOK
    /\ focus = "quotes" => Quotes!TypeOK

\* The closing program has one quote per account, although it never reads its
\* orders back: one more for each connection that was lost.
QuotesBounded == focus = "quotes" => Quotes!OneQuote

\* What a program holds true of an account is true, except for what it cannot
\* know: no open position is missing from a mirror, none is reported twice, none is
\* left without market data, no two loops trade on it at the same time, and no
\* quote rests on it that the closing program forgot.
PositionsKnown ==
    /\ focus = "mirror" => Mirror!NothingMissed /\ Mirror!GhostsOnlyFromGaps
    /\ focus = "account" => Account!EventsBalance
    /\ focus = "threads" => Threads!OneTrader
    /\ focus = "refresh" => Refresh!HeldIsWatched
    /\ QuotesBounded

\* However many closers work on an account and however old their maps are, a close
\* only shrinks the position.
ClosesShrink == Gate!ClosesOnlyShrink

\* A stale position is closed, and so is one that is above the closing program's
\* threshold.
StaleAreClosed ==
    /\ (focus = "gate" /\ Gate!Fairness) => Gate!StaleAreClosed
    /\ (focus = "quotes" /\ Quotes!Fairness) => Quotes!AllClosed

\* After whatever was lost, the programs know their positions again, get data
\* again and trade again; and what is stale or above the threshold is closed.
Recovers ==
    /\ StaleAreClosed
    /\ (focus = "gate" /\ Gate!Fairness) => Gate!EventuallyAccurate
    /\ (focus = "account" /\ Account!Fairness) => Account!FollowsVenue
    /\ (focus = "data" /\ Data!Fairness) => Data!DataReturns
    /\ (focus = "threads" /\ Threads!Fairness) => Threads!TradesAgain
=============================================================================
