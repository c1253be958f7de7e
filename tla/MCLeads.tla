------------------------------- MODULE MCLeads -------------------------------
(***************************************************************************)
(* The lead strategies of the collector, the identifiers of their          *)
(* positions, the executor of the BingX one, and the quotes they live on.  *)
(* A behaviour runs one component, named by focus, while the others stay   *)
(* at their start, so that the check explores the sum of the state spaces  *)
(* and not their product:                                                  *)
(*   ids      the generator and the executor's deduplication (PosId)       *)
(*   gate     late ticks, cooldowns and stops (GateLead)                   *)
(*   anchor   the leader's history and the whipsaw filters (GateLead)      *)
(*   replay   ticks of the past, a sweeper of today (GateLead)             *)
(*   bingx    reported fills, however late (BingxLead)                     *)
(*   fleet    two strategies with one generator of ids (LeadFleet)         *)
(*   trade    the BingX executor (BingxExecutor)                           *)
(*   feed     the quote pipeline (TickFeed)                                *)
(*   sink     the writers into QuestDB (IlpSink)                           *)
(*   reader   the reader of QuestDB (QuestReader)                          *)
(***************************************************************************)
EXTENDS PosId, Sequences, FiniteSets

CONSTANTS
    Coins, Conns,
    \* of the fleet; the other instances of GateLead name what they change
    Prices, Delays, StaleAfter, Backtest, MinMove, Anchor, HalfWindow, HoldMax, ExitBp,
    StopBp, Cooldown, FreshFor, MinLag, MaxVel, VelWindow, FlipKeep, Retrace, PreRevert,
    PreWindow, StopCooldown, Grace, HardBp, MaxPosId, MaxHistory, MaxFlips,
    \* of the BingX executor
    Modes, MaxOpen, LossLimit, Gains, MaxId, MaxRestarts

VARIABLES focus,
    state, closing, next_id, entered, exits, home, since, fill, tardy,
    a_state, a_closing, a_next_id, a_entered, a_exits,
    hl_state, hl_closing, mexc_state, mexc_closing, f_next_id, f_entered, f_exits,
    x_mode, x_paper, x_entry, x_exit, x_found, x_open, x_taken, x_pnl,
    x_resting, x_real, x_restarts, x_lost, x_rows, x_settled,
    t_updates, t_socket, t_linked, t_drops, t_lost, t_events, t_merged,
    t_outbox, t_wire, t_cast, t_entry, t_since, t_queue, t_writer, t_got,
    s_kind, s_count, s_queue, s_buffer, s_pending, s_stored, s_dropped,
    s_up, s_fails,
    q_use, q_table, q_cursor, q_buf, q_done, q_sent, q_over

lead == <<state, closing, next_id, entered, exits>>
fills == <<home, since, fill, tardy>>
anchor == <<a_state, a_closing, a_next_id, a_entered, a_exits>>
fleet == <<hl_state, hl_closing, mexc_state, mexc_closing, f_next_id, f_entered, f_exits>>
trade == <<x_mode, x_paper, x_entry, x_exit, x_found, x_open, x_taken, x_pnl,
    x_resting, x_real, x_restarts, x_lost, x_rows, x_settled>>
feed == <<t_updates, t_socket, t_linked, t_drops, t_lost, t_events, t_merged,
    t_outbox, t_wire, t_cast, t_entry, t_since, t_queue, t_writer, t_got>>
sink == <<s_kind, s_count, s_queue, s_buffer, s_pending, s_stored, s_dropped, s_up,
    s_fails>>
reader == <<q_use, q_table, q_cursor, q_buf, q_done, q_sent, q_over>>

Gate == INSTANCE GateLead WITH
    Bases <- Coins, Delays <- {0, 1}, Cooldown <- 3, FreshFor <- 1, VelWindow <- 1,
    FlipKeep <- 1, StopCooldown <- 4, Grace <- 1, MaxFlips <- 2

Anchored == INSTANCE GateLead WITH
    state <- a_state, closing <- a_closing, next_id <- a_next_id,
    entered <- a_entered, exits <- a_exits,
    Bases <- Coins, Prices <- {1, 2, 4}, Delays <- {0, 1}, StaleAfter <- 0,
    Cooldown <- 1, VelWindow <- 1, Retrace <- 1, PreRevert <- 1, PreWindow <- 1,
    StopCooldown <- 1, Grace <- 1, MaxPosId <- 1, MaxHistory <- 3, MaxFlips <- 2

Replay == INSTANCE GateLead WITH
    Bases <- Coins, Delays <- {2}, Backtest <- TRUE, FlipKeep <- 2

Bingx == INSTANCE BingxLead WITH
    Bases <- Coins, Cooldown <- 3, VelWindow <- 1, FlipKeep <- 1, StopCooldown <- 4,
    Grace <- 1, MaxFlips <- 2

Fleet == INSTANCE LeadFleet WITH
    next_id <- f_next_id, entered <- f_entered, exits <- f_exits, Bases <- Coins

Bx == INSTANCE BingxExecutor WITH
    mode <- x_mode, paper <- x_paper, entry <- x_entry, exit <- x_exit, found
    <- x_found, open <- x_open, taken <- x_taken, pnl <- x_pnl, resting <-
    x_resting, real <- x_real, restarts <- x_restarts, lost <- x_lost, rows <-
    x_rows, settled <- x_settled, Bases <- Coins

Feed == INSTANCE TickFeed WITH
    updates <- t_updates, socket <- t_socket, linked <- t_linked, drops <-
    t_drops, lost <- t_lost, events <- t_events, merged <- t_merged, outbox <-
    t_outbox, wire <- t_wire, cast <- t_cast, entry <- t_entry, since <-
    t_since, queue <- t_queue, writer <- t_writer, got <- t_got,
    QueueCap <- 1, PubCap <- 1, TaskCap <- 1, MaxUpdates <- 3,
    MaxDrops <- 1

Sink == INSTANCE IlpSink WITH
    kind <- s_kind, count <- s_count, queue <- s_queue, buffer <- s_buffer,
    pending <- s_pending, stored <- s_stored, dropped <- s_dropped, up <-
    s_up, fails <- s_fails,
    Kinds <- {"feed", "uploader", "collector"}, QueueCap <- 2, FlushEvery <- 2,
    MaxRows <- 4, MaxFails <- 2

Reader == INSTANCE QuestReader WITH
    use <- q_use, table <- q_table, cursor <- q_cursor, buf <- q_buf, done <-
    q_done, sent <- q_sent, over <- q_over,
    Uses <- {"poll", "replay"}, MaxTime <- 3, MaxRows <- 3, Limit <- 2

\* Values the configuration cannot write.
OneDown == -1
Outcomes == {-1, 1}

ASSUME MCLeadsAssumption ==
    /\ IsFiniteSet(Coins)
    /\ Gate!ConstantsOK /\ Anchored!ConstantsOK /\ Replay!ConstantsOK
    /\ Bingx!ConstantsOK
    /\ Fleet!Hl!ConstantsOK
    /\ Bx!ConstantsOK /\ Feed!ConstantsOK /\ Sink!ConstantsOK /\ Reader!ConstantsOK

LeadsInit ==
    /\ focus \in {"ids", "gate", "anchor", "replay", "bingx", "fleet",
                  "trade", "feed", "sink", "reader"}
    /\ Init /\ Anchored!Init /\ Fleet!Init
    /\ \/ focus = "gate" /\ Gate!Init
       \/ focus = "replay" /\ Replay!Init
       \/ focus \notin {"gate", "replay"} /\ Bingx!Init
    /\ Bingx!NoReports
    /\ Bx!Init /\ Feed!Init /\ Sink!Init /\ Reader!Init
    /\ focus # "trade" => x_mode = "dry"
    /\ focus # "sink" => s_kind = "feed"
    /\ focus # "reader" => q_use = "poll"

LeadsNext ==
    /\ UNCHANGED focus
    /\ \/ focus = "ids" /\ Next
          /\ UNCHANGED <<lead, fills, anchor, fleet, trade, feed, sink, reader>>
       \/ focus = "gate" /\ Gate!Next
          /\ UNCHANGED <<vars, fills, anchor, fleet, trade, feed, sink, reader>>
       \/ focus = "anchor" /\ Anchored!Next
          /\ UNCHANGED <<vars, lead, fills, fleet, trade, feed, sink, reader>>
       \/ focus = "replay" /\ Replay!Next
          /\ UNCHANGED <<vars, fills, anchor, fleet, trade, feed, sink, reader>>
       \/ focus = "bingx" /\ Bingx!BNext
          /\ UNCHANGED <<vars, anchor, fleet, trade, feed, sink, reader>>
       \/ focus = "fleet" /\ Fleet!Next
          /\ UNCHANGED <<vars, lead, fills, anchor, trade, feed, sink, reader>>
       \/ focus = "trade" /\ Bx!Next
          /\ UNCHANGED <<vars, lead, fills, anchor, fleet, feed, sink, reader>>
       \/ focus = "feed" /\ Feed!Next
          /\ UNCHANGED <<vars, lead, fills, anchor, fleet, trade, sink, reader>>
       \/ focus = "sink" /\ Sink!Next
          /\ UNCHANGED <<vars, lead, fills, anchor, fleet, trade, feed, reader>>
       \/ focus = "reader" /\ Reader!Next
          /\ UNCHANGED <<vars, lead, fills, anchor, fleet, trade, feed, sink>>

LeadsSpec ==
    /\ LeadsInit
    /\ [][LeadsNext]_<<focus, vars, lead, fills, anchor, fleet, trade, feed, sink, reader>>

\* All variables keep their types.
TypesOK ==
    /\ focus = "ids" => TypeOK
    /\ focus = "gate" => Gate!TypeOK
    /\ focus = "anchor" => Anchored!TypeOK
    /\ focus = "replay" => Replay!TypeOK
    /\ focus = "bingx" => Bingx!TypeOK
    /\ focus = "fleet" => Fleet!Hl!TypeOK /\ Fleet!Mexc!TypeOK
    /\ focus = "trade" => Bx!TypeOK
    /\ focus = "feed" => Feed!TypeOK
    /\ focus = "sink" => Sink!TypeOK
    /\ focus = "reader" => Reader!TypeOK

\* No lead strategy sends two exits of a position or loses one, its tick loop, its
\* sweeper, the fill reports and another strategy racing each other; an exit precedes
\* the next entry, and a stop is followed by its cooldown.  And the BingX executor,
\* whose entries and exits race each other too, settles a position once and strands
\* one only by one of the accidents it is known to have.
ExitOnce ==
    /\ focus = "gate" =>
          Gate!ExitOnce /\ Gate!OneAfterAnother /\ Gate!StopIsRespected
    /\ focus = "replay" => Replay!ExitOnce
    /\ focus = "bingx" => Bingx!ExitOnce /\ Bingx!RefIsOwnFill
    /\ focus = "fleet" => Fleet!Disjoint
    /\ focus = "trade" => Bx!NoSilentStrand /\ Bx!SettledOnce

\* What opens a position on a live feed: the leader was elsewhere for most of the
\* window, and no tick so late that the position is over already.
OpensAndEnds ==
    /\ Anchored!AnchorIsMajority
    /\ Anchored!NoInstaTimeout

\* Quotes on their way to a strategy: a client of the subscriber is served without
\* a hole or cut off, a price is stale only when a connection lost the newer one,
\* rows reach the database in order, once, or for the collector at least once, and
\* are replayed in the order of their timestamps; nothing waits for good.
QuotesArrive ==
    /\ [](/\ focus = "feed" => Feed!NoHole /\ Feed!QuotesTrue
          /\ focus = "sink" => Sink!RowsKept
          /\ focus = "reader" => Reader!InOrder /\ Reader!OnlyTiesMissed)
    /\ (focus = "sink" /\ Sink!Fairness) => Sink!Drained
    /\ (focus = "reader" /\ Reader!Fairness) => Reader!ReplayEnds

\* The signals of a lead strategy, and of two with one generator, implement the
\* ledger; under the fairness of GateLead every exit is signalled in the end.
ImplementsLedger ==
    /\ Gate!Ledger!Spec
    /\ Fleet!Ledger!Spec
    /\ (focus = "gate" /\ Gate!Fairness) => Gate!Ledger!ExitsOwed
=============================================================================
