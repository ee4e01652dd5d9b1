------------------------------ MODULE AgentLoop ------------------------------
(***************************************************************************)
(* One agent's account through the passes the worker makes over the bars:  *)
(* pending entry and exit, funding, protective exits, liquidation, death,  *)
(* settlement, and the ids its orders claim in the execution engine.       *)
(*                                                                         *)
(* A pass is ONE transaction and so one step.  The code inside it is       *)
(* written as operators from an account to the set of accounts it can      *)
(* become: prices, fills and signals are the choices.  Money is counted in *)
(* small integers.  A balance below zero marks a savepoint whose flush the *)
(* CHECK constraint ck_agents_balance_nonneg refuses.                      *)
(***************************************************************************)
EXTENDS Integers, FiniteSets

CONSTANTS MaxBar,       \* model bound: bars 1..MaxBar
          Starting,     \* starting_balance
          Fee,          \* fee of any fill
          Penalty,      \* liquidation penalty
          Move,         \* model bound: a position's price PnL is in -Move..Move
          Maintenance,  \* maintenance margin of a position
          Bankrupt,     \* bankruptcy_threshold
          MinViable,    \* agent_min_viable_equity
          ForceAfter,   \* exit_force_settle_after_attempts
          Settlements,  \* bars at whose open the exchange settles funding
          Timings,      \* subset of {"next_open", "immediate"}: engine.fill_timing
          Observed,     \* paper_entry_price_source = first_observed_after_decision
          ExitRejects,  \* the engine may refuse an exit (it is not the paper engine)
          Transient,    \* an agent's savepoint may fail for any reason
          Rollbacks     \* subset of {"decide", "protect"}: passes whose commit may fail

ASSUME LoopAssumption ==
  /\ MaxBar \in Nat \ {0} /\ Settlements \subseteq 1..MaxBar
  /\ Starting \in Nat \ {0} /\ Fee \in Nat /\ Penalty \in Nat /\ Move \in Nat
  /\ Maintenance \in Nat /\ Bankrupt \in Nat /\ MinViable \in Nat
  /\ ForceAfter \in Nat \ {0}
  /\ Timings \subseteq {"next_open", "immediate"}
  /\ {Observed, ExitRejects, Transient} \subseteq BOOLEAN
  /\ Rollbacks \subseteq {"decide", "protect"}

VARIABLES
  bar,        \* the bar being processed
  timing,     \* engine.fill_timing, fixed at start-up
  published,  \* funding settlements up to this bar are in the store
  agent,      \* the account, its open position, its pending entry, its rows on this bar
  swept       \* history: the last bar a pass over the positions committed on

vars == <<bar, timing, published, agent, swept>>

\* The Position row; opened = 0: the agent is flat.
Flat ==
  [opened |-> 0,    \* bar it was filled on
   managed |-> 0,   \* last_processed_open_time (0: NULL)
   fee |-> 0,       \* entry_fee
   funding |-> 0,   \* funding_accrued
   paidTo |-> 0,    \* last_funding_time
   exitOn |-> 0,    \* pending_exit_signal_time (0: none)
   attempts |-> 0,  \* exit_attempts
   since |-> 0,     \* history: last_funding_time at the fill
   charged |-> [t \in Settlements |-> 0]]  \* history: times each settlement was paid

Fresh ==
  [status |-> "ACTIVE", valid |-> TRUE,      \* valid: its DNA passes validation
   balance |-> Starting, realized |-> 0, debt |-> 0,
   final |-> 0,     \* final_equity, once DEAD
   position |-> Flat,
   order |-> 0,     \* signal bar of its PENDING entry order (0: none)
   decided |-> 0,   \* last bar with a Decision row
   evals |-> 0,     \* history: evaluate_bar calls on this bar
   ids |-> {},      \* client_order_ids of the committed orders of this bar
   seen |-> {},     \* the engine's _SEEN_ORDER_IDS on this bar
   open |-> {}]     \* its _uncommitted part

Init ==
  /\ bar = 1 /\ published = 0 /\ swept = 0
  /\ timing \in Timings
  /\ agent = Fresh

IsOpen(a) == a.position.opened # 0
PnL == -Move..Move
MaxOf(x, y) == IF x < y THEN y ELSE x

\* Ids are deterministic in (agent, bar, entry or exit attempt).
EntryId == 0
ExitId(a) == a.position.attempts + 1

\* submit_order: an id already seen is refused, another one is claimed.
Claimed(a, id) ==
  [a EXCEPT !.ids = @ \cup {id}, !.seen = @ \cup {id},
            !.open = IF id \in a.seen THEN @ ELSE @ \cup {id}]

\* discard_uncommitted, after a rollback to account a.
Discarded(a) == [a EXCEPT !.seen = @ \ a.open, !.open = {}]

\* commit_cycle.
Committed(a) == [a EXCEPT !.open = {}]

\* The outcomes of an agent's savepoint: those the database accepts, and a rollback.
Savepoint(a, outcomes) ==
  {x \in outcomes : x.balance >= 0}
    \cup (IF Transient \/ \E x \in outcomes : x.balance < 0 THEN {Discarded(a)} ELSE {})

-----------------------------------------------------------------------------
(* lifecycle.update_equity and mark_dead. *)

Dead(a, equity) ==
  IF a.status = "DEAD" THEN a ELSE [a EXCEPT !.status = "DEAD", !.final = equity]

Valued(a, equity) ==
  IF equity <= MaxOf(0, Bankrupt) THEN Dead(a, equity) ELSE a

-----------------------------------------------------------------------------
(* _close_position. *)

\* compute_trade_pnl: what the trade realizes, and the bug of forgetting funding.
Net_NoFunding(p, gross, exitFee) == gross - p.fee - exitFee
Net(p, gross, exitFee) == gross - p.fee - exitFee - p.funding

\* A dead agent's account is frozen again after the exit was booked.
Frozen(a) == IF a.status = "DEAD" THEN [a EXCEPT !.final = a.balance] ELSE a

\* settle_close: the shortfall is recorded as bad debt.
Settled(a, kind, gross) ==
  LET exitFee == Fee + (IF kind = "liquidation" THEN Penalty ELSE 0)
      raw == a.balance + gross - exitFee
      closed == [a EXCEPT !.position = Flat, !.balance = MaxOf(raw, 0),
                          !.debt = @ + MaxOf(raw, 0) - raw,
                          !.realized = @ + Net(a.position, gross, exitFee)]
      valued == Valued(closed, closed.balance)
  IN Frozen(IF kind = "liquidation" THEN Dead(valued, closed.balance) ELSE valued)

\* exit_attempts has reached the limit, and an off-by-one in it.
GivesUp(p) == p.attempts >= ForceAfter

\* The order is filled or refused; the ForceAfter-th refusal is settled at the
\* modelled price.
Close(a, kind) ==
  LET tried == [Claimed(a, ExitId(a)) EXCEPT !.decided = bar]
      refused == [tried EXCEPT !.position.attempts = @ + 1]
      duplicate == ExitId(a) \in a.seen
      fills == {Settled(tried, kind, g) : g \in PnL}
      refusals == IF GivesUp(refused.position) THEN {Settled(refused, kind, g) : g \in PnL}
                  ELSE {refused}
  IN (IF duplicate THEN {} ELSE fills) \cup (IF duplicate \/ ExitRejects THEN refusals ELSE {})

-----------------------------------------------------------------------------
(* _accrue_funding and _manage_open_position. *)

\* Settlements in (last one paid, this bar's close], and an off-by-one in it.
Due_Inclusive(p) == {t \in Settlements : p.paidTo <= t /\ t <= bar /\ t <= published}
Due(p) == {t \in Settlements : p.paidTo < t /\ t <= bar /\ t <= published}

\* The balance does not cover what is due: were it charged, the database would refuse it.
Unpayable(a) == IsOpen(a) /\ a.balance < Cardinality(Due(a.position))

\* The rate's sign decides who pays.
Accrued(a) ==
  LET due == Due(a.position)
      paidTo == IF due = {} THEN a.position.paidTo
                ELSE CHOOSE t \in due : \A u \in due : u <= t
  IN {[a EXCEPT !.balance = @ - rate * Cardinality(due),
                !.position.funding = @ + rate * Cardinality(due),
                !.position.paidTo = paidTo,
                !.position.charged = [t \in Settlements |-> @[t] + (IF t \in due THEN 1 ELSE 0)]]
       : rate \in {-1, 1}}

\* evaluate_bar: a stop, target or trailing level, the liquidation price or nothing;
\* then the mark at the close, liquidated below the maintenance margin.
Evaluated(a) ==
  Close(a, "level") \cup Close(a, "liquidation")
    \cup {Valued(a, a.balance + u) : u \in {v \in PnL : a.balance + v > Maintenance}}

\* A bar is never evaluated twice.
AlreadyManaged_Forgets(p) == FALSE
AlreadyManaged(p) == p.managed >= bar

Managed(a) ==
  IF AlreadyManaged(a.position) THEN {a}
  ELSE UNION {IF x.balance < 0 THEN {x}
              ELSE Evaluated([x EXCEPT !.position.managed = bar, !.evals = @ + 1])
              : x \in Accrued(a)}

-----------------------------------------------------------------------------
(* protect_open_positions. *)

\* _protect_one: an owner that is not ACTIVE loses the position at the close.
Protected(a) ==
  UNION {IF x.balance < 0 \/ ~IsOpen(x) \/ x.status = "ACTIVE" THEN {x}
         ELSE Close(x, IF x.status = "DEAD" THEN "liquidation" ELSE "market")
         : x \in Managed(a)}

Sweep(a) ==
  IF IsOpen(a) /\ a.position.managed < bar THEN Savepoint(a, Protected(a)) ELSE {a}

-----------------------------------------------------------------------------
(* _process_agent. *)

\* A fill clears the order.
Filled(a) == [a EXCEPT !.order = 0]

\* _fill_entry: filled, or refused.  `immediate': at this bar's close, so managed from
\* the next bar on; else at its open, settlement at the open included.
FillEntry(a, immediate) ==
  LET tried == Filled(Claimed(a, EntryId))
      opened == [tried EXCEPT !.balance = @ - Fee,
                   !.position = [Flat EXCEPT !.opened = bar, !.fee = Fee,
                                   !.managed = IF immediate THEN bar ELSE 0,
                                   !.paidTo = IF immediate THEN bar ELSE bar - 1,
                                   !.since = IF immediate THEN bar ELSE bar - 1]]
  IN {[tried EXCEPT !.order = 0, !.decided = bar]}
       \cup (IF a.balance > Fee /\ EntryId \notin a.seen
             THEN {Valued(opened, opened.balance)} ELSE {})

\* _execute_pending_entry: only on the bar after the signal.
Expired_Never(a) == FALSE
Expired(a) == a.order # bar - 1

PendingEntry(a, halted) ==
  LET cancelled == [a EXCEPT !.order = 0] IN
  IF Expired(a) \/ halted \/ a.status # "ACTIVE" THEN {cancelled}
  ELSE IF Observed THEN {cancelled} \cup FillEntry(a, TRUE) \cup FillEntry(a, FALSE)
  ELSE FillEntry(a, FALSE)

\* _execute_next_open_decisions: what the previous close decided, or is stale.
Executed(a, halted) ==
  IF IsOpen(a) /\ a.position.exitOn # 0
  THEN LET cleared == [a EXCEPT !.position.exitOn = 0] IN
       IF a.position.exitOn = bar - 1 THEN Close(cleared, "market") ELSE {cleared}
  ELSE IF ~IsOpen(a) /\ a.order # 0 THEN PendingEntry(a, halted)
  ELSE {a}

\* The strategy's signal: nothing, a refusal that is audited, an exit or an entry.
Signalled(a, halted) ==
  LET audited == [a EXCEPT !.decided = bar]
      ordered == [audited EXCEPT !.order = bar]
      exits == IF timing = "next_open" THEN {[audited EXCEPT !.position.exitOn = bar]}
               ELSE Close(a, "market")
      entries == IF halted \/ a.balance <= Fee THEN {}
                 ELSE IF timing = "next_open" THEN {ordered} ELSE FillEntry(ordered, TRUE)
  IN {a} \cup (IF IsOpen(a) THEN exits ELSE {audited} \cup entries)

AfterManaged(a, halted) ==
  IF a.balance < 0 \/ ~IsOpen(a) THEN {a}
  ELSE IF a.status = "DEAD" THEN Close(a, "liquidation")
  ELSE Signalled(a, halted)

\* Flat, nothing pending and too poor for any order.
Untradeable(a) ==
  IF a.status = "ACTIVE" /\ ~IsOpen(a) /\ a.balance < MinViable
  THEN Dead(a, a.balance) ELSE a

Processed(a, halted) ==
  {Untradeable(z) : z \in
     UNION {IF IsOpen(x) THEN UNION {AfterManaged(y, halted) : y \in Managed(x)}
            ELSE Signalled(x, halted)
            : x \in Executed(a, halted)}}

\* The query of run_decision_cycle: ACTIVE agents without a Decision row on the bar.
Selected(a) == a.status = "ACTIVE" /\ a.decided # bar

\* The loop of run_decision_cycle.
\* With invalid DNA a flat agent is parked; one in a position is left to the sweep.
Looped(a, halted) ==
  IF ~Selected(a) THEN {a}
  ELSE IF a.valid THEN Savepoint(a, Processed(a, halted))
  ELSE IF IsOpen(a) THEN {a} ELSE {[a EXCEPT !.status = "PAUSED"]}

\* _cancel_stale_pending.
Cancelled(a) == [a EXCEPT !.order = IF @ < bar - 1 THEN 0 ELSE @]

-----------------------------------------------------------------------------
(* The passes and their environment. *)

\* run_decision_cycle; halted: a kill switch, a data gap or a catch-up bar.
Decide ==
  /\ \E halted \in BOOLEAN :
       \E x \in UNION {Sweep(y) : y \in Looped(agent, halted)} : agent' = Committed(Cancelled(x))
  /\ swept' = bar
  /\ UNCHANGED <<bar, timing, published>>

\* Its fenced commit fails: the ids it claimed are released.
DecideRolledBack ==
  /\ "decide" \in Rollbacks
  /\ agent' = Discarded(agent)
  /\ UNCHANGED <<bar, timing, published, swept>>

\* protect_bar.
Protect ==
  /\ \E x \in Sweep(agent) : agent' = Committed(x)
  /\ swept' = bar
  /\ UNCHANGED <<bar, timing, published>>

\* Its commit fails: rolled back, and the ids stay claimed.
ProtectRolledBack ==
  /\ "protect" \in Rollbacks
  /\ \E x \in Sweep(agent) : agent' = [agent EXCEPT !.seen = x.seen, !.open = x.open]
  /\ UNCHANGED <<bar, timing, published, swept>>

\* Ids of a bar's orders are never used on another.
OnNewBar(a) == [a EXCEPT !.evals = 0, !.ids = {}, !.seen = {}, !.open = {}]

\* The next bar is taken up, whatever became of this one.
NextBar ==
  /\ bar < MaxBar
  /\ bar' = bar + 1
  /\ agent' = OnNewBar(agent)
  /\ UNCHANGED <<timing, published, swept>>

\* sync_funding_history stores what the exchange has published, in order, maybe late.
Publish ==
  /\ published < bar
  /\ published' = published + 1
  /\ UNCHANGED <<bar, timing, agent, swept>>

\* A new process: the engine's memory is empty.
Restart ==
  /\ agent' = [agent EXCEPT !.seen = {}, !.open = {}]
  /\ UNCHANGED <<bar, timing, published, swept>>

\* A release tightens the DNA schema.
Invalidate ==
  /\ Transient
  /\ agent' = [agent EXCEPT !.valid = FALSE]
  /\ UNCHANGED <<bar, timing, published, swept>>

Next ==
  \/ Decide \/ DecideRolledBack \/ Protect \/ ProtectRolledBack
  \/ NextBar \/ Publish \/ Restart \/ Invalidate

Spec == Init /\ [][Next]_vars

-----------------------------------------------------------------------------
(* Properties. *)

\* accounting.reconcile: after every pass, balance = starting + realized + bad debt,
\* less what the open position has already paid.
BooksReconcile ==
  agent.balance = Starting + agent.realized + agent.debt
                    - agent.position.fee - agent.position.funding

\* Across retries, protective replays and savepoint failures no bar's levels are
\* evaluated twice.
EvaluatedOnce == agent.evals <= 1

\* The open position has paid each settlement since its fill up to the last one it
\* paid, exactly once: none twice on a retry, none lost on a bar without a decision
\* or when the exchange published late.
FundingExact ==
  LET p == agent.position IN
  IsOpen(agent) =>
    \A t \in Settlements : p.charged[t] = IF p.since < t /\ t <= p.paidTo THEN 1 ELSE 0

\* A pending entry fills on the bar after its signal or never.
NeverFilledLate ==
  [][~IsOpen(agent) /\ IsOpen(agent') /\ timing = "next_open" => agent.order = bar - 1]_agent

\* decision_loop.py: an open position ALWAYS gets protective processing on every
\* confirmed bar a pass committed on.
AlwaysProtected ==
  IsOpen(agent) /\ agent.position.opened <= swept => agent.position.managed >= swept
==============================================================================
