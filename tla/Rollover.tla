------------------------------- MODULE Rollover -------------------------------
(***************************************************************************)
(* The research process retires a generation while the worker trades it:  *)
(* two connections to PostgreSQL, each transaction at READ COMMITTED.      *)
(*                                                                         *)
(* One agent of the old generation is followed; what a worker pass makes   *)
(* of its account is AgentLoop's, applied to the rows the pass has READ.   *)
(* Each SELECT is a step of its own and sees the rows committed by then.   *)
(* A transaction's UPDATEs take effect at its commit (row locks only order *)
(* the commits) and set the columns that differ from what it read.  The    *)
(* rows nobody else writes (trades, decisions, the next generation's       *)
(* agents) are left out.                                                   *)
(***************************************************************************)
EXTENDS Integers, FiniteSets

CONSTANTS MaxBar, Starting, Fee, Penalty, Move, Maintenance, Bankrupt, MinViable,
          ForceAfter, Settlements, Observed, ExitRejects, \* AgentLoop's
          MaxFaults   \* crashes, failed transactions, undecided bars (model bound)

ASSUME RolloverAssumption ==
  /\ MaxFaults \in Nat
  /\ MaxBar \in Nat \ {0} /\ Settlements \subseteq 1..MaxBar
  /\ Starting \in Nat \ {0} /\ Fee \in Nat /\ Penalty \in Nat /\ Move \in Nat
  /\ Maintenance \in Nat /\ Bankrupt \in Nat /\ MinViable \in Nat
  /\ ForceAfter \in Nat \ {0} /\ Observed \in BOOLEAN /\ ExitRejects \in BOOLEAN

VARIABLES
  bar, agent,  \* AgentLoop's: the committed rows
  swept,       \* the last bar decided on
  generation,  \* number of the latest Generation row; the agent's is 1
  worker,      \* the pass in progress: what it has read and what it will write
  research,    \* the same of the transaction that retires generation 1
  after,       \* history: [bars decided on since, by passes that began after the retirement;
               \* stuck: those of them at whose end the position's funding was not paid]
  raced,       \* history: a pass and the retirement overlapped, and both committed
  faults

vars == <<bar, agent, swept, generation, worker, research, after, raced, faults>>

\* AgentLoop, with the lemmas about it: the paper engine's timing; funding published in time;
\* no savepoint fails but for a balance below zero.
L == INSTANCE AgentLoopProofs WITH timing <- "next_open", Timings <- {"next_open"}, published <- bar,
                             Transient <- FALSE, Rollbacks <- {}

Idle == [step |-> "idle", pass |-> "decide", generation |-> 1, read |-> L!Fresh, written |-> L!Fresh]
NotRetiring == [step |-> "idle", read |-> L!Fresh, written |-> L!Fresh]

Init ==
  /\ bar = 1 /\ agent = L!Fresh /\ swept = 0
  /\ generation = 1
  /\ worker = Idle
  /\ research = NotRetiring
  /\ after = [bars |-> 0, stuck |-> 0]
  /\ raced = FALSE
  /\ faults = 0

-----------------------------------------------------------------------------
(* What a transaction writes over the rows committed since it read them. *)

\* A column is in the UPDATE when its value changed, and the bug of writing them all.
Column_All(row, read, written) == written
Column(row, read, written) == IF written = read THEN row ELSE written

\* A position is inserted, or updated by primary key; a closed one stays closed.
PositionRow(row, read, written) ==
  IF written.opened \notin {0, read.opened} THEN written
  ELSE IF written = read \/ row.opened # read.opened THEN row
  ELSE written

Merged(row, read, written) ==
  [[f \in DOMAIN row |-> Column(row[f], read[f], written[f])] EXCEPT
     !.position = PositionRow(row.position, read.position, written.position)]

-----------------------------------------------------------------------------
(* The worker's passes: run_decision_cycle and protect_bar. *)

Account(row, a) == [a EXCEPT !.position = row.position, !.order = row.order]

\* The latest generation's number is read first.  A bar is decided on again only if the
\* worker failed before it could mark it COMPLETED.
WorkerBegins ==
  /\ worker.step = "idle"
  /\ \/ swept < bar /\ UNCHANGED faults
     \/ swept = bar /\ faults < MaxFaults /\ faults' = faults + 1
  /\ worker' = [Idle EXCEPT !.step = "agents", !.generation = generation]
  /\ UNCHANGED <<bar, agent, swept, generation, after, research, raced>>

\* A bar that could not be decided on is only protected.
WorkerProtects ==
  /\ worker.step = "idle"
  /\ faults < MaxFaults
  /\ faults' = faults + 1
  /\ worker' = [Idle EXCEPT !.step = "positions", !.pass = "protect"]
  /\ UNCHANGED <<bar, agent, swept, generation, after, research, raced>>

\* SELECT the ACTIVE agents of that generation.
ReadsAgents ==
  /\ worker.step = "agents"
  /\ worker' = IF worker.generation = 1 /\ L!Selected(agent)
               THEN [worker EXCEPT !.step = "book", !.read = Account(L!Fresh, agent)]
               ELSE [worker EXCEPT !.step = "positions"]
  /\ UNCHANGED <<bar, agent, swept, generation, after, research, raced, faults>>

\* SELECT their open positions and pending orders, and run the agent on what was read.
ReadsBook ==
  /\ worker.step = "book"
  /\ LET read == Account(agent, worker.read) IN
     \E halted \in BOOLEAN :
       \E written \in UNION {L!Sweep(x) : x \in L!Looped(read, halted)} :
         worker' = [worker EXCEPT !.step = "commit", !.read = read, !.written = written]
  /\ UNCHANGED <<bar, agent, swept, generation, after, research, raced, faults>>

\* The sweep takes the open positions of any owner, and the bug of keeping to those of
\* the current generation.
Sweeps_OwnGeneration(a) == L!IsOpen(a) /\ a.position.managed < bar /\ worker.generation = generation
                             /\ generation = 1
Sweeps(a) == L!IsOpen(a) /\ a.position.managed < bar

\* protect_open_positions: SELECT the positions not managed on this bar ...
ReadsPositions ==
  /\ worker.step = "positions"
  /\ worker' = IF Sweeps(agent)
               THEN [worker EXCEPT !.step = "owner", !.read = Account(agent, L!Fresh)]
               ELSE [worker EXCEPT !.step = "commit"]
  /\ UNCHANGED <<bar, agent, swept, generation, after, research, raced, faults>>

\* ... then their owners.
ReadsOwner ==
  /\ worker.step = "owner"
  /\ LET read == Account(worker.read, agent) IN
     \E written \in L!Sweep(read) :
       worker' = [worker EXCEPT !.step = "commit", !.read = read, !.written = written]
  /\ UNCHANGED <<bar, agent, swept, generation, after, research, raced, faults>>

\* The commit; _cancel_stale_pending is one conditional UPDATE before it.
WorkerCommits ==
  /\ worker.step = "commit"
  /\ LET row == Merged(agent, worker.read, worker.written)
     IN agent' = L!Committed(IF worker.pass = "decide" THEN L!Cancelled(row) ELSE row)
  /\ swept' = IF worker.pass = "decide" THEN bar ELSE swept
  /\ worker' = Idle
  /\ raced' = (raced \/ research.step \in {"positions", "orders", "commit"})
  /\ after' = IF worker.pass = "decide" /\ worker.generation = 2 /\ swept < bar
              THEN [bars |-> after.bars + 1, stuck |-> after.stuck + (IF L!Unpayable(agent) THEN 1 ELSE 0)]
              ELSE after
  /\ UNCHANGED <<bar, generation, research, faults>>

\* The process dies, or is fenced off and ends: nothing of the pass is left.
WorkerDies ==
  /\ worker.step # "idle"
  /\ faults < MaxFaults
  /\ faults' = faults + 1
  /\ worker' = Idle
  /\ agent' = [agent EXCEPT !.seen = {}, !.open = {}]
  /\ UNCHANGED <<bar, swept, generation, after, research, raced>>

NextBar ==
  /\ worker.step = "idle"
  /\ bar < MaxBar
  /\ bar' = bar + 1
  /\ agent' = L!OnNewBar(agent)
  /\ UNCHANGED <<swept, generation, after, worker, research, raced, faults>>

-----------------------------------------------------------------------------
(* The research process: _run and retire_generation. *)

\* _run loads every agent of the generation and keeps them for the whole cycle.
ResearchLoads ==
  /\ research.step = "idle"
  /\ generation = 1
  /\ research' = [NotRetiring EXCEPT !.step = "agents", !.read = Account(L!Fresh, agent)]
  /\ UNCHANGED <<bar, agent, swept, generation, after, worker, raced, faults>>

\* populate_existing, and the bug of taking the session's older copy.
AgentsRead_IdentityMap(kept, row) == kept
AgentsRead(kept, row) == Account(L!Fresh, row)

ResearchReadsAgents ==
  /\ research.step = "agents"
  /\ research' = [research EXCEPT !.step = "positions", !.read = AgentsRead(research.read, agent)]
  /\ raced' = FALSE
  /\ UNCHANGED <<bar, agent, swept, generation, after, worker, faults>>

ResearchReadsPositions ==
  /\ research.step = "positions"
  /\ research' = [research EXCEPT !.step = "orders", !.read.position = agent.position]
  /\ UNCHANGED <<bar, agent, swept, generation, after, worker, raced, faults>>

\* accounting.settle_close: the balance after a close.
Floored(raw) == L!MaxOf(raw, 0)

\* An open position is closed at the mark, whoever owns it; an ACTIVE agent is retired.
Settled(a, gross) ==
  LET raw == a.balance + gross - Fee
      closed == [a EXCEPT !.position = L!Flat, !.balance = Floored(raw),
                          !.debt = @ + Floored(raw) - raw,
                          !.realized = @ + L!Net(a.position, gross, Fee)]
  IN L!Frozen(closed)

Retired(a) ==
  LET settled == IF L!IsOpen(a) THEN {Settled(a, g) : g \in L!PnL} ELSE {a}
  IN {IF x.status = "ACTIVE" THEN [x EXCEPT !.status = "RETIRED", !.final = x.balance] ELSE x
      : x \in settled}

\* UPDATE the pending orders to CANCELLED by condition, then the flush.
ResearchCancelsOrders ==
  /\ research.step = "orders"
  /\ LET read == [research.read EXCEPT !.order = agent.order] IN
     \E written \in Retired([read EXCEPT !.order = 0]) :
       research' = [step |-> "commit", read |-> read, written |-> written]
  /\ UNCHANGED <<bar, agent, swept, generation, after, worker, raced, faults>>

\* One commit with create_generation.
ResearchCommits ==
  /\ research.step = "commit"
  /\ agent' = Merged(agent, research.read, research.written)
  /\ generation' = 2
  /\ research' = NotRetiring
  /\ raced' = (raced \/ worker.step # "idle")
  /\ UNCHANGED <<bar, swept, worker, after, faults>>

\* The cycle fails anywhere: rolled back, another one may follow.
ResearchFails ==
  /\ research.step # "idle"
  /\ faults < MaxFaults
  /\ faults' = faults + 1
  /\ research' = NotRetiring
  /\ UNCHANGED <<bar, agent, swept, generation, after, worker, raced>>

Trade ==
  \/ WorkerBegins \/ ReadsAgents \/ ReadsBook \/ ReadsPositions \/ ReadsOwner \/ WorkerCommits

Next ==
  \/ Trade \/ WorkerProtects \/ WorkerDies \/ NextBar
  \/ ResearchLoads \/ ResearchReadsAgents \/ ResearchReadsPositions
  \/ ResearchCancelsOrders \/ ResearchCommits \/ ResearchFails

Spec == Init /\ [][Next]_vars

-----------------------------------------------------------------------------
(* Properties. *)

\* A rollover that no pass of the worker overlapped leaves nothing behind, for good: no
\* ACTIVE agent, no position, no pending order, books that reconcile and the final
\* equity at the balance; however much the worker traded since the research cycle
\* first loaded the agent.
CleanRollover ==
  generation = 2 /\ ~raced =>
    /\ agent.status # "ACTIVE" /\ ~L!IsOpen(agent) /\ agent.order = 0
    /\ agent.balance = Starting + agent.realized + agent.debt
    /\ agent.final = agent.balance

\* No overlap, crash or retry ever makes an agent ACTIVE again.
NeverRevived == [][agent.status # "ACTIVE" => agent'.status # "ACTIVE"]_agent

\* Whatever a racing pass leaves behind a retired generation is gone with the decisions of
\* the following bars: a pending entry with the second, a position when its exit was
\* refused ForceAfter times at the latest (the first bar may have been protected before),
\* not counting the bars on which its funding could not be paid.
LeftoversGo ==
  generation = 2 =>
    /\ after.bars > ForceAfter + after.stuck => ~L!IsOpen(agent)
    /\ after.bars >= 2 => agent.order = 0
==============================================================================
