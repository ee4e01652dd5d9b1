------------------------------- MODULE Fitness -------------------------------
(***************************************************************************)
(* The fitness of an agent (analytics/fitness_service.py, fitness_engine.py *)
(* and performance_metrics_*.py): what its account says, what its trades say, *)
(* and the trades that are left out because they touch the sealed holdout.    *)
(*                                                                         *)
(* One agent; the scores of its version (validation, walk-forward, regime,    *)
(* adversarial, correlation) are terms of their own, the same for each of its  *)
(* agents or read from a row, and are left out.  A component is a fraction     *)
(* <<numerator, denominator>>; the ratio of mean and deviation is not modelled. *)
(***************************************************************************)
EXTENDS Integers, Sequences, FiniteSetsExt

CONSTANTS Capital,   \* starting_balance
          Pnl,        \* net results of a trade
          Marks,      \* what an open position is worth on a bar
          SealedFrom, SealedTo,  \* the sealed holdout (oos_window_ms)
          DayLength,  \* bars of a day
          Confident,  \* MIN_TRADES_FOR_FULL_CONFIDENCE
          FinalTick     \* model bound

ASSUME FitnessAssumption ==
  /\ Capital \in Nat \ {0} /\ Pnl \subseteq Int /\ Marks \subseteq Int
  /\ FinalTick \in Nat /\ SealedFrom \in Nat /\ SealedTo \in Nat
  /\ DayLength \in Nat \ {0} /\ Confident \in Nat \ {0}

VARIABLES
  now,      \* the bar
  ledger,   \* the Agent row
  deals,    \* its Trade rows, by closed_at
  graded    \* the last PerformanceMetric and FitnessScore rows, if any

fitnessVars == <<now, ledger, deals, graded>>

FitnessInit ==
  /\ now = 0 /\ deals = <<>> /\ graded = {}
  /\ ledger = [balance |-> Capital, equity |-> Capital, peak |-> Capital, drawdown |-> <<0, 1>>,
               opened |-> -1, died |-> -1]

Holding == ledger.opened # -1
Died == ledger.died # -1

-----------------------------------------------------------------------------
(* The account. *)

Worse(p, q) == IF p[1] * q[2] < q[1] * p[2] THEN q ELSE p

\* update_equity: its own peak, its deepest fall, and death.
Marked(a, equity) ==
  LET peak == Max({a.peak, equity})
  IN [a EXCEPT !.equity = equity, !.peak = peak,
               !.drawdown = Worse(@, <<peak - equity, peak>>),
               !.died = IF equity <= 0 THEN now ELSE @]

Opens ==
  /\ ~Holding /\ ~Died
  /\ ledger' = [ledger EXCEPT !.opened = now]
  /\ UNCHANGED <<now, deals, graded>>

\* What an account cannot pay is bad debt, and stays in the trade's result.
Exits ==
  /\ Holding /\ ledger.opened < now
  /\ \E pnl \in Pnl :
       LET left == Max({0, ledger.balance + pnl}) IN
       /\ ledger' = Marked([ledger EXCEPT !.balance = left, !.opened = -1], left)
       /\ deals' = Append(deals, [opened |-> ledger.opened, closed |-> now, pnl |-> pnl])
  /\ UNCHANGED <<now, graded>>

\* A position is marked to the market; one that would take the account with it is closed.
NextTick ==
  /\ now < FinalTick /\ now' = now + 1
  /\ IF Holding THEN \E m \in Marks : ledger.balance + m > 0 /\ ledger' = Marked(ledger, ledger.balance + m)
     ELSE UNCHANGED ledger
  /\ UNCHANGED <<deals, graded>>

-----------------------------------------------------------------------------
(* The inputs (FitnessInputs). *)

Overlaps_ByOpening(d) == d.opened >= SealedFrom /\ d.opened <= SealedTo
Overlaps(d) == d.closed >= SealedFrom /\ d.opened <= SealedTo

Scored == {i \in DOMAIN deals : ~Overlaps(deals[i])}
Gross(S) == MapThenSumSet(LAMBDA i : deals[i].pnl, S)
Won == {i \in Scored : deals[i].pnl > 0}
Lost == {i \in Scored : deals[i].pnl < 0}

\* _daily_consistency: profitable days of those with a close, of two at least.
Days == {deals[i].closed \div DayLength : i \in Scored}
GoodDays == {d \in Days : Gross({i \in Scored : deals[i].closed \div DayLength = d}) > 0}

\* It lives until it dies: survival is not counted on.
Survived == IF Died THEN ledger.died ELSE now

-----------------------------------------------------------------------------
(* compute_fitness. *)

Clip(x, low, high) == Max({low, Min({x, high})})
Nothing == <<0, 1>>

Confidence == Min({Cardinality(Scored), Confident})

ReturnScore == <<Clip(ledger.equity - Capital, -Capital, Capital) * Confidence, Capital * Confident>>

\* Without trades there is no evidence either way; without a loss the ratio is at its cap.
ProfitFactor ==
  IF Lost = {} THEN IF Won = {} THEN Nothing ELSE <<1, 1>>
  ELSE LET loss == -Gross(Lost) IN <<Clip(Gross(Won) - loss, -loss, loss), loss>>
WinRate == IF Scored = {} THEN Nothing ELSE <<2 * Cardinality(Won) - Cardinality(Scored), Cardinality(Scored)>>

\* Half a percent of the starting balance a trade is full marks.
Expectancy ==
  IF Scored = {} THEN Nothing
  ELSE LET full == Cardinality(Scored) * Capital
       IN <<Clip(200 * Gross(Scored), -full, full) * Confidence, full * Confident>>

Consistency ==
  IF Cardinality(Days) < 2 THEN Nothing
  ELSE <<Cardinality(GoodDays) * Confidence, Cardinality(Days) * Confident>>

Survival == <<Min({Survived, 30 * DayLength}) * Confidence, 30 * DayLength * Confident>>

Fitness ==
  [count |-> Cardinality(Scored), return |-> ReturnScore, risk |-> {ProfitFactor, WinRate},
   expectancy |-> Expectancy, consistency |-> Consistency, survival |-> Survival,
   drawdown |-> ledger.drawdown, inactivity |-> <<Confident - Confidence, Confident>>, dead |-> Died]

\* compute_and_persist_agent_fitness, in a cycle of the research.
Grade ==
  /\ graded' = {[fitness |-> Fitness, deals |-> deals]}
  /\ UNCHANGED <<now, ledger, deals>>

FitnessNext == Opens \/ Exits \/ NextTick \/ Grade
FitnessSpec == FitnessInit /\ [][FitnessNext]_fitnessVars

-----------------------------------------------------------------------------
(* Properties. *)

Exposed(d) == \E t \in d.opened..d.closed : SealedFrom <= t /\ t <= SealedTo
Zero(q) == q[1] = 0

\* No evidence is no credit (architecture.md:219): an agent that was in the market during the
\* sealed period with every one of its trades is graded no better than one that never traded.
\* It earns nothing for its account, its results or the days it lived and pays the whole penalty
\* of the inactive (compute_fitness); its drawdown and its death may only take more off.
NoEvidenceNoCredit ==
  \A g \in graded : (\A i \in DOMAIN g.deals : Exposed(g.deals[i])) =>
    /\ Zero(g.fitness.return) /\ Zero(g.fitness.expectancy) /\ Zero(g.fitness.consistency)
    /\ Zero(g.fitness.survival) /\ \A q \in g.fitness.risk : Zero(q)
    /\ g.fitness.inactivity = <<Confident, Confident>>
    /\ g.fitness.drawdown[1] >= 0 /\ g.fitness.drawdown[2] > 0

\* What the fitness service says of itself (fitness_service.py:88): performance during the sealed
\* period never influences selection.  An agent whose whole life in the market, each trade from
\* its opening to its close, lies in that period is graded as one that never traded.
SealedUnseen ==
  ~Holding /\ deals # <<>>
  /\ (\A i \in DOMAIN deals : SealedFrom <= deals[i].opened /\ deals[i].closed <= SealedTo)
  => Zero(Fitness.drawdown) /\ ~Fitness.dead
=============================================================================
