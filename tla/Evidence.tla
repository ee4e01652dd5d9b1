------------------------------ MODULE Evidence ------------------------------
(***************************************************************************)
(* The evidence one strategy version is promoted on: what a research cycle   *)
(* writes about it (research/pipeline.py steps 1 to 4b, stage_metrics_service, *)
(* regime_validation_engine, adversarial), and the pipeline and the gate that *)
(* read the latest row of each kind (champion_challenger_service, champion,   *)
(* promotion_service).                                                      *)
(*                                                                         *)
(* Rows outlive the cycle that wrote them: a cycle may not get to a row, a    *)
(* candidate of an earlier generation is judged on the rows it has.  Crashes  *)
(* within a cycle and the other versions are ResearchCycle's.                *)
(***************************************************************************)
EXTENDS Integers, FiniteSets, Functions

CONSTANTS Regimes,       \* the regimes a backtest enters trades in
          Share,         \* regime_validation_specialist_min_pnl_share, per cent
          Positive,      \* regime_validation_robust_min_positive_regimes_pct, per cent
          MinTrades,     \* champion_min_trade_count, ...paper_trade_count, reality_gap_min_trades
          MinDays,       \* reality_gap_min_observation_days
          MinStageDays, MinObserved,   \* champion_min_stage_days, ...observation_days
          Untagged         \* numbers of trades from before Trade.stage existed

ASSUME EvidenceAssumption ==
  /\ MinTrades \in Nat \ {0} /\ MinDays \in Nat \ {0}
  /\ MinStageDays \in Nat /\ MinObserved \in Nat \ {0} /\ Untagged \subseteq Nat
  /\ Share \in 1..100 /\ Positive \in 1..100

VARIABLES
  staged,     \* Trade rows of its agents with stage PAPER
  untagged,   \* and without a stage
  age,        \* days since stage_entered_at
  lived,      \* agent-days of its agents
  enlisted,   \* an agent of the current generation trades it
  phase,      \* where the cycle is: idle, evaluated, stressed
  backtest, paper, holdout,  \* latest StageMetrics per stage
  suite,      \* latest AdversarialTestReport
  regime,     \* latest RegimeValidationReport
  review,     \* latest ChallengerEvaluation: stage and days in observation
  hardened    \* history: a suite was passed

evidenceVars == <<staged, untagged, age, lived, enlisted, phase, backtest, paper, holdout,
                  suite, regime, review, hardened>>
trading == <<staged, untagged, age, lived, enlisted>>
rows == <<backtest, paper, holdout, suite, regime, hardened>>

Absent == "absent"

EvidenceInit ==
  /\ staged = 0 /\ untagged \in Untagged /\ age = 0 /\ lived = 0
  /\ enlisted = TRUE /\ phase = "idle"
  /\ backtest = {} /\ paper = {} /\ holdout = Absent
  /\ suite = {} /\ regime = Absent /\ hardened = FALSE
  /\ review = [stage |-> Absent, observed |-> 0]

Capped(n, most) == IF n < most THEN n + 1 ELSE most

-----------------------------------------------------------------------------
(* The population. *)

\* A trade of the loop is tagged SHADOW on the shadow venue, and counts nowhere here; one a
\* rollover settles is tagged with the version's stage, PAPER, on either.
TradeCounted ==
  /\ enlisted /\ staged < MinTrades /\ staged' = staged + 1
  /\ UNCHANGED <<untagged, age, lived, enlisted, phase, rows, review>>

DayPasses ==
  /\ \/ age < MinStageDays
     \/ enlisted /\ lived < MinDays
     \/ review.stage = "observation" /\ review.observed < MinObserved
  /\ age' = Capped(age, MinStageDays)
  /\ lived' = IF enlisted THEN Capped(lived, MinDays) ELSE lived
  /\ review' = IF review.stage = "observation" THEN [review EXCEPT !.observed = Capped(@, MinObserved)] ELSE review
  /\ UNCHANGED <<staged, untagged, enlisted, phase, rows>>

\* A version is carried as an elite, or not; a rejected one never.
NewGeneration ==
  /\ phase = "idle" /\ enlisted' \in BOOLEAN
  /\ enlisted' => review.stage # "rejected"
  /\ UNCHANGED <<staged, untagged, age, lived, phase, rows, review>>

-----------------------------------------------------------------------------
(* Step 1: the in-sample evaluation. *)

\* Of a regime: the result of its trades, if there are enough of them.
Tested(r) == {m \in Regimes : r[m].enough}
Gain(r, S) == SumFunctionOnSet([m \in Regimes |-> r[m].pnl], S)
Winning(r) == {m \in Tested(r) : r[m].pnl > 0}
Losing(r) == {m \in Tested(r) : r[m].pnl < 0}

\* The two best regimes, and what they contribute to the total.
TopShare(r) ==
  LET best == CHOOSE p \in Tested(r) \X Tested(r) :
                /\ p[1] # p[2]
                /\ \A m \in Tested(r) \ {p[1], p[2]} : r[m].pnl <= r[p[1]].pnl /\ r[m].pnl <= r[p[2]].pnl
  IN Gain([m \in Regimes |-> [r[m] EXCEPT !.pnl = IF @ > 0 THEN @ ELSE 0]], {best[1], best[2]})

Classified(r) ==
  LET n == Cardinality(Tested(r))
      total == Gain(r, Tested(r))
      losing == Cardinality(Losing(r))
  IN IF n < 2 THEN "UNSTABLE"
     ELSE IF total > 0 /\ 100 * Cardinality(Winning(r)) >= Positive * n THEN "ROBUST"
     ELSE IF total > 0 /\ 100 * TopShare(r) >= Share * total /\ 2 * losing < n THEN "REGIME_SPECIALIST"
     ELSE IF Winning(r) # {} /\ 2 * losing >= n THEN "FRAGILE"
     ELSE "UNSTABLE"

Breakdowns == [Regimes -> [enough : BOOLEAN, pnl : -1..2]]
\* regime_penalty_classes; no class is blocked.
Classes == {IF Classified(r) \in {"FRAGILE", "UNSTABLE"} THEN "penalised" ELSE "accepted" : r \in Breakdowns}

\* The TRAIN slice; with too few candles nothing is written, and the last rows stay.
InSample ==
  /\ phase = "idle" /\ phase' = "evaluated"
  /\ \/ /\ enlisted
        /\ \E t \in {0, MinTrades}, d \in {0, MinDays} : backtest' = {[trades |-> t, days |-> d]}
        /\ regime' \in Classes
     \/ UNCHANGED <<backtest, regime>>
  /\ UNCHANGED <<trading, paper, holdout, suite, hardened, review>>

-----------------------------------------------------------------------------
(* Step 3: the adversarial suite, for the top of the ranking. *)

\* Worst drawdown and worst return against their limits, in quarters, the spread of the
\* variants against its normaliser, whether a scenario raised, whether one traded.
Outcomes == [drawdown : 0..5, loss : 0..5, spread : 0..4, raised : BOOLEAN, traded : BOOLEAN]

Passed(o) == o.drawdown <= 4 /\ o.loss <= 4 /\ ~o.raised /\ o.traded

\* compute_robustness_score, in twelfths: it does not know of errors.
Room(x) == IF x < 4 THEN 4 - x ELSE 0
Robustness(o) == IF o.traded THEN Room(o.drawdown) + Room(o.loss) + Room(o.spread) ELSE 0
MinRobust == 6

Suites == {[passed |-> Passed(o), robust |-> Robustness(o) >= MinRobust] : o \in Outcomes}

Stressed ==
  /\ phase = "evaluated" /\ phase' = "stressed"
  /\ \/ /\ enlisted /\ \E s \in Suites : suite' = {s} /\ hardened' = (hardened \/ s.passed)
     \/ UNCHANGED <<suite, hardened>>
  /\ UNCHANGED <<trading, backtest, paper, holdout, regime, review>>

-----------------------------------------------------------------------------
(* Step 4: the live rows, the gate and the pipeline. *)

\* compute_live_stage_metrics: the trades of the stage; only if there is none, the untagged.
Counted_Blended == staged + untagged
Counted == IF staged > 0 THEN staged ELSE untagged

\* Drawdown and profit factor come with the trades.
PaperRow(sound) == [trades |-> Counted, days |-> lived, sound |-> sound]

Reliable(row) == row.days >= MinDays /\ row.trades >= MinTrades
\* comparability, of two rows.
Comparable_OneSided(a, b) == Reliable(a)
Comparable(a, b) == Reliable(a) /\ Reliable(b)

\* evaluate_promotion with the track record of evaluate_and_promote: every one of these, or
\* the reason is recorded and the version rejected.  e: what these rows do not tell, the margin
\* over the champion, walk-forward consistency, correlation and the measured reality gap.
Passes(b, p, h, s, c, e) ==
  /\ \E row \in p :
       /\ row.trades >= MinTrades /\ row.sound
       /\ \E base \in b : Comparable(base, row)
  /\ \E report \in s : report.robust
  /\ c # Absent
  /\ h \in IF c = "penalised" THEN {"clear"} ELSE {"clear", "enough"}
  /\ age >= MinStageDays
  /\ e

\* advance_pipeline_stage, once.
Advanced(r, b, p, h, s, c, e) ==
  CASE r.stage \in {Absent, "candidate"} -> [r EXCEPT !.stage = IF b = {} THEN "candidate" ELSE "validation"]
    [] r.stage = "validation" /\ (\E report \in s : report.passed) -> [r EXCEPT !.stage = "challenger"]
    [] r.stage = "challenger" -> [stage |-> "observation", observed |-> 0]
    [] r.stage = "observation" /\ r.observed >= MinObserved -> [r EXCEPT !.stage = "champion_comparison"]
    [] r.stage = "champion_comparison" -> [r EXCEPT !.stage = IF Passes(b, p, h, s, c, e) THEN "promoted" ELSE "rejected"]
    [] OTHER -> r

\* As far as the evidence allows in this cycle.
Advances(p, h, e) ==
  LET at[n \in 0..6] == IF n = 0 THEN review ELSE Advanced(at[n - 1], backtest, p, h, suite, regime, e)
  IN at[6]

\* The holdout is evaluated once; then the walk reads the new rows with the old.
Nominated ==
  /\ phase = "stressed" /\ phase' = "idle" /\ enlisted
  /\ \E e \in BOOLEAN, sound \in BOOLEAN, h \in {Absent, "poor", "enough", "clear"} :
       /\ holdout # Absent => h = holdout
       /\ holdout' = h
       /\ paper' = {PaperRow(sound)}
       /\ review' = Advances(paper', holdout', e)
  /\ UNCHANGED <<trading, backtest, suite, regime, hardened>>

\* Step 4b: not nominated.  A version with a review is walked on the rows it has, unless the
\* cycle ends before.
Revisited ==
  /\ phase = "stressed" /\ phase' = "idle"
  /\ \E e \in BOOLEAN :
       review' \in {review} \cup {w \in {Advances(paper, holdout, e)} : review.stage # Absent}
  /\ UNCHANGED <<trading, rows>>

EvidenceNext ==
  \/ TradeCounted \/ DayPasses \/ NewGeneration
  \/ InSample \/ Stressed \/ Nominated \/ Revisited

EvidenceSpec == EvidenceInit /\ [][EvidenceNext]_evidenceVars

-----------------------------------------------------------------------------
\* Whatever the age of the rows the gate read, a promoted version traded enough in one stage
\* (never two counted together) and long enough to be measured, kept its stage and its
\* observation, passed a suite once, and met its holdout: evaluate_promotion's "a None input is
\* MISSING EVIDENCE and blocks promotion", with advance_pipeline_stage and comparability.
PromotionEarned ==
  review.stage = "promoted" =>
    /\ staged >= MinTrades \/ untagged >= MinTrades
    /\ lived >= MinDays /\ age >= MinStageDays
    /\ review.observed >= MinObserved
    /\ hardened
    /\ holdout \in {"enough", "clear"}

=============================================================================
