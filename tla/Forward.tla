--------------------------------- MODULE Forward --------------------------------
(***************************************************************************)
(* Evidence about the future: for every fitness an agent had at a time T,  *)
(* what it earned in the window after T, written once and never again.     *)
(* refresh_fitness_forward reads agents, trades, generations and scores in *)
(* separate statements while the worker closes trades on the candles'      *)
(* clock and the research process scores and replaces the generation on    *)
(* the wall clock.                                                         *)
(*                                                                         *)
(* Times are ticks of a bar; a fitness is the set of trades it was computed from. *)
(***************************************************************************)
EXTENDS Integers, FiniteSetsExt

CONSTANTS First, Second,  \* agents of a generation and of its successor
          Interval,       \* length of a bar
          Horizons,       \* HORIZONS_MINUTES
          Grid,           \* grid_minutes
          Reader,         \* processes that run refresh_analytics
          MaxClock,       \* last minute (model bound)
          MaxScores       \* research cycles that score the population (model bound)

ASSUME ForwardAssumption ==
  /\ First \cap Second = {} /\ Horizons \subseteq Nat \ {0}
  /\ {Interval, Grid} \subseteq Nat \ {0} /\ MaxClock \in Nat /\ MaxScores \in Nat

VARIABLES
  clock,     \* the wall clock
  settled,   \* close of the last bar the worker has committed
  book,      \* trades: whose, and when it closed
  deaths,    \* death_timestamp of each agent, if any
  rollover,  \* created_at of the second generation, if any
  scores,    \* FitnessScore rows: agent and as_of
  reading,   \* what each refresh has read so far
  evidence   \* fitness_forward_performance

forwardVars == <<clock, settled, book, deaths, rollover, scores, reading, evidence>>

NotReading == [step |-> "idle", existing |-> {}, deaths |-> {}, book |-> {}, rollover |-> {}]

ForwardInit ==
  /\ clock = 0 /\ settled = 0
  /\ book = {} /\ deaths = [a \in First \cup Second |-> {}]
  /\ rollover = {} /\ scores = {}
  /\ reading = [p \in Reader |-> NotReading] /\ evidence = {}

Population == IF rollover = {} THEN First ELSE Second

Active == {a \in Population : deaths[a] = {}}

-----------------------------------------------------------------------------
(* What happens meanwhile. *)

Minute == /\ clock < MaxClock
          /\ clock' = clock + 1
          /\ UNCHANGED <<settled, book, deaths, rollover, scores, reading, evidence>>

\* One bar's transaction: the trades closed on it are all dated at its close.
WorkerSettles ==
  /\ settled + Interval <= clock
  /\ settled' = settled + Interval
  /\ \E S \in SUBSET Active : \E D \in SUBSET S :
       /\ book' = book \cup {[agent |-> a, at |-> settled'] : a \in S}
       /\ deaths' = [a \in DOMAIN deaths |-> IF a \in D THEN {settled'} ELSE deaths[a]]
  /\ UNCHANGED <<clock, rollover, scores, reading, evidence>>

\* compute_and_persist_generation_fitness: one score for every agent, the dead included.
ScorePopulation ==
  /\ Cardinality({s.as_of : s \in scores}) < MaxScores
  /\ scores' = scores \cup {[agent |-> a, as_of |-> clock] : a \in Population}
  /\ UNCHANGED <<clock, settled, book, deaths, rollover, reading, evidence>>

\* retire_generation and create_generation, dated now: some positions are closed by it.
\* Assumed here: the worker has committed every bar that has closed, and none closes in
\* this instant (see README).
RollOver ==
  /\ rollover = {} /\ settled < clock /\ clock < settled + Interval
  /\ rollover' = {clock}
  /\ \E S \in SUBSET Active : book' = book \cup {[agent |-> a, at |-> clock] : a \in S}
  /\ UNCHANGED <<clock, settled, deaths, scores, reading, evidence>>

-----------------------------------------------------------------------------
(* The rows of one refresh, from what it has read. *)

TradesOf(B, a) == {t \in B : t.agent = a}

\* data_end: the last close of any trade, and the bug of taking the present for it.
DataEnd_Now(r) == clock
DataEnd(r) == IF r.book = {} THEN clock ELSE Max({t.at : t \in r.book})

RolledAt(r, a) == IF a \in First THEN r.rollover ELSE {}

\* forward_window: truncated at the earliest boundary that lies after T.
WindowEnd(r, a, T, h) ==
  Min({T + h} \cup {b \in r.deaths[a] \cup RolledAt(r, a) \cup {DataEnd(r)} : b > T})

\* forward_performance and the fitness at T: the trades on either side of T.
Row(r, a, T, h, source) ==
  [agent |-> a, as_of |-> T, horizon |-> h, source |-> source, end |-> WindowEnd(r, a, T, h),
   known |-> {t \in TradesOf(r.book, a) : t.at <= T},
   future |-> {t \in TradesOf(r.book, a) : T < t.at /\ t.at <= WindowEnd(r, a, T, h)},
   upto |-> DataEnd(r)]   \* not stored: the end of the data it was computed from

\* The grid starts at the first trade of the whole generation.
Anchor(r, a) ==
  LET peers == IF a \in First THEN First ELSE Second
  IN Min({t.at : t \in {u \in r.book : u.agent \in peers}})

\* Grid points from the first trade to the rollover or the end of the data, at which the
\* agent had traded.
GridPoints(r, a) ==
  LET boundary == Min(RolledAt(r, a) \cup {DataEnd(r)})
      steps == Max({1, (boundary - Anchor(r, a)) \div Grid})
  IN IF Anchor(r, a) >= boundary THEN {}
     ELSE {T \in {Anchor(r, a) + Grid * i : i \in 1..steps} :
             T < boundary /\ \E t \in TradesOf(r.book, a) : t.at <= T}

\* Recorded scores first: a grid point with the key of one of them is not written again.
RowsOf(r, a) ==
  LET recorded == {s.as_of : s \in {x \in scores : x.agent = a}}
  IN {Row(r, a, T, h, "recorded") : T \in recorded, h \in Horizons}
       \cup {Row(r, a, T, h, "reconstructed") : T \in GridPoints(r, a) \ recorded, h \in Horizons}

Key(row) == <<row.agent, row.as_of, row.horizon>>
Keys(rows) == {Key(row) : row \in rows}

NewRows(r) ==
  LET traded == {t.agent : t \in r.book}
  IN {row \in UNION {RowsOf(r, a) : a \in traded} : Key(row) \notin r.existing}

-----------------------------------------------------------------------------
(* refresh_fitness_forward. *)

Reads(p, from, r) ==
  /\ reading[p].step = from
  /\ reading' = [reading EXCEPT ![p] = r]
  /\ UNCHANGED <<clock, settled, book, deaths, rollover, scores, evidence>>

ReadsAgents(p) ==
  Reads(p, "idle",
        [reading[p] EXCEPT !.step = "agents", !.existing = Keys(evidence), !.deaths = deaths])
ReadsTrades(p) ==
  Reads(p, "agents", [reading[p] EXCEPT !.step = "trades", !.book = book])
ReadsGenerations(p) ==
  Reads(p, "trades", [reading[p] EXCEPT !.step = "generations", !.rollover = rollover])

\* The scores are read last.  The unique index refuses a row that exists, and then the
\* whole refresh is rolled back.
WritesEvidence(p) ==
  LET rows == NewRows(reading[p]) IN
  /\ reading[p].step = "generations"
  /\ evidence' = IF Keys(rows) \cap Keys(evidence) = {} THEN evidence \cup rows ELSE evidence
  /\ reading' = [reading EXCEPT ![p] = NotReading]
  /\ UNCHANGED <<clock, settled, book, deaths, rollover, scores>>

RefreshDies(p) ==
  /\ reading[p].step \in {"agents", "trades", "generations"}
  /\ Reads(p, reading[p].step, NotReading)

Refresh(p) == \/ ReadsAgents(p) \/ ReadsTrades(p) \/ ReadsGenerations(p)
              \/ WritesEvidence(p) \/ RefreshDies(p)

ForwardNext ==
  \/ Minute \/ WorkerSettles \/ ScorePopulation \/ RollOver
  \/ \E p \in Reader : Refresh(p)

ForwardSpec == ForwardInit /\ [][ForwardNext]_forwardVars

-----------------------------------------------------------------------------
(* Properties. *)

\* "Coverage < 1 is recorded, never extrapolated": no trade is ever found that belongs into
\* a window already written down, and none counts both before and after T or in neither.
\* (For a T before the last trade known: for a later one see README, "Seen while modelling".)
WindowsFinal ==
  \A r \in evidence : r.as_of < r.upto =>
    /\ r.future = {t \in TradesOf(book, r.agent) : r.as_of < t.at /\ t.at <= r.end}
    /\ r.source = "reconstructed" => r.known = {t \in TradesOf(book, r.agent) : t.at <= r.as_of}
==============================================================================
