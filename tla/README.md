# A verification project for the paper-trading lab

TLA+ modules beside the Python program under `src/`: a set of strategy *agents*
trades paper money on confirmed candles (the **worker** process), while a
**research** process breeds, tests and replaces whole generations of them. The
two share one PostgreSQL database. The modules model what is hard to test there:
leases and fencing, bars that are retried, skipped or abandoned, candles from two
sources, one account through many partial failures, a council of language models
that answers late, a holdout that may be looked at once, and a generation that is
retired while it trades.

Contents: [Inventory](#inventory) · [Modules](#modules-and-how-they-correspond-to-the-code) ·
[Runs](#runs) · [Fairness](#fairness) · [Proofs](#proofs) ·
[Findings](#findings-where-the-code-and-its-documents-disagree) ·
[Not modelled](#not-modelled) · [Plan](#plan)

Run a check with `tlc -workers 2 -config X.cfg M` and a proof with
`tlapm M.tla`, where `M` is one of the `*Proofs` modules or `ExtremaLemmas`. `PROJECT.json` lists the runs, the lines each
definition stands for, the hazards, the mutants (one plausible bug per property,
which must break it) and the theorems.

## Inventory

Paths are below `src/backend/app/`, or `src/backend/` if they start with `scripts/`.

| component | state | operations | what is hard | properties that make it correct |
|---|---|---|---|---|
| worker lease `worker/lease.py` | the `worker_leases` row; per process the epoch, last renewal, `lost` | acquire, heartbeat, `check_local`, `check_db`, release | stalls, late answers, takeover between two round trips | one holder; the local fence is sound; fenced commits are ordered |
| worker cycle `worker/cycle.py`, `scripts/run_cycle.py` | `worker_cycles` rows | plan a tick, skip, claim, decide, complete, fail, quarantine, protect | crash between commits, poison bars, superseded workers | bars decided in order by one process; no completed bar passes over a position in silence; no bar blocks for ever |
| decision loop `agents/decision_loop.py` | agents, positions, orders, trades | pending entry/exit, manage, fund, enter, settle | savepoints inside one transaction; retries of one bar; protective replays | the books reconcile; funding exact; no bar evaluated twice; a stale order never fills |
| execution engines `execution/` | `_SEEN_ORDER_IDS` in memory | submit, `discard_uncommitted`, `commit_cycle` | memory against a rolled-back transaction | an id is claimed exactly while its order may exist |
| generation lifecycle `agents/lifecycle.py` | generations, agent status | create, retire, kill, ask for extinction | a long research session against the worker's transactions | a rollover is clean; nobody is revived; leftovers go |
| position manager `agents/position_manager.py` | (pure) | evaluate a bar against the levels | order of checks inside one bar | worst case first; a level never moves against the position |
| risk, sizing, margin `risk/`, `execution/sizing.py`, `execution/margin.py` | (pure) | allow and size an entry | sized at one price, filled at another; the stop is placed elsewhere | the loss at the stop is the one sized for; paper and backtest admit alike |
| market data `market/market_data_service.py` | candles with `is_final`, stream state, `data_gap_halt` | sync, upsert, recover gaps, confirm, verify | polls, frames and backfills of one bar in any order; late gaps; revisions | what is confirmed is whole; what was decided on stays stored; no entry over a known gap |
| websocket ingest `market/hyperliquid_ws.py` | the last frame, per-bar record, newest bar | accept, seal the previous bar, upsert | lost, repeated, early frames; a failure between record and upsert | what it seals is the whole bar |
| AI council `council/` | `council_decisions` rows | analysts, judge, quorum, deadline, store | late or partial answers, retries of a bar | a verdict binds to its own bar; a missing one blocks entries only |
| language-model client `services/ollama_client.py`, `worker/key_refresh.py` | key list, health, cooldowns, cursor | call, rotate, mark, refresh keys | health is by position, the list changes while requests are out | an outcome is booked on the key it came from |
| pre-trade gate `pretrade/` | observations | observe each agent and bar | a second implementation of the entry rules | says what the loop then does |
| research pipeline `research/pipeline.py`, `scripts/run_research.py` | experiments, research lease, generations | gates, evaluate, nominate, walk, breed | the lease is looked at only between cycles; crash between commits | one successor per generation; every candidate decided |
| sealed data and lockbox `research/dataset.py`, `research/lockbox.py` | epochs, OOS evaluations | seal, renew, evaluate once | two evaluations race; reuse of a superseded epoch | one out-of-sample look per version, a quota per lineage |
| promotion `evolution/promotion_service.py`, `evolution/champion*.py` | pipeline stages, champion status | walk, promote, demote, reject | the decision and its stage row are two commits | one champion per lineage; stage and status agree |
| evolution `evolution/` | strategy versions | mutate, cross, repair, gate; select elites and parents | long lines of small changes to one rule set | every candidate is whole; only unblocked versions are parents |
| strategies `strategies/`, `schemas/strategy_dna.py` | (pure) | draw DNA, read a signal from the features at hand | the worker's features are the union of what all agents declare | an agent trades as in its own backtest |
| backtesting `backtesting/` | (pure) an account per replay | run bar by bar | books a fill a bar before the paper loop does | same bars, same trades as paper |
| edge research `edge_research/`, `scripts/edge_research.py` | an append-only file of experiments | check, evaluate, record, propose | collector outages, two sessions on one file, window arithmetic | nothing is repeated silently; choices rest on data before their window |
| analytics `analytics/` | forward evidence, trade analytics, the regime matrix | refresh in phases, write once | statements against two writers; replay of what the loop saw | windows final; a finding has a cause; evidence is independent |
| fitness and stage metrics `analytics/fitness_*.py`, `backtesting/stage_metrics_service.py` | scores and metrics per agent and version | score, gate | rows of different cycles are read together; the sealed holdout | no evidence, no credit; a promotion was earned |
| feature engine | (numeric) | | floats | reference results |
| API, dashboards, core services, migrations | flags, sessions | | | |

How they interact: the worker holds the lease, learns of confirmed bars from the
market store (fed by the stream's task and its own polls), and runs
`process_candle` per bar (claim, features, council, decision transaction,
completion); the decision loop calls the execution engine and the lifecycle
(death). The research process reads everything, and writes agents only in
`retire_generation` and `create_generation`. Analytics reads both and writes its
own tables. Nothing but the database connects the processes.

## Modules and how they correspond to the code

| module | models | composed with |
|---|---|---|
| `FencedWriter` | what the lease promises: one writer, a token per ownership | implemented by `WorkerLease`; its holder is what `WorkerCycle` assumes |
| `WorkerLease` | `worker/lease.py` and the fenced commit of the decision loop | `INSTANCE FencedWriter` (refinement); beside `MarketData` in `MCStore` |
| `StoreProofs` | the theorems about `WorkerLease` and `MarketData` | extends both, as `MCStore` does |
| `ExtremaLemmas` | (no code) a finite set of numbers has a least and a greatest | extended by the proof modules but `RolloverProofs` |
| `WorkerCycle` | `worker/cycle.py` and the loop of `scripts/run_cycle.py` | its `owner` is the holder of `FencedWriter`; beside `ResearchCycle` in `MCCycles` |
| `WorkerCycleProofs` | the theorems about it | extends `WorkerCycle` |
| `MarketData` | the candle store between stream, polls, backfills and the worker's tick | the tick's two finality gates and its catch-up window; beside `WorkerLease` in `MCStore` |
| `OllamaClient` | the pool of keys and the calls that rotate over it | extended by `Council` |
| `Council` | `council/`, its use in `process_candle` and in the decision loop | extends `OllamaClient` |
| `AgentLoop` | one agent through `agents/decision_loop.py`, the engine's ids, `settle_close`, `mark_dead` | in `MCAgents` |
| `AgentLoopProofs` | what each of its operators does to an account, and the theorems | extends `AgentLoop`; `INSTANCE`d by `Rollover` |
| `Forward` | `analytics/fitness_forward*.py` against the worker, the scorer and the rollover | in `MCAgents` |
| `TradeQuality` | `analytics/trade_quality.py`, the first phase of `analytics_store.py`, `scripts/refresh_analytics.py`: a closed trade replayed over the stored bars | in `MCAgents` |
| `RegimeMatrix` | the episodes of trades and the cells of the strategy-by-regime matrix (`analytics_store.py`, `strategy_regime.py`) | in `MCAgents` |
| `Fitness` | `analytics/fitness_service.py`, `fitness_engine.py`, `performance_metrics_*.py`: one agent around the sealed holdout | in `MCAgents` |
| `Evidence` | the rows a version is promoted on: stage metrics, adversarial, regime and holdout reports, and the gate that reads the latest of each | in `MCAgents`; the other half of `Champions` |
| `PositionManager` | `agents/position_manager.py`, the liquidation condition of `execution/margin.py` | in `MCTrading` |
| `Replay` | `backtesting/engine.py` beside the paper loop, and the pre-trade shadow | in `MCTrading` |
| `Execution` | an entry from signal to fill and out again: `execution/`, `risk/`, the sizing part of the decision loop, beside the backtester's | in `MCTrading` |
| `ExecutionProofs` | the theorems about it, `PositionManager`, and `Council` with the pool under it | extends the three |
| `Rollover` | worker passes, statement by statement, against `retire_generation` | `INSTANCE AgentLoopProofs`: what a pass does to the rows it read, and the lemmas about it; beside `Genome` in `MCGenerations` |
| `RolloverProofs` | the theorems about it and `Genome` | extends both, as `MCGenerations` does |
| `Genome` | `strategies/factory.py`, `evolution/crossover.py`, `mutation.py`, `breeding.py`, the DNA's schema, the features a signal reads | beside `Rollover` in `MCGenerations` |
| `Lockbox` | epochs and out-of-sample evaluations | extended by `Champions` |
| `Champions` | pipeline stages, promotion, succession | extends `Lockbox`, extended by `ResearchCycle` |
| `ResearchCycle` | the research processes, their cycle and the generations | extends `Champions`; beside `WorkerCycle` in `MCCycles` |
| `ResearchCycleProofs` | the theorems about it and what a version is judged by: `Evidence`, `Forward`, `Fitness`, `RegimeMatrix` | extends the five |
| `EdgeResearch` | `edge_research/` and its command line | in `MCTrading` |
| `ReplayProofs` | the theorems about what is worked out of the bars a second time: `Replay`, `TradeQuality`, `EdgeResearch` | extends the three |

**WorkerLease.** `row` is the table row, `mode/epoch/renewed/lost` a process and
its `LeaseKeeper`, `call` the `try_acquire` in flight. `try_acquire` is three
round trips (read the clock and the row; the conditional INSERT or UPDATE; the
re-read of the epoch), so it is `ReadClock`, `Insert`/`Update`/`Refuse`, `Answer`:
another process may run between any two. An answer reaches the keeper in
`Acquired`, `Renewed` or `Superseded`; a heartbeat may fail at any point, also
after its UPDATE took effect (`BeatFails`). `check_db` is `CheckDb` (its
`check_local`), then `Locks` or `Fenced` (its SELECT, which the worker may reach
after any stall); from `Locks` to `Commit` or `RollBack` the transaction holds a
share lock on the row.
`now` is the database's clock and every process's monotonic clock: *they are
assumed to advance at one rate*; stalls are unbounded.

**WorkerCycle.** A bar's number is its open time. Every action ends at a commit
or an await. `todo`/`skip` are the plan of the tick, `view` the row as the session
read it (an ORM object that survives the commit: a superseded worker writes what
it remembers). `Claim`, `Decide`, `Ask`, `Record`, `Complete` are the commits of
`process_candle`; `Fail`, `Rescue`, `Quarantine` and `Forget` its error paths.
`opened/managed/protected` follow one position that no bar closes, the worst
case for protection; `Sweep` manages it in a savepoint of its own, or swallows the error
(`refused`, a history of the `protection_failures` the code only counts), and the bar is completed
all the same.

**MarketData.** A bar's prices are abstracted to how much of it had happened when
they were read (1 open, 2 closed and settled), which is all that a wrong value
can come from; `store` is the row with `is_final`. The stream delivers a frame in
`Receive`/`ReceiveEarly` (what is accepted and recorded), `Seal` (the previous bar
becomes final) and `StoreFrame`; `FrameFails` ends a delivery between them. A tick
is `Ask`, `RestAnswers` (the exchange answers with what it shows, or an answer that
lacks bars), `Install` or `Unanswered`, then `Backfill` or `Validate`, `SetFlag`,
`Plan`, and per bar `Compute` and `Decide`, each behind its finality gate. The exchange settles a bar within
the grace period and streams in order; it may lose, delay or hasten frames, which
`lapse` records. A worker that takes up a bar the stream sealed before the grace
period is over fails the first gate and retries: this is `Fails` here.

**OllamaClient, Council.** Every analyst is a task with a call: it queues for the
semaphore, takes a position of the pool, awaits the answer and books the outcome
on that position; `Refresh` replaces the list. Whether a cooldown is over, what is
answered and in which order is the environment's choice. `Council` is a bar:
analysts, deadline, tally, judge, the committed row, then the decision, in which
one agent combines its signal with the verdict (`Combined`). Confidence is
reduced to its side of the veto threshold. The refresh happens in `run_worker`
between two ticks only; this is what `BookedOnItsKey` rests on (its mutant lets it
happen at any time).

**AgentLoop.** A pass is one transaction and one step, written as operators from
an account to the *set* of accounts it can become; prices, signals and fills are
the choices. `Processed` is `_process_agent_inner`, `Sweep` is
`protect_open_positions`, `Cancelled` the trailing `_cancel_stale_pending`.
Money is small integers; a balance below zero marks a savepoint whose flush the
CHECK constraint refuses, and `Savepoint` then keeps the account as it was. The
engine's memory is `seen` (all ids) and `open` (not yet committed).

**Forward.** The refresh reads agents (with what is already written), trades and
generations, and at last the scores, in a statement each: `ReadsAgents`,
`ReadsTrades`, `ReadsGenerations`, `WritesEvidence`. Between them the worker
commits a bar (all of its trades dated at the bar's close), scores are recorded and
the generation is replaced. `Row`, `WindowEnd`, `GridPoints` and `NewRows` are
`forward_window`, `forward_performance`, the reconstruction grid and the
write-once filter; a fitness value is the set of trades it was computed from.
`RollOver` assumes that the worker has committed every closed bar and that none
closes in that instant; without this see "Seen while modelling".

**TradeQuality.** One position from its fill to its end. A bar is two distances from the
entry price, in favour and against; `held` is the row with the extremes the loop kept, `row`
what the replay made of the stored bars. A bar is *over by the exit* if it closed no later
than the trade. The worker takes up stored bars in order and may
lag, an exit may be refused, a bar may be missing and stored later. The refresh is
`CountsRawTables`, `ReadsBars`, `WritesRows`, `CountsAgain`.

**RegimeMatrix.** The series of regimes, the trades with the bar they were decided on, the
episode the first phase gave each, the cells the second phase makes. A cell's numbers are
taken at their most favourable, so that a state is what the gates alone let it be.

**Fitness.** One account, its trades and its marks; `Grade` reads both and leaves out the
trades that touch the sealed window, as `score_agent` does. A component is a fraction. Terms that are
the same for each agent of a version are left out.

**Evidence.** One version and the rows about it; rows outlive the cycle that wrote them, so
`Nominated` and `Revisited` judge on the latest of each kind, whenever written.
`ResearchCycle` has the crashes and the other versions, and leaves every gate open; here
the gate itself is modelled.

**PositionManager.** `Evaluated` is `evaluate_bar`, `Advanced` is `advance_extremes`,
`Manage` is `_manage_open_position` from the levels to the margin check at the
close. Optional prices are sets of at most one. The reference is a price that
moves tick by tick (`Fall`, `RallyFirst`); it is written for longs only, and
`PathHonoured` asks of a short, whose code is a branch of its own at every
comparison, what the path asks of a long on the reflected bar. In `AgentLoop` the same evaluation is a choice of an outcome.

**Replay.** The same bars and signals are given to two translations that share
only the accounting, as in the code: `PaperBar` (decide at the close, fill at the
next open, with the pending order carried over) and `ReplayBar` (book the fill at
once with the next open, which it has already seen). `Step` feeds both one bar,
and before it asks the shadow (`WouldTrade`: `pretrade` on the account as the last bar left
it). Sizing only decides whether the account affords the order; cooldown, daily
cap, funding, margin and death are the code's. `midnight` is a history variable: whether the
loop's count of the day holds an order decided the day before, and whether such a day has
refused an entry for its cap.

**Execution.** Amounts are integers, a side is 1 or -1. `Signal` sizes and checks an entry at
the close (four sizing and four stop methods, the risk engine's checks in order, lots, margin), `NextOpen`
fills what is pending in a quantity taken anew at the fill's reference price (margin, lots,
minimum), `Bar`, `Midnight` and `Close` move the account and take the position off, through the order
book on the shadow venue. `result` keeps, of the last entry, what paper opened and
what the backtester would have. A fraction of a unit is rounded down
where the code keeps it.

**Rollover.** At READ COMMITTED each SELECT sees what is committed by then, so
each is a step (`ReadsAgents`, `ReadsBook`, `ReadsPositions`, `ReadsOwner`;
`ResearchReadsAgents`, `ResearchReadsPositions`). A unit of work writes at its
commit, column by column, the values that differ from those it read (`Merged`):
this is SQLAlchemy's UPDATE, with neither version column nor row lock here.
Rows written by one process only are left out. SQLite, which serialises writers,
is for tests only (`core/config.py`, line 137), so the model is PostgreSQL's.

**Genome.** A feature key is a stem and a period (`rsi` and 14), a rule set the keys its
conditions compare; thresholds, operators and the other scalars are left out.
`Shapes` are what the factory's builders draw, family by family; `Crossings` takes rules and
indicators from one parent, the rest from either; `Mutations` changes one period
and renames it in every rule (`Repaced`). `Gate` is the schema, the orphan check
and `behavioural_problems`. `SignalReads` are the keys a
signal's direction looks at: among `Live` (the market context and
what the whole population declares) in the worker, `Replayed` in a backtest.

**Lockbox, Champions, ResearchCycle.** One chain of modules over one state:
`epochs/evals/score` are the holdout's rows (`UsedBy` counts them, as the SELECT does), `stage/days/champ` a version's
pipeline, `gens` the generations, `proc` a process with the locals of `_run`. A
step is a transaction, taken at its commit. `Checked` and `Simulated` are the two
halves of an out-of-sample evaluation, between which another process may make
the same one; the unique key decides (`Conflict`). `Walked`, `Decided` and `Concluded` are
`advance_pipeline_stage`; the last two are separate commits. `Revisit`/`Orphan` are the
versions an earlier generation left on the way, `Breed` the transaction of
children, retirement and the next generation. `Renew` is the operator's. Gates,
scores and evidence may come out either way; "candidate" stands for the stage
"validation" too.

**EdgeResearch.** Data is the set of ticks with observations; `Rows` and `Outcomes` say
which rows a spec makes of them and when the outcome of each was observed,
`Windows`, `Training`, `Validation` and `OutOfSample` are the walk-forward split,
`Decisions` what `classify` can say of it. `Level` is the registry's check, as the
runner (`RunKey`, which knows the end of the data) calls it. `Record` appends what `RunKey`
began; sessions are not locked.

## Runs

| run | instance | shows |
|---|---|---|
| `store` | `WorkerLease`: 2 processes, TTL 2, 6 ticks. Or `MarketData`: 3 bars, clock to 7, poll and stream, frames up to two intervals late, one bar missing from an answer | types, `OneHolder`, `LocalFenceSound`, `TokensOrdered`, refinement of `FencedWriter`; `ConfirmedWhole`, `DecidedOnStored`, `NoEntryThroughKnownGap` |
| `cycles` | `WorkerCycle`: 2 workers, 2 new bars after a warm one, catch-up 1, 3 attempts, 1 fault. Or `ResearchCycle`: 2 processes, 2 versions, 2 epochs, 2 generations, quota 1, 1 fault | `NoBarLeftBehind` (savepoints and protective passes may fail); `OosOncePerVersion`, `LineageQuota`, `OneChampionPerLineage`, `OneSuccessor` |
| `cycles_live` | the same with 1 process each, catch-up 2, 2 faults, fair | `DecisionsInOrder`, `ExtinctionRecordedOnce`, `NeverBlocked`; `CandidatesDecided` |
| `agent` | `AgentLoop`: 5 bars, settlements at 2, 3, 5, both fill timings, every failure enabled. Or `Forward`: 2 + 1 agents, 6 minutes, bars of 2, horizons 2 and 3, one scoring. Or `TradeQuality`: 3 bars and one after the exit. Or `RegimeMatrix`: 4 bars, 3 trades, 2 regimes. Or `Fitness`: 5 bars, 2 of them sealed. Or `Evidence`: 2 trades and a day make a stage | `BooksReconcile`, `EvaluatedOnce`, `FundingExact`, `NeverFilledLate`; `WindowsFinal`; `FindingsExplained`; `EvidenceIndependent`; `NoEvidenceNoCredit`; `PromotionEarned` |
| `generations` | `Rollover`: 5 bars, settlements at 3, 4, 5, 1 fault, settlement with the first refused exit. Or `Genome`: one family and one stored DNA of another, three periods, 3 versions at a time | `CleanRollover`, `NeverRevived`, `LeftoversGo`; `CandidatesWhole`, `SameTrades` |
| `trading` | `PositionManager`: every sequence of bars on 5 prices, long and short, both trailing modes, balances that give a liquidation price or none. Or `Replay`: 7 bars on 3 prices, three regimes. Or `Execution`: two entries of four sizings and stops, three engines, three books. Or `EdgeResearch`: two hypotheses of a family and one on bars, a seed, 4 ticks, 3 records | `PathHonoured`; `TradesAgree`, `ShadowAgrees`; `RiskAsSized`, `AdmittedAlike`, `CashIsFills`; `NotRepeated` |
| `council` | 3 analysts and a judge, 2 keys, 2 tries, 2 at once, 1 rotation, 3 bars | `BookedOnItsKey`, `EntryBacked` |
| `agent_funding`, `research_promotion`, `edge_leak`, `cycle_overlap`, `fitness_sealed` | the smallest that show it; `fitness_sealed` on the constants of `agent` | violations: see Findings |

`store`, `cycles`, `agent`, `generations` and `trading` check machines that share no state
(`side` says which): a behaviour is of one of them, with the others at rest, so the run explores the sum, not the product.

The bounds, and why they are enough:

* `MaxTime` 6 with `TTL` 2: two whole lease lifetimes and a takeover after each,
  with calls still in flight across them. Two processes: a takeover involves two,
  and an owner that was superseded does not come back (every start draws a new
  owner id), so a third repeats the second.
* In `WorkerCycle`, a warm bar and two new ones: with catch-up 1 (`cycles`) the first is skipped or
  processed, with catch-up 2 (`cycles_live`, `cycle_overlap`) one tick holds both, so that one is
  retried while the other would overtake it. With two workers: one bar that the
  successor completes and the superseded worker reopens, and the next. `MaxAttempts` 3, as in the
  code: with 2 a bar both workers claimed is quarantined before it can be decided out of order.
  Where two workers run the population does not die out (`Bounded`): what follows an extinction is
  the business of `cycles_live`, and the two were checked together once, by themselves.
  Three new bars, a skipped one before two in a tick, were checked with one worker and no fairness;
  cold starts are in the theorems (of one worker) and were run on smaller constants.
* `MaxFaults` and `MaxUpsets` bound crashes, takeovers of live workers and other failures.
* In `AgentLoop`, five bars hold signal, fill, one bar of management, a refused
  exit and its forced settlement; `Starting` 4, `Fee` 1, `Move` 2 let the account
  survive, go bankrupt, and lose more than it has. Two refusals before a
  forced settlement (`ForceAfter`) instead of the configured number.
* In `Forward`, two agents so that a cohort can be incomplete, one successor so
  that a rollover truncates; horizons of one bar and of one and a half, so that a
  window ends on a close and between two. One refresh at a time; two concurrent
  ones were checked with `MaxClock` 4 and 5.
* In `PositionManager`, five prices, multiples of three ticks so that liquidation
  prices at rate 1/2 are whole: bars that open beyond a level, touch it exactly,
  rally and fall through it, and are survived long enough to move the trailing
  level twice. Quantity 1: it scales every term alike.
* In `Replay`, seven bars: two trades with a cooldown between them, and a third
  that the cap refuses. One regime has the cap and no midnight; two have a midnight inside the
  run, with a cap that a day's first fill leaves open (2) or uses up (1).
* In `TradeQuality`, an entry bar, one that is managed and one at which the exit is
  made or refused; one bar after the exit. In `RegimeMatrix`, `MinEpisodes` 2 and four bars: two
  episodes of one regime with another between them. In `Fitness`, days of two bars and
  a sealed window inside the run, so that a trade is before, in, after and across it. In
  `Evidence`, the smallest counts that differ from none; each threshold of the code is met
  and missed by one.
* In `Execution`, prices, books and limits chosen so that each refusal of the risk engine,
  of the margin, of the minimum and of the venue happens, and so does each clamp;
  two entries, so that the second meets what the first made of the account.
* In `Rollover`, one retirement of one agent: later generations repeat it, and
  agents share nothing in this code but the transaction. Five bars: the pass that
  races, the settlement of what it left, a bar on either side, and one that a pass
  misses, so that two settlements fall due on a balance of one.
* In `Genome`, trend following (two indicators of one name, so that a drift can make
  them equal: 20 and 34 both reach 28) and a legacy volatility DNA with a dead
  switch, another leverage and its direction taken from the family; three versions
  so that two parents live beside a child. The other families differ in their
  shapes only; each was checked alone.
* In `MarketData`, one warm bar and two more: one missing, one decided over it and
  the hole filled later. `Grace` equal to `Interval` and `Tolerance` below it (the
  module's assumption); with a clock of 7 the last bar is just confirmed. `StaleFrames` 2 (3 in
  the code): the candle side alone was also checked with 3.
* In `Council`, 3 analysts with quorum and margin 2: unanimity, plurality, a tie,
  one missing, two missing. Three bars with interval 2: due, not due, due. Two keys
  and two tries: one fails, the other answers, or both are gone.
* In `ResearchCycle`, a founder and a version that is born as its child or as a
  lineage of its own; two epochs: one renewal; two generations: one rollover.
  `MaxFaults` 1 is the lapse that lets two processes overlap, or a crash.
* In `EdgeResearch`, two microstructure hypotheses of one family (each is the other's
  material variant) and one on bars, windows of one tick, so that four ticks hold every
  decision of `classify`, outages and a replication on data two ticks newer. One
  session; with two, `NotRepeated` speaks of those that ran alone.

Deadlock is checked in `research_promotion`, and was of the research processes of `cycles` alone:
there the days or the gates always leave a step. Elsewhere the counters end (bars, ticks, minutes), and where
all bars are done the program really waits.

Limits of the passing runs are results as well:

* `DecisionsInOrder` is of one worker with restarts: a superseded
  worker writes FAILED and COMPLETED without a fence, and reopens a bar its successor completed
  (finding 4). What is left for several workers is `NoBarLeftBehind`. A retry may decide its own
  bar again, for the agents that left no Decision row on it: `DecisionsInOrder` allows this.
* `NoBarLeftBehind` does not say that the position *was* managed: its savepoint may fail, as in
  finding 1. It says that no committed pass left it out.
* `TradesAgree` ends where the two days differ: when a day that began with a fill decided the day
  before refuses the loop an entry for its cap (see "Seen while modelling").
* `NoEvidenceNoCredit` says "no better than one without trades", not "the same" (finding 5).
* `ExtinctionRecordedOnce` holds for one worker with restarts: a worker that stalls
  between the decision commit and `is_population_extinct` may record the extinction
  after its successor did. It is not promised to be recorded at all (below).
* `ConfirmedWhole` needs a stream that loses no frame and sends none early or a
  tick late: otherwise a bar may be sealed with what the last frame showed.
* `LineageQuota` and `OneChampionPerLineage` need research processes that did not
  overlap, as the run states them; `OosOncePerVersion` and `OneSuccessor` do not, a unique key
  guards them. No such key guards the champion: the code SELECTs it without a lock and commits
  later (`promotion_service.py:75`, `130`), which the model takes for one step, so of processes
  that overlapped it says nothing.
* `LeftoversGo` does not count the bars at whose end a position's due funding exceeded the
  balance: a pass over it may be rolled back (finding 1), and while that lasts nothing takes it
  off.
* `EntryBacked` needs `Margin >= 1`, which the configuration does not validate.

## Fairness

* `WorkerCycle` in `cycles_live`: `WF(WorkerStep(w))`: a process that is up goes on, since the awaits in
  `process_candle` are the database's or have a deadline (the council). `WF` of
  starting a worker when none runs: `run.sh` and the service restart it. Nothing is
  assumed of crashes, of errors (a transaction may always fail, so a bar may end in
  quarantine) or of new bars.
* `ResearchCycle` in `cycles_live`: `WF(Start(p))`, the supervisor's restart; `WF(Work(p))`, one of the
  steps of a cycle is taken when the gates are open again, without any choice of its
  outcome; `WF(ADay)`, days pass. Crashes and exceptions are finitely many
  (`MaxFaults`); without that a candidate need not be decided, since its decision is
  at the end of a cycle.

## Proofs

Every theorem is proved for all values of the constants that the module's named
assumption admits; the assumptions are types and what the program's configuration
validates (a TTL, a quorum or a number of attempts is positive), and a run of the module
evaluates each. None of the properties is inductive as it stands. Each proof module
defines the invariant that is (`IInv`, or `LeaseInv`, `MarketInv`, `Leftovers`, `EvidenceInv`,
`GenomeInv`, `ForwardInv`, `PositionInv`, `CouncilInv`, `QuotaInv`, `FitnessInv`, `MatrixInv`, `LoopInv`,
`AgreeInv`, `QualityInv`, `EdgeInv`) and has a lemma per action; the theorems follow
from it. Every safety property that a passing run checks is stated by a theorem.

| theorem | states | module |
|---|---|---|
| `TypeCorrect`, `LocalFenceIsSound`, `MutualExclusion`, `FencingTokensOrdered`, `LeaseImplementsFencedWriter` | `TypeOK`, `LocalFenceSound`, `OneHolder`, `TokensOrdered`, `FencedWriterSpec` | `StoreProofs` |
| `ConfirmedBarsWhole`, `DecisionsOnTheStore`, `NoEntryOverAGap` | `ConfirmedWhole`, `DecidedOnStored`, `NoEntryThroughKnownGap` | `StoreProofs` |
| `ProtectedWhenCompleted`, `NothingLeftBehind`, `OneExtinction`, `BarAfterBar` | (`CompletedBarsProtected`: the next of one worker, bar by bar), `NoBarLeftBehind`, `ExtinctionRecordedOnce`, `DecisionsInOrder` | `WorkerCycleProofs` |
| `BookedWhereAsked`, `EntriesBacked` | `BookedOnItsKey`, `EntryBacked` | `ExecutionProofs` |
| `Reconciled`, `OneEvaluation`, `FundingPaidOnce`, `EntriesOnTime` | `BooksReconcile`, `EvaluatedOnce`, `FundingExact`, `NeverFilledLate` | `AgentLoopProofs` |
| `ExecutionRiskAsSized`, `ExecutionAdmittedAlike`, `ExecutionCashIsFills` | `RiskAsSized`, `AdmittedAlike`, `CashIsFills` | `ExecutionProofs` |
| `NothingLeft`, `StaysDead`, `LeftoversLeave` | `CleanRollover`, `NeverRevived`, `LeftoversGo` | `RolloverProofs` |
| `OneChampion`, `Successors`, `OnceOutOfSample` | `OneChampionPerLineage`, `OneSuccessor`, `OosOncePerVersion` | `ResearchCycleProofs` |
| `PromotionsEarned`, `WindowsStay` | `PromotionEarned`, `WindowsFinal` | `ResearchCycleProofs` |
| `BreedingWhole`, `TradesAlike` | `CandidatesWhole`, `SameTrades` | `RolloverProofs` |
| `PathKept` | `PathHonoured` | `ExecutionProofs` |
| `QuotaKept` | `LineageQuota` | `ResearchCycleProofs` |
| `NoCredit`, `Independence` | `NoEvidenceNoCredit`, `EvidenceIndependent` | `ResearchCycleProofs` |
| `Shadowed`, `Agreement` | `ShadowAgrees`, `TradesAgree` | `ReplayProofs` |
| `Explained`, `NoRepeats` | `FindingsExplained`, `NotRepeated` | `ReplayProofs` |

**The lease.** For every set of workers, TTL and `MaxTime` (`LeaseAssumption`: the TTL is
positive, `NoWorker` is no worker). A keeper's belief rests on an answer about the
*past*. `IInv` adds to `TypeOK`: `CallOrdered` (a renewal in flight was asked for
no earlier than the last accepted one, and read the clock between then and now),
`WonIsSafe` (for TTL after it was *asked for*, a call that won has the row, and
the row has not expired), `BeliefIsSafe` (the same of a process that passes
`check_local`; this is where `_last_renewed` being taken before the call matters),
`LockIsSafe` (a share-locked row is the locker's, at its epoch), `CallIsLive`
(only a process that starts or runs calls) and `WrittenIsSafe` (the last write's
token is not ahead of the row's, and one equal to it was made by the owner). The
refinement is proved step by step: each step is a grant, a write or a stutter of
`FencedWriter`.

**The candle store.** For every number of bars, interval, grace, tolerance (below the
interval), stale limit and number of bars an answer omits. What the exchange shows of a
confirmed bar is whole (`Clock`), and so is an answer judged by the clock before its
request (`RestAnswer`). Of the stream the invariant holds only without a lapse: the
ingestor's last frame is at most one behind the last that reached us (`InOrder`), so what
it seals it saw the end of. The attempt corrected the model: a frame lost *after* the one
that seals a bar had not been counted as a lapse.

**The worker's tick.** For every number of bars, catch-up window, number of attempts and
of faults, warm or cold. Three theorems are of **one** worker process (it may crash, lose its lease,
be started again: they assume `Worker = {w}`). The argument is about one bar,
`Floor`, the first that a tick planned now would process: nothing was decided or managed
beyond it (`Behind`), and in a tick the bars left are an interval from there, none done
(`Span`). `NothingLeftBehind` is of **every** set of workers: it needs only that decisions are
committed by the holder, in the order of its own tick, so that whoever marks a bar COMPLETED
did so behind such a commit on it (`PastDecision`), and that the position, once looked at on a bar, was
looked at on it or beyond (`Followed`, `Reaches`). The order of decisions has no such argument: the
unfenced FAILED of a superseded process breaks it (finding 4).

**The council and its keys.** For every set of analysts, keys, quorum, margin and number
of tries. The keys are refreshed between two bars only, and every way a bar ends, its deadline
included, leaves no call out (`Quiet`), so a position keeps its
key until the answer is booked; from the commit on, the verdict fails closed or
consents as the committed row of *this* bar does (`Backed`).

**The account.** For every calendar of settlements, range of prices, fee and engine mode.
A pass is a composition of set-valued operators, so there is one lemma per operator: from a
`Sound` account it reaches only sound ones. `Sound` says that the books reconcile and a
flat account owes nothing (`Books`), that each settlement since the fill was charged once
up to the last one paid (`Paid`, where the catalogue of settlements is shown to be walked
without a hole), and that an evaluated bar left the mark that prevents the next evaluation,
on the position if it is open and in a Decision row if not (`Once`). A second set of lemmas
(`Follows`, `Tends`) holds of any account, sound or merged from two: no operator revives a dead
agent, parks one whose DNA is valid, changes what a dead one ended with, places an order of
another bar, or keeps a position open whose exit was refused as often as forces its settlement.

**Entry and exit.** For all genes, prices, scenes, books, limits and drifts of
`ExecutionAssumption`. An order carries what it was sized by (`Sized`): it is covered by
margin, its loss at the sized stop is within the limit, and it is the backtest's unless the
minimum refused it. `LossIsSized` is the heart of `RiskAsSized`: the sizing's distance
times a quantity is the loss at the stop the manager places. For `AdmittedAlike` each clamp of
the loop is shown to be no tighter than the backtest's. For `CashIsFills`, walking a book
never fills more than is asked, and an exit is filled whole or not at all. The attempt
corrected the property: filled at the close but at another price (a drift that slippage hides), the
risk may exceed the limit, and TLC showed it on other constants.

**The rollover.** For every account and number of bars and *every* schedule of the
statements of both processes. `StaysDead` needs only `Writes`: a status is written where it
was changed, and never changed to ACTIVE. `NothingLeft` needs three phases: while the
generation is traded, the worker's copy is the committed row (`Unretired`); from the
retirement's first read so is its copy, until a pass commits (`Overlap`); afterwards no pass
finds anything to write (`After`). What a pass does is cited from `AgentLoopProofs`.
`LeftoversLeave` is about the rollovers that do overlap. A pass that began after the
retirement runs no agent of the old generation and is `Alone`: nobody else writes, so what it
does to the position is one of three things (`Tried`): it is closed, its exit is refused once
more, or its funding cannot be paid. `Counted` weighs the bars against the refusals: they
differ by one at most (a bar protected before the retirement was committed), and `Tidy` bounds the
refusals of an open position. An order is never younger than the last bar decided on (`Ordered`),
so the second such bar finds it expired. The attempt corrected the property: its first
form excepted only positions unpayable *now*, and TLC, on other constants, found one that had been
unpayable for three bars and was paid funding on the fourth.

**Research.** For every set of processes and versions, quota, number of generations, renewals
and faults. Generations are numbered in the order of their rows (`Numbered`), what a process
still walks is born, and only a born version has a status (`Births`); a promotion demotes the
only rival (`Single`). `OneChampion` is claimed, as the run's property is, of processes that did
not overlap. Its invariant does not use that premise, but only because a promotion is one step
of the model, which the code's is not. The unique keys carry `OneSuccessor` and
`OosOncePerVersion`. `QuotaKept` does need the premise: the place that `Checked` found is still
free when `Simulated` writes its row (`Spent`) only because nobody else is up (`Alone`). A row
more is counted in its own lineage and epoch alone (`UsedGrows`), and a birth brings no rows into
a lineage, since only the born have any (`Rooted`). The count is that of a set of numbered rows,
as in the code; since no version has two, it is the set of the relatives that have one.

**The evidence of a promotion.** For all thresholds and any number of days and trades. A review's
stage is what was once earned, the rows its gate reads are of any age: `EvidenceInv` holds both
against what has happened by now, which only grows (`Shown`: no row says more than the counters;
`Earned`: what each stage was reached on; `Hardened`: a passed suite is remembered). The
lemma is one step of `advance_pipeline_stage` (`AdvancedEarns`), and the walk is six of them.

**Breeding.** For all families, periods and profiles. What is stored, drawn, crossed or mutated
is `Whole` (the schema accepts it and its rules bind), one lemma per operation: each of the
ten builders, `Crossings`, and a drift (`RepacedWhole`), which renames the keys in all four
rules. The gate is not used: it can refuse only dead switches. `LegacyAssumption`: DNA
stored before is validated when read, and every path that stored it looked for orphaned rules.
`TradesAlike` follows: a rule reads what its own DNA declares, and where the family decides
the direction (`Impartial`) it looks at the market context alone. Of the factory's DNA only the
volatility family's leaves the direction to the family; of stored DNA that is the theorem's
hypothesis, a real one (see "Seen while modelling"), and what the audit's census of the stored
agents found (`FORENSIC_AUDIT_REPORT.md:76`: "52 agents, all in the volatility family").

**Forward evidence.** For all horizons, grids, bar lengths, populations and concurrent refreshes.
Trades are committed in the order of their closes, the rollover's between two bars (`Dated`), so
whatever is committed after a refresh read its trades is later than all of them (`Later`).
Each row keeps its witness, the trades it was computed from (`Founded`), and its window
ends within them (`WindowWithin`). The assumption at `RollOver` is what makes `Dated` inductive.

**The protective levels.** For all prices, levels, balances and maintenance rates. The property
turned out to be of a single evaluation, whatever levels the row came to, so the invariant is
the row's type with one price for each level. A long's path is compared with the level
reached first (`LongPath`, `FirstReached`); a short is evaluated as its mirror image is
(`Mirrored`, `MirroredBar`), branch by branch of the code (`OnThePath`).

**Backtest and paper.** For all series of bars, signals, fees, margins, thresholds and daily caps.
The shadow is judged by what both it and the loop are told of a bar (`LoopInv`: the account is
`Whole`, and what the last bar made of it is what the shadow said). The backtest and the loop are
never in the same state: one books a fill when it is decided, the other when the next bar opens.
`AgreeInv` therefore compares the backtest's account with the loop's *as the open of the next bar
will leave it* (`Agreeing`), but for the day's count of entries, and a dead account with one that
can afford no order any more. One lemma per stage of a bar (`AgreeLevel` for the levels,
`AgreeDecided` for the decision, `AgreeSwept` for death); each says that the two stages keep the same
fields alike, so that none of the arithmetic is redone. The two counts differ by one on a
day that began with a fill decided the day before (`Late`), and then only the loop can meet the
cap: as long as it has refused no entry there, each may enter when the other may (`LevelEntry`),
for every cap and calendar. The attempt corrected the model: alternatives of a bar were written so that two could apply,
and which one did was left open.

**The quality of a trade.** For any number of bars, distances, missing candles and refreshes.
As long as no exit was refused, the row has the extremes of the bars taken up but the one of the
exit (`Extremes`), which were taken up in order (`InOrder`); a trade ends on the last of them, or
at a later bar's opening (`Endings`). Where the replay read the same bars it finds the same
extremes, since a set has one farthest (`FarthestIs`). The
attempt corrected the property: its first form also excused a trade whose last bar was still
open at the exit, and so every trade that a rollover closed within a bar.

**The matrix, the fitness, the edge experiments.** A cell's trades lie in as many episodes as its
state requires; an episode's number is the count of changes of regime up to its bar, which
no later bar alters (`EpisodeStays`), so trades of different numbers in one regime have a bar
of another between them (`EpisodesApart`), although the numbers were given by earlier refreshes
(`Numbering`). `NoCredit` needs of the state only its types: with no trade outside the sealed window
what a grade gives for trades is that of an empty list, whatever was marked, and a drawdown is a
fall from a peak above zero, so never less than none. `NoRepeats` keeps, of
each run in progress that is alone, that its spec passed the check against the file *as it still
is* (`EdgeInv`, `Anew`).

What stays with TLC, and why:

* liveness under fairness and ENABLED (`NeverBlocked`, `CandidatesDecided`): out of the
  prover's reach;
* what a fold over a sequence adds up to (the returns and the consistency in `Fitness`): induction
  over data cannot be instantiated; the theorem needs only what the empty one is.

## Findings: where the code and its documents disagree

1. `agent_funding`: funding that drives the balance below zero makes the savepoint
   fail before the stop is looked at, on every bar (`decision_loop.py:847`).
2. `research_promotion`: `evaluate_and_promote` commits the promotion before the row
   of its terminal stage is added (`promotion_service.py:130`); after a crash in
   between the champion is compared with itself and recorded as rejected.
3. `edge_leak`: the outcome of a microstructure row is the first quote at or after its
   horizon (`datasets.py:165`), after an outage a later one: `split` counts the row as known
   at the horizon, so a choice may rest on quotes of the window it is tested on, against
   `walkforward.py:7`.
4. `cycle_overlap`: the generic failure path writes FAILED without a fence (`cycle.py:425`).
   A worker that stalled past its lease and then fails reopens a bar its successor completed;
   if the successor has decided the next bar and not completed it, it decides the reopened one
   after it, against `cycle.py:481` ("never process a later bar before an earlier one completed").
   `cycle.py:418` forbids just this write to a worker that *knows* it lost the lease.
5. `fitness_sealed`: trades that touch the sealed window are left out of a fitness, but drawdown
   (`fitness_service.py:133`), death (`147`) and return (`131`) are the account's, which those
   trades moved: an agent that traded in the window only is graded below one that never traded,
   against lines 88-89 ("selection can never be influenced by performance during the protected period").

**Seen while modelling, without a run.** In the worker:

* Before the first bar is done, `pending_open_times` returns only the newest one
  (`cycle.py:91`), so the bar a crash interrupted is dropped with the next, against
  `architecture.md:295`.
* A family's strength takes the first feature whose name begins with its stem
  (`families.py:33`), possibly another agent's. Of the factory's DNA it sets the recorded confidence only
  (`SameTrades`). Of stored DNA it may decide the direction: `direction_mode` defaults to
  `auto` (`strategy_dna.py:130`), and in six families `auto` looks an indicator up by its stem,
  so such DNA trades differently beside others than in its backtest. Found by the proof of
  `TradesAlike`, which excludes it by hypothesis; nothing in the program stores such DNA today.
* `_find(f, "roc_")` always meets the context's `roc_10` first, so the ROC period a
  momentum agent declares never sets its strength.
* Skipped bars are committed before they are protected (`cycle.py:114`); a crash in
  between leaves bars that nothing is replayed on, against README line 116.
* The unfenced write of finding 4 is also reached when the lease is lost during the council
  (`cycle.py:363`).
* `protect_bar` rolls back without `discard_uncommitted` (`cycle.py:144`), so the
  retry's exit is refused as a duplicate.
* The gaps are looked for before the wait for the confirmed bar (`cycle.py:456`), so a
  hole that appears during the wait is entered over once, against
  `market_data_service.py:12`.
* An extinction is not recorded at all when the process dies after the decision
  commit, or when a protective pass kills the last agent.
* The daily-cap audit marker is set before the commit it belongs to
  (`decision_loop.py:549`).
* From a cold start two workers can decide out of order: A decides bar 1 and stalls before
  its `COMPLETED`, B sees no done bar and takes only the newest, 3, which fails; A's
  `COMPLETED` of bar 1, which no fence guards (`cycle.py:481`), then lets bar 2 be decided
  after bar 3 (`cycle.py:85`).

In sizing and execution:

* `sizing.py:101` says that "the decision and the later fill can never disagree and a doomed
  order is never persisted": the fill takes the minimum at the next open, which differs from the
  close, so an order may be refused there for the minimum. `AdmittedAlike` excepts the
  converse: replay fills what the loop refused at the close.
* The loss limit of `config.py:128` holds of a position filled at the price it was sized at;
  a stop farther than the whole price sets no limit at all (`risk_engine.py:106`).
* A shadow exit on an empty book is refused as "no_liquidity" and only settled after the
  configured attempts, though "an exit must never be stranded by a data outage" (`shadow_adapter.py:131`).

In the rollover: `retire_generation` reads agents and positions in two statements
without locks (`lifecycle.py:199`). A pass that commits in between, or one that read
before and commits after, loses money from the account; a position can be left open
behind a retired generation (the comment at `lifecycle.py:211` excludes it), and a
death can be overwritten by RETIRED. `LeftoversGo` shows that the position and the
order are removed by later passes, but on bars on which the funding of the position cannot be
paid: those may keep it open for good (finding 1).

In the position manager: with `same_bar_extreme` the bar is taken to rally first,
"the worst case for the trade" (`position_manager.py:24`); for a bar that also falls
through the level of the earlier peak, falling first fills lower.

In research:

* The net return of `fitness_service.py:131` includes the sealed window's trades for an agent
  with other trades, too: there it may raise the grade (finding 5 is of one without).
* A promotion reads the robustness score and never `passed` of the report; a version whose
  `mean_correlation` is None is not blocked; the correlation report uses trades inside the
  out-of-sample window.
* Orphans are judged on the rows an earlier cycle left and can be rejected for good.
* A broken epoch (`EpochIntegrityError`) skips every cycle until the operator renews.
* `seal_epoch` returns an existing epoch of the same candles, superseded or not
  (`dataset.py:134`): a seal that races a renewal can leave two active epochs or none.
* The loser of an out-of-sample race fails its whole cycle: the message of
  `OosAlreadyConsumedError` (`lockbox.py:174`) reads a row the rollback expired.
* When every agent is untestable or every version blocked, each cycle ends in a
  `ValueError`.
* A restart after an extinction does not carry the champion over; the generation
  after it does again.
* A crash between `create_generation`'s commit and `finish_experiment` leaves a
  failed experiment whose generation was born.

Between backtest and paper (`backtesting/engine.py` says they "differ only by market
data and execution noise", line 8): with a daily cap and a midnight the backtest counts an entry
on its signal's day (`backtesting/engine.py:340`), the paper loop on its fill's, and the loop
enters once less (`TradesAgree` stops at that refusal); peak and day-start equity reach the
risk checks differently; the backtest looks for bankruptcy at the mark only at zero;
paper checks the minimum order at the signal *and* at the fill, the backtest at the
fill; the death by minimum viable equity is paper's only; `execution_delay_bars`
greater than zero looks ahead, and an end-of-data close can precede the entry.

In the shadow: on a bar at whose open a pending exit fills, the loop may enter while
the shadow reports an open position (`ShadowAgrees` allows exactly this); it leaves
out the margin approval and the council's veto; a retried bar writes its rows twice;
`pretrade/__init__.py` says that nothing in the live path imports the package, but
`worker/cycle.py:197` does.

In edge research:

* A window with no row out of sample counts as available (`evaluate.py:133`), so an
  outage can turn "too little data" into a rejection.
* A replication evaluates the same first `max_windows` windows again once there are that
  many (`registry.py:10` asks for unseen data).
* Once a record is PROMISING the proposer says REPLICATE for ever (`proposer.py:4` means
  those not yet robust). A hypothesis that needs more data and comes first is proposed
  again and refused until there is newer data.
* Two sessions may both pass the check and count the same number of tests.
* A rejected hypothesis blocks the others of its family, by the family's hash.

In the forward evidence:

* `forward_window` truncates at the last known trade only if it is later than T, so a
  score newer than that gets a window of full coverage with no trade
  (`fitness_forward.py:12`: "Coverage < 1 is recorded, never extrapolated."). `WindowsFinal`
  excludes those rows.
* A row written before its horizon has passed is censored, and never completed.
* Rollover trades carry the wall clock: with a lagging worker, trades of earlier bars
  are committed after them and fall into windows already written.
* `refresh_analytics` reports a mutation of the raw tables when the worker trades
  during it; of two concurrent refreshes the loser's whole phase is rolled back.

## Not modelled

Most of the program's lines are numeric or are reports: feature values,
scores, the statistics of a backtest, walk-forward, the
adversarial suite, the research scripts. They
keep no state between two steps and run in no concurrency; where one of their
results decides control it is a choice here (a signal, a rank, a promotion, an
outcome of a simulation), so the properties hold whatever they compute. What would
be said of them is a reference result on floats, which is a unit test's.

HTTP, websocket connections, prompts and parsing, dashboards, logging and the generated
migrations keep no state the properties tell apart. The live venue adapter
raises on every call. Left out of modelled parts: experiment rows, the order
book's age checks of the pre-trade gate (wall clock), the snapshots. `AgentLoop` and `Replay` leave
sizing, risk and partial fills to `Execution`, as a choice or a threshold.

## Plan

1. Done: every module of the table above, its runs, and the theorems of "Proofs".
2. Proofs left: the order of decisions of several processes in `WorkerCycle`, once its unfenced
   writes are gone; a promotion of two steps in `Champions`, to see what overlapping processes do. The number of proof modules is kept small: a new component's theorems
   go into the module of the component beside it.
3. Composition: `WorkerCycle` over `MarketData`'s confirmed bars, with a bar's failure at
   either gate; the rollover's commit of `ResearchCycle` over `Rollover`.
