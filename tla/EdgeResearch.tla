---------------------------- MODULE EdgeResearch ----------------------------
(***************************************************************************)
(* The edge-research lab (app/edge_research, scripts/edge_research.py): an   *)
(* append-only file of experiments, the check that refuses to repeat one, as  *)
(* the runner asks it, and the walk-forward evaluation.                      *)
(*                                                                         *)
(* Data is the set of ticks with observations; the collector may be down in  *)
(* any of them.  An experiment's numbers are a choice of outcomes; which     *)
(* rows they can come from is not.  Sessions run `edge_research run' beside  *)
(* each other; nothing locks the file.                                       *)
(***************************************************************************)
EXTENDS Integers, FiniteSets, Sequences

CONSTANTS
  Session,              \* command lines at work
  Library,              \* the specs of LIBRARY: [family, knob, grid], where grid says
                        \* that rows are made at regular times (microstructure) and not one
                        \* per observation (bars)
  Seeds,                \* the specs of SEEDS: other families
  OosLen, ValLen, MinTrain, Embargo, Horizon,   \* window_days, the embargo, horizon_min
  MaxWindows,           \* max_windows of make_windows
  MinWindows,           \* MIN_OOS_WINDOWS
  MinNew,               \* MIN_NEW_DAYS
  MaxTick, MaxRecords   \* model bounds

Specs == {Library[i] : i \in DOMAIN Library}

ASSUME EdgeAssumption ==
  /\ Seeds \cap Specs = {}
  /\ {OosLen, ValLen, MinTrain, MinNew, MinWindows} \subseteq Nat \ {0}
  /\ Horizon \in Nat /\ Embargo \in Nat /\ Horizon <= Embargo
  /\ {MaxWindows, MaxTick, MaxRecords} \subseteq Nat

VARIABLES
  tick,        \* the clock
  collected,   \* ticks with observations
  registry,    \* experiments.jsonl
  experiment   \* per session: the run in progress

edgeVars == <<tick, collected, registry, experiment>>

NotRunning == [spec |-> <<>>]

Oldest(S) == CHOOSE x \in S : \A y \in S : x <= y
Newest(S) == CHOOSE x \in S : \A y \in S : y <= x

-----------------------------------------------------------------------------
(* ExperimentRegistry.check. *)

Refuted == {"REJECTED", "OOS_FAILED"}

Exact(reg, spec) == {i \in DOMAIN reg : reg[i].spec = spec}
Material(reg, spec) == {i \in DOMAIN reg : reg[i].spec.family = spec.family /\ reg[i].spec # spec}

NewData(reg, S, end) == \A i \in S : end >= reg[i].end + MinNew

Undecided_Any(reg, S) == \E i \in S : reg[i].decision = "NEEDS_MORE_DATA"
Undecided(reg, S) == S # {} /\ \A i \in S : reg[i].decision = "NEEDS_MORE_DATA"
AllRefuted(reg, S) == S # {} /\ \A i \in S : reg[i].decision \in Refuted

\* A spec with records of its own is judged by those alone; another of its family by the rest.
Level(reg, spec, end, justified) ==
  LET exact == Exact(reg, spec)
      material == Material(reg, spec)
  IN CASE Undecided(reg, exact) ->
            IF \A i \in exact : end > reg[i].end THEN "EXACT_MORE_DATA" ELSE "EXACT"
       [] ~Undecided(reg, exact) /\ exact # {} ->
            IF NewData(reg, exact, end) THEN "EXACT_REPLICATION" ELSE "EXACT"
       [] exact = {} /\ AllRefuted(reg, material) ->
            IF justified /\ NewData(reg, material, end) THEN "MATERIAL_JUSTIFIED" ELSE "MATERIAL"
       [] OTHER -> "NEW"

Runnable == {"NEW", "EXACT_MORE_DATA", "EXACT_REPLICATION", "MATERIAL_JUSTIFIED"}

-----------------------------------------------------------------------------
(* windows_for, split and run_experiment. *)

\* microstructure_dataset decides at regular times from the first observation to the last, on
\* the last quote; bar_dataset once per bar.
Rows(spec, data) == IF spec.grid THEN Oldest(data)..Newest(data) ELSE data

\* When the outcome of row t is observed: the first quote at or after t + Horizon, or that
\* very bar; none if there is none.
Outcomes(spec, data, t) ==
  LET later == {u \in data : u >= t + Horizon}
  IN IF ~spec.grid THEN {t + Horizon} \cap data
     ELSE IF later = {} THEN {} ELSE {Oldest(later)}

\* Window i of the data: training from the first row on, validation, then out of sample.
OosStart(data, i) == Oldest(data) + MinTrain + ValLen + 2 * Embargo + (i - 1) * OosLen
ValStart(data, i) == OosStart(data, i) - Embargo - ValLen
Windows(data) == {i \in 1..MaxWindows : OosStart(data, i) + OosLen <= Newest(data) + 1}

\* split: a row counts for a choice when t + Horizon is before the next split.
Training(rows, data, i) ==
  {t \in rows : t < ValStart(data, i) - Embargo /\ t + Horizon < ValStart(data, i)}
Validation(rows, data, i) ==
  {t \in rows : ValStart(data, i) <= t /\ t < OosStart(data, i) - Embargo /\ t + Horizon < OosStart(data, i)}
OutOfSample(rows, data, i) == {t \in rows : OosStart(data, i) <= t /\ t < OosStart(data, i) + OosLen}

\* Windows with too few rows to fit or to choose are passed over; rows out of sample are
\* not counted.
Available(rows, data) ==
  {i \in Windows(data) : Training(rows, data, i) # {} /\ Validation(rows, data, i) # {}}

\* classify, where `traded` are the windows with a trade out of sample: too little data is
\* never a rejection.
Decisions(available, traded) ==
  LET ample == Cardinality(available) >= MinWindows IN
  IF traded = {} THEN IF ample THEN {"REJECTED"} ELSE {"NEEDS_MORE_DATA"}
  ELSE {"NEEDS_MORE_DATA"}
       \cup (IF ample THEN Refuted ELSE {})
       \cup (IF Cardinality(traded) >= MinWindows THEN {"PROMISING", "ACCEPTED_FOR_SHADOW"} ELSE {})

-----------------------------------------------------------------------------
EdgeInit ==
  /\ tick = 0 /\ collected = {}
  /\ registry = <<>>
  /\ experiment = [s \in Session |-> NotRunning]

\* Time passes, with the collector up or down.
Collect ==
  /\ tick < MaxTick
  /\ tick' = tick + 1
  /\ collected' \in {collected, collected \cup {tick + 1}}
  /\ UNCHANGED <<registry, experiment>>

\* `alone' is history: nothing was appended while it ran.
Logged(spec, end, decision, seed, alone) ==
  [spec |-> spec, end |-> end, decision |-> decision, seed |-> seed, alone |-> alone]

\* install_seeds: those not yet in the file.
InstallSeeds ==
  \E s \in Seeds :
    /\ Exact(registry, s) = {}
    /\ registry' = Append(registry, Logged(s, 1, "REJECTED", TRUE, TRUE))
    /\ UNCHANGED <<tick, collected, experiment>>

\* `run KEY': the data is read and the file checked; a refusal ends it.
RunKey(s) ==
  /\ experiment[s] = NotRunning /\ collected # {}
  /\ Cardinality({i \in DOMAIN registry : ~registry[i].seed}) < MaxRecords
  /\ \E spec \in Specs, justified \in BOOLEAN :
       /\ Level(registry, spec, Newest(collected), justified) \in Runnable
       /\ experiment' = [experiment EXCEPT ![s] = [spec |-> spec, data |-> collected, since |-> Len(registry)]]
  /\ UNCHANGED <<tick, collected, registry>>

\* The evaluation is over: an entry is appended. A window can only trade on rows whose
\* outcome is known.
Record(s) ==
  /\ experiment[s] # NotRunning
  /\ LET e == experiment[s]
         rows == Rows(e.spec, e.data)
         available == Available(rows, e.data)
         live == {i \in available : \E t \in OutOfSample(rows, e.data, i) : Outcomes(e.spec, e.data, t) # {}}
     IN \E traded \in SUBSET live : \E decision \in Decisions(available, traded) :
          registry' = Append(registry,
            Logged(e.spec, Newest(e.data), decision, FALSE, Len(registry) = e.since))
  /\ experiment' = [experiment EXCEPT ![s] = NotRunning]
  /\ UNCHANGED <<tick, collected>>

\* It dies, or is a dry run.
Abandon(s) ==
  /\ experiment[s] # NotRunning
  /\ experiment' = [experiment EXCEPT ![s] = NotRunning]
  /\ UNCHANGED <<tick, collected, registry>>

EdgeNext ==
  \/ Collect \/ InstallSeeds
  \/ \E s \in Session : RunKey(s) \/ Record(s) \/ Abandon(s)

EdgeSpec == EdgeInit /\ [][EdgeNext]_edgeVars

-----------------------------------------------------------------------------
(* Properties. *)

\* No experiment is silently repeated (registry.py:7), as long as nothing was appended while
\* it ran: a spec runs again on later data only, MinNew later than every earlier run of it
\* unless none of them came to a decision.
NotRepeated ==
  \A j \in DOMAIN registry :
    registry[j].alone /\ ~registry[j].seed =>
      LET earlier == {i \in Exact(registry, registry[j].spec) : i < j} IN
      \A i \in earlier :
        /\ registry[j].end > registry[i].end
        /\ \/ registry[j].end >= registry[i].end + MinNew
           \/ \A k \in earlier : registry[k].decision = "NEEDS_MORE_DATA"

\* NOT true of the code: no future information leaks backwards (walkforward.py:8). What an
\* experiment chose from was observed before the out-of-sample window it chose for; but the
\* outcome of a row on the grid is the first quote after an outage.
NothingLeaksBack ==
  \A s \in Session :
    LET e == experiment[s]
        rows == Rows(e.spec, e.data)
    IN e # NotRunning =>
         \A i \in Available(rows, e.data) :
           \A t \in Training(rows, e.data, i) \cup Validation(rows, e.data, i) :
             \A u \in Outcomes(e.spec, e.data, t) : u < OosStart(e.data, i)
=============================================================================
