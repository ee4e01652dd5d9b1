------------------------------ MODULE MCCycles ------------------------------
(* Small instances of ResearchCycle and WorkerCycle, what the research process *)
(* and the trading worker do over and over: a behaviour is of one of them.     *)
(* See README, "Runs".                                                         *)
EXTENDS ResearchCycle, WorkerCycle, TLC

CONSTANTS v1, v2

VARIABLE side

MCVersion == {v1, v2}
MCFounders == {v1}

\* The processes of either are interchangeable, and named alike.
Symmetry == Permutations(Worker)

CyclesInit ==
  /\ Init
  /\ CycleInit
  /\ \/ side = "research" /\ opened = 0
     \/ side = "worker"
\* Bound: the population dies out only where a single worker runs.
Bounded == Cardinality(Worker) > 1 => UNCHANGED population

CyclesNext == \/ side = "research" /\ Next /\ UNCHANGED <<side, cycleVars>>
              \/ side = "worker" /\ CycleNext /\ Bounded /\ UNCHANGED <<side, vars>>
CyclesSpec == CyclesInit /\ [][CyclesNext]_<<side, vars, cycleVars>>

\* Each under its own fairness.
FairCyclesSpec ==
  CyclesSpec /\ \/ side = "research" /\ Fairness
                \/ side = "worker" /\ CycleFairness
==============================================================================
