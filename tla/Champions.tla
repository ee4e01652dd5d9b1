----------------------------- MODULE Champions -----------------------------
(***************************************************************************)
(* The way of a strategy version to CHAMPION of its lineage: the pipeline    *)
(* stages of evolution/champion_challenger_service.py and the promotion      *)
(* decision of evolution/promotion_service.py and evolution/champion.py.     *)
(*                                                                         *)
(* Versions are born at the PAPER stage, so no walk rests at "challenger";   *)
(* "candidate" stands for the stage "validation" too, where also evidence is *)
(* missing or bad.                                                          *)
(* Apart from the holdout and the champion to beat, the evidence a decision  *)
(* weighs (paper, walk-forward, adversarial, regime, reality gap) may come   *)
(* out either way.                                                          *)
(***************************************************************************)
EXTENDS Lockbox

CONSTANT MinObs  \* champion_min_observation_days

ASSUME ChampionsAssumption == MinObs \in Nat \ {0}

Terminal == {"promoted", "rejected"}
Stage == {None, "candidate", "observation", "champion_comparison"} \cup Terminal
Status == {None, "CHALLENGER", "CHAMPION", "RETIRED", "REJECTED"}

VARIABLES
  stage,         \* pipeline_stage of the latest challenger_evaluations row
  days,          \* days since the version entered observation, up to MinObs
  champ          \* champion_status

champions == <<stage, days, champ>>

ChampionsInit ==
  /\ stage = [v \in Version |-> None]
  /\ days = [v \in Version |-> 0]
  /\ champ = [v \in Version |-> None]

Observed(d) == IF d < MinObs THEN d + 1 ELSE d

\* A day passes.
Day ==
  /\ \E v \in Version : stage[v] = "observation" /\ days[v] < MinObs
  /\ days' = [v \in Version |-> IF stage[v] = "observation" THEN Observed(days[v]) ELSE days[v]]
  /\ UNCHANGED <<stage, champ>>

-----------------------------------------------------------------------------
(* advance_pipeline_stage, walked as far as the evidence of one cycle allows. *)

\* The walk comes to the comparison, now or because an earlier one ended there.
Compares(v) ==
  \/ stage[v] = "champion_comparison"
  \/ stage[v] = "observation" /\ days[v] = MinObs

\* Where it rests otherwise: without backtest metrics, without a passed adversarial
\* suite, or in the observation window.
Rests(v) ==
  IF stage[v] \in {None, "candidate"} THEN {"candidate", "observation"} ELSE {stage[v]}

Walked(v) ==
  \E s \in Rests(v) :
    /\ stage' = [stage EXCEPT ![v] = s]
    /\ champ' = IF s = "observation" /\ champ[v] = None
                THEN [champ EXCEPT ![v] = "CHALLENGER"] ELSE champ
    /\ UNCHANGED days

-----------------------------------------------------------------------------
(* The champion comparison: evaluate_and_promote commits its decision and the *)
(* stage rows before it; the row of the terminal stage is a later commit.     *)

Competitors(v) == Relatives(v)

\* The version it would replace; a champion found at the comparison meets itself.
Rivals(v) == {u \in Competitors(v) : champ[u] = "CHAMPION"}

\* The holdout must have been met, and a champion beaten by a positive margin.
MayPromote(v, oos) == oos = "good" /\ v \notin Rivals(v)

Demoted_Nobody(v) == {}
Demoted(v) == IF Rivals(v) = {} THEN {} ELSE {CHOOSE u \in Rivals(v) : TRUE}

Decided(v, promote) ==
  /\ stage' = [stage EXCEPT ![v] = "champion_comparison"]
  /\ champ' = [u \in Version |->
       IF promote /\ u = v THEN "CHAMPION"
       ELSE IF promote /\ u \in Demoted(v) THEN "RETIRED" ELSE champ[u]]
  /\ UNCHANGED days

Concluded(v, promote) ==
  /\ stage' = [stage EXCEPT ![v] = IF promote THEN "promoted" ELSE "rejected"]
  /\ champ' = IF ~promote /\ champ[v] # "CHAMPION" THEN [champ EXCEPT ![v] = "REJECTED"] ELSE champ
  /\ UNCHANGED days

-----------------------------------------------------------------------------
=============================================================================
