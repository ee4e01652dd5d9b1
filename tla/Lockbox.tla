------------------------------ MODULE Lockbox ------------------------------
(***************************************************************************)
(* The sealed holdout: research epochs, and the out-of-sample slice that    *)
(* each strategy version may open once (research/dataset.py,                 *)
(* research/lockbox.py).                                                    *)
(*                                                                         *)
(* An epoch is abstracted to whether it is active, and a score to whether it *)
(* meets the promotion bar. Rows are seen by other processes at the commit   *)
(* of their transaction.                                                    *)
(***************************************************************************)
EXTENDS Integers, Sequences, FiniteSetsExt

CONSTANTS
  Version,       \* strategy versions, born or not
  Quota,         \* research_oos_max_evaluations_per_lineage
  MaxEpoch       \* sealed epochs (model bound)

None == "none"

ASSUME LockboxAssumption ==
  /\ IsFiniteSet(Version) /\ None \notin Version
  /\ Quota \in Nat \ {0} /\ MaxEpoch \in Nat \ {0}

Epoch == 1..MaxEpoch
Score == {None, "bad", "good"}

VARIABLES
  lineage,       \* the root version of each born version's lineage, or None
  epochs,        \* research_epochs in the order they were sealed: is it active?
  evals,         \* the oos_evaluations rows of each version and epoch
  score          \* oos_score of the version's latest OUT_OF_SAMPLE metrics row

lockbox == <<epochs, evals, score>>

Born == {v \in Version : lineage[v] # None}

LockboxInit ==
  /\ epochs = <<>>
  /\ evals = [v \in Version |-> [e \in Epoch |-> 0]]
  /\ score = [v \in Version |-> None]

-----------------------------------------------------------------------------
(* Epochs. *)

ActiveEpochs == {e \in DOMAIN epochs : epochs[e]}

\* get_active_epoch: the newest of the active ones.
ActiveEpoch == IF ActiveEpochs = {} THEN 0 ELSE Max(ActiveEpochs)

\* seal_epoch on candles that no epoch was sealed from. (On the same candles it
\* returns the epoch they are already sealed in.)
Sealed == Append(epochs, TRUE)

\* renew_epoch: the old epoch is superseded, never removed.
Renewed == [e \in DOMAIN Sealed |-> e # ActiveEpoch /\ Sealed[e]]

-----------------------------------------------------------------------------
(* One evaluation of version v against epoch e. *)

Consumed(v, e) == evals[v][e] > 0

\* The rows of some versions against one epoch, numbered version by version, and their count.
Relatives(v) == {u \in Born : lineage[u] = lineage[v]}
Evaluations(V, e) == UNION {{u} \X (1..evals[u][e]) : u \in V}
UsedBy(V, e) == Cardinality(Evaluations(V, e))
Exhausted_Own(v, e) == UsedBy({v}, e) >= Quota
Exhausted(v, e) == UsedBy(Relatives(v), e) >= Quota

\* uq_oos_once_per_version_dataset, met at the flush: the check before the simulation
\* is of an earlier moment.
Conflicts_Never(v, e) == FALSE
Conflicts(v, e) == Consumed(v, e)

\* The rows of a simulated evaluation; it leaves none when the frame is too short.
Recorded(v, e, oos) ==
  /\ evals' = IF oos = None THEN evals ELSE [evals EXCEPT ![v][e] = @ + 1]
  /\ score' = IF oos = None THEN score ELSE [score EXCEPT ![v] = oos]

-----------------------------------------------------------------------------
\* A version is evaluated once against one holdout, also when two research processes
\* overlap and both saw it unused (UNIQUE constraint of models/research.py).
OosOncePerVersion == \A v \in Version, e \in Epoch : evals[v][e] <= 1
=============================================================================
