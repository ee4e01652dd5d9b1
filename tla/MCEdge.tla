------------------------------- MODULE MCEdge -------------------------------
(* The smallest instance of EdgeResearch with an outage over a split.         *)
EXTENDS EdgeResearch

MCOne == <<[family |-> "micro", knob |-> 1, grid |-> TRUE]>>
=============================================================================
