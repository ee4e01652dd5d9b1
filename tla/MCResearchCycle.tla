--------------------------- MODULE MCResearchCycle ---------------------------
(* A small instance of ResearchCycle without fairness: see README, "Runs". *)
EXTENDS ResearchCycle
CONSTANTS v1, v2
MCVersion == {v1, v2}
MCFounders == {v1}
SafetySpec == Init /\ [][Next]_vars
=============================================================================
