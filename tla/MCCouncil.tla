----------------------------- MODULE MCCouncil -----------------------------
EXTENDS Council, TLC
CONSTANTS a1, a2, a3, j, k1, k2
MCAnalyst == {a1, a2, a3}
MCCaller == {a1, a2, a3, j}
MCKey == {k1, k2}
MCAnswer == {"LONG", "SHORT", "NEUTRAL"}
Symmetric == Permutations(MCAnalyst) \cup Permutations(MCKey)
=============================================================================
