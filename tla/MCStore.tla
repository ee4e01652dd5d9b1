------------------------------ MODULE MCStore ------------------------------
(* Small instances of WorkerLease and MarketData, the two tables every process *)
(* of the worker shares: a behaviour is of one of them.  See README, "Runs".   *)
EXTENDS WorkerLease, MarketData, TLC

VARIABLE side

\* Processes are interchangeable.
Symmetry == Permutations(Worker)

StoreInit == side \in {"lease", "candles"} /\ Init /\ MarketInit
StoreNext == \/ side = "lease" /\ Next /\ UNCHANGED <<side, marketVars>>
             \/ side = "candles" /\ MarketNext /\ UNCHANGED <<side, vars>>
StoreSpec == StoreInit /\ [][StoreNext]_<<side, vars, marketVars>>
==============================================================================
