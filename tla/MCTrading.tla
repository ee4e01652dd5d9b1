------------------------------ MODULE MCTrading ------------------------------
(* Small instances of PositionManager, Replay, Execution and EdgeResearch side *)
(* by side: a behaviour is of one of them.  See README, "Runs".                *)
EXTENDS PositionManager, Replay, Execution, EdgeResearch

VARIABLE side

\* Ticks of a third of the bars' unit, so that liquidation prices are whole; the rate 1/2.
MCPrice == {6, 9, 12, 15, 18}
MCRate == <<1, 2>>

\* A cap of two trades and a cooldown after a loss, without midnight; the same cap on two days
\* with a cooldown after a win; a cap of one on two days, which a day's first fill uses up.
MCRegimes == {[cap |-> 2, days |-> {}, win |-> 0, loss |-> 2],
              [cap |-> 2, days |-> {3}, win |-> 1, loss |-> 0],
              [cap |-> 1, days |-> {4}, win |-> 0, loss |-> 0]}

MCSpec(family, knob, grid) == [family |-> family, knob |-> knob, grid |-> grid]
\* H1 and H2, one family at two horizons; H4 on bars.
MCLibrary == <<MCSpec("micro", 1, TRUE), MCSpec("micro", 5, TRUE), MCSpec("bars", 5, FALSE)>>
MCSeeds == {MCSpec("strategy", 30, FALSE)}

MCDna(method, fraction, cap, stop, value) ==
  [method |-> method, fraction |-> fraction, cap |-> cap, leverage |-> 2, margin |-> 50,
   stop |-> stop, value |-> value, drawdown |-> 40, daily |-> 30]
MCDnas == {MCDna("fraction_of_equity", 50, {}, "disabled", 1),
           MCDna("fixed_notional", 20, {40}, "structure_based", 1),
           MCDna("risk_based", 25, {}, "atr_multiple", 2),
           MCDna("volatility_based", 40, {}, "fixed_pct", 50)}
MCScenes == {[atr |-> 2, low |-> 0, high |-> 14], [atr |-> 1, low |-> 5, high |-> 11]}
\* An empty book, one deep enough for a lot, a thin one.
MCBooks == {[bids |-> <<>>, asks |-> <<>>],
            [bids |-> <<<<9, 2>>, <<8, 1>>>>, asks |-> <<<<10, 1>>, <<12, 3>>>>],
            [bids |-> <<<<9, 1>>>>, asks |-> <<<<30, 1>>>>]}
MCLimits == [leverage |-> 3, margin |-> 60, exposure |-> 150, loss |-> 25, drawdown |-> 50,
             daily |-> 25, volatility |-> 20]
MCScaling == [target |-> 20, min |-> 50, max |-> 200]
MCDrifts == {-1, 0, 1}

\* A position that is closed, and a run of bars that is over.
PositionAtRest ==
  /\ mode = TRUE /\ position = Opened("LONG", 0, 0, 0, 0) /\ valid = TRUE
  /\ seen = {} /\ exit = {Exit("take_profit", Entry, Entry)}
ReplayAtRest ==
  /\ regime = CHOOSE r \in Regimes : TRUE
  /\ now = LastBar + 1 /\ open = CHOOSE q \in Quote : TRUE
  /\ paper = Account /\ shadow = FALSE /\ replay = Account /\ midnight = "clear"

ExecutionAtRest == ExecutionInit /\ engine = "shadow"

TradingInit ==
  /\ EdgeInit
  /\ \/ side = "position" /\ Init /\ ReplayAtRest /\ ExecutionAtRest
     \/ side = "replay" /\ ReplayInit /\ PositionAtRest /\ ExecutionAtRest
     \/ side = "execution" /\ PositionAtRest /\ ReplayAtRest /\ ExecutionInit
     \/ side = "edge" /\ PositionAtRest /\ ReplayAtRest /\ ExecutionAtRest
TradingNext == \/ side = "position" /\ Next /\ UNCHANGED <<side, replayVars, executionVars, edgeVars>>
               \/ side = "replay" /\ ReplayNext /\ UNCHANGED <<side, vars, executionVars, edgeVars>>
               \/ side = "execution" /\ ExecutionNext /\ UNCHANGED <<side, vars, replayVars, edgeVars>>
               \/ side = "edge" /\ EdgeNext /\ UNCHANGED <<side, vars, replayVars, executionVars>>
TradingSpec == TradingInit /\ [][TradingNext]_<<side, vars, replayVars, executionVars, edgeVars>>
==============================================================================
