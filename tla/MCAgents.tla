------------------------------- MODULE MCAgents -------------------------------
(* Small instances of AgentLoop and of what is made of its trades, Forward,     *)
(* TradeQuality, RegimeMatrix, Fitness and Evidence, side by side: a behaviour  *)
(* is of one of them, the others at rest.  See README, "Runs".                  *)
EXTENDS AgentLoop, Forward, TradeQuality, RegimeMatrix, Fitness, Evidence

VARIABLE side

\* Results of a trade and of an open position, in the unit of which the account holds 4.
MCPnl == {-5, -1, 2}
MCMarks == {-3, 0, 1}

\* A dead, flat agent whose bars are over, a refresh that has stopped, an open position
\* before its first bar, a market without bars, an account and a version without trades.
AgentAtRest ==
  /\ bar = MaxBar /\ published = MaxBar /\ swept = MaxBar
  /\ timing = CHOOSE t \in Timings : TRUE
  /\ agent = [Fresh EXCEPT !.status = "DEAD", !.valid = FALSE, !.final = Starting]
ForwardAtRest ==
  /\ clock = MaxClock /\ settled = MaxClock
  /\ book = {} /\ deaths = [a \in First \cup Second |-> {}]
  /\ rollover = {MaxClock} /\ scores = {[agent |-> a, as_of |-> t] : a \in First, t \in 1..MaxScores}
  /\ reading = [p \in Reader |-> [NotReading EXCEPT !.step = "over"]] /\ evidence = {}
QualityAtRest == QualityInit /\ ~Immediate

EvidenceAtRest == EvidenceInit /\ untagged = 1

AgentsInit ==
  /\ MatrixInit /\ FitnessInit
  /\ \/ side = "agent" /\ Init /\ ForwardAtRest /\ QualityAtRest /\ EvidenceAtRest
     \/ side = "forward" /\ AgentAtRest /\ ForwardInit /\ QualityAtRest /\ EvidenceAtRest
     \/ side = "quality" /\ AgentAtRest /\ ForwardAtRest /\ QualityInit /\ EvidenceAtRest
     \/ side \in {"matrix", "fitness"} /\ AgentAtRest /\ ForwardAtRest /\ QualityAtRest /\ EvidenceAtRest
     \/ side = "evidence" /\ AgentAtRest /\ ForwardAtRest /\ QualityAtRest /\ EvidenceInit
AgentsNext ==
  \/ side = "agent" /\ Next /\ UNCHANGED <<side, forwardVars, qualityVars, matrixVars, fitnessVars, evidenceVars>>
  \/ side = "forward" /\ ForwardNext /\ UNCHANGED <<side, vars, qualityVars, matrixVars, fitnessVars, evidenceVars>>
  \/ side = "quality" /\ QualityNext /\ UNCHANGED <<side, vars, forwardVars, matrixVars, fitnessVars, evidenceVars>>
  \/ side = "matrix" /\ MatrixNext /\ UNCHANGED <<side, vars, forwardVars, qualityVars, fitnessVars, evidenceVars>>
  \/ side = "fitness" /\ FitnessNext /\ UNCHANGED <<side, vars, forwardVars, qualityVars, matrixVars, evidenceVars>>
  \/ side = "evidence" /\ EvidenceNext /\ UNCHANGED <<side, vars, forwardVars, qualityVars, matrixVars, fitnessVars>>
AgentsSpec ==
  AgentsInit /\ [][AgentsNext]_<<side, vars, forwardVars, qualityVars, matrixVars, fitnessVars, evidenceVars>>
==============================================================================
