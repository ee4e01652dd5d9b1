---------------------------- MODULE MCGenerations ----------------------------
(* Small instances of Rollover and Genome, how a generation ends and what the  *)
(* next is bred from: a behaviour is of one of them.  See README, "Runs".       *)
EXTENDS Rollover, Genome

VARIABLE side

\* Stored before the gate refused a trailing stop without a distance; its family decides
\* the direction; its leverage is of a profile no longer drawn.
MCLegacy == {Dna("volatility", Rule(<<Ind("bbands", 20)>>, "auto", {<<"bb_width", 20>>}, {<<"bb_width", 20>>}, {}, {}),
                 2, 2, FALSE, FALSE, TRUE)}

GenerationsInit ==
  \/ side = "rollover" /\ Init /\ alive = {} /\ cand = None /\ tries = 0
  \/ side = "breeding" /\ Init /\ GenomeInit
GenerationsNext == \/ side = "rollover" /\ Next /\ UNCHANGED <<side, genomeVars>>
                   \/ side = "breeding" /\ GenomeNext /\ UNCHANGED <<side, vars>>
GenerationsSpec == GenerationsInit /\ [][GenerationsNext]_<<side, vars, genomeVars>>
==============================================================================
