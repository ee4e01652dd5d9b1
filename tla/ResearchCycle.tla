--------------------------- MODULE ResearchCycle ---------------------------
(***************************************************************************)
(* The research processes (scripts/run_research.py) and the evolution cycle  *)
(* they run (research/pipeline.py, evolution/breeding.py), over the holdout  *)
(* of Lockbox and the promotion pipeline of Champions.                       *)
(*                                                                         *)
(* A process holds a lease, but looks at it only after a cycle: one that was *)
(* superseded finishes its cycle, or runs one more, beside its successor.    *)
(* A step is a transaction, taken at its commit. What two overlapping        *)
(* processes read of each other inside their transactions is modelled for    *)
(* the holdout only; properties that need more assume they did not overlap.  *)
(* The account side of a rollover is module Rollover's.                      *)
(***************************************************************************)
EXTENDS Champions, SequencesExt

CONSTANTS
  Proc,          \* research processes
  Founders,      \* the members of the first generation
  TopK,          \* research_adversarial_top_k
  EliteSlots,    \* champion_elite_slots
  MaxGen,        \* generations (model bound)
  MaxFaults      \* crashes, exceptions and lost leases (model bound)

ASSUME ResearchAssumption ==
  /\ Founders \subseteq Version /\ Founders # {}
  /\ TopK \in Nat \ {0} /\ EliteSlots \in Nat /\ MaxGen \in Nat \ {0} /\ MaxFaults \in Nat

VARIABLES
  gens,          \* the generations: number, versions of its agents, retired or live
  holder,        \* whose the research lease is, or None
  overlapped,    \* history: a process started while another was still at work
  faults,        \* faults left
  proc           \* per process: where it is, and the locals of _run

vars == <<lineage, lockbox, champions, gens, holder, overlapped, faults, proc>>
store == <<lineage, lockbox, champions, gens>>

Down == [pc |-> "down", gen |-> 0, epoch |-> 0, nominees |-> {}, todo |-> {}, vid |-> None,
         promote |-> FALSE]
Idle == [Down EXCEPT !.pc = "idle"]

Latest == Max({gens[i].number : i \in DOMAIN gens})
Gen(n) == CHOOSE i \in DOMAIN gens : gens[i].number = n
Members(n) == gens[Gen(n)].members

Init ==
  /\ lineage = [v \in Version |-> IF v \in Founders THEN v ELSE None]
  /\ LockboxInit /\ ChampionsInit
  /\ gens = <<[number |-> 1, members |-> Founders, live |-> TRUE]>>
  /\ holder = None /\ overlapped = FALSE /\ faults = MaxFaults
  /\ proc = [p \in Proc |-> Down]

Goes(p, r) == proc' = [proc EXCEPT ![p] = r]

-----------------------------------------------------------------------------
(* The process. *)

\* The lease is free, or the process that holds it is gone and it ran out.
Start(p) ==
  /\ proc[p].pc = "down"
  /\ holder \in {None} \cup {q \in Proc : proc[q].pc = "down"}
  /\ holder' = p
  /\ overlapped' = (overlapped \/ \E q \in Proc : proc[q].pc # "down")
  /\ Goes(p, Idle)
  /\ UNCHANGED <<store, faults>>

\* The heartbeats of a living process stop for longer than the TTL.
Lapse(p) ==
  /\ faults > 0 /\ holder = p /\ proc[p].pc # "down"
  /\ holder' = None /\ faults' = faults - 1
  /\ UNCHANGED <<store, overlapped, proc>>

Crash(p) ==
  /\ faults > 0 /\ proc[p].pc # "down"
  /\ faults' = faults - 1
  /\ Goes(p, Down)
  /\ UNCHANGED <<store, holder, overlapped>>

\* A cycle is over, one way or the other: `if once or force or lease.is_lost: break`.
Ends(p) == Goes(p, IF holder = p THEN Idle ELSE Down)

\* An exception in the cycle: rolled back to the last commit, recorded FAILED.
Fails(p) ==
  /\ faults > 0 /\ proc[p].pc \notin {"down", "idle"}
  /\ faults' = faults - 1
  /\ Ends(p)
  /\ UNCHANGED <<store, holder, overlapped>>

-----------------------------------------------------------------------------
(* The cycle. *)

\* The gates are open (interval, age, history, data, an intact epoch): the latest
\* generation and the active epoch, sealed now if there is none, are fixed for the cycle.
\* In-sample evaluation, correlation, adversarial suites and fitness, committed in four
\* steps that no other step here reads, rank the agents that were ACTIVE; the top of the
\* ranking is nominated.
Begin(p) ==
  /\ proc[p].pc = "idle"
  /\ epochs' = IF ActiveEpoch = 0 THEN Sealed ELSE epochs
  /\ \E noms \in SUBSET Members(Latest) :
       /\ Cardinality(noms) <= TopK
       /\ Goes(p, [Idle EXCEPT !.pc = "nominees", !.gen = Latest,
                               !.epoch = IF ActiveEpoch = 0 THEN Len(epochs) + 1 ELSE ActiveEpoch,
                               !.nominees = noms, !.todo = noms])
  /\ UNCHANGED <<lineage, evals, score, champions, gens, holder, overlapped, faults>>

\* One candidate's walk, and the commit after it. Its version was in `phase`'s list.
Walks(p, phase, v) ==
  \/ /\ ~Compares(v)
     /\ Walked(v)
     /\ Goes(p, [proc[p] EXCEPT !.pc = phase, !.todo = @ \ {v}, !.vid = None])
  \/ /\ Compares(v)
     /\ \E promote \in BOOLEAN :
          /\ promote => MayPromote(v, score'[v])
          /\ Decided(v, promote)
          /\ Goes(p, [proc[p] EXCEPT !.pc = IF phase = "nominees" THEN "verdict" ELSE "orphan_verdict",
                                     !.todo = @ \ {v}, !.vid = v, !.promote = promote])

\* The holdout of this version, or of its lineage, is used up: no simulation.
Refused(p) ==
  /\ proc[p].pc = "nominees"
  /\ \E v \in proc[p].todo :
       /\ Consumed(v, proc[p].epoch) \/ Exhausted(v, proc[p].epoch)
       /\ Recorded(v, proc[p].epoch, None)
       /\ Walks(p, "nominees", v)
  /\ UNCHANGED <<lineage, epochs, gens, holder, overlapped, faults>>

\* It is not, as far as this process saw: the simulation runs in a thread.
Checked(p) ==
  /\ proc[p].pc = "nominees"
  /\ \E v \in proc[p].todo :
       /\ ~Consumed(v, proc[p].epoch) /\ ~Exhausted(v, proc[p].epoch)
       /\ Goes(p, [proc[p] EXCEPT !.pc = "simulate", !.vid = v])
  /\ UNCHANGED <<store, holder, overlapped, faults>>

\* The evaluation's rows go with the walk that reads them.
Simulated(p) ==
  /\ proc[p].pc = "simulate"
  /\ LET v == proc[p].vid IN
     \E oos \in Score :
       /\ oos # None => ~Conflicts(v, proc[p].epoch)
       /\ Recorded(v, proc[p].epoch, oos)
       /\ Walks(p, "nominees", v)
  /\ UNCHANGED <<lineage, epochs, gens, holder, overlapped, faults>>

\* The other process was first: the rollback expires the epoch row that the message of
\* OosAlreadyConsumedError then reads, so the whole cycle fails.
Conflict(p) ==
  /\ proc[p].pc = "simulate" /\ Conflicts(proc[p].vid, proc[p].epoch)
  /\ Ends(p)
  /\ UNCHANGED <<store, holder, overlapped, faults>>

\* The terminal stage of a decision already committed.
Verdict(p) ==
  /\ proc[p].pc \in {"verdict", "orphan_verdict"}
  /\ Concluded(proc[p].vid, proc[p].promote)
  /\ Goes(p, [proc[p] EXCEPT !.pc = IF @ = "verdict" THEN "nominees" ELSE "orphans", !.vid = None,
                             !.promote = FALSE])
  /\ UNCHANGED <<lineage, lockbox, gens, holder, overlapped, faults>>

\* Versions an earlier generation left in the middle of the pipeline.
Orphans_None(p) == {}
Orphans(p) == {v \in Version : stage[v] \notin Terminal \cup {None}} \ proc[p].nominees

Revisit(p) ==
  /\ proc[p].pc = "nominees" /\ proc[p].todo = {}
  /\ Goes(p, [proc[p] EXCEPT !.pc = "orphans", !.todo = Orphans(p)])
  /\ UNCHANGED <<store, holder, overlapped, faults>>

Orphan(p) ==
  /\ proc[p].pc = "orphans"
  /\ UNCHANGED <<evals, score>>
  /\ \E v \in proc[p].todo : Walks(p, "orphans", v)
  /\ UNCHANGED <<lineage, epochs, gens, holder, overlapped, faults>>

-----------------------------------------------------------------------------
(* The next generation. *)

Blocked == {v \in Version : champ[v] \in {"REJECTED", "RETIRED"}}
Parents(gen) == Members(gen) \ Blocked

\* select_elite_versions: champions first, then versions still under observation.
Champs == {v \in Version : champ[v] = "CHAMPION"}
Observing == {v \in Version : stage[v] \in {"observation", "champion_comparison"}} \ (Blocked \cup Champs)
Elites(E) ==
  /\ E \subseteq Champs \cup Observing
  /\ Champs \subseteq E \/ E \subseteq Champs
  /\ Cardinality(E) = Min({EliteSlots, Cardinality(Champs \cup Observing)})

\* Generation.number is unique.
Taken_Never(n) == FALSE
Taken(n) == \E i \in DOMAIN gens : gens[i].number = n

\* retire_generation.
Retired(gen) == [i \in DOMAIN gens |-> IF gens[i].number = gen THEN [gens[i] EXCEPT !.live = FALSE] ELSE gens[i]]

\* Children, retirement and the new generation are one transaction. A child continues a
\* parent's lineage or founds one; after an extinction, when nobody is carried, all do.
Breed(p) ==
  /\ proc[p].pc = "orphans" /\ proc[p].todo = {}
  /\ ~Taken(proc[p].gen + 1) /\ proc[p].gen < MaxGen
  /\ LET gen == proc[p].gen IN
     \E children \in SUBSET (Version \ Born), elites \in SUBSET Version :
       /\ children \cup elites # {}
       /\ elites = {} \/ (Elites(elites) /\ Parents(gen) # {})
       /\ \E origin \in [children -> Parents(gen) \cup children] :
            /\ \A c \in children : origin[c] \in children => origin[c] = c
            /\ lineage' = [v \in Version |-> IF v \notin children THEN lineage[v]
                                             ELSE IF origin[v] = v THEN v ELSE lineage[origin[v]]]
       /\ gens' = Append(Retired(gen), [number |-> gen + 1, members |-> children \cup elites, live |-> TRUE])
  /\ Ends(p)
  /\ UNCHANGED <<lockbox, champions, holder, overlapped, faults>>

\* No candidate passes, nobody may be a parent, or the generation is there already:
\* nothing of the rollover is kept.
Barren(p) ==
  /\ proc[p].pc = "orphans" /\ proc[p].todo = {}
  /\ Ends(p)
  /\ UNCHANGED <<store, holder, overlapped, faults>>

-----------------------------------------------------------------------------
(* The world. *)

\* The operator renews the holdout (run_research --new-oos-epoch), at any time.
Renew ==
  /\ epochs # <<>> /\ Len(epochs) < MaxEpoch
  /\ epochs' = Renewed
  /\ UNCHANGED <<lineage, evals, score, champions, gens, holder, overlapped, faults, proc>>

ADay == Day /\ UNCHANGED <<lineage, lockbox, gens, holder, overlapped, faults, proc>>

Work(p) ==
  \/ Begin(p) \/ Refused(p) \/ Checked(p) \/ Simulated(p) \/ Conflict(p)
  \/ Verdict(p) \/ Revisit(p) \/ Orphan(p) \/ Breed(p) \/ Barren(p)

Next ==
  \/ \E p \in Proc : Start(p) \/ Lapse(p) \/ Crash(p) \/ Fails(p) \/ Work(p)
  \/ Renew \/ ADay

\* The supervisor restarts a process that ended, the gates open again, days pass.
Fairness ==
  /\ \A p \in Proc : WF_vars(Start(p)) /\ WF_vars(Work(p))
  /\ WF_vars(ADay)

Spec == Init /\ [][Next]_vars /\ Fairness

-----------------------------------------------------------------------------
(* Properties. *)

\* Relatives do not share out more evaluations of one holdout than the quota allows
\* (lockbox.py:110), as long as research processes did not overlap.
LineageQuota ==
  ~overlapped => \A v \in Born, e \in Epoch : UsedBy(Relatives(v), e) <= Quota

\* A lineage has at most one champion, whatever crash separates a promotion from the
\* rows after it (promotion_service.py:113), as long as research processes did not overlap.
OneChampionPerLineage ==
  ~overlapped => \A u, v \in Born :
    champ[u] = "CHAMPION" /\ champ[v] = "CHAMPION" /\ lineage[u] = lineage[v] => u = v

\* Generations succeed each other one by one and only the last one is live, also when two
\* processes finish a cycle over the same one (pipeline.py:400: one transaction).
OneSuccessor ==
  /\ \A i, j \in DOMAIN gens : gens[i].number = gens[j].number => i = j
  /\ \A i \in DOMAIN gens : gens[i].live <=> gens[i].number = Latest

\* Every version that reached observation is decided in the end, whatever generation it
\* was born in, however the rollovers, crashes and renewals fall (pipeline.py:332).
CandidatesDecided ==
  \A v \in Version : stage[v] = "observation" ~> stage[v] \in Terminal

\* NOT true of the code: a version whose pipeline ended "rejected" is not the champion.
\* A crash between the promotion's commit and the row of the terminal stage leaves the
\* champion to be compared with itself (champion_challenger_service.py:148).
PipelineAgrees == \A v \in Version : stage[v] = "rejected" => champ[v] # "CHAMPION"
=============================================================================
