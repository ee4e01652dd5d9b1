------------------------- MODULE ResearchCycleProofs -------------------------
(***************************************************************************)
(* The research cycle for every set of processes and versions, every quota, *)
(* any number of generations, renewals, crashes and lost leases.            *)
(*                                                                         *)
(* Generations are numbered in the order of their rows (Numbered), so the   *)
(* number after a cycle's own is free only if that cycle ran over the last  *)
(* one.  What a process still walks is born, and only a born version has a  *)
(* champion status or a stage (Births), so a birth gives a lineage no       *)
(* champion.  Of Champions the whole argument is Singled: the rival that a  *)
(* promotion demotes is the only one.  A lineage's quota (QuotaInv) needs    *)
(* that processes did not overlap: then nobody takes the place that a check *)
(* found.  What a version is judged by comes last: Evidence, the rows by     *)
(* themselves, Forward, the evidence about an agent, Fitness, its score, and  *)
(* RegimeMatrix, the cells of its trades.                                   *)
(***************************************************************************)
EXTENDS ResearchCycle, Evidence, Forward, Fitness, RegimeMatrix, ExtremaLemmas, FiniteSetTheorems,
        Functions, TLAPS

\* Where a process can be, its locals, and a Generation row.
Label == {"down", "idle", "nominees", "simulate", "verdict", "orphans", "orphan_verdict"}
Process ==
  [pc : Label, gen : Nat, epoch : Int, nominees : SUBSET Version, todo : SUBSET Version,
   vid : Version \cup {None}, promote : BOOLEAN]
Generation == [number : Nat, members : SUBSET Version, live : BOOLEAN]

\* The types of the state.
TypeOK ==
  /\ lineage \in [Version -> Version \cup {None}]
  /\ epochs \in Seq(BOOLEAN)
  /\ evals \in [Version -> [Epoch -> Nat]]
  /\ champ \in [Version -> Status] /\ stage \in [Version -> Stage]
  /\ gens \in Seq(Generation)
  /\ proc \in [Proc -> Process]

\* A generation's number is its place, the last one alone is live, its members are born; a
\* cycle is over a generation that exists.
Numbered ==
  /\ Len(gens) > 0
  /\ \A i \in 1..Len(gens) : /\ gens[i].number = i
                             /\ gens[i].live <=> i = Len(gens)
                             /\ gens[i].members \subseteq Born
  /\ \A p \in Proc : proc[p].pc \notin {"down", "idle"} => proc[p].gen \in 1..Len(gens)

\* An unborn version is no champion and in no stage; what a process has still to walk, or to
\* conclude, is born.
Births ==
  /\ \A v \in Version \ Born : champ[v] # "CHAMPION" /\ stage[v] = None
  /\ \A p \in Proc :
       /\ proc[p].todo \subseteq Born
       /\ proc[p].pc \in {"simulate", "verdict", "orphan_verdict"} => proc[p].vid \in Born

\* A lineage has one champion.  A promotion is one step of the model, so here the invariant does
\* not need OneChampionPerLineage's premise.  The code's is a SELECT without a lock and a commit
\* later (promotion_service.py:75): of processes that overlapped nothing is claimed.
Single ==
  \A u, v \in Born :
    champ[u] = "CHAMPION" /\ champ[v] = "CHAMPION" /\ lineage[u] = lineage[v] => u = v

\* The inductive invariant.
IInv == TypeOK /\ Numbered /\ Births /\ Single /\ OosOncePerVersion

\* The Max of the community module, of integers with a bound.
LEMMA MaxType ==
  ASSUME NEW S \in SUBSET Int, S # {}, NEW n \in Int, \A x \in S : x <= n
  PROVE  Max(S) \in S /\ \A x \in S : x <= Max(S)
  <1>1. \E m \in S : \A x \in S : x <= m
    BY MaxExists
  <1>2. \E m \in S : \A x \in S : m >= x
    BY <1>1
  <1>3. Max(S) \in S /\ \A x \in S : Max(S) >= x
    BY <1>2 DEF Max
  <1>. QED BY <1>3

\* Generation n is the n-th row.
LEMMA LatestIs ==
  ASSUME TypeOK, Numbered
  PROVE  /\ Latest = Len(gens) /\ Len(gens) \in Nat
         /\ \A n \in 1..Len(gens) : Gen(n) = n /\ Members(n) \subseteq Born
  <1>. DEFINE n == Len(gens)
              S == {gens[i].number : i \in DOMAIN gens}
  <1>1. n \in Nat /\ n > 0 /\ DOMAIN gens = 1..n
    BY DEF TypeOK, Numbered
  <1>2. S = 1..n
    BY <1>1 DEF Numbered
  <1>. HIDE DEF n, S
  <1>3. Max(S) = n
    <2>1. S \in SUBSET Int /\ n \in S /\ \A x \in S : x <= n
      BY <1>1, <1>2
    <2>2. Max(S) \in S /\ \A x \in S : x <= Max(S)
      BY <1>1, <2>1, MaxType
    <2>. QED BY <1>1, <1>2, <2>2
  <1>4. ASSUME NEW m \in 1..n PROVE Gen(m) = m /\ Members(m) \subseteq Born
    BY <1>1, <1>4 DEF Gen, Members, Numbered, n
  <1>. QED BY <1>1, <1>3, <1>4 DEF Latest, S, n

\* Sealing and renewing give a sequence of epochs.
LEMMA EpochType ==
  ASSUME TypeOK
  PROVE  ActiveEpoch \in Int /\ Len(epochs) \in Nat /\ Sealed \in Seq(BOOLEAN) /\ Renewed \in Seq(BOOLEAN)
  <1>1. Len(epochs) \in Nat /\ DOMAIN epochs = 1..Len(epochs)
    BY DEF TypeOK
  <1>2. ActiveEpoch \in Int
    <2>1. ActiveEpochs \in SUBSET Int /\ \A x \in ActiveEpochs : x <= Len(epochs)
      BY <1>1 DEF ActiveEpochs
    <2>2. CASE ActiveEpochs = {}
      BY <2>2 DEF ActiveEpoch
    <2>3. CASE ActiveEpochs # {}
      <3>1. Len(epochs) \in Int
        BY <1>1
      <3>2. Max(ActiveEpochs) \in ActiveEpochs
        BY <2>1, <2>3, <3>1, MaxType
      <3>. QED BY <2>1, <2>3, <3>2 DEF ActiveEpoch
    <2>. QED BY <2>2, <2>3
  <1>3. Sealed \in Seq(BOOLEAN)
    BY DEF Sealed, TypeOK
  <1>4. Renewed \in Seq(BOOLEAN)
    <2>1. Len(Sealed) \in Nat /\ DOMAIN Sealed = 1..Len(Sealed)
      BY <1>3
    <2>. QED BY <2>1 DEF Renewed
  <1>. QED BY <1>1, <1>2, <1>3, <1>4

\* A process between two cycles has nothing to walk.
LEMMA IdleType ==
  /\ Idle \in Process /\ Idle.pc = "idle" /\ Idle.todo = {}
  /\ Down \in Process /\ Down.pc = "down" /\ Down.todo = {}
  <1>1. Down \in Process /\ Down.pc = "down" /\ Down.todo = {}
    BY DEF Down, Process, Label
  <1>2. Idle \in Process /\ Idle.pc = "idle" /\ Idle.todo = {}
    <2>1. "idle" \in Label
      BY DEF Label
    <2>. HIDE DEF Down
    <2>. QED BY <1>1, <2>1 DEF Idle, Process
  <1>. QED BY <1>1, <1>2

\* A step that ends a cycle and writes nothing.
LEMMA Rested ==
  ASSUME IInv, UNCHANGED store, NEW p \in Proc, NEW r \in {Idle, Down}, Goes(p, r)
  PROVE  IInv'
  <1>1. /\ UNCHANGED <<lineage, epochs, evals, stage, champ, gens>> /\ proc' \in [Proc -> Process]
        /\ \A q \in Proc : proc'[q] = IF q = p THEN r ELSE proc[q]
    BY IdleType DEF Goes, store, lockbox, champions, IInv, TypeOK
  <1>2. r.todo = {} /\ r.pc \in {"down", "idle"}
    BY IdleType
  <1>3. TypeOK' /\ Single' /\ OosOncePerVersion'
    BY <1>1 DEF IInv, TypeOK, Single, OosOncePerVersion, Born
  <1>4. Numbered' /\ Births'
    BY <1>1, <1>2 DEF IInv, Numbered, Births, Born
  <1>. QED BY <1>3, <1>4 DEF IInv

\* A decision leaves a lineage at most one champion: the one it beats is demoted in the same
\* transaction (promotion_service.py:113).
LEMMA Singled ==
  ASSUME TypeOK, Single, NEW v \in Born, NEW promote \in BOOLEAN, promote => v \notin Rivals(v),
         Decided(v, promote), UNCHANGED lineage
  PROVE  Single'
  <1>1. ASSUME NEW a \in Born, NEW b \in Born, a # v, champ'[a] = "CHAMPION",
               champ'[b] = "CHAMPION", lineage[a] = lineage[b]
        PROVE  a = b
    <2>1. champ[a] = "CHAMPION"
      BY <1>1 DEF Decided, Born
    <2>2. CASE b # v
      <3>1. champ[b] = "CHAMPION"
        BY <1>1, <2>2 DEF Decided, Born
      <3>. QED BY <1>1, <2>1, <3>1 DEF Single
    <2>3. CASE b = v /\ ~promote
      <3>1. champ[b] = "CHAMPION"
        BY <1>1, <2>3 DEF Decided, Born
      <3>. QED BY <1>1, <2>1, <3>1 DEF Single
    <2>4. CASE b = v /\ promote
      <3>1. a \in Rivals(v)
        BY <1>1, <2>1, <2>4 DEF Rivals, Competitors, Relatives
      <3>2. \A u \in Rivals(v) : u = a
        BY <3>1 DEF Rivals, Competitors, Relatives, Single
      <3>3. a \in Demoted(v)
        BY <3>1, <3>2 DEF Demoted
      <3>. QED BY <1>1, <2>4, <3>3 DEF Decided, Born
    <2>. QED BY <2>2, <2>3, <2>4
  <1>2. Born' = Born
    BY DEF Born
  <1>. QED BY <1>1, <1>2 DEF Single

\* A candidate's walk, whichever list it comes from, and the decision it may end with.
LEMMA Walking ==
  ASSUME IInv, NEW p \in Proc, NEW walk \in {"nominees", "orphans"}, NEW v \in Born,
         proc[p].pc \in {"nominees", "simulate", "orphans"}, Walks(p, walk, v),
         UNCHANGED <<lineage, gens>>
  PROVE  /\ proc' \in [Proc -> Process] /\ champ' \in [Version -> Status]
         /\ stage' \in [Version -> Stage] /\ Single' /\ Births' /\ Numbered'
  <1>0. /\ TypeOK /\ proc[p] \in Process /\ v \in Version /\ Born' = Born
        /\ proc[p].todo \subseteq Born /\ proc[p].gen \in 1..Len(gens)
    BY DEF IInv, TypeOK, Born, Births, Numbered
  <1>1. /\ champ' \in [Version -> Status] /\ stage' \in [Version -> Stage] /\ Single'
        /\ \A u \in Version \ Born : champ'[u] = champ[u] /\ stage'[u] = stage[u]
    <2>1. CASE Walked(v)
      <3>1. PICK s \in Rests(v) :
              /\ stage' = [stage EXCEPT ![v] = s]
              /\ champ' = IF s = "observation" /\ champ[v] = None
                          THEN [champ EXCEPT ![v] = "CHALLENGER"] ELSE champ
        BY <2>1 DEF Walked
      <3>2. s \in Stage
        BY <1>0 DEF Rests, Stage, TypeOK
      <3>3. champ' \in [Version -> Status] /\ stage' \in [Version -> Stage]
        BY <1>0, <3>1, <3>2 DEF TypeOK, Status
      <3>4. \A u \in Version : champ'[u] = "CHAMPION" <=> champ[u] = "CHAMPION"
        BY <1>0, <3>1 DEF TypeOK, None
      <3>5. Single'
        BY <1>0, <3>4 DEF IInv, Single, Born
      <3>. QED BY <1>0, <3>1, <3>3, <3>5 DEF TypeOK
    <2>2. ASSUME NEW promote \in BOOLEAN, promote => MayPromote(v, score'[v]), Decided(v, promote)
          PROVE  /\ champ' \in [Version -> Status] /\ stage' \in [Version -> Stage] /\ Single'
                 /\ \A u \in Version \ Born : champ'[u] = champ[u] /\ stage'[u] = stage[u]
      <3>1. Single'
        BY <1>0, <2>2, Singled DEF MayPromote, IInv
      <3>2. champ' \in [Version -> Status] /\ stage' \in [Version -> Stage]
        BY <1>0, <2>2 DEF Decided, TypeOK, Status, Stage
      <3>. QED BY <1>0, <2>2, <3>1, <3>2 DEF Decided, TypeOK, Demoted, Rivals, Competitors, Relatives
    <2>3. Walked(v) \/ \E promote \in BOOLEAN : /\ promote => MayPromote(v, score'[v])
                                                /\ Decided(v, promote)
      BY DEF Walks
    <2>. QED BY <2>1, <2>2, <2>3
  <1>2. PICK r \in Process :
          /\ proc' = [proc EXCEPT ![p] = r]
          /\ r.todo \subseteq Born /\ r.gen = proc[p].gen
          /\ r.pc \in {"verdict", "orphan_verdict"} => r.vid = v
          /\ r.pc # "simulate"
    <2>1. [proc[p] EXCEPT !.pc = walk, !.todo = @ \ {v}, !.vid = None] \in Process
      BY <1>0 DEF Process, Label
    <2>2. ASSUME NEW promote \in BOOLEAN, NEW l \in {"verdict", "orphan_verdict"}
          PROVE  [proc[p] EXCEPT !.pc = l, !.todo = @ \ {v}, !.vid = v, !.promote = promote] \in Process
      BY <1>0 DEF Process, Label
    <2>3. \/ Goes(p, [proc[p] EXCEPT !.pc = walk, !.todo = @ \ {v}, !.vid = None])
          \/ \E promote \in BOOLEAN :
               Goes(p, [proc[p] EXCEPT !.pc = IF walk = "nominees" THEN "verdict" ELSE "orphan_verdict",
                                       !.todo = @ \ {v}, !.vid = v, !.promote = promote])
      BY DEF Walks
    <2>4. ASSUME NEW promote \in BOOLEAN,
                 Goes(p, [proc[p] EXCEPT !.pc = IF walk = "nominees" THEN "verdict" ELSE "orphan_verdict",
                                         !.todo = @ \ {v}, !.vid = v, !.promote = promote])
          PROVE  \E r \in Process : /\ proc' = [proc EXCEPT ![p] = r]
                                    /\ r.todo \subseteq Born /\ r.gen = proc[p].gen
                                    /\ r.pc \in {"verdict", "orphan_verdict"} => r.vid = v
                                    /\ r.pc # "simulate"
      <3>. DEFINE l == IF walk = "nominees" THEN "verdict" ELSE "orphan_verdict"
                  r == [proc[p] EXCEPT !.pc = l, !.todo = @ \ {v}, !.vid = v, !.promote = promote]
      <3>1. r \in Process /\ r.todo \subseteq Born /\ r.gen = proc[p].gen /\ r.vid = v /\ r.pc = l
        BY <1>0, <2>2 DEF Process
      <3>2. proc' = [proc EXCEPT ![p] = r]
        BY <2>4 DEF Goes
      <3>. HIDE DEF r
      <3>. QED BY <3>1, <3>2
    <2>5. ASSUME Goes(p, [proc[p] EXCEPT !.pc = walk, !.todo = @ \ {v}, !.vid = None])
          PROVE  \E r \in Process : /\ proc' = [proc EXCEPT ![p] = r]
                                    /\ r.todo \subseteq Born /\ r.gen = proc[p].gen
                                    /\ r.pc \in {"verdict", "orphan_verdict"} => r.vid = v
                                    /\ r.pc # "simulate"
      <3>. DEFINE r == [proc[p] EXCEPT !.pc = walk, !.todo = @ \ {v}, !.vid = None]
      <3>1. r \in Process /\ r.todo \subseteq Born /\ r.gen = proc[p].gen /\ r.pc = walk
        BY <1>0, <2>1 DEF Process
      <3>2. proc' = [proc EXCEPT ![p] = r]
        BY <2>5 DEF Goes
      <3>. HIDE DEF r
      <3>. QED BY <3>1, <3>2
    <2>. QED BY <2>3, <2>4, <2>5
  <1>3. proc' \in [Proc -> Process] /\ \A q \in Proc : proc'[q] = IF q = p THEN r ELSE proc[q]
    BY <1>0, <1>2 DEF TypeOK
  <1>4. Births'
    BY <1>0, <1>1, <1>2, <1>3 DEF IInv, Births
  <1>5. Numbered'
    BY <1>0, <1>2, <1>3 DEF IInv, Numbered
  <1>. QED BY <1>1, <1>3, <1>4, <1>5

\* Rows are inserted only where the constraint finds none.
LEMMA RecordedOnce ==
  ASSUME TypeOK, OosOncePerVersion, NEW v \in Version, NEW e, NEW oos \in Score,
         oos # None => ~Conflicts(v, e), Recorded(v, e, oos)
  PROVE  evals' \in [Version -> [Epoch -> Nat]] /\ OosOncePerVersion'
  <1>1. CASE oos = None
    BY <1>1 DEF Recorded, TypeOK, OosOncePerVersion
  <1>2. CASE oos # None
    <2>1. evals' = [evals EXCEPT ![v] = [evals[v] EXCEPT ![e] = @ + 1]] /\ ~(evals[v][e] > 0)
      BY <1>2 DEF Recorded, Conflicts, Consumed
    <2>. DEFINE row == [evals[v] EXCEPT ![e] = @ + 1]
    <2>2. evals[v] \in [Epoch -> Nat]
      BY DEF TypeOK
    <2>3. row \in [Epoch -> Nat] /\ \A d \in Epoch : row[d] <= 1
      <3>1. CASE e \in Epoch
        <4>1. evals[v][e] \in Nat /\ evals[v][e] + 1 = 1
          BY <2>1, <2>2, <3>1
        <4>. QED BY <2>2, <3>1, <4>1 DEF OosOncePerVersion
      <3>2. CASE e \notin Epoch
        <4>1. row = evals[v]
          BY <2>2, <3>2
        <4>. QED BY <2>2, <4>1 DEF OosOncePerVersion
      <3>. QED BY <3>1, <3>2
    <2>. HIDE DEF row
    <2>4. evals' = [evals EXCEPT ![v] = row]
      BY <2>1 DEF row
    <2>. QED BY <2>3, <2>4 DEF TypeOK, OosOncePerVersion
  <1>. QED BY <1>1, <1>2

\* A step of one process that writes epochs, stages and statuses of born versions only.
LEMMA Moves ==
  ASSUME IInv, NEW p \in Proc, NEW r \in Process, Goes(p, r), r.todo \subseteq Born,
         r.gen \in 1..Len(gens),
         r.pc \in {"simulate", "verdict", "orphan_verdict"} => r.vid \in Born,
         UNCHANGED <<lineage, evals, gens>>, epochs' \in Seq(BOOLEAN),
         champ' \in [Version -> Status], stage' \in [Version -> Stage], Single',
         \A v \in Version \ Born : champ'[v] = champ[v] /\ stage'[v] = stage[v]
  PROVE  IInv'
  <1>1. /\ proc' \in [Proc -> Process] /\ Born' = Born
        /\ \A q \in Proc : proc'[q] = IF q = p THEN r ELSE proc[q]
    BY DEF Goes, IInv, TypeOK, Born
  <1>2. TypeOK' /\ OosOncePerVersion'
    BY <1>1 DEF IInv, TypeOK, OosOncePerVersion
  <1>3. Births'
    BY <1>1 DEF IInv, Births
  <1>4. Numbered'
    BY <1>1 DEF IInv, Numbered
  <1>. QED BY <1>2, <1>3, <1>4 DEF IInv

\* Begin keeps the invariant.
LEMMA BeginStep ==
  ASSUME IInv, NEW p \in Proc, Begin(p)
  PROVE  IInv'
  <1>1. PICK noms \in SUBSET Members(Latest) :
          Goes(p, [Idle EXCEPT !.pc = "nominees", !.gen = Latest,
                               !.epoch = IF ActiveEpoch = 0 THEN Len(epochs) + 1 ELSE ActiveEpoch,
                               !.nominees = noms, !.todo = noms])
    BY DEF Begin
  <1>. DEFINE e == IF ActiveEpoch = 0 THEN Len(epochs) + 1 ELSE ActiveEpoch
              r == [Idle EXCEPT !.pc = "nominees", !.gen = Latest, !.epoch = e,
                                !.nominees = noms, !.todo = noms]
  <1>2. /\ Latest \in 1..Len(gens) /\ Latest \in Nat /\ noms \subseteq Born
        /\ noms \subseteq Version
    BY LatestIs DEF IInv, Born, Numbered
  <1>3. e \in Int
    BY EpochType DEF IInv
  <1>. HIDE DEF e
  <1>4. r \in Process /\ r.todo = noms /\ r.gen = Latest /\ r.pc = "nominees"
    BY <1>2, <1>3, IdleType DEF Process, Label
  <1>5. Goes(p, r)
    BY <1>1 DEF e
  <1>. HIDE DEF r
  <1>6. /\ UNCHANGED <<lineage, evals, gens, champ, stage>> /\ epochs' \in Seq(BOOLEAN)
    BY EpochType DEF Begin, champions, IInv, TypeOK
  <1>7. Single'
    BY <1>6 DEF IInv, Single, Born
  <1>. QED BY <1>2, <1>4, <1>5, <1>6, <1>7, Moves DEF IInv, TypeOK

\* Checked keeps the invariant.
LEMMA CheckedStep ==
  ASSUME IInv, NEW p \in Proc, Checked(p)
  PROVE  IInv'
  <1>1. PICK v \in proc[p].todo : Goes(p, [proc[p] EXCEPT !.pc = "simulate", !.vid = v])
    BY DEF Checked
  <1>. DEFINE r == [proc[p] EXCEPT !.pc = "simulate", !.vid = v]
  <1>2. /\ v \in Born /\ v \in Version /\ proc[p] \in Process /\ proc[p].todo \subseteq Born
        /\ proc[p].gen \in 1..Len(gens)
    BY DEF Checked, IInv, Births, Born, TypeOK, Numbered
  <1>3. r \in Process /\ r.todo = proc[p].todo /\ r.gen = proc[p].gen /\ r.vid = v
    BY <1>2 DEF Process, Label
  <1>. HIDE DEF r
  <1>4. UNCHANGED <<lineage, evals, epochs, gens, champ, stage>>
    BY DEF Checked, store, lockbox, champions
  <1>5. Single'
    BY <1>4 DEF IInv, Single, Born
  <1>. QED BY <1>1, <1>2, <1>3, <1>4, <1>5, Moves DEF IInv, TypeOK, r

\* Revisit keeps the invariant: an orphan has a stage, so it is born.
LEMMA RevisitStep ==
  ASSUME IInv, NEW p \in Proc, Revisit(p)
  PROVE  IInv'
  <1>. DEFINE r == [proc[p] EXCEPT !.pc = "orphans", !.todo = Orphans(p)]
  <1>1. Orphans(p) \subseteq Born /\ Orphans(p) \subseteq Version
    BY DEF Orphans, IInv, Births
  <1>2. proc[p] \in Process /\ proc[p].gen \in 1..Len(gens)
    BY DEF Revisit, IInv, TypeOK, Numbered
  <1>3. r \in Process /\ r.todo = Orphans(p) /\ r.gen = proc[p].gen /\ r.pc = "orphans"
    BY <1>1, <1>2 DEF Process, Label
  <1>4. Goes(p, r) /\ UNCHANGED <<lineage, evals, epochs, gens, champ, stage>>
    BY DEF Revisit, store, lockbox, champions
  <1>. HIDE DEF r
  <1>5. Single'
    BY <1>4 DEF IInv, Single, Born
  <1>. QED BY <1>1, <1>2, <1>3, <1>4, <1>5, Moves DEF IInv, TypeOK

\* Verdict keeps the invariant: it makes no champion.
LEMMA VerdictStep ==
  ASSUME IInv, NEW p \in Proc, Verdict(p)
  PROVE  IInv'
  <1>. DEFINE l == IF proc[p].pc = "verdict" THEN "nominees" ELSE "orphans"
              r == [proc[p] EXCEPT !.pc = l, !.vid = None, !.promote = FALSE]
              v == proc[p].vid
  <1>1. /\ proc[p] \in Process /\ proc[p].gen \in 1..Len(gens) /\ proc[p].todo \subseteq Born
        /\ v \in Born /\ v \in Version
    BY DEF Verdict, IInv, TypeOK, Numbered, Births, Born
  <1>2. r \in Process /\ r.todo = proc[p].todo /\ r.gen = proc[p].gen /\ r.pc = l
    BY <1>1 DEF Process, Label
  <1>3. Goes(p, r) /\ UNCHANGED <<lineage, evals, epochs, gens>>
    BY <1>1 DEF Verdict, lockbox, Process
  <1>4. /\ champ' = champ \/ champ' = [champ EXCEPT ![v] = "REJECTED"]
        /\ stage' = [stage EXCEPT ![v] = "promoted"] \/ stage' = [stage EXCEPT ![v] = "rejected"]
    BY DEF Verdict, Concluded
  <1>. HIDE DEF r, v, l
  <1>5. /\ champ' \in [Version -> Status] /\ stage' \in [Version -> Stage]
        /\ \A u \in Version \ Born : champ'[u] = champ[u] /\ stage'[u] = stage[u]
        /\ \A u \in Version : champ'[u] = "CHAMPION" => champ[u] = "CHAMPION"
    BY <1>1, <1>4 DEF IInv, TypeOK, Status, Stage, Terminal
  <1>6. Single'
    BY <1>3, <1>5 DEF IInv, Single, Born
  <1>7. l \in {"nominees", "orphans"}
    BY DEF l
  <1>. QED BY <1>1, <1>2, <1>3, <1>5, <1>6, <1>7, Moves DEF IInv, TypeOK

\* The walks of nominees and orphans keep the invariant.
LEMMA WalkStep ==
  ASSUME IInv, NEW p \in Proc, Refused(p) \/ Simulated(p) \/ Orphan(p)
  PROVE  IInv'
  <1>1. UNCHANGED <<lineage, epochs, gens>>
    BY DEF Refused, Simulated, Orphan
  <1>2. PICK v \in Born, walk \in {"nominees", "orphans"} :
          /\ proc[p].pc \in {"nominees", "simulate", "orphans"}
          /\ Walks(p, walk, v)
          /\ \/ UNCHANGED evals
             \/ \E oos \in Score : /\ oos # None => ~Conflicts(v, proc[p].epoch)
                                   /\ Recorded(v, proc[p].epoch, oos)
    <2>1. CASE Refused(p)
      <3>1. PICK v \in proc[p].todo : Recorded(v, proc[p].epoch, None) /\ Walks(p, "nominees", v)
        BY <2>1 DEF Refused
      <3>. QED BY <2>1, <3>1 DEF Refused, Recorded, IInv, Births
    <2>2. CASE Simulated(p)
      <3>1. proc[p].vid \in Born
        BY <2>2 DEF Simulated, IInv, Births
      <3>. QED BY <2>2, <3>1 DEF Simulated
    <2>3. CASE Orphan(p)
      <3>1. PICK v \in proc[p].todo : Walks(p, "orphans", v)
        BY <2>3 DEF Orphan
      <3>. QED BY <2>3, <3>1 DEF Orphan, IInv, Births
    <2>. QED BY <2>1, <2>2, <2>3
  <1>3. evals' \in [Version -> [Epoch -> Nat]] /\ OosOncePerVersion'
    <2>1. CASE UNCHANGED evals
      BY <2>1 DEF IInv, TypeOK, OosOncePerVersion
    <2>2. CASE ~UNCHANGED evals
      BY <1>2, <2>2, RecordedOnce DEF IInv, Born
    <2>. QED BY <2>1, <2>2
  <1>4. /\ proc' \in [Proc -> Process] /\ champ' \in [Version -> Status]
        /\ stage' \in [Version -> Stage] /\ Single' /\ Births' /\ Numbered'
    BY <1>1, <1>2, Walking
  <1>. QED BY <1>1, <1>3, <1>4 DEF IInv, TypeOK

\* Breed keeps the invariant: the unique number admits only the cycle over the last
\* generation.
LEMMA BreedStep ==
  ASSUME IInv, NEW p \in Proc, Breed(p)
  PROVE  IInv'
  <1>. DEFINE gen == proc[p].gen
              n == Len(gens)
  <1>1. /\ gen \in 1..n /\ n \in Nat /\ n > 0 /\ proc[p] \in Process
        /\ \A m \in 1..n : Gen(m) = m /\ Members(m) \subseteq Born
        /\ DOMAIN gens = 1..n
    <2>1. TypeOK /\ Numbered
      BY DEF IInv
    <2>2. gen \in 1..n /\ n > 0 /\ proc[p] \in Process
      BY <2>1 DEF Breed, Numbered, TypeOK
    <2>3. n \in Nat /\ DOMAIN gens = 1..n
      BY <2>1 DEF TypeOK
    <2>4. \A m \in 1..n : Gen(m) = m /\ Members(m) \subseteq Born
      BY <2>1, LatestIs
    <2>. QED BY <2>2, <2>3, <2>4
  <1>2. gen = n
    <2>1. ~Taken(gen + 1)
      BY DEF Breed
    <2>2. gen + 1 \notin 1..n
      BY <1>1, <2>1 DEF Taken, IInv, Numbered
    <2>. QED BY <1>1, <2>2
  <1>3. PICK children \in SUBSET (Version \ Born), elites \in SUBSET Version :
          /\ elites = {} \/ (Elites(elites) /\ Parents(gen) # {})
          /\ \E origin \in [children -> Parents(gen) \cup children] :
               /\ \A c \in children : origin[c] \in children => origin[c] = c
               /\ lineage' = [v \in Version |-> IF v \notin children THEN lineage[v]
                                                ELSE IF origin[v] = v THEN v ELSE lineage[origin[v]]]
          /\ gens' = Append(Retired(gen), [number |-> gen + 1, members |-> children \cup elites, live |-> TRUE])
    BY DEF Breed
  <1>4. PICK origin \in [children -> Parents(gen) \cup children] :
          /\ \A c \in children : origin[c] \in children => origin[c] = c
          /\ lineage' = [v \in Version |-> IF v \notin children THEN lineage[v]
                                           ELSE IF origin[v] = v THEN v ELSE lineage[origin[v]]]
    BY <1>3
  <1>5. /\ lineage' \in [Version -> Version \cup {None}]
        /\ \A v \in Version \ children : lineage'[v] = lineage[v]
        /\ \A v \in children : lineage'[v] # None
    <2>1. \A c \in children : origin[c] # c => origin[c] \in Born
      BY <1>1, <1>4 DEF Parents
    <2>2. \A c \in children : c # None
      BY LockboxAssumption
    <2>. QED BY <1>4, <2>1, <2>2 DEF IInv, TypeOK, Born
  <1>6. Born' = Born \cup children
    BY <1>5 DEF Born
  <1>7. UNCHANGED <<epochs, evals, champ, stage>> /\ \E r \in {Idle, Down} : Goes(p, r)
    BY DEF Breed, Ends, lockbox, champions
  <1>8. PICK r \in {Idle, Down} : Goes(p, r)
    BY <1>7
  <1>9. /\ proc' \in [Proc -> Process] /\ r.todo = {} /\ r.pc \in {"idle", "down"}
        /\ \A q \in Proc : proc'[q] = IF q = p THEN r ELSE proc[q]
    BY <1>8, IdleType DEF Goes, IInv, TypeOK
  <1>10. elites \subseteq Born
    <2>1. Champs \subseteq Born /\ Observing \subseteq Born
      BY DEF Champs, Observing, IInv, Births, None
    <2>. QED BY <1>3, <2>1 DEF Elites
  <1>. DEFINE new == [number |-> n + 1, members |-> children \cup elites, live |-> TRUE]
              old == Retired(n)
  <1>11. /\ new \in Generation /\ new.number = n + 1 /\ new.live /\ new.members = children \cup elites
    BY <1>1 DEF Generation
  <1>12. /\ old \in Seq(Generation) /\ Len(old) = n
         /\ \A i \in 1..n : old[i].number = i /\ ~old[i].live /\ old[i].members \subseteq Born
    <2>1. \A i \in 1..n : gens[i] \in Generation
      BY <1>1 DEF IInv, TypeOK
    <2>2. old = [i \in 1..n |-> IF i = n THEN [gens[i] EXCEPT !.live = FALSE] ELSE gens[i]]
      BY <1>1 DEF Retired, IInv, Numbered
    <2>3. \A i \in 1..n : (IF i = n THEN [gens[i] EXCEPT !.live = FALSE] ELSE gens[i]) \in Generation
      BY <2>1 DEF Generation
    <2>4. old \in Seq(Generation) /\ Len(old) = n
      BY <1>1, <2>2, <2>3
    <2>. QED BY <1>1, <2>1, <2>2, <2>4 DEF IInv, Numbered, Generation
  <1>13. gens' = Append(old, new)
    BY <1>2, <1>3
  <1>. HIDE DEF new, old, gen, n
  <1>14. /\ gens' \in Seq(Generation) /\ Len(gens') = n + 1
         /\ \A i \in 1..(n + 1) : gens'[i] = IF i = n + 1 THEN new ELSE old[i]
    BY <1>1, <1>11, <1>12, <1>13
  <1>15. TypeOK' /\ OosOncePerVersion'
    BY <1>5, <1>7, <1>9, <1>14 DEF IInv, TypeOK, OosOncePerVersion
  <1>16. Births'
    BY <1>6, <1>7, <1>9 DEF IInv, Births
  <1>17. Numbered'
    <2>1. ASSUME NEW i \in 1..Len(gens')
          PROVE  gens'[i].number = i /\ (gens'[i].live <=> i = Len(gens')) /\ gens'[i].members \subseteq Born'
      BY <1>1, <1>6, <1>10, <1>11, <1>12, <1>14, <2>1
    <2>2. ASSUME NEW q \in Proc, proc'[q].pc \notin {"down", "idle"}
          PROVE  proc'[q].gen \in 1..Len(gens')
      <3>1. proc'[q] = proc[q]
        BY <1>9, <2>2
      <3>2. proc[q].gen \in 1..n
        BY <2>2, <3>1 DEF IInv, Numbered, n
      <3>. QED BY <1>1, <1>14, <3>1, <3>2
    <2>. QED BY <1>1, <1>14, <2>1, <2>2 DEF Numbered
  <1>18. ASSUME NEW u \in Born', NEW v \in Born', champ'[u] = "CHAMPION", champ'[v] = "CHAMPION",
                lineage'[u] = lineage'[v]
         PROVE  u = v
    <2>1. champ[u] = "CHAMPION" /\ champ[v] = "CHAMPION"
      BY <1>7, <1>18
    <2>2. u \in Born /\ v \in Born
      BY <1>6, <2>1 DEF IInv, Births
    <2>3. lineage'[u] = lineage[u] /\ lineage'[v] = lineage[v]
      BY <1>5, <2>2 DEF Born
    <2>. QED BY <1>18, <2>1, <2>2, <2>3 DEF IInv, Single
  <1>. QED BY <1>15, <1>16, <1>17, <1>18 DEF IInv, Single

\* Every reachable state satisfies the invariant.
LEMMA Inductive == Spec => []IInv
  <1>1. Init => IInv
    <2>. SUFFICES ASSUME Init PROVE IInv
      OBVIOUS
    <2>1. Born = Founders
      BY ResearchAssumption, LockboxAssumption DEF Init, Born
    <2>2. TypeOK
      <3>1. /\ lineage \in [Version -> Version \cup {None}] /\ epochs \in Seq(BOOLEAN)
            /\ evals \in [Version -> [Epoch -> Nat]]
        BY ResearchAssumption DEF Init, LockboxInit
      <3>2. champ \in [Version -> Status] /\ stage \in [Version -> Stage]
        BY DEF Init, ChampionsInit, Status, Stage
      <3>3. gens \in Seq(Generation)
        BY ResearchAssumption DEF Init, Generation
      <3>4. proc \in [Proc -> Process]
        BY IdleType DEF Init
      <3>. QED BY <3>1, <3>2, <3>3, <3>4 DEF TypeOK
    <2>3. Numbered
      BY <2>1, IdleType DEF Init, Numbered
    <2>4. Births
      BY <2>1, IdleType DEF Init, ChampionsInit, Births, None
    <2>5. Single
      BY DEF Init, ChampionsInit, Single, None, Born
    <2>6. OosOncePerVersion
      BY DEF Init, LockboxInit, OosOncePerVersion
    <2>. QED BY <2>2, <2>3, <2>4, <2>5, <2>6 DEF IInv
  <1>2. IInv /\ [Next]_vars => IInv'
    <2>. SUFFICES ASSUME IInv, [Next]_vars PROVE IInv'
      OBVIOUS
    <2>1. ASSUME NEW p \in Proc, Start(p) \/ Lapse(p) \/ Crash(p) \/ Fails(p) \/ Conflict(p) \/ Barren(p)
          PROVE  IInv'
      <3>1. UNCHANGED store /\ ((\E r \in {Idle, Down} : Goes(p, r)) \/ UNCHANGED proc)
        BY <2>1 DEF Start, Lapse, Crash, Fails, Conflict, Barren, Ends
      <3>2. CASE UNCHANGED proc
        BY <3>1, <3>2 DEF store, lockbox, champions, IInv, TypeOK, Single, OosOncePerVersion, Born,
                          Numbered, Births
      <3>. QED BY <3>1, <3>2, Rested
    <2>2. CASE Renew
      <3>1. UNCHANGED <<lineage, evals, champ, stage, gens, proc>> /\ epochs' \in Seq(BOOLEAN)
        BY <2>2, EpochType DEF Renew, champions, IInv
      <3>. QED BY <3>1 DEF IInv, TypeOK, Single, OosOncePerVersion, Born, Numbered, Births
    <2>3. CASE ADay
      <3>1. UNCHANGED <<lineage, epochs, evals, champ, stage, gens, proc>>
        BY <2>3 DEF ADay, Day, lockbox
      <3>. QED BY <3>1 DEF IInv, TypeOK, Single, OosOncePerVersion, Born, Numbered, Births
    <2>4. CASE UNCHANGED vars
      BY <2>4 DEF vars, lockbox, champions, IInv, TypeOK, Single, OosOncePerVersion, Born,
                  Numbered, Births
    <2>. QED BY <2>1, <2>2, <2>3, <2>4, BeginStep, WalkStep, CheckedStep, VerdictStep, RevisitStep,
                BreedStep DEF Next, Work
  <1>. QED BY <1>1, <1>2, PTL DEF Spec

\* As long as no two research processes overlapped, a lineage never has two champions, whatever
\* crash, renewal or failure separates a promotion from the rows after it
\* (promotion_service.py:113), for any number of generations, epochs and failures.
THEOREM OneChampion == Spec => []OneChampionPerLineage
  <1>1. IInv => OneChampionPerLineage
    BY DEF IInv, Single, OneChampionPerLineage
  <1>. QED BY <1>1, Inductive, PTL

\* Generations succeed each other one by one and only the last is live, also when two
\* processes finish a cycle over the same one (pipeline.py:400).
THEOREM Successors == Spec => []OneSuccessor
  <1>1. IInv => OneSuccessor
    <2>. SUFFICES ASSUME IInv PROVE OneSuccessor
      OBVIOUS
    <2>1. Latest = Len(gens) /\ DOMAIN gens = 1..Len(gens)
      BY LatestIs DEF IInv, TypeOK
    <2>. QED BY <2>1 DEF IInv, Numbered, OneSuccessor
  <1>. QED BY <1>1, Inductive, PTL

\* A version is evaluated at most once against one holdout, also when two processes both saw
\* it unused (the UNIQUE constraint of models/research.py).
THEOREM OnceOutOfSample == Spec => []OosOncePerVersion
  <1>1. IInv => OosOncePerVersion
    BY DEF IInv
  <1>. QED BY <1>1, Inductive, PTL

-----------------------------------------------------------------------------
(* The quota of a lineage. *)

\* The rows that a version's lineage has against an epoch, and a simulation under way.
Used(v, e) == UsedBy(Relatives(v), e)
Simulates(p, v, e) == proc[p].pc = "simulate" /\ proc[p].vid = v /\ proc[p].epoch = e

\* Processes that never overlapped are one at a time.
Alone == ~overlapped => \A p, q \in Proc : proc[p].pc # "down" /\ proc[q].pc # "down" => p = q

\* An unborn version has no rows, and a lineage's root is born.
Rooted ==
  /\ \A v \in Version \ Born, e \in Epoch : evals[v][e] = 0
  /\ \A v \in Born : lineage[v] \in Born

\* The quota, and a place in it for the simulation under way: what was checked before it
\* still holds when its row is written.
Spent ==
  ~overlapped => /\ \A v \in Born, e \in Epoch : Used(v, e) <= Quota
                 /\ \A p \in Proc, v \in Born, e \in Epoch : Simulates(p, v, e) => Used(v, e) < Quota

QuotaInv == IInv /\ Alone /\ Rooted /\ Spent

\* The rows of some versions: one of each that was evaluated.
Rows(f, V, e) == {r \in V \X {1} : f[r[1]][e] = 1}
AllRows(f, V, e) == UNION {{u} \X (1..f[u][e]) : u \in V}

\* Where nobody is evaluated twice, the rows numbered one by one are these, and finitely many.
LEMMA RowsAre ==
  ASSUME NEW f \in [Version -> [Epoch -> Nat]], \A v \in Version, e \in Epoch : f[v][e] <= 1,
         NEW V \in SUBSET Version, NEW e \in Epoch
  PROVE  /\ AllRows(f, V, e) = Rows(f, V, e)
         /\ IsFiniteSet(Rows(f, V, e)) /\ Cardinality(Rows(f, V, e)) \in Nat
  <1>. DEFINE ones == {r \in V \X {1} : f[r[1]][e] = 1}
              all == UNION {{u} \X (1..f[u][e]) : u \in V}
  <1>1. ASSUME NEW u \in V PROVE f[u][e] = 0 \/ f[u][e] = 1
    <2>1. f[u] \in [Epoch -> Nat] /\ f[u][e] <= 1
      OBVIOUS
    <2>. DEFINE n == f[u][e]
    <2>2. n \in Nat /\ n <= 1
      BY <2>1
    <2>. HIDE DEF n
    <2>3. n = 0 \/ n = 1
      BY <2>2
    <2>. QED BY <2>3 DEF n
  <1>2. ASSUME NEW u \in V, NEW k PROVE k \in 1..f[u][e] <=> k = 1 /\ f[u][e] = 1
    BY <1>1
  <1>3. \A r : r \in all => r \in ones
    BY <1>2
  <1>4. ASSUME NEW r \in V \X {1}, f[r[1]][e] = 1 PROVE r \in all
    <2>1. r[1] \in V /\ r \in {r[1]} \X (1..f[r[1]][e])
      BY <1>2, <1>4
    <2>. QED BY <2>1
  <1>5. all = ones
    BY <1>3, <1>4
  <1>6. IsFiniteSet(V) /\ IsFiniteSet({1})
    BY LockboxAssumption, FS_Subset, FS_Singleton
  <1>7. IsFiniteSet(V \X {1})
    BY <1>6, FS_Product
  <1>8. IsFiniteSet(ones)
    <2>1. ones \in SUBSET (V \X {1})
      OBVIOUS
    <2>. HIDE DEF ones
    <2>. QED BY <1>7, <2>1, FS_Subset
  <1>. QED BY <1>5, <1>8, FS_CardinalityType DEF Rows, AllRows

\* The count, before and after a step.
LEMMA UsedIs ==
  ASSUME TypeOK, OosOncePerVersion, NEW v, NEW e \in Epoch
  PROVE  /\ Used(v, e) = Cardinality(Rows(evals, Relatives(v), e))
         /\ IsFiniteSet(Rows(evals, Relatives(v), e)) /\ Used(v, e) \in Nat
  <1>1. Relatives(v) \in SUBSET Version
    BY DEF Relatives, Born
  <1>2. evals \in [Version -> [Epoch -> Nat]] /\ \A u \in Version, d \in Epoch : evals[u][d] <= 1
    BY DEF TypeOK, OosOncePerVersion
  <1>3. Used(v, e) = Cardinality(AllRows(evals, Relatives(v), e))
    BY DEF Used, UsedBy, Evaluations, AllRows
  <1>. QED BY <1>1, <1>2, <1>3, RowsAre

\* The same of the next state.
LEMMA UsedBecomes ==
  ASSUME TypeOK', OosOncePerVersion', NEW v, NEW e \in Epoch
  PROVE  /\ Used(v, e)' = Cardinality(Rows(evals', Relatives(v)', e))
         /\ IsFiniteSet(Rows(evals', Relatives(v)', e)) /\ Used(v, e)' \in Nat
  <1>1. Relatives(v)' \in SUBSET Version
    BY DEF Relatives, Born
  <1>2. evals' \in [Version -> [Epoch -> Nat]] /\ \A u \in Version, d \in Epoch : evals'[u][d] <= 1
    BY DEF TypeOK, OosOncePerVersion
  <1>3. Used(v, e)' = Cardinality(AllRows(evals', Relatives(v)', e))
    BY DEF Used, UsedBy, Evaluations, AllRows
  <1>. QED BY <1>1, <1>2, <1>3, RowsAre

\* A count follows the rows.
LEMMA UsedStays ==
  ASSUME UNCHANGED <<lineage, evals>>, NEW v, NEW e
  PROVE  Used(v, e)' = Used(v, e)
  BY DEF Used, UsedBy, Relatives, Evaluations, Born

\* A step that writes no row and starts no simulation.
LEMMA Quiet ==
  ASSUME QuotaInv, UNCHANGED <<lineage, evals>>, overlapped => overlapped',
         \A p \in Proc : proc'[p].pc = "simulate" => proc'[p] = proc[p],
         IInv', Alone'
  PROVE  QuotaInv'
  <1>1. Born' = Born /\ Rooted'
    BY DEF Born, QuotaInv, Rooted
  <1>2. ASSUME ~overlapped', NEW v \in Born', NEW e \in Epoch PROVE Used(v, e)' <= Quota
    BY <1>1, <1>2, UsedStays DEF QuotaInv, Spent
  <1>3. ASSUME ~overlapped', NEW p \in Proc, NEW v \in Born', NEW e \in Epoch, Simulates(p, v, e)'
        PROVE  Used(v, e)' < Quota
    <2>1. Simulates(p, v, e)
      BY <1>3 DEF Simulates
    <2>. QED BY <1>1, <1>3, <2>1, UsedStays DEF QuotaInv, Spent
  <1>4. Spent'
    BY <1>2, <1>3 DEF Spent
  <1>. QED BY <1>1, <1>4 DEF QuotaInv

\* A step of a process at work leaves processes one at a time.
LEMMA StaysAlone ==
  ASSUME TypeOK, Alone, NEW p \in Proc, proc[p].pc # "down", UNCHANGED overlapped,
         NEW r, Goes(p, r)
  PROVE  Alone'
  <1>1. \A q \in Proc : proc'[q] = IF q = p THEN r ELSE proc[q]
    BY DEF Goes, TypeOK
  <1>. QED BY <1>1 DEF Alone

\* What a walk makes of its process.
LEMMA WalksOn ==
  ASSUME TypeOK, NEW p \in Proc, NEW walk \in {"nominees", "orphans"}, NEW v, Walks(p, walk, v)
  PROVE  \E r : Goes(p, r) /\ r.pc # "simulate"
  <1>1. proc[p] \in Process
    BY DEF TypeOK
  <1>2. ASSUME NEW l \in Label, NEW u, NEW b
        PROVE  /\ [proc[p] EXCEPT !.pc = l, !.todo = @ \ {v}, !.vid = u].pc = l
               /\ [proc[p] EXCEPT !.pc = l, !.todo = @ \ {v}, !.vid = u, !.promote = b].pc = l
    BY <1>1 DEF Process
  <1>3. /\ walk \in Label /\ walk # "simulate"
        /\ (IF walk = "nominees" THEN "verdict" ELSE "orphan_verdict") \in Label \ {"simulate"}
    BY DEF Label
  <1>4. CASE Compares(v)
    <2>1. PICK promote \in BOOLEAN :
            Goes(p, [proc[p] EXCEPT !.pc = IF walk = "nominees" THEN "verdict" ELSE "orphan_verdict",
                                    !.todo = @ \ {v}, !.vid = v, !.promote = promote])
      BY <1>4 DEF Walks
    <2>. DEFINE r == [proc[p] EXCEPT !.pc = IF walk = "nominees" THEN "verdict" ELSE "orphan_verdict",
                                     !.todo = @ \ {v}, !.vid = v, !.promote = promote]
    <2>2. r.pc # "simulate"
      BY <1>2, <1>3
    <2>. HIDE DEF r
    <2>3. Goes(p, r)
      BY <2>1 DEF r
    <2>. QED BY <2>2, <2>3
  <1>5. CASE ~Compares(v)
    <2>1. Goes(p, [proc[p] EXCEPT !.pc = walk, !.todo = @ \ {v}, !.vid = None])
      BY <1>5 DEF Walks
    <2>. DEFINE r == [proc[p] EXCEPT !.pc = walk, !.todo = @ \ {v}, !.vid = None]
    <2>2. r.pc # "simulate"
      BY <1>2, <1>3
    <2>. HIDE DEF r
    <2>3. Goes(p, r)
      BY <2>1 DEF r
    <2>. QED BY <2>2, <2>3
  <1>. QED BY <1>4, <1>5

\* The check finds a place, and nobody else is there to take it.
LEMMA CheckedQuota ==
  ASSUME QuotaInv, IInv', NEW p \in Proc, Checked(p)
  PROVE  QuotaInv'
  <1>1. PICK v \in proc[p].todo : /\ ~Exhausted(v, proc[p].epoch)
                                  /\ Goes(p, [proc[p] EXCEPT !.pc = "simulate", !.vid = v])
    BY DEF Checked
  <1>. DEFINE r == [proc[p] EXCEPT !.pc = "simulate", !.vid = v]
  <1>2. /\ UNCHANGED <<lineage, evals, overlapped>> /\ proc[p].pc = "nominees" /\ TypeOK /\ Alone
        /\ proc[p] \in Process /\ v \in Born /\ OosOncePerVersion
    BY DEF Checked, store, lockbox, QuotaInv, IInv, TypeOK, Births
  <1>3. r.vid = v /\ r.epoch = proc[p].epoch
    BY <1>2 DEF Process
  <1>. HIDE DEF r
  <1>4. \A q \in Proc : proc'[q] = IF q = p THEN r ELSE proc[q]
    BY <1>1, <1>2 DEF Goes, TypeOK, r
  <1>5. Alone'
    BY <1>1, <1>2, StaysAlone DEF r
  <1>6. Born' = Born /\ Rooted'
    BY <1>2 DEF Born, QuotaInv, Rooted
  <1>7. ASSUME ~overlapped', NEW w \in Born', NEW e \in Epoch PROVE Used(w, e)' <= Quota
    BY <1>2, <1>6, <1>7, UsedStays DEF QuotaInv, Spent
  <1>8. ASSUME ~overlapped', NEW q \in Proc, NEW w \in Born', NEW e \in Epoch, Simulates(q, w, e)'
        PROVE  Used(w, e)' < Quota
    <2>1. CASE q = p
      <3>1. w = v /\ e = proc[p].epoch
        BY <1>3, <1>4, <1>8, <2>1 DEF Simulates
      <3>2. Used(w, e) \in Nat
        BY <1>2, UsedIs
      <3>3. ~ (Used(w, e) >= Quota) /\ Quota \in Nat
        BY <1>1, <3>1, LockboxAssumption DEF Exhausted, Used
      <3>4. Used(w, e)' = Used(w, e)
        BY <1>2, UsedStays
      <3>. QED BY <3>2, <3>3, <3>4
    <2>2. CASE q # p
      <3>1. Simulates(q, w, e)
        BY <1>4, <1>8, <2>2 DEF Simulates
      <3>. QED BY <1>2, <1>6, <1>8, <3>1, UsedStays DEF QuotaInv, Spent
    <2>. QED BY <2>1, <2>2
  <1>9. Spent'
    BY <1>7, <1>8 DEF Spent
  <1>. QED BY <1>5, <1>6, <1>9 DEF QuotaInv

\* A row more in the count of its lineage, for its epoch.
LEMMA UsedGrows ==
  ASSUME TypeOK, OosOncePerVersion, TypeOK', OosOncePerVersion', UNCHANGED lineage,
         NEW v \in Born, NEW d \in Epoch, evals[v][d] = 0,
         evals' = [evals EXCEPT ![v][d] = @ + 1], NEW w \in Born, NEW e \in Epoch
  PROVE  /\ Used(w, e) \in Nat /\ Used(w, e)' \in Nat /\ Used(w, e)' <= Used(w, e) + 1
         /\ ~ (e = d /\ lineage[w] = lineage[v]) => Used(w, e)' = Used(w, e)
         /\ lineage[w] = lineage[v] => Used(w, e) = Used(v, e)
  <1>. DEFINE V == Relatives(w)
              old == {r \in V \X {1} : evals[r[1]][e] = 1}
              new == {r \in V \X {1} : evals'[r[1]][e] = 1}
  <1>1. V \in SUBSET Version /\ Relatives(w)' = V /\ Relatives(w)' \in SUBSET Version
    BY DEF Relatives, Born
  <1>2. Used(w, e) = Cardinality(old) /\ IsFiniteSet(old) /\ Used(w, e) \in Nat
    BY UsedIs DEF Rows
  <1>3. Used(w, e)' = Cardinality(new) /\ Used(w, e)' \in Nat
    BY <1>1, UsedBecomes DEF Rows
  <1>4. /\ \A u \in Version : \A c \in Epoch : ~ (u = v /\ c = d) => evals'[u][c] = evals[u][c]
        /\ evals'[v][d] = 1 /\ v \in Version
    BY DEF TypeOK, Born
  <1>5. CASE e = d /\ lineage[w] = lineage[v]
    <2>1. v \in V
      BY <1>5 DEF Relatives
    <2>2. new = old \cup {<<v, 1>>}
      <3>1. ASSUME NEW r \in V \X {1} PROVE r \in new <=> r \in old \cup {<<v, 1>>}
        <4>1. r[1] \in Version /\ (r[1] = v <=> r = <<v, 1>>)
          BY <1>1
        <4>. QED BY <1>4, <1>5, <4>1
      <3>2. <<v, 1>> \in V \X {1}
        BY <2>1
      <3>3. \A r \in new : r \in old \cup {<<v, 1>>}
        BY <3>1
      <3>4. \A r \in old \cup {<<v, 1>>} : r \in new
        BY <3>1, <3>2
      <3>. QED BY <3>3, <3>4
    <2>. HIDE DEF old, new, V
    <2>3. Cardinality(new) <= Cardinality(old) + 1
      <3>. DEFINE x == <<v, 1>>
      <3>1. new = old \cup {x} /\ IsFiniteSet(old) /\ Cardinality(old) \in Nat
        BY <1>2, <2>2
      <3>. HIDE DEF x
      <3>2. Cardinality(new) = IF x \in old THEN Cardinality(old) ELSE Cardinality(old) + 1
        BY <3>1, FS_AddElement
      <3>. QED BY <3>1, <3>2
    <2>4. Relatives(v) = Relatives(w)
      BY <1>5 DEF Relatives
    <2>. QED BY <1>2, <1>3, <1>5, <2>3, <2>4 DEF Used
  <1>6. CASE ~ (e = d /\ lineage[w] = lineage[v])
    <2>1. ASSUME NEW r \in V \X {1} PROVE evals'[r[1]][e] = evals[r[1]][e]
      <3>1. r[1] \in Version /\ (r[1] = v => lineage[w] = lineage[v])
        BY DEF Relatives, Born
      <3>. QED BY <1>4, <1>6, <3>1
    <2>2. new = old
      BY <2>1
    <2>3. lineage[w] = lineage[v] => Relatives(v) = Relatives(w)
      BY DEF Relatives
    <2>. HIDE DEF old, new, V
    <2>. QED BY <1>2, <1>3, <1>6, <2>2, <2>3 DEF Used
  <1>. QED BY <1>5, <1>6

\* The row is written in the place that the check found.
LEMMA SimulatedQuota ==
  ASSUME QuotaInv, IInv', NEW p \in Proc, Simulated(p)
  PROVE  QuotaInv'
  <1>. DEFINE v == proc[p].vid
              d == proc[p].epoch
  <1>1. PICK oos \in Score : /\ oos # None => ~Conflicts(v, d)
                             /\ Recorded(v, d, oos) /\ Walks(p, "nominees", v)
    BY DEF Simulated
  <1>2. /\ UNCHANGED <<lineage, overlapped>> /\ proc[p].pc = "simulate"
        /\ TypeOK /\ Alone /\ v \in Born /\ v \in Version /\ OosOncePerVersion
        /\ TypeOK' /\ OosOncePerVersion'
    BY DEF Simulated, QuotaInv, IInv, Births, Born
  <1>3. PICK r : Goes(p, r) /\ r.pc # "simulate"
    BY <1>1, <1>2, WalksOn
  <1>4. \A q \in Proc : proc'[q] = IF q = p THEN r ELSE proc[q]
    BY <1>2, <1>3 DEF Goes, TypeOK
  <1>5. Alone'
    BY <1>2, <1>3, StaysAlone
  <1>6. \A q \in Proc : proc'[q].pc = "simulate" => proc'[q] = proc[q]
    BY <1>3, <1>4
  <1>7. CASE UNCHANGED evals
    BY <1>2, <1>5, <1>6, <1>7, Quiet
  <1>8. CASE evals' # evals
    <2>1. evals' = [evals EXCEPT ![v][d] = @ + 1] /\ ~ (evals[v][d] > 0)
      BY <1>1, <1>8 DEF Recorded, Conflicts, Consumed
    <2>2. d \in Epoch
      <3>1. evals[v] \in [Epoch -> Nat]
        BY <1>2 DEF TypeOK
      <3>2. d \notin Epoch => [evals[v] EXCEPT ![d] = @ + 1] = evals[v]
        BY <3>1
      <3>3. evals' = [evals EXCEPT ![v] = [evals[v] EXCEPT ![d] = @ + 1]]
        BY <2>1
      <3>4. [evals EXCEPT ![v] = evals[v]] = evals
        BY <1>2 DEF TypeOK
      <3>. QED BY <1>8, <3>2, <3>3, <3>4
    <2>3. evals[v][d] = 0
      BY <1>2, <2>1, <2>2 DEF TypeOK
    <2>4. Born' = Born
      BY <1>2 DEF Born
    <2>. HIDE DEF v, d
    <2>5. ASSUME NEW w \in Born, NEW e \in Epoch
          PROVE  /\ Used(w, e) \in Nat /\ Used(w, e)' \in Nat /\ Used(w, e)' <= Used(w, e) + 1
                 /\ ~ (e = d /\ lineage[w] = lineage[v]) => Used(w, e)' = Used(w, e)
                 /\ lineage[w] = lineage[v] => Used(w, e) = Used(v, e)
      BY <1>2, <2>1, <2>2, <2>3, UsedGrows
    <2>6. Simulates(p, v, d)
      BY <1>2 DEF Simulates, v, d
    <2>7. ~overlapped => Used(v, d) < Quota
      BY <1>2, <2>2, <2>6 DEF QuotaInv, Spent
    <2>8. ASSUME ~overlapped', NEW w \in Born', NEW e \in Epoch PROVE Used(w, e)' <= Quota
      <3>1. Used(w, e) <= Quota /\ Quota \in Nat
        BY <1>2, <2>4, <2>8, LockboxAssumption DEF QuotaInv, Spent
      <3>2. CASE e = d /\ lineage[w] = lineage[v]
        <4>1. Used(w, e) = Used(v, d) /\ Used(w, e) \in Nat /\ Used(w, e)' \in Nat
              /\ Used(w, e)' <= Used(w, e) + 1
          BY <2>4, <2>5, <3>2
        <4>. QED BY <1>2, <2>7, <2>8, <3>1, <4>1
      <3>3. CASE ~ (e = d /\ lineage[w] = lineage[v])
        <4>1. Used(w, e)' = Used(w, e)
          BY <2>4, <2>5, <3>3
        <4>. QED BY <3>1, <4>1
      <3>. QED BY <3>2, <3>3
    <2>9. ASSUME ~overlapped', NEW q \in Proc, NEW w \in Born', NEW e \in Epoch
          PROVE  ~ Simulates(q, w, e)'
      <3>1. CASE q = p
        BY <1>3, <1>4, <3>1 DEF Simulates
      <3>2. CASE q # p
        <4>1. proc[q].pc = "down"
          BY <1>2, <2>9, <3>2 DEF Alone
        <4>. QED BY <1>4, <3>2, <4>1 DEF Simulates
      <3>. QED BY <3>1, <3>2
    <2>10. Spent'
      BY <2>8, <2>9 DEF Spent
    <2>11. Rooted'
      <3>1. ASSUME NEW u \in Version \ Born, NEW e \in Epoch PROVE evals'[u][e] = evals[u][e]
        BY <1>2, <2>1 DEF TypeOK
      <3>. QED BY <1>2, <2>4, <3>1 DEF Rooted, QuotaInv
    <2>. QED BY <1>5, <2>10, <2>11 DEF QuotaInv
  <1>. QED BY <1>7, <1>8

\* A child continues a lineage or founds one, and brings no rows to it.
LEMMA BreedQuota ==
  ASSUME QuotaInv, IInv', NEW p \in Proc, Breed(p)
  PROVE  QuotaInv'
  <1>1. /\ UNCHANGED <<evals, overlapped>> /\ proc[p].pc = "orphans"
        /\ TypeOK /\ Alone /\ Rooted /\ OosOncePerVersion /\ TypeOK' /\ OosOncePerVersion' /\ Numbered
    BY DEF Breed, lockbox, QuotaInv, IInv
  <1>2. PICK children \in SUBSET (Version \ Born) :
          \E origin \in [children -> Parents(proc[p].gen) \cup children] :
            /\ \A c \in children : origin[c] \in children => origin[c] = c
            /\ lineage' = [v \in Version |-> IF v \notin children THEN lineage[v]
                                             ELSE IF origin[v] = v THEN v ELSE lineage[origin[v]]]
    BY DEF Breed
  <1>3. PICK origin \in [children -> Parents(proc[p].gen) \cup children] :
          /\ \A c \in children : origin[c] \in children => origin[c] = c
          /\ lineage' = [v \in Version |-> IF v \notin children THEN lineage[v]
                                           ELSE IF origin[v] = v THEN v ELSE lineage[origin[v]]]
    BY <1>2
  <1>4. Parents(proc[p].gen) \subseteq Born
    <2>1. proc[p].gen \in 1..Len(gens)
      BY <1>1 DEF Numbered
    <2>. QED BY <1>1, <2>1, LatestIs DEF Parents
  <1>5. /\ \A v \in Born : lineage'[v] = lineage[v] /\ v \notin children
        /\ \A c \in children : \/ lineage'[c] = c
                               \/ origin[c] \in Born /\ lineage'[c] = lineage[origin[c]]
    <2>1. \A c \in children : origin[c] # c => origin[c] \in Born
      BY <1>3, <1>4
    <2>. QED BY <1>3, <2>1 DEF Born
  <1>6. Born' = Born \cup children
    <2>1. \A c \in children : lineage'[c] # None
      BY <1>1, <1>5, LockboxAssumption DEF Born
    <2>2. \A v \in Version \ children : lineage'[v] = lineage[v]
      BY <1>3
    <2>. QED BY <2>1, <2>2 DEF Born
  <1>7. Rooted'
    <2>1. \A v \in Born' : lineage'[v] \in Born'
      BY <1>1, <1>5, <1>6 DEF Rooted
    <2>2. \A v \in Version \ Born', e \in Epoch : evals'[v][e] = 0
      BY <1>1, <1>6 DEF Rooted
    <2>. QED BY <2>1, <2>2 DEF Rooted
  <1>8. PICK r \in {Idle, Down} : Goes(p, r)
    BY DEF Breed, Ends
  <1>9. /\ \A q \in Proc : proc'[q] = IF q = p THEN r ELSE proc[q]
        /\ r.pc # "simulate" /\ Alone'
    BY <1>1, <1>8, IdleType, StaysAlone DEF Goes, TypeOK
  <1>10. ASSUME NEW v \in Born', NEW w \in Born, NEW e \in Epoch, lineage'[v] = lineage'[w]
         PROVE  Used(v, e)' = Used(w, e)
    <2>. DEFINE V == Relatives(w)
                W == Relatives(v)'
                old == {s \in V \X {1} : evals[s[1]][e] = 1}
                new == {s \in W \X {1} : evals'[s[1]][e] = 1}
    <2>1. V \in SUBSET Version /\ W \in SUBSET Version
      BY DEF Relatives, Born
    <2>2. Used(w, e) = Cardinality(old)
      BY <1>1, UsedIs DEF Rows
    <2>3. Used(v, e)' = Cardinality(new)
      BY <1>1, UsedBecomes DEF Rows
    <2>4. ASSUME NEW u \in Born PROVE u \in V <=> u \in W
      BY <1>5, <1>6, <1>10 DEF Relatives
    <2>5. ASSUME NEW u \in children PROVE evals[u][e] = 0 /\ u \notin V
      BY <1>1 DEF Rooted, Relatives
    <2>6. V \subseteq Born /\ W \subseteq Born \cup children
      BY <1>6 DEF Relatives
    <2>7. ASSUME NEW s PROVE s \in old <=> s \in new
      <3>. HIDE DEF V, W
      <3>1. s \in old => s \in V \X {1} /\ s[1] \in Born /\ s[1] \in W
        BY <2>4, <2>6
      <3>2. s \in new => s \in W \X {1} /\ s[1] \in V
        BY <1>1, <2>4, <2>5, <2>6
      <3>. QED BY <1>1, <3>1, <3>2
    <2>8. old = new
      BY <2>7
    <2>. QED BY <2>2, <2>3, <2>8
  <1>11. ASSUME NEW v \in Born', NEW e \in Epoch, \A w \in Born : lineage'[v] # lineage'[w]
         PROVE  Used(v, e)' = 0
    <2>. DEFINE W == Relatives(v)'
                new == {s \in W \X {1} : evals'[s[1]][e] = 1}
    <2>1. W \in SUBSET Version /\ W \subseteq children
      BY <1>6, <1>11 DEF Relatives, Born
    <2>2. Used(v, e)' = Cardinality(new)
      BY <1>1, UsedBecomes DEF Rows
    <2>3. new = {}
      BY <1>1, <2>1 DEF Rooted
    <2>. QED BY <2>2, <2>3, FS_EmptySet
  <1>12. ASSUME ~overlapped', NEW v \in Born', NEW e \in Epoch PROVE Used(v, e)' <= Quota
    <2>1. CASE \E w \in Born : lineage'[v] = lineage'[w]
      BY <1>1, <1>10, <1>12, <2>1 DEF QuotaInv, Spent
    <2>2. CASE \A w \in Born : lineage'[v] # lineage'[w]
      BY <1>11, <2>2, LockboxAssumption
    <2>. QED BY <2>1, <2>2
  <1>13. ASSUME ~overlapped', NEW q \in Proc, NEW v \in Born', NEW e \in Epoch
         PROVE  ~ Simulates(q, v, e)'
    <2>1. CASE q = p
      BY <1>9, <2>1 DEF Simulates
    <2>2. CASE q # p
      <3>1. proc[q].pc = "down"
        BY <1>1, <1>13, <2>2 DEF Alone
      <3>. QED BY <1>9, <2>2, <3>1 DEF Simulates
    <2>. QED BY <2>1, <2>2
  <1>14. Spent'
    BY <1>12, <1>13 DEF Spent
  <1>. QED BY <1>7, <1>9, <1>14 DEF QuotaInv

\* A process at work goes on, without a row and without a simulation.
LEMMA Onward ==
  ASSUME QuotaInv, IInv', NEW p \in Proc, proc[p].pc # "down",
         UNCHANGED <<lineage, evals, overlapped>>, NEW r, Goes(p, r), r.pc # "simulate"
  PROVE  QuotaInv'
  <1>1. TypeOK /\ Alone
    BY DEF QuotaInv, IInv
  <1>2. \A q \in Proc : proc'[q] = IF q = p THEN r ELSE proc[q]
    BY <1>1 DEF Goes, TypeOK
  <1>3. Alone'
    BY <1>1, StaysAlone
  <1>. QED BY <1>2, <1>3, Quiet

\* The steps that go on like that.
LEMMA OnwardSteps ==
  ASSUME QuotaInv, IInv', NEW p \in Proc,
         \/ Crash(p) \/ Fails(p) \/ Conflict(p) \/ Barren(p) \/ Begin(p) \/ Refused(p)
         \/ Verdict(p) \/ Revisit(p) \/ Orphan(p)
  PROVE  QuotaInv'
  <1>1. TypeOK /\ proc[p] \in Process
    BY DEF QuotaInv, IInv, TypeOK
  <1>2. Idle.pc # "simulate" /\ Down.pc # "simulate"
    BY IdleType
  <1>3. CASE Crash(p) \/ Fails(p) \/ Conflict(p) \/ Barren(p)
    <2>1. /\ proc[p].pc # "down" /\ UNCHANGED <<lineage, evals, overlapped>>
          /\ \E r \in {Idle, Down} : Goes(p, r)
      BY <1>3 DEF Crash, Fails, Conflict, Barren, Ends, store, lockbox
    <2>. QED BY <1>2, <2>1, Onward
  <1>4. CASE Begin(p)
    <2>1. PICK noms \in SUBSET Members(Latest) :
            Goes(p, [Idle EXCEPT !.pc = "nominees", !.gen = Latest,
                                 !.epoch = IF ActiveEpoch = 0 THEN Len(epochs) + 1 ELSE ActiveEpoch,
                                 !.nominees = noms, !.todo = noms])
      BY <1>4 DEF Begin
    <2>. DEFINE r == [Idle EXCEPT !.pc = "nominees", !.gen = Latest,
                                  !.epoch = IF ActiveEpoch = 0 THEN Len(epochs) + 1 ELSE ActiveEpoch,
                                  !.nominees = noms, !.todo = noms]
    <2>2. r.pc # "simulate"
      BY IdleType DEF Process
    <2>3. proc[p].pc # "down" /\ UNCHANGED <<lineage, evals, overlapped>>
      BY <1>4 DEF Begin
    <2>. HIDE DEF r
    <2>4. Goes(p, r)
      BY <2>1 DEF r
    <2>. QED BY <2>2, <2>3, <2>4, Onward
  <1>5. CASE Refused(p)
    <2>1. /\ proc[p].pc # "down" /\ UNCHANGED <<lineage, evals, overlapped>>
          /\ \E v : Walks(p, "nominees", v)
      BY <1>5 DEF Refused, Recorded
    <2>. QED BY <1>1, <2>1, WalksOn, Onward
  <1>6. CASE Orphan(p)
    <2>1. /\ proc[p].pc # "down" /\ UNCHANGED <<lineage, evals, overlapped>>
          /\ \E v : Walks(p, "orphans", v)
      BY <1>6 DEF Orphan
    <2>. QED BY <1>1, <2>1, WalksOn, Onward
  <1>7. CASE Verdict(p)
    <2>. DEFINE r == [proc[p] EXCEPT !.pc = IF @ = "verdict" THEN "nominees" ELSE "orphans",
                                     !.vid = None, !.promote = FALSE]
    <2>1. r.pc # "simulate"
      BY <1>1 DEF Process
    <2>2. proc[p].pc # "down" /\ UNCHANGED <<lineage, evals, overlapped>> /\ Goes(p, r)
      BY <1>7 DEF Verdict, lockbox
    <2>. HIDE DEF r
    <2>. QED BY <2>1, <2>2, Onward
  <1>8. CASE Revisit(p)
    <2>. DEFINE r == [proc[p] EXCEPT !.pc = "orphans", !.todo = Orphans(p)]
    <2>1. r.pc # "simulate"
      BY <1>1 DEF Process
    <2>2. proc[p].pc # "down" /\ UNCHANGED <<lineage, evals, overlapped>> /\ Goes(p, r)
      BY <1>8 DEF Revisit, store, lockbox
    <2>. HIDE DEF r
    <2>. QED BY <2>1, <2>2, Onward
  <1>. QED BY <1>3, <1>4, <1>5, <1>6, <1>7, <1>8

\* A process starts: it overlapped with nobody only if it is alone.
LEMMA StartQuota ==
  ASSUME QuotaInv, IInv', NEW p \in Proc, Start(p)
  PROVE  QuotaInv'
  <1>1. /\ UNCHANGED <<lineage, evals>> /\ Goes(p, Idle) /\ TypeOK
        /\ overlapped' = (overlapped \/ \E q \in Proc : proc[q].pc # "down")
    BY DEF Start, store, lockbox, QuotaInv, IInv
  <1>2. \A q \in Proc : proc'[q] = IF q = p THEN Idle ELSE proc[q]
    BY <1>1 DEF Goes, TypeOK
  <1>3. overlapped => overlapped'
    BY <1>1
  <1>4. Alone'
    BY <1>1, <1>2 DEF Alone
  <1>. QED BY <1>1, <1>2, <1>3, <1>4, IdleType, Quiet

\* The relatives of a lineage stay within their quota of a holdout while research processes do
\* not overlap: between the check and the row nobody else can take the place that the check
\* found, and a child brings no rows into the lineage it is born into (lockbox.py:110).
THEOREM QuotaKept == Spec => []LineageQuota
  <1>1. Init /\ IInv => QuotaInv
    <2>. SUFFICES ASSUME Init, IInv PROVE QuotaInv
      OBVIOUS
    <2>1. Alone /\ \A p \in Proc : proc[p].pc # "simulate"
      BY IdleType DEF Init, Alone
    <2>2. Rooted
      BY ResearchAssumption, LockboxAssumption DEF Init, LockboxInit, Rooted, Born
    <2>3. ASSUME NEW v \in Born, NEW e \in Epoch PROVE Used(v, e) <= Quota
      <3>1. Rows(evals, Relatives(v), e) = {}
        BY DEF Init, LockboxInit, Rows, Relatives, Born
      <3>2. Used(v, e) = 0
        BY <3>1, UsedIs, FS_EmptySet DEF IInv
      <3>. QED BY <3>2, LockboxAssumption
    <2>4. Spent
      BY <2>1, <2>3 DEF Spent, Simulates
    <2>. QED BY <2>1, <2>2, <2>4 DEF QuotaInv
  <1>2. QuotaInv /\ IInv' /\ [Next]_vars => QuotaInv'
    <2>. SUFFICES ASSUME QuotaInv, IInv', [Next]_vars PROVE QuotaInv'
      OBVIOUS
    <2>1. ASSUME UNCHANGED <<lineage, evals, overlapped, proc>> PROVE QuotaInv'
      <3>1. Alone'
        BY <2>1 DEF QuotaInv, Alone
      <3>. QED BY <2>1, <3>1, Quiet
    <2>2. ASSUME NEW p \in Proc, Lapse(p) PROVE QuotaInv'
      BY <2>1, <2>2 DEF Lapse, store, lockbox
    <2>3. CASE Renew \/ ADay
      BY <2>1, <2>3 DEF Renew, ADay, lockbox
    <2>4. CASE UNCHANGED vars
      BY <2>1, <2>4 DEF vars, lockbox
    <2>. QED BY <2>2, <2>3, <2>4, OnwardSteps, StartQuota, CheckedQuota, SimulatedQuota,
                BreedQuota DEF Next, Work
  <1>3. QuotaInv => LineageQuota
    BY DEF QuotaInv, Spent, Used, LineageQuota
  <1>. QED BY <1>1, <1>2, <1>3, Inductive, PTL DEF Spec

-----------------------------------------------------------------------------
\* The evidence a version is promoted on, for every threshold and any number of days: the stages
\* of its review, what they are reached on, and rows that say no more than what has happened.
Reviewed ==
  {Absent, "candidate", "validation", "challenger", "observation", "champion_comparison",
   "promoted", "rejected"}
\* A Review row: its stage and the days it was observed.
IsReview(r) ==
  DOMAIN r = {"stage", "observed"} /\ r.stage \in Reviewed /\ r.observed \in 0..MinObserved

\* What a version has to show never grows less.
Counters ==
  /\ staged \in 0..MinTrades /\ untagged \in Nat
  /\ age \in 0..MinStageDays /\ lived \in 0..MinDays
  /\ hardened \in BOOLEAN
  /\ holdout \in {Absent, "poor", "enough", "clear"}

\* No row says more than what has happened by now.
Shown(p) ==
  \A row \in p :
    /\ row.trades >= MinTrades => staged >= MinTrades \/ untagged >= MinTrades
    /\ row.days >= MinDays => lived >= MinDays

\* A passed suite is remembered by the version.
Hardened == \A s \in suite : s.passed => hardened

\* What each stage of the pipeline was reached on, given the holdout's result.
Earned(r, h) ==
  /\ r.stage \in {"challenger", "observation", "champion_comparison", "promoted"} => hardened
  /\ r.stage \in {"champion_comparison", "promoted"} => r.observed >= MinObserved
  /\ r.stage = "promoted" =>
       /\ staged >= MinTrades \/ untagged >= MinTrades
       /\ lived >= MinDays /\ age >= MinStageDays
       /\ h \in {"enough", "clear"}

\* The inductive invariant of Evidence.
EvidenceInv == Counters /\ IsReview(review) /\ Shown(paper) /\ Hardened /\ Earned(review, holdout)

\* One step of advance_pipeline_stage.
LEMMA AdvancedEarns ==
  ASSUME NEW r, IsReview(r), NEW p, Shown(p), Hardened, NEW h, Earned(r, h), NEW e, NEW b, NEW c
  PROVE  LET x == Advanced(r, b, p, h, suite, c, e) IN IsReview(x) /\ Earned(x, h)
  <1>. DEFINE x == Advanced(r, b, p, h, suite, c, e)
  <1>1. CASE r.stage \in {Absent, "candidate"}
    BY <1>1 DEF Advanced, IsReview, Reviewed, Earned, Absent
  <1>2. CASE r.stage = "validation"
    BY <1>2 DEF Advanced, IsReview, Reviewed, Earned, Absent, Hardened
  <1>3. CASE r.stage = "challenger"
    <2>1. x = [stage |-> "observation", observed |-> 0]
      BY <1>3 DEF Advanced, Absent
    <2>. QED BY <1>3, <2>1, EvidenceAssumption DEF IsReview, Reviewed, Earned
  <1>4. CASE r.stage = "observation"
    <2>1. x = r \/ (x = [r EXCEPT !.stage = "champion_comparison"] /\ r.observed >= MinObserved)
      BY <1>4 DEF Advanced, Absent
    <2>. QED BY <1>4, <2>1 DEF IsReview, Reviewed, Earned
  <1>5. CASE r.stage = "champion_comparison"
    <2>1. \/ x = [r EXCEPT !.stage = "promoted"] /\ Passes(b, p, h, suite, c, e)
          \/ x = [r EXCEPT !.stage = "rejected"]
      BY <1>5 DEF Advanced, Absent
    <2>2. Passes(b, p, h, suite, c, e) =>
            /\ staged >= MinTrades \/ untagged >= MinTrades
            /\ lived >= MinDays /\ age >= MinStageDays
            /\ h \in {"enough", "clear"}
      BY DEF Passes, Shown, Comparable, Reliable
    <2>. QED BY <1>5, <2>1, <2>2 DEF IsReview, Reviewed, Earned
  <1>6. CASE r.stage \in {"promoted", "rejected"}
    BY <1>6 DEF Advanced, Absent
  <1>. QED BY <1>1, <1>2, <1>3, <1>4, <1>5, <1>6 DEF IsReview, Reviewed

\* The whole walk: six steps at most.
LEMMA WalkEarns ==
  ASSUME IsReview(review), NEW p, Shown(p), Hardened, NEW h, Earned(review, h), NEW e
  PROVE  IsReview(Advances(p, h, e)) /\ Earned(Advances(p, h, e), h)
  <1>. DEFINE Step(r) == Advanced(r, backtest, p, h, suite, regime, e)
              Good(r) == IsReview(r) /\ Earned(r, h)
              Eq(f) == f = [n \in 0..6 |-> IF n = 0 THEN review ELSE Step(f[n - 1])]
              at == CHOOSE f : Eq(f)
  <1>1. \A r : Good(r) => Good(Step(r))
    BY AdvancedEarns
  <1>2. Good(review)
    OBVIOUS
  <1>3. Advances(p, h, e) = at[6]
    BY DEF Advances
  <1>. HIDE DEF Step, Good
  <1>4. \E f : Eq(f)
    <2>. DEFINE r1 == Step(review)
                r2 == Step(r1)
                r3 == Step(r2)
                r4 == Step(r3)
                r5 == Step(r4)
                r6 == Step(r5)
                w == [n \in 0..6 |-> IF n = 0 THEN review ELSE IF n = 1 THEN r1 ELSE IF n = 2 THEN r2
                                     ELSE IF n = 3 THEN r3 ELSE IF n = 4 THEN r4
                                     ELSE IF n = 5 THEN r5 ELSE r6]
    <2>1. /\ w[0] = review /\ w[1] = Step(w[0]) /\ w[2] = Step(w[1]) /\ w[3] = Step(w[2])
          /\ w[4] = Step(w[3]) /\ w[5] = Step(w[4]) /\ w[6] = Step(w[5])
      OBVIOUS
    <2>2. w = [n \in 0..6 |-> w[n]]
      OBVIOUS
    <2>. HIDE DEF w
    <2>3. \A n \in 0..6 : w[n] = IF n = 0 THEN review ELSE Step(w[n - 1])
      BY <2>1
    <2>4. [n \in 0..6 |-> w[n]] = [n \in 0..6 |-> IF n = 0 THEN review ELSE Step(w[n - 1])]
      BY <2>3
    <2>5. Eq(w)
      BY <2>2, <2>4
    <2>. QED BY <2>5
  <1>5. Eq(at)
    BY <1>4
  <1>. HIDE DEF at
  <1>6. /\ at[0] = review /\ at[1] = Step(at[0]) /\ at[2] = Step(at[1]) /\ at[3] = Step(at[2])
        /\ at[4] = Step(at[3]) /\ at[5] = Step(at[4]) /\ at[6] = Step(at[5])
    BY <1>5
  <1>7. Good(at[6])
    BY <1>1, <1>2, <1>6
  <1>. QED BY <1>3, <1>7 DEF Good

\* A version without rows, trades or days has earned no stage.
LEMMA EvidenceStart == EvidenceInit => EvidenceInv
  <1>. SUFFICES ASSUME EvidenceInit PROVE EvidenceInv
    OBVIOUS
  <1>1. hardened \in BOOLEAN
    BY Zenon DEF EvidenceInit
  <1>2. Counters
    BY <1>1, EvidenceAssumption DEF EvidenceInit, Counters
  <1>3. IsReview(review) /\ Shown(paper) /\ Hardened /\ Earned(review, holdout)
    BY EvidenceAssumption DEF EvidenceInit, IsReview, Reviewed, Shown, Hardened, Earned, Absent
  <1>. QED BY <1>2, <1>3 DEF EvidenceInv

\* Rows age, thresholds do not: what a stage was reached on is never taken back.
LEMMA EvidenceInductive == EvidenceSpec => []EvidenceInv
  <1>1. ASSUME EvidenceInv, [EvidenceNext]_evidenceVars PROVE EvidenceInv'
    <2>. USE DEF EvidenceInv
    <2>1. CASE TradeCounted
      <3>1. Counters' /\ staged' = staged + 1 /\ staged \in Nat
        BY <1>1, <2>1, EvidenceAssumption DEF TradeCounted, Counters, rows
      <3>2. UNCHANGED <<untagged, age, lived, paper, suite, holdout, hardened, review>>
        BY <2>1 DEF TradeCounted, rows
      <3>. QED
        BY <1>1, <3>1, <3>2, EvidenceAssumption DEF IsReview, Shown, Hardened, Earned
    <2>2. CASE DayPasses
      <3>1. /\ Counters' /\ lived' >= lived /\ age' >= age
            /\ UNCHANGED <<staged, untagged, paper, suite, holdout, hardened>>
        BY <1>1, <2>2, EvidenceAssumption DEF DayPasses, Counters, rows, Capped
      <3>2. /\ IsReview(review') /\ review'.stage = review.stage
            /\ review.stage # "observation" => review'.observed = review.observed
        BY <1>1, <2>2, EvidenceAssumption DEF DayPasses, IsReview, Capped
      <3>. QED
        BY <1>1, <3>1, <3>2, EvidenceAssumption DEF Counters, IsReview, Shown, Hardened, Earned
    <2>3. CASE NewGeneration \/ InSample
      BY <1>1, <2>3, EvidenceAssumption
         DEF NewGeneration, InSample, Counters, IsReview, Shown, Hardened, Earned, trading, rows
    <2>4. CASE Stressed
      <3>1. /\ UNCHANGED <<staged, untagged, age, lived, paper, holdout, review>>
            /\ hardened' \in BOOLEAN /\ (hardened => hardened')
            /\ Hardened'
        BY <1>1, <2>4 DEF Stressed, Counters, Hardened, trading, Suites, Passed
      <3>. QED BY <1>1, <3>1 DEF Counters, IsReview, Shown, Earned
    <2>5. CASE Nominated
      <3>1. PICK e \in BOOLEAN, sound \in BOOLEAN, h \in {Absent, "poor", "enough", "clear"} :
              /\ holdout # Absent => h = holdout
              /\ holdout' = h
              /\ paper' = {PaperRow(sound)}
              /\ review' = Advances(paper', holdout', e)
        BY <2>5 DEF Nominated
      <3>2. UNCHANGED <<staged, untagged, age, lived, suite, hardened>>
        BY <2>5 DEF Nominated, trading
      <3>3. Shown(paper')
        BY <1>1, <3>1, EvidenceAssumption DEF Counters, Shown, PaperRow, Counted
      <3>4. Earned(review, h)
        BY <1>1, <3>1 DEF Earned, Absent
      <3>5. IsReview(review') /\ Earned(review', h)
        BY <1>1, <3>1, <3>3, <3>4, WalkEarns
      <3>. QED BY <1>1, <3>1, <3>2, <3>3, <3>5 DEF Counters, IsReview, Shown, Hardened, Earned
    <2>6. CASE Revisited
      <3>1. UNCHANGED <<staged, untagged, age, lived, paper, suite, holdout, hardened>>
        BY <2>6 DEF Revisited, trading, rows
      <3>2. PICK e \in BOOLEAN : review' = review \/ review' = Advances(paper, holdout, e)
        BY <2>6 DEF Revisited
      <3>3. IsReview(review') /\ Earned(review', holdout)
        BY <1>1, <3>2, WalkEarns
      <3>. QED BY <1>1, <3>1, <3>3 DEF Counters, IsReview, Shown, Hardened, Earned
    <2>7. CASE UNCHANGED evidenceVars
      BY <1>1, <2>7 DEF evidenceVars, Counters, IsReview, Shown, Hardened, Earned
    <2>. QED BY <1>1, <2>1, <2>2, <2>3, <2>4, <2>5, <2>6, <2>7 DEF EvidenceNext
  <1>. QED BY <1>1, EvidenceStart, PTL DEF EvidenceSpec

\* A promoted version has traded, aged, passed a suite, been observed and met its holdout:
\* evaluate_promotion never reads two rows into one record.
THEOREM PromotionsEarned == EvidenceSpec => []PromotionEarned
  <1>1. EvidenceInv => PromotionEarned
    BY DEF EvidenceInv, Earned, PromotionEarned
  <1>. QED BY <1>1, EvidenceInductive, PTL
-----------------------------------------------------------------------------
(* Forward evidence.  The invariant keeps, for each row, the trades it was computed from,   *)
(* and that every trade closed since is later than all of them (Later): bars are committed  *)
(* in order and a rollover falls between two of them (Dated).  A window never reaches past  *)
(* the data it was read from (RowFounded), so no later trade can fall into it.              *)

Trader == First \cup Second
Trade == [agent : Trader, at : Nat]
Place == Trader \X Int \X Horizons
Read == [step : {"idle", "agents", "trades", "generations"}, existing : SUBSET Place,
         deaths : [Trader -> SUBSET Nat] \cup {{}}, book : SUBSET Trade, rollover : SUBSET Nat]

\* The trades of C that B does not have closed after all that it has.
Later(B, C) == \A t \in C \ B : \A u \in B : u.at < t.at

\* The row was computed from the trades B, and its window lies within them.
Founded(e, B) ==
  /\ Later(B, book)
  /\ e.future = {t \in TradesOf(B, e.agent) : e.as_of < t.at /\ t.at <= e.end}
  /\ e.known = {t \in TradesOf(B, e.agent) : t.at <= e.as_of}
  /\ e.end \in Int /\ \E u \in B : u.at = e.upto
  /\ e.as_of < e.upto => e.end <= e.upto

\* A trade closed with a committed bar, or at the rollover inside the bar after it.
Dated == \A t \in book :
           /\ t.at <= clock
           /\ t.at <= settled \/ (rollover # {} /\ t.at < settled + Interval)

\* The inductive invariant.
ForwardInv ==
  /\ clock \in Nat /\ settled \in Nat
  /\ book \in SUBSET Trade /\ deaths \in [Trader -> SUBSET Nat] /\ rollover \in SUBSET Nat
  /\ scores \in SUBSET [agent : Trader, as_of : Nat]
  /\ reading \in [Reader -> Read]
  /\ Dated
  /\ \A p \in Reader : reading[p].book \subseteq book /\ Later(reading[p].book, book)
  /\ \A p \in Reader : reading[p].step # "idle" => reading[p].deaths \in [Trader -> SUBSET Nat]
  /\ \A e \in evidence : Key(e) \in Place /\ e.as_of \in Int /\ \E B \in SUBSET book : Founded(e, B)

\* The Min of the community module, of naturals.
LEMMA MinType ==
  ASSUME NEW S \in SUBSET Nat, S # {}
  PROVE  Min(S) \in S /\ \A x \in S : Min(S) <= x
  <1>1. \E m \in S : \A x \in S : m <= x
    BY MinExists
  <1>. QED BY <1>1 DEF Min

\* The data ends with the last trade read.
LEMMA DataEnds ==
  ASSUME NEW r \in Read, r.book # {}, clock \in Nat, \A t \in r.book : t.at <= clock
  PROVE  DataEnd(r) \in Nat /\ \E u \in r.book : u.at = DataEnd(r)
  <1>. DEFINE closes == {t.at : t \in r.book}
  <1>1. r.book \subseteq Trade
    BY DEF Read
  <1>2. /\ closes # {} /\ closes \in SUBSET Int /\ closes \subseteq Nat
        /\ clock \in Int /\ \A x \in closes : x <= clock
    BY <1>1 DEF Trade
  <1>. HIDE DEF closes
  <1>3. Max(closes) \in closes
    BY <1>2, MaxType
  <1>. QED BY <1>2, <1>3 DEF DataEnd, closes

\* No window of a fitness at T reaches past data that ends after T.
LEMMA WindowWithin ==
  ASSUME ForwardAssumption, NEW r \in Read, r.deaths \in [Trader -> SUBSET Nat], r.book # {},
         clock \in Nat, \A t \in r.book : t.at <= clock,
         NEW a \in Trader, NEW T \in Nat, NEW h \in Horizons
  PROVE  /\ WindowEnd(r, a, T, h) \in Nat
         /\ T < DataEnd(r) => WindowEnd(r, a, T, h) <= DataEnd(r)
  <1>. DEFINE ends == {T + h} \cup {b \in r.deaths[a] \cup RolledAt(r, a) \cup {DataEnd(r)} : b > T}
  <1>1. DataEnd(r) \in Nat
    BY DataEnds
  <1>2. RolledAt(r, a) \subseteq Nat
    BY DEF RolledAt, Read
  <1>3. ends \in SUBSET Nat /\ ends # {}
    BY <1>1, <1>2 DEF ForwardAssumption
  <1>4. Min(ends) \in Nat /\ \A x \in ends : Min(ends) <= x
    BY <1>3, MinType
  <1>5. T < DataEnd(r) => DataEnd(r) \in ends
    BY <1>1
  <1>. QED BY <1>4, <1>5 DEF WindowEnd

LEMMA RowFounded ==
  ASSUME ForwardAssumption, NEW r \in Read, r.deaths \in [Trader -> SUBSET Nat], r.book # {},
         clock \in Nat, \A t \in r.book : t.at <= clock, Later(r.book, book),
         NEW a \in Trader, NEW T \in Nat, NEW h \in Horizons, NEW source
  PROVE  Founded(Row(r, a, T, h, source), r.book)
  <1>1. DataEnd(r) \in Nat /\ \E u \in r.book : u.at = DataEnd(r)
    BY DataEnds
  <1>2. /\ WindowEnd(r, a, T, h) \in Nat
        /\ T < DataEnd(r) => WindowEnd(r, a, T, h) <= DataEnd(r)
    BY WindowWithin
  <1>. QED BY <1>1, <1>2 DEF Founded, Row

\* The points of the grid are times.
LEMMA GridTimes ==
  ASSUME ForwardAssumption, NEW r \in Read, NEW a \in Trader, TradesOf(r.book, a) # {},
         clock \in Nat, \A t \in r.book : t.at <= clock
  PROVE  GridPoints(r, a) \subseteq Nat
  <1>. DEFINE peers == IF a \in First THEN First ELSE Second
              closes == {t.at : t \in {u \in r.book : u.agent \in peers}}
              boundary == Min(RolledAt(r, a) \cup {DataEnd(r)})
              steps == Max({1, (boundary - Anchor(r, a)) \div Grid})
  <1>1. r.book \subseteq Trade /\ r.book # {}
    BY DEF Read, TradesOf
  <1>2. a \in peers
    BY DEF Trader
  <1>3. closes \in SUBSET Nat /\ closes # {}
    BY <1>1, <1>2 DEF Trade, TradesOf
  <1>4. Anchor(r, a) \in Nat
    BY <1>3, MinType DEF Anchor
  <1>5. DataEnd(r) \in Nat
    BY <1>1, DataEnds
  <1>6. RolledAt(r, a) \cup {DataEnd(r)} \in SUBSET Nat
    BY <1>5 DEF RolledAt, Read
  <1>7. boundary \in Nat
    BY <1>6, MinType
  <1>8. (boundary - Anchor(r, a)) \div Grid \in Int
    BY <1>4, <1>7 DEF ForwardAssumption
  <1>9. steps \in Int
    <2>. DEFINE x == (boundary - Anchor(r, a)) \div Grid
    <2>1. \A y \in {1, x} : y <= (IF x <= 1 THEN 1 ELSE x)
      BY <1>8
    <2>2. {1, x} \in SUBSET Int /\ {1, x} # {} /\ (IF x <= 1 THEN 1 ELSE x) \in Int
      BY <1>8
    <2>. HIDE DEF x
    <2>3. Max({1, x}) \in Int
      BY <2>1, <2>2, MaxType
    <2>. QED BY <2>3 DEF x
  <1>10. \A i \in 1..steps : Anchor(r, a) + Grid * i \in Nat
    BY <1>4, <1>9 DEF ForwardAssumption
  <1>. QED BY <1>10 DEF GridPoints

\* Every row a refresh may write is computed from what it has read.
LEMMA RowsFounded ==
  ASSUME ForwardAssumption, ForwardInv, NEW p \in Reader, reading[p].step = "generations",
         NEW e \in NewRows(reading[p])
  PROVE  /\ Key(e) \in Place /\ e.as_of \in Int
         /\ \E B \in SUBSET book : Founded(e, B)
  <1>. DEFINE r == reading[p]
  <1>1. /\ r \in Read /\ r.deaths \in [Trader -> SUBSET Nat]
        /\ r.book \subseteq book /\ Later(r.book, book) /\ clock \in Nat
        /\ \A t \in r.book : t.at <= clock
    BY DEF ForwardInv, Dated
  <1>. HIDE DEF r
  <1>2. PICK u \in r.book : e \in RowsOf(r, u.agent)
    BY DEF NewRows, r
  <1>. DEFINE a == u.agent
  <1>3. a \in Trader /\ r.book # {} /\ TradesOf(r.book, a) # {}
    BY <1>1 DEF Read, Trade, TradesOf
  <1>. HIDE DEF a
  <1>4. e \in RowsOf(r, a)
    BY <1>2 DEF a
  <1>5. {s.as_of : s \in {x \in scores : x.agent = a}} \subseteq Nat
    BY DEF ForwardInv
  <1>6. GridPoints(r, a) \subseteq Nat
    BY <1>1, <1>3, GridTimes
  <1>7. \E T \in Nat, h \in Horizons, source \in {"recorded", "reconstructed"} :
          e = Row(r, a, T, h, source)
    BY <1>4, <1>5, <1>6 DEF RowsOf
  <1>8. PICK T \in Nat, h \in Horizons, source \in {"recorded", "reconstructed"} :
          e = Row(r, a, T, h, source)
    BY <1>7
  <1>9. e.agent = a /\ e.as_of = T /\ e.horizon = h
    BY <1>8 DEF Row
  <1>10. Founded(e, r.book)
    BY <1>1, <1>3, <1>8, RowFounded
  <1>. QED BY <1>1, <1>3, <1>9, <1>10 DEF Key, Place

\* A row stays founded while only later trades are added.
LEMMA StaysFounded ==
  ASSUME book \in SUBSET Trade, book' \in SUBSET Trade, book \subseteq book', Later(book, book')
  PROVE  /\ \A B \in SUBSET book : Later(B, book) => Later(B, book')
         /\ \A e, B : B \subseteq book /\ Founded(e, B) => Founded(e, B)'
  <1>1. ASSUME NEW B \in SUBSET book, Later(B, book) PROVE Later(B, book')
    BY <1>1 DEF Later
  <1>2. ASSUME NEW e, NEW B, B \subseteq book, Founded(e, B) PROVE Founded(e, B)'
    <2>1. Later(B, book')
      BY <1>1, <1>2 DEF Founded
    <2>. QED BY <1>2, <2>1 DEF Founded
  <1>. QED BY <1>1, <1>2

LEMMA ForwardStart == ForwardInit => ForwardInv
  BY DEF ForwardInit, ForwardInv, NotReading, Read, Trader, Dated, Later

\* Trades of one moment, later than every trade before them.
LEMMA TradesAdded ==
  ASSUME ForwardInv, NEW S \in SUBSET Trader, NEW at \in Nat, \A t \in book : t.at < at,
         book' = book \cup {[agent |-> a, at |-> at] : a \in S},
         UNCHANGED <<reading, evidence>>
  PROVE  /\ book' \in SUBSET Trade /\ \A t \in book' : t \in book \/ t.at = at
         /\ \A p \in Reader : reading'[p].book \subseteq book' /\ Later(reading'[p].book, book')
         /\ \A e \in evidence' : Key(e) \in Place /\ e.as_of \in Int
                                 /\ \E B \in SUBSET book' : Founded(e, B)'
  <1>1. book \in SUBSET Trade /\ book' \in SUBSET Trade /\ book \subseteq book'
    BY DEF ForwardInv, Trade
  <1>2. \A t \in book' : t \in book \/ t.at = at
    OBVIOUS
  <1>3. Later(book, book')
    BY <1>2 DEF Later
  <1>4. /\ \A B \in SUBSET book : Later(B, book) => Later(B, book')
        /\ \A e, B : B \subseteq book /\ Founded(e, B) => Founded(e, B)'
    BY <1>1, <1>3, StaysFounded
  <1>5. \A p \in Reader : reading'[p].book \subseteq book' /\ Later(reading'[p].book, book')
    BY <1>1, <1>4 DEF ForwardInv
  <1>6. \A e \in evidence' : Key(e) \in Place /\ e.as_of \in Int
                             /\ \E B \in SUBSET book' : Founded(e, B)'
    BY <1>1, <1>4 DEF ForwardInv
  <1>. QED BY <1>1, <1>2, <1>5, <1>6

\* What a refresh reads is, when it reads it, all there is.
LEMMA ReadKept ==
  ASSUME ForwardAssumption, ForwardInv, NEW p \in Reader, Refresh(p)
  PROVE  ForwardInv'
  <1>1. reading[p] \in Read /\ NotReading \in Read /\ Keys(evidence) \subseteq Place
    BY DEF ForwardInv, NotReading, Read, Keys
  <1>2. ASSUME NEW r \in Read, NEW from, Reads(p, from, r),
               r.book \subseteq book /\ Later(r.book, book),
               r.step # "idle" => r.deaths \in [Trader -> SUBSET Nat]
        PROVE  ForwardInv'
    <2>1. /\ reading' \in [Reader -> Read]
          /\ \A q \in Reader : reading'[q] = r \/ reading'[q] = reading[q]
          /\ UNCHANGED <<clock, settled, book, deaths, rollover, scores, evidence>>
      BY <1>2 DEF ForwardInv, Reads
    <2>2. \A q \in Reader : /\ reading'[q].book \subseteq book' /\ Later(reading'[q].book, book')
                            /\ reading'[q].step # "idle" =>
                                 reading'[q].deaths \in [Trader -> SUBSET Nat]
      BY <1>2, <2>1 DEF ForwardInv, Later
    <2>. QED BY <2>1, <2>2 DEF ForwardInv, Dated, Founded, Later, Key, TradesOf
  <1>3. CASE ReadsAgents(p)
    <2>. DEFINE r == [reading[p] EXCEPT !.step = "agents", !.existing = Keys(evidence),
                                        !.deaths = deaths]
    <2>1. /\ r \in Read /\ r.book = reading[p].book /\ r.deaths = deaths
      BY <1>1 DEF ForwardInv, Read
    <2>2. r.book \subseteq book /\ Later(r.book, book) /\ r.deaths \in [Trader -> SUBSET Nat]
      BY <2>1 DEF ForwardInv
    <2>3. Reads(p, "idle", r)
      BY <1>3 DEF ReadsAgents
    <2>. HIDE DEF r
    <2>. QED BY <1>2, <2>1, <2>2, <2>3
  <1>4. CASE ReadsTrades(p)
    <2>. DEFINE r == [reading[p] EXCEPT !.step = "trades", !.book = book]
    <2>1. /\ r \in Read /\ r.book = book /\ r.deaths = reading[p].deaths
      BY <1>1 DEF ForwardInv, Read
    <2>2. Reads(p, "agents", r) /\ reading[p].step = "agents"
      BY <1>4 DEF ReadsTrades, Reads
    <2>3. r.book \subseteq book /\ Later(r.book, book) /\ r.deaths \in [Trader -> SUBSET Nat]
      BY <2>1, <2>2 DEF ForwardInv, Later
    <2>. HIDE DEF r
    <2>. QED BY <1>2, <2>1, <2>2, <2>3
  <1>5. CASE ReadsGenerations(p)
    <2>. DEFINE r == [reading[p] EXCEPT !.step = "generations", !.rollover = rollover]
    <2>1. /\ r \in Read /\ r.book = reading[p].book /\ r.deaths = reading[p].deaths
      BY <1>1 DEF ForwardInv, Read
    <2>2. Reads(p, "trades", r) /\ reading[p].step = "trades"
      BY <1>5 DEF ReadsGenerations, Reads
    <2>3. r.book \subseteq book /\ Later(r.book, book) /\ r.deaths \in [Trader -> SUBSET Nat]
      BY <2>1, <2>2 DEF ForwardInv
    <2>. HIDE DEF r
    <2>. QED BY <1>2, <2>1, <2>2, <2>3
  <1>6. NotReading.book \subseteq book /\ Later(NotReading.book, book) /\ NotReading.step = "idle"
    BY DEF NotReading, Later
  <1>7. CASE RefreshDies(p)
    BY <1>1, <1>2, <1>6, <1>7 DEF RefreshDies
  <1>8. CASE WritesEvidence(p)
    <2>1. reading[p].step = "generations"
      BY <1>8 DEF WritesEvidence
    <2>2. /\ \A e \in evidence' : e \in evidence \/ e \in NewRows(reading[p])
          /\ reading' = [reading EXCEPT ![p] = NotReading]
          /\ UNCHANGED <<clock, settled, book, deaths, rollover, scores>>
      BY <1>8 DEF WritesEvidence
    <2>3. \A e \in evidence' : Key(e) \in Place /\ e.as_of \in Int
                               /\ \E B \in SUBSET book : Founded(e, B)
      BY <2>1, <2>2, RowsFounded DEF ForwardInv
    <2>4. \A e \in evidence' : Key(e) \in Place /\ e.as_of \in Int
                               /\ \E B \in SUBSET book' : Founded(e, B)'
      BY <2>2, <2>3 DEF Founded, Later, TradesOf
    <2>5. /\ reading' \in [Reader -> Read]
          /\ \A q \in Reader : reading'[q] = NotReading \/ reading'[q] = reading[q]
      BY <1>1, <2>2 DEF ForwardInv
    <2>6. \A q \in Reader : /\ reading'[q].book \subseteq book' /\ Later(reading'[q].book, book')
                            /\ reading'[q].step # "idle" =>
                                 reading'[q].deaths \in [Trader -> SUBSET Nat]
      BY <1>6, <2>2, <2>5 DEF ForwardInv
    <2>. QED BY <2>2, <2>4, <2>5, <2>6 DEF ForwardInv, Dated
  <1>. QED BY <1>3, <1>4, <1>5, <1>7, <1>8 DEF Refresh

\* The invariant holds of every reachable state.
THEOREM ForwardInductive == ForwardSpec => []ForwardInv
  <1>1. ForwardInv /\ [ForwardNext]_forwardVars => ForwardInv'
    <2>. SUFFICES ASSUME ForwardInv, [ForwardNext]_forwardVars PROVE ForwardInv'
      OBVIOUS
    <2>. USE ForwardAssumption
    <2>1. CASE Minute
      <3>1. clock' = clock + 1 /\ UNCHANGED <<settled, book, deaths, rollover, scores, reading, evidence>>
        BY <2>1 DEF Minute
      <3>2. clock' \in Nat /\ Dated'
        BY <3>1 DEF ForwardInv, Dated, Trade
      <3>. QED BY <3>1, <3>2 DEF ForwardInv, Founded, Later, Key, TradesOf
    <2>2. CASE WorkerSettles
      <3>1. PICK S \in SUBSET Active : \E D \in SUBSET S :
              /\ book' = book \cup {[agent |-> a, at |-> settled'] : a \in S}
              /\ deaths' = [a \in DOMAIN deaths |-> IF a \in D THEN {settled'} ELSE deaths[a]]
        BY <2>2 DEF WorkerSettles
      <3>2. /\ settled + Interval <= clock /\ settled' = settled + Interval
            /\ UNCHANGED <<clock, rollover, scores, reading, evidence>>
        BY <2>2 DEF WorkerSettles
      <3>3. settled' \in Nat /\ settled < settled'
        BY <3>2 DEF ForwardInv, ForwardAssumption
      <3>4. \A t \in book : t.at < settled'
        BY <3>2, <3>3 DEF ForwardInv, Dated, Trade
      <3>5. S \in SUBSET Trader
        BY DEF Active, Population, Trader
      <3>6. deaths' \in [Trader -> SUBSET Nat]
        BY <3>1, <3>3 DEF ForwardInv
      <3>7. /\ book' \in SUBSET Trade /\ \A t \in book' : t \in book \/ t.at = settled'
            /\ \A p \in Reader : reading'[p].book \subseteq book' /\ Later(reading'[p].book, book')
            /\ \A e \in evidence' : Key(e) \in Place /\ e.as_of \in Int
                                    /\ \E B \in SUBSET book' : Founded(e, B)'
        BY <3>1, <3>2, <3>3, <3>4, <3>5, TradesAdded
      <3>8. Dated'
        BY <3>2, <3>3, <3>4, <3>7 DEF ForwardInv, Dated, Trade
      <3>. QED BY <3>2, <3>3, <3>6, <3>7, <3>8 DEF ForwardInv
    <2>3. CASE ScorePopulation
      <3>1. /\ scores' = scores \cup {[agent |-> a, as_of |-> clock] : a \in Population}
            /\ UNCHANGED <<clock, settled, book, deaths, rollover, reading, evidence>>
        BY <2>3 DEF ScorePopulation
      <3>2. scores' \in SUBSET [agent : Trader, as_of : Nat]
        BY <3>1 DEF ForwardInv, Population, Trader
      <3>. QED BY <3>1, <3>2 DEF ForwardInv, Dated, Founded, Later, Key, TradesOf
    <2>4. CASE RollOver
      <3>1. PICK S \in SUBSET Active : book' = book \cup {[agent |-> a, at |-> clock] : a \in S}
        BY <2>4 DEF RollOver
      <3>2. /\ rollover = {} /\ settled < clock /\ clock < settled + Interval
            /\ rollover' = {clock}
            /\ UNCHANGED <<clock, settled, deaths, scores, reading, evidence>>
        BY <2>4 DEF RollOver
      <3>3. clock \in Nat /\ \A t \in book : t.at < clock
        BY <3>2 DEF ForwardInv, Dated, Trade
      <3>4. S \in SUBSET Trader
        BY DEF Active, Population, Trader
      <3>5. /\ book' \in SUBSET Trade /\ \A t \in book' : t \in book \/ t.at = clock
            /\ \A p \in Reader : reading'[p].book \subseteq book' /\ Later(reading'[p].book, book')
            /\ \A e \in evidence' : Key(e) \in Place /\ e.as_of \in Int
                                    /\ \E B \in SUBSET book' : Founded(e, B)'
        BY <3>1, <3>2, <3>3, <3>4, TradesAdded
      <3>6. Dated'
        BY <3>2, <3>3, <3>5 DEF ForwardInv, Dated, Trade
      <3>. QED BY <3>2, <3>3, <3>5, <3>6 DEF ForwardInv
    <2>5. CASE \E p \in Reader : Refresh(p)
      BY <2>5, ReadKept
    <2>6. CASE UNCHANGED forwardVars
      BY <2>6 DEF forwardVars, ForwardInv, Dated, Founded, Later, Key, TradesOf
    <2>. QED BY <2>1, <2>2, <2>3, <2>4, <2>5, <2>6 DEF ForwardNext
  <1>. QED BY <1>1, ForwardStart, PTL DEF ForwardSpec

\* refresh_fitness_forward: no trade ever closes into a window that is written down, whoever
\* refreshes while bars are committed, the population is scored and a generation is replaced.
THEOREM WindowsStay == ForwardSpec => []WindowsFinal
  <1>1. ForwardInv => WindowsFinal
    <2>. SUFFICES ASSUME ForwardInv, NEW e \in evidence, e.as_of < e.upto
                  PROVE  /\ e.future = {t \in TradesOf(book, e.agent) : e.as_of < t.at /\ t.at <= e.end}
                         /\ e.known = {t \in TradesOf(book, e.agent) : t.at <= e.as_of}
      BY DEF WindowsFinal
    <2>1. PICK B \in SUBSET book : Founded(e, B)
      BY DEF ForwardInv
    <2>2. PICK u \in B : u.at = e.upto
      BY <2>1 DEF Founded
    <2>3. book \subseteq Trade /\ e.end \in Int /\ e.as_of \in Int /\ e.upto \in Nat /\ e.end <= e.upto
      BY <2>1, <2>2 DEF Founded, ForwardInv, Trade
    <2>4. \A t \in book : t.at \in Nat /\ (t \in B \/ e.upto < t.at)
      BY <2>1, <2>2, <2>3 DEF Founded, Later, Trade
    <2>5. \A t \in book : t.at <= e.end \/ t.at <= e.as_of => t \in B
      BY <2>3, <2>4
    <2>. QED BY <2>1, <2>5 DEF Founded, TradesOf
  <1>. QED BY <1>1, ForwardInductive, PTL

-----------------------------------------------------------------------------
(* Fitness: the account and the grades. *)

\* The types of the account and of its trades: a peak is above zero, a fall never below.
Fraction == Nat \X (Nat \ {0})
Standing ==
  [balance : Int, equity : Int, peak : Nat \ {0}, drawdown : Fraction, opened : Int, died : Int]
Deal == [opened : Int, closed : Int, pnl : Int]

\* The inductive invariant: what a grade says was right when it was given.
FitnessInv ==
  now \in Nat /\ ledger \in Standing /\ deals \in Seq(Deal) /\ NoEvidenceNoCredit

\* The Max and the Min of two integers.
LEMMA PairExtrema ==
  ASSUME NEW x \in Int, NEW y \in Int
  PROVE  Max({x, y}) = (IF x >= y THEN x ELSE y) /\ Min({x, y}) = (IF x <= y THEN x ELSE y)
  <1>1. \E m \in {x, y} : \A z \in {x, y} : m >= z
    OBVIOUS
  <1>2. \E m \in {x, y} : \A z \in {x, y} : m <= z
    OBVIOUS
  <1>3. Max({x, y}) \in {x, y} /\ \A z \in {x, y} : Max({x, y}) >= z
    BY <1>1 DEF Max
  <1>4. Min({x, y}) \in {x, y} /\ \A z \in {x, y} : Min({x, y}) <= z
    BY <1>2 DEF Min
  <1>. QED BY <1>3, <1>4

\* A clipped integer is one, and nothing of it is nothing.
LEMMA ClipType ==
  ASSUME NEW x \in Int, NEW low \in Int, NEW high \in Int
  PROVE  Clip(x, low, high) \in Int /\ Clip(x, low, high) * 0 = 0
  <1>1. Min({x, high}) \in Int
    BY PairExtrema
  <1>2. Max({low, Min({x, high})}) \in Int
    BY <1>1, PairExtrema
  <1>. QED BY <1>2 DEF Clip

\* A deal in the market during the sealed period is one the inputs leave out.
LEMMA SealedOut ==
  ASSUME FitnessAssumption, deals \in Seq(Deal), \A i \in DOMAIN deals : Exposed(deals[i])
  PROVE  Scored = {}
  <1>1. SUFFICES ASSUME NEW i \in DOMAIN deals PROVE Overlaps(deals[i])
    BY DEF Scored
  <1>2. deals[i] \in Deal
    OBVIOUS
  <1>3. PICK t \in deals[i].opened..deals[i].closed : SealedFrom <= t /\ t <= SealedTo
    BY DEF Exposed
  <1>. QED BY <1>2, <1>3 DEF Overlaps, Deal, FitnessAssumption

\* A fitness without a scored trade gives no credit, and a fall is never one.
LEMMA UnscoredFitness ==
  ASSUME FitnessAssumption, now \in Nat, ledger \in Standing, Scored = {}
  PROVE  /\ Zero(Fitness.return) /\ Zero(Fitness.expectancy) /\ Zero(Fitness.consistency)
         /\ Zero(Fitness.survival) /\ \A q \in Fitness.risk : Zero(q)
         /\ Fitness.inactivity = <<Confident, Confident>>
         /\ Fitness.drawdown[1] >= 0 /\ Fitness.drawdown[2] > 0
  <1>1. Confidence = 0
    <2>1. Cardinality(Scored) = 0
      BY FS_EmptySet
    <2>. QED BY <2>1, PairExtrema DEF Confidence, FitnessAssumption
  <1>2. Zero(ReturnScore)
    <2>0. ledger.equity - Capital \in Int /\ -Capital \in Int /\ Capital \in Int
      BY DEF Standing, FitnessAssumption
    <2>1. Clip(ledger.equity - Capital, -Capital, Capital) * 0 = 0
      BY <2>0, ClipType
    <2>. QED BY <1>1, <2>1 DEF ReturnScore, Zero
  <1>3. Won = {} /\ Lost = {} /\ Days = {}
    BY DEF Won, Lost, Days
  <1>4. Zero(ProfitFactor) /\ Zero(WinRate) /\ Zero(Expectancy)
    BY <1>3 DEF ProfitFactor, WinRate, Expectancy, Nothing, Zero
  <1>5. Zero(Consistency)
    <2>1. Cardinality(Days) = 0
      BY <1>3, FS_EmptySet
    <2>. QED BY <2>1 DEF Consistency, Nothing, Zero
  <1>6. Zero(Survival)
    <2>1. Survived \in Int /\ 30 * DayLength \in Int
      BY DEF Survived, Standing, FitnessAssumption
    <2>2. Min({Survived, 30 * DayLength}) \in Int
      BY <2>1, PairExtrema
    <2>. QED BY <1>1, <2>2 DEF Survival, Zero
  <1>7. <<Confident - Confidence, Confident>> = <<Confident, Confident>>
    BY <1>1 DEF FitnessAssumption
  <1>8. ledger.drawdown[1] >= 0 /\ ledger.drawdown[2] > 0
    <2>1. ledger.drawdown \in Fraction
      BY DEF Standing
    <2>. QED BY <2>1 DEF Fraction
  <1>. QED BY <1>2, <1>4, <1>5, <1>6, <1>7, <1>8 DEF Fitness

\* Marking an account to the market keeps it an account.
LEMMA MarkedType ==
  ASSUME NEW a \in Standing, NEW e \in Int, now \in Nat
  PROVE  Marked(a, e) \in Standing
  <1>. DEFINE peak == Max({a.peak, e})
  <1>1. peak \in Nat \ {0} /\ peak - e \in Nat
    BY PairExtrema DEF Standing
  <1>. HIDE DEF peak
  <1>2. Worse(a.drawdown, <<peak - e, peak>>) \in Fraction
    <2>1. a.drawdown \in Fraction
      BY DEF Standing
    <2>2. <<peak - e, peak>> \in Fraction
      BY <1>1 DEF Fraction
    <2>. QED BY <2>1, <2>2 DEF Worse
  <1>3. Marked(a, e) = [a EXCEPT !.equity = e, !.peak = peak,
                          !.drawdown = Worse(@, <<peak - e, peak>>),
                          !.died = IF e <= 0 THEN now ELSE @]
    BY DEF Marked, peak
  <1>4. Marked(a, e) = [balance |-> a.balance, equity |-> e, peak |-> peak,
                        drawdown |-> Worse(a.drawdown, <<peak - e, peak>>), opened |-> a.opened,
                        died |-> IF e <= 0 THEN now ELSE a.died]
    BY <1>3 DEF Standing
  <1>. QED BY <1>1, <1>2, <1>4 DEF Standing

\* So does paying a result into a flat one.
LEMMA PaidType ==
  ASSUME NEW a \in Standing, NEW left \in Int, NEW o \in Int
  PROVE  [a EXCEPT !.balance = left, !.opened = o] \in Standing
  BY DEF Standing

\* The initial state and every step.
LEMMA FitnessInductive == FitnessSpec => []FitnessInv
  <1>1. FitnessInit => FitnessInv
    BY FitnessAssumption DEF FitnessInit, FitnessInv, Standing, Fraction, NoEvidenceNoCredit, FitnessAssumption
  <1>2. FitnessInv /\ [FitnessNext]_fitnessVars => FitnessInv'
    <2>. SUFFICES ASSUME FitnessInv, [FitnessNext]_fitnessVars PROVE FitnessInv'
      OBVIOUS
    <2>. USE FitnessAssumption DEF FitnessInv
    <2>1. CASE Opens
      <3>1. ledger' \in Standing
        BY <2>1 DEF Opens, Standing
      <3>. QED BY <2>1, <3>1 DEF Opens, NoEvidenceNoCredit
    <2>2. CASE Exits
      <3>1. PICK pnl \in Pnl :
              LET left == Max({0, ledger.balance + pnl}) IN
              /\ ledger' = Marked([ledger EXCEPT !.balance = left, !.opened = -1], left)
              /\ deals' = Append(deals, [opened |-> ledger.opened, closed |-> now, pnl |-> pnl])
        BY <2>2 DEF Exits
      <3>. DEFINE left == Max({0, ledger.balance + pnl})
      <3>2. left \in Int
        BY PairExtrema DEF Standing, FitnessAssumption
      <3>3. ledger' = Marked([ledger EXCEPT !.balance = left, !.opened = -1], left)
        BY <3>1
      <3>. HIDE DEF left
      <3>4. [ledger EXCEPT !.balance = left, !.opened = -1] \in Standing
        <4>1. -1 \in Int
          OBVIOUS
        <4>. QED BY <3>2, <4>1, PaidType
      <3>5. ledger' \in Standing
        BY <3>2, <3>3, <3>4, MarkedType
      <3>6. [opened |-> ledger.opened, closed |-> now, pnl |-> pnl] \in Deal
        BY DEF Standing, Deal, FitnessAssumption
      <3>7. deals' \in Seq(Deal)
        BY <3>1, <3>6
      <3>. QED BY <2>2, <3>5, <3>7 DEF Exits, NoEvidenceNoCredit
    <2>3. CASE NextTick
      <3>1. ledger' \in Standing
        <4>1. CASE Holding
          <5>1. PICK m \in Marks : ledger' = Marked(ledger, ledger.balance + m)
            BY <2>3, <4>1 DEF NextTick
          <5>2. ledger.balance + m \in Int
            BY DEF Standing, FitnessAssumption
          <5>. QED BY <5>1, <5>2, MarkedType
        <4>2. CASE ~Holding
          BY <2>3, <4>2 DEF NextTick
        <4>. QED BY <4>1, <4>2
      <3>. QED BY <2>3, <3>1 DEF NextTick, NoEvidenceNoCredit
    <2>4. CASE Grade
      <3>1. graded' = {[fitness |-> Fitness, deals |-> deals]} /\ UNCHANGED <<now, ledger, deals>>
        BY <2>4 DEF Grade
      <3>2. ASSUME \A i \in DOMAIN deals : Exposed(deals[i])
            PROVE  /\ Zero(Fitness.return) /\ Zero(Fitness.expectancy) /\ Zero(Fitness.consistency)
                   /\ Zero(Fitness.survival) /\ \A q \in Fitness.risk : Zero(q)
                   /\ Fitness.inactivity = <<Confident, Confident>>
                   /\ Fitness.drawdown[1] >= 0 /\ Fitness.drawdown[2] > 0
        BY <3>2, SealedOut, UnscoredFitness
      <3>. QED BY <3>1, <3>2 DEF NoEvidenceNoCredit
    <2>5. CASE UNCHANGED fitnessVars
      BY <2>5 DEF fitnessVars, NoEvidenceNoCredit
    <2>. QED BY <2>1, <2>2, <2>3, <2>4, <2>5 DEF FitnessNext
  <1>. QED BY <1>1, <1>2, PTL DEF FitnessSpec

\* NoEvidenceNoCredit: an account that was in the market during the sealed period with every
\* one of its trades is graded no better than one that never traded.  It earns nothing in
\* compute_fitness and pays the whole inactivity penalty, whatever its balance, its results and
\* the days it lived, and its drawdown is never below zero (fitness_service.py, FitnessInputs).
\* That it is graded no worse either is not so: run fitness_sealed.
THEOREM NoCredit == FitnessSpec => []NoEvidenceNoCredit
  <1>1. FitnessInv => NoEvidenceNoCredit
    BY DEF FitnessInv
  <1>. QED BY <1>1, FitnessInductive, PTL

-----------------------------------------------------------------------------
(* RegimeMatrix: the trades a cell rests on. *)

\* The types of the rows of trades.
Traded == [family : Family \cup {Unattributed}, bar : Nat, regime : Regimen, at : Nat]

\* The trades T hold as many independent ones of the regime as a verdict takes.
Independently(T, label) ==
  \E independent \in SUBSET T :
    /\ Cardinality(independent) >= MinEpisodes
    /\ \A i \in independent : series[closed[i].bar] = label
    /\ \A i, j \in independent : closed[i].bar < closed[j].bar =>
         \E k \in closed[i].bar..closed[j].bar : series[k] # label
    /\ \A i, j \in independent : i # j => closed[i].bar # closed[j].bar

\* A trade is decided on a bar that is classified, in the regime of that bar.
Conclusive == \A i \in DOMAIN closed : /\ closed[i].bar \in DOMAIN series
                                    /\ closed[i].regime = series[closed[i].bar]

\* What the last refresh called an episode still is one.
Numbering ==
  /\ DOMAIN analysed \subseteq DOMAIN closed
  /\ \A i \in DOMAIN analysed : analysed[i] = EpisodeOf(closed[i].bar)

\* The inductive invariant.
MatrixInv ==
  /\ series \in Seq(Regimen) /\ closed \in Seq(Traded) /\ Conclusive /\ Numbering
  /\ \A c \in matrix : c.trades \subseteq DOMAIN closed
  /\ \A c \in matrix : (c.state = "TESTED" \/ c.edge) => Independently(c.trades, c.regime)

\* The episodes up to a bar are a finite number.
LEMMA EpisodeType ==
  ASSUME NEW b \in Nat
  PROVE  EpisodeOf(b) \in Nat
  <1>1. IsFiniteSet(1..b)
    BY FS_Interval
  <1>2. IsFiniteSet({k \in 1..b : k = 1 \/ series[k] # series[k - 1]})
    BY <1>1, FS_Subset
  <1>. QED BY <1>2, FS_CardinalityType DEF EpisodeOf

\* Two bars of one episode's number have the regime of the first one everywhere between them;
\* so two bars of different numbers, of one regime, have another one between them.
LEMMA EpisodesApart ==
  ASSUME NEW b \in Nat \ {0}, NEW d \in Nat, b < d, EpisodeOf(b) # EpisodeOf(d), NEW r, series[b] = r
  PROVE  \E k \in b..d : series[k] # r
  <1>. SUFFICES ASSUME \A k \in b..d : series[k] = r PROVE FALSE
    OBVIOUS
  <1>. DEFINE start(k) == k = 1 \/ series[k] # series[k - 1]
  <1>1. ASSUME NEW k \in 1..d, ~ (k \in 1..b) PROVE ~ start(k)
    <2>1. k \in b..d /\ k - 1 \in b..d /\ k # 1
      BY <1>1
    <2>. QED BY <2>1
  <1>2. 1..b \subseteq 1..d
    OBVIOUS
  <1>. HIDE DEF start
  <1>3. {k \in 1..b : start(k)} = {k \in 1..d : start(k)}
    BY <1>1, <1>2, Zenon
  <1>. QED BY <1>3 DEF EpisodeOf, start

\* Every episode number of the trades has a trade of its own, and these are independent.
LEMMA EpisodesIndependent ==
  ASSUME MatrixAssumption, MatrixInv, NEW r \in Regimen, NEW T \in SUBSET DOMAIN analysed,
         \A i \in T : closed[i].regime = r, Cardinality(Episodes(T)) >= MinEpisodes
  PROVE  Independently(T, r)
  <1>. DEFINE pick == [e \in Episodes(T) |-> CHOOSE i \in T : analysed[i] = e]
              chosen == {pick[e] : e \in Episodes(T)}
  <1>1. ASSUME NEW e \in Episodes(T) PROVE pick[e] \in T /\ analysed[pick[e]] = e
    <2>1. \E i \in T : analysed[i] = e
      BY DEF Episodes
    <2>. QED BY <2>1
  <1>2. IsFiniteSet(chosen) /\ Cardinality(chosen) \in Nat
    <2>1. IsFiniteSet(DOMAIN closed)
      BY FS_Interval DEF MatrixInv
    <2>2. chosen \subseteq DOMAIN closed
      BY <1>1 DEF MatrixInv, Numbering
    <2>. QED BY <2>1, <2>2, FS_Subset, FS_CardinalityType
  <1>3. Cardinality(Episodes(T)) <= Cardinality(chosen) /\ Cardinality(Episodes(T)) \in Nat
    <2>1. pick \in Injection(Episodes(T), chosen)
      <3>1. pick \in [Episodes(T) -> chosen]
        OBVIOUS
      <3>2. \A e, f \in Episodes(T) : pick[e] = pick[f] => e = f
        BY <1>1, Zenon
      <3>. QED BY <3>1, <3>2 DEF Injection, IsInjective
    <2>. QED BY <1>2, <2>1, FS_Injection, FS_CardinalityType DEF ExistsInjection
  <1>4. ASSUME NEW i \in chosen
        PROVE  /\ i \in T /\ i \in DOMAIN closed
               /\ closed[i].bar \in Nat \ {0} /\ series[closed[i].bar] = r
               /\ analysed[i] = EpisodeOf(closed[i].bar)
    <2>1. i \in T
      BY <1>1
    <2>. QED BY <2>1 DEF MatrixInv, Conclusive, Numbering
  <1>5. ASSUME NEW i \in chosen, NEW j \in chosen, i # j
        PROVE  EpisodeOf(closed[i].bar) # EpisodeOf(closed[j].bar)
    <2>1. PICK e \in Episodes(T) : i = pick[e]
      OBVIOUS
    <2>2. PICK f \in Episodes(T) : j = pick[f]
      OBVIOUS
    <2>3. e # f
      BY <1>5, <2>1, <2>2
    <2>. QED BY <1>1, <1>4, <2>1, <2>2, <2>3
  <1>. HIDE DEF chosen, pick
  <1>6. chosen \in SUBSET T
    BY <1>4
  <1>7. Cardinality(chosen) >= MinEpisodes
    BY <1>2, <1>3 DEF MatrixAssumption
  <1>8. \A i \in chosen : series[closed[i].bar] = r
    BY <1>4
  <1>9. ASSUME NEW i \in chosen, NEW j \in chosen, closed[i].bar < closed[j].bar
        PROVE  \E k \in closed[i].bar..closed[j].bar : series[k] # r
    <2>1. i # j
      BY <1>4, <1>9
    <2>2. EpisodeOf(closed[i].bar) # EpisodeOf(closed[j].bar)
      BY <1>5, <2>1
    <2>. QED BY <1>4, <1>9, <2>2, EpisodesApart
  <1>10. \A i, j \in chosen : i # j => closed[i].bar # closed[j].bar
    BY <1>5
  <1>. QED BY <1>6, <1>7, <1>8, <1>9, <1>10 DEF Independently

\* What the trades hold stays when bars and trades are added: both are read where they were.
LEMMA IndependenceStays ==
  ASSUME NEW T \in SUBSET DOMAIN closed, NEW label, Conclusive, Independently(T, label),
         series \in Seq(Regimen),
         DOMAIN closed \subseteq DOMAIN closed', DOMAIN series \subseteq DOMAIN series',
         \A i \in DOMAIN closed : closed'[i] = closed[i],
         \A b \in DOMAIN series : series'[b] = series[b]
  PROVE  Independently(T, label)'
  <1>1. PICK S \in SUBSET T :
          /\ Cardinality(S) >= MinEpisodes
          /\ \A i \in S : series[closed[i].bar] = label
          /\ \A i, j \in S : closed[i].bar < closed[j].bar =>
               \E k \in closed[i].bar..closed[j].bar : series[k] # label
          /\ \A i, j \in S : i # j => closed[i].bar # closed[j].bar
    BY DEF Independently
  <1>2. ASSUME NEW i \in S
        PROVE  closed'[i].bar = closed[i].bar /\ closed[i].bar \in DOMAIN series
    BY DEF Conclusive
  <1>3. \A i \in S : series'[closed'[i].bar] = label
    BY <1>1, <1>2
  <1>4. ASSUME NEW i \in S, NEW j \in S, closed'[i].bar < closed'[j].bar
        PROVE  \E k \in closed'[i].bar..closed'[j].bar : series'[k] # label
    <2>1. PICK k \in closed[i].bar..closed[j].bar : series[k] # label
      BY <1>1, <1>2, <1>4
    <2>2. k \in DOMAIN series
      BY <1>2
    <2>. QED BY <1>2, <2>1, <2>2
  <1>5. \A i, j \in S : i # j => closed'[i].bar # closed'[j].bar
    BY <1>1, <1>2
  <1>. QED BY <1>1, <1>3, <1>4, <1>5 DEF Independently

\* An episode's number is that of its bar for good.
LEMMA EpisodeStays ==
  ASSUME series \in Seq(Regimen), NEW b \in DOMAIN series, \A k \in DOMAIN series : series'[k] = series[k]
  PROVE  EpisodeOf(b) = Cardinality({k \in 1..b : k = 1 \/ series'[k] # series'[k - 1]})
  <1>1. ASSUME NEW k \in 1..b
        PROVE (k = 1 \/ series'[k] # series'[k - 1]) <=> (k = 1 \/ series[k] # series[k - 1])
    <2>1. k = 1 \/ (k \in DOMAIN series /\ k - 1 \in DOMAIN series)
      OBVIOUS
    <2>. QED BY <2>1
  <1>2. {k \in 1..b : k = 1 \/ series'[k] # series'[k - 1]} = {k \in 1..b : k = 1 \/ series[k] # series[k - 1]}
    BY <1>1
  <1>. QED BY <1>2 DEF EpisodeOf

\* Bars and trades are only added.
LEMMA Grown ==
  ASSUME MatrixInv, BarClassified \/ TradeCloses
  PROVE  /\ series' \in Seq(Regimen) /\ closed' \in Seq(Traded) /\ Conclusive' /\ Numbering'
         /\ DOMAIN closed \subseteq DOMAIN closed' /\ DOMAIN series \subseteq DOMAIN series'
         /\ \A i \in DOMAIN closed : closed'[i] = closed[i]
         /\ \A b \in DOMAIN series : series'[b] = series[b]
  <1>. USE DEF MatrixInv
  <1>1. /\ series' \in Seq(Regimen) /\ DOMAIN series \subseteq DOMAIN series'
        /\ \A b \in DOMAIN series : series'[b] = series[b]
    <2>1. CASE BarClassified
      <3>1. PICK r \in Regimen : series' = Append(series, r)
        BY <2>1 DEF BarClassified
      <3>. QED BY <3>1
    <2>2. CASE TradeCloses
      BY <2>2 DEF TradeCloses
    <2>. QED BY <2>1, <2>2
  <1>2. /\ closed' \in Seq(Traded) /\ DOMAIN closed \subseteq DOMAIN closed'
        /\ \A i \in DOMAIN closed : closed'[i] = closed[i]
        /\ Conclusive'
    <2>1. CASE BarClassified
      <3>1. closed' = closed
        BY <2>1 DEF BarClassified
      <3>2. Conclusive'
        BY <1>1, <3>1 DEF Conclusive
      <3>. QED BY <3>1, <3>2
    <2>2. CASE TradeCloses
      <3>1. PICK f \in Family \cup {Unattributed}, b \in DOMAIN series :
              closed' = Append(closed, [family |-> f, bar |-> b, regime |-> series[b], at |-> Len(series)])
        BY <2>2 DEF TradeCloses
      <3>. DEFINE written == [family |-> f, bar |-> b, regime |-> series[b], at |-> Len(series)]
      <3>2. written \in Traded /\ written.bar = b /\ written.regime = series[b]
        BY DEF Traded
      <3>3. closed' = Append(closed, written)
        BY <3>1
      <3>. HIDE DEF written
      <3>4. /\ closed' \in Seq(Traded) /\ Len(closed') = Len(closed) + 1
            /\ DOMAIN closed' = 1..(Len(closed) + 1) /\ DOMAIN closed = 1..Len(closed)
            /\ \A i \in 1..Len(closed) : closed'[i] = closed[i]
            /\ closed'[Len(closed) + 1] = written
        BY <3>2, <3>3
      <3>5. Conclusive'
        <4>1. SUFFICES ASSUME NEW i \in DOMAIN closed'
                       PROVE  closed'[i].bar \in DOMAIN series' /\ closed'[i].regime = series'[closed'[i].bar]
          BY DEF Conclusive
        <4>2. series' = series
          BY <2>2 DEF TradeCloses
        <4>. QED BY <3>2, <3>4, <4>2 DEF Conclusive
      <3>. QED BY <3>4, <3>5
    <2>. QED BY <2>1, <2>2
  <1>3. analysed' = analysed
    BY DEF BarClassified, TradeCloses
  <1>4. Numbering'
    <2>1. ASSUME NEW i \in DOMAIN analysed'
          PROVE  /\ i \in DOMAIN closed'
                 /\ analysed'[i] = Cardinality({k \in 1..closed'[i].bar : k = 1 \/ series'[k] # series'[k - 1]})
      <3>1. i \in DOMAIN closed /\ closed'[i] = closed[i] /\ closed[i].bar \in DOMAIN series
        BY <1>2, <1>3 DEF Numbering, Conclusive
      <3>. DEFINE b == closed[i].bar
      <3>2. EpisodeOf(b) = Cardinality({k \in 1..b : k = 1 \/ series'[k] # series'[k - 1]})
        BY <1>1, <3>1, EpisodeStays
      <3>3. analysed'[i] = EpisodeOf(b) /\ closed'[i].bar = b
        BY <1>3, <3>1 DEF Numbering
      <3>. HIDE DEF b
      <3>. QED BY <1>2, <3>1, <3>2, <3>3
    <2>. QED BY <2>1 DEF Numbering, EpisodeOf
  <1>. QED BY <1>1, <1>2, <1>4

\* What the second phase writes, and every step.
LEMMA MatrixInductive == MatrixSpec => []MatrixInv
  <1>1. MatrixInit => MatrixInv
    BY DEF MatrixInit, MatrixInv, Conclusive, Numbering
  <1>2. MatrixInv /\ [MatrixNext]_matrixVars => MatrixInv'
    <2>. SUFFICES ASSUME MatrixInv, [MatrixNext]_matrixVars PROVE MatrixInv'
      OBVIOUS
    <2>1. CASE BarClassified \/ TradeCloses
      <3>1. /\ series' \in Seq(Regimen) /\ closed' \in Seq(Traded) /\ Conclusive' /\ Numbering'
            /\ DOMAIN closed \subseteq DOMAIN closed' /\ DOMAIN series \subseteq DOMAIN series'
            /\ \A i \in DOMAIN closed : closed'[i] = closed[i]
            /\ \A b \in DOMAIN series : series'[b] = series[b]
        BY <2>1, Grown
      <3>2. matrix' = matrix
        BY <2>1 DEF BarClassified, TradeCloses
      <3>3. ASSUME NEW c \in matrix, c.state = "TESTED" \/ c.edge
            PROVE  Independently(c.trades, c.regime)'
        <4>. DEFINE T == c.trades
                    r == c.regime
        <4>1. T \in SUBSET DOMAIN closed /\ Independently(T, r) /\ Conclusive /\ series \in Seq(Regimen)
          BY <3>3 DEF MatrixInv
        <4>. HIDE DEF T, r
        <4>2. Independently(T, r)'
          BY <3>1, <4>1, IndependenceStays
        <4>. QED BY <4>2 DEF T, r
      <3>. QED BY <3>1, <3>2, <3>3 DEF MatrixInv
    <2>2. CASE RefreshTrades
      <3>1. UNCHANGED <<series, closed, matrix>> /\ analysed' = [i \in DOMAIN closed |-> EpisodeOf(closed[i].bar)]
        BY <2>2 DEF RefreshTrades
      <3>2. Conclusive' /\ \A c \in matrix : Independently(c.trades, c.regime) => Independently(c.trades, c.regime)'
        BY <3>1 DEF Conclusive, Independently, MatrixInv
      <3>3. Numbering'
        BY <3>1 DEF Numbering, EpisodeOf
      <3>. QED BY <3>1, <3>2, <3>3 DEF MatrixInv
    <2>3. CASE RebuildMatrix
      <3>1. UNCHANGED <<series, closed, analysed>>
        BY <2>3 DEF RebuildMatrix
      <3>2. ASSUME NEW c \in matrix'
            PROVE  /\ c.trades \subseteq DOMAIN closed
                   /\ (c.state = "TESTED" \/ c.edge) => Independently(c.trades, c.regime)
        <4>1. PICK w \in Windows, f \in Family \cup {Unattributed}, r \in Regimen :
                c = Cell(w, f, r, CellTrades(w, f, r))
          BY <2>3 DEF RebuildMatrix
        <4>. DEFINE T == CellTrades(w, f, r)
        <4>2. T \in SUBSET DOMAIN analysed /\ \A i \in T : closed[i].regime = r
          BY DEF CellTrades, InWindow
        <4>3. /\ c.trades = T /\ c.regime = r
              /\ c.state = EvidenceState(T)
              /\ c.edge <=> (T # {} /\ ~UnderSampled(T))
          BY <4>1 DEF Cell
        <4>. HIDE DEF T
        <4>4. T \subseteq DOMAIN closed
          BY <4>2 DEF MatrixInv, Numbering
        <4>5. ASSUME c.state = "TESTED" \/ c.edge PROVE Independently(T, r)
          <5>1. Cardinality(Episodes(T)) >= MinEpisodes
            <6>1. IsFiniteSet(T)
              <7>1. DOMAIN closed = 1..Len(closed) /\ Len(closed) \in Nat
                BY DEF MatrixInv
              <7>2. IsFiniteSet(DOMAIN closed)
                BY <7>1, FS_Interval
              <7>. QED BY <4>4, <7>2, FS_Subset
            <6>2. Cardinality(Episodes(T)) \in Nat
              <7>. DEFINE U == {analysed[i] : i \in T}
                          g == [i \in T |-> analysed[i]]
              <7>0. g \in Surjection(T, U)
                BY DEF Surjection
              <7>1. IsFiniteSet(U)
                BY <6>1, <7>0, FS_Surjection
              <7>. QED BY <7>1, FS_Subset, FS_CardinalityType DEF Episodes
            <6>3. CASE c.state = "TESTED"
              BY <4>3, <6>3 DEF EvidenceState
            <6>4. CASE c.edge
              BY <4>3, <6>2, <6>4, MatrixAssumption DEF UnderSampled, MatrixAssumption
            <6>. QED BY <4>5, <6>3, <6>4
          <5>. QED BY <4>2, <5>1, EpisodesIndependent, MatrixAssumption
        <4>. QED BY <4>3, <4>4, <4>5
      <3>3. Conclusive' /\ Numbering'
        BY <3>1 DEF Conclusive, Numbering, EpisodeOf, MatrixInv
      <3>4. \A c \in matrix' : Independently(c.trades, c.regime) => Independently(c.trades, c.regime)'
        BY <3>1 DEF Independently
      <3>. QED BY <3>1, <3>2, <3>3, <3>4 DEF MatrixInv
    <2>4. CASE UNCHANGED matrixVars
      <3>1. UNCHANGED <<series, closed, analysed, matrix>>
        BY <2>4 DEF matrixVars
      <3>. QED BY <3>1 DEF MatrixInv, Conclusive, Numbering, EpisodeOf, Independently
    <2>. QED BY <2>1, <2>2, <2>3, <2>4 DEF MatrixNext
  <1>. QED BY <1>1, <1>2, PTL DEF MatrixSpec

\* EvidenceIndependent: whatever bars and trades were added between the two phases of a
\* refresh, and since, a cell that is TESTED or claims an edge rests on MIN_EPISODES of its
\* trades with a bar of another regime between any two (strategy_regime.py:5).
THEOREM Independence == MatrixSpec => []EvidenceIndependent
  <1>1. MatrixInv => EvidenceIndependent
    BY DEF MatrixInv, EvidenceIndependent, Independently
  <1>. QED BY <1>1, MatrixInductive, PTL
=============================================================================
