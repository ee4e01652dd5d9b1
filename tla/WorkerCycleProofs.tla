-------------------------- MODULE WorkerCycleProofs --------------------------
(***************************************************************************)
(* The worker's tick for every number of bars, every catch-up window, every *)
(* number of attempts and of crashes, warm or cold.  NothingLeftBehind is of *)
(* every set of worker processes, stalled and superseded ones included; the  *)
(* other theorems are of ONE process at a time (it may crash, lose its lease *)
(* and be started again).  A superseded one writes FAILED without a fence:   *)
(* that alone breaks DecisionsInOrder (run cycle_overlap).                   *)
(*                                                                         *)
(* The argument is about one bar, Floor, the first one a tick planned now   *)
(* would process.  It never moves back past a bar that was decided or on    *)
(* which the position was managed (Behind), and in a tick the bars left are *)
(* an interval that starts at or before it, none of them done (Span).       *)
(***************************************************************************)
EXTENDS WorkerCycle, ExtremaLemmas, FiniteSetTheorems

\* What a row of worker_cycles and the label of a process can be.
Status == {"NONE", "STARTED", "FAILED", "COMPLETED", "FAILED_PERMANENT", "SKIPPED_CATCHUP"}
Row == [status : Status, attempts : Nat]
InTick == {"skip", "protectskipped", "open", "claim", "work", "ask", "record", "complete",
           "abandoned", "rescue"}

\* The types of the state.
TypeOK ==
  /\ confirmed \in 0..LastBar /\ cycle \in [Bar -> Row]
  /\ decided \in SUBSET Bar /\ protected \in SUBSET Bar /\ refused \in SUBSET Bar
  /\ opened \in 0..LastBar /\ managed \in 0..LastBar
  /\ population \in {"active", "extinct"} /\ events \in Nat
  /\ pc \in [Worker -> InTick \cup {"down", "idle"}]
  /\ todo \in [Worker -> SUBSET Bar] /\ skip \in [Worker -> SUBSET Bar]
  /\ view \in [Worker -> Row]

IsDone(b) == cycle[b].status \in Done

\* The first bar a tick would process if it were planned now.
FirstOf(last, latest) ==
  IF last = 0 THEN latest
  ELSE IF last + 1 >= latest - MaxCatchup + 1 THEN last + 1
  ELSE latest - MaxCatchup + 1
Floor == FirstOf(LastDone, confirmed)

\* The bars that were decided on, and the one the position was last managed on.
Touched == decided \cup {managed}

\* Nothing happened beyond the first bar the next tick would process, and the last bar the
\* position was managed on is one it was protected on.
Behind ==
  /\ \A c \in Touched : c <= Floor
  /\ opened # 0 => managed \in protected

\* In a tick, the bars left to process are an interval of confirmed bars none of which is
\* done, or touched, but the first; only a bar that was just quarantined is done and still
\* current.
Span(w) ==
  /\ Current(w) \in Bar
  /\ \E hi \in Bar : Current(w) <= hi /\ hi <= confirmed /\ todo[w] = Current(w)..hi
  /\ Current(w) <= Floor
  /\ \A c \in Touched : c <= Current(w)
  /\ \A b \in Bar : IsDone(b) => b < Current(w) \/ (pc[w] = "abandoned" /\ b = Current(w))

\* What the process knows at each label.
Tick(w) ==
  /\ pc[w] \in InTick => Span(w)
  /\ pc[w] \in {"skip", "protectskipped"} =>
       skip[w] # {} /\ \A s \in skip[w] : s < Current(w)
  /\ pc[w] = "skip" => LastDone # 0
  /\ pc[w] = "claim" => view[w] = cycle[Current(w)]
  /\ pc[w] = "abandoned" => IsDone(Current(w))
  /\ pc[w] \in {"ask", "record", "complete"} /\ opened # 0 /\ opened <= Current(w) =>
       Current(w) \in protected \cup refused

\* The question is only asked while the extinction is unrecorded.
Extinction(w) ==
  /\ events <= 1
  /\ events = 1 => population = "extinct"
  /\ pc[w] \in {"ask", "record"} => events = 0
  /\ pc[w] = "record" => population = "extinct"

\* NoBarLeftBehind of one worker process with its restarts, and stronger: the position was
\* managed, or refused in its own savepoint, on that very bar.
CompletedBarsProtected ==
  \A b \in Bar : cycle[b].status = "COMPLETED" /\ opened # 0 /\ opened <= b =>
    b \in protected \cup refused

\* The inductive invariant.
IInv(w) == TypeOK /\ Behind /\ Tick(w) /\ Extinction(w) /\ CompletedBarsProtected

\* The numbers among the constants.
LEMMA Numbers ==
  /\ LastBar \in Nat /\ MaxCatchup \in Nat \ {0} /\ Warm \in Nat /\ Warm <= LastBar
  /\ Bar \in SUBSET Nat /\ \A b \in Bar : b > 0 /\ b <= LastBar
  BY CycleAssumption DEF Bar

\* The numbers of the state.
LEMMA NumbersOfState ==
  ASSUME TypeOK
  PROVE  confirmed \in Nat /\ confirmed <= LastBar /\ opened \in Nat /\ managed \in Nat
         /\ \A c \in Touched : c \in Nat
  BY Numbers DEF TypeOK, Touched

\* Earliest is the least element of a set of bars.
LEMMA LeastIs ==
  ASSUME NEW S \in SUBSET Nat, S # {}
  PROVE  Earliest(S) \in S /\ \A y \in S : Earliest(S) <= y
  BY MinExists DEF Earliest

\* The least element of an interval is its lower end.
LEMMA LeastOfInterval ==
  ASSUME NEW lo \in Nat, NEW hi \in Nat, lo <= hi
  PROVE  Earliest(lo..hi) = lo
  <1>1. lo..hi \in SUBSET Nat /\ lo \in lo..hi
    OBVIOUS
  <1>2. Earliest(lo..hi) \in lo..hi /\ Earliest(lo..hi) <= lo
    BY <1>1, LeastIs
  <1>. QED BY <1>2

\* _last_done_open_time is the greatest done bar, or 0 if there is none.
LEMMA LastDoneMax ==
  /\ LastDone \in Nat /\ LastDone <= LastBar
  /\ LastDone # 0 => LastDone \in Bar /\ IsDone(LastDone)
  /\ \A b \in Bar : IsDone(b) => b <= LastDone
  <1>. DEFINE S == {0} \cup {b \in Bar : cycle[b].status \in Done}
  <1>0. LastBar \in Int /\ LastBar \in Nat
    BY Numbers
  <1>1. 0 \in S /\ \A x \in S : x \in Nat /\ x <= LastBar
    BY Numbers
  <1>. HIDE DEF S
  <1>2. \E m \in S : \A x \in S : x <= m
    <2>1. S \in SUBSET Int /\ S # {}
      BY <1>1
    <2>. QED BY <1>0, <1>1, <2>1, MaxExists
  <1>. USE DEF S
  <1>3. LastDone = CHOOSE m \in S : \A x \in S : x <= m
    BY DEF LastDone, Greatest
  <1>. HIDE DEF S
  <1>4. LastDone \in S /\ \A x \in S : x <= LastDone
    BY <1>2, <1>3
  <1>. QED BY <1>4, Numbers DEF S, IsDone

\* The same of the next state.
LEMMA LastDoneMaxNext ==
  (/\ LastDone \in Nat /\ LastDone <= LastBar
   /\ LastDone # 0 => LastDone \in Bar /\ IsDone(LastDone)
   /\ \A b \in Bar : IsDone(b) => b <= LastDone)'
  BY LastDoneMax, PTL

\* It only moves when a bar becomes done or is taken up again.
LEMMA SameDone ==
  ASSUME \A b \in Bar : IsDone(b)' <=> IsDone(b)
  PROVE  LastDone' = LastDone
  BY DEF LastDone, IsDone, Bar

\* pending_open_times: the bars to process are those from Floor to the latest confirmed one,
\* and the bars to skip come before.
LEMMA PlannedBars ==
  ASSUME TypeOK, Pending # {}, confirmed > 0
  PROVE  ToProcess = Floor..confirmed /\ Floor \in Bar /\ Floor <= confirmed
         /\ \A b \in Pending \ ToProcess : b < Floor
  <1>. DEFINE first == IF LastDone = 0 THEN confirmed ELSE LastDone + 1
  <1>1. /\ confirmed \in Nat /\ LastDone \in Nat /\ MaxCatchup \in Nat \ {0}
        /\ first \in Nat /\ first > 0
    BY Numbers, LastDoneMax DEF TypeOK
  <1>2. Pending = first..confirmed
    <2>1. \A n \in Nat : {n} = n..n
      OBVIOUS
    <2>. QED BY <1>1, <2>1 DEF Pending
  <1>3. ASSUME NEW b \in Pending PROVE Cardinality({c \in Pending : c >= b}) = confirmed - b + 1
    <2>1. b \in Nat /\ first <= b /\ b <= confirmed
      BY <1>1, <1>2, <1>3
    <2>2. {c \in Pending : c >= b} = b..confirmed
      BY <1>1, <1>2, <2>1
    <2>3. b \in Int /\ confirmed \in Int /\ ~(b > confirmed)
      BY <1>1, <2>1
    <2>4. Cardinality(b..confirmed) = confirmed - b + 1
      BY <2>3, FS_Interval
    <2>. QED BY <2>2, <2>4
  <1>4. first <= confirmed
    BY <1>1, <1>2
  <1>5. /\ Floor \in Nat /\ first <= Floor /\ Floor <= confirmed
        /\ Floor >= confirmed - MaxCatchup + 1
        /\ Floor = first \/ Floor = confirmed - MaxCatchup + 1
    BY <1>1, <1>4 DEF Floor, FirstOf
  <1>. HIDE DEF first
  <1>6. \A b \in Pending : b \in ToProcess <=> confirmed - b + 1 <= MaxCatchup
    BY <1>3 DEF ToProcess
  <1>7. ToProcess \subseteq Pending
    BY DEF ToProcess
  <1>8. \A b \in Pending : b \in ToProcess <=> b >= Floor
    BY <1>1, <1>2, <1>5, <1>6
  <1>9. ToProcess = Floor..confirmed
    <2>1. ASSUME NEW b \in Floor..confirmed PROVE b \in ToProcess
      BY <1>1, <1>2, <1>5, <1>8, <2>1
    <2>2. ASSUME NEW b \in ToProcess PROVE b \in Floor..confirmed
      BY <1>1, <1>2, <1>5, <1>7, <1>8, <2>2
    <2>. QED BY <2>1, <2>2
  <1>10. \A b \in Pending \ ToProcess : b < Floor
    BY <1>1, <1>2, <1>5, <1>8
  <1>11. Floor \in Bar
    BY <1>1, <1>5, Numbers DEF TypeOK, Bar
  <1>. QED BY <1>5, <1>9, <1>10, <1>11

\* The first bar to process does not go back when a later bar is confirmed or done ...
LEMMA FirstGrows ==
  ASSUME NEW d \in Nat, NEW e \in Nat, NEW m \in Nat, NEW n \in Nat, m <= n,
         e = d \/ (d # 0 /\ e >= d)
  PROVE  FirstOf(d, m) \in Nat /\ FirstOf(e, n) \in Nat /\ FirstOf(d, m) <= FirstOf(e, n)
  BY Numbers DEF FirstOf

\* ... and is past every done bar.
LEMMA FirstPasses ==
  ASSUME NEW e \in Nat, NEW n \in Nat, NEW b \in Nat \ {0}, b <= e
  PROVE  FirstOf(e, n) \in Nat /\ b + 1 <= FirstOf(e, n)
  BY Numbers DEF FirstOf

\* So a step that only confirms bars, or finishes later ones, never plans an earlier bar.
LEMMA FloorGrows ==
  ASSUME TypeOK, confirmed' \in Nat, confirmed <= confirmed',
         LastDone' = LastDone \/ (LastDone # 0 /\ LastDone' >= LastDone)
  PROVE  Floor \in Nat /\ Floor' \in Nat /\ Floor <= Floor'
  <1>1. LastDone \in Nat /\ LastDone' \in Nat /\ confirmed \in Nat
    BY LastDoneMax, LastDoneMaxNext, Numbers DEF TypeOK
  <1>. QED BY <1>1, FirstGrows DEF Floor

\* And a done bar is never planned again.
LEMMA FloorPasses ==
  ASSUME NEW b \in Bar, IsDone(b)', confirmed' \in Nat
  PROVE  Floor' \in Nat /\ b + 1 <= Floor'
  <1>1. LastDone' \in Nat /\ b <= LastDone' /\ b \in Nat \ {0}
    BY LastDoneMaxNext, Numbers
  <1>. QED BY <1>1, FirstPasses DEF Floor

\* In a tick a process has a bar to process, and one to skip while it skips.
Busy(w) ==
  /\ pc[w] \in InTick => todo[w] # {}
  /\ pc[w] \in {"skip", "protectskipped"} => skip[w] # {}

\* The current bar, and the next bar to skip, are bars.
LEMMA Here ==
  ASSUME NEW w \in Worker, TypeOK, Busy(w), pc[w] \in InTick
  PROVE  /\ Current(w) \in todo[w] /\ \A t \in todo[w] : Current(w) <= t
         /\ Current(w) \in Bar /\ Current(w) \in Nat
         /\ pc[w] \in {"skip", "protectskipped"} => Earliest(skip[w]) \in Bar
                                                 /\ Earliest(skip[w]) \in skip[w]
  <1>1. /\ skip[w] \in SUBSET Nat /\ skip[w] \in SUBSET Bar
        /\ todo[w] \in SUBSET Nat /\ todo[w] \in SUBSET Bar
    BY Numbers DEF TypeOK
  <1>. QED BY <1>1, LeastIs, Numbers DEF Busy, Current

\* What one worker knows in a tick includes that.
LEMMA TickIsBusy ==
  ASSUME NEW w \in Worker, Tick(w)
  PROVE  Busy(w)
  <1>1. ASSUME pc[w] \in InTick PROVE todo[w] # {}
    <2>1. PICK hi \in Bar : Current(w) \in Bar /\ Current(w) <= hi /\ todo[w] = Current(w)..hi
      BY <1>1 DEF Tick, Span
    <2>2. hi \in todo[w]
      BY <2>1, Numbers
    <2>. QED BY <2>2
  <1>. QED BY <1>1 DEF Tick, Busy

\* Managing the position, or failing to, keeps the types.
LEMMA Moved ==
  ASSUME TypeOK, NEW b \in Bar,
         \/ managed' = managed /\ protected' = protected
         \/ managed' = b /\ protected' = protected \cup {b},
         refused' = refused \/ refused' = refused \cup {b}
  PROVE  managed' \in 0..LastBar /\ protected' \in SUBSET Bar /\ refused' \in SUBSET Bar
  <1>1. b \in 0..LastBar
    BY Numbers
  <1>. QED BY <1>1 DEF TypeOK

\* Every step keeps the types.
LEMMA TypeStep ==
  ASSUME NEW w \in Worker, TypeOK, Busy(w),
         Confirm \/ WorkerStart(w) \/ WorkerCrash(w) \/ WorkerStep(w)
  PROVE  TypeOK'
  <1>0. w \in Worker
    OBVIOUS
  <1>1. CASE Confirm
    BY <1>1, Numbers DEF Confirm, TypeOK, local
  <1>2. CASE WorkerStart(w) \/ WorkerCrash(w) \/ LeaseLost(w)
    <2>1. UNCHANGED db /\ pc' \in [Worker -> InTick \cup {"down", "idle"}]
      BY <1>0, <1>2 DEF WorkerStart, WorkerCrash, LeaseLost, TypeOK, Stop, Goto
    <2>2. NoRow \in Row
      BY DEF NoRow, Row, Status
    <2>3. todo' \in [Worker -> SUBSET Bar] /\ skip' \in [Worker -> SUBSET Bar]
          /\ view' \in [Worker -> Row]
      BY <1>0, <1>2, <2>2 DEF WorkerStart, WorkerCrash, LeaseLost, TypeOK, Stop
    <2>. QED BY <2>1, <2>3 DEF TypeOK, db
  <1>3. CASE Plan(w)
    <2>1. Pending \in SUBSET Bar /\ ToProcess \in SUBSET Bar
      <3>1. ToProcess = Floor..confirmed /\ Floor \in Bar /\ confirmed \in Nat /\ confirmed <= LastBar
        BY <1>3, PlannedBars, Numbers DEF Plan, TypeOK
      <3>2. ASSUME NEW b \in Pending PROVE b \in Bar
        BY <1>3, <3>1, LastDoneMax, Numbers DEF Plan, Pending, TypeOK, Bar
      <3>. QED BY <3>2 DEF ToProcess
    <2>2. pc' \in [Worker -> InTick \cup {"down", "idle"}]
      BY <1>0, <1>3 DEF Plan, Goto, TypeOK, InTick
    <2>. QED BY <1>0, <1>3, <2>1, <2>2 DEF Plan, TypeOK, db
  <1>4. CASE WriteSkipped(w)
    BY <1>0, <1>4 DEF WriteSkipped, Goto, TypeOK, InTick, Row, Status
  <1>. DEFINE b == Current(w)
  <1>5. CASE Open(w)
    <2>1. b \in Bar
      BY <1>0, <1>5, Here DEF Open, InTick
    <2>2. cycle[b] \in Row
      BY <2>1 DEF TypeOK
    <2>. QED BY <1>0, <1>5, <2>2 DEF Open, Goto, TypeOK, InTick, db
  <1>6. CASE Ask(w)
    <2>1. pc' \in [Worker -> InTick \cup {"down", "idle"}]
      BY <1>0, <1>6 DEF Ask, Goto, TypeOK, InTick
    <2>. QED BY <1>6, <2>1 DEF Ask, TypeOK, db
  <1>7. CASE PassOver(w) \/ Abandoned(w) \/ Rescue(w) \/ ProtectSkipped(w) \/ ClaimRejected(w)
                \/ FailUnmarked(w)
    <2>1. b \in Bar /\ (ProtectSkipped(w) => Earliest(skip[w]) \in Bar)
      BY <1>0, <1>7, Here
         DEF PassOver, Abandoned, Rescue, ProtectSkipped, ClaimRejected, FailUnmarked, InTick
    <2>. HIDE DEF b
    <2>2. pc' \in [Worker -> InTick \cup {"down", "idle"}]
      BY <1>0, <1>7 DEF PassOver, Abandoned, Rescue, ProtectSkipped, ClaimRejected, FailUnmarked,
                        ToNextBar, EndTick, Goto, TypeOK, InTick
    <2>3. todo' \in [Worker -> SUBSET Bar] /\ skip' \in [Worker -> SUBSET Bar]
      BY <1>0, <1>7 DEF PassOver, Abandoned, Rescue, ProtectSkipped, ClaimRejected, FailUnmarked,
                        ToNextBar, EndTick, TypeOK
    <2>4. managed' \in 0..LastBar /\ protected' \in SUBSET Bar /\ refused' \in SUBSET Bar
      <3>1. \E x \in Bar :
              /\ \/ managed' = managed /\ protected' = protected
                 \/ managed' = x /\ protected' = protected \cup {x}
              /\ refused' = refused \/ refused' = refused \cup {x}
        BY <1>7, <2>1
           DEF PassOver, Abandoned, Rescue, ProtectSkipped, ClaimRejected, FailUnmarked,
               ProtectBar, Sweep, Managed, SavepointFailed, db, b
      <3>. QED BY <3>1, Moved
    <2>5. view' \in [Worker -> Row] /\ population' \in {"active", "extinct"}
      BY <1>0, <1>7
         DEF PassOver, Abandoned, Rescue, ProtectSkipped, ClaimRejected, FailUnmarked,
             ProtectBar, MayDie, Forget, TypeOK, db, NoRow, Row, Status
    <2>6. UNCHANGED <<confirmed, cycle, decided, opened, events>>
      BY <1>7
         DEF PassOver, Abandoned, Rescue, ProtectSkipped, ClaimRejected, FailUnmarked,
             ProtectBar, db
    <2>. QED BY <2>2, <2>3, <2>4, <2>5, <2>6 DEF TypeOK
  <1>8. CASE Quarantine(w) \/ Claim(w) \/ Complete(w) \/ Fail(w)
    <2>1. b \in Bar
      BY <1>0, <1>8, Here DEF Quarantine, Claim, Complete, Fail, InTick
    <2>. HIDE DEF b
    <2>2. pc' \in [Worker -> InTick \cup {"down", "idle"}]
      BY <1>0, <1>8 DEF Quarantine, Claim, Complete, Fail, ToNextBar, Goto, TypeOK, InTick
    <2>3. todo' \in [Worker -> SUBSET Bar]
      BY <1>0, <1>8 DEF Quarantine, Claim, Complete, Fail, ToNextBar, TypeOK
    <2>4. view' \in [Worker -> Row] /\ view[w].attempts + 1 \in Nat
      <3>1. NoRow \in Row /\ view[w].attempts \in Nat
        BY <1>0 DEF NoRow, Row, Status, TypeOK
      <3>. QED BY <1>0, <1>8, <3>1 DEF Quarantine, Claim, Complete, Fail, Forget, TypeOK
    <2>5. ASSUME NEW s \in Status, NEW n \in Nat, cycle' = [cycle EXCEPT ![b] = [status |-> s, attempts |-> n]]
          PROVE  cycle' \in [Bar -> Row]
      BY <2>5 DEF TypeOK, Row
    <2>6. cycle[b].status \in Status /\ cycle[b].attempts \in Nat
      BY <2>1 DEF TypeOK, Row
    <2>7. \E s \in Status, n \in Nat : cycle' = [cycle EXCEPT ![b] = [status |-> s, attempts |-> n]]
      BY <1>8, <2>4, <2>6 DEF Quarantine, Claim, Complete, Fail, SetRow, b, Status
    <2>8. cycle' \in [Bar -> Row]
      BY <2>5, <2>7
    <2>9. UNCHANGED <<confirmed, decided, opened, managed, protected, refused, population, events,
                       skip>>
      BY <1>8 DEF Quarantine, Claim, Complete, Fail
    <2>. QED BY <2>2, <2>3, <2>4, <2>8, <2>9 DEF TypeOK
  <1>9. CASE Decide(w)
    <2>1. b \in Bar
      BY <1>0, <1>9, Here DEF Decide, InTick
    <2>. HIDE DEF b
    <2>2. pc' \in [Worker -> InTick \cup {"down", "idle"}]
      BY <1>0, <1>9 DEF Decide, Goto, TypeOK, InTick
    <2>3. /\ opened' \in 0..LastBar /\ managed' \in 0..LastBar /\ protected' \in SUBSET Bar
          /\ decided' \in SUBSET Bar /\ refused' \in SUBSET Bar
      <3>1. /\ opened' = opened \/ opened' = b
            /\ decided' = decided \/ decided' = decided \cup {b}
            /\ \/ managed' = managed /\ protected' = protected
               \/ managed' = b /\ protected' = protected \cup {b}
            /\ refused' = refused \/ refused' = refused \cup {b}
        BY <1>9 DEF Decide, DecidePositions, Sweep, Managed, SavepointFailed, Opens, b
      <3>2. b \in 0..LastBar
        BY <2>1, Numbers
      <3>. QED BY <2>1, <3>1, <3>2, Moved DEF TypeOK
    <2>4. /\ population' \in {"active", "extinct"}
          /\ UNCHANGED <<confirmed, cycle, events, todo, skip, view>>
      BY <1>9 DEF Decide, MayDie, TypeOK
    <2>. QED BY <2>2, <2>3, <2>4 DEF TypeOK
  <1>10. CASE Record(w)
    BY <1>0, <1>10 DEF Record, Goto, TypeOK, InTick
  <1>. QED BY <1>1, <1>2, <1>3, <1>4, <1>5, <1>6, <1>7, <1>8, <1>9, <1>10 DEF WorkerStep

\* A step that finishes no bar and confirms none plans the same bars.
LEMMA SameFloor ==
  ASSUME UNCHANGED confirmed, \A x \in Bar : IsDone(x)' <=> IsDone(x)
  PROVE  Floor' = Floor /\ LastDone' = LastDone
  BY SameDone DEF Floor

\* A step that stays on its bar keeps what is known of the bars left.
LEMMA SpanStays ==
  ASSUME NEW w \in Worker, Span(w), TypeOK, TypeOK', todo'[w] = todo[w], confirmed <= confirmed',
         Floor \in Nat, Floor' \in Nat, Floor <= Floor',
         \A x \in Bar : IsDone(x)' => x < Current(w) \/ (pc'[w] = "abandoned" /\ x = Current(w)),
         \A c \in Touched' : c \in Touched \/ c <= Current(w)
  PROVE  Span(w)' /\ Current(w)' = Current(w)
  <1>1. Current(w)' = Current(w)
    BY DEF Current
  <1>0. confirmed' \in Nat
    BY Numbers DEF TypeOK
  <1>2. Current(w) \in Nat /\ confirmed \in Nat /\ confirmed' \in Nat
    BY <1>0, Numbers, NumbersOfState DEF Span
  <1>3. PICK hi \in Bar : Current(w) <= hi /\ hi <= confirmed /\ todo[w] = Current(w)..hi
    BY DEF Span
  <1>4. hi <= confirmed' /\ Current(w) <= Floor'
    BY <1>2, <1>3, Numbers DEF Span
  <1>5. \A c \in Touched' : c <= Current(w)
    BY DEF Span
  <1>. QED BY <1>1, <1>3, <1>4, <1>5 DEF Span

\* Leaving a bar that is done leaves the interval that starts at the next one.
LEMMA SpanNext ==
  ASSUME NEW w \in Worker, Span(w), TypeOK, TypeOK', ToNextBar(w), UNCHANGED confirmed,
         Current(w) + 1 <= Floor',
         \A x \in Bar : IsDone(x)' => x <= Current(w),
         \A c \in Touched' : c <= Current(w)
  PROVE  pc'[w] = "idle" \/ (pc'[w] = "open" /\ Span(w)')
  <1>. DEFINE b == Current(w)
  <1>1. PICK hi \in Bar : b <= hi /\ hi <= confirmed /\ todo[w] = b..hi
    BY DEF Span
  <1>2. b \in Bar /\ b \in Nat /\ hi \in Nat /\ confirmed \in Nat
    BY Numbers, NumbersOfState DEF Span
  <1>3. pc'[w] = (IF IsLatest(w) THEN "idle" ELSE "open")
    BY DEF ToNextBar, Goto, TypeOK
  <1>4. todo'[w] = todo[w] \ {b}
    BY DEF ToNextBar, TypeOK, Current
  <1>. HIDE DEF b
  <1>5. b = hi => IsLatest(w)
    <2>1. SUFFICES ASSUME b = hi PROVE Cardinality(b..b) = 1
      BY <1>1 DEF IsLatest
    <2>2. b \in Int /\ ~(b > b) /\ b - b + 1 = 1
      BY <1>2
    <2>. QED BY <2>2, FS_Interval
  <1>6. CASE b # hi
    <2>1. b + 1 <= hi /\ b + 1 \in Nat
      BY <1>1, <1>2, <1>6
    <2>2. todo'[w] = (b + 1)..hi
      BY <1>1, <1>2, <1>4
    <2>3. Current(w)' = b + 1
      BY <1>2, <2>1, <2>2, LeastOfInterval DEF Current
    <2>4. b + 1 \in Bar
      BY <1>2, <2>1, Numbers DEF Bar
    <2>5. \A x \in Bar : IsDone(x)' => x < b + 1
      BY <1>2, Numbers DEF b
    <2>6. \A c \in Touched' : c <= b + 1
      <3>1. \A c \in Touched' : c \in Nat
        BY Numbers DEF Touched, TypeOK
      <3>. QED BY <1>2, <3>1 DEF b
    <2>7. Span(w)'
      BY <1>1, <1>2, <2>1, <2>2, <2>3, <2>4, <2>5, <2>6 DEF Span, b
    <2>. QED BY <1>3, <2>7
  <1>. QED BY <1>3, <1>5, <1>6

\* A process that ends, or ends its tick, writes nothing.
LEMMA Left ==
  ASSUME NEW w \in Worker, IInv(w), TypeOK', UNCHANGED db, pc'[w] \in {"down", "idle"}
  PROVE  IInv(w)'
  <1>1. Floor' = Floor
    BY SameFloor DEF IsDone, db
  <1>2. Behind' /\ CompletedBarsProtected'
    BY <1>1 DEF IInv, Behind, Touched, CompletedBarsProtected, db, Bar
  <1>3. Tick(w)'
    BY DEF Tick, InTick
  <1>4. Extinction(w)'
    BY DEF IInv, Extinction, db
  <1>. QED BY <1>2, <1>3, <1>4 DEF IInv

\* A new bar in the store.
LEMMA ConfirmStep ==
  ASSUME NEW w \in Worker, IInv(w), TypeOK', Confirm
  PROVE  IInv(w)'
  <1>1. /\ confirmed \in Nat /\ confirmed' \in Nat /\ confirmed <= confirmed'
        /\ UNCHANGED <<cycle, decided, opened, managed, protected, refused, population, events, pc, todo,
                       skip, view>>
    BY NumbersOfState DEF Confirm, local, IInv
  <1>2. LastDone' = LastDone /\ \A x \in Bar : IsDone(x)' <=> IsDone(x)
    BY <1>1, SameDone DEF IsDone
  <1>3. Floor \in Nat /\ Floor' \in Nat /\ Floor <= Floor'
    BY <1>1, <1>2, FloorGrows DEF IInv
  <1>4. Touched' = Touched /\ \A c \in Touched : c \in Nat
    BY <1>1, NumbersOfState DEF Touched, IInv
  <1>5. Behind' /\ CompletedBarsProtected'
    BY <1>1, <1>3, <1>4 DEF IInv, Behind, CompletedBarsProtected, Bar
  <1>6. pc[w] \in InTick => Span(w)' /\ Current(w)' = Current(w)
    BY <1>1, <1>2, <1>3, <1>4, SpanStays DEF IInv, Tick, Span
  <1>7. Current(w)' = Current(w) /\ IsDone(Current(w))' = IsDone(Current(w))
    BY <1>1 DEF Current, IsDone
  <1>8. Tick(w)'
    BY <1>1, <1>2, <1>6, <1>7 DEF IInv, Tick
  <1>9. Extinction(w)'
    BY <1>1 DEF IInv, Extinction
  <1>. QED BY <1>5, <1>8, <1>9 DEF IInv

\* The start of a tick.
LEMMA PlanStep ==
  ASSUME NEW w \in Worker, IInv(w), TypeOK', Plan(w)
  PROVE  IInv(w)'
  <1>1. /\ UNCHANGED db /\ todo'[w] = ToProcess /\ skip'[w] = Pending \ ToProcess
        /\ pc'[w] = IF Pending \ ToProcess = {} THEN "open" ELSE "skip"
    BY DEF Plan, Goto, IInv, TypeOK
  <1>2. /\ ToProcess = Floor..confirmed /\ Floor \in Bar /\ Floor <= confirmed
        /\ \A x \in Pending \ ToProcess : x < Floor
    BY PlannedBars DEF Plan, IInv
  <1>3. /\ confirmed \in Bar /\ confirmed \in Nat /\ Floor \in Nat
    <2>1. confirmed \in Nat /\ confirmed <= LastBar /\ confirmed > 0
      BY NumbersOfState DEF Plan, IInv
    <2>. QED BY <1>2, <2>1, Numbers DEF Bar
  <1>4. Floor' = Floor /\ LastDone' = LastDone /\ \A x \in Bar : IsDone(x)' <=> IsDone(x)
    BY <1>1, SameFloor DEF IsDone, db
  <1>5. Current(w)' = Floor
    BY <1>1, <1>2, <1>3, LeastOfInterval DEF Current
  <1>6. Behind' /\ CompletedBarsProtected' /\ Touched' = Touched
    BY <1>1, <1>4 DEF IInv, Behind, Touched, CompletedBarsProtected, db, Bar
  <1>7. \A x \in Bar : IsDone(x) => x < Floor
    <2>1. ASSUME NEW x \in Bar, IsDone(x) PROVE x < Floor
      <3>1. LastDone \in Nat /\ x <= LastDone /\ x \in Nat /\ x > 0 /\ MaxCatchup \in Nat
        BY <2>1, LastDoneMax, Numbers
      <3>. QED BY <1>3, <3>1 DEF Floor, FirstOf
    <2>. QED BY <2>1
  <1>8. Span(w)'
    <2>1. todo'[w] = Floor..confirmed' /\ confirmed' = confirmed
      BY <1>1, <1>2 DEF db
    <2>2. \A c \in Touched' : c <= Current(w)'
      BY <1>5, <1>6 DEF IInv, Behind
    <2>3. Current(w)' <= Floor'
      BY <1>3, <1>4, <1>5
    <2>4. \A x \in Bar : IsDone(x)' => x < Current(w)'
      BY <1>4, <1>5, <1>7
    <2>5. \E hi \in Bar : Current(w)' <= hi /\ hi <= confirmed' /\ todo'[w] = Current(w)'..hi
      BY <1>2, <1>3, <1>5, <2>1
    <2>. QED BY <1>2, <1>5, <2>2, <2>3, <2>4, <2>5 DEF Span
  <1>9. Pending \ ToProcess # {} => LastDone # 0
    BY <1>2, <1>3 DEF Pending, Floor, FirstOf
  <1>10. Tick(w)'
    BY <1>1, <1>2, <1>4, <1>5, <1>8, <1>9 DEF Tick
  <1>11. Extinction(w)'
    BY <1>1 DEF IInv, Extinction, db
  <1>. QED BY <1>6, <1>10, <1>11 DEF IInv

\* _record_skipped.
LEMMA WriteSkippedStep ==
  ASSUME NEW w \in Worker, IInv(w), TypeOK', WriteSkipped(w)
  PROVE  IInv(w)'
  <1>. DEFINE b == Current(w)
  <1>0. /\ TypeOK /\ Span(w) /\ LastDone # 0 /\ pc[w] = "skip" /\ b \in Nat
        /\ skip[w] # {} /\ \A x \in skip[w] : x < b
    BY Numbers DEF WriteSkipped, IInv, Tick, InTick, Span
  <1>1. /\ UNCHANGED <<confirmed, decided, opened, managed, protected, refused, population, events, todo,
                       skip>>
        /\ pc'[w] = "protectskipped"
    BY <1>0 DEF WriteSkipped, Goto, TypeOK
  <1>2. \A x \in Bar : /\ IsDone(x) => IsDone(x)'
                       /\ IsDone(x)' => IsDone(x) \/ x \in skip[w]
                       /\ cycle'[x].status = "COMPLETED" => cycle[x].status = "COMPLETED"
    BY DEF WriteSkipped, IsDone, Bar, Done
  <1>3. LastDone \in Nat /\ LastDone' \in Nat /\ LastDone <= LastDone'
    BY <1>0, <1>2, LastDoneMax, LastDoneMaxNext
  <1>4. Floor \in Nat /\ Floor' \in Nat /\ Floor <= Floor'
    BY <1>0, <1>1, <1>3, FloorGrows, NumbersOfState
  <1>5. Touched' = Touched /\ \A c \in Touched : c \in Nat
    BY <1>0, <1>1, NumbersOfState DEF Touched
  <1>6. Behind'
    BY <1>1, <1>4, <1>5 DEF IInv, Behind
  <1>7. CompletedBarsProtected'
    BY <1>1, <1>2 DEF IInv, CompletedBarsProtected, Bar
  <1>8. \A x \in Bar : IsDone(x)' => x < b
    BY <1>0, <1>2 DEF Span
  <1>9. Span(w)' /\ Current(w)' = Current(w)
    BY <1>0, <1>1, <1>4, <1>5, <1>8, NumbersOfState, SpanStays
  <1>10. Tick(w)'
    BY <1>0, <1>1, <1>9 DEF Tick
  <1>11. Extinction(w)'
    BY <1>1 DEF IInv, Extinction
  <1>. QED BY <1>6, <1>7, <1>10, <1>11 DEF IInv

\* The protective pass over a skipped bar.
LEMMA ProtectSkippedStep ==
  ASSUME NEW w \in Worker, IInv(w), TypeOK', ProtectSkipped(w)
  PROVE  IInv(w)'
  <1>. DEFINE b == Current(w)
              s == Earliest(skip[w])
  <1>0. /\ TypeOK /\ Span(w) /\ pc[w] = "protectskipped" /\ b \in Nat
        /\ skip[w] # {} /\ \A x \in skip[w] : x < b
        /\ s \in skip[w] /\ s \in Bar /\ s < b
    BY Numbers, Here, TickIsBusy DEF ProtectSkipped, IInv, Tick, InTick, Span
  <1>1. /\ UNCHANGED <<confirmed, cycle, decided, opened, events, view, todo>>
        /\ skip'[w] = skip[w] \ {s}
        /\ pc'[w] = IF Cardinality(skip[w]) = 1 THEN "open" ELSE "protectskipped"
    BY <1>0 DEF ProtectSkipped, ProtectBar, Goto, TypeOK
  <1>2. /\ population' \in {population, "extinct"}
        /\ \/ managed' = managed /\ protected' = protected
           \/ managed' = s /\ protected' = protected \cup {s}
        /\ refused \subseteq refused'
    BY DEF ProtectSkipped, ProtectBar, Sweep, Managed, SavepointFailed, MayDie
  <1>. HIDE DEF s
  <1>3. Floor' = Floor /\ \A x \in Bar : IsDone(x)' <=> IsDone(x)
    BY <1>1, SameFloor DEF IsDone
  <1>4. Floor \in Nat
    BY <1>0, <1>1, LastDoneMaxNext, FloorGrows, SameDone, NumbersOfState DEF IsDone
  <1>5. \A c \in Touched' : c \in Touched \/ c <= b
    BY <1>0, <1>1, <1>2, Numbers DEF Touched
  <1>6. \A c \in Touched' : c <= Floor'
    <2>1. b <= Floor /\ s \in Nat /\ s <= Floor
      BY <1>0, <1>4, Numbers DEF Span
    <2>. QED BY <1>1, <1>2, <1>3, <2>1 DEF Touched, IInv, Behind
  <1>7. Behind' /\ CompletedBarsProtected'
    BY <1>1, <1>2, <1>6 DEF IInv, Behind, CompletedBarsProtected, Bar
  <1>8. Span(w)' /\ Current(w)' = Current(w)
    BY <1>0, <1>1, <1>3, <1>4, <1>5, NumbersOfState, SpanStays DEF Span
  <1>9. pc'[w] = "protectskipped" => skip'[w] # {}
    <2>1. SUFFICES ASSUME skip[w] = {s} PROVE Cardinality(skip[w]) = 1
      BY <1>0, <1>1
    <2>. QED BY <2>1, FS_Singleton
  <1>10. Tick(w)'
    BY <1>0, <1>1, <1>8, <1>9 DEF Tick
  <1>11. Extinction(w)'
    BY <1>1, <1>2 DEF IInv, Extinction
  <1>. QED BY <1>7, <1>10, <1>11 DEF IInv

\* Reading the row, asking about the extinction and recording it.
LEMMA OpenStep ==
  ASSUME NEW w \in Worker, IInv(w), TypeOK', Open(w) \/ Ask(w) \/ Record(w)
  PROVE  IInv(w)'
  <1>0. /\ TypeOK /\ Span(w) /\ pc[w] \in {"open", "ask", "record"}
    BY DEF Open, Ask, Record, IInv, Tick, InTick
  <1>1. /\ UNCHANGED <<confirmed, cycle, decided, opened, managed, protected, refused, population, todo>>
        /\ pc'[w] = (IF pc[w] = "open" THEN "claim"
                     ELSE IF pc[w] = "ask" /\ population = "extinct" THEN "record"
                     ELSE "complete")
        /\ events' = (IF pc[w] = "record" THEN events + 1 ELSE events)
    BY <1>0 DEF Open, Ask, Record, Goto, TypeOK, db
  <1>2. Floor' = Floor /\ \A x \in Bar : IsDone(x)' <=> IsDone(x)
    BY <1>1, SameFloor DEF IsDone
  <1>3. confirmed \in Nat /\ Floor \in Nat
    BY <1>0, <1>1, LastDoneMaxNext, FloorGrows, SameDone, NumbersOfState DEF IsDone
  <1>4. Touched' = Touched
    BY <1>1 DEF Touched
  <1>5. Behind' /\ CompletedBarsProtected'
    BY <1>1, <1>2, <1>4 DEF IInv, Behind, CompletedBarsProtected, Bar
  <1>6. Span(w)' /\ Current(w)' = Current(w)
    BY <1>0, <1>1, <1>2, <1>3, <1>4, SpanStays DEF Span
  <1>7. pc[w] = "open" => view'[w] = cycle[Current(w)]
    BY <1>0 DEF Open, Ask, Record, TypeOK
  <1>8. Tick(w)'
    BY <1>0, <1>1, <1>6, <1>7 DEF IInv, Tick
  <1>9. Extinction(w)'
    BY <1>0, <1>1 DEF IInv, Extinction
  <1>. QED BY <1>5, <1>8, <1>9 DEF IInv

\* In a tick no bar past the current one is done.
LEMMA DoneBound ==
  ASSUME NEW w \in Worker, TypeOK, Span(w)
  PROVE  /\ Current(w) \in Bar /\ Current(w) \in Nat /\ confirmed \in Nat /\ Floor \in Nat
         /\ \A x \in Bar : IsDone(x) => x <= Current(w)
         /\ pc[w] # "abandoned" => ~IsDone(Current(w))
  <1>1. Current(w) \in Bar /\ Current(w) \in Nat /\ confirmed \in Nat
    BY Numbers, NumbersOfState DEF Span
  <1>2. Floor \in Nat
    <2>1. \A d, n \in Nat : FirstOf(d, n) \in Nat
      BY Numbers DEF FirstOf
    <2>. QED BY <1>1, <2>1, LastDoneMax DEF Floor
  <1>3. \A x \in Bar : x \in Nat
    BY Numbers
  <1>. QED BY <1>1, <1>2, <1>3 DEF Span

\* Claiming a bar and marking it FAILED leave it to be done.
LEMMA ClaimStep ==
  ASSUME NEW w \in Worker, IInv(w), TypeOK', Claim(w) \/ Fail(w)
  PROVE  IInv(w)'
  <1>. DEFINE b == Current(w)
  <1>0. /\ TypeOK /\ Span(w) /\ pc[w] \in {"claim", "work", "ask", "record", "complete"}
        /\ pc[w] = "claim" => view[w] = cycle[b]
    BY DEF Claim, Fail, IInv, Tick, InTick
  <1>1. /\ UNCHANGED <<confirmed, decided, opened, managed, protected, refused, population, events, todo>>
        /\ pc'[w] \in {"work", "rescue"}
        /\ \A x \in Bar : x # b => cycle'[x] = cycle[x]
    BY <1>0 DEF Claim, Fail, Goto, SetRow, TypeOK
  <1>2. b \in Bar /\ ~IsDone(b) /\ confirmed \in Nat /\ Floor \in Nat
    BY <1>0, DoneBound
  <1>3. cycle'[b].status \in {"STARTED", "FAILED"}
    BY <1>0, <1>2 DEF Claim, Fail, SetRow, TypeOK
  <1>4. \A x \in Bar : IsDone(x)' <=> IsDone(x)
    BY <1>1, <1>2, <1>3 DEF IsDone, Done
  <1>5. Floor' = Floor /\ Touched' = Touched
    BY <1>1, <1>4, SameFloor DEF Touched
  <1>6. \A x \in Bar : cycle'[x].status = "COMPLETED" => cycle[x].status = "COMPLETED"
    BY <1>1, <1>3
  <1>7. Behind' /\ CompletedBarsProtected'
    BY <1>1, <1>5, <1>6 DEF IInv, Behind, CompletedBarsProtected, Bar
  <1>8. Span(w)' /\ Current(w)' = Current(w)
    BY <1>0, <1>1, <1>2, <1>4, <1>5, SpanStays DEF Span
  <1>9. Tick(w)'
    BY <1>1, <1>8 DEF Tick
  <1>10. Extinction(w)'
    BY <1>1 DEF IInv, Extinction
  <1>. QED BY <1>7, <1>9, <1>10 DEF IInv

\* FAILED_PERMANENT.
LEMMA QuarantineStep ==
  ASSUME NEW w \in Worker, IInv(w), TypeOK', Quarantine(w)
  PROVE  IInv(w)'
  <1>. DEFINE b == Current(w)
  <1>0. TypeOK /\ Span(w) /\ pc[w] = "claim"
    BY DEF Quarantine, IInv, Tick, InTick
  <1>1. /\ UNCHANGED <<confirmed, decided, opened, managed, protected, refused, population, events, todo>>
        /\ pc'[w] = "abandoned"
        /\ \A x \in Bar : x # b => cycle'[x] = cycle[x]
    BY <1>0 DEF Quarantine, Goto, SetRow, TypeOK
  <1>2. b \in Bar /\ b \in Nat /\ ~IsDone(b) /\ confirmed \in Nat /\ Floor \in Nat
    BY <1>0, DoneBound
  <1>3. cycle'[b].status = "FAILED_PERMANENT"
    BY <1>2, <1>0 DEF Quarantine, SetRow, TypeOK
  <1>4. IsDone(b)' /\ \A x \in Bar : IsDone(x)' => IsDone(x) \/ x = b
    BY <1>1, <1>3 DEF IsDone, Done, Current
  <1>5. Floor' \in Nat /\ b + 1 <= Floor'
    <2>1. \A x \in Bar : x = b => IsDone(x)'
      BY <1>3 DEF IsDone, Done
    <2>. HIDE DEF b
    <2>. QED BY <1>1, <1>2, <2>1, FloorPasses
  <1>6. Current(w)' = Current(w) /\ Touched' = Touched /\ \A c \in Touched : c \in Nat
    BY <1>0, <1>1, NumbersOfState DEF Current, Touched
  <1>7. Behind'
    BY <1>0, <1>1, <1>2, <1>5, <1>6 DEF IInv, Behind, Span
  <1>8. CompletedBarsProtected'
    <2>1. \A x \in Bar : cycle'[x].status = "COMPLETED" => cycle[x].status = "COMPLETED"
      BY <1>1, <1>3
    <2>. QED BY <1>1, <2>1 DEF IInv, CompletedBarsProtected, Bar
  <1>9. Span(w)'
    <2>1. \E hi \in Bar : /\ Current(w)' <= hi /\ hi <= confirmed'
                          /\ todo'[w] = Current(w)'..hi
      BY <1>0, <1>1, <1>6 DEF Span
    <2>2. \A c \in Touched' : c <= Current(w)'
      BY <1>0, <1>6 DEF Span
    <2>3. Current(w)' <= Floor' /\ Current(w)' \in Bar
      BY <1>2, <1>5, <1>6
    <2>4. \A x \in Bar : IsDone(x)' => x < Current(w)' \/ (pc'[w] = "abandoned" /\ x = Current(w)')
      BY <1>0, <1>1, <1>4, <1>6 DEF Span
    <2>. QED BY <2>1, <2>2, <2>3, <2>4 DEF Span
  <1>10. IsDone(Current(w))'
    BY <1>4
  <1>11. Tick(w)'
    BY <1>1, <1>9, <1>10 DEF Tick
  <1>12. Extinction(w)'
    BY <1>1 DEF IInv, Extinction
  <1>. QED BY <1>7, <1>8, <1>11, <1>12 DEF IInv

\* The decision phase: the sweep makes sure that an open position was managed on the bar.
LEMMA DecideStep ==
  ASSUME NEW w \in Worker, IInv(w), TypeOK', Decide(w)
  PROVE  IInv(w)'
  <1>. DEFINE b == Current(w)
  <1>0. TypeOK /\ Span(w) /\ pc[w] = "work"
    BY DEF Decide, IInv, Tick, InTick
  <1>1. UNCHANGED <<confirmed, cycle, events, todo>> /\ pc'[w] \in {"ask", "complete"}
    BY <1>0 DEF Decide, Goto, TypeOK
  <1>2. /\ b \in Bar /\ b \in Nat /\ ~IsDone(b) /\ confirmed \in Nat /\ Floor \in Nat
        /\ b <= Floor /\ \A c \in Touched : c <= b
        /\ \A x \in Bar : IsDone(x) => x < b
    BY <1>0, DoneBound DEF Span
  <1>3. /\ decided' = decided \/ decided' = decided \cup {b}
        /\ population' \in {population, "extinct"}
        /\ refused \subseteq refused'
        /\ \/ /\ opened' = opened
              /\ \/ /\ managed' = managed /\ protected' = protected
                    /\ opened = 0 \/ ~(managed < b) \/ b \in refused'
                 \/ managed' = b /\ protected' = protected \cup {b}
           \/ opened' = b /\ managed' = b /\ protected' = protected \cup {b}
    BY DEF Decide, DecidePositions, Sweep, Managed, SavepointFailed, Opens, MayDie
  <1>4. pc'[w] = "ask" => population = "active"
    BY <1>0 DEF Decide, Asks, Goto, TypeOK
  <1>5. Current(w)' = Current(w)
    BY <1>1 DEF Current
  <1>6. Floor' = Floor /\ \A x \in Bar : IsDone(x)' <=> IsDone(x)
    BY <1>1, SameFloor DEF IsDone
  <1>. HIDE DEF b
  <1>7. \A c \in Touched' : c \in Touched \/ c = b
    BY <1>3 DEF Touched
  <1>8. managed \in Nat /\ opened \in Nat /\ \A c \in Touched : c \in Nat
    BY <1>0, NumbersOfState
  <1>9. opened' # 0 =>
          managed' \in protected' /\ (opened' <= b => b \in protected' \cup refused')
    <2>1. managed <= b
      BY <1>2 DEF Touched
    <2>2. opened # 0 => managed \in protected
      BY DEF IInv, Behind
    <2>. QED BY <1>2, <1>3, <1>8, <2>1, <2>2
  <1>10. \A c \in Touched' : c <= b /\ c <= Floor
    BY <1>2, <1>7, <1>8 DEF IInv, Behind
  <1>11. Behind'
    BY <1>6, <1>9, <1>10 DEF Behind
  <1>12. CompletedBarsProtected'
    <2>1. ASSUME NEW x \in Bar, cycle'[x].status = "COMPLETED", opened' # 0, opened' <= x
          PROVE  x \in protected' \cup refused'
      <3>1. x < b /\ x \in Nat /\ cycle[x].status = "COMPLETED"
        BY <1>1, <1>2, <2>1, Numbers DEF IsDone, Done
      <3>2. opened' = opened
        BY <1>2, <1>3, <2>1, <3>1
      <3>. QED BY <1>3, <2>1, <3>1, <3>2 DEF IInv, CompletedBarsProtected
    <2>. QED BY <2>1 DEF CompletedBarsProtected, Bar
  <1>13. Span(w)'
    BY <1>0, <1>1, <1>2, <1>6, <1>10, SpanStays DEF b
  <1>14. Tick(w)'
    BY <1>1, <1>5, <1>9, <1>13 DEF Tick, b
  <1>15. Extinction(w)'
    BY <1>1, <1>3, <1>4 DEF IInv, Extinction, TypeOK
  <1>. QED BY <1>11, <1>12, <1>14, <1>15 DEF IInv

\* A bar that is completed, or was quarantined and protected, is left behind.
LEMMA LeaveBarStep ==
  ASSUME NEW w \in Worker, IInv(w), TypeOK', Complete(w) \/ Abandoned(w)
  PROVE  IInv(w)'
  <1>0. TypeOK /\ Span(w) /\ pc[w] \in {"complete", "abandoned"}
    BY DEF Complete, Abandoned, IInv, Tick, InTick
  <1>b. PICK b \in Bar : b = Current(w)
    BY <1>0 DEF Span
  <1>1. /\ UNCHANGED <<confirmed, decided, opened, events>> /\ ToNextBar(w)
        /\ \A x \in Bar : x # b => cycle'[x] = cycle[x]
        /\ pc[w] = "abandoned" => cycle' = cycle
    BY <1>0, <1>b DEF Complete, Abandoned, ProtectBar, SetRow, TypeOK
  <1>2. /\ b \in Bar /\ b \in Nat /\ confirmed \in Nat /\ Floor \in Nat
        /\ b <= Floor /\ \A c \in Touched : c <= b
        /\ \A x \in Bar : IsDone(x) => x <= b
    BY <1>0, <1>b, DoneBound DEF Span
  <1>3. pc[w] = "complete" =>
          /\ cycle'[b].status = "COMPLETED"
          /\ UNCHANGED <<managed, protected, refused, population>>
    BY <1>0, <1>b, <1>2 DEF Complete, Abandoned, SetRow, TypeOK
  <1>4. /\ population' \in {population, "extinct"}
        /\ \/ managed' = managed /\ protected' = protected
           \/ managed' = b /\ protected' = protected \cup {b}
        /\ refused \subseteq refused'
    BY <1>0, <1>b DEF Complete, Abandoned, ProtectBar, Sweep, Managed, SavepointFailed, MayDie
  <1>5. /\ pc[w] = "abandoned" => IsDone(b)
        /\ pc[w] = "complete" /\ opened # 0 /\ opened <= b =>
             b \in protected \cup refused
    BY <1>b DEF IInv, Tick
  <1>6. cycle'[b].status \in Done
    BY <1>0, <1>1, <1>3, <1>5 DEF IsDone, Done
  <1>7. Floor' \in Nat /\ b + 1 <= Floor'
    <2>1. IsDone(b)'
      BY <1>6 DEF IsDone
    <2>. QED BY <1>1, <1>2, <2>1, FloorPasses
  <1>8. \A c \in Touched' : c <= b
    BY <1>1, <1>2, <1>4 DEF Touched
  <1>9. \A x \in Bar : IsDone(x)' => x <= b
    BY <1>1, <1>2 DEF IsDone
  <1>10. \A c \in Touched' : c \in Nat
    BY <1>0, <1>1, <1>2, <1>4, NumbersOfState DEF Touched
  <1>11. Behind'
    <2>1. \A c \in Touched' : c <= Floor'
      BY <1>2, <1>7, <1>8, <1>10
    <2>. QED BY <1>1, <1>4, <2>1 DEF IInv, Behind
  <1>12. CompletedBarsProtected'
    <2>1. \A x \in Bar : cycle'[x].status = "COMPLETED" =>
            cycle[x].status = "COMPLETED" \/ (x = b /\ pc[w] = "complete")
      BY <1>0, <1>1
    <2>. QED BY <1>1, <1>4, <1>5, <2>1 DEF IInv, CompletedBarsProtected, Bar
  <1>13. pc'[w] = "idle" \/ (pc'[w] = "open" /\ Span(w)')
    BY <1>0, <1>1, <1>b, <1>7, <1>8, <1>9, SpanNext
  <1>14. Tick(w)'
    BY <1>13 DEF Tick, InTick
  <1>15. Extinction(w)'
    BY <1>1, <1>4, <1>13 DEF IInv, Extinction
  <1>. QED BY <1>11, <1>12, <1>14, <1>15 DEF IInv

\* The protective pass over a failed bar.
LEMMA RescueStep ==
  ASSUME NEW w \in Worker, IInv(w), TypeOK', Rescue(w)
  PROVE  IInv(w)'
  <1>0. TypeOK /\ Span(w)
    BY DEF Rescue, IInv, Tick, InTick
  <1>b. PICK b \in Bar : b = Current(w)
    BY <1>0 DEF Span
  <1>1. UNCHANGED <<confirmed, cycle, decided, opened, events>> /\ pc'[w] = "idle"
    BY <1>0 DEF Rescue, ProtectBar, EndTick, Goto, TypeOK
  <1>2. /\ population' \in {population, "extinct"}
        /\ \/ managed' = managed /\ protected' = protected
           \/ managed' = b /\ protected' = protected \cup {b}
        /\ refused \subseteq refused'
    BY <1>b DEF Rescue, ProtectBar, Sweep, Managed, SavepointFailed, MayDie
  <1>3. Floor' = Floor
    BY <1>1, SameFloor DEF IsDone
  <1>4. \A c \in Touched' : c <= Floor'
    BY <1>0, <1>b, <1>1, <1>2, <1>3 DEF IInv, Behind, Touched, Span
  <1>5. Behind' /\ CompletedBarsProtected'
    BY <1>1, <1>2, <1>4 DEF IInv, Behind, CompletedBarsProtected, Bar
  <1>6. Tick(w)' /\ Extinction(w)'
    BY <1>1, <1>2 DEF IInv, Tick, InTick, Extinction
  <1>. QED BY <1>5, <1>6 DEF IInv

\* The inductive invariant holds of every reachable state.
LEMMA Inductive ==
  ASSUME NEW w, Worker = {w}
  PROVE  CycleSpec => []IInv(w)
  <1>0. w \in Worker
    OBVIOUS
  <1>1. CycleInit => IInv(w)
    <2>. SUFFICES ASSUME CycleInit PROVE IInv(w)
      OBVIOUS
    <2>1. TypeOK
      BY <1>0, Numbers DEF CycleInit, TypeOK, Row, Status, NoRow, Bar
    <2>2. \A x \in Bar : IsDone(x) <=> x <= Warm
      BY DEF CycleInit, IsDone, Done, NoRow
    <2>3. LastDone = Warm
      BY <2>2, LastDoneMax, Numbers DEF Bar
    <2>4. Warm \in Nat /\ MaxCatchup \in Nat /\ MaxCatchup > 0 /\ confirmed = Warm
      BY Numbers DEF CycleInit
    <2>5. Floor \in Nat /\ Warm <= Floor
      BY <2>3, <2>4 DEF Floor, FirstOf
    <2>6. \A c \in Touched : c \in Nat /\ c <= Warm
      BY <2>4 DEF CycleInit, Touched
    <2>7. Behind
      BY <2>4, <2>5, <2>6 DEF CycleInit, Behind
    <2>8. CompletedBarsProtected
      BY <2>4, Numbers DEF CycleInit, CompletedBarsProtected, NoRow
    <2>9. Tick(w) /\ Extinction(w)
      BY <1>0 DEF CycleInit, Tick, InTick, Extinction
    <2>. QED BY <2>1, <2>7, <2>8, <2>9 DEF IInv
  <1>2. IInv(w) /\ [CycleNext]_cycleVars => IInv(w)'
    <2>. SUFFICES ASSUME IInv(w), [CycleNext]_cycleVars PROVE IInv(w)'
      OBVIOUS
    <2>1. CASE UNCHANGED cycleVars
      <3>1. TypeOK'
        BY <2>1 DEF IInv, TypeOK, cycleVars, db, local
      <3>2. Floor' = Floor /\ LastDone' = LastDone
        BY <2>1, SameFloor DEF cycleVars, db, IsDone
      <3>. QED BY <2>1, <3>1, <3>2
           DEF IInv, Behind, Touched, Tick, Span, Current, IsDone, Extinction,
               CompletedBarsProtected, Bar, cycleVars, db, local
    <2>2. CASE CycleNext
      <3>1. TypeOK'
        BY <1>0, <2>2, TypeStep, TickIsBusy DEF IInv, CycleNext
      <3>2. CASE Confirm
        BY <1>0, <3>1, <3>2, ConfirmStep
      <3>3. CASE WorkerStart(w) \/ WorkerCrash(w) \/ LeaseLost(w) \/ ClaimRejected(w) \/ FailUnmarked(w)
        <4>1. UNCHANGED db /\ pc'[w] \in {"down", "idle"}
          BY <1>0, <3>3 DEF WorkerStart, WorkerCrash, LeaseLost, ClaimRejected, FailUnmarked, Stop, EndTick,
                            Goto, IInv, TypeOK
        <4>. QED BY <1>0, <3>1, <4>1, Left
      <3>4. CASE PassOver(w)
        <4>1. TypeOK /\ Span(w) /\ pc[w] = "claim" /\ view[w] = cycle[Current(w)]
          BY <3>4 DEF PassOver, IInv, Tick, InTick
        <4>2. ~IsDone(Current(w))
          BY <1>0, <4>1, DoneBound
        <4>. QED BY <3>4, <4>1, <4>2 DEF PassOver, IsDone
      <3>. QED BY <1>0, <2>2, <3>1, <3>2, <3>3, <3>4, PlanStep, WriteSkippedStep, ProtectSkippedStep,
                  OpenStep, ClaimStep, QuarantineStep, DecideStep, LeaveBarStep, RescueStep
           DEF CycleNext, WorkerStep
    <2>. QED BY <2>1, <2>2
  <1>. QED BY <1>1, <1>2, PTL DEF CycleSpec

\* With one worker process, whatever crashes, restarts, fails or is retried, a bar is
\* COMPLETED only after the open position was managed on it, or after its own savepoint failed
\* there in a pass that was committed; from a cold start too.
THEOREM ProtectedWhenCompleted ==
  ASSUME NEW w, Worker = {w}
  PROVE  CycleSpec => []CompletedBarsProtected
  <1>1. IInv(w) => CompletedBarsProtected
    BY DEF IInv
  <1>. QED BY <1>1, Inductive, PTL

\* One worker process with its restarts records the extinction of a population at most once.
THEOREM OneExtinction ==
  ASSUME NEW w, Worker = {w}
  PROVE  CycleSpec => []ExtinctionRecordedOnce
  <1>1. IInv(w) => ExtinctionRecordedOnce
    BY DEF IInv, Extinction, ExtinctionRecordedOnce
  <1>. QED BY <1>1, Inductive, PTL

\* One worker process decides bar after bar: none, a repeated decision included, on a bar
\* older than one already decided.
THEOREM BarAfterBar ==
  ASSUME NEW w, Worker = {w}
  PROVE  CycleSpec => DecisionsInOrder
  <1>1. IInv(w) /\ [CycleNext]_cycleVars => [DecidesOnward]_cycleVars
    <2>1. IInv(w) /\ pc[w] = "work" => \A c \in decided : c <= Current(w)
      BY DEF IInv, Tick, InTick, Span, Touched
    <2>. QED BY <2>1 DEF DecidesOnward
  <1>. QED BY <1>1, Inductive, PTL DEF CycleSpec, DecisionsInOrder
-----------------------------------------------------------------------------
(* Any number of workers, of which the superseded ones go on: the property that is *)
(* left.  A bar is past its decisions when it is COMPLETED or about to be; only the *)
(* holder of the lease brings a bar there, so none lies beyond what it planned, and *)
(* an open position was managed up to each of them.                               *)

\* The labels behind the decision phase.
AfterDecide == {"ask", "record", "complete"}

\* COMPLETED, or decided by a process that has still to write it.
PastDecision(b) ==
  \/ cycle[b].status = "COMPLETED"
  \/ \E u \in Worker : pc[u] \in AfterDecide /\ Current(u) = b

\* The position was not left behind on b.
Followed(b) == opened # 0 /\ opened <= b => managed >= b \/ b \in refused

\* What the holder has planned reaches every bar that is past its decisions.
Reaches(u) ==
  owner = u /\ pc[u] \in InTick => \A b \in Bar : PastDecision(b) => \E t \in todo[u] : b <= t

\* The inductive invariant of any set of workers.
ManyInv ==
  /\ TypeOK
  /\ \A u \in Worker : Busy(u) /\ Reaches(u) /\ \A t \in todo[u] : t <= confirmed
  /\ \A b \in Bar : PastDecision(b) => b <= confirmed /\ Followed(b)

\* A step of u that brings no bar past its decisions and moves u along what it planned.
LEMMA Along ==
  ASSUME ManyInv, TypeOK', NEW u \in Worker,
         confirmed <= confirmed', UNCHANGED <<opened, owner>>,
         managed <= managed', refused \subseteq refused',
         \A b \in Bar : cycle'[b].status = "COMPLETED" => PastDecision(b),
         \A v \in Worker : v # u => pc'[v] = pc[v] /\ todo'[v] = todo[v] /\ skip'[v] = skip[v],
         pc'[u] \in AfterDecide => pc[u] \in AfterDecide /\ todo'[u] = todo[u],
         pc'[u] \in InTick => pc[u] \in InTick /\ \A t \in todo[u] : \E s \in todo'[u] : t <= s,
         Busy(u)', todo'[u] \subseteq todo[u]
  PROVE  ManyInv'
  <1>1. /\ confirmed \in Nat /\ confirmed' \in Nat /\ opened \in Nat
        /\ managed \in Nat /\ managed' \in Nat
        /\ \A v \in Worker : /\ \A t \in todo[v] : t \in Nat
                             /\ \A t \in todo'[v] : t \in Nat
    BY Numbers DEF TypeOK, ManyInv
  <1>2. \A b \in Bar : PastDecision(b)' => PastDecision(b)
    BY DEF PastDecision, Current
  <1>3. ASSUME NEW b \in Bar, PastDecision(b)' PROVE b <= confirmed' /\ Followed(b)'
    <2>1. b \in Nat /\ b <= confirmed /\ Followed(b)
      BY <1>2, <1>3, Numbers DEF ManyInv
    <2>. QED BY <1>1, <2>1 DEF Followed
  <1>4. ASSUME NEW v \in Worker PROVE Busy(v)' /\ \A t \in todo'[v] : t <= confirmed'
    <2>1. \A t \in todo[v] : t <= confirmed
      BY DEF ManyInv
    <2>2. \A t \in todo'[v] : t <= confirmed'
      BY <1>1, <2>1
    <2>3. Busy(v)'
      BY DEF ManyInv, Busy
    <2>. QED BY <2>2, <2>3
  <1>5. ASSUME NEW v \in Worker PROVE Reaches(v)'
    <2>. SUFFICES ASSUME owner' = v, pc'[v] \in InTick, NEW b \in Bar, PastDecision(b)'
                  PROVE  \E t \in todo'[v] : b <= t
      BY DEF Reaches
    <2>1. pc[v] \in InTick /\ owner = v
      BY <1>5
    <2>2. PICK t \in todo[v] : b <= t
      BY <1>2, <2>1 DEF ManyInv, Reaches
    <2>3. PICK s \in todo'[v] : t <= s
      BY <1>1, <2>2
    <2>. QED BY <1>1, <2>2, <2>3, Numbers
  <1>. QED BY <1>3, <1>4, <1>5 DEF ManyInv

\* Leaving a bar keeps the bars beyond it.
LEMMA Beyond ==
  ASSUME NEW u \in Worker, TypeOK, Busy(u), pc[u] \in InTick, ToNextBar(u)
  PROVE  /\ todo'[u] \subseteq todo[u] /\ pc'[u] \in {"idle", "open"}
         /\ \A v \in Worker : v # u => pc'[v] = pc[v] /\ todo'[v] = todo[v]
         /\ pc'[u] = "open" =>
              todo'[u] # {} /\ \A t \in todo[u] : \E s \in todo'[u] : t <= s
  <1>1. Current(u) \in todo[u] /\ (\A t \in todo[u] : Current(u) <= t)
        /\ Current(u) = Earliest(todo[u]) /\ todo[u] \subseteq Nat
    BY Here, Numbers DEF TypeOK, Current
  <1>2. todo'[u] = todo[u] \ {Current(u)} /\ pc'[u] = (IF IsLatest(u) THEN "idle" ELSE "open")
        /\ \A v \in Worker : v # u => pc'[v] = pc[v] /\ todo'[v] = todo[v]
    BY <1>1 DEF ToNextBar, Goto, TypeOK
  <1>3. todo[u] = {Current(u)} => IsLatest(u)
    BY FS_Singleton DEF IsLatest
  <1>4. ASSUME ~IsLatest(u)
        PROVE  todo'[u] # {} /\ \A t \in todo[u] : \E s \in todo'[u] : t <= s
    <2>1. PICK s \in todo[u] : s # Current(u)
      BY <1>1, <1>3, <1>4
    <2>2. \A t \in todo[u] : \E r \in todo'[u] : t <= r
      BY <1>1, <1>2, <2>1
    <2>. QED BY <1>2, <2>1, <2>2
  <1>. QED BY <1>2, <1>4

\* The last bar of a tick is all that is left of it.
LEMMA LastOne ==
  ASSUME NEW u \in Worker, TypeOK, Busy(u), pc[u] \in InTick, IsLatest(u)
  PROVE  todo[u] = {Current(u)}
  <1>1. IsFiniteSet(todo[u])
    <2>1. IsFiniteSet(Bar)
      <3>1. 1 \in Int /\ LastBar \in Int
        BY Numbers
      <3>. QED BY <3>1, FS_Interval DEF Bar
    <2>. QED BY <2>1, FS_Subset DEF TypeOK
  <1>2. PICK x : todo[u] = {x}
    BY <1>1, FS_Singleton DEF IsLatest
  <1>. QED BY <1>2, Here

\* A new bar, which no process has planned yet.
LEMMA ConfirmMany ==
  ASSUME ManyInv, TypeOK', Confirm
  PROVE  ManyInv'
  <1>1. /\ confirmed \in Nat /\ confirmed' \in Nat /\ confirmed <= confirmed'
        /\ UNCHANGED <<cycle, opened, managed, refused, owner, pc, todo, skip>>
    BY NumbersOfState DEF Confirm, ManyInv, local
  <1>2. \A b \in Bar : PastDecision(b)' <=> PastDecision(b)
    BY <1>1 DEF PastDecision, Current
  <1>3. ASSUME NEW b \in Bar, PastDecision(b)' PROVE b <= confirmed' /\ Followed(b)'
    <2>1. b \in Nat /\ b <= confirmed /\ Followed(b)
      BY <1>2, <1>3, Numbers DEF ManyInv
    <2>. QED BY <1>1, <2>1 DEF Followed
  <1>4. ASSUME NEW v \in Worker PROVE Busy(v)' /\ Reaches(v)' /\ \A t \in todo'[v] : t <= confirmed'
    <2>1. Busy(v)' /\ Reaches(v)'
      BY <1>1, <1>2 DEF ManyInv, Busy, Reaches
    <2>2. \A t \in todo[v] : t \in Nat /\ t <= confirmed
      BY Numbers DEF ManyInv, TypeOK
    <2>. QED BY <1>1, <2>1, <2>2
  <1>. QED BY <1>3, <1>4 DEF ManyInv

\* A process takes the lease: it has planned nothing.
LEMMA StartMany ==
  ASSUME NEW u \in Worker, ManyInv, TypeOK', WorkerStart(u)
  PROVE  ManyInv'
  <1>1. /\ UNCHANGED <<confirmed, cycle, opened, managed, refused, todo, skip>> /\ owner' = u
        /\ pc[u] = "down" /\ pc'[u] = "idle" /\ \A v \in Worker : v # u => pc'[v] = pc[v]
    BY DEF WorkerStart, Goto, ManyInv, TypeOK, db
  <1>2. \A b \in Bar : PastDecision(b)' => PastDecision(b)
    BY <1>1 DEF PastDecision, Current, AfterDecide
  <1>3. \A b \in Bar : PastDecision(b)' => b <= confirmed' /\ Followed(b)'
    BY <1>1, <1>2 DEF ManyInv, Followed
  <1>4. ASSUME NEW v \in Worker PROVE Busy(v)' /\ Reaches(v)'
    BY <1>1 DEF ManyInv, Busy, Reaches, InTick
  <1>. QED BY <1>1, <1>3, <1>4 DEF ManyInv

\* A process that ends, or ends its tick, without a write.
LEMMA LeftMany ==
  ASSUME NEW u \in Worker, ManyInv, TypeOK',
         WorkerCrash(u) \/ LeaseLost(u) \/ ClaimRejected(u) \/ FailUnmarked(u)
  PROVE  ManyInv'
  <1>1. /\ UNCHANGED db /\ UNCHANGED owner /\ pc'[u] \in {"down", "idle"} /\ todo'[u] = {}
        /\ \A v \in Worker : v # u => pc'[v] = pc[v] /\ todo'[v] = todo[v] /\ skip'[v] = skip[v]
    BY DEF WorkerCrash, LeaseLost, ClaimRejected, FailUnmarked, Stop, EndTick, Goto, ManyInv, TypeOK
  <1>2. confirmed \in Nat /\ managed \in Nat
    BY NumbersOfState DEF ManyInv
  <1>3. Busy(u)' /\ pc'[u] \notin InTick /\ pc'[u] \notin AfterDecide
    BY <1>1 DEF Busy, InTick, AfterDecide
  <1>4. \A b \in Bar : cycle'[b].status = "COMPLETED" => PastDecision(b)
    BY <1>1 DEF db, PastDecision
  <1>. QED BY <1>1, <1>2, <1>3, <1>4, Along DEF db

\* The start of a tick: every bar up to the latest confirmed one is in reach.
LEMMA PlanMany ==
  ASSUME NEW u \in Worker, ManyInv, TypeOK', Plan(u)
  PROVE  ManyInv'
  <1>1. /\ UNCHANGED db /\ UNCHANGED owner /\ pc[u] = "idle"
        /\ todo'[u] = ToProcess /\ skip'[u] = Pending \ ToProcess
        /\ pc'[u] = IF Pending \ ToProcess = {} THEN "open" ELSE "skip"
        /\ \A v \in Worker : v # u => pc'[v] = pc[v] /\ todo'[v] = todo[v] /\ skip'[v] = skip[v]
    BY DEF Plan, Goto, ManyInv, TypeOK
  <1>2. ToProcess = Floor..confirmed /\ Floor \in Nat /\ confirmed \in Nat /\ Floor <= confirmed
    BY PlannedBars, NumbersOfState, Numbers DEF Plan, ManyInv
  <1>3. confirmed \in todo'[u] /\ \A t \in todo'[u] : t <= confirmed
    BY <1>1, <1>2
  <1>4. \A b \in Bar : PastDecision(b)' => PastDecision(b)
    BY <1>1 DEF PastDecision, Current, AfterDecide, db
  <1>5. \A b \in Bar : PastDecision(b)' => b <= confirmed' /\ Followed(b)'
    BY <1>1, <1>4 DEF ManyInv, Followed, db
  <1>6. ASSUME NEW v \in Worker PROVE Busy(v)' /\ Reaches(v)' /\ \A t \in todo'[v] : t <= confirmed'
    <2>1. CASE v = u
      <3>1. Busy(v)'
        BY <1>1, <1>3, <2>1 DEF Busy
      <3>2. Reaches(v)'
        BY <1>1, <1>3, <1>5, <2>1 DEF Reaches, db
      <3>. QED BY <1>1, <1>3, <2>1, <3>1, <3>2 DEF db
    <2>2. CASE v # u
      BY <1>1, <1>4, <2>2 DEF ManyInv, Busy, Reaches, db
    <2>. QED BY <2>1, <2>2
  <1>. QED BY <1>5, <1>6 DEF ManyInv

\* The rows of the skipped bars, and the protective passes.
LEMMA ProtectMany ==
  ASSUME NEW u \in Worker, ManyInv, TypeOK',
         WriteSkipped(u) \/ ProtectSkipped(u) \/ Abandoned(u) \/ Rescue(u)
  PROVE  ManyInv'
  <1>0. TypeOK /\ Busy(u) /\ pc[u] \in InTick /\ confirmed \in Nat /\ managed \in Nat
    BY NumbersOfState DEF ManyInv, WriteSkipped, ProtectSkipped, Abandoned, Rescue, InTick
  <1>1. /\ UNCHANGED <<confirmed, opened, owner>> /\ refused \subseteq refused'
        /\ \A b \in Bar : cycle'[b].status = "COMPLETED" => cycle[b].status = "COMPLETED"
        /\ \A v \in Worker : v # u => skip'[v] = skip[v]
    BY <1>0 DEF WriteSkipped, ProtectSkipped, Abandoned, Rescue, ProtectBar, Sweep, Managed, SavepointFailed,
                Bar, TypeOK
  <1>2. managed <= managed'
    <2>1. managed' = managed \/ managed < managed'
      BY DEF WriteSkipped, ProtectSkipped, Abandoned, Rescue, ProtectBar, Sweep, Managed, SavepointFailed
    <2>2. managed' \in Nat
      BY Numbers DEF TypeOK
    <2>. QED BY <1>0, <2>1, <2>2
  <1>3. /\ Busy(u)' /\ todo'[u] \subseteq todo[u] /\ pc'[u] \notin AfterDecide
        /\ \A v \in Worker : v # u => pc'[v] = pc[v] /\ todo'[v] = todo[v]
        /\ pc'[u] \in InTick => \A t \in todo[u] : \E s \in todo'[u] : t <= s
    <2>0. \A t \in todo[u] : t \in Nat
      BY Numbers DEF TypeOK, ManyInv
    <2>1. CASE WriteSkipped(u)
      BY <1>0, <2>0, <2>1 DEF WriteSkipped, Goto, Busy, TypeOK, AfterDecide, InTick
    <2>2. CASE ProtectSkipped(u)
      <3>1. /\ todo' = todo /\ skip'[u] = skip[u] \ {Earliest(skip[u])} /\ Earliest(skip[u]) \in skip[u]
            /\ pc'[u] = IF Cardinality(skip[u]) = 1 THEN "open" ELSE "protectskipped"
            /\ \A v \in Worker : v # u => pc'[v] = pc[v]
        BY <1>0, <2>2, Here DEF ProtectSkipped, Goto, TypeOK
      <3>2. skip'[u] = {} => Cardinality(skip[u]) = 1
        <4>1. skip'[u] = {} => skip[u] = {Earliest(skip[u])}
          BY <3>1
        <4>. QED BY <4>1, FS_Singleton
      <3>3. todo'[u] # {}
        BY <1>0, <3>1 DEF Busy
      <3>. QED BY <2>0, <3>1, <3>2, <3>3 DEF Busy, AfterDecide
    <2>3. CASE Abandoned(u)
      BY <1>0, <2>3, Beyond DEF Abandoned, Busy, InTick, AfterDecide
    <2>4. CASE Rescue(u)
      BY <1>0, <2>4 DEF Rescue, EndTick, Goto, TypeOK, Busy, InTick, AfterDecide
    <2>. QED BY <2>1, <2>2, <2>3, <2>4
  <1>4. \A b \in Bar : cycle'[b].status = "COMPLETED" => PastDecision(b)
    BY <1>1 DEF PastDecision
  <1>. QED BY <1>0, <1>1, <1>2, <1>3, <1>4, Along

\* The statements on the bar's row, the question about the extinction and its record.
LEMMA RowMany ==
  ASSUME NEW u \in Worker, ManyInv, TypeOK',
         \/ Open(u) \/ PassOver(u) \/ Quarantine(u) \/ Claim(u) \/ Fail(u)
         \/ Ask(u) \/ Record(u) \/ Complete(u)
  PROVE  ManyInv'
  <1>0. TypeOK /\ Busy(u) /\ pc[u] \in InTick /\ confirmed \in Nat /\ managed \in Nat
    BY NumbersOfState
       DEF ManyInv, Open, PassOver, Quarantine, Claim, Fail, Ask, Record, Complete, InTick
  <1>1. /\ UNCHANGED <<confirmed, opened, managed, refused, owner, skip>>
    BY DEF Open, PassOver, Quarantine, Claim, Fail, Ask, Record, Complete, db
  <1>2. Current(u) \in Bar
    BY <1>0, Here
  <1>3. \A b \in Bar : cycle'[b].status = "COMPLETED" => PastDecision(b)
    <2>1. \A b \in Bar : b # Current(u) => cycle'[b] = cycle[b]
      BY <1>0, <1>2 DEF Open, PassOver, Quarantine, Claim, Fail, Ask, Record, Complete, SetRow, db, TypeOK
    <2>2. cycle'[Current(u)].status = "COMPLETED" =>
            cycle[Current(u)].status = "COMPLETED" \/ pc[u] = "complete"
      BY <1>0, <1>2 DEF Open, PassOver, Quarantine, Claim, Fail, Ask, Record, SetRow, db, TypeOK,
                        Complete
    <2>3. pc[u] = "complete" => PastDecision(Current(u))
      BY DEF PastDecision, AfterDecide
    <2>. QED BY <2>1, <2>2, <2>3 DEF PastDecision
  <1>4. /\ Busy(u)' /\ todo'[u] \subseteq todo[u]
        /\ pc'[u] \in AfterDecide => pc[u] \in AfterDecide /\ todo'[u] = todo[u]
        /\ \A v \in Worker : v # u => pc'[v] = pc[v] /\ todo'[v] = todo[v]
        /\ pc'[u] \in InTick => \A t \in todo[u] : \E s \in todo'[u] : t <= s
    <2>0. \A t \in todo[u] : t \in Nat
      BY Numbers DEF TypeOK, ManyInv
    <2>1. CASE PassOver(u) \/ Complete(u)
      BY <1>0, <2>1, Beyond DEF PassOver, Complete, Busy, InTick, AfterDecide
    <2>2. CASE Open(u) \/ Quarantine(u) \/ Claim(u) \/ Fail(u)
      <3>1. todo' = todo /\ pc'[u] \in {"claim", "abandoned", "work", "rescue"}
            /\ \A v \in Worker : v # u => pc'[v] = pc[v]
        BY <1>0, <2>2 DEF Open, Quarantine, Claim, Fail, Goto, TypeOK
      <3>. QED BY <1>0, <2>0, <3>1 DEF Busy, AfterDecide
    <2>3. CASE Ask(u) \/ Record(u)
      <3>1. /\ todo' = todo /\ pc'[u] \in {"record", "complete"} /\ pc[u] \in {"ask", "record"}
            /\ \A v \in Worker : v # u => pc'[v] = pc[v]
        BY <1>0, <2>3 DEF Ask, Record, Goto, TypeOK
      <3>. QED BY <1>0, <2>0, <3>1 DEF Busy, AfterDecide
    <2>. QED BY <2>1, <2>2, <2>3
  <1>. QED BY <1>0, <1>1, <1>3, <1>4, Along

\* The decision phase, of the holder: no bar past its decisions is beyond the current one
\* when the position is opened there, and the sweep brings an open one up to it.
LEMMA DecideMany ==
  ASSUME NEW u \in Worker, ManyInv, TypeOK', Decide(u)
  PROVE  ManyInv'
  <1>0. /\ TypeOK /\ Busy(u) /\ Reaches(u) /\ pc[u] \in InTick /\ owner = u
        /\ pc[u] = "work"
    BY DEF ManyInv, Decide, MayCommit, InTick
  <1>b. PICK b \in Bar : b = Current(u)
    BY <1>0, Here
  <1>1. /\ UNCHANGED <<confirmed, cycle, owner, todo, skip>> /\ pc'[u] \in {"ask", "complete"}
        /\ \A v \in Worker : v # u => pc'[v] = pc[v]
    BY <1>0 DEF Decide, Goto, TypeOK
  <1>2. /\ b \in todo[u] /\ b \in Nat /\ b > 0 /\ b <= confirmed
        /\ confirmed \in Nat /\ managed \in Nat /\ opened \in Nat
    BY <1>0, <1>b, Here, Numbers, NumbersOfState DEF ManyInv
  <1>3. /\ refused \subseteq refused'
        /\ \/ opened' = opened /\ managed' = managed /\ (opened = 0 \/ ~(managed < b) \/ b \in refused')
           \/ opened' = opened /\ managed' = b /\ managed < b
           \/ opened' = b /\ managed' = b /\ opened = 0 /\ IsLatest(u)
    BY <1>b DEF Decide, DecidePositions, Sweep, Managed, SavepointFailed, Opens
  <1>4. \A c \in Bar : PastDecision(c)' => PastDecision(c) \/ c = b
    BY <1>1, <1>b DEF PastDecision, Current
  <1>5. ASSUME NEW c \in Bar, PastDecision(c)' PROVE c <= confirmed' /\ Followed(c)'
    <2>1. c \in Nat /\ (PastDecision(c) => c <= confirmed /\ Followed(c))
      BY Numbers DEF ManyInv
    <2>2. c <= confirmed'
      BY <1>1, <1>2, <1>4, <1>5, <2>1
    <2>3. CASE opened' = opened /\ c = b
      BY <1>2, <1>3, <2>2, <2>3 DEF Followed
    <2>4. CASE opened' = opened /\ c # b
      <3>1. Followed(c) /\ (managed' = managed \/ (managed' = b /\ managed < b))
        BY <1>2, <1>3, <1>4, <1>5, <2>1, <2>4
      <3>. QED BY <1>2, <1>3, <2>1, <2>2, <2>4, <3>1 DEF Followed
    <2>5. CASE opened' = b /\ managed' = b /\ IsLatest(u)
      <3>1. todo[u] = {b}
        BY <1>0, <1>b, <2>5, LastOne
      <3>2. PastDecision(c) => c <= b
        BY <1>0, <3>1 DEF Reaches
      <3>3. c <= b
        BY <1>2, <1>4, <1>5, <3>2
      <3>. QED BY <1>2, <2>1, <2>2, <2>5, <3>3 DEF Followed
    <2>. QED BY <1>3, <2>2, <2>3, <2>4, <2>5
  <1>6. ASSUME NEW v \in Worker PROVE Busy(v)' /\ Reaches(v)' /\ \A t \in todo'[v] : t <= confirmed'
    <2>1. Busy(v)' /\ \A t \in todo'[v] : t <= confirmed'
      BY <1>0, <1>1, <1>2 DEF ManyInv, Busy
    <2>2. Reaches(v)'
      <3>. SUFFICES ASSUME owner' = v, NEW c \in Bar, PastDecision(c)'
                    PROVE  \E t \in todo'[v] : c <= t
        BY DEF Reaches
      <3>1. v = u
        BY <1>0, <1>1
      <3>2. c = b => \E t \in todo[u] : c <= t
        BY <1>2
      <3>3. PastDecision(c) => \E t \in todo[u] : c <= t
        BY <1>0 DEF Reaches
      <3>. QED BY <1>1, <1>4, <3>1, <3>2, <3>3
    <2>. QED BY <2>1, <2>2
  <1>. QED BY <1>5, <1>6 DEF ManyInv

\* The inductive invariant holds of every reachable state, for every set of workers.
LEMMA ManyInductive == CycleSpec => []ManyInv
  <1>1. CycleInit => ManyInv
    <2>. SUFFICES ASSUME CycleInit PROVE ManyInv
      OBVIOUS
    <2>1. TypeOK
      BY Numbers DEF CycleInit, TypeOK, Row, Status, NoRow, Bar
    <2>2. ASSUME NEW b \in Bar, PastDecision(b) PROVE b <= confirmed /\ Followed(b)
      <3>1. cycle[b].status = "COMPLETED" /\ b \in Nat
        BY <2>2, Numbers DEF CycleInit, PastDecision, AfterDecide
      <3>2. b <= Warm
        BY <3>1 DEF CycleInit, NoRow
      <3>3. Warm \in Nat /\ opened \in {0, Warm} /\ managed = opened
        BY Numbers DEF CycleInit
      <3>. QED BY <3>1, <3>2, <3>3 DEF CycleInit, Followed
    <2>3. ASSUME NEW u \in Worker PROVE Busy(u) /\ Reaches(u) /\ \A t \in todo[u] : t <= confirmed
      BY DEF CycleInit, Busy, Reaches, InTick
    <2>. QED BY <2>1, <2>2, <2>3 DEF ManyInv
  <1>2. ManyInv /\ [CycleNext]_cycleVars => ManyInv'
    <2>. SUFFICES ASSUME ManyInv, [CycleNext]_cycleVars PROVE ManyInv'
      OBVIOUS
    <2>1. CASE UNCHANGED cycleVars
      <3>1. TypeOK'
        BY <2>1 DEF ManyInv, TypeOK, cycleVars, db, local
      <3>2. /\ \A b \in Bar : /\ PastDecision(b)' <=> PastDecision(b)
                              /\ Followed(b)' <=> Followed(b)
            /\ \A v \in Worker : Busy(v)' <=> Busy(v)
        BY <2>1 DEF PastDecision, Current, Followed, Busy, cycleVars, db, local
      <3>3. \A v \in Worker : Reaches(v) => Reaches(v)'
        BY <2>1, <3>2 DEF Reaches, cycleVars, local
      <3>. QED BY <2>1, <3>1, <3>2, <3>3 DEF ManyInv, cycleVars, db, local
    <2>2. CASE Confirm
      <3>1. CASE Worker = {}
        <4>1. TypeOK'
          BY <2>2, <3>1, NumbersOfState, Numbers DEF Confirm, ManyInv, TypeOK, local
        <4>. QED BY <2>2, <4>1, ConfirmMany
      <3>2. CASE Worker # {}
        <4>1. PICK u \in Worker : TRUE
          BY <3>2
        <4>2. TypeOK'
          BY <2>2, <4>1, TypeStep DEF ManyInv
        <4>. QED BY <2>2, <4>2, ConfirmMany
      <3>. QED BY <3>1, <3>2
    <2>3. ASSUME NEW u \in Worker, WorkerStart(u) \/ WorkerCrash(u) \/ WorkerStep(u) PROVE ManyInv'
      <3>1. TypeOK'
        BY <2>3, TypeStep DEF ManyInv
      <3>. QED BY <2>3, <3>1, StartMany, LeftMany, PlanMany, ProtectMany, RowMany, DecideMany DEF WorkerStep
    <2>. QED BY <2>1, <2>2, <2>3 DEF CycleNext
  <1>. QED BY <1>1, <1>2, PTL DEF CycleSpec

\* Whatever set of workers stall, are superseded and go on, for any number of bars, attempts
\* and takeovers: a bar that any of them marks COMPLETED is one the position was managed on,
\* refused on in its own savepoint, or managed beyond.
THEOREM NothingLeftBehind == CycleSpec => []NoBarLeftBehind
  <1>1. ManyInv => NoBarLeftBehind
    BY DEF ManyInv, PastDecision, Followed, NoBarLeftBehind
  <1>. QED BY <1>1, ManyInductive, PTL
==============================================================================
