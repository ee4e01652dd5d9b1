----------------------------- MODULE WorkerCycle -----------------------------
(***************************************************************************)
(* The trading worker's tick: which confirmed bars are pending, skipped,   *)
(* processed, retried and abandoned, and the transactions one bar takes.   *)
(*                                                                         *)
(* Every action ends at a commit or at an await another process can run    *)
(* behind.  Several worker processes exist because one may stall, lose its *)
(* lease and resume: the lease is FencedWriter's holder (WorkerLease shows *)
(* the real one implements it, and that a superseded worker never passes   *)
(* check_local).  A bar's number is its open time; `managed' and           *)
(* `protected' follow ONE open position that no bar closes.                *)
(***************************************************************************)
EXTENDS Integers, FiniteSets

CONSTANTS Worker, NoWorker,
          Warm,         \* bars completed before the behaviour starts (0: a cold start)
          LastBar,       \* bars 1..LastBar are confirmed in order (model bound)
          MaxCatchup,   \* settings.max_catchup_bars
          MaxAttempts,  \* MAX_CYCLE_ATTEMPTS
          MaxUpsets     \* crashes, lapses and takeovers of live workers (model bound)

ASSUME CycleAssumption ==
  /\ NoWorker \notin Worker
  /\ LastBar \in Nat \ {0} /\ Warm \in 0..LastBar
  /\ MaxCatchup \in Nat \ {0}
  /\ MaxAttempts \in Nat \ {0} /\ MaxUpsets \in Nat

VARIABLES
  confirmed,  \* the latest confirmed bar in the store
  cycle,      \* the worker_cycles rows: status ("NONE": no row) and attempts
  decided,    \* history: bars whose decision phase was committed with an agent processed
  opened,     \* bar the followed position was opened on (0: no position)
  managed,    \* its last_processed_open_time
  protected,  \* history: bars it was managed on
  refused,    \* history: bars on which managing it failed in its own savepoint, in a pass
              \* that was committed
  population, \* "active" or "extinct": no ACTIVE agent of the generation is left
  events,     \* POPULATION_EXTINCT events recorded
  owner,     \* owner of the lease row
  pc, todo, skip, view,   \* per process: where it is, to_process, to_skip, the row read
  upsets

db == <<confirmed, cycle, decided, opened, managed, protected, refused, population, events>>
local == <<pc, todo, skip, view>>
cycleVars == <<db, owner, local, upsets>>

Bar == 1..LastBar
\* _DONE_STATUSES, and the bug of forgetting the quarantined bars.
Done_NoQuarantine == {"COMPLETED", "SKIPPED_CATCHUP"}
Done == {"COMPLETED", "FAILED_PERMANENT", "SKIPPED_CATCHUP"}
NoRow == [status |-> "NONE", attempts |-> 0]

Earliest(S) == CHOOSE x \in S : \A y \in S : x <= y
Greatest(S) == CHOOSE x \in S : \A y \in S : y <= x

CycleInit ==
  /\ confirmed = Warm
  /\ cycle = [b \in Bar |->
                IF b <= Warm THEN [status |-> "COMPLETED", attempts |-> 1] ELSE NoRow]
  /\ decided = 1..Warm
  /\ opened \in {0, Warm}
  /\ managed = opened /\ protected = {opened} \ {0} /\ refused = {}
  /\ population = "active" /\ events = 0
  /\ owner = NoWorker
  /\ pc = [w \in Worker |-> "down"]
  /\ todo = [w \in Worker |-> {}]
  /\ skip = [w \in Worker |-> {}]
  /\ view = [w \in Worker |-> NoRow]
  /\ upsets = 0

Goto(w, label) == pc' = [pc EXCEPT ![w] = label]

\* The next bar of the tick, and whether it is the last one (is_latest).
Current(w) == Earliest(todo[w])
IsLatest(w) == Cardinality(todo[w]) = 1

-----------------------------------------------------------------------------
(* The environment. *)

\* A new bar is confirmed (recover_gaps keeps the stored bars contiguous).
Confirm ==
  /\ confirmed < LastBar
  /\ confirmed' = confirmed + 1
  /\ UNCHANGED <<cycle, decided, opened, managed, protected, refused,
                 population, events, owner, local, upsets>>

HolderRuns == \E v \in Worker : v = owner /\ pc[v] # "down"

\* main(): a process acquires the lease, of a dead holder or of one that
\* stalled past the TTL.
WorkerStart(w) ==
  /\ pc[w] = "down"
  /\ IF HolderRuns THEN upsets < MaxUpsets /\ upsets' = upsets + 1 ELSE UNCHANGED upsets
  /\ owner' = w
  /\ Goto(w, "idle")
  /\ UNCHANGED <<db, todo, skip, view>>

\* A process ends: nothing of its memory survives.
Stop(w) ==
  /\ Goto(w, "down")
  /\ todo' = [todo EXCEPT ![w] = {}]
  /\ skip' = [skip EXCEPT ![w] = {}]
  /\ view' = [view EXCEPT ![w] = NoRow]

WorkerCrash(w) ==
  /\ pc[w] # "down"
  /\ upsets < MaxUpsets
  /\ upsets' = upsets + 1
  /\ Stop(w)
  /\ UNCHANGED <<db, owner>>

\* A fence check raises LeaseLost, or main() sees it between two ticks: no write,
\* the loop ends.  A superseded worker always fails it; the holder does when it
\* could not renew within the TTL.
LeaseLost(w) ==
  /\ pc[w] \in {"idle", "protectskipped", "work", "abandoned", "rescue"}
  /\ \/ owner # w /\ UNCHANGED upsets
     \/ owner = w /\ upsets < MaxUpsets /\ upsets' = upsets + 1
  /\ Stop(w)
  /\ UNCHANGED <<db, owner>>

-----------------------------------------------------------------------------
(* pending_open_times and _record_skipped. *)

LastDone == Greatest({0} \cup {b \in Bar : cycle[b].status \in Done})

\* Cold start: only the latest bar; else everything after the last done one.
Pending == IF LastDone = 0 THEN {confirmed} ELSE (LastDone + 1)..confirmed

\* The last max_catchup_bars are processed, the others skipped.
ToProcess == {b \in Pending : Cardinality({c \in Pending : c >= b}) <= MaxCatchup}

Plan(w) ==
  /\ pc[w] = "idle"
  /\ confirmed > 0
  /\ Pending # {}
  /\ todo' = [todo EXCEPT ![w] = ToProcess]
  /\ skip' = [skip EXCEPT ![w] = Pending \ ToProcess]
  /\ Goto(w, IF Pending \ ToProcess = {} THEN "open" ELSE "skip")
  /\ UNCHANGED <<db, owner, view, upsets>>

\* One commit for all rows; a row that exists keeps its status.
WriteSkipped(w) ==
  /\ pc[w] = "skip"
  /\ cycle' = [b \in Bar |->
                 IF b \in skip[w] /\ cycle[b].status = "NONE"
                 THEN [status |-> "SKIPPED_CATCHUP", attempts |-> 1] ELSE cycle[b]]
  /\ Goto(w, "protectskipped")
  /\ UNCHANGED <<confirmed, decided, opened, managed, protected, refused,
                 population, events, owner, todo, skip, view, upsets>>

-----------------------------------------------------------------------------
(* Protective processing. *)

\* protect_open_positions on bar b: the position is managed, unless it was on b or later
\* already, in a savepoint of its own, whose error is counted and swallowed.
Managed(b) == managed' = b /\ protected' = protected \cup {b} /\ UNCHANGED refused
SavepointFailed(b) == refused' = refused \cup {b} /\ UNCHANGED <<managed, protected>>
Sweep(b) ==
  IF opened # 0 /\ managed < b
  THEN Managed(b) \/ SavepointFailed(b)
  ELSE UNCHANGED <<managed, protected, refused>>

\* A liquidation can kill the last ACTIVE agent.
MayDie == population' \in {population, "extinct"}

\* protect_bar: a fenced commit, or an error it swallows.
ProtectBar(w, b) ==
  /\ \/ owner = w /\ Sweep(b) /\ MayDie
     \/ UNCHANGED <<managed, protected, refused, population>>
  /\ UNCHANGED <<confirmed, cycle, decided, opened, events, owner, view, upsets>>

ProtectSkipped(w) ==
  /\ pc[w] = "protectskipped"
  /\ ProtectBar(w, Earliest(skip[w]))
  /\ skip' = [skip EXCEPT ![w] = @ \ {Earliest(@)}]
  /\ Goto(w, IF Cardinality(skip[w]) = 1 THEN "open" ELSE "protectskipped")
  /\ UNCHANGED todo

\* The bar is left behind: the next one of the tick, or the end of the tick.
ToNextBar(w) ==
  /\ todo' = [todo EXCEPT ![w] = @ \ {Earliest(@)}]
  /\ Goto(w, IF IsLatest(w) THEN "idle" ELSE "open")

\* `break': a failed bar ends the tick, and the bug of going on.
EndTick_GoesOn(w) == ToNextBar(w)
EndTick(w) ==
  /\ todo' = [todo EXCEPT ![w] = {}]
  /\ Goto(w, "idle")

Abandoned(w) ==
  /\ pc[w] = "abandoned"
  /\ ProtectBar(w, Current(w))
  /\ ToNextBar(w)
  /\ UNCHANGED skip

Rescue(w) ==
  /\ pc[w] = "rescue"
  /\ ProtectBar(w, Current(w))
  /\ EndTick(w)
  /\ UNCHANGED skip

-----------------------------------------------------------------------------
(* process_candle. *)

\* SELECT the bar's row; the session drops what it read with the next commit.
Forget(w) == view' = [view EXCEPT ![w] = NoRow]

Open(w) ==
  /\ pc[w] = "open"
  /\ view' = [view EXCEPT ![w] = cycle[Current(w)]]
  /\ Goto(w, "claim")
  /\ UNCHANGED <<db, owner, todo, skip, upsets>>

\* A done row is passed over.
PassOver(w) ==
  /\ pc[w] = "claim"
  /\ view[w].status \in Done
  /\ ToNextBar(w)
  /\ Forget(w)
  /\ UNCHANGED <<db, owner, skip, upsets>>

SetRow(w, status, attempts) ==
  cycle' = [cycle EXCEPT ![Current(w)] = [status |-> status, attempts |-> attempts]]

\* The third attempt was the last: quarantined, committed before protect_bar.
OutOfAttempts(w) == view[w].attempts >= MaxAttempts

Quarantine(w) ==
  /\ pc[w] = "claim"
  /\ view[w].status \notin Done
  /\ OutOfAttempts(w)
  /\ SetRow(w, "FAILED_PERMANENT", cycle[Current(w)].attempts)
  /\ Goto(w, "abandoned")
  /\ Forget(w)
  /\ UNCHANGED <<confirmed, decided, opened, managed, protected, refused,
                 population, events, owner, todo, skip, upsets>>

\* INSERT or UPDATE the row as STARTED, by what was read, not by what is there:
\* the ORM writes only the columns that differ from what it read.
Claim(w) ==
  /\ pc[w] = "claim"
  /\ view[w].status \notin Done
  /\ ~OutOfAttempts(w)
  /\ view[w].status = "NONE" => cycle[Current(w)].status = "NONE"
  /\ SetRow(w, IF view[w].status = "STARTED" THEN cycle[Current(w)].status ELSE "STARTED",
            view[w].attempts + 1)
  /\ Goto(w, "work")
  /\ Forget(w)
  /\ UNCHANGED <<confirmed, decided, opened, managed, protected, refused,
                 population, events, owner, todo, skip, upsets>>

\* The row appeared since: the unique cycle_id rejects the INSERT, and the
\* error ends the tick outside process_candle's try.
ClaimRejected(w) ==
  /\ pc[w] = "claim"
  /\ view[w].status = "NONE" /\ cycle[Current(w)].status # "NONE"
  /\ EndTick(w)
  /\ UNCHANGED <<db, owner, skip, view, upsets>>

\* Features, finality gates and the council change no row modelled here, and
\* check_db before the decision phase refuses nothing the commit would accept.
\* The whole of run_decision_cycle is one fenced commit: the agents, then the
\* sweep of every position they did not manage.  `processed': some ACTIVE agent
\* without a Decision row on the bar went through its savepoint.  An agent that
\* stays silent leaves no row, so a retry processes it again.  Only the latest
\* bar may open.
Opens(w, b, processed) ==
  /\ IsLatest(w) /\ processed /\ opened = 0
  /\ opened' = b /\ Managed(b)
DecidePositions_NoSweep(w, b, processed) ==
  UNCHANGED <<opened, managed, protected, refused>> \/ Opens(w, b, processed)
DecidePositions(w, b, processed) ==
  (Sweep(b) /\ UNCHANGED opened) \/ Opens(w, b, processed)

\* Extinction is asked about only if the bar processed an agent.
Asks_Always(processed) == TRUE
Asks(processed) == processed

\* The fenced commit is refused to all but the holder of the lease.
MayCommit_Anyone(w) == TRUE
MayCommit(w) == owner = w

Decide(w) ==
  /\ pc[w] = "work"
  /\ MayCommit(w)
  /\ \E processed \in {p \in BOOLEAN : p => population = "active"} :
       /\ DecidePositions(w, Current(w), processed)
       /\ decided' = IF processed THEN decided \cup {Current(w)} ELSE decided
       /\ Goto(w, IF Asks(processed) THEN "ask" ELSE "complete")
  /\ MayDie
  /\ UNCHANGED <<confirmed, cycle, events, owner, todo, skip, view, upsets>>

\* is_population_extinct reads after the commit, behind whoever wrote since.
Ask(w) ==
  /\ pc[w] = "ask"
  /\ Goto(w, IF population = "extinct" THEN "record" ELSE "complete")
  /\ UNCHANGED <<db, owner, todo, skip, view, upsets>>

\* record_extinction, a commit of its own.
Record(w) ==
  /\ pc[w] = "record"
  /\ events' = events + 1
  /\ Goto(w, "complete")
  /\ UNCHANGED <<confirmed, cycle, decided, opened, managed, protected, refused,
                 population, owner, todo, skip, view, upsets>>

\* COMPLETED, by UPDATE of the row this worker claimed; not fenced.
Complete(w) ==
  /\ pc[w] = "complete"
  /\ SetRow(w, "COMPLETED", cycle[Current(w)].attempts)
  /\ ToNextBar(w)
  /\ UNCHANGED <<confirmed, decided, opened, managed, protected, refused, population, events,
                 owner, skip, view, upsets>>

\* Any exception but LeaseLost after the claim: rolled back and marked FAILED in a
\* fresh transaction, which is not fenced.
Fail(w) ==
  /\ pc[w] \in {"work", "ask", "record", "complete"}
  /\ SetRow(w, "FAILED", cycle[Current(w)].attempts)
  /\ Goto(w, "rescue")
  /\ UNCHANGED <<confirmed, decided, opened, managed, protected, refused,
                 population, events, owner, todo, skip, view, upsets>>

\* The database is away for that transaction too: the error leaves the tick and
\* the row says STARTED.
FailUnmarked(w) ==
  /\ pc[w] \in {"work", "ask", "record", "complete"}
  /\ EndTick(w)
  /\ UNCHANGED <<db, owner, skip, view, upsets>>

WorkerStep(w) ==
  \/ Plan(w) \/ WriteSkipped(w) \/ ProtectSkipped(w) \/ Open(w) \/ PassOver(w) \/ Quarantine(w)
  \/ Abandoned(w) \/ Claim(w) \/ ClaimRejected(w) \/ Decide(w)
  \/ Ask(w) \/ Record(w) \/ Complete(w) \/ Fail(w) \/ FailUnmarked(w) \/ Rescue(w)
  \/ LeaseLost(w)

CycleNext ==
  \/ Confirm
  \/ \E w \in Worker : WorkerStart(w) \/ WorkerCrash(w) \/ WorkerStep(w)

CycleSpec == CycleInit /\ [][CycleNext]_cycleVars

\* A supervisor restarts the worker when none runs (run.sh, restart-on-crash), and
\* a process that is not stalled forever goes on.
CycleFairness ==
  /\ \A w \in Worker : WF_cycleVars(WorkerStep(w))
  /\ WF_cycleVars((\A v \in Worker : pc[v] = "down") /\ \E w \in Worker : WorkerStart(w))

FairCycleSpec == CycleSpec /\ CycleFairness

-----------------------------------------------------------------------------
(* Properties. *)

\* A bar is COMPLETED, by whichever of the workers that stall, are superseded and go on, only
\* after the open position was managed on it or beyond it, or after its own savepoint failed
\* there in a pass that was committed (and counted, protection_failures): no crash, retry or
\* rolled-back attempt lets a bar pass over it in silence.  That the position is managed is
\* not so: see AlwaysProtected.
NoBarLeftBehind ==
  \A b \in Bar : cycle[b].status = "COMPLETED" /\ opened # 0 /\ opened <= b =>
    managed >= b \/ b \in refused

\* A step that commits decisions on a bar, the first or repeated ones.
DecidesOnward ==
  \A w \in Worker : pc[w] = "work" /\ pc'[w] = "ask" => \A c \in decided : c <= Current(w)

\* Decisions are committed bar after bar: none, a repeated one included, on a bar older than
\* one already decided (`never process a later bar before an earlier one completed').  A
\* retry may decide its own bar again, for the agents that left no Decision row on it.  Of
\* one worker with its restarts: FAILED is written without the fence, and the FAILED of a
\* superseded worker reopens a bar its successor had completed.
DecisionsInOrder == [][DecidesOnward]_cycleVars

\* However often the bar that killed the population is retried, its extinction is
\* recorded at most once (by one worker with its restarts: a worker that stalls
\* between the commit and the question may record it after its successor did).
ExtinctionRecordedOnce == events <= 1

\* A poison bar never blocks the worker: once all bars are confirmed, the last
\* one is eventually done, whatever fails on the way.
NeverBlocked == (confirmed = LastBar) ~> (LastDone = LastBar)
==============================================================================
