------------------------------ MODULE Council ------------------------------
(***************************************************************************)
(* The AI council of one worker: who is asked on which bar, how the        *)
(* answers become a verdict, and what the verdict allows an agent to do     *)
(* (council/*.py, the council part of worker/cycle.py, and the use of the   *)
(* verdict in agents/decision_loop.py), over the client of OllamaClient.    *)
(*                                                                         *)
(* Confidence is abstracted to which side of the veto threshold it is on.   *)
(***************************************************************************)
EXTENDS OllamaClient

CONSTANTS Analyst, Judge,
          MinSuccessful, \* council_min_successful_analysts
          Margin,        \* council_consensus_margin
          Interval,      \* council_interval_candles
          MaxBar         \* bars (model bound)

Bias == {"LONG", "SHORT", "NEUTRAL"}

ASSUME CouncilAssumption ==
  /\ Judge \notin Analyst /\ Caller = Analyst \cup {Judge} /\ Answer = Bias
  /\ MinSuccessful \in 1..Cardinality(Analyst)
  /\ Margin \in Nat \ {0} /\ Interval \in Nat \ {0} /\ MaxBar \in Nat

VARIABLES
  pc,           \* where process_candle is: idle, analysts, judge, commit, decide
  bar,          \* the bar being processed
  latest,       \* is_latest: not a catch-up replay
  late,         \* the whole-council deadline has fired
  verdict,      \* the ConsensusResult, then cycle.py's council_* variables
  row,          \* the last committed CouncilDecision, without its confidence
  entry         \* history: the order this pass let through

council == <<pc, bar, latest, late, verdict, row, entry>>
councilVars == <<client, council>>

NotRun == [status |-> "NOT_RUN", bias |-> "none", sure |-> FALSE, allowed |-> TRUE,
           quorum |-> FALSE]
NoRow == [bar |-> -1, verdict |-> NotRun]
NoEntry == [bar |-> -1, side |-> "none", size |-> "none"]

CouncilInit ==
  /\ ClientInit
  /\ pc = "idle" /\ bar = 0 /\ latest = TRUE
  /\ late = FALSE /\ verdict = NotRun /\ row = NoRow /\ entry = NoEntry

-----------------------------------------------------------------------------
(* From answers to a verdict. *)

Due(b) == b % Interval = 0
Required == latest /\ Due(bar)

Succeeded == {a \in Analyst : call[a].answer \in Answer}
Tally == [b \in Bias |-> Cardinality({a \in Succeeded : call[a].answer = b})]

\* compute_consensus: a stable sort by votes of LONG, SHORT, NEUTRAL.
Leader(t) ==
  CASE t["LONG"] >= t["SHORT"] /\ t["LONG"] >= t["NEUTRAL"] -> "LONG"
    [] t["SHORT"] > t["LONG"] /\ t["SHORT"] >= t["NEUTRAL"] -> "SHORT"
    [] OTHER -> "NEUTRAL"
Strong(t) == \A b \in Bias \ {Leader(t)} : t[Leader(t)] - t[b] >= Margin

Quorum == MinSuccessful
QuorumMet == Cardinality(Succeeded) >= Quorum

\* A ConsensusResult: the plurality's, one that fails closed, and what the cycle
\* keeps when run_council_cycle raised or ran out of time.
Plurality(sure) ==
  [status |-> "COMPLETE", bias |-> Leader(Tally), sure |-> sure, allowed |-> TRUE,
   quorum |-> Cardinality(Succeeded) >= MinSuccessful]
FailClosed(v) ==
  [v EXCEPT !.status = "INCOMPLETE", !.bias = "NEUTRAL", !.sure = FALSE, !.allowed = FALSE]
Aborted_Keeps(v) == v
Aborted(v) == [FailClosed(v) EXCEPT !.bias = "none"]

-----------------------------------------------------------------------------
(* The worker's steps. *)

\* The council is asked on the latest bar when it is due; otherwise it is not run.
StartBar ==
  /\ pc = "idle"
  /\ latest' \in BOOLEAN
  /\ IF Due(bar) /\ latest'
     THEN /\ pc' = "analysts"
          /\ call' = [c \in Caller |-> IF c = Judge THEN NoCall ELSE Called]
     ELSE pc' = "decide" /\ UNCHANGED call
  /\ entry' = NoEntry
  /\ UNCHANGED <<pool, bar, late, verdict, row>>

\* The deadline of the whole set: what still runs is cancelled and failed.
Deadline ==
  /\ pc = "analysts" /\ InFlight # {}
  /\ late' = TRUE
  /\ call' = [c \in Caller |->
       IF c \in InFlight THEN [NoCall EXCEPT !.at = "done", !.answer = "failed"] ELSE call[c]]
  /\ UNCHANGED <<pool, pc, bar, latest, verdict, row, entry>>

Abstain(v) == [v EXCEPT !.bias = "NEUTRAL", !.sure = FALSE]

\* All answers are in: without a quorum or, for a weak consensus, without time
\* for the judge the council fails closed; without a judge it abstains.
\* (judge_enabled is fixed for a process; a restart may change it between bars.)
TallyVotes ==
  /\ pc = "analysts" /\ InFlight = {}
  /\ \E sure, judgeEnabled, timeLeft \in BOOLEAN :
       LET strong == QuorumMet /\ Strong(Tally)
           judge == QuorumMet /\ ~strong /\ judgeEnabled /\ timeLeft IN
       /\ late => ~timeLeft
       /\ verdict' = IF ~QuorumMet THEN FailClosed(NotRun)
                     ELSE IF strong \/ judge THEN Plurality(sure)
                     ELSE IF ~judgeEnabled THEN Abstain(Plurality(sure))
                     ELSE FailClosed(Plurality(sure))
       /\ pc' = IF judge THEN "judge" ELSE "commit"
       /\ call' = [c \in Caller |-> IF c = Judge /\ judge THEN Called ELSE NoCall]
  /\ late' = FALSE
  /\ UNCHANGED <<pool, bar, latest, row, entry>>

\* The judge ruled, or failed or timed out: then the council fails closed.
JudgeEnds ==
  /\ pc = "judge" /\ call[Judge].at = "done"
  /\ \E sure \in BOOLEAN :
       verdict' = IF call[Judge].answer \in Answer
                  THEN [verdict EXCEPT !.bias = call[Judge].answer, !.sure = sure]
                  ELSE FailClosed(verdict)
  /\ pc' = "commit"
  /\ call' = [call EXCEPT ![Judge] = NoCall]
  /\ UNCHANGED <<pool, bar, latest, late, row, entry>>

\* The decision row and the analyses are committed; or the commit fails, or the
\* outer guard fires just after it, and the cycle keeps nothing of the verdict.
Commit ==
  /\ pc = "commit"
  /\ \E stored, returned \in BOOLEAN :
       /\ returned => stored
       /\ row' = IF stored THEN [bar |-> bar, verdict |-> [verdict EXCEPT !.sure = FALSE]] ELSE row
       /\ verdict' = IF returned THEN verdict ELSE Aborted(verdict)
  /\ pc' = "decide"
  /\ UNCHANGED <<client, bar, latest, late, entry>>

-----------------------------------------------------------------------------
(* An agent's use of the verdict. *)

\* combine, for an agent that wants to trade `side`: the size, or no trade.
Combined(side, v) ==
  IF v.status = "INCOMPLETE" \/ ~v.allowed THEN "none"
  ELSE CASE v.status = "NOT_RUN" -> IF Required THEN "none" ELSE "full"
         [] v.status = "COMPLETE" /\ v.bias = "NEUTRAL" -> "reduced"
         [] v.status = "COMPLETE" /\ v.bias = side -> "raised"
         [] OTHER -> IF v.sure THEN "none" ELSE "reduced"

\* process_candle returns or raises: its locals and its calls are gone.
Leave ==
  /\ pc' = "idle" /\ latest' = TRUE /\ verdict' = NotRun
  /\ call' = [c \in Caller |-> NoCall]
  /\ UNCHANGED <<pool, late, row>>

\* The decision phase: the agent trades, or has no signal or is refused by risk;
\* a replayed bar is halted, so it never opens anything.
Decide ==
  /\ pc = "decide" /\ bar < MaxBar /\ bar' = bar + 1
  /\ \/ \E side \in {"LONG", "SHORT"} :
          /\ latest /\ Combined(side, verdict) # "none"
          /\ entry' = [bar |-> bar, side |-> side, size |-> Combined(side, verdict)]
     \/ entry' = NoEntry
  /\ Leave

\* The lease, the second finality gate or the database ends this attempt; the
\* bar is tried again, and its council asked again.
AttemptFails == pc = "decide" /\ Leave /\ UNCHANGED <<bar, entry>>

\* run_worker refreshes the keys between two passes over the pending bars.
RefreshReady_Anytime == TRUE
RefreshReady == pc = "idle"

KeyTick == RefreshReady /\ Refresh /\ UNCHANGED council

CouncilNext ==
  \/ StartBar \/ Deadline \/ TallyVotes \/ JudgeEnds \/ Commit \/ Decide \/ AttemptFails
  \/ KeyTick
  \/ \E c \in Caller : CallStep(c) /\ UNCHANGED council
  \/ CooldownEnds /\ UNCHANGED council
  \* nothing reads the file or the flag before the next refresh
  \/ pc = "idle" /\ Operator /\ UNCHANGED council

CouncilSpec == CouncilInit /\ [][CouncilNext]_councilVars

-----------------------------------------------------------------------------
(* Properties. *)

\* An answer is booked on the credential it was asked with: while a request is
\* out, the position it was sent from still holds the same key (the health of
\* _mark_success and _mark_failure is by position, and a refresh replaces the list).
BookedOnItsKey ==
  \A c \in Caller : call[c].at = "sent" =>
    /\ call[c].index \in DOMAIN keys
    /\ keys[call[c].index].key = call[c].key

\* An entry on a bar where the council is due is backed by a committed decision of
\* that very bar, with its quorum of valid analyses and its consent: no verdict of
\* an earlier bar or attempt, and no verdict that was not stored, opens a position.
EntryBacked ==
  [][entry' \notin {entry, NoEntry} /\ Due(bar) =>
       /\ row.bar = bar /\ row.verdict.quorum
       /\ row.verdict.status = "COMPLETE" /\ row.verdict.allowed]_councilVars

=============================================================================
