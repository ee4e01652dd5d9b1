----------------------------- MODULE MarketData -----------------------------
(***************************************************************************)
(* The candle store between its two writers, the WebSocket stream and the  *)
(* worker's REST polls, and its reader, the worker's tick.                 *)
(*                                                                         *)
(* A bar's OHLCV is how much of it had happened: 1 while it is open, 2 once *)
(* it is closed and settled; 0 is no row.  Time is in ticks: bar b opens at *)
(* (b - 1) * Interval.  The exchange settles a closed bar within the grace *)
(* period and before it streams the next one; it answers REST late, with   *)
(* bars missing, or not at all, and frames of the stream may be lost.      *)
(* Every step ends at an await behind which another writer may run.        *)
(***************************************************************************)
EXTENDS Integers, FiniteSets

CONSTANTS MaxBar,          \* bars 1..MaxBar exist (model bound)
          Warm,            \* bars confirmed and done before the behaviour starts
          Interval, Grace, \* interval_ms and candle_finality_grace_ms
          Tolerance,       \* ws_future_tolerance_ms
          StaleFrames,     \* stale_frame_intervals
          StaleAfter,      \* data_stale_threshold_seconds
          MaxCatchup,      \* settings.max_catchup_bars
          MaxNow,          \* the clock stops there (model bound)
          Websocket,       \* market_ws_enabled
          MaxOmitted       \* bars missing from one REST answer (model bound)

ASSUME MarketAssumption ==
  /\ MaxBar \in Nat \ {0} /\ Warm \in 1..MaxBar /\ Interval \in Nat \ {0}
  /\ Grace \in 1..Interval
  /\ Tolerance \in 0..(Interval - 1)
  /\ StaleFrames \in Nat \ {0} /\ StaleAfter \in Nat
  /\ MaxCatchup \in Nat \ {0} /\ MaxOmitted \in Nat /\ MaxNow \in Nat /\ Websocket \in BOOLEAN

VARIABLES
  utc,      \* the clock
  settled,  \* bars 1..settled are closed and settled at the exchange
  store,    \* market_candles: what the row holds, and is_final
  halt,     \* the data_gap_halt flag
  sent,     \* the last frame of the stream that reached us
  lapse,    \* history: a frame was lost, early, or a tick late
  frame,    \* the frame being delivered
  wspc,     \* where the delivery is
  latest,   \* WsCandleIngestor._latest
  recent,   \* WsStats.recent: the last frame recorded per bar
  newest,   \* WsStats.newest_open_time
  pc,       \* where the worker's tick is
  target,   \* the bar the tick waits for
  asked,    \* end_ms of the poll in flight
  rows,     \* its answer
  missing,  \* GapReport.missing_after
  checked,  \* history: the newest confirmed bar when the gaps were last looked for
  todo,     \* pending bars of the tick
  seen,     \* what the features of the current bar were computed on
  done,     \* bars with a COMPLETED or SKIPPED_CATCHUP row
  basis,    \* history: what a decided bar was decided on
  entered   \* history: bars new entries were allowed on

exchange == <<utc, settled, sent, lapse>>
stream == <<frame, wspc, latest, recent, newest>>
tick == <<pc, target, asked, rows, missing, checked, todo, seen>>
worked == <<done, basis, entered>>
marketVars == <<exchange, store, halt, stream, tick, worked>>

Bar == 1..MaxBar
Opens(b) == (b - 1) * Interval
Closes(b) == b * Interval - 1

\* is_confirmed.
IsConfirmed(b, at) == Closes(b) + Grace <= at

\* What the exchange shows of a bar that has opened.
Shown(b) == IF b <= settled THEN 2 ELSE 1
Opened == {b \in Bar : Opens(b) <= utc}

\* A frame is a bar and how much of it had happened; the stream sends them in order.
Frame == [bar : Bar, part : 1..2]
NoFrame == [bar |-> 0, part |-> 0]
Rank(f) == 2 * f.bar + f.part
Streamed == {f \in Frame : f.bar \in Opened /\ f.bar <= settled + 1 /\ f.part <= Shown(f.bar)}

NoRow == [part |-> 0, final |-> FALSE]
Final == {b \in Bar : store[b].final}
Least(S) == CHOOSE x \in S : \A y \in S : x <= y
Greatest(S) == CHOOSE x \in S : \A y \in S : y <= x

\* upsert_candles of the rows r (bar -> part) against the clock `at': a confirmed
\* row keeps its OHLCV, and no row ever stops being confirmed.
Upsert_Rewrites(r, at) ==
  store' = [b \in Bar |->
              IF b \in DOMAIN r
              THEN [part |-> r[b], final |-> store[b].final \/ IsConfirmed(b, at)]
              ELSE store[b]]
Upsert_Now(r, at) ==
  store' = [b \in Bar |->
              IF b \in DOMAIN r /\ ~store[b].final
              THEN [part |-> r[b], final |-> IsConfirmed(b, utc)] ELSE store[b]]
Upsert(r, at) ==
  store' = [b \in Bar |->
              IF b \in DOMAIN r /\ ~store[b].final
              THEN [part |-> r[b], final |-> IsConfirmed(b, at)] ELSE store[b]]

\* detect_gaps: bars missing between the first and the last confirmed one (the
\* trailing window is longer than the model).
Gaps == {b \in Least(Final)..Greatest(Final) : b \notin Final}

MarketInit ==
  /\ utc = Closes(Warm) + Grace /\ settled = Warm
  /\ store = [b \in Bar |-> IF b <= Warm THEN [part |-> 2, final |-> TRUE] ELSE NoRow]
  /\ halt = FALSE
  /\ sent = NoFrame /\ lapse = FALSE
  /\ frame = NoFrame /\ wspc = "recv" /\ latest = NoFrame
  /\ recent = [b \in Bar |-> 0] /\ newest = 0
  /\ pc = "idle" /\ target = 0 /\ asked = 0 /\ rows = <<>> /\ missing = {} /\ checked = 0
  /\ todo = {} /\ seen = 0
  /\ done = 1..Warm /\ basis = [b \in Bar |-> 0] /\ entered = {}

-----------------------------------------------------------------------------
(* The exchange and the clock. *)

Settle ==
  /\ settled < MaxBar /\ Closes(settled + 1) < utc
  /\ settled' = settled + 1
  /\ UNCHANGED <<utc, sent, lapse, store, halt, stream, tick, worked>>

\* A closed bar is settled within the grace period, and the tick's preparation
\* (deadline and timeouts) takes less than a bar.
ClockTicks ==
  /\ utc < MaxNow
  /\ \A b \in Bar : IsConfirmed(b, utc + 1) => b <= settled
  /\ utc' = utc + 1
  /\ lapse' = (lapse \/ wspc # "recv" \/ (sent # NoFrame /\ \E f \in Streamed : Rank(f) > Rank(sent)))
  /\ UNCHANGED <<settled, sent, store, halt, stream, tick, worked>>

-----------------------------------------------------------------------------
(* The stream: HyperliquidWebSocket._handle and WsCandleIngestor. *)

\* The frames that are not dropped: neither of a bar that cannot have opened, nor
\* far behind the clock, nor a duplicate, nor behind the newest recorded bar.
Accepts(f) ==
  /\ Opens(f.bar) <= utc + Tolerance
  /\ Opens(f.bar) >= utc - StaleFrames * Interval
  /\ recent[f.bar] # f.part
  /\ newest = 0 \/ f.bar >= newest - 1

\* on_candles is called: the ingestor first seals the bar the stream has left.
Starts(f) ==
  /\ Websocket /\ wspc = "recv"
  /\ Accepts(f)
  /\ frame' = f
  /\ wspc' = IF latest # NoFrame /\ f.bar > latest.bar THEN "seal" ELSE "store"
  /\ UNCHANGED <<latest, recent, newest, utc, settled, store, halt, tick, worked>>

\* The first frame that reaches us is behind a bar that is confirmed by now.
IsLate(f) == \E b \in Bar : IsConfirmed(b, utc) /\ Rank(f) < Rank([bar |-> b, part |-> 2])

\* A frame in order, or the last one again after a reconnection.
Receive ==
  \E f \in Streamed :
    /\ Rank(f) >= Rank(sent)
    /\ Starts(f)
    /\ sent' = f
    /\ lapse' = (lapse \/ IF sent = NoFrame THEN IsLate(f) ELSE Rank(f) > Rank(sent) + 1)

\* A frame of a bar that has not opened yet: bogus, or of a clock ahead of ours.
ReceiveEarly ==
  \E b \in Bar \ Opened : Starts([bar |-> b, part |-> 1]) /\ lapse' = TRUE /\ UNCHANGED sent

\* The last frame seen of the previous bar is upserted as confirmed.
Seal ==
  /\ wspc = "seal"
  /\ Upsert([b \in {latest.bar} |-> latest.part], Closes(latest.bar) + Grace)
  /\ latest' = frame
  /\ wspc' = "store"
  /\ UNCHANGED <<frame, recent, newest, exchange, halt, tick, worked>>

\* The frame itself is upserted against the clock, and only then recorded.
StoreFrame ==
  /\ wspc = "store"
  /\ Upsert([b \in {frame.bar} |-> frame.part], utc)
  /\ latest' = IF latest = NoFrame \/ frame.bar >= latest.bar THEN frame ELSE latest
  /\ recent' = [recent EXCEPT ![frame.bar] = frame.part]
  /\ newest' = IF frame.bar > newest THEN frame.bar ELSE newest
  /\ frame' = NoFrame /\ wspc' = "recv"
  /\ UNCHANGED <<exchange, halt, tick, worked>>

\* An upsert raises: nothing is recorded, but _latest has moved before the second.
FrameFails ==
  /\ wspc \in {"seal", "store"}
  /\ latest' = IF wspc = "store" /\ (latest = NoFrame \/ frame.bar >= latest.bar)
               THEN frame ELSE latest
  /\ frame' = NoFrame /\ wspc' = "recv"
  /\ UNCHANGED <<recent, newest, exchange, store, halt, tick, worked>>

-----------------------------------------------------------------------------
(* The tick: run_pending_cycles up to pending_open_times. *)

Goto(label) == pc' = label

\* sync_recent_candles, or a poll while the awaited bar is missing: finality is
\* judged by the clock before the request.
Ask ==
  /\ \/ pc = "idle" /\ Goto("sync") /\ target' = Greatest({b \in Bar : IsConfirmed(b, utc)})
     \/ pc = "wait" /\ Greatest(Final) < target /\ Goto("poll") /\ UNCHANGED target
  /\ asked' = utc
  /\ UNCHANGED <<rows, missing, checked, todo, seen, exchange, store, halt, stream, worked>>

\* The exchange answers with some of the bars opened by then; the funding context
\* is awaited before they are upserted.
RestAnswers ==
  /\ pc \in {"sync", "poll"} /\ rows = <<>>
  /\ \E S \in SUBSET Opened :
       /\ S # {} /\ Cardinality(Opened \ S) <= MaxOmitted
       /\ rows' = [b \in S |-> Shown(b)]
  /\ UNCHANGED <<pc, target, asked, missing, checked, todo, seen, exchange, store, halt, stream, worked>>

Install ==
  /\ pc \in {"sync", "poll"} /\ rows # <<>>
  /\ Upsert(rows, asked)
  /\ rows' = <<>> /\ asked' = 0
  /\ Goto(IF pc = "sync" THEN "gaps" ELSE "wait")
  /\ UNCHANGED <<target, missing, checked, todo, seen, exchange, halt, stream, worked>>

\* An error of the first request ends the tick, one of a poll is swallowed; an
\* empty answer is not an error.
Unanswered ==
  /\ \/ pc = "sync" /\ pc' \in {"idle", "gaps"}
     \/ pc = "poll" /\ Goto("wait")
  /\ rows = <<>> /\ asked' = 0
  /\ UNCHANGED <<target, rows, missing, checked, todo, seen, exchange, store, halt, stream, worked>>

\* recover_gaps: backfill what is missing, by then closed for long, and detect again.
Backfill ==
  /\ pc = "gaps" /\ Gaps # {}
  /\ \E S \in SUBSET Gaps : Upsert([b \in S |-> Shown(b)], utc)
  /\ Goto("validate")
  /\ UNCHANGED <<target, asked, rows, missing, checked, todo, seen, exchange, halt, stream, worked>>

Validate ==
  /\ \/ pc = "gaps" /\ Gaps = {}
     \/ pc = "validate"
  /\ missing' = Gaps
  /\ checked' = Greatest(Final)
  /\ Goto("flag")
  /\ UNCHANGED <<target, asked, rows, todo, seen, exchange, store, halt, stream, worked>>

Flag_OnlyClears == halt' = (halt /\ missing # {})
Flag == halt' = (missing # {})

SetFlag ==
  /\ pc = "flag"
  /\ Flag
  /\ missing' = {}
  /\ Goto("wait")
  /\ UNCHANGED <<target, asked, rows, checked, todo, seen, exchange, store, stream, worked>>

LastDone == Greatest(done)

\* The pending bars: after the last done one, so that a gap filled behind it is
\* left alone (from a cold start, the latest only: not here).
Pending == {b \in Final : b > LastDone}
ToProcess == {b \in Pending : Cardinality({c \in Pending : c >= b}) <= MaxCatchup}

IsStale == utc - Closes(Greatest(Final)) > StaleAfter

\* The wait is over (the bar is there, or the deadline): stale data or nothing
\* pending end the tick, the bars beyond the catch-up window are skipped.
Plan ==
  /\ pc = "wait" /\ target' = 0
  /\ IF IsStale \/ Pending = {}
     THEN Goto("idle") /\ UNCHANGED <<todo, done>>
     ELSE /\ todo' = ToProcess
          /\ done' = done \cup (Pending \ ToProcess)
          /\ Goto("compute")
  /\ UNCHANGED <<asked, rows, missing, checked, seen, exchange, store, halt, stream, basis, entered>>

-----------------------------------------------------------------------------
(* process_candle between its two finality gates. *)

\* verify_candle_final against the close the features were computed on.
Verified(b, close) == store[b].final /\ IsConfirmed(b, utc) /\ store[b].part = close

\* The features are computed on the stored bar; then the council is awaited.
Compute ==
  /\ pc = "compute"
  /\ Verified(Least(todo), store[Least(todo)].part)
  /\ seen' = store[Least(todo)].part
  /\ Goto("decide")
  /\ UNCHANGED <<target, asked, rows, missing, checked, todo, exchange, store, halt, stream, worked>>

\* The decision transaction: entries on the latest pending bar without a halt.
Decide ==
  /\ pc = "decide"
  /\ LET b == Least(todo) IN
     /\ Verified(b, seen)
     /\ done' = done \cup {b} /\ basis' = [basis EXCEPT ![b] = seen]
     /\ entered' = IF todo = {b} /\ ~halt THEN entered \cup {b} ELSE entered
     /\ todo' = todo \ {b}
     /\ Goto(IF todo = {b} THEN "idle" ELSE "compute")
  /\ seen' = 0
  /\ UNCHANGED <<target, asked, rows, missing, checked, exchange, store, halt, stream>>

\* A gate raises, or anything else does: the attempt fails and the tick ends.
Fails ==
  /\ pc \in {"compute", "decide"}
  /\ todo' = {} /\ seen' = 0 /\ checked' = 0
  /\ Goto("idle")
  /\ UNCHANGED <<target, asked, rows, missing, exchange, store, halt, stream, worked>>

\* The process dies and another starts: only the store, the flag and the done rows stay.
Restart ==
  /\ pc # "idle"
  /\ frame' = NoFrame /\ wspc' = "recv" /\ latest' = NoFrame
  /\ recent' = [b \in Bar |-> 0] /\ newest' = 0
  /\ rows' = <<>> /\ missing' = {} /\ checked' = 0 /\ todo' = {} /\ seen' = 0 /\ asked' = 0 /\ target' = 0
  /\ Goto("idle")
  /\ UNCHANGED <<exchange, store, halt, worked>>

MarketNext ==
  \/ Settle \/ ClockTicks
  \/ Receive \/ ReceiveEarly \/ Seal \/ StoreFrame \/ FrameFails
  \/ Ask \/ RestAnswers \/ Install \/ Unanswered \/ Backfill \/ Validate \/ SetFlag \/ Plan
  \/ Compute \/ Decide \/ Fails \/ Restart

MarketSpec == MarketInit /\ [][MarketNext]_marketVars

-----------------------------------------------------------------------------
(* Properties. *)

\* A confirmed bar is the whole bar, however polls, frames, retries and restarts
\* interleave, as long as no frame of the stream is lost, late or early.
ConfirmedWhole == lapse \/ \A b \in Final : store[b].part = 2

\* What a decision was made on is what the store says of that bar ever after.
DecidedOnStored == \A b \in Bar : basis[b] # 0 => store[b] = [part |-> basis[b], final |-> TRUE]

\* New entries are never made over a hole in the bars recover_gaps looked at, through
\* backfills that fail, restarts and late frames.
NoEntryThroughKnownGap == [][entered' # entered => \A b \in Gaps : b > checked]_entered
=============================================================================
