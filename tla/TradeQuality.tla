---------------------------- MODULE TradeQuality ----------------------------
(***************************************************************************)
(* Trade analytics (analytics/trade_quality.py and the first phase of        *)
(* analytics/analytics_store.py): a closed trade is replayed over the stored  *)
(* bars, and the extremes of the replay are compared with those the decision *)
(* loop kept on the position row.                                            *)
(*                                                                         *)
(* One position, from its fill to its end; what ends it is a choice, since   *)
(* only the bars that count matter here.  Bar k opens at 2k and closes at     *)
(* 2k + 1.  The worker takes up stored bars in order and may lag; a bar may   *)
(* be missing and stored later; the refresh (scripts/refresh_analytics.py)    *)
(* counts the raw tables, reads candles and trades in two statements, writes,  *)
(* and counts again.                                                         *)
(***************************************************************************)
EXTENDS Integers, FiniteSets, Sequences

CONSTANTS Excursion,   \* highs above and lows below the entry price, as distances
          FinalBar,     \* model bound
          PostBars     \* POST_EXIT_BARS

ASSUME ExcursionAssumption ==
  /\ Excursion \subseteq Nat /\ 0 \in Excursion
  /\ FinalBar \in Nat \ {0} /\ PostBars \in Nat

VARIABLES
  quotes,    \* per closed bar how far it went in favour and against, from the entry price
  stored,    \* final rows of market_candles
  held,      \* the Position row
  outcome,   \* the Trade row, if any
  refresh,   \* a refresh under way: its step, the count it made first, the candles it read
  row,       \* the TradeAnalytics row, if any
  alarm      \* a refresh has ended with RAW TABLE MUTATION DETECTED

qualityVars == <<quotes, stored, held, outcome, refresh, row, alarm>>
refreshVars == <<refresh, row, alarm>>

EntryBar == 1
OpenTime(k) == 2 * k
CloseTime(k) == 2 * k + 1

Lowest(S) == CHOOSE x \in S : \A y \in S : x <= y
Highest(S) == CHOOSE x \in S : \A y \in S : y <= x
\* The price itself is an excursion of 0.
Farthest(side, window) == Highest({0} \cup {quotes[k][side] : k \in window})

\* An entry fills at the open of the bar that manages it first, or (immediate: the shadow
\* engine, a price after the decision) at the close of the bar before that.
QualityInit ==
  /\ quotes = <<>> /\ stored = {}
  /\ \E immediate \in BOOLEAN :
       held = [opened |-> IF immediate THEN CloseTime(EntryBar) ELSE OpenTime(EntryBar),
               last |-> IF immediate THEN EntryBar ELSE EntryBar - 1,
               favour |-> 0, against |-> 0, pending |-> 0, taken |-> {}, missed |-> {}]
  /\ outcome = {} /\ row = {} /\ alarm = FALSE
  /\ refresh = [step |-> "idle", before |-> 0, corpus |-> {}]

Immediate == held.opened = CloseTime(EntryBar)

-----------------------------------------------------------------------------
(* The market and the worker. *)

\* A bar closes, and is stored or missing.
BarCloses ==
  /\ Len(quotes) < FinalBar
  /\ \E f, a \in Excursion : quotes' = Append(quotes, [favour |-> f, against |-> a])
  /\ stored' \in {stored, stored \cup {Len(quotes) + 1}}
  /\ UNCHANGED <<held, outcome, refreshVars>>

GapFilled ==
  /\ \E k \in DOMAIN quotes \ stored : stored' = stored \cup {k}
  /\ UNCHANGED <<quotes, held, outcome, refreshVars>>

\* The bar the worker takes up next: one that is stored later, behind it, never.
Upcoming == {k \in stored : k > held.last /\ \A m \in stored : m > held.last => k <= m}

Taken(k) == [held EXCEPT !.last = k, !.pending = 0, !.taken = @ \cup {k}]
Folded(k) ==
  [Taken(k) EXCEPT !.favour = Highest({@, quotes[k].favour}), !.against = Highest({@, quotes[k].against})]

Closes(k, cause) == outcome' = {[at |-> CloseTime(k), cause |-> cause]}

\* The signal exit of the bar before fills at the open.
SignalExit ==
  /\ outcome = {}
  /\ \E k \in Upcoming : held.pending = k - 1 /\ held.pending # 0 /\ held' = Taken(k) /\ Closes(k, "signal")
  /\ UNCHANGED <<quotes, stored, refreshVars>>

\* A level is met on the bar and the exit fills, or is refused: then the bar is done, and
\* its extremes are not folded in.  A signal exit that was due may have been refused before.
LevelExit ==
  /\ outcome = {}
  /\ \E k \in Upcoming :
       \/ Closes(k, "level") /\ held' = Taken(k)
       \/ /\ held' = [Taken(k) EXCEPT !.missed = @ \cup {k}]
          /\ UNCHANGED outcome
  /\ UNCHANGED <<quotes, stored, refreshVars>>

\* The bar is survived, and then the position goes on, with or without a signal to exit, or
\* is closed at the bar's close: margin, the owner's death, an orphan.
Survives ==
  /\ outcome = {}
  /\ \E k \in Upcoming :
       \/ held' \in {Folded(k), [Folded(k) EXCEPT !.pending = k]} /\ UNCHANGED outcome
       \/ held' = Folded(k) /\ Closes(k, "at_close")
  /\ UNCHANGED <<quotes, stored, refreshVars>>

\* retire_generation settles it, at the wall clock.
RolledOver ==
  /\ outcome = {} /\ held.opened <= OpenTime(Len(quotes) + 1)
  /\ outcome' = {[at |-> OpenTime(Len(quotes) + 1), cause |-> "generation_rollover"]}
  /\ UNCHANGED <<quotes, stored, held, refreshVars>>

-----------------------------------------------------------------------------
(* refresh_trade_analytics and analyze_trade. *)

\* The bars the caller passes: from the bar before the entry to PostBars after the exit.
Slice(candles, at) ==
  {k \in candles : OpenTime(EntryBar) - 2 <= OpenTime(k) /\ OpenTime(k) <= at + 2 * (PostBars + 1)}

\* The bar of the exit: the last that opened by then, if there is one.
ExitBar(candles, at) ==
  LET begun == {k \in candles : OpenTime(k) <= at} IN IF begun = {} THEN {} ELSE {Highest(begun)}

\* What the loop has folded in when it closes on the exit bar, and the bug of one bar more.
FoldedIn_Through(candles, exit) == {k \in candles : EntryBar <= k /\ k <= exit}
FoldedIn(candles, exit) == {k \in candles : EntryBar <= k /\ k < exit}

\* The excursion counts the exit bar too.
Full(candles, exit) == {k \in candles : EntryBar <= k /\ k <= exit}

\* When the final extreme was met: the time of the fill stands for "not yet".
Reached(side, window) ==
  LET far == Farthest(side, window)
      touched == {k \in window : far # 0 /\ quotes[k][side] = far /\ OpenTime(k) # held.opened}
  IN IF touched = {} THEN held.opened ELSE OpenTime(Lowest(touched))

Analyzed(candles, trade) ==
  LET window == Slice(candles, trade.at)
  IN UNION {
       {[candles |-> candles,
         favour |-> Farthest("favour", Full(window, exit)), favour_time |-> Reached("favour", Full(window, exit)),
         against |-> Farthest("against", Full(window, exit)), against_time |-> Reached("against", Full(window, exit)),
         agrees |-> /\ Farthest("favour", FoldedIn(window, exit)) = held.favour
                    /\ Farthest("against", FoldedIn(window, exit)) = held.against]}
       : exit \in ExitBar(window, trade.at)}

\* The rows of the raw tables; the refresh adds none.
RawRows == Cardinality(stored) + Cardinality(outcome)

CountsRawTables ==
  /\ refresh.step = "idle" /\ stored # {}
  /\ refresh' = [step |-> "counted", before |-> RawRows, corpus |-> {}]
  /\ UNCHANGED <<quotes, stored, held, outcome, row, alarm>>

ReadsBars ==
  /\ refresh.step = "counted" /\ refresh' = [refresh EXCEPT !.step = "read", !.corpus = stored]
  /\ UNCHANGED <<quotes, stored, held, outcome, row, alarm>>

\* It reads the trades, and writes or refreshes their rows; without coverage the cross-check
\* is not made.
WritesRows ==
  /\ refresh.step = "read" /\ refresh' = [refresh EXCEPT !.step = "written", !.corpus = {}]
  /\ row' = UNION {Analyzed(refresh.corpus, t) : t \in outcome}
  /\ UNCHANGED <<quotes, stored, held, outcome, alarm>>

\* The script ends with an error if the counts differ; what it wrote is committed.
CountsAgain ==
  /\ refresh.step = "written" /\ refresh' = [step |-> "idle", before |-> 0, corpus |-> {}]
  /\ alarm' = (alarm \/ RawRows # refresh.before)
  /\ UNCHANGED <<quotes, stored, held, outcome, row>>

QualityNext ==
  \/ BarCloses \/ GapFilled \/ SignalExit \/ LevelExit \/ Survives \/ RolledOver
  \/ CountsRawTables \/ ReadsBars \/ WritesRows \/ CountsAgain

QualitySpec == QualityInit /\ [][QualityNext]_qualityVars

-----------------------------------------------------------------------------
(* Properties. *)

\* A finding of the cross-check (analytics_store.py:277) is never a fault of the replay.
\* Either the loop did not see what is stored (a refused exit, a bar over by the exit that was
\* missing or not yet taken up) or the refresh did not see what the loop saw (a bar read too
\* early); or the close is of a kind the replay does not know: at the close of a bar that
\* was survived, or after a fill at the close of the entry bar.
FindingsExplained ==
  \A r \in row : \A t \in outcome : ~r.agrees =>
    LET begun == {k \in 1..(FinalBar + 1) : EntryBar <= k /\ OpenTime(k) <= t.at}
        over == {k \in begun : CloseTime(k) <= t.at}
    IN \/ held.missed # {}
       \/ Immediate
       \/ t.cause = "at_close"
       \/ ~(begun \subseteq r.candles)
       \/ ~(over \subseteq held.taken)
=============================================================================
