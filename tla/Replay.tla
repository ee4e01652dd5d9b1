--------------------------------- MODULE Replay ---------------------------------
(***************************************************************************)
(* One strategy on one run of bars, traded twice: by the paper loop, which *)
(* carries what it decided at a close over to the next bar's open, and by  *)
(* the backtest, which reads the next open and books the fill at once.     *)
(* Both book through the same accounting.  Before the loop decides on a    *)
(* bar, the pre-trade shadow says what it would do there.                  *)
(*                                                                         *)
(* Longs of quantity 1 (PositionManager has the shorts and the other       *)
(* levels); sizing decides only whether the account affords the order.     *)
(***************************************************************************)
EXTENDS Integers, Sequences, FiniteSetsExt

CONSTANTS Quote,      \* prices (model bound)
          Stop,       \* distance of the stop from the entry
          Fee,        \* fee of an entry or an exit
          Penalty,    \* what a liquidation costs on top of it
          Start,      \* starting balance
          Maintenance, MinOrder, MinViable,
          Regimes,    \* [cap, days, win, loss]: max_trades_per_day, bars on which a day
                      \* begins, cooldown bars after a win and a loss (model bound)
          Settlements,\* bars in which a funding settlement falls
          LastBar     \* bars of the run (model bound)

ASSUME ReplayAssumption ==
  /\ Quote \subseteq Nat \ {0}
  /\ {Stop, Fee, Penalty, Start, Maintenance, MinViable} \subseteq Nat
  /\ MinOrder \in Nat /\ MinOrder >= MinViable /\ MinOrder > Fee
  /\ Regimes \subseteq [cap : Nat, days : SUBSET Nat, win : Nat, loss : Nat]
  /\ Settlements \subseteq Nat /\ LastBar \in Nat

VARIABLES
  regime,   \* the strategy's limits and the calendar of this run
  now,      \* the bar to be processed
  open,     \* its open, which the backtest has already seen
  paper,    \* the paper agent's account
  shadow,   \* would_trade of the last bar
  replay,   \* the backtest's
  midnight  \* history: whether the loop's count of the day holds an order decided the day
            \* before, and whether such a day has refused an entry for its cap

replayVars == <<regime, now, open, paper, shadow, replay, midnight>>

\* pos is the open position, at most one; a pending order is a decision of the last close.
Account ==
  [balance |-> Start, pos |-> {}, pending |-> "none", dead |-> FALSE, cooldown |-> 0,
   count |-> 0, debt |-> 0, trades |-> <<>>]

ReplayInit ==
  /\ regime \in Regimes
  /\ now = 1 /\ open \in Quote
  /\ paper = Account /\ shadow = FALSE /\ replay = Account /\ midnight = "clear"

-----------------------------------------------------------------------------
(* accounting: the one implementation of both. *)

\* settle_close: the balance stops at zero and the shortfall is recorded, and the bug of
\* clamping it away.
Booked(a, raw) == [a EXCEPT !.balance = Max({raw, 0}), !.debt = @ + Max({-raw, 0})]

CooldownBars(net) == IF net >= 0 THEN regime.win ELSE regime.loss

\* A close on bar "at", with the cooldown and the death that follow from it.
Closed(a, price, reason, at) ==
  LET p == CHOOSE x \in a.pos : TRUE
      fee == Fee + IF reason = "liquidation" THEN Penalty ELSE 0
      net == price - p.entry - Fee - fee - p.funding
      b == Booked(a, a.balance + price - p.entry - fee)
      bars == CooldownBars(net)
  IN [b EXCEPT !.pos = {}, !.pending = "none",
               !.cooldown = IF bars > 0 THEN at + bars ELSE @,
               !.dead = reason = "liquidation" \/ b.balance <= 0,
               !.trades = Append(@, [from |-> p.at, to |-> at, reason |-> reason, net |-> net])]

\* _fill_entry and the backtest's entry: the settlements up to the signal's close are paid.
Entered(a, price, at) ==
  [a EXCEPT !.pos = {[entry |-> price, at |-> at, funding |-> 0]}, !.balance = @ - Fee,
            !.count = @ + 1, !.pending = "none"]

\* Funding of one unit a settlement, then the levels.  The margin at the close adds nothing
\* to them: the maintenance is a constant, so a close it liquidates has a low it stopped at.
Funded(a, i) ==
  IF i \in Settlements
  THEN [a EXCEPT !.balance = @ - 1, !.pos = {[p EXCEPT !.funding = @ + 1] : p \in a.pos}]
  ELSE a

Liquidation(a, p) == p.entry - a.balance + Maintenance

Managed(a, i, bar) ==
  LET b == Funded(a, i)
      p == CHOOSE x \in b.pos : TRUE
      level == Max({p.entry - Stop, Liquidation(b, p)})
  IN IF bar.low <= level
     THEN Closed(b, Min({bar.open, level}),
                 IF Liquidation(b, p) = level THEN "liquidation" ELSE "stop_loss", i)
     ELSE b

\* A day's first bar empties the count of its trades.
Rolled(a, i) == IF i \in regime.days THEN [a EXCEPT !.count = 0] ELSE a

MayEnter(a, i) == /\ i >= a.cooldown
                  /\ a.count < regime.cap
                  /\ a.balance >= MinOrder

-----------------------------------------------------------------------------
(* The paper loop: decided at a close, executed at the next open. *)

Executed(a, i, price) ==
  CASE a.pending = "exit" -> Closed(a, price, "signal", i)
    [] a.pending = "entry" -> Entered(a, price, i)
    [] OTHER -> a

\* The signal at the close of a bar the position, if any, survived.
Decided(a, i, bar) ==
  [a EXCEPT !.pending = CASE a.pos # {} /\ bar.exit -> "exit"
                          [] a.pos = {} /\ bar.entry /\ MayEnter(a, i) -> "entry"
                          [] OTHER -> "none"]

\* _process_agent: flat, nothing pending and too poor for any order is dead.
Swept(a) ==
  IF a.pos = {} /\ a.pending = "none" /\ a.balance < MinViable THEN [a EXCEPT !.dead = TRUE] ELSE a

\* A bar that closed the position ends with the exit: no signal is read on it.
PaperBar(a, i, bar) ==
  LET b == Executed(Rolled(a, i), i, bar.open)
      c == IF b.pos = {} THEN b ELSE Managed(b, i, bar)
  IN CASE a.dead -> a
       [] ~a.dead /\ b.pos # {} /\ c.pos = {} -> Swept(c)
       [] ~a.dead /\ b.pos = {} /\ b.dead -> b
       [] OTHER -> Swept(Decided(c, i, bar))

-----------------------------------------------------------------------------
(* run_shadow_cycle: its own limits, on the rows as the last bar left them, then the gate. *)

Cleared(a, i) ==
  /\ i >= a.cooldown
  /\ (IF i \in regime.days THEN 0 ELSE a.count) < regime.cap
  /\ a.balance >= MinOrder

\* The gate's refusals, and the bug of not looking at pending orders.
Allowed_NoPending(a, i) == a.pos = {} /\ Cleared(a, i)
Allowed(a, i) == a.pos = {} /\ a.pending # "entry" /\ Cleared(a, i)

\* The signal is evaluated as if flat, also for an agent that is not.
WouldTrade(a, i, bar) == ~a.dead /\ bar.entry /\ Allowed(a, i)

-----------------------------------------------------------------------------
(* The backtest: the fill is booked with the signal, at the next open. *)

\* The exit's bar is the bar it fills in, and the bug of the bar that signalled it.
FillBar_Signal(i) == i
FillBar(i) == i + 1

ReplayBar(a, i, bar, next) ==
  LET b == Rolled(a, i)
      c == IF b.pos = {} THEN b ELSE Managed(b, i, bar)
  IN CASE ~c.dead /\ c.pos # {} /\ bar.exit -> Closed(c, next, "signal", FillBar(i))
       [] ~c.dead /\ b.pos = {} /\ bar.entry /\ i < LastBar /\ MayEnter(c, i) ->
            Entered(c, next, i + 1)
       [] OTHER -> c

\* What is still open when the bars end is closed at the last close.
EndOfData(a, close) ==
  IF a.pos # {} /\ ~a.dead THEN Closed(a, close, "end_of_data", LastBar) ELSE a

-----------------------------------------------------------------------------
\* The loop counts an order on the day of its fill, the backtest on the day of its signal: on a
\* day that began with a fill decided the day before the loop has one trade less to go.
Carried == IF now \in regime.days THEN paper.pending = "entry" ELSE midnight = "carried"

\* The history after a bar with or without an entry signal.
DayTurned(entry) ==
  CASE midnight = "refused" -> "refused"
    [] midnight # "refused" /\ Carried /\ entry /\ paper'.pos = {} /\ paper'.count >= regime.cap -> "refused"
    [] OTHER -> IF Carried THEN "carried" ELSE "clear"

\* One bar through both, then the open of the next.
Step ==
  /\ now <= LastBar
  /\ \E low, close, next \in Quote, entry, exit \in BOOLEAN :
       LET bar == [open |-> open, low |-> low, close |-> close, entry |-> entry, exit |-> exit]
           done == ReplayBar(replay, now, bar, next)
       IN /\ low <= Min({open, close})
          /\ shadow' = WouldTrade(paper, now, bar)
          /\ paper' = PaperBar(paper, now, bar)
          /\ replay' = IF now = LastBar THEN EndOfData(done, close) ELSE done
          /\ midnight' = DayTurned(entry)
          /\ open' = next
  /\ now' = now + 1
  /\ UNCHANGED regime

ReplayNext == Step

ReplaySpec == ReplayInit /\ [][ReplayNext]_replayVars

-----------------------------------------------------------------------------
(* Properties. *)

Trades(a) == {a.trades[k] : k \in 1..Len(a.trades)}

\* The trades of an account that were over by the last bar processed, and its exposure on it.
Over(a) == {t \in Trades(a) : t.to < now /\ t.reason # "end_of_data"}
Exposed(a) ==
  {p.at : p \in {q \in a.pos : q.at < now}} \cup {t.from : t \in {u \in Trades(a) : u.from < now}}

Agree == Over(paper) = Over(replay) /\ Exposed(paper) = Exposed(replay)

\* The same bars give the backtest and the paper loop the same entries, and the same exits with
\* the same results, although one books a bar earlier: until the loop, on a day that began with
\* a fill decided the day before, refuses an entry for its cap.
TradesAgree == now <= LastBar /\ midnight # "refused" => Agree

\* What the shadow said it would do, the paper loop did; and the loop entered nowhere else,
\* but on a bar at whose open an exit decided before was still to be filled: the shadow
\* sees that position, the loop is flat when it reads the signal.
ShadowAgrees ==
  /\ shadow => paper.pending = "entry"
  /\ paper.pending = "entry" =>
       shadow \/ \E t \in Trades(paper) : t.to = now - 1 /\ t.reason = "signal"
==============================================================================
