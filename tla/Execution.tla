------------------------------- MODULE Execution -------------------------------
(***************************************************************************)
(* An entry from the signal to the fill and back out: what a strategy asks  *)
(* for, what the risk engine and the margin leave of it, what the venue     *)
(* makes of the order, and what is booked (execution/*.py, risk/*.py, the   *)
(* sizing part of agents/decision_loop.py), beside what the backtester      *)
(* makes of the same signal.                                                *)
(*                                                                          *)
(* Amounts are integers: of a notional and of a quantity the code keeps the *)
(* fraction, here both are rounded down to the model's unit.  Fees are left *)
(* to AgentLoop and Replay.  A side is 1 (long) or -1 (short).              *)
(***************************************************************************)
EXTENDS Integers, Sequences, FiniteSetsExt

CONSTANTS
  Dnas,        \* sizing and stop of the strategies, see Dna (model bound)
  Marks,       \* prices (model bound)
  Scenes,      \* [atr, low, high] at a signal, a swing of 0 is unknown (model bound)
  Books,       \* [bids, asks]: sequences of <<price, size>>, best first (model bound)
  Engines,     \* subset of {"next_open", "signal_close", "shadow"}
  Observing,   \* paper_entry_price_source = first_observed_after_decision
  Funds,       \* starting balance
  Sizes,       \* size modifiers of the council, percent (model bound)
  Drifts,      \* what latency moves the price of a fill by (model bound)
  Slippage,    \* of a market order
  LotSize,     \* paper_quantity_step, in units of quantity
  MinNotional, \* paper_min_order_notional
  Limits,      \* [leverage, margin, exposure, loss, drawdown, daily, volatility]:
               \* the global limits of the settings, all but the first in percent
  Scaling,     \* [target, min, max]: of volatility_based sizing, percent
  SettleAfter, \* exit_force_settle_after_attempts
  Rounds       \* entries of a behaviour (model bound)

Methods == {"fraction_of_equity", "fixed_notional", "risk_based", "volatility_based"}
StopMethods == {"atr_multiple", "fixed_pct", "structure_based", "disabled"}

\* cap: max_notional, at most one; fraction, value, margin, drawdown and daily in percent,
\* but the value of atr_multiple, which structure_based falls back on, counts ATRs.
Dna == [method : Methods, fraction : Nat, cap : SUBSET Nat, leverage : Nat, margin : 0..100,
        stop : StopMethods, value : Nat \ {0}, drawdown : Nat, daily : Nat]

ASSUME ExecutionAssumption ==
  /\ Dnas \subseteq Dna /\ \A d \in Dnas : \A x, y \in d.cap : x = y
  /\ Marks \subseteq Nat \ {0}
  /\ Scenes \subseteq [atr : Nat \ {0}, low : Nat, high : Nat]
  /\ Books \subseteq [bids : Seq(Nat \X Nat), asks : Seq(Nat \X Nat)]
  /\ Limits \in [leverage : Nat, margin : Nat, exposure : Nat, loss : Nat, drawdown : Nat,
                 daily : Nat, volatility : Nat]
  /\ Scaling \in [target : Nat, min : Nat, max : Nat] /\ Sizes \subseteq Nat
  /\ Engines \subseteq {"next_open", "signal_close", "shadow"} /\ Observing \in BOOLEAN
  /\ {Funds, LotSize, SettleAfter} \subseteq Nat \ {0}
  /\ {Slippage, MinNotional, Rounds} \subseteq Nat /\ Drifts \subseteq Int

VARIABLES
  engine,   \* the engine, fixed at start-up
  account,  \* [balance, peak, day, debt]: day is day_start_equity
  intent,   \* the entry the last bar's close decided, or refused, at most one
  held,     \* the open position, at most one
  result,   \* history: what became of the last entry, on paper and in the backtest
  flows,    \* history: [cash, units] that changed hands in the fills of the order rows
  rounds    \* entries decided

executionVars == <<engine, account, intent, held, result, flows, rounds>>

ExecutionInit ==
  /\ engine \in Engines
  /\ account = [balance |-> Funds, peak |-> Funds, day |-> Funds, debt |-> 0]
  /\ intent = {} /\ held = {} /\ result = {} /\ flows = [cash |-> 0, units |-> 0] /\ rounds = 0

Percent(x, p) == (x * p) \div 100

-----------------------------------------------------------------------------
(* Where the stop goes: sizing.stop_distance_pct before the fill and           *)
(* position_manager.stop_price after it.                                       *)

Swing(side, scene) == IF side = 1 THEN scene.low ELSE scene.high

\* sizing: a hundred times the distance to the stop at a price; no stop: the whole price.
Distance_OtherSide(d, side, price, scene) ==
  LET level == Swing(-side, scene)
  IN CASE d.stop = "disabled" -> 100 * price
       [] d.stop = "fixed_pct" -> price * d.value
       [] d.stop = "structure_based" /\ level > 0 /\ side * (price - level) > 0 ->
            100 * side * (price - level)
       [] OTHER -> 100 * scene.atr * d.value
Distance(d, side, price, scene) ==
  LET level == Swing(side, scene)
  IN CASE d.stop = "disabled" -> 100 * price
       [] d.stop = "fixed_pct" -> price * d.value
       [] d.stop = "structure_based" /\ level > 0 /\ side * (price - level) > 0 ->
            100 * side * (price - level)
       [] OTHER -> 100 * scene.atr * d.value

\* The loss of a position, bought for "worth" altogether, at the stop placed on it, times a
\* hundred.  The floors on a stop distance are left out: the one on the placed stop is 0 by
\* default, the one on the sized stop 5 bps.
LossAtStop(d, side, quantity, worth, scene) ==
  LET level == Swing(side, scene)
  IN CASE d.stop = "fixed_pct" -> worth * d.value
       [] d.stop = "structure_based" /\ level > 0 /\ side * (worth - quantity * level) > 0 ->
            100 * side * (worth - quantity * level)
       [] OTHER -> 100 * quantity * scene.atr * d.value

-----------------------------------------------------------------------------
(* Sizing and the risk engine, at the close of the signal's bar. *)

Requested(d, equity, price, scene, distance) ==
  LET base == Percent(equity * d.leverage, d.fraction)
      scale == Max({Scaling.min, Min({Scaling.max, (Scaling.target * price) \div scene.atr})})
  IN IF equity <= 0 THEN 0
     ELSE CASE d.method = "fixed_notional" ->
                 Max(d.cap \cup (IF d.cap \in {{}, {0}} THEN {base} ELSE {}))
            [] d.method = "risk_based" ->
                 Min({(equity * d.fraction * price) \div distance, equity * d.leverage})
            [] d.method = "volatility_based" -> Percent(base, scale)
            [] OTHER -> base

\* The hard limits of check_trade; allowed: neither the council nor a halt or stale data
\* forbids new entries.
Admissible(d, a, price, scene, allowed) ==
  /\ allowed
  /\ a.balance > 0
  /\ 100 * Max({0, a.peak - a.balance}) < Min({d.drawdown, Limits.drawdown}) * a.peak
  /\ 100 * Max({0, a.day - a.balance}) < Min({d.daily, Limits.daily}) * Funds
  /\ 100 * scene.atr <= Limits.volatility * price

Leverage(d) == Min({d.leverage, Limits.leverage})

\* A stop beyond the price itself sets no limit (risk_engine.py:106).
Guarded(d, price, distance) == d.stop # "disabled" /\ distance <= 100 * price

\* The soft limits: the notional is the smallest of all.
Reduced(d, a, price, wanted, distance, available) ==
  LET margin == Min({Percent(a.balance, Min({d.margin, Limits.margin}))} \cup available)
      risk == IF Guarded(d, price, distance)
              THEN {(a.balance * Limits.loss * price) \div distance} ELSE {}
  IN Min({wanted, margin * Leverage(d), Percent(a.balance, Limits.exposure)}
         \cup risk \cup d.cap)

CheckTrade(d, a, price, scene, wanted, distance, available, allowed) ==
  IF Admissible(d, a, price, scene, allowed)
  THEN Max({0, Reduced(d, a, price, wanted, distance, available)}) ELSE 0

\* approve_against_margin.
Affordable(notional, leverage, balance) == Max({0, Min({notional, balance * leverage})})

\* A quantity in whole lots.
Lots(quantity) == (quantity \div LotSize) * LotSize

\* below_min_order_notional.
BelowMinimum(notional, price) == Lots(notional \div price) * price < MinNotional

\* What the decision loop approves of a signal, and why it is nothing.
Approved(d, side, price, scene, size, allowed) ==
  LET distance == Distance(d, side, price, scene)
      wanted == Percent(Requested(d, account.balance, price, scene, distance), size)
      checked == CheckTrade(d, account, price, scene, wanted, distance, {account.balance}, allowed)
      notional == Affordable(checked, Leverage(d), account.balance)
  IN CASE notional = 0 -> [notional |-> 0, why |-> "risk"]
       [] notional > 0 /\ engine # "shadow" /\ BelowMinimum(notional, price) ->
            [notional |-> 0, why |-> "minimum"]
       [] OTHER -> [notional |-> notional, why |-> "none"]

\* run_backtest: the same through backtest_risk_check, which knows no council, no halt and
\* no available margin; its minimum is that of the fill.
Backtested(d, side, price, scene) ==
  LET distance == Distance(d, side, price, scene)
      wanted == Requested(d, account.balance, price, scene, distance)
  IN Affordable(CheckTrade(d, account, price, scene, wanted, distance, {}, TRUE),
                Leverage(d), account.balance)

\* The quantity the backtest opens at the next open, and the bug of no minimum there.
BacktestQuantity_AnySize(notional, price) == Lots(notional \div price)
BacktestQuantity(notional, price) ==
  LET quantity == Lots(notional \div price)
  IN IF BelowMinimum(quantity * price, price) THEN 0 ELSE quantity

-----------------------------------------------------------------------------
(* The venues.  A fill is worth its quantity at its average price.             *)

Fill(quantity, worth) == [quantity |-> quantity, worth |-> worth, refusal |-> "none"]
Refusal(why) == [quantity |-> 0, worth |-> 0, refusal |-> why]

\* fillmodel: a resting take-profit pays no slippage, a stop or a liquidation twice.
Slips(kind) ==
  CASE kind = "take_profit" -> 0
    [] kind \in {"stop", "liquidation"} -> 2 * Slippage
    [] OTHER -> Slippage
Slipped(ref, side, exits, kind) == ref + (IF exits THEN -side ELSE side) * Slips(kind)

\* A partial fill is at least half of the order, and none when no lot is left of it.
Partials(quantity) ==
  {n \in LotSize..(quantity - 1) : n = Lots(n) /\ n >= Lots(quantity \div 2)}

\* PaperExecutionAdapter.submit_order; only an entry is rounded, refused or filled in part.
PaperFills(quantity, side, ref, exits, kind) ==
  LET whole == IF exits THEN quantity ELSE Lots(quantity)
      accepted == {Fill(n, n * (Slipped(ref, side, exits, kind) + drift)) :
                     n \in {whole} \cup (IF exits THEN {} ELSE Partials(whole)), drift \in Drifts}
  IN CASE whole = 0 -> {Refusal("quantity_below_lot_size")}
       [] ~exits /\ whole > 0 /\ whole * ref < MinNotional -> {Refusal("below_min_order_notional")}
       [] OTHER -> accepted \cup (IF exits THEN {} ELSE {Refusal("simulated_exchange_reject")})

\* walk_book.
Walked(levels, quantity) ==
  LET walk[k \in 0..Len(levels)] ==
        IF k = 0 THEN [filled |-> 0, worth |-> 0]
        ELSE LET take == Min({quantity - walk[k - 1].filled, levels[k][2]})
             IN [filled |-> walk[k - 1].filled + take,
                 worth |-> walk[k - 1].worth + take * levels[k][1]]
  IN walk[Len(levels)]

\* ShadowExecutionAdapter.submit_order on one book: the remainder of an exit is filled at
\* the deepest level, and the bug of reporting it filled without.
ShadowFill_Short(quantity, side, ref, exits, kind, book) ==
  LET levels == IF (side = 1) # exits THEN book.asks ELSE book.bids
      got == IF kind = "take_profit" THEN [filled |-> quantity, worth |-> ref * quantity]
             ELSE Walked(levels, quantity)
  IN IF got.filled = 0 THEN Refusal("no_liquidity") ELSE Fill(got.filled, got.worth)
ShadowFill(quantity, side, ref, exits, kind, book) ==
  LET levels == IF (side = 1) # exits THEN book.asks ELSE book.bids
      got == IF kind = "take_profit" THEN [filled |-> quantity, worth |-> ref * quantity]
             ELSE Walked(levels, quantity)
  IN CASE got.filled = 0 -> Refusal("no_liquidity")
       [] exits /\ got.filled \in 1..(quantity - 1) ->
            Fill(quantity, got.worth + levels[Len(levels)][1] * (quantity - got.filled))
       [] OTHER -> Fill(got.filled, got.worth)

\* Without a book an exit falls back on the cost model.  The book is the cached one or a
\* new one: which, is a choice.
ShadowFills(quantity, side, ref, exits, kind) ==
  {ShadowFill(quantity, side, ref, exits, kind, b) : b \in Books} \cup
  {IF exits THEN Fill(quantity, quantity * Slipped(ref, side, exits, kind))
   ELSE Refusal("book_unavailable")}

Fills(quantity, side, ref, exits, kind) ==
  IF engine = "shadow" THEN ShadowFills(quantity, side, ref, exits, kind)
  ELSE PaperFills(quantity, side, ref, exits, kind)

-----------------------------------------------------------------------------
(* The decision loop. *)

\* The quantity is taken anew at the fill's reference price.
Ordered(i, ref) == Affordable(i.notional, Leverage(i.dna), account.balance) \div ref

Traded(cash, units) == [cash |-> flows.cash + cash, units |-> flows.units + units]

\* _fill_entry.
Enter(i, ref, fill) ==
  /\ held' = IF fill.quantity = 0 THEN {}
             ELSE {[side |-> i.side, quantity |-> fill.quantity, worth |-> fill.worth,
                    attempts |-> 0, still |-> ref = i.close /\ fill.worth = fill.quantity * ref,
                    stopped |-> Guarded(i.dna, i.close, Distance(i.dna, i.side, i.close, i.scene)),
                    limit |-> i.limit,
                    loss |-> LossAtStop(i.dna, i.side, fill.quantity, fill.worth, i.scene)]}
  /\ flows' = Traded(-i.side * fill.worth, i.side * fill.quantity)

\* What the last bar's close decided, or refused, on a signal.
Intent(d, side, price, scene, size, allowed) ==
  LET approved == Approved(d, side, price, scene, size, allowed)
  IN [dna |-> d, side |-> side, scene |-> scene, close |-> price,
      notional |-> approved.notional, why |-> approved.why,
      backtest |-> Backtested(d, side, price, scene),
      alike |-> size = 100 /\ allowed,
      limit |-> account.balance * Limits.loss]

Outcome(i, ref, fill, quantity) ==
  [paper |-> fill.quantity, refusal |-> fill.refusal, why |-> i.why, alike |-> i.alike,
   backtest |-> quantity]

\* A signal at the close of a bar: an order for the next open, or filled at once.
Signal ==
  /\ intent = {} /\ held = {} /\ rounds < Rounds
  /\ \E d \in Dnas, side \in {-1, 1}, price \in Marks, scene \in Scenes, size \in Sizes,
        allowed \in BOOLEAN :
       LET i == Intent(d, side, price, scene, size, allowed)
       IN IF engine = "next_open" \/ i.notional = 0
          THEN /\ intent' = (IF engine = "next_open" THEN {i} ELSE {}) /\ result' = {}
               /\ UNCHANGED <<held, flows>>
          ELSE \E fill \in Fills(Ordered(i, price), side, price, FALSE, "market") :
                 /\ Enter(i, price, fill)
                 /\ result' = {[Outcome(i, price, fill, 0) EXCEPT !.alike = FALSE]}
                 /\ UNCHANGED intent
  /\ rounds' = rounds + 1
  /\ UNCHANGED <<engine, account>>

\* first_observed_at_or_after the decision, of a bar's open and close; none: cancelled.
FirstObserved(decided, price, close) ==
  CASE decided = "before" -> {price}
    [] decided = "during" -> {close}
    [] OTHER -> {}

\* _execute_pending_entry, and the backtest's entry at the same open.
NextOpen ==
  /\ intent # {}
  /\ \E i \in intent, price, close \in Marks, decided \in {"before", "during", "after"},
        halted \in BOOLEAN :
       LET quantity == BacktestQuantity(i.backtest, price)
           refs == IF halted \/ i.notional = 0 THEN {}
                   ELSE IF Observing THEN FirstObserved(decided, price, close) ELSE {price}
       IN IF refs = {}
          THEN /\ result' = {[Outcome(i, price, Refusal("cancelled"), quantity) EXCEPT
                                !.alike = @ /\ i.notional = 0]}
               /\ UNCHANGED <<held, flows>>
          ELSE \E ref \in refs : \E fill \in Fills(Ordered(i, ref), i.side, ref, FALSE, "market") :
                 /\ Enter(i, ref, fill)
                 /\ result' = {[Outcome(i, ref, fill, quantity) EXCEPT
                                 !.alike = @ /\ ref = price]}
  /\ intent' = {}
  /\ UNCHANGED <<engine, account, rounds>>

\* A bar that leaves the position open, and the day that may begin with the next.
Bar ==
  /\ intent = {}
  /\ \E p \in held, mark \in Marks, midnight \in BOOLEAN :
       LET equity == account.balance + p.side * (p.quantity * mark - p.worth)
       IN account' = [account EXCEPT !.peak = Max({@, equity}),
                                     !.day = IF midnight THEN equity ELSE @]
  /\ result' = {}
  /\ UNCHANGED <<engine, intent, held, flows, rounds>>

\* A day that begins with no position open.
Midnight ==
  /\ intent = {} /\ held = {}
  /\ account' = [account EXCEPT !.day = account.balance]
  /\ result' = {}
  /\ UNCHANGED <<engine, intent, held, flows, rounds>>

\* _close_position books the whole position at the average price of the fill.
BookedClose(p, fill) ==
  LET raw == account.balance + p.side * ((fill.worth * p.quantity) \div fill.quantity - p.worth)
      balance == Max({raw, 0})
  IN [account EXCEPT !.balance = balance, !.debt = @ + balance - raw, !.peak = Max({@, balance})]

\* An exit that is not filled is tried again; the last is settled at the modelled price.
Close ==
  /\ intent = {}
  /\ \E p \in held, ref \in Marks, kind \in {"market", "stop", "take_profit", "liquidation"} :
       \E fill \in Fills(p.quantity, p.side, ref, TRUE, kind) :
         LET done == IF fill.quantity = 0 /\ p.attempts + 1 >= SettleAfter
                     THEN Fill(p.quantity, p.quantity * Slipped(ref, p.side, TRUE, kind)) ELSE fill
         IN IF done.quantity = 0
            THEN /\ held' = {[p EXCEPT !.attempts = @ + 1]}
                 /\ UNCHANGED <<account, flows>>
            ELSE /\ held' = {}
                 /\ account' = BookedClose(p, done)
                 /\ flows' = Traded(p.side * done.worth, -p.side * done.quantity)
  /\ result' = {}
  /\ UNCHANGED <<engine, intent, rounds>>

ExecutionNext == Signal \/ NextOpen \/ Bar \/ Midnight \/ Close

ExecutionSpec == ExecutionInit /\ [][ExecutionNext]_executionVars

-----------------------------------------------------------------------------
(* Properties. *)

\* "The loss if the protective stop is hit may not exceed this fraction of equity"
\* (config.py): of a position filled at the close it was sized at, with a stop nearer than the
\* price.  Sizing and the placement of the stop compute the distance apart.
RiskAsSized ==
  \A p \in held : p.still /\ p.stopped => p.loss <= p.limit

\* The paper loop and the backtest open the same quantity on the same signal, but where the
\* loop refused at the close, for the exchange's minimum, what the open would have allowed.
AdmittedAlike ==
  engine = "next_open" =>
    \A r \in result :
      r.alike /\ r.refusal # "simulated_exchange_reject" =>
        \/ r.paper = r.backtest
        \/ r.paper = 0 /\ r.why = "minimum"
        \/ r.paper \in Partials(r.backtest)

\* Every unit bought is sold, and a flat account is what its fills made of it, however thin
\* the book and however often the exit was refused.
CashIsFills ==
  held = {} => flows.units = 0 /\ account.balance = Funds + flows.cash + account.debt
=============================================================================
