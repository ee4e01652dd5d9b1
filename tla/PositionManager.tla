---------------------------- MODULE PositionManager ----------------------------
(***************************************************************************)
(* The protective levels of one open position against the confirmed bars:  *)
(* liquidation, stop, trailing stop and take-profit, evaluated once a bar  *)
(* on its open, high, low and close, and the margin check at its close.    *)
(*                                                                         *)
(* Prices are integers and the quantity is 1.  An optional price (None in  *)
(* the code) is a set of at most one price; a percentage of the entry      *)
(* price is the distance it stands for.                                    *)
(***************************************************************************)
EXTENDS Integers, FiniteSetsExt

CONSTANTS Price,        \* prices of the bars (model bound)
          Entry,        \* entry_price
          Stops,        \* distance of the stop from the entry (0: none)
          Targets,      \* distance of the take-profit (0: none)
          Trails,       \* trailing_stop_distance (0: none)
          Activations,  \* move in favour that arms the trailing stop (0: armed at once)
          Balances,     \* balances of the account when a bar is evaluated (model bound)
          Rate,         \* maintenance_margin_rate, as <<numerator, denominator>>
          Modes         \* values of trailing_stop_uses_same_bar_extreme

ASSUME PriceAssumption ==
  /\ Price \subseteq Nat \ {0} /\ Entry \in Price
  /\ Stops \cup Targets \cup Trails \cup Activations \cup Balances \subseteq Nat
  /\ Rate \in Nat \X (Nat \ {0}) /\ Rate[1] < Rate[2]
  /\ Modes \subseteq BOOLEAN

VARIABLES
  mode,      \* trailing_stop_uses_same_bar_extreme, fixed at start-up
  position,  \* the Position row
  valid,     \* the owner's DNA passes validation
  seen,      \* the last bar, and the levels it was evaluated against
  exit       \* the exit made on it, if any: reason, level, reference, time

vars == <<mode, position, valid, seen, exit>>

Bars == {b \in [open : Price, high : Price, low : Price, close : Price] :
           b.low <= Min({b.open, b.close}) /\ Max({b.open, b.close}) <= b.high}

Unless0(distance, price) == IF distance = 0 THEN {} ELSE {price}

\* accounting.entry_levels: a stop against and a target in favour of the position.
Opened(side, stop, target, trail, arm) ==
  LET long == side = "LONG" IN
  [side |-> side, arm |-> arm,
   stop |-> Unless0(stop, IF long THEN Entry - stop ELSE Entry + stop),
   target |-> Unless0(target, IF long THEN Entry + target ELSE Entry - target),
   trail |-> Unless0(trail, trail),
   armed |-> trail # 0 /\ arm = 0,
   peak |-> Entry, trough |-> Entry]

Init ==
  /\ mode \in Modes
  /\ \E side \in {"LONG", "SHORT"}, s \in Stops, t \in Targets, d \in Trails, a \in Activations :
       position = Opened(side, s, t, d, a)
  /\ valid = TRUE
  /\ seen = {} /\ exit = {}

-----------------------------------------------------------------------------
(* The margin model. *)

\* compute_liquidation_price: where equity meets the maintenance margin, rounded to the
\* last price that is liquidated; None below zero.
LiquidationPrice(side, balance) ==
  {p \in {IF side = "LONG"
          THEN (Rate[2] * (Entry - balance)) \div (Rate[2] - Rate[1])
          ELSE -((-Rate[2] * (Entry + balance)) \div (Rate[2] + Rate[1]))} : p > 0}

\* margin_state: equity <= maintenance margin at the mark.
Liquidatable(side, balance, mark) ==
  LET pnl == IF side = "LONG" THEN mark - Entry ELSE Entry - mark
  IN (balance + pnl) * Rate[2] <= Rate[1] * mark

-----------------------------------------------------------------------------
(* evaluate_bar. *)

Favour(v) == IF v.side = "LONG" THEN v.peak - Entry ELSE Entry - v.trough

TrailingActive(v) == v.trail # {} /\ (v.armed \/ v.arm <= 0 \/ Favour(v) >= v.arm)

\* advance_extremes and the copy same_bar_extreme evaluates, and the bug of keeping the
\* last bar's extremes only.
Extended(v, b) == [v EXCEPT !.peak = Max({@, b.high}), !.trough = Min({@, b.low})]

\* A level the bar reached, and the bug of a short that must be passed.
Hit_ShortPasses(v, b, level) == IF v.side = "LONG" THEN b.low <= level ELSE b.high > level
Hit(v, b, level) == IF v.side = "LONG" THEN b.low <= level ELSE b.high >= level

TrailingLevel(v) ==
  IF TrailingActive(v)
  THEN {IF v.side = "LONG" THEN v.peak - d ELSE v.trough + d : d \in v.trail}
  ELSE {}

Levels(v) ==
  {<<"liquidation", p>> : p \in v.liquidation} \cup {<<"stop_loss", p>> : p \in v.stop}
     \cup {<<"trailing_stop", p>> : p \in TrailingLevel(v)}

Adverse(v, b) == {l \in Levels(v) : Hit(v, b, l[2])}

Priority == [liquidation |-> 0, stop_loss |-> 1, trailing_stop |-> 2]

\* Reached first going against the position: the highest level for a long.
Before(v, l, m) ==
  \/ IF v.side = "LONG" THEN l[2] > m[2] ELSE l[2] < m[2]
  \/ l[2] = m[2] /\ Priority[l[1]] <= Priority[m[1]]

\* A bar that opens beyond the level fills at the open.
Reference(v, b, level) ==
  IF v.side = "LONG" THEN Min({b.open, level}) ELSE Max({b.open, level})

TargetHit(v, b) == {p \in v.target : IF v.side = "LONG" THEN b.high >= p ELSE b.low <= p}

Exit(reason, level, reference) ==
  [reason |-> reason, level |-> level, reference |-> reference, at |-> "bar"]

Target(v, b) == {Exit("take_profit", p, p) : p \in TargetHit(v, b)}

\* Adverse levels before the target, and the bug of the other order.
Choice_TargetFirst(adverse, target) == IF target # {} THEN target ELSE adverse
Choice(adverse, target) == IF adverse # {} THEN adverse ELSE target

Evaluated(levels, b) ==
  LET v == IF mode THEN Extended(levels, b) ELSE levels
      first == {l \in Adverse(v, b) : \A m \in Adverse(v, b) : Before(v, l, m)}
  IN Choice({Exit(l[1], l[2], Reference(v, b, l[2])) : l \in first}, Target(v, b))

-----------------------------------------------------------------------------
(* _manage_open_position. *)

\* The liquidation price follows the current balance; with no valid DNA the activation
\* percentage counts as 0.
LevelsOf(balance) ==
  [f \in DOMAIN position \cup {"liquidation"} |->
     CASE f = "liquidation" -> LiquidationPrice(position.side, balance)
       [] f = "arm" -> IF valid THEN position.arm ELSE 0
       [] OTHER -> position[f]]

\* The rest of the row once a bar was survived: extremes, then whether the trail is armed.
Advanced(v, b) ==
  LET x == Extended(v, b)
  IN [position EXCEPT !.peak = x.peak, !.trough = x.trough, !.armed = TrailingActive(x)]

AtClose(b, balance) ==
  IF Liquidatable(position.side, balance, b.close)
  THEN {[Exit("liquidation", b.close, b.close) EXCEPT !.at = "close"]} ELSE {}

Manage ==
  /\ exit = {}
  /\ \E b \in Bars, balance \in Balances :
       LET v == LevelsOf(balance)
           trigger == Evaluated(v, b)
       IN /\ seen' = {[bar |-> b, levels |-> v]}
          /\ exit' = IF trigger # {} THEN trigger ELSE AtClose(b, balance)
          /\ position' = IF trigger # {} THEN position ELSE Advanced(v, b)
  /\ UNCHANGED <<mode, valid>>

\* A redeployed schema refuses the stored DNA.
Invalidate ==
  /\ exit = {} /\ valid
  /\ valid' = FALSE
  /\ UNCHANGED <<mode, position, seen, exit>>

Next == Manage \/ Invalidate

Spec == Init /\ [][Next]_vars

-----------------------------------------------------------------------------
(* Properties. *)

Long == position.side = "LONG"

\* The bar seen in a mirror around the entry price: a short is a long there.
Reflect(p) == 2 * Entry - p
ReflectAll(P) == {Reflect(p) : p \in P}
MirrorBar(b) == [open |-> Reflect(b.open), high |-> Reflect(b.low),
                 low |-> Reflect(b.high), close |-> Reflect(b.close)]
MirrorLevels(v) ==
  [v EXCEPT !.side = IF @ = "LONG" THEN "SHORT" ELSE "LONG",
            !.stop = ReflectAll(@), !.target = ReflectAll(@), !.liquidation = ReflectAll(@),
            !.peak = Reflect(v.trough), !.trough = Reflect(v.peak)]
MirrorExit(E) == {[e EXCEPT !.level = Reflect(@), !.reference = Reflect(@)] : e \in E}

\* Where a price that moves tick by tick from one price down to another first meets a
\* level of a long, given the best price so far.
Fall(v, from, to, best) ==
  LET met == {p \in to..from : \E l \in Levels([v EXCEPT !.peak = best]) : p <= l[2]}
  IN IF met = {} THEN {} ELSE {Max(met)}
Then(A, B) == IF A # {} THEN A ELSE B
RallyFirst(v, b) ==
  Then(Fall(v, b.open, b.open, Max({v.peak, b.open})), Fall(v, b.high, b.low, Max({v.peak, b.high})))
OldExtremes(v, b) == Fall(v, b.open, b.low, v.peak)

\* The documented path: with same_bar_extreme the price rallies first (falls first, for a
\* short), and the exit is made whenever that path meets a level, never at a better price;
\* without, the levels of the bars before decide, exactly.  The target is taken only if no
\* level was met.  The path is written for a long; the code of a short is another branch at
\* every comparison, and must do on a bar what a long does on its reflection.
PathHonoured ==
  \A s \in seen :
    LET v == IF Long THEN s.levels ELSE MirrorLevels(s.levels)
        b == IF Long THEN s.bar ELSE MirrorBar(s.bar)
        made == Evaluated(s.levels, s.bar)
        e == IF Long THEN made ELSE MirrorExit(made)
        path == IF mode THEN RallyFirst(v, b) ELSE OldExtremes(v, b)
        stopped == {x \in e : x.reason # "take_profit"}
    IN /\ stopped # {} <=> path # {}
       /\ \A x \in stopped, p \in path : IF mode THEN x.reference <= p ELSE x.reference = p

==============================================================================
