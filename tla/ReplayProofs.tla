---------------------------- MODULE ReplayProofs ----------------------------
(***************************************************************************)
(* What is worked out of the bars a second time, for every series of bars,  *)
(* strategy and window: the replays of a strategy (Replay), the quality of  *)
(* a trade (TradeQuality) and the edge experiments (EdgeResearch).  They    *)
(* share no state, so each part stands by itself.                           *)
(*                                                                         *)
(* Two computations that must agree are related state by state: the shadow  *)
(* of a paper account with the account (LoopInv); the backtest with the     *)
(* paper loop, which settle a pending order at different moments, by the    *)
(* account as it is once the next open has settled it (AgreeInv).           *)
(***************************************************************************)
EXTENDS Replay, TradeQuality, EdgeResearch, ExtremaLemmas, FiniteSetTheorems, TLAPS

-----------------------------------------------------------------------------
(* Replay: the two accounts, side by side. *)

\* The types of an account.
Lot == [entry : Int, at : Nat, funding : Int]
Lots == SUBSET Lot
Reason == {"signal", "stop_loss", "liquidation", "end_of_data"}
Closing == [from : Nat, to : Nat, reason : Reason, net : Int]
Closings == Seq(Closing)
Order == {"none", "entry", "exit"}
Book ==
  [balance : Int, pos : Lots, pending : Order, dead : BOOLEAN, cooldown : Nat,
   count : Nat, debt : Int, trades : Closings]
Limits == [cap : Nat, days : SUBSET Nat, win : Nat, loss : Nat]
Bar == [open : Int, low : Int, close : Int, entry : BOOLEAN, exit : BOOLEAN]

\* What the two accounts have in common: all but the count of the day and the pending order.
Same(a, b) ==
  /\ a.balance = b.balance /\ a.pos = b.pos /\ a.dead = b.dead
  /\ a.cooldown = b.cooldown /\ a.debt = b.debt /\ a.trades = b.trades

\* The greater and the smaller of two integers are integers.
LEMMA PairBounds ==
  ASSUME NEW x \in Int, NEW y \in Int
  PROVE  Max({x, y}) \in Int /\ Min({x, y}) \in Int
  <1>1. \E m \in {x, y} : \A z \in {x, y} : m >= z
    OBVIOUS
  <1>2. \E m \in {x, y} : \A z \in {x, y} : m <= z
    OBVIOUS
  <1>3. Max({x, y}) \in {x, y}
    BY <1>1 DEF Max
  <1>4. Min({x, y}) \in {x, y}
    BY <1>2 DEF Min
  <1>. QED BY <1>3, <1>4

\* The rows of accounting, field by field: a balance booked, a position closed, entered and
\* funded, an order decided, the day's count, a death.
Settled(a, b, d) == [a EXCEPT !.balance = b, !.debt = d]
Shut(a, p, o, c, dead, s) ==
  [a EXCEPT !.pos = p, !.pending = o, !.cooldown = c, !.dead = dead, !.trades = s]
Bought(a, p, b, n, o) == [a EXCEPT !.pos = p, !.balance = b, !.count = n, !.pending = o]
Charged(a, b, p) == [a EXCEPT !.balance = b, !.pos = p]

IsSettled(x, a, b, d) ==
  /\ x \in Book /\ x.balance = b /\ x.debt = d /\ x.pos = a.pos /\ x.pending = a.pending
  /\ x.cooldown = a.cooldown /\ x.dead = a.dead /\ x.count = a.count /\ x.trades = a.trades

\* An entry that was settled is the account it says, field by field.
LEMMA SettledRow ==
  ASSUME NEW a \in Book, NEW b \in Int, NEW d \in Int
  PROVE  IsSettled(Settled(a, b, d), a, b, d)
  BY DEF Book, Settled, IsSettled

\* So is a position shut,
LEMMA ShutRow ==
  ASSUME NEW a \in Book, NEW p \in Lots, NEW o \in Order, NEW c \in Nat, NEW dead \in BOOLEAN,
         NEW s \in Closings
  PROVE  /\ Shut(a, p, o, c, dead, s) \in Book
         /\ Shut(a, p, o, c, dead, s).balance = a.balance /\ Shut(a, p, o, c, dead, s).debt = a.debt
         /\ Shut(a, p, o, c, dead, s).pos = p /\ Shut(a, p, o, c, dead, s).pending = o
         /\ Shut(a, p, o, c, dead, s).cooldown = c /\ Shut(a, p, o, c, dead, s).dead = dead
         /\ Shut(a, p, o, c, dead, s).count = a.count /\ Shut(a, p, o, c, dead, s).trades = s
  BY DEF Book, Shut

IsBought(x, a, p, b, n, o) ==
  /\ x \in Book /\ x.balance = b /\ x.debt = a.debt /\ x.pos = p /\ x.pending = o
  /\ x.cooldown = a.cooldown /\ x.dead = a.dead /\ x.count = n /\ x.trades = a.trades

\* a position bought,
LEMMA BoughtRow ==
  ASSUME NEW a \in Book, NEW p \in Lots, NEW b \in Int, NEW n \in Nat, NEW o \in Order
  PROVE  IsBought(Bought(a, p, b, n, o), a, p, b, n, o)
  BY DEF Book, Bought, IsBought

\* and a settlement charged.
LEMMA ChargedRow ==
  ASSUME NEW a \in Book, NEW p \in Lots, NEW b \in Int
  PROVE  /\ Charged(a, b, p) \in Book
         /\ Charged(a, b, p).balance = b /\ Charged(a, b, p).debt = a.debt
         /\ Charged(a, b, p).pos = p /\ Charged(a, b, p).pending = a.pending
         /\ Charged(a, b, p).cooldown = a.cooldown /\ Charged(a, b, p).dead = a.dead
         /\ Charged(a, b, p).count = a.count /\ Charged(a, b, p).trades = a.trades
  BY DEF Book, Charged

\* The day's count, the order and the death touch nothing else.
LEMMA RolledRow ==
  ASSUME NEW a \in Book, NEW i
  PROVE  /\ Rolled(a, i) \in Book /\ Same(Rolled(a, i), a) /\ Rolled(a, i).pending = a.pending
         /\ Rolled(a, i).count = IF i \in regime.days THEN 0 ELSE a.count
  <1>. DEFINE x == [a EXCEPT !.count = 0]
  <1>1. x \in Book /\ Same(x, a) /\ x.pending = a.pending /\ x.count = 0
    BY DEF Book, Same
  <1>. QED BY <1>1 DEF Rolled, Same

\* A decision sets the pending order and nothing else.
LEMMA DecidedRow ==
  ASSUME NEW a \in Book, NEW i, NEW bar
  PROVE  /\ Decided(a, i, bar) \in Book /\ Same(Decided(a, i, bar), a)
         /\ Decided(a, i, bar).count = a.count
         /\ Decided(a, i, bar).pending =
              CASE a.pos # {} /\ bar.exit -> "exit"
                [] a.pos = {} /\ bar.entry /\ MayEnter(a, i) -> "entry"
                [] OTHER -> "none"
  <1>. DEFINE order == CASE a.pos # {} /\ bar.exit -> "exit"
                         [] a.pos = {} /\ bar.entry /\ MayEnter(a, i) -> "entry"
                         [] OTHER -> "none"
  <1>1. order \in Order
    BY DEF Order
  <1>2. Decided(a, i, bar) = [a EXCEPT !.pending = order]
    BY DEF Decided
  <1>. HIDE DEF order
  <1>3. /\ [a EXCEPT !.pending = order] \in Book /\ Same([a EXCEPT !.pending = order], a)
        /\ [a EXCEPT !.pending = order].count = a.count /\ [a EXCEPT !.pending = order].pending = order
    BY <1>1 DEF Book, Same
  <1>. QED BY <1>2, <1>3 DEF order

\* The sweep only ever finds an account dead that is flat, without an order and not viable.
LEMMA SweptRow ==
  ASSUME NEW a \in Book
  PROVE  /\ Swept(a) \in Book /\ Swept(a).count = a.count /\ Swept(a).pending = a.pending
         /\ Swept(a).pos = a.pos /\ Swept(a).trades = a.trades /\ Swept(a).balance = a.balance
         /\ a.pos = {} /\ a.pending = "none" /\ a.balance < MinViable => Swept(a).dead
         /\ ~ (a.pos = {} /\ a.pending = "none" /\ a.balance < MinViable) => Swept(a) = a
  <1>. DEFINE x == [a EXCEPT !.dead = TRUE]
  <1>1. /\ x \in Book /\ x.count = a.count /\ x.pending = a.pending /\ x.pos = a.pos
        /\ x.trades = a.trades /\ x.balance = a.balance /\ x.dead = TRUE
    BY DEF Book
  <1>. QED BY <1>1 DEF Swept

\* The position of an account that has one.
LEMMA PositionIs ==
  ASSUME NEW a \in Book, a.pos # {}
  PROVE  (CHOOSE x \in a.pos : TRUE) \in Lot
  BY DEF Book, Lots

\* settle_close: what is left of the account, a function of what the two have in common.
IsClosed(x, a, price, reason, at) ==
  LET p == CHOOSE y \in a.pos : TRUE
      fee == Fee + IF reason = "liquidation" THEN Penalty ELSE 0
      net == price - p.entry - Fee - fee - p.funding
      raw == a.balance + price - p.entry - fee
  IN /\ x \in Book /\ x.pos = {} /\ x.pending = "none" /\ x.count = a.count
     /\ x.balance = Max({raw, 0}) /\ x.debt = a.debt + Max({-raw, 0})
     /\ x.cooldown = IF CooldownBars(net) > 0 THEN at + CooldownBars(net) ELSE a.cooldown
     /\ x.dead <=> (reason = "liquidation" \/ Max({raw, 0}) <= 0)
     /\ x.trades = Append(a.trades, [from |-> p.at, to |-> at, reason |-> reason, net |-> net])

\* Closed, whatever the balance comes to.
LEMMA ClosedRow ==
  ASSUME ReplayAssumption, regime \in Limits, NEW a \in Book, a.pos # {},
         NEW price \in Int, NEW reason \in Reason, NEW at \in Nat
  PROVE  IsClosed(Closed(a, price, reason, at), a, price, reason, at)
  <1>. DEFINE p == CHOOSE y \in a.pos : TRUE
              fee == Fee + IF reason = "liquidation" THEN Penalty ELSE 0
              net == price - p.entry - Fee - fee - p.funding
              raw == a.balance + price - p.entry - fee
              b == Booked(a, raw)
              bars == CooldownBars(net)
              cool == IF bars > 0 THEN at + bars ELSE b.cooldown
              dead == reason = "liquidation" \/ b.balance <= 0
              t == [from |-> p.at, to |-> at, reason |-> reason, net |-> net]
              s == Append(b.trades, t)
  <1>1. p \in Lot
    BY PositionIs
  <1>2. fee \in Int /\ Fee \in Int
    BY DEF ReplayAssumption
  <1>3. p.entry \in Int /\ p.at \in Nat /\ p.funding \in Int /\ a.balance \in Int /\ a.debt \in Int
    BY <1>1 DEF Lot, Book
  <1>4. net \in Int /\ raw \in Int /\ -raw \in Int
    BY <1>2, <1>3
  <1>. HIDE DEF p, fee, net, raw
  <1>5. Max({raw, 0}) \in Int /\ Max({-raw, 0}) \in Int
    BY <1>4, PairBounds
  <1>6. b = Settled(a, Max({raw, 0}), a.debt + Max({-raw, 0}))
    BY DEF Booked, Settled
  <1>7. /\ b \in Book /\ b.balance = Max({raw, 0}) /\ b.debt = a.debt + Max({-raw, 0})
        /\ b.cooldown = a.cooldown /\ b.count = a.count /\ b.trades = a.trades
    <2>. DEFINE m == Max({raw, 0})
                d == a.debt + Max({-raw, 0})
    <2>1. m \in Int /\ d \in Int /\ b = Settled(a, m, d)
      BY <1>3, <1>5, <1>6
    <2>. HIDE DEF m, d, b
    <2>2. IsSettled(b, a, m, d)
      BY <2>1, SettledRow
    <2>. QED BY <2>2 DEF IsSettled, m, d
  <1>. HIDE DEF b
  <1>8. bars \in Nat
    BY <1>4 DEF CooldownBars, Limits
  <1>. HIDE DEF bars
  <1>9. cool \in Nat /\ dead \in BOOLEAN
    BY <1>7, <1>8 DEF Book
  <1>10. s \in Closings
    <2>1. t \in Closing
      BY <1>3, <1>4 DEF Closing
    <2>2. b.trades \in Seq(Closing)
      BY <1>7 DEF Book, Closings
    <2>. QED BY <2>1, <2>2 DEF Closings
  <1>11. Closed(a, price, reason, at) = Shut(b, {}, "none", cool, dead, s)
    BY DEF Closed, Shut, b, p, fee, net, raw, bars
  <1>12. {} \in Lots /\ "none" \in Order
    BY DEF Lots, Order
  <1>. HIDE DEF cool, dead, t, s
  <1>13. LET x == Closed(a, price, reason, at)
         IN /\ x \in Book /\ x.pos = {} /\ x.pending = "none" /\ x.count = b.count
            /\ x.balance = b.balance /\ x.debt = b.debt /\ x.cooldown = cool /\ x.dead = dead /\ x.trades = s
    BY <1>7, <1>9, <1>10, <1>11, <1>12, ShutRow
  <1>. QED BY <1>7, <1>13 DEF IsClosed, cool, dead, t, s, bars, net, raw, fee, p

\* A position of two accounts that are the same is closed with the same result.
LEMMA ClosedSame ==
  ASSUME ReplayAssumption, regime \in Limits, NEW a \in Book, NEW b \in Book, Same(a, b), a.pos # {},
         NEW price \in Int, NEW reason \in Reason, NEW at \in Nat
  PROVE  Same(Closed(a, price, reason, at), Closed(b, price, reason, at))
  <1>1. ASSUME NEW x, NEW y, IsClosed(x, a, price, reason, at), IsClosed(y, b, price, reason, at)
        PROVE  Same(x, y)
    <2>1. /\ a.balance = b.balance /\ a.pos = b.pos /\ a.cooldown = b.cooldown
          /\ a.debt = b.debt /\ a.trades = b.trades
      BY DEF Same
    <2>2. (x.dead <=> y.dead) /\ x.dead \in BOOLEAN /\ y.dead \in BOOLEAN
      BY <1>1, <2>1 DEF IsClosed, Book
    <2>3. x.pos = y.pos /\ x.balance = y.balance /\ x.debt = y.debt
      BY <1>1, <2>1 DEF IsClosed
    <2>4. x.cooldown = y.cooldown /\ x.trades = y.trades
      BY <1>1, <2>1 DEF IsClosed
    <2>. QED BY <2>2, <2>3, <2>4 DEF Same
  <1>2. b.pos # {}
    BY DEF Same
  <1>3. /\ IsClosed(Closed(a, price, reason, at), a, price, reason, at)
        /\ IsClosed(Closed(b, price, reason, at), b, price, reason, at)
    BY <1>2, ClosedRow
  <1>. QED BY <1>1, <1>3

\* _fill_entry.
IsEntered(x, a, price, at) ==
  /\ x \in Book /\ x.pos = {[entry |-> price, at |-> at, funding |-> 0]}
  /\ x.balance = a.balance - Fee /\ x.count = a.count + 1 /\ x.pending = "none"
  /\ x.dead = a.dead /\ x.cooldown = a.cooldown /\ x.debt = a.debt /\ x.trades = a.trades

\* Entered, with the entry counted.
LEMMA EnteredRow ==
  ASSUME ReplayAssumption, NEW a \in Book, NEW price \in Int, NEW at \in Nat
  PROVE  IsEntered(Entered(a, price, at), a, price, at)
  <1>. DEFINE p == {[entry |-> price, at |-> at, funding |-> 0]}
              b == a.balance - Fee
              n == a.count + 1
              o == "none"
  <1>1. p \in Lots /\ b \in Int /\ n \in Nat /\ o \in Order
    BY DEF ReplayAssumption, Book, Lots, Lot, Order
  <1>2. Entered(a, price, at) = Bought(a, p, b, n, o)
    BY DEF Entered, Bought
  <1>. HIDE DEF p, b, n, o
  <1>3. IsBought(Entered(a, price, at), a, p, b, n, o)
    BY <1>1, <1>2, BoughtRow
  <1>. QED BY <1>3 DEF IsBought, IsEntered, p, b, n, o

\* The same account enters the same way.
LEMMA EnteredSame ==
  ASSUME ReplayAssumption, NEW a \in Book, NEW b \in Book, Same(a, b), NEW price \in Int, NEW at \in Nat
  PROVE  Same(Entered(a, price, at), Entered(b, price, at))
  <1>1. IsEntered(Entered(a, price, at), a, price, at) /\ IsEntered(Entered(b, price, at), b, price, at)
    BY EnteredRow
  <1>2. ASSUME NEW x, NEW y, IsEntered(x, a, price, at), IsEntered(y, b, price, at) PROVE Same(x, y)
    BY <1>2 DEF IsEntered, Same
  <1>. QED BY <1>1, <1>2

\* The settlements of a bar.
IsFunded(x, a, i) ==
  /\ x \in Book /\ (x.pos = {} <=> a.pos = {})
  /\ x.count = a.count /\ x.pending = a.pending /\ x.dead = a.dead
  /\ x.cooldown = a.cooldown /\ x.debt = a.debt /\ x.trades = a.trades
  /\ x.balance = IF i \in Settlements THEN a.balance - 1 ELSE a.balance
  /\ x.pos = IF i \in Settlements THEN {[p EXCEPT !.funding = @ + 1] : p \in a.pos} ELSE a.pos

\* A settlement of the funding, if there is one at bar i.
LEMMA FundedRow ==
  ASSUME NEW a \in Book, NEW i
  PROVE  IsFunded(Funded(a, i), a, i)
  <1>1. CASE i \notin Settlements
    BY <1>1 DEF Funded, IsFunded
  <1>2. CASE i \in Settlements
    <2>. DEFINE P == {[p EXCEPT !.funding = @ + 1] : p \in a.pos}
                b == a.balance - 1
    <2>1. b \in Int
      BY DEF Book
    <2>2. P \in Lots /\ (P = {} <=> a.pos = {})
      <3>1. ASSUME NEW p \in a.pos PROVE [p EXCEPT !.funding = @ + 1] \in Lot
        <4>1. p \in Lot
          BY DEF Book, Lots
        <4>. QED BY <4>1 DEF Lot
      <3>. QED BY <3>1 DEF Lots
    <2>3. Funded(a, i) = Charged(a, b, P)
      BY <1>2 DEF Funded, Charged
    <2>. HIDE DEF P, b
    <2>4. /\ Charged(a, b, P) \in Book
          /\ Charged(a, b, P).balance = b /\ Charged(a, b, P).debt = a.debt
          /\ Charged(a, b, P).pos = P /\ Charged(a, b, P).pending = a.pending
          /\ Charged(a, b, P).cooldown = a.cooldown /\ Charged(a, b, P).dead = a.dead
          /\ Charged(a, b, P).count = a.count /\ Charged(a, b, P).trades = a.trades
      BY <2>1, <2>2, ChargedRow
    <2>. QED BY <1>2, <2>2, <2>3, <2>4 DEF IsFunded, P, b
  <1>. QED BY <1>1, <1>2

\* A bar with a position: what it leaves, and the same for the same account.
LEMMA ManagedRow ==
  ASSUME ReplayAssumption, regime \in Limits, NEW a \in Book, a.pos # {}, NEW i \in Nat, NEW bar \in Bar
  PROVE  LET x == Managed(a, i, bar)
         IN /\ x \in Book /\ x.count = a.count
            /\ x.pos = {} => x.pending = "none"
            /\ x.pos # {} => x.dead = a.dead /\ x.pending = a.pending /\ x.trades = a.trades
  <1>. DEFINE b == Funded(a, i)
              p == CHOOSE x \in b.pos : TRUE
              level == Max({p.entry - Stop, Liquidation(b, p)})
              price == Min({bar.open, level})
              reason == IF Liquidation(b, p) = level THEN "liquidation" ELSE "stop_loss"
  <1>1. /\ b \in Book /\ b.pos # {} /\ b.count = a.count /\ b.pending = a.pending
        /\ b.dead = a.dead /\ b.trades = a.trades
    BY FundedRow DEF IsFunded
  <1>2. p \in Lot
    BY <1>1, PositionIs
  <1>3. Liquidation(b, p) \in Int /\ p.entry - Stop \in Int /\ bar.open \in Int
    BY <1>1, <1>2 DEF Liquidation, Book, Lot, Bar, ReplayAssumption
  <1>4. level \in Int
    BY <1>3, PairBounds
  <1>5. price \in Int /\ reason \in Reason
    BY <1>3, <1>4, PairBounds DEF Reason
  <1>6. Managed(a, i, bar) = IF bar.low <= level THEN Closed(b, price, reason, i) ELSE b
    BY DEF Managed
  <1>. HIDE DEF b, p, level, price, reason
  <1>7. ASSUME NEW q \in Int, NEW w \in Reason
        PROVE  /\ Closed(b, q, w, i) \in Book /\ Closed(b, q, w, i).pos = {}
               /\ Closed(b, q, w, i).pending = "none" /\ Closed(b, q, w, i).count = b.count
    <2>1. IsClosed(Closed(b, q, w, i), b, q, w, i)
      BY <1>1, ClosedRow
    <2>. QED BY <2>1 DEF IsClosed
  <1>. QED BY <1>1, <1>5, <1>6, <1>7

\* The same position is managed the same way.
LEMMA ManagedSame ==
  ASSUME ReplayAssumption, regime \in Limits, NEW a \in Book, NEW d \in Book, Same(a, d), a.pos # {},
         NEW i \in Nat, NEW bar \in Bar
  PROVE  Same(Managed(a, i, bar), Managed(d, i, bar))
  <1>. DEFINE b == Funded(a, i)
              e == Funded(d, i)
  <1>1. /\ b \in Book /\ e \in Book /\ Same(b, e) /\ b.pos # {} /\ e.pos = b.pos
    <2>1. IsFunded(b, a, i) /\ IsFunded(e, d, i)
      BY FundedRow
    <2>. HIDE DEF b, e
    <2>. QED BY <2>1 DEF IsFunded, Same
  <1>. DEFINE p == CHOOSE x \in b.pos : TRUE
              level == Max({p.entry - Stop, Liquidation(b, p)})
              price == Min({bar.open, level})
              reason == IF Liquidation(b, p) = level THEN "liquidation" ELSE "stop_loss"
  <1>2. p \in Lot
    BY <1>1, PositionIs
  <1>3. Liquidation(b, p) \in Int /\ p.entry - Stop \in Int /\ bar.open \in Int
    BY <1>1, <1>2 DEF Liquidation, Book, Lot, Bar, ReplayAssumption
  <1>4. level \in Int
    BY <1>3, PairBounds
  <1>5. price \in Int /\ reason \in Reason
    BY <1>3, <1>4, PairBounds DEF Reason
  <1>6. Liquidation(e, p) = Liquidation(b, p)
    BY <1>1 DEF Liquidation, Same
  <1>7. Managed(a, i, bar) = IF bar.low <= level THEN Closed(b, price, reason, i) ELSE b
    BY DEF Managed
  <1>8. Managed(d, i, bar) = IF bar.low <= level THEN Closed(e, price, reason, i) ELSE e
    <2>. DEFINE q == CHOOSE x \in e.pos : TRUE
                own == Max({q.entry - Stop, Liquidation(e, q)})
    <2>1. q = p
      BY <1>1
    <2>2. Managed(d, i, bar) = IF bar.low <= own
                               THEN Closed(e, Min({bar.open, own}),
                                           IF Liquidation(e, q) = own THEN "liquidation" ELSE "stop_loss", i)
                               ELSE e
      BY DEF Managed
    <2>3. own = level /\ Liquidation(e, q) = Liquidation(b, p)
      <3>. HIDE DEF b, p, e, q
      <3>. QED BY <1>6, <2>1
    <2>. HIDE DEF b, p, e, q, own, level
    <2>. QED BY <2>2, <2>3
  <1>. HIDE DEF b, e, p, level, price, reason
  <1>9. ASSUME NEW q \in Int, NEW w \in Reason PROVE Same(Closed(b, q, w, i), Closed(e, q, w, i))
    BY <1>1, ClosedSame
  <1>. QED BY <1>1, <1>5, <1>7, <1>8, <1>9

\* An account of the loop: at most one position, an exit waits for the one it has, an
\* entry for none, and a dead account has neither.
Whole(a) ==
  /\ a \in Book
  /\ \A p, q \in a.pos : p = q
  /\ a.pending = "exit" => a.pos # {}
  /\ a.pending = "entry" => a.pos = {}
  /\ a.dead => a.pending = "none" /\ a.pos = {}

\* The next open settles what was pending.
IsExecuted(x, a, i, price) ==
  /\ Whole(x) /\ x.pending = "none" /\ x.count <= a.count + 1
  /\ a.pending = "none" => x = a
  /\ a.pending = "entry" => IsEntered(x, a, price, i)
  /\ a.pending = "exit" => IsClosed(x, a, price, "signal", i)

\* What the open makes of the pending order.
LEMMA ExecutedRow ==
  ASSUME ReplayAssumption, regime \in Limits, NEW a, Whole(a), ~a.dead, NEW i \in Nat, NEW price \in Int
  PROVE  IsExecuted(Executed(a, i, price), a, i, price)
  <1>1. a \in Book /\ a.count \in Nat /\ a.pending \in {"none", "entry", "exit"}
    BY DEF Whole, Book, Order
  <1>2. CASE a.pending = "none"
    <2>1. Executed(a, i, price) = a
      BY <1>2 DEF Executed
    <2>. QED BY <1>1, <1>2, <2>1 DEF IsExecuted
  <1>3. CASE a.pending = "entry"
    <2>1. Executed(a, i, price) = Entered(a, price, i)
      BY <1>3 DEF Executed
    <2>2. IsEntered(Entered(a, price, i), a, price, i)
      BY <1>1, EnteredRow
    <2>. QED BY <1>1, <1>3, <2>1, <2>2 DEF IsEntered, Whole, IsExecuted
  <1>4. CASE a.pending = "exit"
    <2>1. Executed(a, i, price) = Closed(a, price, "signal", i)
      BY <1>4 DEF Executed
    <2>2. a.pos # {} /\ "signal" \in Reason
      BY <1>4 DEF Whole, Reason
    <2>3. IsClosed(Closed(a, price, "signal", i), a, price, "signal", i)
      BY <1>1, <2>2, ClosedRow
    <2>4. ASSUME NEW x, IsClosed(x, a, price, "signal", i)
          PROVE  Whole(x) /\ x.pending = "none" /\ x.count <= a.count + 1
      <3>1. x \in Book /\ x.pos = {} /\ x.pending = "none" /\ x.count = a.count
        BY <2>4 DEF IsClosed
      <3>. QED BY <1>1, <3>1 DEF Whole
    <2>. QED BY <1>4, <2>1, <2>3, <2>4 DEF IsExecuted
  <1>. QED BY <1>1, <1>2, <1>3, <1>4

\* The day's count is nothing to what is pending.
LEMMA ExecutedSame ==
  ASSUME ReplayAssumption, regime \in Limits, NEW a, NEW b, Whole(a), Whole(b), Same(a, b),
         a.pending = b.pending, NEW i \in Nat, NEW price \in Int
  PROVE  Same(Executed(a, i, price), Executed(b, i, price))
  <1>1. a \in Book /\ b \in Book /\ a.pending \in {"none", "entry", "exit"}
    BY DEF Whole, Book, Order
  <1>2. CASE a.pending = "none"
    BY <1>2 DEF Executed
  <1>3. CASE a.pending = "entry"
    <2>1. Executed(a, i, price) = Entered(a, price, i) /\ Executed(b, i, price) = Entered(b, price, i)
      BY <1>3 DEF Executed
    <2>. QED BY <1>1, <2>1, EnteredSame
  <1>4. CASE a.pending = "exit"
    <2>1. /\ Executed(a, i, price) = Closed(a, price, "signal", i)
          /\ Executed(b, i, price) = Closed(b, price, "signal", i)
      BY <1>4 DEF Executed
    <2>2. a.pos # {} /\ "signal" \in Reason
      BY <1>4 DEF Whole, Reason
    <2>. QED BY <1>1, <2>1, <2>2, ClosedSame
  <1>. QED BY <1>1, <1>2, <1>3, <1>4

\* A bar leaves at most the one position.
LEMMA ManagedOne ==
  ASSUME ReplayAssumption, regime \in Limits, NEW a \in Book, a.pos # {}, \A p, q \in a.pos : p = q,
         NEW i \in Nat, NEW bar \in Bar
  PROVE  \A p, q \in Managed(a, i, bar).pos : p = q
  <1>. DEFINE b == Funded(a, i)
  <1>1. IsFunded(b, a, i)
    BY FundedRow
  <1>2. b \in Book /\ b.pos # {} /\ \A p, q \in b.pos : p = q
    BY <1>1 DEF IsFunded
  <1>. DEFINE p == CHOOSE x \in b.pos : TRUE
              level == Max({p.entry - Stop, Liquidation(b, p)})
              price == Min({bar.open, level})
              reason == IF Liquidation(b, p) = level THEN "liquidation" ELSE "stop_loss"
  <1>3. p \in Lot
    BY <1>2, PositionIs
  <1>4. Liquidation(b, p) \in Int /\ p.entry - Stop \in Int /\ bar.open \in Int
    BY <1>2, <1>3 DEF Liquidation, Book, Lot, Bar, ReplayAssumption
  <1>5. level \in Int
    BY <1>4, PairBounds
  <1>6. price \in Int /\ reason \in Reason
    BY <1>4, <1>5, PairBounds DEF Reason
  <1>7. Managed(a, i, bar) = Closed(b, price, reason, i) \/ Managed(a, i, bar) = b
    BY DEF Managed
  <1>. HIDE DEF b, p, level, price, reason
  <1>8. ASSUME NEW q \in Int, NEW w \in Reason PROVE Closed(b, q, w, i).pos = {}
    <2>1. IsClosed(Closed(b, q, w, i), b, q, w, i)
      BY <1>2, ClosedRow
    <2>. QED BY <2>1 DEF IsClosed
  <1>. QED BY <1>2, <1>6, <1>7, <1>8

\* What the roll of a day leaves of an account of the loop.
LEMMA RolledWhole ==
  ASSUME NEW a, Whole(a), NEW i
  PROVE  Whole(Rolled(a, i)) /\ Rolled(a, i).count <= a.count
  <1>1. a \in Book /\ a.count \in Nat
    BY DEF Whole, Book
  <1>2. /\ Rolled(a, i) \in Book /\ Same(Rolled(a, i), a) /\ Rolled(a, i).pending = a.pending
        /\ Rolled(a, i).count = IF i \in regime.days THEN 0 ELSE a.count
    BY <1>1, RolledRow
  <1>. QED BY <1>1, <1>2 DEF Whole, Same

\* A position survived the bar, or did not: the account afterwards.
LEMMA ManagedWhole ==
  ASSUME ReplayAssumption, regime \in Limits, NEW a, Whole(a), a.pending = "none", a.pos # {},
         NEW i \in Nat, NEW bar \in Bar
  PROVE  LET x == Managed(a, i, bar)
         IN /\ Whole(x) /\ x.pending = "none" /\ x.count = a.count
            /\ x.pos # {} => ~x.dead /\ x.trades = a.trades
  <1>1. a \in Book /\ ~a.dead /\ \A p, q \in a.pos : p = q
    BY DEF Whole
  <1>. DEFINE x == Managed(a, i, bar)
  <1>2. /\ x \in Book /\ x.count = a.count /\ (x.pos = {} => x.pending = "none")
        /\ (x.pos # {} => x.dead = a.dead /\ x.pending = a.pending /\ x.trades = a.trades)
    BY <1>1, ManagedRow
  <1>3. \A p, q \in x.pos : p = q
    BY <1>1, ManagedOne
  <1>. HIDE DEF x
  <1>4. x.pending = "none"
    BY <1>2
  <1>5. x.dead => x.pos = {}
    BY <1>1, <1>2
  <1>6. Whole(x)
    BY <1>2, <1>3, <1>4, <1>5 DEF Whole
  <1>. QED BY <1>1, <1>2, <1>4, <1>6 DEF x

\* The bar of the loop, its four ways out: dead before it, closed on it, dead of the exit at
\* its open, decided at its close.
LEMMA PaperWays ==
  ASSUME NEW a, NEW i, NEW bar
  PROVE  LET b == Executed(Rolled(a, i), i, bar.open)
             c == IF b.pos = {} THEN b ELSE Managed(b, i, bar)
         IN /\ a.dead => PaperBar(a, i, bar) = a
            /\ ~a.dead /\ b.pos # {} /\ c.pos = {} => PaperBar(a, i, bar) = Swept(c)
            /\ ~a.dead /\ b.pos = {} /\ b.dead => PaperBar(a, i, bar) = b
            /\ ~a.dead /\ ~ (b.pos # {} /\ c.pos = {}) /\ ~ (b.pos = {} /\ b.dead) =>
                 PaperBar(a, i, bar) = Swept(Decided(c, i, bar))
  <1>. DEFINE b == Executed(Rolled(a, i), i, bar.open)
              c == IF b.pos = {} THEN b ELSE Managed(b, i, bar)
              x == PaperBar(a, i, bar)
              s == Swept(c)
              d == Swept(Decided(c, i, bar))
  <1>1. x = CASE a.dead -> a
              [] ~a.dead /\ b.pos # {} /\ c.pos = {} -> s
              [] ~a.dead /\ b.pos = {} /\ b.dead -> b
              [] OTHER -> d
    BY DEF PaperBar
  <1>. HIDE DEF b, c, x, s, d
  <1>2. a.dead => x = a
    BY <1>1
  <1>3. ~a.dead /\ b.pos # {} /\ c.pos = {} => x = s
    BY <1>1
  <1>4. ~a.dead /\ b.pos = {} /\ b.dead => x = b
    BY <1>1
  <1>5. ~a.dead /\ ~ (b.pos # {} /\ c.pos = {}) /\ ~ (b.pos = {} /\ b.dead) => x = d
    BY <1>1
  <1>. QED BY <1>2, <1>3, <1>4, <1>5 DEF b, c, x, s, d

\* The ways a bar ends for a living account, from its open (b) and its levels (c).
IsPaperBar(x, b, c, i, bar) ==
  /\ b.pos # {} /\ c.pos = {} => x = Swept(c)
  /\ b.pos = {} /\ b.dead => x = b
  /\ ~ (b.pos # {} /\ c.pos = {}) /\ ~ (b.pos = {} /\ b.dead) => x = Swept(Decided(c, i, bar))

LEMMA PaperLives ==
  ASSUME NEW a, NEW i, NEW bar, ~a.dead
  PROVE  LET b == Executed(Rolled(a, i), i, bar.open)
             c == IF b.pos = {} THEN b ELSE Managed(b, i, bar)
         IN IsPaperBar(PaperBar(a, i, bar), b, c, i, bar)
  <1>. DEFINE b == Executed(Rolled(a, i), i, bar.open)
              c == IF b.pos = {} THEN b ELSE Managed(b, i, bar)
              x == PaperBar(a, i, bar)
  <1>1. b.pos # {} /\ c.pos = {} => x = Swept(c)
    BY PaperWays
  <1>2. b.pos = {} /\ b.dead => x = b
    BY PaperWays
  <1>3. ~ (b.pos # {} /\ c.pos = {}) /\ ~ (b.pos = {} /\ b.dead) => x = Swept(Decided(c, i, bar))
    BY PaperWays
  <1>. HIDE DEF b, c, x
  <1>4. IsPaperBar(x, b, c, i, bar)
    BY <1>1, <1>2, <1>3 DEF IsPaperBar
  <1>. QED BY <1>4 DEF b, c, x

\* The account in the middle of a bar: after the open (b), and after the levels (c).
IsMiddle(b, c, a, i) ==
  /\ Whole(b) /\ b.pending = "none" /\ b.count <= a.count + 1
  /\ Whole(c) /\ c.pending = "none" /\ c.count = b.count
  /\ c.pos # {} => ~c.dead
  /\ a.pending = "none" => b = Rolled(a, i)
  /\ a.pending = "entry" => b.pos # {} /\ ~b.dead
  /\ a.pending = "exit" => b.pos = {} /\ \E t \in Trades(b) : t.to = i /\ t.reason = "signal"

\* The paper account between the open of a bar and its decision.
LEMMA PaperMiddle ==
  ASSUME ReplayAssumption, regime \in Limits, NEW a, Whole(a), ~a.dead, NEW i \in Nat, NEW bar \in Bar,
         NEW b, b = Executed(Rolled(a, i), i, bar.open),
         NEW c, c = IF b.pos = {} THEN b ELSE Managed(b, i, bar)
  PROVE  IsMiddle(b, c, a, i)
  <1>. DEFINE r == Rolled(a, i)
  <1>1. a \in Book /\ a.count \in Nat /\ bar.open \in Int
    BY DEF Whole, Book, Bar
  <1>2. Whole(r) /\ r.count <= a.count /\ r \in Book /\ Same(r, a) /\ r.pending = a.pending
    BY <1>1, RolledRow, RolledWhole
  <1>3. ~r.dead /\ r.count \in Nat /\ r.trades \in Seq(Closing)
    BY <1>2 DEF Same, Book, Closings
  <1>. HIDE DEF r
  <1>4. b = Executed(r, i, bar.open)
    BY DEF r
  <1>5. /\ Whole(b) /\ b.pending = "none" /\ b.count <= r.count + 1
        /\ (r.pending = "none" => b = r)
        /\ (r.pending = "entry" => IsEntered(b, r, bar.open, i))
        /\ (r.pending = "exit" => IsClosed(b, r, bar.open, "signal", i))
    <2>1. IsExecuted(b, r, i, bar.open)
      BY <1>1, <1>2, <1>3, <1>4, ExecutedRow
    <2>. QED BY <2>1 DEF IsExecuted
  <1>6. b \in Book /\ b.count \in Nat
    BY <1>5 DEF Whole, Book
  <1>7. a.pending = "entry" => b.pos # {} /\ ~b.dead
    BY <1>2, <1>3, <1>5 DEF IsEntered
  <1>8. ASSUME a.pending = "exit"
        PROVE  b.pos = {} /\ \E t \in Trades(b) : t.to = i /\ t.reason = "signal"
    <2>1. IsClosed(b, r, bar.open, "signal", i)
      BY <1>2, <1>5, <1>8
    <2>2. b.pos = {} /\ \E n : b.trades =
            Append(r.trades, [from |-> (CHOOSE y \in r.pos : TRUE).at, to |-> i, reason |-> "signal", net |-> n])
      BY <2>1 DEF IsClosed
    <2>3. PICK f, n : b.trades = Append(r.trades, [from |-> f, to |-> i, reason |-> "signal", net |-> n])
      BY <2>2
    <2>. DEFINE t == [from |-> f, to |-> i, reason |-> "signal", net |-> n]
    <2>4. t.to = i /\ t.reason = "signal"
      OBVIOUS
    <2>. HIDE DEF t
    <2>5. b.trades = Append(r.trades, t)
      BY <2>3 DEF t
    <2>6. Len(r.trades) + 1 \in 1..Len(b.trades) /\ b.trades[Len(r.trades) + 1] = t
      BY <1>3, <2>5
    <2>7. t \in Trades(b)
      BY <2>6 DEF Trades
    <2>. QED BY <2>2, <2>4, <2>7
  <1>9. Whole(c) /\ c.pending = "none" /\ c.count = b.count /\ (c.pos # {} => ~c.dead)
    <2>1. CASE b.pos = {}
      BY <1>5, <2>1
    <2>2. CASE b.pos # {}
      BY <1>5, <2>2, ManagedWhole
    <2>. QED BY <2>1, <2>2
  <1>10. b.count <= a.count + 1
    BY <1>1, <1>2, <1>3, <1>5, <1>6
  <1>11. a.pending = "none" => b = r
    BY <1>2, <1>5
  <1>. QED BY <1>5, <1>7, <1>8, <1>9, <1>10, <1>11 DEF r, IsMiddle

\* What is decided at the close.
LEMMA DecidedWhole ==
  ASSUME NEW a, Whole(a), ~a.dead, NEW i, NEW bar
  PROVE  Whole(Decided(a, i, bar))
  <1>1. a \in Book
    BY DEF Whole
  <1>2. /\ Decided(a, i, bar) \in Book /\ Same(Decided(a, i, bar), a)
        /\ Decided(a, i, bar).pending =
              CASE a.pos # {} /\ bar.exit -> "exit"
                [] a.pos = {} /\ bar.entry /\ MayEnter(a, i) -> "entry"
                [] OTHER -> "none"
    BY <1>1, DecidedRow
  <1>. QED BY <1>2 DEF Whole, Same

\* The sweep keeps an account whole.
LEMMA SweptWhole ==
  ASSUME NEW a, Whole(a)
  PROVE  Whole(Swept(a))
  <1>1. a \in Book
    BY DEF Whole
  <1>2. /\ Swept(a) \in Book /\ Swept(a).pending = a.pending /\ Swept(a).pos = a.pos
        /\ a.pos = {} /\ a.pending = "none" /\ a.balance < MinViable => Swept(a).dead
        /\ ~ (a.pos = {} /\ a.pending = "none" /\ a.balance < MinViable) => Swept(a) = a
    BY <1>1, SweptRow
  <1>3. CASE a.pos = {} /\ a.pending = "none" /\ a.balance < MinViable
    BY <1>2, <1>3 DEF Whole
  <1>. QED BY <1>2, <1>3

\* The bar of the loop and what the shadow said of it.
IsBar(x, would, a, i) ==
  /\ Whole(x) /\ x.count <= a.count + 1
  /\ would => x.pending = "entry"
  /\ x.pending = "entry" => would \/ \E t \in Trades(x) : t.to = i /\ t.reason = "signal"

\* One bar of the paper account and what the shadow is told of it.
LEMMA ShadowStep ==
  ASSUME ReplayAssumption, regime \in Limits, NEW a, Whole(a), NEW i \in Nat, NEW bar \in Bar
  PROVE  IsBar(PaperBar(a, i, bar), WouldTrade(a, i, bar), a, i)
  <1>. DEFINE b == Executed(Rolled(a, i), i, bar.open)
              c == IF b.pos = {} THEN b ELSE Managed(b, i, bar)
              x == PaperBar(a, i, bar)
              would == WouldTrade(a, i, bar)
  <1>1. a \in Book /\ a.count \in Nat /\ a.pending \in {"none", "entry", "exit"}
    BY DEF Whole, Book, Order
  <1>2. CASE a.dead
    <2>1. x = a
      BY <1>2, PaperWays
    <2>2. a.pending = "none" /\ ~would
      BY <1>2 DEF Whole, WouldTrade
    <2>. HIDE DEF x, would, IsBar
    <2>. QED BY <1>1, <2>1, <2>2 DEF x, would, IsBar
  <1>3. CASE ~a.dead
    <2>1. /\ b.pos # {} /\ c.pos = {} => x = Swept(c)
          /\ b.pos = {} /\ b.dead => x = b
          /\ ~ (b.pos # {} /\ c.pos = {}) /\ ~ (b.pos = {} /\ b.dead) => x = Swept(Decided(c, i, bar))
      <3>1. IsPaperBar(x, b, c, i, bar)
        BY <1>3, PaperLives
      <3>. HIDE DEF b, c, x
      <3>. QED BY <3>1 DEF IsPaperBar
    <2>2. /\ Whole(b) /\ b.pending = "none" /\ b.count <= a.count + 1
          /\ Whole(c) /\ c.pending = "none" /\ c.count = b.count
          /\ (c.pos # {} => ~c.dead)
          /\ (a.pending = "none" => b = Rolled(a, i))
          /\ (a.pending = "entry" => b.pos # {} /\ ~b.dead)
          /\ (a.pending = "exit" => b.pos = {} /\ \E t \in Trades(b) : t.to = i /\ t.reason = "signal")
      <3>1. IsMiddle(b, c, a, i)
        BY <1>3, PaperMiddle
      <3>. HIDE DEF b, c
      <3>. QED BY <3>1 DEF IsMiddle
    <2>3. b.pos = {} => c = b
      OBVIOUS
    <2>4. would => a.pos = {} /\ a.pending # "entry" /\ bar.entry /\ Cleared(a, i)
      BY DEF WouldTrade, Allowed
    <2>5. ~a.dead /\ a.pos = {} /\ a.pending # "entry" /\ bar.entry /\ Cleared(a, i) => would
      BY DEF WouldTrade, Allowed
    <2>6. /\ Rolled(a, i).pos = a.pos /\ Rolled(a, i).dead = a.dead
          /\ Rolled(a, i).balance = a.balance /\ Rolled(a, i).cooldown = a.cooldown
          /\ Rolled(a, i).count = IF i \in regime.days THEN 0 ELSE a.count
      BY <1>1, RolledRow DEF Same
    <2>7. MayEnter(Rolled(a, i), i) <=> Cleared(a, i)
      BY <2>6 DEF MayEnter, Cleared
    <2>8. c \in Book /\ b \in Book
      BY <2>2 DEF Whole
    <2>9. would => a.pending = "none"
      BY <1>1, <2>4 DEF Whole
    <2>10. would => b.pos = {} /\ ~b.dead
      BY <1>3, <2>2, <2>4, <2>6, <2>9
    <2>. HIDE DEF b, c, x, would
    <2>11. CASE b.pos # {} /\ c.pos = {}
      <3>1. x = Swept(c)
        BY <2>1, <2>11
      <3>2. Whole(Swept(c))
        BY <2>2, SweptWhole
      <3>3. Swept(c).pending = "none" /\ Swept(c).count = c.count
        BY <2>2, <2>8, SweptRow
      <3>. QED BY <2>2, <2>10, <2>11, <3>1, <3>2, <3>3 DEF x, would, IsBar
    <2>12. CASE b.pos = {} /\ b.dead
      <3>1. x = b
        BY <2>1, <2>12
      <3>. QED BY <2>2, <2>10, <2>12, <3>1 DEF x, would, IsBar
    <2>13. CASE ~ (b.pos # {} /\ c.pos = {}) /\ ~ (b.pos = {} /\ b.dead)
      <3>. DEFINE d == Decided(c, i, bar)
      <3>1. x = Swept(d)
        BY <2>1, <2>13
      <3>2. ~c.dead
        BY <2>2, <2>3, <2>13
      <3>3. Whole(d) /\ d \in Book
        BY <2>2, <3>2, DecidedWhole DEF Whole
      <3>4. Whole(Swept(d))
        BY <3>3, SweptWhole
      <3>5. Swept(d).pending = d.pending /\ Swept(d).count = d.count /\ Swept(d).trades = d.trades
        BY <3>3, SweptRow
      <3>6. d.count = c.count /\ d.trades = c.trades
        BY <2>8, DecidedRow DEF Same
      <3>7. d.pending = CASE c.pos # {} /\ bar.exit -> "exit"
                          [] c.pos = {} /\ bar.entry /\ MayEnter(c, i) -> "entry"
                          [] OTHER -> "none"
        BY <2>8, DecidedRow
      <3>. HIDE DEF d
      <3>8. d.pending = "entry" <=> c.pos = {} /\ bar.entry /\ MayEnter(c, i)
        BY <3>7
      <3>9. would => x.pending = "entry"
        <4>. SUFFICES ASSUME would PROVE x.pending = "entry"
          OBVIOUS
        <4>1. b = Rolled(a, i) /\ b.pos = {} /\ c = b
          BY <2>2, <2>3, <2>9, <2>10
        <4>. QED BY <2>4, <2>7, <3>1, <3>5, <3>8, <4>1
      <3>10. ASSUME x.pending = "entry"
             PROVE  would \/ \E t \in Trades(x) : t.to = i /\ t.reason = "signal"
        <4>1. c.pos = {} /\ bar.entry /\ MayEnter(c, i)
          BY <3>1, <3>5, <3>8, <3>10
        <4>2. b.pos = {} /\ c = b
          BY <2>3, <2>13, <4>1
        <4>3. CASE a.pending = "exit"
          <5>1. Trades(x) = Trades(b)
            BY <3>1, <3>5, <3>6, <4>2 DEF Trades
          <5>. QED BY <2>2, <4>3, <5>1
        <4>4. CASE a.pending = "none"
          <5>1. b = Rolled(a, i) /\ a.pos = {} /\ Cleared(a, i)
            BY <2>2, <2>6, <2>7, <4>1, <4>2, <4>4
          <5>. QED BY <1>3, <2>5, <4>1, <4>4, <5>1
        <4>5. a.pending # "entry"
          BY <2>2, <4>2
        <4>. QED BY <1>1, <4>3, <4>4, <4>5
      <3>. QED BY <2>2, <3>1, <3>4, <3>5, <3>6, <3>9, <3>10 DEF x, would, IsBar
    <2>. QED BY <2>11, <2>12, <2>13
  <1>. QED BY <1>2, <1>3

-----------------------------------------------------------------------------
\* What holds between two bars, of the loop and of what the shadow said.
LoopInv ==
  /\ regime \in Limits /\ now \in Nat /\ now >= 1 /\ open \in Quote /\ open \in Int
  /\ Whole(paper) /\ paper.count < now
  /\ ShadowAgrees

\* A new account.
LEMMA NewAccount ==
  ASSUME ReplayAssumption
  PROVE  Whole(Account) /\ Account.count = 0 /\ Account.pending = "none" /\ ~Account.dead
  BY DEF ReplayAssumption, Account, Whole, Book, Lots, Order, Closings

\* The regimes and quotes of the model are of these types.
LEMMA LimitsType ==
  ASSUME ReplayAssumption
  PROVE  Regimes \subseteq Limits /\ Quote \subseteq Int
  BY DEF ReplayAssumption, Limits

\* One bar through both, taken apart.
LEMMA StepIs ==
  ASSUME ReplayAssumption, LoopInv, Step
  PROVE  \E low, close, next \in Quote, bar \in Bar :
           /\ bar.open = open /\ bar.close = close
           /\ shadow' = WouldTrade(paper, now, bar)
           /\ paper' = PaperBar(paper, now, bar)
           /\ replay' = IF now = LastBar
                        THEN EndOfData(ReplayBar(replay, now, bar, next), close)
                        ELSE ReplayBar(replay, now, bar, next)
           /\ midnight' = DayTurned(bar.entry)
           /\ open' = next
  <1>1. PICK low \in Quote, close \in Quote, next \in Quote, entry \in BOOLEAN, exit \in BOOLEAN :
          LET bar == [open |-> open, low |-> low, close |-> close, entry |-> entry, exit |-> exit]
              done == ReplayBar(replay, now, bar, next)
          IN /\ low <= Min({open, close})
             /\ shadow' = WouldTrade(paper, now, bar)
             /\ paper' = PaperBar(paper, now, bar)
             /\ replay' = IF now = LastBar THEN EndOfData(done, close) ELSE done
             /\ midnight' = DayTurned(entry)
             /\ open' = next
    BY DEF Step
  <1>. DEFINE bar == [open |-> open, low |-> low, close |-> close, entry |-> entry, exit |-> exit]
  <1>2. bar \in Bar /\ bar.open = open /\ bar.close = close
    BY LimitsType DEF Bar, LoopInv
  <1>3. /\ shadow' = WouldTrade(paper, now, bar)
        /\ paper' = PaperBar(paper, now, bar)
        /\ replay' = IF now = LastBar
                     THEN EndOfData(ReplayBar(replay, now, bar, next), close)
                     ELSE ReplayBar(replay, now, bar, next)
        /\ midnight' = DayTurned(bar.entry)
        /\ open' = next
    BY <1>1
  <1>. HIDE DEF bar
  <1>. QED BY <1>2, <1>3

\* LoopInv is inductive.
LEMMA LoopInductive ==
  ASSUME ReplayAssumption
  PROVE  /\ ReplayInit => LoopInv
         /\ LoopInv /\ [ReplayNext]_replayVars => LoopInv'
  <1>1. ASSUME ReplayInit PROVE LoopInv
    <2>1. regime \in Regimes /\ now = 1 /\ open \in Quote /\ paper = Account /\ shadow = FALSE
      BY <1>1 DEF ReplayInit
    <2>2. Whole(paper) /\ paper.count = 0 /\ paper.pending = "none"
      BY <2>1, NewAccount
    <2>3. ShadowAgrees
      BY <2>1, <2>2 DEF ShadowAgrees
    <2>4. regime \in Limits /\ open \in Quote /\ open \in Int
      BY <2>1, LimitsType
    <2>5. now \in Nat /\ now >= 1 /\ paper.count < now
      BY <2>1, <2>2
    <2>. QED BY <2>2, <2>3, <2>4, <2>5 DEF LoopInv
  <1>2. ASSUME LoopInv, UNCHANGED replayVars PROVE LoopInv'
    BY <1>2 DEF LoopInv, ShadowAgrees, Whole, replayVars, Trades
  <1>3. ASSUME LoopInv, Step PROVE LoopInv'
    <2>1. PICK low \in Quote, close \in Quote, next \in Quote, bar \in Bar :
           /\ shadow' = WouldTrade(paper, now, bar)
           /\ paper' = PaperBar(paper, now, bar)
           /\ open' = next
      BY <1>3, StepIs
    <2>2. now' = now + 1 /\ regime' = regime
      BY <1>3 DEF Step
    <2>3. regime \in Limits /\ now \in Nat /\ Whole(paper) /\ paper.count < now
      BY <1>3 DEF LoopInv
    <2>4. /\ Whole(paper') /\ paper'.count <= paper.count + 1
          /\ (shadow' => paper'.pending = "entry")
          /\ (paper'.pending = "entry" =>
                shadow' \/ \E t \in Trades(paper') : t.to = now /\ t.reason = "signal")
      <3>1. IsBar(PaperBar(paper, now, bar), WouldTrade(paper, now, bar), paper, now)
        BY <2>3, ShadowStep
      <3>2. IsBar(paper', shadow', paper, now)
        BY <2>1, <3>1
      <3>. QED BY <3>2 DEF IsBar
    <2>5. paper.count \in Nat /\ paper'.count \in Nat
      BY <2>3, <2>4 DEF Whole, Book
    <2>6. Whole(paper)'
      BY <2>4 DEF Whole
    <2>7. ShadowAgrees'
      <3>1. now' - 1 = now
        BY <2>2, <2>3
      <3>. QED BY <2>4, <3>1 DEF ShadowAgrees, Trades
    <2>8. open' \in Quote /\ open' \in Int
      BY <2>1, LimitsType
    <2>9. paper'.count < now'
      BY <2>2, <2>3, <2>4, <2>5
    <2>. QED BY <2>2, <2>3, <2>6, <2>7, <2>8, <2>9 DEF LoopInv
  <1>. QED BY <1>1, <1>2, <1>3 DEF ReplayNext

\* What the shadow said it would do the loop did, and it entered nowhere else.
THEOREM Shadowed == ReplaySpec => []ShadowAgrees
  <1>1. ReplayInit => LoopInv
    BY LoopInductive, ReplayAssumption
  <1>2. LoopInv /\ [ReplayNext]_replayVars => LoopInv'
    BY LoopInductive, ReplayAssumption
  <1>3. LoopInv => ShadowAgrees
    BY DEF LoopInv
  <1>. QED BY <1>1, <1>2, <1>3, PTL DEF ReplaySpec

-----------------------------------------------------------------------------
\* Where the two accounts stand between two bars, the loop's (a) and the backtest's (d): the
\* backtest is where the loop will be once the open of the bar has settled what is pending,
\* but for what the loop's count of the day has more (late);
\* and when the loop is dead the backtest is flat and can afford no order.
Agreeing(a, d, i, price, late) ==
  /\ d \in Book
  /\ a.dead => d.pos = {} /\ (d.dead \/ d.balance < MinOrder) /\ d.trades = a.trades
  /\ ~a.dead => /\ Same(d, Executed(a, i, price))
                /\ Executed(a, i, price).count = d.count + late

\* The trade that the loop counts today and the backtest counted yesterday, if any: as things
\* stand, and once the bar i has begun.
Late == IF midnight = "carried" THEN 1 ELSE 0
LateOn(a, i, late) == IF i \in regime.days THEN IF a.pending = "entry" THEN 1 ELSE 0 ELSE late

\* Same is symmetric and transitive.
LEMMA SameOrder ==
  ASSUME NEW a, NEW b, NEW c, Same(a, b)
  PROVE  Same(b, a) /\ (Same(b, c) => Same(a, c))
  BY DEF Same

\* The bar of the backtest, its three ways out.
LEMMA ReplayWays ==
  ASSUME NEW d, NEW i, NEW bar, NEW next
  PROVE  LET e == Rolled(d, i)
             f == IF e.pos = {} THEN e ELSE Managed(e, i, bar)
             exits == ~f.dead /\ f.pos # {} /\ bar.exit
             enters == ~f.dead /\ e.pos = {} /\ bar.entry /\ i < LastBar /\ MayEnter(f, i)
         IN /\ exits => ReplayBar(d, i, bar, next) = Closed(f, next, "signal", i + 1)
            /\ enters => ReplayBar(d, i, bar, next) = Entered(f, next, i + 1)
            /\ ~exits /\ ~enters => ReplayBar(d, i, bar, next) = f
  <1>. DEFINE e == Rolled(d, i)
              f == IF e.pos = {} THEN e ELSE Managed(e, i, bar)
              exits == ~f.dead /\ f.pos # {} /\ bar.exit
              enters == ~f.dead /\ e.pos = {} /\ bar.entry /\ i < LastBar /\ MayEnter(f, i)
              x == ReplayBar(d, i, bar, next)
              out == Closed(f, next, "signal", i + 1)
              in == Entered(f, next, i + 1)
  <1>1. x = CASE exits -> out [] enters -> in [] OTHER -> f
    BY DEF ReplayBar, FillBar
  <1>2. ~ (exits /\ enters)
    OBVIOUS
  <1>. HIDE DEF e, f, exits, enters, x, out, in
  <1>3. exits => x = out
    BY <1>1, <1>2
  <1>4. enters => x = in
    BY <1>1, <1>2
  <1>5. ~exits /\ ~enters => x = f
    BY <1>1
  <1>. QED BY <1>3, <1>4, <1>5 DEF e, f, exits, enters, x, out, in

\* A loop with nothing pending and the same account agrees, swept or not.
LEMMA AgreeSwept ==
  ASSUME ReplayAssumption, NEW g, Whole(g), g.pending = "none", NEW f \in Book, Same(f, g),
         NEW j \in Nat, NEW price, NEW late, g.count = f.count + late
  PROVE  Agreeing(Swept(g), f, j, price, late)
  <1>1. g \in Book /\ g.balance \in Int /\ MinViable \in Int /\ MinOrder \in Int /\ MinOrder >= MinViable
    BY DEF Whole, Book, ReplayAssumption
  <1>2. f.balance = g.balance /\ f.pos = g.pos /\ f.dead = g.dead /\ f.trades = g.trades
    BY DEF Same
  <1>3. CASE g.pos = {} /\ g.balance < MinViable
    <2>1. Swept(g).dead /\ Swept(g).trades = g.trades
      BY <1>1, <1>3, SweptRow
    <2>2. f.pos = {} /\ f.balance < MinOrder
      BY <1>1, <1>2, <1>3
    <2>. QED BY <1>2, <2>1, <2>2 DEF Agreeing
  <1>4. CASE ~ (g.pos = {} /\ g.balance < MinViable)
    <2>1. Swept(g) = g
      BY <1>1, <1>4, SweptRow
    <2>2. Executed(g, j, price) = g
      BY DEF Executed
    <2>3. g.dead => g.pos = {}
      BY DEF Whole
    <2>. QED BY <1>2, <2>1, <2>2, <2>3 DEF Agreeing
  <1>. QED BY <1>3, <1>4

\* After the levels of a bar the two accounts are the same, but for what the day has counted.
IsLevel(f, c, late) ==
  /\ Whole(c) /\ c.pending = "none" /\ c.count \in Nat
  /\ f \in Book /\ Same(f, c) /\ f.count \in Nat
  /\ c.count = f.count + late

\* Two accounts that differ in what a day has counted may enter alike while the one that has
\* counted more is below the cap.
LEMMA LevelEntry ==
  ASSUME regime \in Limits, NEW i \in Nat, NEW late \in {0, 1}, NEW f, NEW c, IsLevel(f, c, late),
         ~ (late = 1 /\ c.count >= regime.cap)
  PROVE  MayEnter(f, i) <=> MayEnter(c, i)
  <1>1. f.cooldown = c.cooldown /\ f.balance = c.balance
    BY DEF IsLevel, Same
  <1>2. f.count < regime.cap <=> c.count < regime.cap
    <2>1. regime.cap \in Nat
      BY DEF Limits
    <2>. QED BY <2>1 DEF IsLevel
  <1>. QED BY <1>1, <1>2 DEF MayEnter

\* What the loop decides at the close and executes at the next open, the backtest books at
\* the close: from the same accounts to accounts that agree.
LEMMA AgreeDecided ==
  ASSUME ReplayAssumption, regime \in Limits,
         NEW i \in Nat, i < LastBar, NEW bar \in Bar, NEW next \in Int, NEW late \in {0, 1},
         NEW f, NEW c, IsLevel(f, c, late), ~c.dead, NEW y,
         ~ (late = 1 /\ c.pos = {} /\ bar.entry /\ c.count >= regime.cap),
         c.pos # {} /\ bar.exit => y = Closed(f, next, "signal", i + 1),
         c.pos = {} /\ bar.entry /\ MayEnter(f, i) => y = Entered(f, next, i + 1),
         ~ (c.pos # {} /\ bar.exit) /\ ~ (c.pos = {} /\ bar.entry /\ MayEnter(f, i)) => y = f
  PROVE  Agreeing(Swept(Decided(c, i, bar)), y, i + 1, next, late)
  <1>. DEFINE g == Decided(c, i, bar)
  <1>1. Whole(c) /\ c \in Book /\ f \in Book /\ Same(f, c) /\ f.count \in Nat
    BY DEF IsLevel, Whole
  <1>2. Whole(g)
    BY <1>1, DecidedWhole
  <1>3. g \in Book /\ Same(g, c) /\ g.count = c.count
    BY <1>1, DecidedRow
  <1>4. g.pending = CASE c.pos # {} /\ bar.exit -> "exit"
                      [] c.pos = {} /\ bar.entry /\ MayEnter(c, i) -> "entry"
                      [] OTHER -> "none"
    BY <1>1, DecidedRow
  <1>5. c.pos = {} /\ bar.entry => (MayEnter(f, i) <=> MayEnter(c, i))
    BY LevelEntry
  <1>. HIDE DEF g
  <1>6. Same(g, f) /\ g.pos = c.pos /\ Same(f, g) /\ f.pos = c.pos /\ g.dead = c.dead
    BY <1>1, <1>3 DEF Same
  <1>7. i + 1 \in Nat /\ "signal" \in Reason
    BY <1>1 DEF Reason
  <1>8. g.count = f.count + late
    BY <1>3 DEF IsLevel
  <1>9. CASE c.pos # {} /\ bar.exit
    <2>1. g.pending = "exit"
      BY <1>4, <1>9
    <2>2. Swept(g) = g
      BY <1>3, <2>1, SweptRow
    <2>3. Executed(g, i + 1, next) = Closed(g, next, "signal", i + 1)
      BY <2>1 DEF Executed
    <2>4. Same(Closed(f, next, "signal", i + 1), Closed(g, next, "signal", i + 1))
      BY <1>1, <1>3, <1>6, <1>7, <1>9, ClosedSame
    <2>5. /\ IsClosed(Closed(f, next, "signal", i + 1), f, next, "signal", i + 1)
          /\ IsClosed(Closed(g, next, "signal", i + 1), g, next, "signal", i + 1)
      BY <1>1, <1>3, <1>6, <1>7, <1>9, ClosedRow
    <2>6. /\ Closed(f, next, "signal", i + 1) \in Book
          /\ Closed(f, next, "signal", i + 1).count = f.count
          /\ Closed(g, next, "signal", i + 1).count = g.count
      BY <2>5 DEF IsClosed
    <2>7. y = Closed(f, next, "signal", i + 1) /\ ~g.dead
      BY <1>6, <1>9
    <2>. DEFINE u == Closed(f, next, "signal", i + 1)
                v == Executed(g, i + 1, next)
                j == i + 1
    <2>8. /\ Swept(g) = g /\ u \in Book /\ Same(u, v) /\ ~g.dead /\ y = u
          /\ v.count = u.count + late /\ v = Executed(g, j, next)
      BY <1>7, <1>8, <2>2, <2>3, <2>4, <2>6, <2>7
    <2>. HIDE DEF u, v, j
    <2>9. Agreeing(Swept(g), y, j, next, late)
      BY <2>8 DEF Agreeing
    <2>. QED BY <2>9 DEF j, g
  <1>10. CASE c.pos = {} /\ bar.entry /\ MayEnter(f, i)
    <2>1. g.pending = "entry"
      BY <1>4, <1>5, <1>10
    <2>2. Swept(g) = g
      BY <1>3, <2>1, SweptRow
    <2>3. Executed(g, i + 1, next) = Entered(g, next, i + 1)
      BY <2>1 DEF Executed
    <2>4. Same(Entered(f, next, i + 1), Entered(g, next, i + 1))
      BY <1>1, <1>3, <1>6, <1>7, EnteredSame
    <2>5. /\ IsEntered(Entered(f, next, i + 1), f, next, i + 1)
          /\ IsEntered(Entered(g, next, i + 1), g, next, i + 1)
      BY <1>1, <1>3, <1>7, EnteredRow
    <2>6. /\ Entered(f, next, i + 1) \in Book
          /\ Entered(f, next, i + 1).count = f.count + 1
          /\ Entered(g, next, i + 1).count = g.count + 1
      BY <2>5 DEF IsEntered
    <2>7. g.count + 1 = (f.count + 1) + late
      BY <1>1, <1>8
    <2>8. y = Entered(f, next, i + 1) /\ ~g.dead
      BY <1>6, <1>10
    <2>. DEFINE u == Entered(f, next, i + 1)
                v == Executed(g, i + 1, next)
                j == i + 1
    <2>9. /\ Swept(g) = g /\ u \in Book /\ Same(u, v) /\ ~g.dead /\ y = u
          /\ v.count = u.count + late /\ v = Executed(g, j, next)
      BY <1>8, <2>2, <2>3, <2>4, <2>6, <2>7, <2>8
    <2>. HIDE DEF u, v, j
    <2>10. Agreeing(Swept(g), y, j, next, late)
      BY <2>9 DEF Agreeing
    <2>. QED BY <2>10 DEF j, g
  <1>11. CASE ~ (c.pos # {} /\ bar.exit) /\ ~ (c.pos = {} /\ bar.entry /\ MayEnter(f, i))
    <2>1. g.pending = "none"
      BY <1>4, <1>5, <1>11
    <2>2. y = f
      BY <1>11
    <2>. DEFINE j == i + 1
    <2>3. j \in Nat /\ f \in Book /\ Same(f, g)
      BY <1>1, <1>6, <1>7
    <2>. HIDE DEF j
    <2>4. Agreeing(Swept(g), f, j, next, late)
      BY <1>2, <1>8, <2>1, <2>3, AgreeSwept
    <2>. QED BY <2>2, <2>4 DEF j, g
  <1>. QED BY <1>9, <1>10, <1>11

\* From a count of zero, the open counts the entry it fills and nothing else.
LEMMA ExecutedCount ==
  ASSUME NEW a, NEW x, NEW i, NEW price, IsExecuted(x, a, i, price),
         a.pending \in {"none", "entry", "exit"}, a.count = 0
  PROVE  x.count = IF a.pending = "entry" THEN 1 ELSE 0
  <1>1. CASE a.pending = "none"
    BY <1>1 DEF IsExecuted
  <1>2. CASE a.pending = "entry"
    <2>1. x.count = a.count + 1
      BY <1>2 DEF IsExecuted, IsEntered
    <2>. QED BY <1>2, <2>1
  <1>3. CASE a.pending = "exit"
    <2>1. x.count = a.count
      BY <1>3 DEF IsExecuted, IsClosed
    <2>. QED BY <1>3, <2>1
  <1>. QED BY <1>1, <1>2, <1>3

\* The levels of a bar, in both accounts: before them (b, e) and after (c, f).
IsLevels(b, c, e, f, late) ==
  IsLevel(f, c, late) /\ e.pos = b.pos /\ e \in Book /\ (e.pos = {} => f = e /\ c = b)

\* Both after the management of a bar: level, or one of them dead in the same way.
LEMMA AgreeLevel ==
  ASSUME ReplayAssumption, regime \in Limits, NEW i \in Nat, NEW a, Whole(a), a.count < i, ~a.dead,
         NEW bar \in Bar, NEW late \in {0, 1}, NEW d, Agreeing(a, d, i, bar.open, late),
         NEW b, b = Executed(Rolled(a, i), i, bar.open),
         NEW c, c = IF b.pos = {} THEN b ELSE Managed(b, i, bar),
         NEW e, e = Rolled(d, i),
         NEW f, f = IF e.pos = {} THEN e ELSE Managed(e, i, bar)
  PROVE  IsLevels(b, c, e, f, LateOn(a, i, late))
  <1>. DEFINE r == Rolled(a, i)
              w == Executed(a, i, bar.open)
  <1>1. a \in Book /\ a.count \in Nat /\ bar.open \in Int
    BY DEF Whole, Book, Bar
  <1>2. d \in Book /\ d.count \in Nat /\ Same(d, w) /\ w.count = d.count + late
    BY DEF Agreeing, Book
  <1>3. r \in Book /\ Whole(r) /\ Same(r, a) /\ r.pending = a.pending
    BY <1>1, RolledRow, RolledWhole
  <1>4. e \in Book /\ Same(e, d) /\ e.count = IF i \in regime.days THEN 0 ELSE d.count
    BY <1>2, RolledRow
  <1>5. Same(a, r)
    BY <1>3, SameOrder
  <1>6. Same(w, b)
    BY <1>1, <1>3, <1>5, ExecutedSame
  <1>7. i \notin regime.days => b = w
    BY DEF Rolled
  <1>8. /\ Whole(b) /\ b.pending = "none" /\ b.count <= a.count + 1
        /\ Whole(c) /\ c.pending = "none" /\ c.count = b.count
    <2>1. IsMiddle(b, c, a, i)
      BY PaperMiddle
    <2>. QED BY <2>1 DEF IsMiddle
  <1>. HIDE DEF r, w
  <1>9. Same(e, b) /\ e.pos = b.pos
    <2>1. Same(e, w)
      BY <1>2, <1>4 DEF Same
    <2>. QED BY <1>6, <2>1 DEF Same
  <1>10. b \in Book /\ c \in Book /\ b.count \in Nat /\ e.count \in Nat
    BY <1>2, <1>4, <1>8 DEF Whole, Book
  <1>11. b.count = e.count + LateOn(a, i, late)
    <2>1. CASE i \notin regime.days
      BY <1>2, <1>4, <1>7, <2>1 DEF LateOn
    <2>2. CASE i \in regime.days
      <3>1. e.count = 0 /\ r.count = 0
        BY <1>1, <1>4, <2>2, RolledRow DEF r
      <3>2. b.count = IF a.pending = "entry" THEN 1 ELSE 0
        <4>1. IsExecuted(b, r, i, bar.open)
          BY <1>1, <1>3, ExecutedRow DEF r, Same
        <4>2. r.pending \in {"none", "entry", "exit"}
          BY <1>3 DEF Book, Order
        <4>3. b.count = IF r.pending = "entry" THEN 1 ELSE 0
          BY <3>1, <4>1, <4>2, ExecutedCount
        <4>. QED BY <1>3, <4>3
      <3>. QED BY <2>2, <3>1, <3>2 DEF LateOn
    <2>. QED BY <2>1, <2>2
  <1>12. f \in Book /\ Same(f, c) /\ f.count = e.count
    <2>1. CASE e.pos = {}
      BY <1>4, <1>9, <2>1
    <2>2. CASE e.pos # {}
      <3>1. f = Managed(e, i, bar) /\ c = Managed(b, i, bar)
        BY <1>9, <2>2
      <3>2. Same(Managed(e, i, bar), Managed(b, i, bar))
        BY <1>4, <1>9, <1>10, <2>2, ManagedSame
      <3>3. Managed(e, i, bar) \in Book /\ Managed(e, i, bar).count = e.count
        BY <1>4, <2>2, ManagedRow
      <3>. QED BY <3>1, <3>2, <3>3
    <2>. QED BY <2>1, <2>2
  <1>13. c.count \in Nat
    BY <1>8, <1>10
  <1>14. IsLevel(f, c, LateOn(a, i, late))
    BY <1>8, <1>10, <1>11, <1>12, <1>13 DEF IsLevel
  <1>15. e.pos = {} => f = e /\ c = b
    BY <1>9
  <1>. QED BY <1>4, <1>9, <1>14, <1>15 DEF IsLevels

\* A bar leaves two accounts that agree in agreement.
LEMMA AgreeStep ==
  ASSUME ReplayAssumption, regime \in Limits,
         NEW i \in Nat, i < LastBar, NEW a, Whole(a), a.count < i, NEW bar \in Bar, NEW next \in Int,
         NEW late \in {0, 1}, NEW d, Agreeing(a, d, i, bar.open, late),
         ~ (/\ LateOn(a, i, late) = 1 /\ bar.entry
            /\ PaperBar(a, i, bar).pos = {} /\ PaperBar(a, i, bar).count >= regime.cap)
  PROVE  Agreeing(PaperBar(a, i, bar), ReplayBar(d, i, bar, next), i + 1, next, LateOn(a, i, late))
  <1>. DEFINE b == Executed(Rolled(a, i), i, bar.open)
              c == IF b.pos = {} THEN b ELSE Managed(b, i, bar)
              e == Rolled(d, i)
              f == IF e.pos = {} THEN e ELSE Managed(e, i, bar)
              exits == ~f.dead /\ f.pos # {} /\ bar.exit
              enters == ~f.dead /\ e.pos = {} /\ bar.entry /\ i < LastBar /\ MayEnter(f, i)
              x == PaperBar(a, i, bar)
              y == ReplayBar(d, i, bar, next)
              j == i + 1
              more == LateOn(a, i, late)
  <1>0. more \in {0, 1}
    BY DEF LateOn
  <1>1. /\ exits => y = Closed(f, next, "signal", i + 1)
        /\ enters => y = Entered(f, next, i + 1)
        /\ ~exits /\ ~enters => y = f
    BY ReplayWays
  <1>2. j \in Nat /\ d \in Book
    BY DEF Agreeing, Book
  <1>3. CASE a.dead
    <2>1. x = a
      BY <1>3, PaperWays
    <2>2. d.pos = {} /\ (d.dead \/ d.balance < MinOrder) /\ d.trades = a.trades
      BY <1>3 DEF Agreeing
    <2>3. e \in Book /\ Same(e, d) /\ e.count = IF i \in regime.days THEN 0 ELSE d.count
      BY <1>2, RolledRow
    <2>4. e.pos = {} /\ (e.dead \/ e.balance < MinOrder) /\ e.trades = a.trades
      BY <2>2, <2>3 DEF Same
    <2>5. f = e
      BY <2>4
    <2>6. e.balance < MinOrder => ~MayEnter(e, i)
      BY <2>3 DEF MayEnter, Book, ReplayAssumption
    <2>7. y = e
      <3>. HIDE DEF e, f, y
      <3>. QED BY <1>1, <2>4, <2>5, <2>6
    <2>. HIDE DEF x, y, e, f, j, more
    <2>8. Agreeing(a, e, j, next, more)
      BY <1>3, <2>3, <2>4 DEF Agreeing
    <2>9. Agreeing(x, y, j, next, more)
      BY <2>1, <2>7, <2>8
    <2>. QED BY <2>9 DEF x, y, j, more
  <1>4. CASE ~a.dead
    <2>1. /\ b.pos # {} /\ c.pos = {} => x = Swept(c)
          /\ b.pos = {} /\ b.dead => x = b
          /\ ~ (b.pos # {} /\ c.pos = {}) /\ ~ (b.pos = {} /\ b.dead) => x = Swept(Decided(c, i, bar))
      <3>1. IsPaperBar(x, b, c, i, bar)
        BY <1>4, PaperLives
      <3>. HIDE DEF b, c, x
      <3>. QED BY <3>1 DEF IsPaperBar
    <2>2. c.pos # {} => ~c.dead
      <3>1. IsMiddle(b, c, a, i)
        BY <1>4, PaperMiddle
      <3>. HIDE DEF b, c
      <3>. QED BY <3>1 DEF IsMiddle
    <2>3. IsLevel(f, c, more) /\ e.pos = b.pos /\ e \in Book /\ (e.pos = {} => f = e /\ c = b)
      <3>1. IsLevels(b, c, e, f, more)
        BY <1>4, AgreeLevel
      <3>. HIDE DEF b, c, e, f, more
      <3>. QED BY <3>1 DEF IsLevels
    <2>0. ~ (more = 1 /\ bar.entry /\ x.pos = {} /\ x.count >= regime.cap)
      OBVIOUS
    <2>. HIDE DEF b, c, e, f, x, y, more
    <2>4. /\ Whole(c) /\ c.pending = "none" /\ f \in Book /\ Same(f, c) /\ f.count \in Nat
          /\ c.count = f.count + more
      BY <2>3 DEF IsLevel
    <2>5. f.pos = c.pos /\ f.dead = c.dead /\ f.trades = c.trades
      BY <2>4 DEF Same
    <2>6. CASE b.pos # {} /\ c.pos = {}
      <3>1. x = Swept(c)
        BY <2>1, <2>6
      <3>2. y = f
        BY <1>1, <2>3, <2>5, <2>6
      <3>. HIDE DEF j, exits, enters
      <3>3. Agreeing(Swept(c), f, j, next, more)
        BY <1>2, <2>4, <2>5, AgreeSwept
      <3>. QED BY <3>1, <3>2, <3>3 DEF x, y, j, more
    <2>7. CASE b.pos = {} /\ b.dead
      <3>1. x = b /\ c = b
        BY <2>1, <2>3, <2>7
      <3>2. y = f
        BY <1>1, <2>5, <2>7, <3>1
      <3>3. f.dead /\ f.pos = {} /\ f.trades = b.trades /\ f \in Book
        BY <2>4, <2>5, <2>7, <3>1
      <3>. HIDE DEF j, exits, enters
      <3>4. Agreeing(b, f, j, next, more)
        BY <2>7, <3>3 DEF Agreeing
      <3>. QED BY <3>1, <3>2, <3>4 DEF x, y, j, more
    <2>8. CASE ~ (b.pos # {} /\ c.pos = {}) /\ ~ (b.pos = {} /\ b.dead)
      <3>1. x = Swept(Decided(c, i, bar))
        BY <2>1, <2>8
      <3>2. c.pos = {} => e.pos = {}
        BY <2>3, <2>8
      <3>3. e.pos = {} => c.pos = {}
        <4>1. e.pos = {} => c = b /\ b.pos = {}
          BY <2>3
        <4>. QED BY <4>1
      <3>4. ~c.dead
        BY <2>2, <2>3, <2>8, <3>2
      <3>5. exits <=> c.pos # {} /\ bar.exit
        BY <2>5, <3>4
      <3>6. enters <=> c.pos = {} /\ bar.entry /\ MayEnter(f, i)
        BY <2>5, <3>2, <3>3, <3>4
      <3>7. /\ (c.pos # {} /\ bar.exit => y = Closed(f, next, "signal", i + 1))
            /\ (c.pos = {} /\ bar.entry /\ MayEnter(f, i) => y = Entered(f, next, i + 1))
            /\ (~ (c.pos # {} /\ bar.exit) /\ ~ (c.pos = {} /\ bar.entry /\ MayEnter(f, i)) => y = f)
        <4>. HIDE DEF exits, enters
        <4>. QED BY <1>1, <3>5, <3>6
      <3>8. ~ (more = 1 /\ c.pos = {} /\ bar.entry /\ c.count >= regime.cap)
        <4>1. c \in Book
          BY <2>4 DEF Whole
        <4>2. x.pos = c.pos /\ x.count = c.count
          BY <3>1, <4>1, DecidedRow, SweptRow DEF Same
        <4>. QED BY <2>0, <4>2
      <3>9. Agreeing(Swept(Decided(c, i, bar)), y, i + 1, next, more)
        <4>. HIDE DEF exits, enters, j
        <4>. QED BY <1>0, <2>3, <3>4, <3>7, <3>8, AgreeDecided
      <3>. QED BY <3>1, <3>9 DEF x, y, more
    <2>. QED BY <2>6, <2>7, <2>8
  <1>. QED BY <1>3, <1>4

\* The trades after one more.
LEMMA TradesGrow ==
  ASSUME NEW s \in Seq(Closing), NEW t
  PROVE  {Append(s, t)[k] : k \in 1..Len(Append(s, t))} = {s[k] : k \in 1..Len(s)} \cup {t}
  <1>1. Len(Append(s, t)) = Len(s) + 1 /\ Append(s, t)[Len(s) + 1] = t
    OBVIOUS
  <1>2. \A k \in 1..Len(s) : Append(s, t)[k] = s[k]
    OBVIOUS
  <1>3. 1..(Len(s) + 1) = 1..Len(s) \cup {Len(s) + 1}
    OBVIOUS
  <1>. QED BY <1>1, <1>2, <1>3

\* Accounts that agree show the same trades and the same exposure of the bars processed.
LEMMA AgreeShows ==
  ASSUME ReplayAssumption, regime \in Limits, now \in Nat, NEW a, Whole(a), NEW d, NEW price \in Int,
         NEW late, Agreeing(a, d, now, price, late)
  PROVE  Over(a) = Over(d) /\ Exposed(a) = Exposed(d)
  <1>1. a \in Book /\ a.pending \in {"none", "entry", "exit"} /\ a.trades \in Seq(Closing)
    BY DEF Whole, Book, Order, Closings
  <1>2. CASE a.dead
    <2>1. d.pos = a.pos /\ d.trades = a.trades
      BY <1>2 DEF Agreeing, Whole
    <2>. QED BY <2>1 DEF Over, Exposed, Trades
  <1>3. CASE ~a.dead
    <2>. DEFINE w == Executed(a, now, price)
    <2>1. d.pos = w.pos /\ d.trades = w.trades
      BY <1>3 DEF Agreeing, Same
    <2>2. /\ a.pending = "none" => w = a
          /\ a.pending = "entry" => IsEntered(w, a, price, now)
          /\ a.pending = "exit" => IsClosed(w, a, price, "signal", now)
      <3>1. IsExecuted(w, a, now, price)
        BY <1>3, ExecutedRow
      <3>. HIDE DEF w
      <3>. QED BY <3>1 DEF IsExecuted
    <2>. HIDE DEF w
    <2>3. CASE a.pending = "none"
      BY <2>1, <2>2, <2>3 DEF Over, Exposed, Trades
    <2>4. CASE a.pending = "entry"
      <3>1. a.pos = {} /\ d.trades = a.trades /\ d.pos = {[entry |-> price, at |-> now, funding |-> 0]}
        BY <2>1, <2>2, <2>4 DEF Whole, IsEntered
      <3>2. Trades(d) = Trades(a)
        BY <3>1 DEF Trades
      <3>3. {q \in d.pos : q.at < now} = {} /\ {q \in a.pos : q.at < now} = {}
        BY <3>1
      <3>. QED BY <3>2, <3>3 DEF Over, Exposed
    <2>5. CASE a.pending = "exit"
      <3>. DEFINE p == CHOOSE y \in a.pos : TRUE
      <3>1. d.pos = {} /\ \E n : d.trades =
              Append(a.trades, [from |-> p.at, to |-> now, reason |-> "signal", net |-> n])
        BY <2>1, <2>2, <2>5 DEF IsClosed
      <3>2. p \in a.pos /\ \A q \in a.pos : q = p
        BY <2>5 DEF Whole
      <3>. HIDE DEF p
      <3>3. PICK n : d.trades = Append(a.trades, [from |-> p.at, to |-> now, reason |-> "signal", net |-> n])
        BY <3>1
      <3>. DEFINE t == [from |-> p.at, to |-> now, reason |-> "signal", net |-> n]
      <3>4. t.from = p.at /\ t.to = now
        OBVIOUS
      <3>. HIDE DEF t
      <3>5. d.trades = Append(a.trades, t)
        BY <3>3 DEF t
      <3>6. Trades(d) = Trades(a) \cup {t}
        <4>. DEFINE s == a.trades
        <4>1. s \in Seq(Closing) /\ d.trades = Append(s, t)
          BY <1>1, <3>5
        <4>. HIDE DEF s
        <4>2. {Append(s, t)[k] : k \in 1..Len(Append(s, t))} = {s[k] : k \in 1..Len(s)} \cup {t}
          BY <4>1, TradesGrow
        <4>3. Trades(d) = {Append(s, t)[k] : k \in 1..Len(Append(s, t))}
          BY <4>1 DEF Trades
        <4>. QED BY <4>2, <4>3 DEF Trades, s
      <3>7. ~ (t.to < now)
        BY <3>4
      <3>8. Over(a) = Over(d)
        BY <3>6, <3>7 DEF Over
      <3>9. Exposed(d) = {u.from : u \in {v \in Trades(a) \cup {t} : v.from < now}}
        BY <3>1, <3>6 DEF Exposed
      <3>10. ASSUME NEW z PROVE z \in Exposed(a) <=> z \in Exposed(d)
        <4>1. z \in Exposed(a) <=> (z = p.at /\ p.at < now) \/ \E v \in Trades(a) : v.from < now /\ z = v.from
          BY <3>2 DEF Exposed
        <4>2. z \in Exposed(d) <=> (z = t.from /\ t.from < now) \/ \E v \in Trades(a) : v.from < now /\ z = v.from
          BY <3>9
        <4>. QED BY <3>4, <4>1, <4>2
      <3>11. Exposed(a) = Exposed(d)
        <4>1. \A z : z \in Exposed(a) <=> z \in Exposed(d)
          BY <3>10
        <4>. QED BY <4>1
      <3>. QED BY <3>8, <3>11
    <2>. QED BY <1>1, <2>3, <2>4, <2>5
  <1>. QED BY <1>2, <1>3

-----------------------------------------------------------------------------
\* What holds between two bars of both.
AgreeInv ==
  /\ LoopInv /\ regime \in Regimes
  /\ now <= LastBar /\ midnight # "refused" => Agreeing(paper, replay, now, open, Late)

\* The history follows the loop's count of the day.
LEMMA MidnightStep ==
  ASSUME NEW entry, midnight' = DayTurned(entry), midnight' # "refused"
  PROVE  /\ midnight # "refused" /\ Late' = LateOn(paper, now, Late)
         /\ ~ (LateOn(paper, now, Late) = 1 /\ entry /\ paper'.pos = {} /\ paper'.count >= regime.cap)
  BY DEF DayTurned, Carried, Late, LateOn

\* AgreeInv is inductive.
LEMMA AgreeInductive ==
  ASSUME ReplayAssumption
  PROVE  /\ ReplayInit => AgreeInv
         /\ AgreeInv /\ [ReplayNext]_replayVars => AgreeInv'
  <1>1. ASSUME ReplayInit PROVE AgreeInv
    <2>1. /\ regime \in Regimes /\ now = 1 /\ paper = Account /\ replay = Account /\ LoopInv
          /\ midnight = "clear"
      BY <1>1, LoopInductive DEF ReplayInit
    <2>2. Whole(paper) /\ paper.count = 0 /\ paper.pending = "none" /\ ~paper.dead /\ replay = paper
      BY <2>1, NewAccount
    <2>3. Executed(paper, now, open) = paper
      BY <2>2 DEF Executed
    <2>4. Agreeing(paper, replay, now, open, Late)
      BY <2>1, <2>2, <2>3 DEF Agreeing, Whole, Same, Late
    <2>. QED BY <2>1, <2>4 DEF AgreeInv
  <1>2. ASSUME AgreeInv, UNCHANGED replayVars PROVE AgreeInv'
    <2>1. LoopInv'
      BY <1>2, LoopInductive DEF AgreeInv
    <2>2. /\ regime' = regime /\ now' = now /\ open' = open /\ paper' = paper /\ replay' = replay
          /\ midnight' = midnight
      BY <1>2 DEF replayVars
    <2>3. ASSUME Agreeing(paper, replay, now, open, Late) PROVE Agreeing(paper, replay, now, open, Late)'
      BY <2>2, <2>3 DEF Agreeing, Same, Executed, Closed, Entered, CooldownBars, Booked, Late
    <2>. QED BY <1>2, <2>1, <2>2, <2>3 DEF AgreeInv
  <1>3. ASSUME AgreeInv, Step PROVE AgreeInv'
    <2>1. LoopInv'
      BY <1>3, LoopInductive DEF AgreeInv, ReplayNext
    <2>2. now' = now + 1 /\ regime' = regime /\ now <= LastBar
      BY <1>3 DEF Step
    <2>3. regime \in Limits /\ now \in Nat /\ Whole(paper) /\ paper.count < now
      BY <1>3 DEF AgreeInv, LoopInv
    <2>4. PICK low \in Quote, close \in Quote, next \in Quote, bar \in Bar :
           /\ bar.open = open
           /\ paper' = PaperBar(paper, now, bar)
           /\ replay' = IF now = LastBar
                        THEN EndOfData(ReplayBar(replay, now, bar, next), close)
                        ELSE ReplayBar(replay, now, bar, next)
           /\ midnight' = DayTurned(bar.entry)
           /\ open' = next
      BY <1>3, StepIs DEF AgreeInv
    <2>5. ASSUME now < LastBar, midnight' # "refused" PROVE Agreeing(paper, replay, now, open, Late)'
      <3>1. replay' = ReplayBar(replay, now, bar, next)
        BY <2>3, <2>4, <2>5 DEF ReplayAssumption
      <3>2. /\ midnight # "refused" /\ Late' = LateOn(paper, now, Late)
            /\ ~ (/\ LateOn(paper, now, Late) = 1 /\ bar.entry
                  /\ paper'.pos = {} /\ paper'.count >= regime.cap)
        BY <2>4, <2>5, MidnightStep
      <3>3. Agreeing(paper, replay, now, open, Late) /\ Late \in {0, 1} /\ next \in Int
        BY <1>3, <2>2, <3>2, LimitsType DEF AgreeInv, Late
      <3>4. Agreeing(PaperBar(paper, now, bar), ReplayBar(replay, now, bar, next), now + 1, next,
                     LateOn(paper, now, Late))
        <4>. DEFINE late == Late
        <4>1. /\ Agreeing(paper, replay, now, bar.open, late) /\ late \in {0, 1}
              /\ ~ (/\ LateOn(paper, now, late) = 1 /\ bar.entry
                    /\ PaperBar(paper, now, bar).pos = {} /\ PaperBar(paper, now, bar).count >= regime.cap)
          BY <2>4, <3>2, <3>3
        <4>. HIDE DEF late
        <4>2. Agreeing(PaperBar(paper, now, bar), ReplayBar(replay, now, bar, next), now + 1, next,
                       LateOn(paper, now, late))
          BY <2>3, <2>5, <3>3, <4>1, AgreeStep
        <4>. QED BY <4>2 DEF late
      <3>5. Agreeing(paper', replay', now', open', Late')
        BY <2>2, <2>4, <3>1, <3>2, <3>4
      <3>. QED BY <2>2, <3>5 DEF Agreeing, Same, Executed, Closed, Entered, CooldownBars, Booked
    <2>6. now' <= LastBar => now < LastBar
      BY <2>2, <2>3 DEF ReplayAssumption
    <2>. QED BY <1>3, <2>1, <2>2, <2>5, <2>6 DEF AgreeInv
  <1>. QED BY <1>1, <1>2, <1>3 DEF ReplayNext

\* The same bars give the loop and the backtest the same entries and the same exits, with
\* the same results, for every daily cap and calendar: until a day that began with a fill
\* decided the day before refuses the loop an entry for its cap (backtesting/engine.py:340).
THEOREM Agreement == ReplaySpec => []TradesAgree
  <1>1. ReplayInit => AgreeInv
    BY AgreeInductive, ReplayAssumption
  <1>2. AgreeInv /\ [ReplayNext]_replayVars => AgreeInv'
    BY AgreeInductive, ReplayAssumption
  <1>3. ASSUME AgreeInv PROVE TradesAgree
    <2>1. regime \in Limits /\ now \in Nat /\ Whole(paper) /\ open \in Int
      BY <1>3 DEF AgreeInv, LoopInv
    <2>2. now <= LastBar /\ midnight # "refused" => Agreeing(paper, replay, now, open, Late)
      BY <1>3 DEF AgreeInv
    <2>. QED BY <2>1, <2>2, AgreeShows, ReplayAssumption DEF TradesAgree, Agree
  <1>. QED BY <1>1, <1>2, <1>3, PTL DEF ReplaySpec
-----------------------------------------------------------------------------
(* TradeQuality: what the loop folded in and what the replay counts. *)

\* The types of the state.
Side == {"favour", "against"}
Extent == [favour : Nat, against : Nat]
Exposure ==
  [opened : Nat, last : Nat, favour : Nat, against : Nat, pending : Nat, taken : SUBSET Nat,
   missed : SUBSET Nat]
Refresh == [step : {"idle", "counted", "read", "written"}, before : Int, corpus : SUBSET Nat]

QualityType ==
  /\ quotes \in Seq(Extent) /\ Len(quotes) <= FinalBar
  /\ stored \subseteq DOMAIN quotes
  /\ held \in Exposure
  /\ refresh \in Refresh /\ refresh.corpus \subseteq DOMAIN quotes

\* m is the farthest of the bars W; there is one at most.
IsFarthest(m, side, W) ==
  /\ m \in Nat
  /\ m = 0 \/ \E k \in W : quotes[k][side] = m
  /\ \A k \in W : quotes[k][side] \in Nat /\ quotes[k][side] <= m

\* The worker took up closed bars, in order.
InOrder == held.taken \subseteq DOMAIN quotes /\ \A k \in held.taken : k <= held.last

\* The bar the position ended on, when it ended before it was survived.
Left == {k \in {held.last} : \E t \in outcome : t.cause \in {"signal", "level"}}

\* A position that had no exit refused has folded in what it took up, but that bar.
Extremes ==
  held.missed = {} =>
    \A side \in Side : IsFarthest(held[side], side, held.taken \ Left)

\* A position ends once, on the last bar taken up, or at a bar's opening after it.
Endings ==
  /\ \A t, u \in outcome : t = u
  /\ \A t \in outcome :
       \/ t.cause \in {"signal", "level", "at_close"} /\ t.at = CloseTime(held.last) /\ held.last \in held.taken
       \/ /\ t.cause = "generation_rollover"
          /\ \E n \in 0..FinalBar : t.at = OpenTime(n + 1) /\ held.taken \subseteq 1..n
  /\ row # {} => outcome # {}

\* The inductive invariant.
QualityInv == QualityType /\ InOrder /\ Extremes /\ Endings /\ FindingsExplained

\* The farthest of the model is that one.
LEMMA FarthestIs ==
  ASSUME NEW side, NEW W, NEW m, IsFarthest(m, side, W)
  PROVE  Farthest(side, W) = m
  <1>. DEFINE S == {0} \cup {quotes[k][side] : k \in W}
  <1>1. m \in S /\ \A y \in S : y <= m
    BY DEF IsFarthest
  <1>2. \E x \in S : \A y \in S : y <= x
    BY <1>1
  <1>3. Highest(S) \in S /\ \A y \in S : y <= Highest(S)
    BY <1>2 DEF Highest
  <1>4. m <= Highest(S) /\ Highest(S) <= m
    BY <1>1, <1>3
  <1>5. Highest(S) = 0 \/ \E k \in W : Highest(S) = quotes[k][side]
    BY <1>3
  <1>. QED BY <1>4, <1>5 DEF Farthest, IsFarthest

\* One bar more.
LEMMA FarthestAdds ==
  ASSUME NEW side, NEW W, NEW m, IsFarthest(m, side, W), NEW k, quotes[k][side] \in Nat
  PROVE  IsFarthest(Highest({m, quotes[k][side]}), side, W \cup {k})
  <1>. DEFINE q == quotes[k][side]
              x == Highest({m, q})
  <1>1. m \in Nat /\ q \in Nat
    BY DEF IsFarthest
  <1>2. x = IF q <= m THEN m ELSE q
    <2>. HIDE DEF q
    <2>1. \E z \in {m, q} : \A y \in {m, q} : y <= z
      BY <1>1
    <2>2. x \in {m, q} /\ \A y \in {m, q} : y <= x
      BY <2>1 DEF Highest
    <2>. QED BY <1>1, <2>2
  <1>. HIDE DEF x
  <1>3. x \in Nat /\ m <= x /\ q <= x
    BY <1>1, <1>2
  <1>4. x = 0 \/ \E j \in W \cup {k} : quotes[j][side] = x
    BY <1>2 DEF IsFarthest
  <1>5. ASSUME NEW j \in W \cup {k} PROVE quotes[j][side] \in Nat /\ quotes[j][side] <= x
    <2>1. CASE j = k
      BY <1>3, <2>1
    <2>2. CASE j \in W
      BY <1>1, <1>3, <2>2 DEF IsFarthest
    <2>. QED BY <2>1, <2>2
  <1>. QED BY <1>3, <1>4, <1>5 DEF IsFarthest, x

\* A bar that closes changes none of those before it.
LEMMA FarthestStays ==
  ASSUME NEW side, NEW W \in SUBSET DOMAIN quotes, NEW m, IsFarthest(m, side, W),
         \A k \in DOMAIN quotes : quotes'[k] = quotes[k]
  PROVE  /\ m \in Nat
         /\ m = 0 \/ \E k \in W : quotes'[k][side] = m
         /\ \A k \in W : quotes'[k][side] \in Nat /\ quotes'[k][side] <= m
  BY DEF IsFarthest

\* The exit bar of a replay that has every bar begun by then: the last of them.
LEMMA ExitOf ==
  ASSUME ExcursionAssumption, NEW C \in SUBSET (1..FinalBar), NEW at \in Nat, NEW n \in 1..(FinalBar + 1),
         \A k \in 1..(FinalBar + 1) : OpenTime(k) <= at <=> k <= n,
         1..n \subseteq C
  PROVE  ExitBar(Slice(C, at), at) = {n} /\ FoldedIn(Slice(C, at), n) = 1..(n - 1)
  <1>. DEFINE window == Slice(C, at)
              begun == {k \in window : OpenTime(k) <= at}
  <1>1. \A k \in 1..n : k \in window
    <2>1. SUFFICES ASSUME NEW k \in 1..n
                   PROVE OpenTime(EntryBar) - 2 <= OpenTime(k) /\ OpenTime(k) <= at + 2 * (PostBars + 1)
      BY DEF Slice
    <2>2. 2 * k <= at /\ k \in Nat /\ PostBars \in Nat
      BY DEF ExcursionAssumption, OpenTime
    <2>. QED BY <2>2 DEF OpenTime, EntryBar
  <1>2. window \subseteq C
    BY DEF Slice
  <1>0. FinalBar \in Nat /\ n \in Nat /\ n >= 1
    BY DEF ExcursionAssumption
  <1>. HIDE DEF window
  <1>a. \A k \in C : k \in 1..(FinalBar + 1)
    BY <1>0
  <1>b. \A k \in begun : k \in 1..n
    BY <1>0, <1>2, <1>a
  <1>c. \A k \in 1..n : k \in begun
    <2>1. SUFFICES ASSUME NEW k \in 1..n PROVE OpenTime(k) <= at
      BY <1>1
    <2>2. k \in 1..(FinalBar + 1) /\ k <= n
      BY <1>0
    <2>. QED BY <2>2
  <1>3. begun = 1..n
    BY <1>b, <1>c
  <1>4. Highest(begun) = n
    <2>1. n \in 1..n /\ \A y \in 1..n : y <= n
      BY <1>0
    <2>2. \E x \in 1..n : \A y \in 1..n : y <= x
      BY <2>1
    <2>3. Highest(1..n) \in 1..n /\ \A y \in 1..n : y <= Highest(1..n)
      BY <2>2 DEF Highest
    <2>4. n <= Highest(1..n) /\ Highest(1..n) <= n
      BY <2>1, <2>3
    <2>5. Highest(1..n) \in Int
      BY <2>3
    <2>6. Highest(1..n) = n
      BY <1>0, <2>4, <2>5
    <2>. QED BY <1>3, <2>6
  <1>5. ExitBar(window, at) = {n}
    <2>1. begun # {}
      BY <1>0, <1>3
    <2>2. ExitBar(window, at) = IF begun = {} THEN {} ELSE {Highest(begun)}
      BY DEF ExitBar
    <2>. QED BY <1>4, <2>1, <2>2
  <1>6. FoldedIn(window, n) = 1..(n - 1)
    <2>1. \A k \in window : (EntryBar <= k /\ k < n) => k \in 1..(n - 1)
      BY <1>0, <1>2, <1>a DEF EntryBar
    <2>2. \A k \in 1..(n - 1) : k \in window /\ EntryBar <= k /\ k < n
      BY <1>0, <1>1 DEF EntryBar
    <2>. QED BY <2>1, <2>2 DEF FoldedIn
  <1>. QED BY <1>5, <1>6 DEF window

\* analyze_trade: a finding is explained when it is made.
LEMMA AnalyzedExplained ==
  ASSUME ExcursionAssumption, QualityInv, NEW C \in SUBSET DOMAIN quotes, NEW t \in outcome,
         NEW r \in Analyzed(C, t), ~r.agrees,
         held.missed = {}, ~Immediate, t.cause # "at_close",
         NEW begun, begun = {k \in 1..(FinalBar + 1) : EntryBar <= k /\ OpenTime(k) <= t.at},
         begun \subseteq C, {k \in begun : CloseTime(k) <= t.at} \subseteq held.taken
  PROVE  FALSE
  <1>. USE DEF QualityInv
  <1>0. C \in SUBSET (1..FinalBar) /\ FinalBar \in Nat /\ held.taken \subseteq DOMAIN quotes
    BY DEF QualityType, ExcursionAssumption, InOrder
  <1>. DEFINE Good(n) ==
         /\ \A k \in 1..(FinalBar + 1) : OpenTime(k) <= t.at <=> k <= n
         /\ held.taken \ Left = 1..(n - 1)
  <1>1. PICK n \in 1..(FinalBar + 1) : Good(n) /\ t.at \in Nat
    <2>1. CASE t.cause \in {"signal", "level"}
      <3>1. t.at = CloseTime(held.last) /\ held.last \in held.taken /\ Left = {held.last}
        BY <2>1 DEF Endings, Left
      <3>2. held.last \in 1..FinalBar
        BY <1>0, <3>1 DEF QualityType
      <3>3. \A k \in 1..(FinalBar + 1) : OpenTime(k) <= t.at <=> k <= held.last
        BY <3>1, <3>2 DEF OpenTime, CloseTime
      <3>4. \A k \in 1..(FinalBar + 1) : k <= held.last => k \in held.taken
        <4>1. ASSUME NEW k \in 1..(FinalBar + 1), k <= held.last PROVE k \in held.taken
          <5>1. k \in begun
            BY <3>3, <4>1 DEF EntryBar
          <5>2. CloseTime(k) <= t.at
            BY <1>0, <3>1, <3>2, <4>1 DEF CloseTime
          <5>. QED BY <5>1, <5>2
        <4>. QED BY <4>1
      <3>. DEFINE m == held.last
      <3>5. held.taken = 1..m
        <4>1. \A k \in held.taken : k \in 1..m
          BY <1>0, <3>2 DEF InOrder, QualityType
        <4>2. \A k \in 1..m : k \in held.taken
          BY <1>0, <3>2, <3>4
        <4>. QED BY <4>1, <4>2
      <3>6. held.taken \ Left = 1..(m - 1)
        <4>1. Left = {m}
          BY <3>1
        <4>. HIDE DEF m
        <4>. QED BY <3>2, <3>5, <4>1 DEF m
      <3>7. t.at \in Nat /\ m \in 1..(FinalBar + 1)
        BY <1>0, <3>1, <3>2 DEF CloseTime
      <3>. QED BY <3>3, <3>6, <3>7
    <2>2. CASE t.cause = "generation_rollover"
      <3>1. PICK n \in 0..FinalBar : t.at = OpenTime(n + 1) /\ held.taken \subseteq 1..n
        BY <2>2 DEF Endings
      <3>2. n + 1 \in 1..(FinalBar + 1) /\ n + 1 - 1 = n /\ n \in Nat
        BY <1>0
      <3>3. \A k \in 1..(FinalBar + 1) : OpenTime(k) <= t.at <=> k <= n + 1
        BY <3>1, <3>2 DEF OpenTime
      <3>4. \A k \in 1..n : k \in held.taken
        <4>1. ASSUME NEW k \in 1..n PROVE k \in held.taken
          <5>1. k \in begun
            BY <1>0, <3>3 DEF EntryBar
          <5>2. CloseTime(k) <= t.at
            BY <3>1, <3>2 DEF CloseTime, OpenTime
          <5>. QED BY <5>1, <5>2
        <4>. QED BY <4>1
      <3>5. Left = {}
        BY <2>2 DEF Left, Endings
      <3>6. held.taken \ Left = 1..n
        BY <3>1, <3>4, <3>5
      <3>7. t.at \in Nat
        BY <3>1, <3>2 DEF OpenTime
      <3>. QED BY <3>2, <3>3, <3>6, <3>7
    <2>. QED BY <2>1, <2>2 DEF Endings
  <1>2. 1..n \subseteq C
    <2>1. 1..n \subseteq begun
      BY <1>0, <1>1 DEF EntryBar
    <2>. QED BY <2>1
  <1>3. ExitBar(Slice(C, t.at), t.at) = {n} /\ FoldedIn(Slice(C, t.at), n) = 1..(n - 1)
    <2>. DEFINE at == t.at
    <2>1. at \in Nat /\ \A k \in 1..(FinalBar + 1) : OpenTime(k) <= at <=> k <= n
      BY <1>1
    <2>. HIDE DEF at
    <2>2. ExitBar(Slice(C, at), at) = {n} /\ FoldedIn(Slice(C, at), n) = 1..(n - 1)
      BY <1>0, <1>2, <2>1, ExitOf
    <2>. QED BY <2>2 DEF at
  <1>4. r.agrees <=> /\ Farthest("favour", 1..(n - 1)) = held.favour
                     /\ Farthest("against", 1..(n - 1)) = held.against
    <2>. DEFINE window == Slice(C, t.at)
    <2>1. PICK exit \in ExitBar(window, t.at) :
            r = [candles |-> C,
                 favour |-> Farthest("favour", Full(window, exit)),
                 favour_time |-> Reached("favour", Full(window, exit)),
                 against |-> Farthest("against", Full(window, exit)),
                 against_time |-> Reached("against", Full(window, exit)),
                 agrees |-> /\ Farthest("favour", FoldedIn(window, exit)) = held.favour
                            /\ Farthest("against", FoldedIn(window, exit)) = held.against]
      BY DEF Analyzed
    <2>2. exit = n
      BY <1>3, <2>1
    <2>. QED BY <1>3, <2>1, <2>2
  <1>5. /\ IsFarthest(held["favour"], "favour", 1..(n - 1))
        /\ IsFarthest(held["against"], "against", 1..(n - 1))
    BY <1>1 DEF Extremes, Side
  <1>6. /\ Farthest("favour", 1..(n - 1)) = held["favour"]
        /\ Farthest("against", 1..(n - 1)) = held["against"]
    BY <1>5, FarthestIs
  <1>. QED BY <1>4, <1>6

\* The row of a position that took up a bar, and of one that folded it in.
RowTaken(h, l, p, T) == [h EXCEPT !.last = l, !.pending = p, !.taken = T]
RowFolded(h, f, a) == [h EXCEPT !.favour = f, !.against = a]

\* A bar that the loop took up, field by field,
LEMMA TakenRow ==
  ASSUME NEW h \in Exposure, NEW l \in Nat, NEW p \in Nat, NEW T \in SUBSET Nat
  PROVE  /\ RowTaken(h, l, p, T) \in Exposure
         /\ RowTaken(h, l, p, T).last = l /\ RowTaken(h, l, p, T).taken = T
         /\ RowTaken(h, l, p, T).missed = h.missed /\ RowTaken(h, l, p, T).opened = h.opened
         /\ RowTaken(h, l, p, T).favour = h.favour /\ RowTaken(h, l, p, T).against = h.against
  BY DEF Exposure, RowTaken

\* and what was folded in.
LEMMA FoldedRow ==
  ASSUME NEW h \in Exposure, NEW f \in Nat, NEW a \in Nat
  PROVE  /\ RowFolded(h, f, a) \in Exposure
         /\ RowFolded(h, f, a).last = h.last /\ RowFolded(h, f, a).taken = h.taken
         /\ RowFolded(h, f, a).missed = h.missed /\ RowFolded(h, f, a).opened = h.opened
         /\ RowFolded(h, f, a).favour = f /\ RowFolded(h, f, a).against = a
  BY DEF Exposure, RowFolded

\* A bar is taken up: what it changes of the position, and how far that is then.
LEMMA TakenUp ==
  ASSUME QualityInv, NEW k \in Upcoming
  PROVE  /\ k \in DOMAIN quotes /\ k \in Nat /\ held.last < k
         /\ Taken(k) \in Exposure /\ Taken(k).last = k /\ Taken(k).taken = held.taken \cup {k}
         /\ Taken(k).missed = held.missed /\ Taken(k).opened = held.opened
         /\ \A side \in Side : Taken(k)[side] = held[side]
         /\ Folded(k) \in Exposure /\ Folded(k).last = k /\ Folded(k).taken = held.taken \cup {k}
         /\ Folded(k).missed = held.missed /\ Folded(k).opened = held.opened
         /\ \A side \in Side : Folded(k)[side] = Highest({held[side], quotes[k][side]})
  <1>1. k \in DOMAIN quotes /\ k \in Nat /\ held.last < k
    BY DEF QualityInv, Upcoming, QualityType, Exposure
  <1>2. held \in Exposure /\ quotes[k] \in Extent
    BY <1>1 DEF QualityInv, QualityType
  <1>. DEFINE f == Highest({held.favour, quotes[k].favour})
              a == Highest({held.against, quotes[k].against})
              T == held.taken \cup {k}
  <1>3. f \in Nat /\ a \in Nat
    <2>1. ASSUME NEW x \in Nat, NEW y \in Nat PROVE Highest({x, y}) \in Nat
      <3>1. \E z \in {x, y} : \A w \in {x, y} : w <= z
        OBVIOUS
      <3>2. Highest({x, y}) \in {x, y}
        BY <3>1 DEF Highest
      <3>. QED BY <3>2
    <2>2. held.favour \in Nat /\ held.against \in Nat /\ quotes[k].favour \in Nat /\ quotes[k].against \in Nat
      BY <1>2 DEF Exposure, Extent
    <2>. QED BY <2>1, <2>2
  <1>4. T \in SUBSET Nat
    BY <1>1, <1>2 DEF Exposure
  <1>5. Taken(k) = RowTaken(held, k, 0, T)
    BY DEF Taken, RowTaken
  <1>. HIDE DEF T
  <1>6. /\ Taken(k) \in Exposure /\ Taken(k).last = k /\ Taken(k).taken = T
        /\ Taken(k).missed = held.missed /\ Taken(k).opened = held.opened
        /\ Taken(k).favour = held.favour /\ Taken(k).against = held.against
    BY <1>1, <1>2, <1>4, <1>5, TakenRow
  <1>7. Folded(k) = RowFolded(Taken(k), f, a)
    BY <1>6 DEF Folded, RowFolded
  <1>. HIDE DEF f, a
  <1>8. /\ Folded(k) \in Exposure /\ Folded(k).last = k /\ Folded(k).taken = T
        /\ Folded(k).missed = held.missed /\ Folded(k).opened = held.opened
        /\ Folded(k).favour = f /\ Folded(k).against = a
    BY <1>3, <1>6, <1>7, FoldedRow
  <1>9. ASSUME NEW side \in Side
        PROVE  /\ Taken(k)[side] = held[side]
               /\ Folded(k)[side] = Highest({held[side], quotes[k][side]})
    <2>1. CASE side = "favour"
      BY <1>6, <1>8, <2>1 DEF f
    <2>2. CASE side = "against"
      BY <1>6, <1>8, <2>2 DEF a
    <2>. QED BY <2>1, <2>2 DEF Side
  <1>. QED BY <1>1, <1>6, <1>8, <1>9 DEF T

\* What a step must show of the extremes.
LEMMA ExtremesMove ==
  ASSUME \A k \in DOMAIN quotes : quotes'[k] = quotes[k],
         NEW W \in SUBSET DOMAIN quotes, W = (held.taken \ Left)',
         (held.missed = {})' => \A side \in Side : IsFarthest(held'[side], side, W)
  PROVE  Extremes'
  <1>1. SUFFICES ASSUME held'.missed = {}, NEW side \in Side
                 PROVE  /\ held'[side] \in Nat
                        /\ held'[side] = 0 \/ \E k \in W : quotes'[k][side] = held'[side]
                        /\ \A k \in W : quotes'[k][side] \in Nat /\ quotes'[k][side] <= held'[side]
    BY DEF Extremes, IsFarthest
  <1>2. IsFarthest(held'[side], side, W)
    BY <1>1
  <1>. QED BY <1>2, FarthestStays

\* Nothing of the position, its end or its row changes: what was explained stays so.
LEMMA EndsStay ==
  ASSUME InOrder, Extremes, Endings, FindingsExplained, UNCHANGED <<held, outcome, row>>,
         DOMAIN quotes \subseteq DOMAIN quotes', \A k \in DOMAIN quotes : quotes'[k] = quotes[k]
  PROVE  InOrder' /\ Extremes' /\ Endings' /\ FindingsExplained'
  <1>1. InOrder'
    BY DEF InOrder
  <1>2. Endings' /\ FindingsExplained'
    BY DEF Endings, FindingsExplained, Immediate
  <1>3. Extremes'
    <2>. DEFINE W == held.taken \ Left
    <2>1. W \in SUBSET DOMAIN quotes /\ W = (held.taken \ Left)'
      BY DEF InOrder, Left
    <2>2. (held.missed = {})' => \A side \in Side : IsFarthest(held'[side], side, W)
      BY DEF Extremes
    <2>. HIDE DEF W
    <2>. QED BY <2>1, <2>2, ExtremesMove
  <1>. QED BY <1>1, <1>2, <1>3

\* The bar before the position's end: in every one of its steps there is no row yet.
LEMMA OpenSteps ==
  ASSUME ExcursionAssumption, QualityInv, SignalExit \/ LevelExit \/ Survives
  PROVE  QualityInv'
  <1>1. /\ outcome = {} /\ row = {} /\ row' = {}
        /\ UNCHANGED <<quotes, stored, refresh, row>>
    BY DEF SignalExit, LevelExit, Survives, refreshVars, QualityInv, Endings
  <1>2. PICK k \in Upcoming :
          \/ /\ held' = Taken(k)
             /\ \E cause \in {"signal", "level"} : outcome' = {[at |-> CloseTime(k), cause |-> cause]}
          \/ held' = [Taken(k) EXCEPT !.missed = @ \cup {k}] /\ outcome' = {}
          \/ held' \in {Folded(k), [Folded(k) EXCEPT !.pending = k]} /\ outcome' = {}
          \/ held' = Folded(k) /\ outcome' = {[at |-> CloseTime(k), cause |-> "at_close"]}
    BY <1>1 DEF SignalExit, LevelExit, Survives, Closes
  <1>3. /\ k \in DOMAIN quotes /\ k \in Nat /\ held.last < k
        /\ Taken(k) \in Exposure /\ Taken(k).last = k /\ Taken(k).taken = held.taken \cup {k}
        /\ Taken(k).missed = held.missed
        /\ \A side \in Side : Taken(k)[side] = held[side]
        /\ Folded(k) \in Exposure /\ Folded(k).last = k /\ Folded(k).taken = held.taken \cup {k}
        /\ Folded(k).missed = held.missed
        /\ \A side \in Side : Folded(k)[side] = Highest({held[side], quotes[k][side]})
    BY TakenUp
  <1>4. k \notin held.taken /\ held.taken \subseteq DOMAIN quotes /\ \A j \in held.taken : j <= k
    <2>1. held.last \in Nat /\ DOMAIN quotes \subseteq Nat
      BY DEF QualityInv, QualityType, Exposure
    <2>2. \A j \in held.taken : j <= held.last /\ j \in DOMAIN quotes
      BY DEF QualityInv, InOrder
    <2>. QED BY <1>3, <2>1, <2>2
  <1>5. Left = {}
    BY <1>1 DEF Left
  <1>6. ASSUME held.missed = {}, NEW side \in Side
        PROVE  /\ IsFarthest(held[side], side, held.taken)
               /\ IsFarthest(Highest({held[side], quotes[k][side]}), side, held.taken \cup {k})
    <2>1. IsFarthest(held[side], side, held.taken)
      <3>1. held.taken \ Left = held.taken
        BY <1>5
      <3>. QED BY <1>6, <3>1 DEF QualityInv, Extremes
    <2>2. quotes[k][side] \in Nat
      <3>1. quotes[k] \in Extent
        BY <1>3 DEF QualityInv, QualityType
      <3>2. side = "favour" \/ side = "against"
        BY DEF Side
      <3>. QED BY <3>1, <3>2 DEF Extent
    <2>. QED BY <2>1, <2>2, FarthestAdds
  <1>7. ASSUME held' \in Exposure, held'.last = k, held'.taken = held.taken \cup {k},
               Extremes', Endings'
        PROVE  QualityInv'
    <2>1. QualityType' /\ InOrder'
      BY <1>1, <1>3, <1>4, <1>7 DEF QualityInv, QualityType, InOrder
    <2>2. FindingsExplained'
      BY <1>1 DEF FindingsExplained
    <2>. QED BY <1>7, <2>1, <2>2 DEF QualityInv
  <1>8. ASSUME held'.last = k, held'.taken = held.taken \cup {k},
               outcome' = {} \/ \E cause \in {"signal", "level", "at_close"} :
                                  outcome' = {[at |-> CloseTime(k), cause |-> cause]}
        PROVE  Endings'
    BY <1>1, <1>8 DEF Endings, CloseTime
  <1>9. CASE /\ held' = Taken(k)
             /\ \E cause \in {"signal", "level"} : outcome' = {[at |-> CloseTime(k), cause |-> cause]}
    <2>1. (held.taken \ Left)' = held.taken
      <3>1. Left' = {k}
        BY <1>3, <1>9 DEF Left
      <3>. QED BY <1>3, <1>4, <1>9, <3>1
    <2>2. (held.missed = {})' => \A side \in Side : IsFarthest(held'[side], side, held.taken)
      BY <1>3, <1>6, <1>9
    <2>. DEFINE W == held.taken
    <2>3. W = (held.taken \ Left)' /\ W \in SUBSET DOMAIN quotes
          /\ ((held.missed = {})' => \A side \in Side : IsFarthest(held'[side], side, W))
      BY <1>4, <2>1, <2>2
    <2>. HIDE DEF W
    <2>4. Extremes'
      BY <1>1, <2>3, ExtremesMove
    <2>. QED BY <1>3, <1>7, <1>8, <1>9, <2>4
  <1>10. CASE held' = [Taken(k) EXCEPT !.missed = @ \cup {k}] /\ outcome' = {}
    <2>. DEFINE h == Taken(k)
                M == h.missed \cup {k}
    <2>0. h \in Exposure /\ M \in SUBSET Nat /\ M # {}
      BY <1>3 DEF Exposure
    <2>1. held' = [h EXCEPT !.missed = M]
      BY <1>10
    <2>. HIDE DEF h, M
    <2>2. held' \in Exposure /\ held'.missed # {} /\ held'.last = h.last /\ held'.taken = h.taken
      BY <2>0, <2>1 DEF Exposure
    <2>3. Extremes'
      BY <2>2 DEF Extremes
    <2>. QED BY <1>3, <1>7, <1>8, <1>10, <2>2, <2>3 DEF h
  <1>11. ASSUME held' \in Exposure, held'.last = k, held'.taken = held.taken \cup {k},
                held'.missed = held.missed, \A side \in Side : held'[side] = Highest({held[side], quotes[k][side]}),
                \A t \in outcome' : t.cause \notin {"signal", "level"}
         PROVE  Extremes'
    <2>. DEFINE W == held.taken \cup {k}
    <2>1. Left' = {}
      BY <1>11 DEF Left
    <2>2. W = (held.taken \ Left)' /\ W \in SUBSET DOMAIN quotes
      BY <1>3, <1>4, <1>11, <2>1
    <2>3. (held.missed = {})' => \A side \in Side : IsFarthest(held'[side], side, W)
      BY <1>6, <1>11
    <2>. HIDE DEF W
    <2>. QED BY <1>1, <2>2, <2>3, ExtremesMove
  <1>12. CASE held' = Folded(k) /\ (outcome' = {} \/ outcome' = {[at |-> CloseTime(k), cause |-> "at_close"]})
    <2>1. \A t \in outcome' : t.cause \notin {"signal", "level"}
      BY <1>12
    <2>2. Extremes'
      BY <1>3, <1>11, <1>12, <2>1
    <2>. QED BY <1>3, <1>7, <1>8, <1>12, <2>2
  <1>13. CASE held' = [Folded(k) EXCEPT !.pending = k] /\ outcome' = {}
    <2>. DEFINE h == Folded(k)
    <2>0. h \in Exposure /\ k \in Nat
      BY <1>3
    <2>1. held' = [h EXCEPT !.pending = k]
      BY <1>13
    <2>. HIDE DEF h
    <2>2. /\ held' \in Exposure /\ held'.missed = h.missed /\ held'.last = h.last /\ held'.taken = h.taken
          /\ held'.favour = h.favour /\ held'.against = h.against
      BY <2>0, <2>1 DEF Exposure
    <2>3. \A side \in Side : held'[side] = h[side]
      BY <2>2 DEF Side
    <2>4. /\ held' \in Exposure /\ held'.last = k /\ held'.taken = held.taken \cup {k} /\ held'.missed = held.missed
          /\ \A side \in Side : held'[side] = Highest({held[side], quotes[k][side]})
      BY <1>3, <2>2, <2>3 DEF h
    <2>5. Extremes'
      BY <1>11, <1>13, <2>4
    <2>. QED BY <1>7, <1>8, <1>13, <2>4, <2>5
  <1>. QED BY <1>2, <1>9, <1>10, <1>12, <1>13

\* The initial state and every step.
LEMMA QualityInductive == QualitySpec => []QualityInv
  <1>. USE ExcursionAssumption
  <1>1. QualityInit => QualityInv
    <2>. SUFFICES ASSUME QualityInit PROVE QualityInv
      OBVIOUS
    <2>1. held \in Exposure /\ held.taken = {} /\ \A side \in Side : held[side] = 0
      BY DEF QualityInit, Exposure, OpenTime, CloseTime, EntryBar, Side
    <2>2. QualityType
      BY <2>1 DEF QualityInit, QualityType, Refresh, ExcursionAssumption
    <2>3. InOrder /\ Extremes
      BY <2>1 DEF QualityInit, InOrder, Extremes, IsFarthest
    <2>. QED BY <2>2, <2>3 DEF QualityInit, QualityInv, Endings, FindingsExplained
  <1>2. QualityInv /\ [QualityNext]_qualityVars => QualityInv'
    <2>. SUFFICES ASSUME QualityInv, [QualityNext]_qualityVars PROVE QualityInv'
      OBVIOUS
    <2>0. QualityType /\ InOrder /\ Extremes /\ Endings /\ FindingsExplained
      BY DEF QualityInv
    <2>1. CASE BarCloses
      <3>1. PICK f \in Excursion, a \in Excursion : quotes' = Append(quotes, [favour |-> f, against |-> a])
        BY <2>1 DEF BarCloses
      <3>. DEFINE q == [favour |-> f, against |-> a]
                  n == Len(quotes)
      <3>2. q \in Extent
        BY DEF Extent, ExcursionAssumption
      <3>3. quotes' = Append(quotes, q) /\ quotes \in Seq(Extent)
        BY <2>0, <3>1 DEF QualityType
      <3>. HIDE DEF q
      <3>4. /\ quotes' \in Seq(Extent) /\ Len(quotes') = n + 1 /\ n \in Nat
            /\ DOMAIN quotes = 1..n /\ DOMAIN quotes' = 1..(n + 1)
            /\ \A k \in DOMAIN quotes : quotes'[k] = quotes[k]
        BY <3>2, <3>3
      <3>5. /\ stored' \subseteq stored \cup {n + 1} /\ n < FinalBar
            /\ UNCHANGED <<held, outcome, row, refresh>>
        BY <2>1 DEF BarCloses, refreshVars
      <3>6. QualityType'
        BY <2>0, <3>4, <3>5 DEF QualityType, ExcursionAssumption
      <3>. QED BY <2>0, <3>4, <3>5, <3>6, EndsStay DEF QualityInv
    <2>2. CASE GapFilled
      <3>1. UNCHANGED <<quotes, held, outcome, row, refresh>> /\ stored' \subseteq DOMAIN quotes
        BY <2>0, <2>2 DEF GapFilled, refreshVars, QualityType
      <3>2. QualityType'
        BY <2>0, <3>1 DEF QualityType
      <3>. QED BY <2>0, <3>1, <3>2, EndsStay DEF QualityInv
    <2>3. CASE SignalExit \/ LevelExit \/ Survives
      BY <2>3, OpenSteps
    <2>4. CASE RolledOver
      <3>1. /\ outcome = {} /\ outcome' = {[at |-> OpenTime(Len(quotes) + 1), cause |-> "generation_rollover"]}
            /\ UNCHANGED <<quotes, stored, held, refresh, row>> /\ row' = {}
        BY <2>0, <2>4 DEF RolledOver, refreshVars, Endings
      <3>2. QualityType' /\ InOrder' /\ FindingsExplained'
        BY <2>0, <3>1 DEF QualityType, InOrder, FindingsExplained
      <3>3. Left = {} /\ Left' = {}
        BY <3>1 DEF Left
      <3>4. Extremes'
        <4>. DEFINE W == held.taken
        <4>1. W \in SUBSET DOMAIN quotes /\ W = (held.taken \ Left)' /\ held.taken \ Left = W
          BY <2>0, <3>1, <3>3 DEF InOrder
        <4>2. (held.missed = {})' => \A side \in Side : IsFarthest(held'[side], side, W)
          BY <2>0, <3>1, <4>1 DEF Extremes
        <4>. HIDE DEF W
        <4>. QED BY <3>1, <4>1, <4>2, ExtremesMove
      <3>5. Endings'
        <4>1. Len(quotes) \in 0..FinalBar /\ DOMAIN quotes = 1..Len(quotes)
          BY <2>0 DEF QualityType, ExcursionAssumption
        <4>. QED BY <2>0, <3>1, <4>1 DEF Endings, InOrder
      <3>. QED BY <3>2, <3>4, <3>5 DEF QualityInv
    <2>5. CASE CountsRawTables \/ ReadsBars \/ CountsAgain
      <3>1. UNCHANGED <<quotes, stored, held, outcome, row>>
        BY <2>5 DEF CountsRawTables, ReadsBars, CountsAgain
      <3>2. refresh' \in Refresh /\ refresh'.corpus \subseteq DOMAIN quotes
        <4>1. CASE CountsRawTables
          <5>1. RawRows \in Int
            <6>1. IsFiniteSet(stored)
              <7>1. IsFiniteSet(DOMAIN quotes)
                BY <2>0, FS_Interval DEF QualityType
              <7>. QED BY <2>0, <7>1, FS_Subset DEF QualityType
            <6>2. IsFiniteSet(outcome)
              <7>1. outcome = {} \/ \E t \in outcome : outcome = {t}
                BY <2>0 DEF Endings
              <7>. QED BY <7>1, FS_EmptySet, FS_Singleton
            <6>. QED BY <6>1, <6>2, FS_CardinalityType DEF RawRows
          <5>. QED BY <4>1, <5>1 DEF CountsRawTables, Refresh
        <4>2. CASE ReadsBars
          <5>1. refresh' = [refresh EXCEPT !.step = "read", !.corpus = stored] /\ stored \in SUBSET Nat
            BY <2>0, <4>2 DEF ReadsBars, QualityType
          <5>. QED BY <2>0, <5>1 DEF Refresh, QualityType
        <4>3. CASE CountsAgain
          BY <4>3 DEF CountsAgain, Refresh
        <4>. QED BY <2>5, <4>1, <4>2, <4>3
      <3>3. QualityType'
        BY <2>0, <3>1, <3>2 DEF QualityType
      <3>. QED BY <2>0, <3>1, <3>3, EndsStay DEF QualityInv
    <2>6. CASE WritesRows
      <3>1. /\ UNCHANGED <<quotes, stored, held, outcome>>
            /\ refresh' = [refresh EXCEPT !.step = "written", !.corpus = {}]
            /\ row' = UNION {Analyzed(refresh.corpus, t) : t \in outcome}
        BY <2>6 DEF WritesRows
      <3>2. QualityType'
        BY <2>0, <3>1 DEF QualityType, Refresh
      <3>3. InOrder' /\ Extremes'
        BY <2>0, <3>1 DEF InOrder, Extremes, IsFarthest, Left
      <3>4. Endings'
        BY <2>0, <3>1 DEF Endings
      <3>5. FindingsExplained'
        <4>1. SUFFICES ASSUME NEW r \in row', NEW t \in outcome, ~r.agrees,
                              NEW begun, begun = {k \in 1..(FinalBar + 1) : EntryBar <= k /\ OpenTime(k) <= t.at},
                              held.missed = {}, ~Immediate, t.cause # "at_close",
                              begun \subseteq r.candles, {k \in begun : CloseTime(k) <= t.at} \subseteq held.taken
                       PROVE  FALSE
          BY <3>1 DEF FindingsExplained, Immediate
        <4>2. r \in Analyzed(refresh.corpus, t)
          BY <2>0, <3>1 DEF Endings
        <4>3. r.candles = refresh.corpus
          BY <4>2 DEF Analyzed
        <4>4. refresh.corpus \in SUBSET DOMAIN quotes
          BY <2>0 DEF QualityType
        <4>. QED BY <4>1, <4>2, <4>3, <4>4, AnalyzedExplained
      <3>. QED BY <3>2, <3>3, <3>4, <3>5 DEF QualityInv
    <2>7. CASE UNCHANGED qualityVars
      <3>1. UNCHANGED <<quotes, stored, held, outcome, refresh, row>>
        BY <2>7 DEF qualityVars
      <3>2. QualityType'
        BY <2>0, <3>1 DEF QualityType
      <3>. QED BY <2>0, <3>1, <3>2, EndsStay DEF QualityInv
    <2>. QED BY <2>1, <2>2, <2>3, <2>4, <2>5, <2>6, <2>7 DEF QualityNext
  <1>. QED BY <1>1, <1>2, PTL DEF QualitySpec

\* FindingsExplained: for any excursions, any number of bars, missing, late or read too early,
\* and any number of refreshes, the replay (trade_quality.py) and the loop disagree only when
\* one of them did not see what the other saw, or the close is one the replay does not know.
THEOREM Explained == QualitySpec => []FindingsExplained
  <1>1. QualityInv => FindingsExplained
    BY DEF QualityInv
  <1>. QED BY <1>1, QualityInductive, PTL
-----------------------------------------------------------------------------
(* EdgeResearch: the check the runner asks, and what is appended after it. *)

\* The types of the file and of a run in progress.
Verdict == Refuted \cup {"NEEDS_MORE_DATA", "PROMISING", "ACCEPTED_FOR_SHADOW"}
Logging == [spec : Specs \cup Seeds, end : Int, decision : Verdict, seed : BOOLEAN, alone : BOOLEAN]
Running == [spec : Specs, data : SUBSET Nat, since : Nat]

\* A run of the spec on data up to `end' repeats none of the rows I: what NotRepeated asks of
\* the entries before it.
Anew(reg, I, end) ==
  \A i \in I : /\ end > reg[i].end
               /\ \/ end >= reg[i].end + MinNew
                  \/ \A k \in I : reg[k].decision = "NEEDS_MORE_DATA"

\* A run as long as nothing was appended since: still what the check let through.
Permitted(e, reg) ==
  /\ Newest(e.data) \in Int
  /\ e.since <= Len(reg)
  /\ Len(reg) = e.since => Anew(reg, Exact(reg, e.spec), Newest(e.data))

\* The inductive invariant.
EdgeInv ==
  /\ tick \in Nat /\ collected \subseteq 1..tick
  /\ registry \in Seq(Logging)
  /\ experiment \in [Session -> {NotRunning} \cup Running]
  /\ \A s \in Session : experiment[s] # NotRunning => Permitted(experiment[s], registry)
  /\ \A j \in DOMAIN registry : registry[j].alone /\ ~registry[j].seed =>
       Anew(registry, {i \in Exact(registry, registry[j].spec) : i < j}, registry[j].end)

\* A run in progress is not none.
LEMMA RunningIs ==
  ASSUME NEW e \in Running
  PROVE  e # NotRunning
  <1>1. DOMAIN e = {"spec", "data", "since"}
    BY DEF Running
  <1>2. DOMAIN NotRunning = {"spec"}
    BY DEF NotRunning
  <1>. QED BY <1>1, <1>2

\* The newest of the data is a tick.
LEMMA NewestType ==
  ASSUME NEW n \in Nat, NEW S \in SUBSET (1..n), S # {}
  PROVE  Newest(S) \in Int
  <1>1. S \in SUBSET Int /\ n \in Int /\ \A x \in S : x <= n
    OBVIOUS
  <1>2. \E m \in S : \A x \in S : x <= m
    BY <1>1, MaxExists
  <1>3. Newest(S) \in S
    BY <1>2 DEF Newest
  <1>. QED BY <1>1, <1>3

\* ExperimentRegistry.check: what it lets through repeats no row of the file.
LEMMA CheckAnew ==
  ASSUME EdgeAssumption, NEW reg \in Seq(Logging), NEW spec, NEW end \in Int, NEW j \in BOOLEAN,
         Level(reg, spec, end, j) \in Runnable
  PROVE  Anew(reg, Exact(reg, spec), end)
  <1>. DEFINE I == Exact(reg, spec)
  <1>1. ASSUME NEW i \in I PROVE reg[i].end \in Int
    <2>1. reg[i] \in Logging
      BY DEF Exact
    <2>. QED BY <2>1 DEF Logging
  <1>2. MinNew \in Nat \ {0}
    BY DEF EdgeAssumption
  <1>3. CASE Undecided(reg, I)
    <2>1. \A i \in I : end > reg[i].end
      <3>1. Level(reg, spec, end, j) = IF \A i \in I : end > reg[i].end THEN "EXACT_MORE_DATA" ELSE "EXACT"
        BY <1>3 DEF Level, Undecided
      <3>. QED BY <3>1 DEF Runnable
    <2>2. \A k \in I : reg[k].decision = "NEEDS_MORE_DATA"
      BY <1>3 DEF Undecided
    <2>. QED BY <2>1, <2>2 DEF Anew
  <1>4. CASE ~Undecided(reg, I) /\ I # {}
    <2>1. Level(reg, spec, end, j) = IF NewData(reg, I, end) THEN "EXACT_REPLICATION" ELSE "EXACT"
      BY <1>4 DEF Level
    <2>2. NewData(reg, I, end)
      BY <2>1 DEF Runnable
    <2>. QED BY <1>1, <1>2, <2>2 DEF Anew, NewData
  <1>5. CASE I = {}
    BY <1>5 DEF Anew
  <1>. QED BY <1>3, <1>4, <1>5

\* An appended entry is the only change: what was said of the others stays.
LEMMA Appended ==
  ASSUME EdgeInv, NEW x \in Logging, registry' = Append(registry, x),
         x.alone /\ ~x.seed => Anew(registry, Exact(registry, x.spec), x.end)
  PROVE  /\ registry' \in Seq(Logging)
         /\ \A j \in DOMAIN registry' : registry'[j].alone /\ ~registry'[j].seed =>
              Anew(registry', {i \in Exact(registry', registry'[j].spec) : i < j}, registry'[j].end)
         /\ \A s \in Session : experiment[s] # NotRunning => Permitted(experiment[s], registry')
  <1>. DEFINE n == Len(registry)
  <1>1. /\ registry \in Seq(Logging) /\ registry' \in Seq(Logging)
        /\ n \in Nat /\ DOMAIN registry = 1..n /\ DOMAIN registry' = 1..(n + 1) /\ Len(registry') = n + 1
        /\ \A i \in 1..n : registry'[i] = registry[i]
        /\ registry'[n + 1] = x
    BY DEF EdgeInv
  <1>2. ASSUME NEW s \in Session, experiment[s] # NotRunning PROVE Permitted(experiment[s], registry')
    <2>1. Permitted(experiment[s], registry) /\ experiment[s].since \in Nat
      BY <1>2 DEF EdgeInv, Running
    <2>2. Len(registry') # experiment[s].since /\ experiment[s].since <= Len(registry')
      BY <1>1, <2>1 DEF Permitted
    <2>. QED BY <2>1, <2>2 DEF Permitted
  <1>3. ASSUME NEW j \in 1..(n + 1), NEW spec
        PROVE  {i \in Exact(registry', spec) : i < j} = {i \in Exact(registry, spec) : i < j}
    BY <1>1 DEF Exact
  <1>4. ASSUME NEW j \in DOMAIN registry', registry'[j].alone, ~registry'[j].seed
        PROVE  Anew(registry', {i \in Exact(registry', registry'[j].spec) : i < j}, registry'[j].end)
    <2>. DEFINE I == {i \in Exact(registry, registry'[j].spec) : i < j}
    <2>1. {i \in Exact(registry', registry'[j].spec) : i < j} = I
      BY <1>1, <1>3
    <2>2. Anew(registry, I, registry'[j].end)
      <3>1. CASE j \in 1..n
        BY <1>1, <1>4, <3>1 DEF EdgeInv
      <3>2. CASE j = n + 1
        <4>1. I = Exact(registry, x.spec)
          BY <1>1, <3>2 DEF Exact
        <4>. QED BY <1>1, <1>4, <3>2, <4>1
      <3>3. j \in 1..n \/ j = n + 1
        BY <1>1
      <3>. HIDE DEF I
      <3>. QED BY <3>1, <3>2, <3>3
    <2>3. I \subseteq 1..n
      BY <1>1 DEF Exact
    <2>. HIDE DEF I
    <2>4. Anew(registry', I, registry'[j].end)
      BY <1>1, <2>2, <2>3 DEF Anew
    <2>. QED BY <2>1, <2>4
  <1>. QED BY <1>1, <1>2, <1>4

\* The initial state and every step.
LEMMA EdgeInductive == EdgeSpec => []EdgeInv
  <1>. USE EdgeAssumption
  <1>1. EdgeInit => EdgeInv
    BY DEF EdgeInit, EdgeInv
  <1>2. EdgeInv /\ [EdgeNext]_edgeVars => EdgeInv'
    <2>. SUFFICES ASSUME EdgeInv, [EdgeNext]_edgeVars PROVE EdgeInv'
      OBVIOUS
    <2>1. CASE Collect
      <3>1. tick' = tick + 1 /\ collected' \subseteq 1..(tick + 1) /\ tick + 1 \in Nat
        BY <2>1 DEF Collect, EdgeInv
      <3>. QED BY <2>1, <3>1 DEF Collect, EdgeInv
    <2>2. CASE InstallSeeds
      <3>1. PICK s \in Seeds : registry' = Append(registry, Logged(s, 1, "REJECTED", TRUE, TRUE))
        BY <2>2 DEF InstallSeeds
      <3>2. Logged(s, 1, "REJECTED", TRUE, TRUE) \in Logging /\ Logged(s, 1, "REJECTED", TRUE, TRUE).seed
        BY DEF Logged, Logging, Verdict, Refuted
      <3>. QED BY <2>2, <3>1, <3>2, Appended DEF InstallSeeds, EdgeInv
    <2>3. ASSUME NEW s \in Session, RunKey(s) PROVE EdgeInv'
      <3>1. PICK spec \in Specs, justified \in BOOLEAN :
              /\ Level(registry, spec, Newest(collected), justified) \in Runnable
              /\ experiment' = [experiment EXCEPT ![s] = [spec |-> spec, data |-> collected, since |-> Len(registry)]]
        BY <2>3 DEF RunKey
      <3>. DEFINE e == [spec |-> spec, data |-> collected, since |-> Len(registry)]
      <3>2. Newest(collected) \in Int
        BY <2>3, NewestType DEF RunKey, EdgeInv
      <3>3. Anew(registry, Exact(registry, spec), Newest(collected))
        BY <3>1, <3>2, CheckAnew DEF EdgeInv
      <3>4. e \in Running /\ Permitted(e, registry)
        BY <3>2, <3>3 DEF Running, Permitted, EdgeInv
      <3>5. experiment' = [experiment EXCEPT ![s] = e]
        BY <3>1
      <3>. HIDE DEF e
      <3>. QED BY <2>3, <3>4, <3>5 DEF RunKey, EdgeInv
    <2>4. ASSUME NEW s \in Session, Record(s) PROVE EdgeInv'
      <3>. DEFINE e == experiment[s]
      <3>0. e \in Running /\ Permitted(e, registry)
        BY <2>4 DEF Record, EdgeInv
      <3>1. PICK decision \in Verdict :
              registry' = Append(registry, Logged(e.spec, Newest(e.data), decision, FALSE, Len(registry) = e.since))
        <4>1. \A A, T : Decisions(A, T) \subseteq Verdict
          BY DEF Decisions, Verdict, Refuted
        <4>2. PICK A, T : \E decision \in Decisions(A, T) :
                registry' = Append(registry, Logged(e.spec, Newest(e.data), decision, FALSE, Len(registry) = e.since))
          BY <2>4 DEF Record
        <4>. QED BY <4>1, <4>2
      <3>. DEFINE x == Logged(e.spec, Newest(e.data), decision, FALSE, Len(registry) = e.since)
      <3>2. x \in Logging /\ x.spec = e.spec /\ x.end = Newest(e.data) /\ (x.alone <=> Len(registry) = e.since)
        BY <3>0 DEF Logged, Logging, Permitted, Running
      <3>3. x.alone /\ ~x.seed => Anew(registry, Exact(registry, x.spec), x.end)
        BY <3>0, <3>2 DEF Permitted
      <3>4. registry' = Append(registry, x)
        BY <3>1
      <3>. HIDE DEF x, e
      <3>5. /\ registry' \in Seq(Logging)
            /\ \A j \in DOMAIN registry' : registry'[j].alone /\ ~registry'[j].seed =>
                 Anew(registry', {i \in Exact(registry', registry'[j].spec) : i < j}, registry'[j].end)
            /\ \A q \in Session : experiment[q] # NotRunning => Permitted(experiment[q], registry')
        BY <3>2, <3>3, <3>4, Appended
      <3>6. experiment' = [experiment EXCEPT ![s] = NotRunning] /\ tick' = tick /\ collected' = collected
        BY <2>4 DEF Record
      <3>. QED BY <3>5, <3>6 DEF EdgeInv
    <2>5. ASSUME NEW s \in Session, Abandon(s) PROVE EdgeInv'
      BY <2>5 DEF Abandon, EdgeInv
    <2>6. CASE UNCHANGED edgeVars
      BY <2>6 DEF edgeVars, EdgeInv
    <2>. QED BY <2>1, <2>2, <2>3, <2>4, <2>5, <2>6 DEF EdgeNext
  <1>. QED BY <1>1, <1>2, PTL DEF EdgeSpec

\* NotRepeated: for any number of sessions side by side, what is appended by a run during
\* which nothing else was repeats no earlier run of its spec (registry.py:7).
THEOREM NoRepeats == EdgeSpec => []NotRepeated
  <1>1. EdgeInv => NotRepeated
    BY DEF EdgeInv, NotRepeated, Anew
  <1>. QED BY <1>1, EdgeInductive, PTL
=============================================================================
