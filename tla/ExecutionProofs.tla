---------------------------- MODULE ExecutionProofs ----------------------------
(***************************************************************************)
(* An entry and its exit for every set of strategies, prices, order books,   *)
(* limits and rounding, and any number of them.                            *)
(*                                                                         *)
(* What a pending order may be worth was settled at the close it was        *)
(* decided on (Sized), and nothing touches the account until it fills; a     *)
(* fill is either nothing or a whole number of units at some worth, and an    *)
(* exit's is the whole position (Filled), however deep the book.  The levels  *)
(* that make an exit, PositionManager's, and the council's verdict on an      *)
(* entry come last.                                                         *)
(***************************************************************************)
EXTENDS Execution, PositionManager, Council, ExtremaLemmas

-----------------------------------------------------------------------------
(* Arithmetic. *)

LEMMA MinOfNats ==
  ASSUME NEW S \in SUBSET Nat, S # {}
  PROVE  Min(S) \in S /\ \A x \in S : Min(S) <= x
  BY MinExists DEF Min

LEMMA MaxOfTwo ==
  ASSUME NEW x \in Int, NEW y \in Int
  PROVE  Max({x, y}) \in {x, y} /\ x <= Max({x, y}) /\ y <= Max({x, y})
  <1>1. \E m \in {x, y} : \A z \in {x, y} : z <= m
    OBVIOUS
  <1>. QED BY <1>1 DEF Max

LEMMA MaxOfNats ==
  ASSUME NEW x \in Nat, NEW y \in Nat
  PROVE  Max({x, y}) \in Nat /\ Max({0, x}) = x
  <1>1. Max({x, y}) \in Nat
    BY MaxOfTwo
  <1>. DEFINE m == Max({0, x})
  <1>2. m \in {0, x} /\ x <= m
    BY MaxOfTwo
  <1>3. m = x
    <2>. HIDE DEF m
    <2>. QED BY <1>2
  <1>. QED BY <1>1, <1>3

LEMMA Quotient ==
  ASSUME NEW x \in Nat, NEW n \in Nat \ {0}
  PROVE  x \div n \in Nat /\ (x \div n) * n <= x
  OBVIOUS

LEMMA MinOfTwo ==
  ASSUME NEW x \in Nat, NEW y \in Nat
  PROVE  Min({x, y}) \in Nat /\ Min({x, y}) <= x /\ Min({x, y}) <= y
  BY MinOfNats

LEMMA PercentType ==
  ASSUME NEW x \in Nat, NEW p \in Nat
  PROVE  Percent(x, p) \in Nat /\ (p <= 100 => Percent(x, p) <= x) /\ Percent(x, 100) = x
  <1>1. x * p \in Nat /\ (p <= 100 => x * p <= x * 100)
    OBVIOUS
  <1>. QED BY <1>1 DEF Percent

LEMMA LotsType ==
  ASSUME NEW n \in Nat
  PROVE  Lots(n) \in Nat /\ Lots(n) <= n /\ Lots(Lots(n)) = Lots(n)
  <1>1. LotSize \in Nat \ {0}
    BY ExecutionAssumption
  <1>. DEFINE q == n \div LotSize
  <1>2. q \in Nat /\ q * LotSize \in Nat /\ q * LotSize <= n
    BY <1>1
  <1>3. (q * LotSize) \div LotSize = q
    BY <1>1, <1>2
  <1>. QED BY <1>2, <1>3 DEF Lots

-----------------------------------------------------------------------------
(* The venues. *)

\* What is left of an order book of natural prices and sizes: never more than was asked.
Taken(quantity) == [filled : 0..quantity, worth : Nat]

LEMMA WalkedType ==
  ASSUME NEW levels \in Seq(Nat \X Nat), NEW quantity \in Nat
  PROVE  /\ Walked(levels, quantity) \in Taken(quantity)
         /\ Len(levels) = 0 => Walked(levels, quantity).filled = 0
  <1>. DEFINE Zero == [filled |-> 0, worth |-> 0]
              Step(r, k) == LET take == Min({quantity - r.filled, levels[k][2]})
                            IN [filled |-> r.filled + take, worth |-> r.worth + take * levels[k][1]]
              Row(f, k) == IF k = 0 THEN Zero ELSE Step(f[k - 1], k)
              Walk(n, f) == f = [k \in 0..n |-> Row(f, k)]
              N == Len(levels)
  <1>1. N \in Nat /\ \A k \in 1..N : levels[k][1] \in Nat /\ levels[k][2] \in Nat
    OBVIOUS
  <1>2. Zero \in Taken(quantity)
    BY DEF Taken
  <1>3. ASSUME NEW r \in Taken(quantity), NEW k \in 1..N
        PROVE  Step(r, k) \in Taken(quantity)
    <2>. DEFINE take == Min({quantity - r.filled, levels[k][2]})
    <2>1. r.filled \in 0..quantity /\ r.worth \in Nat /\ quantity - r.filled \in Nat
      BY DEF Taken
    <2>2. take \in Nat /\ take <= quantity - r.filled
      BY <1>1, <2>1, MinOfTwo
    <2>. HIDE DEF take
    <2>3. levels[k][1] \in Nat /\ take * levels[k][1] \in Nat
      BY <1>1, <2>2
    <2>4. r.filled + take \in 0..quantity
      BY <2>1, <2>2
    <2>5. r.worth + take * levels[k][1] \in Nat
      BY <2>1, <2>3
    <2>. QED BY <2>4, <2>5 DEF Taken, take
  <1>. HIDE DEF Zero, Step
  <1>4. ASSUME NEW n \in 0..N, NEW f, Walk(n, f) PROVE \A k \in 0..n : f[k] \in Taken(quantity)
    <2>. DEFINE Bad == {k \in 0..n : f[k] \notin Taken(quantity)}
    <2>1. SUFFICES ASSUME Bad # {} PROVE FALSE
      OBVIOUS
    <2>2. PICK m \in Bad : \A k \in Bad : m <= k
      <3>1. Bad \in SUBSET Nat
        BY <1>1
      <3>. HIDE DEF Bad
      <3>. QED BY <2>1, <3>1, MinExists
    <2>3. f[m] = Row(f, m)
      BY <1>4
    <2>4. CASE m = 0
      BY <1>2, <2>2, <2>3, <2>4
    <2>5. CASE m # 0
      <3>1. m \in 1..N /\ m - 1 \in 0..n /\ m - 1 \notin Bad
        BY <2>2, <2>5
      <3>. QED BY <1>3, <2>2, <2>3, <2>5, <3>1
    <2>. QED BY <2>4, <2>5
  <1>5. \E f : Walk(N, f)
    <2>. DEFINE Bad == {n \in 0..N : ~ \E f : Walk(n, f)}
    <2>1. SUFFICES ASSUME Bad # {} PROVE FALSE
      <3>1. ASSUME Bad = {} PROVE ~ (N \in Bad)
        BY <3>1, Zenon
      <3>2. N \in 0..N
        <4>. HIDE DEF N
        <4>. QED BY <1>1
      <3>. HIDE DEF Walk, N
      <3>. QED BY <3>1, <3>2, Zenon
    <2>2. PICK m \in Bad : \A n \in Bad : m <= n
      <3>1. Bad \in SUBSET Nat
        BY <1>1
      <3>. HIDE DEF Bad
      <3>. QED BY <2>1, <3>1, MinExists
    <2>3. CASE m = 0
      <3>. DEFINE f == [k \in 0..0 |-> Zero]
      <3>1. \A k \in 0..0 : Row(f, k) = Zero
        OBVIOUS
      <3>2. Walk(0, f)
        BY <3>1
      <3>. QED BY <2>2, <2>3, <3>2
    <2>4. CASE m # 0
      <3>0. m \in 0..N
        OBVIOUS
      <3>1. m - 1 \in 0..N /\ m - 1 \notin Bad
        <4>. HIDE DEF Bad
        <4>. QED BY <1>1, <2>2, <2>4, <3>0
      <3>2. PICK f : Walk(m - 1, f)
        BY <3>1
      <3>. DEFINE g == [k \in 0..m |-> IF k = m THEN Step(f[m - 1], m) ELSE f[k]]
      <3>3. ASSUME NEW k \in 0..m PROVE g[k] = Row(g, k)
        <4>1. CASE k = m
          BY <2>4, <4>1
        <4>2. CASE k # m
          <5>0. m \in Nat /\ k \in 0..(m - 1)
            BY <1>1, <3>0, <4>2
          <5>1. k \in 0..(m - 1) /\ g[k] = f[k] /\ f[k] = Row(f, k)
            <6>1. g[k] = f[k]
              BY <4>2
            <6>. HIDE DEF g, Row
            <6>2. f[k] = Row(f, k)
              BY <3>2, <5>0
            <6>. QED BY <5>0, <6>1, <6>2
          <5>2. k # 0 => g[k - 1] = f[k - 1]
            <6>1. ASSUME k # 0 PROVE k - 1 \in 0..m /\ k - 1 # m
              <7>. HIDE DEF g, Row, Bad
              <7>. QED BY <5>0, <6>1
            <6>. HIDE DEF Row, Bad
            <6>. QED BY <6>1
          <5>. QED BY <5>1, <5>2
        <4>. QED BY <4>1, <4>2
      <3>4. Walk(m, g)
        BY <3>3
      <3>. QED BY <2>2, <3>4
    <2>. QED BY <2>3, <2>4
  <1>. DEFINE walk == CHOOSE f : Walk(N, f)
  <1>6. Walk(N, walk)
    BY <1>5
  <1>7. walk[N] \in Taken(quantity)
    <2>. HIDE DEF walk, Walk
    <2>1. N \in 0..N
      BY <1>1
    <2>2. \A k \in 0..N : walk[k] \in Taken(quantity)
      BY <1>4, <1>6, <2>1
    <2>. QED BY <2>1, <2>2
  <1>8. Walked(levels, quantity) = walk[N]
    BY DEF Walked, Zero, Step
  <1>9. N = 0 => walk[N] = Zero
    BY <1>6
  <1>. QED BY <1>7, <1>8, <1>9 DEF Zero

\* A fill is at most what was ordered, and costs nothing if there is none.
Filled(fill, quantity) ==
  /\ fill.quantity \in 0..quantity /\ fill.worth \in Int
  /\ fill.quantity = 0 => fill.worth = 0

LEMMA VenueNumbers == Slippage \in Nat /\ LotSize \in Nat \ {0} /\ Drifts \subseteq Int
  <1>1. {Slippage, MinNotional, Rounds} \subseteq Nat /\ Drifts \subseteq Int
    BY ExecutionAssumption, Zenon
  <1>2. {Funds, LotSize, SettleAfter} \subseteq Nat \ {0}
    BY ExecutionAssumption, Zenon
  <1>. QED BY <1>1, <1>2

LEMMA SlippedType ==
  ASSUME NEW ref \in Nat, NEW side \in {-1, 1}, NEW exits \in BOOLEAN, NEW kind
  PROVE  Slipped(ref, side, exits, kind) \in Int
  <1>1. Slips(kind) \in Nat
    BY VenueNumbers DEF Slips
  <1>. QED BY <1>1 DEF Slipped

LEMMA RefusalFilled ==
  ASSUME NEW why, NEW quantity \in Nat
  PROVE  Filled(Refusal(why), quantity) /\ Refusal(why).quantity = 0
  BY DEF Refusal, Filled

LEMMA PaperFilled ==
  ASSUME NEW quantity \in Nat, NEW side \in {-1, 1}, NEW ref \in Nat, NEW exits \in BOOLEAN,
         NEW kind, NEW fill \in PaperFills(quantity, side, ref, exits, kind)
  PROVE  /\ Filled(fill, quantity)
         /\ exits => fill.quantity \in {0, quantity}
  <1>. DEFINE whole == IF exits THEN quantity ELSE Lots(quantity)
              sizes == {whole} \cup (IF exits THEN {} ELSE Partials(whole))
              accepted == {Fill(n, n * (Slipped(ref, side, exits, kind) + drift)) :
                             n \in sizes, drift \in Drifts}
  <1>1. whole \in Nat /\ whole <= quantity /\ LotSize \in Nat \ {0} /\ Drifts \subseteq Int
    BY LotsType, VenueNumbers
  <1>2. ASSUME NEW n \in sizes, NEW drift \in Drifts, whole # 0
        PROVE  LET f == Fill(n, n * (Slipped(ref, side, exits, kind) + drift))
               IN Filled(f, quantity) /\ (exits => f.quantity = quantity)
    <2>1. n \in 1..quantity /\ (exits => n = quantity)
      BY <1>1, <1>2 DEF Partials
    <2>2. n * (Slipped(ref, side, exits, kind) + drift) \in Int
      BY <1>1, <2>1, SlippedType
    <2>. QED BY <2>1, <2>2 DEF Fill, Filled
  <1>3. \/ fill \in {Refusal("quantity_below_lot_size"), Refusal("below_min_order_notional"),
                     Refusal("simulated_exchange_reject")}
        \/ whole # 0 /\ fill \in accepted
    <2>. DEFINE small == ~exits /\ whole > 0 /\ whole * ref < MinNotional
                rest == accepted \cup (IF exits THEN {} ELSE {Refusal("simulated_exchange_reject")})
    <2>0. PaperFills(quantity, side, ref, exits, kind) =
            CASE whole = 0 -> {Refusal("quantity_below_lot_size")}
              [] small -> {Refusal("below_min_order_notional")}
              [] OTHER -> rest
      BY DEF PaperFills
    <2>1. fill \in CASE whole = 0 -> {Refusal("quantity_below_lot_size")}
                     [] small -> {Refusal("below_min_order_notional")}
                     [] OTHER -> rest
      <3>. HIDE DEF whole, small, rest
      <3>. QED BY <2>0
    <2>2. CASE whole = 0 \/ small
      <3>. HIDE DEF whole, small, rest
      <3>. QED BY <2>1, <2>2
    <2>3. CASE whole # 0 /\ ~small
      <3>1. fill \in rest
        <4>. HIDE DEF whole, small, rest
        <4>. QED BY <2>1, <2>3
      <3>. HIDE DEF accepted
      <3>. QED BY <2>3, <3>1
    <2>. QED BY <2>2, <2>3
  <1>4. CASE fill \in {Refusal("quantity_below_lot_size"), Refusal("below_min_order_notional"),
                       Refusal("simulated_exchange_reject")}
    BY <1>4, RefusalFilled
  <1>5. CASE whole # 0 /\ fill \in accepted
    BY <1>2, <1>5
  <1>. QED BY <1>3, <1>4, <1>5

LEMMA ShadowFilled ==
  ASSUME NEW quantity \in Nat, NEW side \in {-1, 1}, NEW ref \in Nat, NEW exits \in BOOLEAN,
         NEW kind, NEW fill \in ShadowFills(quantity, side, ref, exits, kind)
  PROVE  /\ Filled(fill, quantity)
         /\ exits => fill.quantity \in {0, quantity}
  <1>1. CASE fill = Refusal("book_unavailable")
    BY <1>1, RefusalFilled
  <1>2. CASE exits /\ fill = Fill(quantity, quantity * Slipped(ref, side, exits, kind))
    <2>. DEFINE worth == quantity * Slipped(ref, side, exits, kind)
    <2>1. worth \in Int /\ (quantity = 0 => worth = 0)
      BY SlippedType
    <2>2. fill = Fill(quantity, worth)
      BY <1>2
    <2>. HIDE DEF worth
    <2>. QED BY <2>1, <2>2 DEF Fill, Filled
  <1>3. ASSUME NEW book \in Books, fill = ShadowFill(quantity, side, ref, exits, kind, book)
        PROVE  /\ Filled(fill, quantity)
               /\ exits => fill.quantity \in {0, quantity}
    <2>. DEFINE levels == IF (side = 1) # exits THEN book.asks ELSE book.bids
                got == IF kind = "take_profit" THEN [filled |-> quantity, worth |-> ref * quantity]
                       ELSE Walked(levels, quantity)
    <2>1. levels \in Seq(Nat \X Nat)
      BY ExecutionAssumption
    <2>2. got \in Taken(quantity) /\ (kind # "take_profit" /\ Len(levels) = 0 => got.filled = 0)
      <3>1. [filled |-> quantity, worth |-> ref * quantity] \in Taken(quantity)
        BY DEF Taken
      <3>2. /\ Walked(levels, quantity) \in Taken(quantity)
            /\ Len(levels) = 0 => Walked(levels, quantity).filled = 0
        BY <2>1, WalkedType
      <3>. QED BY <3>1, <3>2
    <2>3. fill = CASE got.filled = 0 -> Refusal("no_liquidity")
                   [] exits /\ got.filled \in 1..(quantity - 1) ->
                        Fill(quantity, got.worth + levels[Len(levels)][1] * (quantity - got.filled))
                   [] OTHER -> Fill(got.filled, got.worth)
      BY <1>3 DEF ShadowFill
    <2>. HIDE DEF got, levels
    <2>4. got.filled \in 0..quantity /\ got.worth \in Nat
      BY <2>2 DEF Taken
    <2>5. CASE got.filled = 0
      BY <2>3, <2>5, RefusalFilled
    <2>6. CASE exits /\ got.filled \in 1..(quantity - 1)
      <3>. DEFINE deepest == levels[Len(levels)][1]
      <3>1. kind # "take_profit"
        BY <2>6 DEF got
      <3>2. deepest \in Nat
        BY <2>1, <2>2, <2>6, <3>1
      <3>3. deepest * (quantity - got.filled) \in Int
        BY <2>4, <3>2
      <3>4. fill = Fill(quantity, got.worth + deepest * (quantity - got.filled))
        BY <2>3, <2>6
      <3>. HIDE DEF deepest
      <3>. QED BY <2>4, <2>6, <3>3, <3>4 DEF Fill, Filled
    <2>7. CASE got.filled # 0 /\ ~(exits /\ got.filled \in 1..(quantity - 1))
      BY <2>3, <2>4, <2>7 DEF Fill, Filled
    <2>. QED BY <2>5, <2>6, <2>7
  <1>. QED BY <1>1, <1>2, <1>3 DEF ShadowFills

-----------------------------------------------------------------------------
(* Sizing and the risk engine. *)

\* The numbers among the constants, and of a strategy and a scene.
LEMMA Numbers ==
  /\ Funds \in Nat \ {0} /\ LotSize \in Nat \ {0} /\ SettleAfter \in Nat \ {0}
  /\ Marks \subseteq Nat \ {0} /\ Sizes \subseteq Nat
  /\ \A f \in {"leverage", "margin", "exposure", "loss", "drawdown", "daily", "volatility"} :
       Limits[f] \in Nat
  /\ \A f \in {"target", "min", "max"} : Scaling[f] \in Nat
  /\ \A d \in Dnas :
       /\ d.method \in Methods /\ d.stop \in StopMethods
       /\ d.fraction \in Nat /\ d.cap \in SUBSET Nat /\ d.leverage \in Nat /\ d.margin \in 0..100
       /\ d.value \in Nat \ {0} /\ d.drawdown \in Nat /\ d.daily \in Nat
  /\ \A s \in Scenes : s.atr \in Nat \ {0} /\ s.low \in Nat /\ s.high \in Nat
  BY ExecutionAssumption DEF Dna

LEMMA LeverageType == ASSUME NEW d \in Dnas PROVE Leverage(d) \in Nat
  BY Numbers, MinOfTwo DEF Leverage

LEMMA DistanceType ==
  ASSUME NEW d \in Dnas, NEW side \in {-1, 1}, NEW price \in Marks, NEW scene \in Scenes
  PROVE  Distance(d, side, price, scene) \in Nat \ {0}
  <1>1. /\ price \in Nat \ {0} /\ d.value \in Nat \ {0} /\ scene.atr \in Nat \ {0}
        /\ Swing(side, scene) \in Nat
    BY Numbers DEF Swing
  <1>2. price * d.value \in Nat \ {0} /\ 100 * scene.atr * d.value \in Nat \ {0}
    BY <1>1
  <1>. DEFINE gap == side * (price - Swing(side, scene))
  <1>3. gap \in Int /\ 100 * side * (price - Swing(side, scene)) = 100 * gap
    BY <1>1
  <1>. HIDE DEF gap
  <1>4. gap > 0 => 100 * gap \in Nat \ {0}
    BY <1>3
  <1>. QED BY <1>1, <1>2, <1>3, <1>4 DEF Distance, gap

LEMMA AffordableType ==
  ASSUME NEW n \in Nat, NEW leverage \in Nat, NEW balance \in Nat
  PROVE  /\ Affordable(n, leverage, balance) \in Nat
         /\ Affordable(n, leverage, balance) <= n
         /\ Affordable(n, leverage, balance) <= balance * leverage
         /\ n <= balance * leverage => Affordable(n, leverage, balance) = n
  <1>. DEFINE most == balance * leverage
              m == Min({n, most})
  <1>1. most \in Nat
    OBVIOUS
  <1>2. m \in {n, most} /\ m <= n /\ m <= most
    <2>. HIDE DEF most
    <2>. QED BY <1>1, MinOfNats
  <1>3. Max({0, m}) = m
    <2>. HIDE DEF m, most
    <2>. QED BY <1>1, <1>2, MaxOfTwo
  <1>4. Affordable(n, leverage, balance) = m
    BY <1>3 DEF Affordable
  <1>. HIDE DEF m
  <1>. QED BY <1>1, <1>2, <1>4

LEMMA RequestedType ==
  ASSUME NEW d \in Dnas, NEW equity \in Nat, NEW price \in Marks, NEW scene \in Scenes,
         NEW distance \in Nat \ {0}
  PROVE  Requested(d, equity, price, scene, distance) \in Nat
  <1>. DEFINE base == Percent(equity * d.leverage, d.fraction)
              room == (Scaling.target * price) \div scene.atr
              scale == Max({Scaling.min, Min({Scaling.max, room})})
              risk == (equity * d.fraction * price) \div distance
  <1>1. /\ price \in Nat \ {0} /\ scene.atr \in Nat \ {0} /\ d.leverage \in Nat /\ d.fraction \in Nat
        /\ Scaling.target \in Nat /\ Scaling.min \in Nat /\ Scaling.max \in Nat
        /\ d.cap \in SUBSET Nat /\ \A x, y \in d.cap : x = y
    BY Numbers, ExecutionAssumption
  <1>2. equity * d.leverage \in Nat /\ equity * d.fraction * price \in Nat /\ Scaling.target * price \in Nat
    BY <1>1
  <1>3. base \in Nat
    BY <1>1, <1>2, PercentType
  <1>4. room \in Nat /\ risk \in Nat
    BY <1>1, <1>2, Quotient
  <1>5. scale \in Nat
    <2>. HIDE DEF room
    <2>1. Min({Scaling.max, room}) \in Nat
      BY <1>1, <1>4, MinOfTwo
    <2>. QED BY <1>1, <2>1, MaxOfNats
  <1>6. Percent(base, scale) \in Nat
    <2>. HIDE DEF base, scale
    <2>. QED BY <1>3, <1>5, PercentType
  <1>7. Min({risk, equity * d.leverage}) \in Nat
    <2>. HIDE DEF risk
    <2>. QED BY <1>2, <1>4, MinOfTwo
  <1>8. Max(d.cap \cup (IF d.cap \in {{}, {0}} THEN {base} ELSE {})) \in Nat
    <2>. HIDE DEF base
    <2>1. CASE d.cap = {}
      <3>1. Max({base, base}) \in Nat
        BY <1>3, MaxOfNats
      <3>2. d.cap \cup (IF d.cap \in {{}, {0}} THEN {base} ELSE {}) = {base, base}
        BY <2>1
      <3>. QED BY <3>1, <3>2
    <2>2. CASE d.cap = {0}
      <3>1. Max({0, base}) \in Nat
        BY <1>3, MaxOfNats
      <3>2. d.cap \cup (IF d.cap \in {{}, {0}} THEN {base} ELSE {}) = {0, base}
        BY <2>2
      <3>. QED BY <3>1, <3>2
    <2>3. CASE d.cap \notin {{}, {0}}
      <3>1. PICK n \in d.cap : TRUE
        BY <2>3
      <3>2. d.cap \cup (IF d.cap \in {{}, {0}} THEN {base} ELSE {}) = {n, n}
        BY <1>1, <2>3, <3>1
      <3>3. Max({n, n}) \in Nat
        BY <1>1, <3>1, MaxOfNats
      <3>. QED BY <3>2, <3>3
    <2>. QED BY <2>1, <2>2, <2>3
  <1>. HIDE DEF base, scale, risk
  <1>. QED BY <1>3, <1>6, <1>7, <1>8 DEF Requested, base, scale, room, risk

\* The rows.
Ledger == [balance : Nat, peak : Int, day : Int, debt : Nat]

\* The available margin, which the backtest does not pass, is no tighter than the share of
\* the balance a strategy may commit.
LEMMA ReducedBy ==
  ASSUME NEW d \in Dnas, NEW a \in Ledger, NEW price \in Marks, NEW wanted \in Nat,
         NEW distance \in Nat \ {0}, NEW available \in {{}, {a.balance}}
  PROVE  LET n == Reduced(d, a, price, wanted, distance, available)
         IN /\ n \in Nat
            /\ n = Reduced(d, a, price, wanted, distance, {})
            /\ Guarded(d, price, distance) => n * distance <= a.balance * Limits.loss * price
  <1>. DEFINE part == Percent(a.balance, Min({d.margin, Limits.margin}))
              margin(free) == Min({part} \cup free)
              most == (a.balance * Limits.loss * price) \div distance
              risk == IF Guarded(d, price, distance) THEN {most} ELSE {}
              exposure == Percent(a.balance, Limits.exposure)
              ways(m) == {wanted, m * Leverage(d), exposure} \cup risk \cup d.cap
  <1>1. /\ a.balance \in Nat /\ price \in Nat /\ Limits.loss \in Nat /\ Limits.exposure \in Nat
        /\ Limits.margin \in Nat /\ d.margin \in 0..100 /\ d.cap \in SUBSET Nat
    BY Numbers DEF Ledger
  <1>2. part \in Nat /\ part <= a.balance
    <2>. DEFINE share == Min({d.margin, Limits.margin})
    <2>1. d.margin \in Nat /\ d.margin <= 100
      BY <1>1
    <2>2. share \in Nat /\ share <= d.margin
      BY <1>1, <2>1, MinOfTwo
    <2>3. part = Percent(a.balance, share)
      OBVIOUS
    <2>4. \A x, p \in Nat : p <= 100 => Percent(x, p) \in Nat /\ Percent(x, p) <= x
      BY PercentType
    <2>. HIDE DEF share, part
    <2>5. share <= 100 /\ a.balance \in Nat
      BY <1>1, <2>1, <2>2
    <2>. QED BY <2>2, <2>3, <2>4, <2>5
  <1>3. exposure \in Nat
    BY <1>1, PercentType
  <1>4. most \in Nat /\ most * distance <= a.balance * Limits.loss * price
    <2>1. a.balance * Limits.loss * price \in Nat
      BY <1>1
    <2>. QED BY <2>1, Quotient
  <1>5. margin(available) = part /\ margin({}) = part
    <2>. HIDE DEF part
    <2>1. Min({part, part}) = part /\ Min({part, a.balance}) = part
      BY <1>1, <1>2, MinOfNats
    <2>2. {part} \cup available \in {{part, part}, {part, a.balance}} /\ {part} \cup {} = {part, part}
      OBVIOUS
    <2>. QED BY <2>1, <2>2
  <1>6. part * Leverage(d) \in Nat
    BY <1>2, LeverageType
  <1>7. /\ Reduced(d, a, price, wanted, distance, available) = Min(ways(part))
        /\ Reduced(d, a, price, wanted, distance, {}) = Min(ways(part))
    <2>1. /\ Reduced(d, a, price, wanted, distance, available) = Min(ways(margin(available)))
          /\ Reduced(d, a, price, wanted, distance, {}) = Min(ways(margin({})))
      BY DEF Reduced
    <2>. HIDE DEF ways, margin
    <2>. QED BY <1>5, <2>1
  <1>8. Min(ways(part)) \in Nat /\ \A x \in ways(part) : Min(ways(part)) <= x
    <2>. HIDE DEF part, exposure, most
    <2>1. ways(part) \in SUBSET Nat /\ ways(part) # {}
      BY <1>1, <1>3, <1>4, <1>6
    <2>. HIDE DEF ways
    <2>. QED BY <2>1, MinOfNats
  <1>9. ASSUME Guarded(d, price, distance)
        PROVE  Min(ways(part)) * distance <= a.balance * Limits.loss * price
    <2>. HIDE DEF part, exposure, most
    <2>1. most \in ways(part)
      BY <1>9
    <2>2. Min(ways(part)) <= most
      BY <1>8, <2>1
    <2>. HIDE DEF ways
    <2>3. Min(ways(part)) * distance <= most * distance
      BY <1>4, <1>8, <2>2
    <2>4. most * distance \in Nat /\ Min(ways(part)) * distance \in Nat /\ a.balance * Limits.loss * price \in Nat
      BY <1>1, <1>4, <1>8
    <2>. QED BY <1>4, <2>3, <2>4
  <1>. HIDE DEF ways, part
  <1>. QED BY <1>7, <1>8, <1>9

LEMMA Checked ==
  ASSUME NEW d \in Dnas, NEW a \in Ledger, NEW price \in Marks, NEW scene \in Scenes,
         NEW wanted \in Nat, NEW distance \in Nat \ {0}, NEW available \in {{}, {a.balance}},
         NEW allowed \in BOOLEAN
  PROVE  LET n == CheckTrade(d, a, price, scene, wanted, distance, available, allowed)
         IN /\ n \in Nat
            /\ n = CheckTrade(d, a, price, scene, wanted, distance, {}, allowed)
            /\ Guarded(d, price, distance) => n * distance <= a.balance * Limits.loss * price
  <1>. DEFINE n == Reduced(d, a, price, wanted, distance, available)
  <1>1. /\ n \in Nat /\ n = Reduced(d, a, price, wanted, distance, {})
        /\ Guarded(d, price, distance) => n * distance <= a.balance * Limits.loss * price
    BY ReducedBy
  <1>2. Max({0, n}) = n
    <2>1. n \in Nat
      BY <1>1
    <2>. HIDE DEF n
    <2>. QED BY <2>1, MaxOfNats
  <1>3. 0 * distance <= a.balance * Limits.loss * price
    <2>1. a.balance * Limits.loss * price \in Nat
      BY Numbers DEF Ledger
    <2>. QED BY <2>1
  <1>. HIDE DEF n
  <1>4. CASE Admissible(d, a, price, scene, allowed)
    <2>1. /\ CheckTrade(d, a, price, scene, wanted, distance, available, allowed) = n
          /\ CheckTrade(d, a, price, scene, wanted, distance, {}, allowed) = n
      BY <1>1, <1>2, <1>4 DEF CheckTrade, n
    <2>. QED BY <1>1, <2>1
  <1>5. CASE ~Admissible(d, a, price, scene, allowed)
    BY <1>3, <1>5 DEF CheckTrade
  <1>. QED BY <1>4, <1>5

\* What the order was sized by: the distance to the stop at its close.
Gap(i) == Distance(i.dna, i.side, i.close, i.scene)

Order ==
  [dna : Dnas, side : {-1, 1}, scene : Scenes, close : Marks, notional : Nat,
   why : {"none", "risk", "minimum"}, backtest : Nat, alike : BOOLEAN, limit : Nat]

\* An order the account can carry, whose loss at the stop is within its limit, and which is
\* the backtest's unless the minimum was met at the close.
Sized(i) ==
  /\ i.notional <= account.balance * Leverage(i.dna)
  /\ Guarded(i.dna, i.close, Gap(i)) => i.notional * Gap(i) <= i.limit * i.close
  /\ i.alike => \/ i.notional = i.backtest
                \/ i.notional = 0 /\ i.why = "minimum"

LEMMA Intended ==
  ASSUME account \in Ledger, NEW d \in Dnas, NEW side \in {-1, 1}, NEW price \in Marks,
         NEW scene \in Scenes, NEW size \in Sizes, NEW allowed \in BOOLEAN
  PROVE  LET i == Intent(d, side, price, scene, size, allowed)
         IN i \in Order /\ Sized(i)
  <1>. DEFINE i == Intent(d, side, price, scene, size, allowed)
              distance == Distance(d, side, price, scene)
              asked == Requested(d, account.balance, price, scene, distance)
              wanted == Percent(asked, size)
              checked == CheckTrade(d, account, price, scene, wanted, distance, {account.balance}, allowed)
              notional == Affordable(checked, Leverage(d), account.balance)
              tested == CheckTrade(d, account, price, scene, asked, distance, {}, TRUE)
              limit == account.balance * Limits.loss
  <1>1. account.balance \in Nat /\ size \in Nat /\ limit \in Nat /\ price \in Nat \ {0}
    BY Numbers DEF Ledger
  <1>2. distance \in Nat \ {0} /\ Leverage(d) \in Nat
    BY DistanceType, LeverageType
  <1>3. asked \in Nat
    <2>. HIDE DEF distance
    <2>. QED BY <1>1, <1>2, RequestedType
  <1>4. wanted \in Nat /\ (size = 100 => wanted = asked)
    <2>. HIDE DEF asked
    <2>. QED BY <1>1, <1>3, PercentType
  <1>5. /\ checked \in Nat
        /\ checked = CheckTrade(d, account, price, scene, wanted, distance, {}, allowed)
        /\ Guarded(d, price, distance) => checked * distance <= limit * price
        /\ tested \in Nat
    <2>. HIDE DEF distance, asked, wanted
    <2>1. /\ checked \in Nat
          /\ checked = CheckTrade(d, account, price, scene, wanted, distance, {}, allowed)
          /\ Guarded(d, price, distance) =>
               checked * distance <= account.balance * Limits.loss * price
      BY <1>2, <1>4, Checked
    <2>2. tested \in Nat
      <3>1. {} \in {{}, {account.balance}} /\ TRUE \in BOOLEAN
        OBVIOUS
      <3>. QED BY <1>2, <1>3, <3>1, Checked
    <2>. QED BY <2>1, <2>2
  <1>6. size = 100 /\ allowed => tested = checked
    <2>. HIDE DEF distance, asked, wanted
    <2>. QED BY <1>4, <1>5
  <1>7. /\ notional \in Nat /\ notional <= checked /\ notional <= account.balance * Leverage(d)
        /\ Affordable(tested, Leverage(d), account.balance) \in Nat
        /\ size = 100 /\ allowed => Affordable(tested, Leverage(d), account.balance) = notional
    <2>. HIDE DEF checked, tested
    <2>. QED BY <1>1, <1>2, <1>5, <1>6, AffordableType
  <1>8. ASSUME NEW n \in {0, notional}, Guarded(d, price, distance)
        PROVE  n * distance <= limit * price
    <2>. HIDE DEF notional, checked, distance, limit
    <2>1. n \in Nat /\ n <= checked
      BY <1>5, <1>7
    <2>2. n * distance <= checked * distance /\ n * distance \in Nat /\ checked * distance \in Nat /\ limit * price \in Nat
      BY <1>1, <1>2, <1>5, <2>1
    <2>. QED BY <1>5, <1>8, <2>2
  <1>. DEFINE below == notional > 0 /\ engine # "shadow" /\ BelowMinimum(notional, price)
              approved == CASE notional = 0 -> [notional |-> 0, why |-> "risk"]
                            [] below -> [notional |-> 0, why |-> "minimum"]
                            [] OTHER -> [notional |-> notional, why |-> "none"]
  <1>9. Approved(d, side, price, scene, size, allowed) = approved
    BY DEF Approved
  <1>10. /\ approved.notional \in {0, notional} /\ approved.why \in {"none", "risk", "minimum"}
         /\ approved.notional = notional \/ (approved.notional = 0 /\ approved.why = "minimum")
    <2>. HIDE DEF notional, below
    <2>. QED OBVIOUS
  <1>11. Backtested(d, side, price, scene) = Affordable(tested, Leverage(d), account.balance)
    BY DEF Backtested
  <1>12. i = [dna |-> d, side |-> side, scene |-> scene, close |-> price,
              notional |-> approved.notional, why |-> approved.why,
              backtest |-> Affordable(tested, Leverage(d), account.balance),
              alike |-> size = 100 /\ allowed, limit |-> limit]
    <2>. HIDE DEF approved, tested
    <2>. QED BY <1>9, <1>11 DEF Intent
  <1>. DEFINE m == approved.notional
              w == approved.why
              t == Affordable(tested, Leverage(d), account.balance)
  <1>13. 0 <= account.balance * Leverage(d)
    BY <1>1, <1>2
  <1>14. m \in Nat /\ m <= account.balance * Leverage(d)
    <2>. HIDE DEF notional, approved
    <2>. QED BY <1>7, <1>10, <1>13
  <1>15. Guarded(d, price, distance) => m * distance <= limit * price
    <2>. HIDE DEF notional, approved, distance, limit
    <2>. QED BY <1>8, <1>10
  <1>16. t \in Nat /\ (size = 100 /\ allowed => m = t \/ (m = 0 /\ w = "minimum"))
    <2>. HIDE DEF notional, approved, tested
    <2>. QED BY <1>7, <1>10
  <1>17. w \in {"none", "risk", "minimum"}
    BY <1>10
  <1>. HIDE DEF m, w, t, limit, i, approved, tested
  <1>18. i = [dna |-> d, side |-> side, scene |-> scene, close |-> price, notional |-> m,
              why |-> w, backtest |-> t, alike |-> size = 100 /\ allowed, limit |-> limit]
    BY <1>12 DEF m, w, t
  <1>19. i \in Order
    BY <1>1, <1>14, <1>16, <1>17, <1>18 DEF Order
  <1>20. /\ i.dna = d /\ i.side = side /\ i.scene = scene /\ i.close = price /\ i.notional = m
         /\ i.why = w /\ i.backtest = t /\ i.alike = (size = 100 /\ allowed) /\ i.limit = limit
    BY <1>18
  <1>21. Sized(i)
    BY <1>14, <1>15, <1>16, <1>20 DEF Sized, Gap
  <1>. QED BY <1>19, <1>21 DEF i

-----------------------------------------------------------------------------
(* The inductive invariant. *)

Bought ==
  [side : {-1, 1}, quantity : Nat \ {0}, worth : Int, attempts : Nat, still : BOOLEAN,
   stopped : BOOLEAN, limit : Int, loss : Int]

TypeOK ==
  /\ engine \in Engines /\ account \in Ledger
  /\ intent \in SUBSET Order /\ held \in SUBSET Bought
  /\ flows \in [cash : Int, units : Int]

\* Nothing is held beside an order, and the account carries every order there is.
Pending ==
  /\ intent # {} => held = {}
  /\ \A i \in intent : Sized(i)

\* What the fills so far add up to.
Booked ==
  /\ held = {} => flows.units = 0 /\ account.balance = Funds + flows.cash + account.debt
  /\ \A p \in held : /\ flows.units = p.side * p.quantity
                     /\ account.balance = Funds + flows.cash + p.side * p.worth + account.debt

IInv == TypeOK /\ Pending /\ Booked /\ RiskAsSized /\ AdmittedAlike

-----------------------------------------------------------------------------
(* The fill of an entry. *)

\* Sizing and the placement of the stop agree on a position bought at one price.
LEMMA LossIsSized ==
  ASSUME NEW d \in Dnas, d.stop # "disabled", NEW side \in {-1, 1}, NEW price \in Marks,
         NEW scene \in Scenes, NEW k \in Nat \ {0}
  PROVE  LossAtStop(d, side, k, k * price, scene) = k * Distance(d, side, price, scene)
  <1>. DEFINE level == Swing(side, scene)
  <1>1. /\ price \in Nat \ {0} /\ d.value \in Nat \ {0} /\ scene.atr \in Nat \ {0} /\ level \in Nat
    BY Numbers DEF Swing
  <1>. HIDE DEF level
  <1>2. k * price * d.value = k * (price * d.value) /\ 100 * k * scene.atr * d.value = k * (100 * scene.atr * d.value)
    BY <1>1
  <1>. DEFINE gap == price - level
  <1>3. /\ k * price - k * level = k * gap
        /\ side * (k * gap) = k * (side * gap) /\ 100 * side * (k * gap) = k * (100 * side * gap)
    BY <1>1
  <1>4. side * (k * price - k * level) > 0 <=> side * (price - level) > 0
    <2>. DEFINE g == side * gap
    <2>1. g \in Int
      BY <1>1
    <2>. HIDE DEF g
    <2>2. k * g > 0 <=> g > 0
      BY <2>1
    <2>. QED BY <1>3, <2>2 DEF g
  <1>5. 100 * side * (k * price - k * level) = k * (100 * side * (price - level))
    BY <1>3
  <1>. QED BY <1>2, <1>4, <1>5 DEF LossAtStop, Distance, level

LEMMA Scaled ==
  ASSUME NEW k \in Nat, NEW price \in Nat \ {0}, NEW gap \in Nat \ {0}, NEW n \in Nat,
         NEW limit \in Nat, k * price <= n, n * gap <= limit * price
  PROVE  k * gap <= limit
  <1>1. k * price * gap <= n * gap
    OBVIOUS
  <1>2. (k * gap) * price <= limit * price
    BY <1>1
  <1>3. CASE k * gap > limit
    <2>1. k * gap - limit >= 1 /\ k * gap \in Int
      BY <1>3
    <2>2. (k * gap - limit) * price >= price
      BY <2>1
    <2>. QED BY <1>2, <2>2
  <1>. QED BY <1>3

\* The whole of an order is at most its notional.
LEMMA OrderedType ==
  ASSUME account \in Ledger, NEW i \in Order, NEW ref \in Marks
  PROVE  Ordered(i, ref) \in Nat /\ Ordered(i, ref) * ref <= i.notional
  <1>1. /\ i.notional \in Nat /\ account.balance \in Nat /\ i.dna \in Dnas /\ ref \in Nat \ {0}
    BY Numbers DEF Order, Ledger
  <1>. DEFINE n == Affordable(i.notional, Leverage(i.dna), account.balance)
  <1>2. n \in Nat /\ n <= i.notional
    BY <1>1, LeverageType, AffordableType
  <1>. HIDE DEF n
  <1>3. n \div ref \in Nat /\ (n \div ref) * ref <= n
    BY <1>1, <1>2, Quotient
  <1>4. (n \div ref) * ref <= i.notional
    BY <1>1, <1>2, <1>3
  <1>. QED BY <1>3, <1>4 DEF Ordered, n

LEMMA Entered ==
  ASSUME TypeOK, Booked, held = {}, NEW i \in Order, Sized(i), NEW ref \in Marks, NEW fill,
         Filled(fill, Ordered(i, ref)), Enter(i, ref, fill), account' = account
  PROVE  /\ held' \in SUBSET Bought /\ flows' \in [cash : Int, units : Int]
         /\ Booked' /\ RiskAsSized'
  <1>. DEFINE k == fill.quantity
              loss == LossAtStop(i.dna, i.side, k, fill.worth, i.scene)
              still == ref = i.close /\ fill.worth = k * ref
              p == [side |-> i.side, quantity |-> k, worth |-> fill.worth,
                    attempts |-> 0, still |-> still,
                    stopped |-> Guarded(i.dna, i.close, Gap(i)), limit |-> i.limit, loss |-> loss]
  <1>1. /\ i.side \in {-1, 1} /\ i.dna \in Dnas /\ i.scene \in Scenes /\ i.close \in Marks
        /\ i.limit \in Nat /\ i.notional \in Nat /\ ref \in Nat \ {0}
    BY Numbers DEF Order
  <1>2. k \in Nat /\ fill.worth \in Int /\ (k = 0 => fill.worth = 0) /\ k <= Ordered(i, ref)
    BY OrderedType DEF Filled, TypeOK
  <1>3. flows' = [cash |-> flows.cash + (-i.side * fill.worth), units |-> flows.units + i.side * k]
    BY DEF Enter, Traded
  <1>4. flows.cash \in Int /\ flows.units = 0 /\ account.balance = Funds + flows.cash + account.debt
        /\ account.balance \in Nat /\ account.debt \in Nat /\ Funds \in Nat
    BY Numbers DEF TypeOK, Booked, Ledger
  <1>5. /\ i.side * fill.worth \in Int /\ -i.side * fill.worth = -(i.side * fill.worth)
        /\ i.side * k \in Int /\ (k = 0 => i.side * k = 0 /\ i.side * fill.worth = 0)
    BY <1>1, <1>2
  <1>6. flows' \in [cash : Int, units : Int]
    BY <1>3, <1>4, <1>5
  <1>7. CASE k = 0
    <2>1. held' = {}
      BY <1>7 DEF Enter
    <2>2. flows'.units = 0 /\ flows'.cash = flows.cash
      BY <1>3, <1>4, <1>5, <1>7
    <2>. QED BY <1>4, <1>6, <2>1, <2>2 DEF Booked, RiskAsSized
  <1>8. CASE k # 0
    <2>1. held' = {p}
      BY <1>8 DEF Enter, Gap
    <2>2. loss \in Int
      <3>1. /\ i.dna.value \in Nat /\ i.scene.atr \in Nat /\ Swing(i.side, i.scene) \in Nat
        BY <1>1, Numbers DEF Swing
      <3>2. fill.worth * i.dna.value \in Int /\ 100 * k * i.scene.atr * i.dna.value \in Int
        BY <1>2, <3>1
      <3>3. 100 * i.side * (fill.worth - k * Swing(i.side, i.scene)) \in Int
        BY <1>1, <1>2, <3>1
      <3>. QED BY <3>2, <3>3 DEF LossAtStop
    <2>3. still \in BOOLEAN /\ p.stopped \in BOOLEAN
      BY DEF Guarded
    <2>4. p \in Bought
      <3>. HIDE DEF still, loss
      <3>. QED BY <1>1, <1>2, <1>8, <2>2, <2>3 DEF Bought
    <2>5. ASSUME still, p.stopped PROVE loss <= i.limit
      <3>1. i.dna.stop # "disabled" /\ fill.worth = k * i.close /\ ref = i.close
        BY <2>5 DEF Guarded
      <3>2. loss = k * Gap(i)
        BY <1>1, <1>2, <1>8, <3>1, LossIsSized DEF Gap
      <3>3. Gap(i) \in Nat \ {0}
        BY <1>1, DistanceType DEF Gap
      <3>4. i.notional * Gap(i) <= i.limit * i.close
        BY <2>5 DEF Sized
      <3>5. k * i.close <= i.notional
        <4>1. Ordered(i, ref) \in Nat /\ Ordered(i, ref) * ref <= i.notional
          BY OrderedType DEF TypeOK
        <4>2. k * ref <= Ordered(i, ref) * ref /\ k * ref \in Int /\ Ordered(i, ref) * ref \in Int
          BY <1>1, <1>2, <4>1
        <4>. QED BY <1>1, <3>1, <4>1, <4>2
      <3>6. k * Gap(i) <= i.limit
        BY <1>1, <1>2, <3>1, <3>3, <3>4, <3>5, Scaled
      <3>. QED BY <3>2, <3>6
    <2>6. RiskAsSized'
      <3>. HIDE DEF still, loss
      <3>. QED BY <2>1, <2>5 DEF RiskAsSized
    <2>7. Booked'
      <3>. HIDE DEF still, loss
      <3>1. flows'.units = i.side * k /\ flows'.cash = flows.cash - i.side * fill.worth
        BY <1>3, <1>4, <1>5
      <3>. DEFINE cost == i.side * fill.worth
      <3>2. p.side * p.quantity = i.side * k /\ p.side * p.worth = cost
        OBVIOUS
      <3>. HIDE DEF p
      <3>3. cost \in Int /\ flows'.cash = flows.cash - cost
        BY <1>5, <3>1
      <3>. HIDE DEF cost
      <3>4. account.balance = Funds + flows'.cash + cost + account.debt /\ flows'.units = p.side * p.quantity
        BY <1>4, <3>1, <3>2, <3>3
      <3>. QED BY <2>1, <3>2, <3>4 DEF Booked
    <2>. QED BY <1>6, <2>1, <2>4, <2>6, <2>7
  <1>. QED BY <1>2, <1>7, <1>8

-----------------------------------------------------------------------------
(* The actions. *)

LEMMA FillsFilled ==
  ASSUME NEW quantity \in Nat, NEW side \in {-1, 1}, NEW ref \in Marks, NEW exits \in BOOLEAN,
         NEW kind, NEW fill \in Fills(quantity, side, ref, exits, kind)
  PROVE  /\ Filled(fill, quantity)
         /\ exits => fill.quantity \in {0, quantity}
  BY Numbers, PaperFilled, ShadowFilled DEF Fills

LEMMA SignalStep ==
  ASSUME IInv, Signal PROVE IInv'
  <1>1. PICK d \in Dnas, side \in {-1, 1}, price \in Marks, scene \in Scenes, size \in Sizes,
             allowed \in BOOLEAN :
          LET i == Intent(d, side, price, scene, size, allowed)
          IN IF engine = "next_open" \/ i.notional = 0
             THEN /\ intent' = (IF engine = "next_open" THEN {i} ELSE {}) /\ result' = {}
                  /\ UNCHANGED <<held, flows>>
             ELSE \E fill \in Fills(Ordered(i, price), side, price, FALSE, "market") :
                    /\ Enter(i, price, fill)
                    /\ result' = {[Outcome(i, price, fill, 0) EXCEPT !.alike = FALSE]}
                    /\ UNCHANGED intent
    BY DEF Signal
  <1>0. PICK i : i = Intent(d, side, price, scene, size, allowed)
    OBVIOUS
  <1>2. i \in Order /\ Sized(i) /\ i.side = side
    <2>1. i.side = side
      BY <1>0 DEF Intent
    <2>. QED BY <1>0, <2>1, Intended DEF IInv, TypeOK
  <1>3. /\ account' = account /\ engine' = engine /\ held = {} /\ intent = {}
        /\ TypeOK /\ Booked /\ AdmittedAlike
    BY DEF Signal, IInv
  <1>4. Sized(i)'
    BY <1>2, <1>3 DEF Sized
  <1>5. CASE engine = "next_open" \/ i.notional = 0
    <2>1. /\ intent' \in SUBSET {i} /\ result' = {} /\ held' = held /\ flows' = flows
      BY <1>0, <1>1, <1>5
    <2>2. \A j \in intent' : Sized(j)'
      BY <1>4, <2>1
    <2>3. TypeOK'
      BY <1>2, <1>3, <2>1 DEF TypeOK
    <2>4. Pending'
      BY <1>3, <2>1, <2>2 DEF Pending
    <2>. QED BY <1>3, <2>1, <2>3, <2>4 DEF IInv, Booked, RiskAsSized, AdmittedAlike
  <1>6. CASE ~(engine = "next_open" \/ i.notional = 0)
    <2>1. PICK fill \in Fills(Ordered(i, price), side, price, FALSE, "market") :
            Enter(i, price, fill) /\ intent' = intent
      BY <1>0, <1>1, <1>6
    <2>2. Ordered(i, price) \in Nat
      BY <1>2, <1>3, OrderedType DEF TypeOK
    <2>3. Filled(fill, Ordered(i, price))
      BY <2>2, FillsFilled
    <2>4. held' \in SUBSET Bought /\ flows' \in [cash : Int, units : Int] /\ Booked' /\ RiskAsSized'
      BY <1>2, <1>3, <2>1, <2>3, Entered
    <2>5. AdmittedAlike'
      BY <1>3, <1>6 DEF AdmittedAlike
    <2>6. TypeOK' /\ Pending'
      BY <1>3, <2>1, <2>4 DEF TypeOK, Pending
    <2>. QED BY <2>4, <2>5, <2>6 DEF IInv
  <1>. QED BY <1>5, <1>6

\* What the loop fills at the next open of what it decided is what the backtest fills there.
LEMMA Alike ==
  ASSUME account \in Ledger, NEW i \in Order, Sized(i), i.notional # 0, i.alike, NEW price \in Marks,
         engine = "next_open",
         NEW fill \in Fills(Ordered(i, price), i.side, price, FALSE, "market"),
         fill.refusal # "simulated_exchange_reject"
  PROVE  LET quantity == BacktestQuantity(i.backtest, price)
         IN fill.quantity = quantity \/ fill.quantity \in Partials(quantity)
  <1>1. /\ i.notional \in Nat /\ account.balance \in Nat /\ Leverage(i.dna) \in Nat
        /\ price \in Nat \ {0} /\ i.backtest = i.notional
    BY Numbers, LeverageType DEF Order, Ledger, Sized
  <1>. DEFINE ordered == i.notional \div price
              whole == Lots(ordered)
  <1>2. Ordered(i, price) = ordered
    BY <1>1, AffordableType DEF Ordered, Sized
  <1>3. ordered \in Nat /\ whole \in Nat /\ Lots(whole) = whole
    <2>1. ordered \in Nat
      BY <1>1, Quotient
    <2>. HIDE DEF ordered
    <2>. QED BY <2>1, LotsType
  <1>4. (whole * price) \div price = whole
    <2>. HIDE DEF whole
    <2>. QED BY <1>1, <1>3
  <1>5. BacktestQuantity(i.backtest, price) = IF whole * price < MinNotional THEN 0 ELSE whole
    <2>1. BacktestQuantity(i.backtest, price) = IF BelowMinimum(whole * price, price) THEN 0 ELSE whole
      BY <1>1 DEF BacktestQuantity
    <2>2. BelowMinimum(whole * price, price) <=> whole * price < MinNotional
      <3>. HIDE DEF whole
      <3>. QED BY <1>3, <1>4 DEF BelowMinimum
    <2>. HIDE DEF whole
    <2>. QED BY <2>1, <2>2
  <1>. DEFINE worth(n, drift) == n * (Slipped(price, i.side, FALSE, "market") + drift)
              accepted == {Fill(n, worth(n, drift)) : n \in {whole} \cup Partials(whole), drift \in Drifts}
              small == whole > 0 /\ whole * price < MinNotional
  <1>6. fill \in PaperFills(ordered, i.side, price, FALSE, "market")
    BY <1>2 DEF Fills
  <1>7. PaperFills(ordered, i.side, price, FALSE, "market") =
          CASE whole = 0 -> {Refusal("quantity_below_lot_size")}
            [] small -> {Refusal("below_min_order_notional")}
            [] OTHER -> accepted \cup {Refusal("simulated_exchange_reject")}
    BY DEF PaperFills
  <1>8. \A why : Refusal(why).quantity = 0 /\ Refusal(why).refusal = why
    BY DEF Refusal
  <1>9. \A n, w : Fill(n, w).quantity = n
    BY DEF Fill
  <1>10. CASE whole = 0
    <2>1. BacktestQuantity(i.backtest, price) = 0
      BY <1>5, <1>10
    <2>2. fill = Refusal("quantity_below_lot_size")
      <3>1. ~small
        BY <1>10
      <3>. HIDE DEF accepted, small, whole
      <3>. QED BY <1>6, <1>7, <1>10, <3>1
    <2>. QED BY <1>8, <2>1, <2>2
  <1>11. CASE whole # 0 /\ small
    <2>1. BacktestQuantity(i.backtest, price) = 0
      BY <1>5, <1>11
    <2>2. fill = Refusal("below_min_order_notional")
      <3>. HIDE DEF accepted, whole
      <3>. QED BY <1>6, <1>7, <1>11
    <2>. QED BY <1>8, <2>1, <2>2
  <1>12. CASE whole # 0 /\ ~small
    <2>1. BacktestQuantity(i.backtest, price) = whole
      <3>1. ~(whole * price < MinNotional)
        <4>. HIDE DEF whole
        <4>. QED BY <1>3, <1>12
      <3>. HIDE DEF whole
      <3>. QED BY <1>5, <3>1
    <2>2. fill \in accepted
      <3>. HIDE DEF accepted, small, whole
      <3>. QED BY <1>6, <1>7, <1>8, <1>12
    <2>3. fill.quantity \in {whole} \cup Partials(whole)
      <3>. HIDE DEF worth, whole
      <3>. QED BY <1>9, <2>2
    <2>. QED BY <2>1, <2>3
  <1>. QED BY <1>10, <1>11, <1>12

\* An outcome that compares the paper loop with the backtest is that of an order at the same
\* open, or of none on either side.
LEMMA NextOpenStep ==
  ASSUME IInv, NextOpen PROVE IInv'
  <1>1. PICK i \in intent, price \in Marks, close \in Marks,
             decided \in {"before", "during", "after"}, halted \in BOOLEAN :
          LET quantity == BacktestQuantity(i.backtest, price)
              refs == IF halted \/ i.notional = 0 THEN {}
                      ELSE IF Observing THEN FirstObserved(decided, price, close) ELSE {price}
          IN IF refs = {}
             THEN /\ result' = {[Outcome(i, price, Refusal("cancelled"), quantity) EXCEPT
                                   !.alike = @ /\ i.notional = 0]}
                  /\ UNCHANGED <<held, flows>>
             ELSE \E ref \in refs :
                    \E fill \in Fills(Ordered(i, ref), i.side, ref, FALSE, "market") :
                      /\ Enter(i, ref, fill)
                      /\ result' = {[Outcome(i, ref, fill, quantity) EXCEPT
                                      !.alike = @ /\ ref = price]}
    BY DEF NextOpen
  <1>2. /\ account' = account /\ engine' = engine /\ intent' = {} /\ held = {}
        /\ TypeOK /\ Booked /\ i \in Order /\ Sized(i)
    BY DEF NextOpen, IInv, TypeOK, Pending
  <1>. DEFINE quantity == BacktestQuantity(i.backtest, price)
              refs == IF halted \/ i.notional = 0 THEN {}
                      ELSE IF Observing THEN FirstObserved(decided, price, close) ELSE {price}
  <1>3. refs \subseteq Marks /\ (refs # {} => i.notional # 0)
    BY DEF FirstObserved
  <1>4. i.side \in {-1, 1} /\ i.alike \in BOOLEAN /\ i.notional \in Nat
    BY <1>2 DEF Order
  <1>5. Pending'
    BY <1>2 DEF Pending
  <1>6. CASE refs = {}
    <2>1. /\ result' = {[Outcome(i, price, Refusal("cancelled"), quantity) EXCEPT
                          !.alike = @ /\ i.notional = 0]}
          /\ held' = held /\ flows' = flows
      BY <1>1, <1>6
    <2>2. ASSUME NEW r \in result', r.alike
          PROVE  r.paper = r.backtest \/ (r.paper = 0 /\ r.why = "minimum")
      <3>1. /\ r.paper = 0 /\ r.backtest = quantity /\ r.why = i.why
            /\ i.alike /\ i.notional = 0
        <4>. HIDE DEF quantity, refs
        <4>. QED BY <1>4, <2>1, <2>2 DEF Outcome, Refusal
      <3>2. CASE i.why = "minimum"
        BY <3>1, <3>2
      <3>3. CASE i.backtest = 0
        <4>1. price \in Nat \ {0} /\ LotSize \in Nat \ {0}
          BY ExecutionAssumption
        <4>2. 0 \div price = 0 /\ 0 \div LotSize = 0 /\ 0 * LotSize = 0 /\ 0 * price = 0
          BY <4>1
        <4>3. Lots(0 \div price) = 0
          BY <4>2 DEF Lots
        <4>4. quantity = 0
          BY <3>3, <4>2, <4>3 DEF BacktestQuantity
        <4>. QED BY <3>1, <4>4
      <3>. QED BY <1>2, <3>1, <3>2, <3>3 DEF Sized
    <2>3. AdmittedAlike'
      BY <2>2 DEF AdmittedAlike
    <2>. QED BY <1>2, <1>5, <2>1, <2>3 DEF IInv, TypeOK, Booked, RiskAsSized
  <1>7. CASE refs # {}
    <2>1. PICK ref \in refs :
            \E fill \in Fills(Ordered(i, ref), i.side, ref, FALSE, "market") :
              /\ Enter(i, ref, fill)
              /\ result' = {[Outcome(i, ref, fill, quantity) EXCEPT !.alike = @ /\ ref = price]}
      BY <1>1, <1>7
    <2>2. PICK fill \in Fills(Ordered(i, ref), i.side, ref, FALSE, "market") :
              /\ Enter(i, ref, fill)
              /\ result' = {[Outcome(i, ref, fill, quantity) EXCEPT !.alike = @ /\ ref = price]}
      BY <2>1
    <2>. HIDE DEF quantity
    <2>3. ref \in Marks /\ i.notional # 0
      BY <1>3, <1>7
    <2>. HIDE DEF refs
    <2>4. Filled(fill, Ordered(i, ref))
      BY <1>2, <1>4, <2>3, OrderedType, FillsFilled DEF TypeOK
    <2>5. held' \in SUBSET Bought /\ flows' \in [cash : Int, units : Int] /\ Booked' /\ RiskAsSized'
      BY <1>2, <2>2, <2>3, <2>4, Entered
    <2>6. ASSUME engine = "next_open", NEW r \in result', r.alike,
                 r.refusal # "simulated_exchange_reject"
          PROVE  r.paper = r.backtest \/ r.paper \in Partials(r.backtest)
      <3>1. /\ r.paper = fill.quantity /\ r.backtest = quantity /\ r.refusal = fill.refusal
            /\ i.alike /\ ref = price
        BY <1>4, <2>2, <2>6 DEF Outcome
      <3>2. fill.quantity = quantity \/ fill.quantity \in Partials(quantity)
        BY <1>2, <2>2, <2>3, <2>6, <3>1, Alike DEF TypeOK, quantity
      <3>. QED BY <3>1, <3>2
    <2>7. AdmittedAlike'
      BY <1>2, <2>6 DEF AdmittedAlike
    <2>. QED BY <1>2, <1>5, <2>5, <2>7 DEF IInv, TypeOK
  <1>. QED BY <1>6, <1>7

\* No fill and no order: the history of fills is as it was.
LEMMA Marked ==
  ASSUME IInv, intent = {}, intent' = {}, engine' = engine, held' = held, flows' = flows,
         result' = {}, account' \in Ledger, account'.balance = account.balance,
         account'.debt = account.debt
  PROVE  IInv'
  <1>1. TypeOK'
    BY DEF IInv, TypeOK
  <1>2. Pending' /\ RiskAsSized' /\ AdmittedAlike'
    BY DEF IInv, Pending, RiskAsSized, AdmittedAlike
  <1>3. Booked'
    BY DEF IInv, Booked
  <1>. QED BY <1>1, <1>2, <1>3 DEF IInv

LEMMA BarStep ==
  ASSUME IInv, Bar PROVE IInv'
  <1>1. PICK p \in held, mark \in Marks, midnight \in BOOLEAN :
          LET equity == account.balance + p.side * (p.quantity * mark - p.worth)
          IN account' = [account EXCEPT !.peak = Max({@, equity}),
                                        !.day = IF midnight THEN equity ELSE @]
    BY DEF Bar
  <1>. DEFINE equity == account.balance + p.side * (p.quantity * mark - p.worth)
  <1>2. account \in Ledger /\ p \in Bought
    BY DEF IInv, TypeOK
  <1>3. equity \in Int
    <2>1. p.side \in {-1, 1} /\ p.quantity \in Nat /\ p.worth \in Int /\ mark \in Nat
      BY <1>2, Numbers DEF Bought
    <2>2. p.quantity * mark \in Nat
      BY <2>1
    <2>3. p.side * (p.quantity * mark - p.worth) \in Int
      BY <2>1, <2>2
    <2>. QED BY <1>2, <2>3 DEF Ledger
  <1>4. account' = [account EXCEPT !.peak = Max({@, equity}),
                                   !.day = IF midnight THEN equity ELSE @]
    BY <1>1
  <1>. HIDE DEF equity
  <1>5. Max({account.peak, equity}) \in Int
    BY <1>2, <1>3, MaxOfTwo DEF Ledger
  <1>6. account' \in Ledger /\ account'.balance = account.balance /\ account'.debt = account.debt
    BY <1>2, <1>3, <1>4, <1>5 DEF Ledger
  <1>. QED BY <1>6, Marked DEF Bar

LEMMA MidnightStep ==
  ASSUME IInv, Midnight PROVE IInv'
  <1>1. account \in Ledger
    BY DEF IInv, TypeOK
  <1>2. account' \in Ledger /\ account'.balance = account.balance /\ account'.debt = account.debt
    BY <1>1 DEF Midnight, Ledger
  <1>. QED BY <1>2, Marked DEF Midnight

\* An exit is filled whole or not at all: what is booked is what the fill was worth.
LEMMA CloseStep ==
  ASSUME IInv, Close PROVE IInv'
  <1>1. PICK p \in held, ref \in Marks, kind \in {"market", "stop", "take_profit", "liquidation"} :
          \E fill \in Fills(p.quantity, p.side, ref, TRUE, kind) :
            LET done == IF fill.quantity = 0 /\ p.attempts + 1 >= SettleAfter
                        THEN Fill(p.quantity, p.quantity * Slipped(ref, p.side, TRUE, kind))
                        ELSE fill
            IN IF done.quantity = 0
               THEN /\ held' = {[p EXCEPT !.attempts = @ + 1]}
                    /\ UNCHANGED <<account, flows>>
               ELSE /\ held' = {}
                    /\ account' = BookedClose(p, done)
                    /\ flows' = Traded(p.side * done.worth, -p.side * done.quantity)
    BY DEF Close
  <1>2. PICK fill \in Fills(p.quantity, p.side, ref, TRUE, kind) :
          LET done == IF fill.quantity = 0 /\ p.attempts + 1 >= SettleAfter
                      THEN Fill(p.quantity, p.quantity * Slipped(ref, p.side, TRUE, kind))
                      ELSE fill
          IN IF done.quantity = 0
             THEN /\ held' = {[p EXCEPT !.attempts = @ + 1]}
                  /\ UNCHANGED <<account, flows>>
             ELSE /\ held' = {}
                  /\ account' = BookedClose(p, done)
                  /\ flows' = Traded(p.side * done.worth, -p.side * done.quantity)
    BY <1>1
  <1>3. /\ TypeOK /\ Booked /\ RiskAsSized /\ engine' = engine /\ intent = {} /\ intent' = {}
        /\ result' = {}
    BY DEF IInv, Close
  <1>4. /\ p \in Bought /\ p.side \in {-1, 1} /\ p.quantity \in Nat \ {0} /\ p.worth \in Int
        /\ p.attempts \in Nat
        /\ flows.units = p.side * p.quantity /\ flows.cash \in Int /\ Funds \in Nat
        /\ account \in Ledger /\ account.balance \in Nat /\ account.debt \in Nat
        /\ account.balance = Funds + flows.cash + p.side * p.worth + account.debt
    BY <1>3, Numbers DEF TypeOK, Booked, Bought, Ledger
  <1>5. Filled(fill, p.quantity) /\ fill.quantity \in {0, p.quantity}
    BY <1>4, FillsFilled
  <1>6. Pending' /\ AdmittedAlike'
    BY <1>3 DEF Pending, AdmittedAlike
  <1>. DEFINE done == IF fill.quantity = 0 /\ p.attempts + 1 >= SettleAfter
                      THEN Fill(p.quantity, p.quantity * Slipped(ref, p.side, TRUE, kind))
                      ELSE fill
  <1>7. done.quantity \in {0, p.quantity} /\ done.worth \in Int
    <2>. DEFINE price == Slipped(ref, p.side, TRUE, kind)
    <2>1. price \in Int
      BY <1>4, Numbers, SlippedType
    <2>. HIDE DEF price
    <2>2. p.quantity * price \in Int
      BY <1>4, <2>1
    <2>. QED BY <1>5, <2>2 DEF Fill, Filled, price
  <1>8. IF done.quantity = 0
        THEN /\ held' = {[p EXCEPT !.attempts = @ + 1]}
             /\ UNCHANGED <<account, flows>>
        ELSE /\ held' = {}
             /\ account' = BookedClose(p, done)
             /\ flows' = Traded(p.side * done.worth, -p.side * done.quantity)
    BY <1>2
  <1>. HIDE DEF done
  <1>9. CASE done.quantity = 0
    <2>. DEFINE q == [p EXCEPT !.attempts = @ + 1]
    <2>1. held' = {q} /\ account' = account /\ flows' = flows
      BY <1>8, <1>9
    <2>2. /\ q \in Bought /\ q.side = p.side /\ q.quantity = p.quantity /\ q.worth = p.worth
          /\ q.still = p.still /\ q.stopped = p.stopped /\ q.loss = p.loss /\ q.limit = p.limit
      BY <1>4 DEF Bought
    <2>. HIDE DEF q
    <2>3. Booked' /\ RiskAsSized' /\ TypeOK'
      BY <1>3, <1>4, <2>1, <2>2 DEF Booked, RiskAsSized, TypeOK
    <2>. QED BY <1>6, <2>3 DEF IInv
  <1>10. CASE done.quantity # 0
    <2>. DEFINE gain == p.side * done.worth
                cost == p.side * p.worth
                raw == account.balance + gain - cost
                balance == Max({raw, 0})
    <2>1. done.quantity = p.quantity /\ (done.worth * p.quantity) \div done.quantity = done.worth
      BY <1>4, <1>7, <1>10
    <2>2. /\ gain \in Int /\ cost \in Int /\ p.side * (done.worth - p.worth) = gain - cost
          /\ raw \in Int
      BY <1>4, <1>7
    <2>3. account.balance + p.side * ((done.worth * p.quantity) \div done.quantity - p.worth) = raw
      BY <1>4, <2>1, <2>2
    <2>4. account' = [account EXCEPT !.balance = balance, !.debt = @ + balance - raw,
                                     !.peak = Max({@, balance})]
      BY <1>8, <1>10, <2>3 DEF BookedClose
    <2>5. flows' = [cash |-> flows.cash + gain, units |-> flows.units + (-p.side * done.quantity)]
      BY <1>8, <1>10 DEF Traded
    <2>6. flows.units + (-p.side * done.quantity) = 0
      <3>1. -p.side * p.quantity = -(p.side * p.quantity) /\ p.side * p.quantity \in Int
        BY <1>4
      <3>. QED BY <1>4, <2>1, <3>1
    <2>7. account.balance = Funds + flows.cash + cost + account.debt
      BY <1>4
    <2>. HIDE DEF gain, cost
    <2>8. raw = Funds + (flows.cash + gain) + account.debt
      <3>1. /\ account.balance \in Int /\ Funds \in Int /\ flows.cash \in Int
            /\ account.debt \in Int /\ gain \in Int /\ cost \in Int
        BY <1>4, <2>2
      <3>. QED BY <2>7, <3>1
    <2>9. raw \in Int
      BY <2>2
    <2>. HIDE DEF raw
    <2>10. balance \in Nat /\ raw <= balance
      <3>1. Max({raw, 0}) \in {raw, 0} /\ raw <= Max({raw, 0}) /\ 0 <= Max({raw, 0})
        BY <2>9, MaxOfTwo
      <3>. QED BY <2>9, <3>1
    <2>. HIDE DEF balance
    <2>11. /\ account'.balance = balance /\ account'.debt = account.debt + balance - raw
           /\ account' \in Ledger
      <3>1. Max({account.peak, balance}) \in Int
        <4>1. account.peak \in Int /\ balance \in Int
          BY <1>4, <2>10 DEF Ledger
        <4>2. Max({account.peak, balance}) \in {account.peak, balance}
          BY <4>1, MaxOfTwo
        <4>. QED BY <4>1, <4>2
      <3>2. account.debt + balance - raw \in Nat
        BY <1>4, <2>2, <2>10
      <3>. QED BY <1>4, <2>4, <2>10, <3>1, <3>2 DEF Ledger
    <2>12. flows' \in [cash : Int, units : Int] /\ flows'.units = 0 /\ flows'.cash = flows.cash + gain
      BY <1>4, <2>2, <2>5, <2>6
    <2>13. account'.balance = Funds + flows'.cash + account'.debt
      BY <1>4, <2>2, <2>8, <2>10, <2>11, <2>12
    <2>14. held' = {}
      BY <1>8, <1>10
    <2>15. Booked' /\ RiskAsSized' /\ TypeOK'
      BY <1>3, <2>11, <2>12, <2>13, <2>14 DEF Booked, RiskAsSized, TypeOK
    <2>. QED BY <1>6, <2>15 DEF IInv
  <1>. QED BY <1>9, <1>10

LEMMA InitIInv == ExecutionInit => IInv
  <1>. SUFFICES ASSUME ExecutionInit PROVE IInv
    OBVIOUS
  <1>1. Funds \in Nat
    BY Numbers
  <1>2. TypeOK
    BY <1>1 DEF ExecutionInit, TypeOK, Ledger
  <1>. QED BY <1>1, <1>2 DEF ExecutionInit, IInv, Pending, Booked, RiskAsSized, AdmittedAlike

LEMMA Inductive == ExecutionSpec => []IInv
  <1>1. ASSUME IInv, [ExecutionNext]_executionVars PROVE IInv'
    <2>1. CASE UNCHANGED executionVars
      BY <1>1, <2>1
         DEF executionVars, IInv, TypeOK, Pending, Sized, Booked, RiskAsSized, AdmittedAlike
    <2>. QED BY <1>1, <2>1, SignalStep, NextOpenStep, BarStep, MidnightStep, CloseStep
             DEF ExecutionNext
  <1>. QED BY <1>1, InitIInv, PTL DEF ExecutionSpec

-----------------------------------------------------------------------------
(* The theorems. *)

\* The stop of a position bought at the close it was sized at loses no more than the risk
\* limit of the balance, however the notional was capped, floored or reduced on the way from
\* sizing (sizing.py) through the risk engine (risk_engine.py) and the margin to the fill, and
\* wherever the position manager places the stop.
THEOREM ExecutionRiskAsSized == ExecutionSpec => []RiskAsSized
  <1>1. IInv => RiskAsSized
    BY DEF IInv
  <1>. QED BY <1>1, Inductive, PTL

\* What the decision loop leaves for the next open is filled there in the quantity the
\* backtester opens on the same signal, or partly, but where the loop refused it at the close
\* for the exchange's minimum.
THEOREM ExecutionAdmittedAlike == ExecutionSpec => []AdmittedAlike
  <1>1. IInv => AdmittedAlike
    BY DEF IInv
  <1>. QED BY <1>1, Inductive, PTL

\* A flat account holds what its fills made of the starting balance, and the debt written off:
\* no exit is booked in part, refused for ever or settled at a quantity it does not have.
THEOREM ExecutionCashIsFills == ExecutionSpec => []CashIsFills
  <1>1. IInv => CashIsFills
    BY DEF IInv, Booked, CashIsFills
  <1>. QED BY <1>1, Inductive, PTL

-----------------------------------------------------------------------------
(* The protective levels.  PathHonoured is of one evaluation: whatever levels the row came  *)
(* to, the exit on a bar is where the documented path first meets one of them.  The         *)
(* invariant is therefore the row's type, with at most one price for each level.            *)

OnePrice == {{}} \cup {{p} : p \in Int}
Held == [side : {"LONG", "SHORT"}, arm : Int, stop : OnePrice, target : OnePrice,
         trail : OnePrice, armed : BOOLEAN, peak : Int, trough : Int]
Watched == [side : {"LONG", "SHORT"}, arm : Int, stop : OnePrice, target : OnePrice,
            trail : OnePrice, armed : BOOLEAN, peak : Int, trough : Int, liquidation : OnePrice]

\* A bar, or its mirror image.
Candle == {b \in [open : Int, high : Int, low : Int, close : Int] :
             b.low <= b.open /\ b.low <= b.close /\ b.open <= b.high /\ b.close <= b.high}

\* The inductive invariant.
PositionInv ==
  /\ mode \in BOOLEAN /\ valid \in BOOLEAN /\ position \in Held
  /\ \A s \in seen : s.bar \in Bars /\ s.levels \in Watched /\ s.levels.side = position.side

\* The prices of the levels, the levels a bar is evaluated on, and the documented path.
Prices(v) == v.liquidation \cup v.stop \cup TrailingLevel(v)
Used(v, b) == IF mode THEN Extended(v, b) ELSE v
Path(v, b) == IF mode THEN RallyFirst(v, b) ELSE OldExtremes(v, b)
PeakAt(v, best) == [v EXCEPT !.peak = best]

\* F is where a fall from one price to another first meets one of the prices P.
Meets(F, from, to, P) ==
  /\ F # {} <=> \E p \in P : to <= p
  /\ \A x \in F :
       /\ x \in to..from /\ \E p \in P : x <= p
       /\ \A y \in to..from : (\E p \in P : y <= p) => y <= x

\* The exits e, but the target's, are on the path over the bar.
Kept(v, b, e) ==
  LET stopped == {x \in e : x.reason # "take_profit"}
  IN /\ stopped # {} <=> Path(v, b) # {}
     /\ \A x \in stopped, p \in Path(v, b) : IF mode THEN x.reference <= p ELSE x.reference = p

\* The Max and Min of the community module, of two prices.
LEMMA OfTwo ==
  ASSUME NEW x \in Int, NEW y \in Int
  PROVE  /\ Max({x, y}) = IF x >= y THEN x ELSE y
         /\ Min({x, y}) = IF x <= y THEN x ELSE y
  <1>1. /\ \E m \in {x, y} : \A z \in {x, y} : m >= z
        /\ \E m \in {x, y} : \A z \in {x, y} : m <= z
    OBVIOUS
  <1>2. /\ Max({x, y}) \in {x, y} /\ \A z \in {x, y} : Max({x, y}) >= z
        /\ Min({x, y}) \in {x, y} /\ \A z \in {x, y} : Min({x, y}) <= z
    BY <1>1 DEF Max, Min
  <1>. QED BY <1>2

LEMMA BarsAreCandles == ASSUME PriceAssumption PROVE Bars \subseteq Candle
  <1>1. ASSUME NEW b \in Bars PROVE b \in Candle
    <2>1. /\ b \in [open : Price, high : Price, low : Price, close : Price]
          /\ b.low <= Min({b.open, b.close}) /\ Max({b.open, b.close}) <= b.high
      BY Zenon DEF Bars
    <2>2. Price \subseteq Int
      BY DEF PriceAssumption
    <2>3. b \in [open : Int, high : Int, low : Int, close : Int]
      BY <2>1, <2>2
    <2>4. /\ Min({b.open, b.close}) = IF b.open <= b.close THEN b.open ELSE b.close
          /\ Max({b.open, b.close}) = IF b.open >= b.close THEN b.open ELSE b.close
      BY <2>3, OfTwo
    <2>. QED BY <2>1, <2>3, <2>4 DEF Candle
  <1>. QED BY <1>1

LEMMA ExtendedWatched ==
  ASSUME NEW v \in Watched, NEW b \in Candle
  PROVE  /\ Extended(v, b) \in Watched
         /\ Extended(v, b).peak = (IF v.peak >= b.high THEN v.peak ELSE b.high)
         /\ Extended(v, b).trough = (IF v.trough <= b.low THEN v.trough ELSE b.low)
         /\ \A f \in {"side", "arm", "stop", "target", "trail", "armed", "liquidation"} :
              Extended(v, b)[f] = v[f]
  <1>1. /\ v.peak \in Int /\ v.trough \in Int /\ b.high \in Int /\ b.low \in Int
    BY DEF Watched, Candle
  <1>2. /\ Max({v.peak, b.high}) = (IF v.peak >= b.high THEN v.peak ELSE b.high)
        /\ Min({v.trough, b.low}) = (IF v.trough <= b.low THEN v.trough ELSE b.low)
    BY <1>1, OfTwo
  <1>. QED BY <1>1, <1>2 DEF Extended, Watched

\* Among at most three levels one is reached first.
LEMMA FirstReached ==
  ASSUME NEW v \in Watched, NEW A \in SUBSET Levels(v), A # {}
  PROVE  \E l \in A : \A m \in A : Before(v, l, m)
  <1>1. PICK p \in Int : v.liquidation \subseteq {p}
    BY DEF Watched, OnePrice
  <1>2. PICK q \in Int : v.stop \subseteq {q}
    BY DEF Watched, OnePrice
  <1>3. PICK t \in Int : TrailingLevel(v) \subseteq {t}
    <2>1. PICK d \in Int : v.trail \subseteq {d}
      BY DEF Watched, OnePrice
    <2>2. v.peak - d \in Int /\ v.trough + d \in Int
      BY DEF Watched
    <2>. QED BY <2>1, <2>2 DEF TrailingLevel
  <1>. DEFINE l1 == <<"liquidation", p>>
              l2 == <<"stop_loss", q>>
              l3 == <<"trailing_stop", t>>
  <1>4. A \subseteq {l1, l2, l3}
    BY <1>1, <1>2, <1>3 DEF Levels
  <1>5. \A l, m \in {l1, l2, l3} : Before(v, l, m) \/ Before(v, m, l)
    BY DEF Before, Priority
  <1>6. \A l, m, k \in {l1, l2, l3} : Before(v, l, m) /\ Before(v, m, k) => Before(v, l, k)
    BY DEF Before, Priority
  <1>. HIDE DEF l1, l2, l3
  <1>. QED BY <1>4, <1>5, <1>6

\* An exit other than the target's is made if and only if a level is reached, at the price
\* of one that no other is reached before.
LEMMA StoppedAt ==
  ASSUME mode \in BOOLEAN, NEW v \in Watched, NEW b \in Candle, NEW w, w = Used(v, b),
         NEW stopped, stopped = {x \in Evaluated(v, b) : x.reason # "take_profit"}
  PROVE  /\ w \in Watched /\ w.side = v.side
         /\ stopped # {} <=> Adverse(w, b) # {}
         /\ \A x \in stopped : \E l \in Adverse(w, b) :
              /\ \A m \in Adverse(w, b) : Before(w, l, m)
              /\ x.reference = Reference(w, b, l[2])
  <1>. DEFINE A == Adverse(w, b)
              first == {l \in A : \A m \in A : Before(w, l, m)}
              exits == {Exit(l[1], l[2], Reference(w, b, l[2])) : l \in first}
  <1>1. w \in Watched /\ w.side = v.side
    BY ExtendedWatched DEF Used
  <1>2. Evaluated(v, b) = Choice(exits, Target(w, b))
    BY DEF Evaluated, Used
  <1>3. A \in SUBSET Levels(w)
    BY DEF Adverse
  <1>4. A # {} => first # {}
    BY <1>1, <1>3, FirstReached
  <1>5. \A l \in first : l[1] \in {"liquidation", "stop_loss", "trailing_stop"}
    BY DEF Adverse, Levels
  <1>6. \A x \in Target(w, b) : x.reason = "take_profit"
    BY DEF Target, Exit
  <1>7. \A l \in first : LET x == Exit(l[1], l[2], Reference(w, b, l[2])) IN
                           x.reason = l[1] /\ x.reference = Reference(w, b, l[2])
    BY DEF Exit
  <1>8. \A x \in exits : x.reason # "take_profit"
    BY <1>5, <1>7
  <1>9. exits # {} <=> first # {}
    OBVIOUS
  <1>10. first # {} => stopped = exits
    BY <1>2, <1>8, <1>9 DEF Choice
  <1>11. first = {} => stopped = {}
    BY <1>2, <1>6, <1>9 DEF Choice
  <1>12. stopped # {} <=> A # {}
    BY <1>4, <1>9, <1>10, <1>11
  <1>13. ASSUME NEW x \in stopped
         PROVE  \E l \in A : (\A m \in A : Before(w, l, m)) /\ x.reference = Reference(w, b, l[2])
    <2>1. PICK l \in first : x = Exit(l[1], l[2], Reference(w, b, l[2]))
      BY <1>10, <1>11
    <2>. QED BY <2>1, <1>7
  <1>. QED BY <1>1, <1>12, <1>13

\* The levels of a row by their prices.
LEMMA PricesOfLevels ==
  ASSUME NEW v \in Watched
  PROVE  /\ Prices(v) \subseteq Int
         /\ \A l \in Levels(v) : l[2] \in Prices(v)
         /\ \A p \in Prices(v) : \E l \in Levels(v) : l[2] = p
  <1>1. TrailingLevel(v) \subseteq Int
    BY DEF TrailingLevel, Watched, OnePrice
  <1>2. v.liquidation \subseteq Int /\ v.stop \subseteq Int
    BY DEF Watched, OnePrice
  <1>3. \A l \in Levels(v) : l[2] \in Prices(v)
    BY DEF Levels, Prices
  <1>4. ASSUME NEW p \in Prices(v) PROVE \E l \in Levels(v) : l[2] = p
    <2>1. CASE p \in v.liquidation
      <3>1. <<"liquidation", p>> \in Levels(v) BY <2>1 DEF Levels
      <3>. QED BY <3>1
    <2>2. CASE p \in v.stop
      <3>1. <<"stop_loss", p>> \in Levels(v) BY <2>2 DEF Levels
      <3>. QED BY <3>1
    <2>3. CASE p \in TrailingLevel(v)
      <3>1. <<"trailing_stop", p>> \in Levels(v) BY <2>3 DEF Levels
      <3>. QED BY <3>1
    <2>. QED BY <2>1, <2>2, <2>3 DEF Prices
  <1>. QED BY <1>1, <1>2, <1>3, <1>4 DEF Prices

\* A fall meets the levels first at the highest price it passes that is not above all.
LEMMA Falls ==
  ASSUME NEW v \in Watched, NEW from \in Int, NEW to \in Int, to <= from, NEW best \in Int
  PROVE  Meets(Fall(v, from, to, best), from, to, Prices(PeakAt(v, best)))
  <1>. DEFINE met == {p \in to..from : \E l \in Levels(PeakAt(v, best)) : p <= l[2]}
  <1>1. PeakAt(v, best) \in Watched
    BY DEF Watched, PeakAt
  <1>2. /\ Prices(PeakAt(v, best)) \subseteq Int
        /\ \A l \in Levels(PeakAt(v, best)) : l[2] \in Prices(PeakAt(v, best))
        /\ \A p \in Prices(PeakAt(v, best)) : \E l \in Levels(PeakAt(v, best)) : l[2] = p
    BY <1>1, PricesOfLevels
  <1>3. \A y \in to..from : y \in met <=> \E p \in Prices(PeakAt(v, best)) : y <= p
    BY <1>2
  <1>4. met # {} <=> \E p \in Prices(PeakAt(v, best)) : to <= p
    <2>1. ASSUME NEW p \in Prices(PeakAt(v, best)), to <= p PROVE to \in met
      BY <1>3, <2>1
    <2>2. ASSUME NEW y \in met PROVE \E p \in Prices(PeakAt(v, best)) : to <= p
      <3>1. PICK p \in Prices(PeakAt(v, best)) : y <= p /\ y \in to..from
        BY <1>3
      <3>. QED BY <1>2, <3>1
    <2>. QED BY <2>1, <2>2
  <1>5. Fall(v, from, to, best) = IF met = {} THEN {} ELSE {Max(met)}
    BY DEF Fall, PeakAt
  <1>6. met # {} => Max(met) \in met /\ \A y \in met : y <= Max(met)
    <2>1. met \in SUBSET Int /\ \A y \in met : y <= from
      OBVIOUS
    <2>2. ASSUME met # {} PROVE \E m \in met : \A y \in met : y <= m
      BY <2>1, <2>2, MaxExists
    <2>3. ASSUME met # {} PROVE \E m \in met : \A y \in met : m >= y
      BY <2>1, <2>2, <2>3
    <2>. QED BY <2>1, <2>3 DEF Max
  <1>7. \A y \in met : y \in to..from
    OBVIOUS
  <1>. HIDE DEF met
  <1>. QED BY <1>3, <1>4, <1>5, <1>6, <1>7 DEF Meets

\* The trailing level of a long depends on its best price alone, and rises with it.
LEMMA TrailRises ==
  ASSUME Entry \in Int, NEW v \in Watched, v.side = "LONG", NEW u \in Watched, u.side = "LONG",
         v.peak <= u.peak, u.arm = v.arm, u.stop = v.stop, u.trail = v.trail,
         u.armed = v.armed, u.liquidation = v.liquidation
  PROVE  /\ \A p \in Prices(v) : \E q \in Prices(u) : p <= q
         /\ v.peak = u.peak => Prices(v) = Prices(u)
  <1>1. /\ v.peak \in Int /\ u.peak \in Int /\ v.arm \in Int /\ v.armed \in BOOLEAN
        /\ v.stop \subseteq Int /\ v.liquidation \subseteq Int /\ v.trail \subseteq Int
    BY DEF Watched, OnePrice
  <1>2. TrailingActive(v) => TrailingActive(u)
    BY <1>1 DEF TrailingActive, Favour
  <1>3. v.peak = u.peak => TrailingLevel(v) = TrailingLevel(u)
    BY <1>1 DEF TrailingLevel, TrailingActive, Favour
  <1>4. ASSUME NEW p \in TrailingLevel(v) PROVE \E q \in TrailingLevel(u) : p <= q
    <2>1. TrailingActive(v) /\ TrailingActive(u)
      BY <1>2, <1>4 DEF TrailingLevel
    <2>2. PICK d \in v.trail : p = v.peak - d
      BY <1>4, <2>1 DEF TrailingLevel
    <2>3. u.peak - d \in TrailingLevel(u) /\ p <= u.peak - d
      BY <1>1, <2>1, <2>2 DEF TrailingLevel
    <2>. QED BY <2>3
  <1>. QED BY <1>1, <1>3, <1>4 DEF Prices

\* The path and the level reached first, of a long.
LEMMA LongPath ==
  ASSUME mode \in BOOLEAN, Entry \in Int, NEW v \in Watched, v.side = "LONG", NEW b \in Candle,
         NEW w, w = Used(v, b)
  PROVE  /\ Path(v, b) # {} <=> \E p \in Prices(w) : b.low <= p
         /\ \A level \in Prices(w) :
              b.low <= level /\ (\A m \in Prices(w) : b.low <= m => m <= level) =>
                \A x \in Path(v, b) :
                  LET at == IF b.open <= level THEN b.open ELSE level
                  IN IF mode THEN at <= x ELSE at = x
  <1>1. /\ v.peak \in Int /\ b.open \in Int /\ b.high \in Int /\ b.low \in Int
        /\ b.low <= b.open /\ b.open <= b.high
    BY DEF Watched, Candle
  <1>2. CASE ~mode
    <2>1. w = v /\ Path(v, b) = Fall(v, b.open, b.low, v.peak)
      BY <1>2 DEF Used, Path, OldExtremes
    <2>2. PeakAt(v, v.peak) = v
      BY DEF Watched, PeakAt
    <2>3. Prices(w) \subseteq Int
      BY <2>1, PricesOfLevels
    <2>4. Meets(Path(v, b), b.open, b.low, Prices(w))
      BY <1>1, <2>1, <2>2, Falls
    <2>5. ASSUME NEW level \in Prices(w), b.low <= level,
                 \A m \in Prices(w) : b.low <= m => m <= level, NEW x \in Path(v, b),
                 NEW at, at = IF b.open <= level THEN b.open ELSE level
          PROVE  at = x
      <3>1. at \in b.low..b.open /\ at <= level
        BY <1>1, <2>3, <2>5
      <3>2. at <= x /\ x \in b.low..b.open
        BY <2>4, <2>5, <3>1 DEF Meets
      <3>3. PICK p \in Prices(w) : x <= p
        BY <2>4, <2>5 DEF Meets
      <3>4. p <= level
        BY <1>1, <2>3, <2>5, <3>2, <3>3
      <3>. QED BY <1>1, <2>3, <2>5, <3>2, <3>3, <3>4
    <2>. QED BY <1>2, <2>4, <2>5 DEF Meets
  <1>3. CASE mode
    <2>. DEFINE p1 == IF v.peak >= b.open THEN v.peak ELSE b.open
                p2 == IF v.peak >= b.high THEN v.peak ELSE b.high
                u1 == PeakAt(v, p1)
                u2 == PeakAt(v, p2)
                F1 == Fall(v, b.open, b.open, p1)
                F2 == Fall(v, b.high, b.low, p2)
    <2>1. /\ Max({v.peak, b.open}) = p1 /\ Max({v.peak, b.high}) = p2
          /\ p1 \in Int /\ p2 \in Int /\ p1 <= p2
      BY <1>1, OfTwo
    <2>2. Path(v, b) = IF F1 # {} THEN F1 ELSE F2
      BY <1>3, <2>1 DEF Path, RallyFirst, Then
    <2>3. w = Extended(v, b)
      BY <1>3 DEF Used
    <2>4. /\ w \in Watched /\ w.peak = p2 /\ w.side = "LONG" /\ w.arm = v.arm /\ w.stop = v.stop
          /\ w.trail = v.trail /\ w.armed = v.armed /\ w.liquidation = v.liquidation
      BY <2>3, ExtendedWatched
    <2>5. /\ u1 \in Watched /\ u1.peak = p1 /\ u1.side = "LONG" /\ u1.arm = v.arm
          /\ u1.stop = v.stop /\ u1.trail = v.trail /\ u1.armed = v.armed
          /\ u1.liquidation = v.liquidation
          /\ u2 \in Watched /\ u2.peak = p2 /\ u2.side = "LONG" /\ u2.arm = v.arm
          /\ u2.stop = v.stop /\ u2.trail = v.trail /\ u2.armed = v.armed
          /\ u2.liquidation = v.liquidation
      BY <2>1 DEF Watched, PeakAt
    <2>. HIDE DEF p1, p2
    <2>6. Meets(F1, b.open, b.open, Prices(u1))
      BY <1>1, <2>1, Falls
    <2>7. Meets(F2, b.high, b.low, Prices(u2))
      BY <1>1, <2>1, Falls
    <2>. HIDE DEF u1, u2, F1, F2
    <2>8. Prices(u2) = Prices(w)
      BY <2>1, <2>4, <2>5, TrailRises
    <2>9. \A p \in Prices(u1) : \E q \in Prices(w) : p <= q
      BY <2>1, <2>4, <2>5, TrailRises
    <2>10. Prices(w) \subseteq Int /\ Prices(u1) \subseteq Int
      BY <2>4, <2>5, PricesOfLevels
    <2>11. F1 # {} => \E p \in Prices(w) : b.low <= p
      <3>1. SUFFICES ASSUME F1 # {} PROVE \E p \in Prices(w) : b.low <= p
        OBVIOUS
      <3>2. PICK p \in Prices(u1) : b.open <= p
        BY <2>6, <3>1 DEF Meets
      <3>3. PICK q \in Prices(w) : p <= q
        BY <2>9
      <3>. QED BY <1>1, <2>10, <3>2, <3>3
    <2>12. ASSUME NEW level \in Prices(w), b.low <= level, NEW x \in Path(v, b),
                  NEW at, at = IF b.open <= level THEN b.open ELSE level
           PROVE  at <= x
      <3>1. at \in Int /\ at <= b.open /\ at \in b.low..b.high /\ at <= level
        BY <1>1, <2>10, <2>12
      <3>2. CASE x \in F1
        BY <1>1, <2>6, <3>1, <3>2 DEF Meets
      <3>3. CASE x \in F2
        BY <2>7, <2>8, <2>12, <3>1, <3>3 DEF Meets
      <3>. QED BY <2>2, <2>12, <3>2, <3>3
    <2>. QED BY <1>3, <2>2, <2>7, <2>8, <2>11, <2>12 DEF Meets
  <1>. QED BY <1>2, <1>3

\* A short row and its mirror image: levels, and what a bar makes of the extremes.
LEMMA Mirrored ==
  ASSUME Entry \in Int, NEW v \in Watched, v.side = "SHORT"
  PROVE  /\ MirrorLevels(v) \in Watched /\ MirrorLevels(v).side = "LONG"
         /\ Prices(MirrorLevels(v)) = ReflectAll(Prices(v))
  <1>. DEFINE u == MirrorLevels(v)
  <1>1. /\ v.peak \in Int /\ v.trough \in Int /\ v.arm \in Int /\ v.armed \in BOOLEAN
        /\ v.trail \in OnePrice /\ v.stop \in OnePrice /\ v.target \in OnePrice
        /\ v.liquidation \in OnePrice
    BY DEF Watched
  <1>2. \A P \in OnePrice : ReflectAll(P) \in OnePrice /\ P \subseteq Int
    BY DEF OnePrice, ReflectAll, Reflect
  <1>3. /\ u.side = "LONG" /\ u.arm = v.arm /\ u.stop = ReflectAll(v.stop)
        /\ u.target = ReflectAll(v.target) /\ u.trail = v.trail /\ u.armed = v.armed
        /\ u.peak = Reflect(v.trough) /\ u.trough = Reflect(v.peak)
        /\ u.liquidation = ReflectAll(v.liquidation)
    BY DEF Watched, MirrorLevels
  <1>4. Reflect(v.trough) \in Int /\ Reflect(v.peak) \in Int
    BY <1>1 DEF Reflect
  <1>5. u \in Watched
    BY <1>1, <1>2, <1>4 DEF Watched, MirrorLevels
  <1>6. TrailingActive(u) <=> TrailingActive(v)
    BY <1>1, <1>3 DEF TrailingActive, Favour, Reflect
  <1>7. TrailingLevel(u) = ReflectAll(TrailingLevel(v))
    <2>1. \A d \in v.trail : d \in Int /\ u.peak - d = Reflect(v.trough + d)
      BY <1>1, <1>2, <1>3 DEF Reflect
    <2>2. CASE TrailingActive(v)
      <3>1. TrailingLevel(v) = {v.trough + d : d \in v.trail}
        BY <2>2 DEF TrailingLevel
      <3>2. TrailingLevel(u) = {u.peak - d : d \in v.trail}
        BY <1>3, <1>6, <2>2 DEF TrailingLevel
      <3>. HIDE DEF u
      <3>3. TrailingLevel(u) = {Reflect(v.trough + d) : d \in v.trail}
        BY <2>1, <3>2
      <3>4. ReflectAll({v.trough + d : d \in v.trail}) = {Reflect(v.trough + d) : d \in v.trail}
        BY DEF ReflectAll
      <3>. QED BY <3>1, <3>3, <3>4
    <2>3. CASE ~TrailingActive(v)
      BY <1>6, <2>3 DEF TrailingLevel, ReflectAll
    <2>. QED BY <2>2, <2>3
  <1>8. Prices(u) = ReflectAll(Prices(v))
    BY <1>3, <1>7 DEF Prices, ReflectAll
  <1>. QED BY <1>3, <1>5, <1>8

LEMMA MirroredBar ==
  ASSUME Entry \in Int, mode \in BOOLEAN, NEW v \in Watched, NEW b \in Candle
  PROVE  /\ MirrorBar(b) \in Candle
         /\ Used(MirrorLevels(v), MirrorBar(b)) = MirrorLevels(Used(v, b))
  <1>1. /\ b.open \in Int /\ b.high \in Int /\ b.low \in Int /\ b.close \in Int
        /\ b.low <= b.open /\ b.low <= b.close /\ b.open <= b.high /\ b.close <= b.high
        /\ v.peak \in Int /\ v.trough \in Int
    BY DEF Candle, Watched
  <1>2. MirrorBar(b) \in Candle
    BY <1>1 DEF MirrorBar, Candle, Reflect
  <1>3. /\ Max({Reflect(v.trough), Reflect(b.low)}) = Reflect(Min({v.trough, b.low}))
        /\ Min({Reflect(v.peak), Reflect(b.high)}) = Reflect(Max({v.peak, b.high}))
    <2>1. /\ Reflect(v.trough) \in Int /\ Reflect(b.low) \in Int
          /\ Reflect(v.peak) \in Int /\ Reflect(b.high) \in Int
      BY <1>1 DEF Reflect
    <2>2. /\ Min({v.trough, b.low}) = IF v.trough <= b.low THEN v.trough ELSE b.low
          /\ Max({v.peak, b.high}) = IF v.peak >= b.high THEN v.peak ELSE b.high
      BY <1>1, OfTwo
    <2>3. /\ Max({Reflect(v.trough), Reflect(b.low)}) =
               IF Reflect(v.trough) >= Reflect(b.low) THEN Reflect(v.trough) ELSE Reflect(b.low)
          /\ Min({Reflect(v.peak), Reflect(b.high)}) =
               IF Reflect(v.peak) <= Reflect(b.high) THEN Reflect(v.peak) ELSE Reflect(b.high)
      BY <2>1, OfTwo
    <2>. QED BY <1>1, <2>2, <2>3 DEF Reflect
  <1>4. Extended(MirrorLevels(v), MirrorBar(b)) = MirrorLevels(Extended(v, b))
    BY <1>3 DEF Extended, MirrorLevels, MirrorBar, Watched
  <1>. QED BY <1>2, <1>4 DEF Used

\* The exit of one evaluation is on the path.
LEMMA OnThePath ==
  ASSUME Entry \in Int, mode \in BOOLEAN, NEW v \in Watched, NEW b \in Candle
  PROVE  /\ v.side = "LONG" => Kept(v, b, Evaluated(v, b))
         /\ v.side = "SHORT" => Kept(MirrorLevels(v), MirrorBar(b), MirrorExit(Evaluated(v, b)))
  <1>. DEFINE w == Used(v, b)
              made == {x \in Evaluated(v, b) : x.reason # "take_profit"}
  <1>1. /\ w \in Watched /\ w.side = v.side
        /\ made # {} <=> Adverse(w, b) # {}
        /\ \A x \in made : \E l \in Adverse(w, b) :
              /\ \A m \in Adverse(w, b) : Before(w, l, m)
              /\ x.reference = Reference(w, b, l[2])
    BY StoppedAt
  <1>2. /\ b.open \in Int /\ b.high \in Int /\ b.low \in Int /\ b.low <= b.open /\ b.open <= b.high
    BY DEF Candle
  <1>3. /\ Prices(w) \subseteq Int /\ \A l \in Levels(w) : l[2] \in Prices(w)
        /\ \A p \in Prices(w) : \E l \in Levels(w) : l[2] = p
    BY <1>1, PricesOfLevels
  <1>. HIDE DEF w, made
  <1>4. CASE v.side = "LONG"
    <2>2. /\ Path(v, b) # {} <=> \E p \in Prices(w) : b.low <= p
          /\ \A level \in Prices(w) :
               b.low <= level /\ (\A m \in Prices(w) : b.low <= m => m <= level) =>
                 \A x \in Path(v, b) :
                   LET at == IF b.open <= level THEN b.open ELSE level
                   IN IF mode THEN at <= x ELSE at = x
      BY <1>4, LongPath DEF w
    <2>3. \A l : l \in Adverse(w, b) <=> l \in Levels(w) /\ b.low <= l[2]
      BY <1>1, <1>4 DEF Adverse, Hit
    <2>4. Adverse(w, b) # {} <=> \E p \in Prices(w) : b.low <= p
      BY <1>3, <2>3
    <2>5. ASSUME NEW x \in made, NEW p \in Path(v, b)
          PROVE  IF mode THEN x.reference <= p ELSE x.reference = p
      <3>1. PICK l \in Adverse(w, b) : /\ \A m \in Adverse(w, b) : Before(w, l, m)
                                       /\ x.reference = Reference(w, b, l[2])
        BY <1>1, <2>5
      <3>2. l[2] \in Prices(w) /\ l[2] \in Int /\ b.low <= l[2]
        BY <1>3, <2>3
      <3>3. x.reference = IF b.open <= l[2] THEN b.open ELSE l[2]
        BY <1>1, <1>2, <1>4, <3>1, <3>2, OfTwo DEF Reference
      <3>4. \A m \in Adverse(w, b) : m[2] <= l[2]
        BY <1>1, <1>3, <1>4, <2>3, <3>1, <3>2 DEF Before
      <3>5. \A m \in Prices(w) : b.low <= m => m <= l[2]
        BY <1>3, <2>3, <3>4
      <3>. QED BY <2>2, <2>5, <3>2, <3>3, <3>5
    <2>6. Kept(v, b, Evaluated(v, b))
      BY <1>1, <2>2, <2>4, <2>5 DEF Kept, made
    <2>. QED BY <1>4, <2>6
  <1>5. CASE v.side = "SHORT"
    <2>. DEFINE u == MirrorLevels(v)
                c == MirrorBar(b)
                e == MirrorExit(Evaluated(v, b))
                stopped == {x \in e : x.reason # "take_profit"}
    <2>2. /\ u \in Watched /\ u.side = "LONG" /\ c \in Candle
          /\ Used(u, c) = MirrorLevels(w)
      BY <1>5, Mirrored, MirroredBar DEF w
    <2>3. Prices(MirrorLevels(w)) = ReflectAll(Prices(w))
      BY <1>1, <1>5, Mirrored
    <2>4. c.low = Reflect(b.high) /\ c.open = Reflect(b.open)
      BY DEF MirrorBar
    <2>. HIDE DEF u, c
    <2>5. /\ Path(u, c) # {} <=> \E p \in ReflectAll(Prices(w)) : c.low <= p
          /\ \A level \in ReflectAll(Prices(w)) :
               c.low <= level /\ (\A m \in ReflectAll(Prices(w)) : c.low <= m => m <= level) =>
                 \A x \in Path(u, c) :
                   LET at == IF c.open <= level THEN c.open ELSE level
                   IN IF mode THEN at <= x ELSE at = x
      BY <2>2, <2>3, LongPath
    <2>6. \A l : l \in Adverse(w, b) <=> l \in Levels(w) /\ b.high >= l[2]
      BY <1>1, <1>5 DEF Adverse, Hit
    <2>7. \A q \in Int : c.low <= Reflect(q) <=> b.high >= q
      BY <1>2, <2>4 DEF Reflect
    <2>8. Adverse(w, b) # {} <=> \E p \in ReflectAll(Prices(w)) : c.low <= p
      BY <1>3, <2>6, <2>7 DEF ReflectAll
    <2>9. /\ \A x \in stopped : \E y \in made : x.reference = Reflect(y.reference)
          /\ stopped # {} <=> made # {}
      <3>. DEFINE image(y) == [y EXCEPT !.level = Reflect(@), !.reference = Reflect(@)]
      <3>1. \A y \in Evaluated(v, b) : \E r, l, f : y = Exit(r, l, f)
        BY DEF Evaluated, Choice, Target
      <3>2. \A y \in Evaluated(v, b) :
              image(y).reason = y.reason /\ image(y).reference = Reflect(y.reference)
        BY <3>1 DEF Exit
      <3>3. e = {image(y) : y \in Evaluated(v, b)}
        BY DEF MirrorExit
      <3>. HIDE DEF image
      <3>. QED BY <3>2, <3>3 DEF made
    <2>. HIDE DEF e, stopped
    <2>10. ASSUME NEW x \in stopped, NEW p \in Path(u, c)
           PROVE  IF mode THEN x.reference <= p ELSE x.reference = p
      <3>1. PICK y \in made : x.reference = Reflect(y.reference)
        BY <2>9
      <3>2. PICK l \in Adverse(w, b) : /\ \A m \in Adverse(w, b) : Before(w, l, m)
                                       /\ y.reference = Reference(w, b, l[2])
        BY <1>1
      <3>3. l[2] \in Prices(w) /\ l[2] \in Int /\ b.high >= l[2]
        BY <1>3, <2>6
      <3>4. y.reference = IF b.open >= l[2] THEN b.open ELSE l[2]
        BY <1>1, <1>2, <1>5, <3>2, <3>3, OfTwo DEF Reference
      <3>5. \A m \in Adverse(w, b) : l[2] <= m[2]
        BY <1>1, <1>3, <1>5, <2>6, <3>2, <3>3 DEF Before
      <3>. DEFINE level == Reflect(l[2])
      <3>6. level \in ReflectAll(Prices(w)) /\ c.low <= level
        BY <2>7, <3>3 DEF ReflectAll
      <3>7. \A m \in Prices(w) : b.high >= m => l[2] <= m
        BY <1>3, <2>6, <3>5
      <3>8. \A m \in ReflectAll(Prices(w)) : c.low <= m => m <= level
        BY <1>3, <2>7, <3>3, <3>7 DEF ReflectAll, Reflect
      <3>9. x.reference = IF c.open <= level THEN c.open ELSE level
        BY <1>2, <2>4, <3>1, <3>3, <3>4 DEF Reflect
      <3>. HIDE DEF level
      <3>. QED BY <2>5, <2>10, <3>6, <3>8, <3>9
    <2>11. Kept(u, c, e)
      BY <1>1, <2>5, <2>8, <2>9, <2>10 DEF Kept, stopped
    <2>. QED BY <1>5, <2>11 DEF u, c, e
  <1>. QED BY <1>4, <1>5 DEF Watched

LEMMA OpenedHeld == PriceAssumption /\ Init => PositionInv
  <1>. SUFFICES ASSUME PriceAssumption, Init PROVE PositionInv
    OBVIOUS
  <1>1. PICK side \in {"LONG", "SHORT"}, s \in Stops, t \in Targets, d \in Trails, a \in Activations :
          position = Opened(side, s, t, d, a)
    BY DEF Init
  <1>2. s \in Nat /\ t \in Nat /\ d \in Nat /\ a \in Nat /\ Entry \in Nat
    BY DEF PriceAssumption
  <1>3. \A x \in Int, p \in Int : Unless0(x, p) \in OnePrice
    BY DEF Unless0, OnePrice
  <1>4. Opened(side, s, t, d, a) \in Held
    BY <1>2, <1>3 DEF Opened, Held
  <1>. QED BY <1>1, <1>4 DEF Init, PositionInv, PriceAssumption

\* What _manage_open_position evaluates is a row with one price for each level.
LEMMA LevelsWatched ==
  ASSUME PriceAssumption, PositionInv, NEW balance \in Balances
  PROVE  /\ LevelsOf(balance) \in Watched /\ LevelsOf(balance).side = position.side
  <1>. DEFINE v == LevelsOf(balance)
              L == LiquidationPrice(position.side, balance)
  <1>1. L \in OnePrice
    <2>1. /\ balance \in Int /\ Entry \in Int /\ Rate[1] \in Int /\ Rate[2] \in Int
          /\ Rate[2] - Rate[1] > 0 /\ Rate[2] + Rate[1] > 0
      BY DEF PriceAssumption
    <2>2. /\ Rate[2] * (Entry - balance) \in Int /\ -Rate[2] * (Entry + balance) \in Int
      BY <2>1
    <2>3. /\ (Rate[2] * (Entry - balance)) \div (Rate[2] - Rate[1]) \in Int
          /\ -((-Rate[2] * (Entry + balance)) \div (Rate[2] + Rate[1])) \in Int
      BY <2>1, <2>2
    <2>. QED BY <2>3 DEF LiquidationPrice, OnePrice
  <1>2. /\ position \in Held /\ valid \in BOOLEAN
        /\ DOMAIN position = {"side", "arm", "stop", "target", "trail", "armed", "peak", "trough"}
    BY DEF PositionInv, Held
  <1>. HIDE DEF L
  <1>3. v = [side |-> position.side, arm |-> IF valid THEN position.arm ELSE 0,
             stop |-> position.stop, target |-> position.target, trail |-> position.trail,
             armed |-> position.armed, peak |-> position.peak, trough |-> position.trough,
             liquidation |-> L]
    BY <1>2 DEF LevelsOf, L
  <1>. HIDE DEF v
  <1>4. v \in Watched /\ v.side = position.side
    BY <1>1, <1>2, <1>3 DEF Held, Watched
  <1>. QED BY <1>4 DEF v

\* The invariant holds of every reachable state.
THEOREM PositionInductive == Spec => []PositionInv
  <1>1. PositionInv /\ [Next]_vars => PositionInv'
    <2>. SUFFICES ASSUME PositionInv, [Next]_vars PROVE PositionInv'
      OBVIOUS
    <2>1. CASE Manage
      <3>1. PICK b \in Bars, balance \in Balances :
              LET v == LevelsOf(balance)
                  trigger == Evaluated(v, b)
              IN /\ seen' = {[bar |-> b, levels |-> v]}
                 /\ position' = IF trigger # {} THEN position ELSE Advanced(v, b)
        BY <2>1 DEF Manage
      <3>. DEFINE v == LevelsOf(balance)
      <3>2. v \in Watched /\ v.side = position.side
        BY PriceAssumption, LevelsWatched
      <3>3. b \in Candle
        BY PriceAssumption, BarsAreCandles
      <3>4. position \in Held /\ mode' = mode /\ valid' = valid
        BY <2>1 DEF Manage, PositionInv
      <3>. HIDE DEF v
      <3>5. Advanced(v, b) \in Held /\ Advanced(v, b).side = position.side
        <4>1. Extended(v, b) \in Watched
          BY <3>2, <3>3, ExtendedWatched
        <4>2. TrailingActive(Extended(v, b)) \in BOOLEAN
          BY <4>1 DEF TrailingActive, Watched
        <4>. QED BY <3>4, <4>1, <4>2 DEF Advanced, Held, Watched
      <3>6. position' \in Held /\ position'.side = position.side
        BY <3>1, <3>4, <3>5 DEF v
      <3>7. seen' = {[bar |-> b, levels |-> v]}
        BY <3>1 DEF v
      <3>. QED BY <3>2, <3>4, <3>6, <3>7 DEF PositionInv
    <2>2. CASE Invalidate
      BY <2>2 DEF Invalidate, PositionInv
    <2>3. CASE UNCHANGED vars
      BY <2>3 DEF vars, PositionInv
    <2>. QED BY <2>1, <2>2, <2>3 DEF Next
  <1>. QED BY <1>1, PriceAssumption, OpenedHeld, PTL DEF Spec

\* evaluate_bar: a protective exit is made whenever the documented path meets a level, never
\* at a better price than there; on a short as on its mirror image, for all prices.
THEOREM PathKept == Spec => []PathHonoured
  <1>1. PositionInv => PathHonoured
    <2>. SUFFICES ASSUME PositionInv, NEW s \in seen PROVE
           LET v == IF Long THEN s.levels ELSE MirrorLevels(s.levels)
               b == IF Long THEN s.bar ELSE MirrorBar(s.bar)
               made == Evaluated(s.levels, s.bar)
               e == IF Long THEN made ELSE MirrorExit(made)
               path == IF mode THEN RallyFirst(v, b) ELSE OldExtremes(v, b)
               stopped == {x \in e : x.reason # "take_profit"}
           IN /\ stopped # {} <=> path # {}
              /\ \A x \in stopped, p \in path : IF mode THEN x.reference <= p ELSE x.reference = p
      BY Zenon DEF PathHonoured
    <2>1. s.bar \in Candle /\ s.levels \in Watched /\ Entry \in Int /\ mode \in BOOLEAN
      BY PriceAssumption, BarsAreCandles DEF PositionInv, PriceAssumption
    <2>2. Long <=> s.levels.side = "LONG"
      BY DEF PositionInv, Long
    <2>3. CASE Long
      <3>1. Kept(s.levels, s.bar, Evaluated(s.levels, s.bar))
        BY <2>1, <2>2, <2>3, OnThePath
      <3>. QED BY <2>3, <3>1 DEF Kept, Path
    <2>4. CASE ~Long
      <3>1. s.levels.side = "SHORT"
        BY <2>1, <2>2, <2>4 DEF Watched
      <3>2. Kept(MirrorLevels(s.levels), MirrorBar(s.bar), MirrorExit(Evaluated(s.levels, s.bar)))
        BY <2>1, <3>1, OnThePath
      <3>. QED BY <2>4, <3>2 DEF Kept, Path
    <2>. QED BY <2>3, <2>4
  <1>. QED BY <1>1, PositionInductive, PTL

-----------------------------------------------------------------------------
(* The council, for every set of analysts and of keys, every quorum, margin, interval and   *)
(* number of retries, rotations and bars.  No call is out while the keys may be refreshed   *)
(* (Quiet), so the position a call was sent from keeps its key until its answer is booked;  *)
(* and from the commit on, the cycle's verdict either fails closed or consents as the       *)
(* committed row of this bar does (Backed).                                                 *)

\* The types of the state: a position of the pool, a task's call, a ConsensusResult.
Health == [key : Key, disabled : BOOLEAN, cooling : BOOLEAN]
Call == [at : {"none", "queued", "sent", "done"}, index : Nat, key : Key \cup {"none"}, tries : Nat,
         answer : Answer \cup {"none", "failed"}]
Consensus == [status : {"NOT_RUN", "INCOMPLETE", "COMPLETE"}, bias : Bias \cup {"none"},
              sure : BOOLEAN, allowed : BOOLEAN, quorum : BOOLEAN]

CouncilType ==
  /\ configured \in KeyLists /\ cursor \in Nat /\ forced \in BOOLEAN
  /\ keys \in Seq(Health) /\ Len(keys) > 0
  /\ call \in [Caller -> Call]
  /\ pc \in {"idle", "analysts", "judge", "commit", "decide"}
  /\ latest \in BOOLEAN /\ verdict \in Consensus

\* Nothing is in flight while the keys may be refreshed.
Quiet ==
  /\ pc \in {"idle", "decide", "commit"} => InFlight = {}
  /\ pc = "judge" => InFlight \subseteq {Judge}

\* A verdict that lets a trade through.
Consents(v) == v.status = "COMPLETE" /\ v.allowed /\ v.quorum

\* What the verdict and the row are when: a council is asked only if it is due, and a
\* verdict that reaches the decision is stored or fails closed.
Backed ==
  /\ pc \in {"analysts", "judge", "commit"} => Required
  /\ pc = "judge" => Consents(verdict)
  /\ pc = "commit" => verdict.status = "INCOMPLETE" \/ Consents(verdict)
  /\ pc = "decide" /\ Required =>
       \/ verdict.status = "INCOMPLETE"
       \/ row.bar = bar /\ Consents(row.verdict)

\* The inductive invariant.
CouncilInv == CouncilType /\ BookedOnItsKey /\ Quiet /\ Backed

\* The values a call takes when it is made and when it ends.
LEMMA CallTypes ==
  /\ NoCall \in Call /\ Called \in Call
  /\ NoCall.at = "none" /\ Called.at \in {"queued", "done"}
  /\ \A a \in Answer \cup {"failed"} :
       /\ [NoCall EXCEPT !.at = "done", !.answer = a] \in Call
       /\ [NoCall EXCEPT !.at = "done", !.answer = a].at = "done"
  BY DEF NoCall, Called, Call

\* A refresh gives a pool of the configured keys.
LEMMA Fitted ==
  ASSUME NEW new \in KeyLists, CouncilType, NEW force \in BOOLEAN
  PROVE  Renewed(new, force) \in Seq(Health) /\ Len(Renewed(new, force)) > 0
  <1>1. PICK n \in {1, 2} : new \in [1..n -> Key]
    BY DEF KeyLists
  <1>2. ASSUME NEW i \in 1..n
        PROVE  (LET old == {j \in DOMAIN keys : keys[j].key = new[i]} IN
                IF force \/ old = {} THEN Fresh(new[i]) ELSE keys[CHOOSE j \in old : TRUE]) \in Health
    <2>. DEFINE old == {j \in DOMAIN keys : keys[j].key = new[i]}
    <2>1. Fresh(new[i]) \in Health
      BY <1>1 DEF Fresh, Health
    <2>2. old # {} => (CHOOSE j \in old : TRUE) \in DOMAIN keys
      OBVIOUS
    <2>3. \A j \in DOMAIN keys : keys[j] \in Health
      BY DEF CouncilType
    <2>. QED BY <2>1, <2>2, <2>3
  <1>3. Renewed(new, force) \in [1..n -> Health]
    BY <1>1, <1>2 DEF Renewed
  <1>. HIDE DEF Renewed
  <1>. QED BY <1>3

\* The initial states satisfy the invariant.
LEMMA CouncilInitial == CouncilInit => CouncilInv
  <1>. SUFFICES ASSUME CouncilInit PROVE CouncilInv
    OBVIOUS
  <1>1. PICK n \in {1, 2} : configured \in [1..n -> Key]
    BY DEF CouncilInit, ClientInit, KeyLists
  <1>2. keys \in [1..n -> Health]
    BY <1>1 DEF CouncilInit, ClientInit, Fresh, Health
  <1>3. keys \in Seq(Health) /\ Len(keys) > 0
    BY <1>2
  <1>4. CouncilType
    BY <1>3, CallTypes DEF CouncilInit, ClientInit, CouncilType, NotRun, Consensus
  <1>. QED BY <1>4 DEF CouncilInit, ClientInit, CouncilInv, BookedOnItsKey, Quiet, Backed, InFlight, NoCall

\* The pool as the steps of the calls leave it.
SameKeys == /\ keys' \in Seq(Health) /\ Len(keys') = Len(keys)
            /\ \A i \in DOMAIN keys : keys'[i].key = keys[i].key

\* A cooldown or a disabled key leaves every position its key.
LEMMA KeyMarked ==
  ASSUME CouncilType, NEW i,
         \/ keys' = [keys EXCEPT ![i].cooling = TRUE]
         \/ keys' = [keys EXCEPT ![i].cooling = FALSE]
         \/ keys' = [keys EXCEPT ![i].disabled = TRUE]
  PROVE  SameKeys
  <1>1. CASE i \notin DOMAIN keys \/ keys' = keys
    BY <1>1 DEF SameKeys, CouncilType
  <1>2. ASSUME i \in DOMAIN keys, keys' # keys PROVE SameKeys
    <2>0. keys[i] \in Health
      BY <1>2 DEF CouncilType
    <2>1. PICK h \in Health : h.key = keys[i].key /\ keys' = [keys EXCEPT ![i] = h]
      <3>1. /\ [keys[i] EXCEPT !.cooling = TRUE] \in Health /\ [keys[i] EXCEPT !.cooling = FALSE] \in Health
            /\ [keys[i] EXCEPT !.disabled = TRUE] \in Health
        BY <2>0 DEF Health
      <3>2. /\ [keys[i] EXCEPT !.cooling = TRUE].key = keys[i].key
            /\ [keys[i] EXCEPT !.cooling = FALSE].key = keys[i].key
            /\ [keys[i] EXCEPT !.disabled = TRUE].key = keys[i].key
        BY <2>0 DEF Health
      <3>3. \E h \in {[keys[i] EXCEPT !.cooling = TRUE], [keys[i] EXCEPT !.cooling = FALSE],
                      [keys[i] EXCEPT !.disabled = TRUE]} : keys' = [keys EXCEPT ![i] = h]
        BY <1>2
      <3>. QED BY <3>1, <3>2, <3>3
    <2>. QED BY <1>2, <2>1 DEF SameKeys, CouncilType
  <1>. QED BY <1>1, <1>2

\* A call takes another value; what it is sent with is right, and the pool is as it was.
LEMMA CallMoves ==
  ASSUME CouncilInv, NEW c \in Caller, NEW k \in Call, call' = [call EXCEPT ![c] = k], c \in InFlight,
         k.at = "sent" => k.index \in DOMAIN keys /\ keys[k.index].key = k.key,
         SameKeys, cursor' \in Nat,
         UNCHANGED <<configured, forced, council>>
  PROVE  CouncilInv'
  <1>1. /\ UNCHANGED <<pc, bar, latest, verdict, row>> /\ pc \notin {"idle", "decide", "commit"}
        /\ call' \in [Caller -> Call] /\ \A d \in Caller : call'[d] = IF d = c THEN k ELSE call[d]
    BY DEF council, CouncilInv, CouncilType, Quiet
  <1>2. CouncilType'
    BY <1>1 DEF CouncilInv, CouncilType, SameKeys
  <1>3. DOMAIN keys' = DOMAIN keys
    BY DEF SameKeys, CouncilInv, CouncilType
  <1>4. BookedOnItsKey'
    BY <1>1, <1>3 DEF BookedOnItsKey, CouncilInv, SameKeys
  <1>5. Quiet'
    BY <1>1 DEF CouncilInv, Quiet, InFlight
  <1>. QED BY <1>1, <1>2, <1>4, <1>5 DEF CouncilInv, Backed, Required, Due

\* Send keeps the invariant: the position is the next usable one of the pool.
LEMMA SendStep ==
  ASSUME CouncilInv, NEW c \in Caller, Send(c), UNCHANGED council
  PROVE  CouncilInv'
  <1>. DEFINE usable == {n \in 0..(Len(keys) - 1) : Healthy(keys[Position(n)])}
              n == CHOOSE m \in usable : \A o \in usable : m <= o
              i == Position(n)
  <1>1. c \in InFlight /\ UNCHANGED <<configured, forced, keys>> /\ call[c] \in Call
    BY DEF Send, InFlight, CouncilInv, CouncilType
  <1>2. SameKeys
    BY <1>1 DEF SameKeys, CouncilInv, CouncilType
  <1>3. CASE Failed(c) /\ UNCHANGED cursor
    <2>1. cursor' \in Nat
      BY <1>3 DEF CouncilInv, CouncilType
    <2>. QED BY <1>1, <1>2, <1>3, <2>1, CallTypes, CallMoves DEF Failed, Done
  <1>4. CASE /\ usable # {}
             /\ call' = [call EXCEPT ![c].at = "sent", ![c].index = i, ![c].key = keys[i].key,
                                    ![c].tries = @ + 1]
             /\ cursor' = i % Len(keys)
    <2>1. Len(keys) \in Nat /\ Len(keys) > 0 /\ DOMAIN keys = 1..Len(keys) /\ cursor \in Nat
          /\ \A j \in DOMAIN keys : keys[j] \in Health
      BY DEF CouncilInv, CouncilType
    <2>2. n \in Int
      <3>1. usable \in SUBSET Nat
        BY <2>1
      <3>2. \E m \in usable : \A o \in usable : m <= o
        BY <1>4, <3>1, MinExists
      <3>. QED BY <3>1, <3>2
    <2>. HIDE DEF n
    <2>3. i \in DOMAIN keys
      <3>1. cursor + n \in Int
        BY <2>1, <2>2
      <3>2. (cursor + n) % Len(keys) \in 0..(Len(keys) - 1)
        BY <2>1, <3>1
      <3>. QED BY <2>1, <3>2 DEF Position
    <2>. HIDE DEF i
    <2>4. keys[i].key \in Key /\ i \in Nat /\ call[c].tries + 1 \in Nat
      BY <1>1, <2>1, <2>3 DEF Health, Call
    <2>. DEFINE k == [call[c] EXCEPT !.at = "sent", !.index = i, !.key = keys[i].key, !.tries = @ + 1]
    <2>5. k \in Call /\ k.index = i /\ k.key = keys[i].key
      BY <1>1, <2>4 DEF Call
    <2>6. call' = [call EXCEPT ![c] = k]
      BY <1>4
    <2>7. cursor' \in Nat
      BY <1>4, <2>1, <2>4
    <2>. HIDE DEF k
    <2>. QED BY <1>1, <1>2, <2>3, <2>5, <2>6, <2>7, CallMoves
  <1>. QED BY <1>3, <1>4 DEF Send

\* A call that is queued again, or fails, keeps the invariant.
LEMMA Retried ==
  ASSUME CouncilInv, NEW c \in Caller, c \in InFlight, NEW worthwhile, RetryIf(c, worthwhile), SameKeys,
         UNCHANGED <<configured, forced, cursor, council>>
  PROVE  CouncilInv'
  <1>1. call[c] \in Call /\ cursor' \in Nat
    BY DEF CouncilInv, CouncilType
  <1>2. CASE Failed(c)
    BY <1>1, <1>2, CallTypes, CallMoves DEF Failed, Done
  <1>3. CASE call' = [call EXCEPT ![c] = [NoCall EXCEPT !.at = "queued", !.tries = call[c].tries]]
    <2>. DEFINE k == [NoCall EXCEPT !.at = "queued", !.tries = call[c].tries]
    <2>1. k \in Call /\ k.at = "queued"
      BY <1>1 DEF NoCall, Call
    <2>. HIDE DEF k
    <2>2. call' = [call EXCEPT ![c] = k]
      BY <1>3 DEF k
    <2>. QED BY <1>1, <2>1, <2>2, CallMoves
  <1>. QED BY <1>2, <1>3 DEF RetryIf

\* Every step of a call keeps the invariant.
LEMMA CallStepKeeps ==
  ASSUME CouncilInv, NEW c \in Caller, CallStep(c), UNCHANGED council
  PROVE  CouncilInv'
  <1>1. CASE Send(c)
    BY <1>1, SendStep
  <1>2. CASE Answers(c)
    <2>1. PICK a \in Answer \cup {"failed"} : Done(c, a)
      BY <1>2 DEF Answers
    <2>2. c \in InFlight /\ UNCHANGED <<configured, forced, keys, cursor>>
      BY <1>2 DEF Answers, InFlight, pool
    <2>3. SameKeys /\ cursor' \in Nat
      BY <2>2 DEF SameKeys, CouncilInv, CouncilType
    <2>. QED BY <2>1, <2>2, <2>3, CallTypes, CallMoves DEF Done
  <1>3. CASE Transient(c)
    <2>1. c \in InFlight /\ UNCHANGED <<configured, forced, keys, cursor>>
      BY <1>3 DEF Transient, InFlight, pool
    <2>2. SameKeys
      BY <2>1 DEF SameKeys, CouncilInv, CouncilType
    <2>. QED BY <1>3, <2>1, <2>2, Retried DEF Transient
  <1>4. CASE RateLimited(c)
    <2>1. c \in InFlight /\ UNCHANGED <<configured, forced, cursor>>
      BY <1>4 DEF RateLimited, InFlight
    <2>2. SameKeys
      <3>1. CouncilType /\ keys' = [keys EXCEPT ![call[c].index].cooling = TRUE]
        BY <1>4 DEF RateLimited, CouncilInv
      <3>. QED BY <3>1, KeyMarked
    <2>. QED BY <1>4, <2>1, <2>2, Retried DEF RateLimited
  <1>5. CASE Unauthorized(c)
    <2>1. c \in InFlight /\ UNCHANGED <<configured, forced, cursor>>
      BY <1>5 DEF Unauthorized, InFlight
    <2>2. SameKeys
      <3>1. CouncilType /\ keys' = [keys EXCEPT ![call[c].index].disabled = TRUE]
        BY <1>5 DEF Unauthorized, CouncilInv
      <3>. QED BY <3>1, KeyMarked
    <2>. QED BY <1>5, <2>1, <2>2, Retried DEF Unauthorized
  <1>6. CASE TimesOut(c)
    <2>1. c \in InFlight /\ UNCHANGED <<configured, forced, keys, cursor>>
      BY <1>6 DEF TimesOut, pool
    <2>2. SameKeys /\ cursor' \in Nat
      BY <2>1 DEF SameKeys, CouncilInv, CouncilType
    <2>. QED BY <1>6, <2>1, <2>2, CallTypes, CallMoves DEF TimesOut, Failed, Done
  <1>. QED BY <1>1, <1>2, <1>3, <1>4, <1>5, <1>6 DEF CallStep

\* Refreshes, rotations and cooldowns keep the invariant: the keys are replaced only between
\* two bars.
LEMMA PoolStep ==
  ASSUME CouncilInv, (KeyTick \/ (CooldownEnds /\ UNCHANGED council) \/ (pc = "idle" /\ Operator /\ UNCHANGED council))
  PROVE  CouncilInv'
  <1>1. UNCHANGED <<call, pc, bar, latest, verdict, row>>
    BY DEF KeyTick, Refresh, CooldownEnds, Operator, Rotate, Hup, council
  <1>2. CASE CooldownEnds
    <2>1. PICK i \in DOMAIN keys : keys' = [keys EXCEPT ![i].cooling = FALSE]
      BY <1>2 DEF CooldownEnds
    <2>2. SameKeys
      BY <2>1, KeyMarked DEF CouncilInv
    <2>3. CouncilType' /\ BookedOnItsKey' /\ DOMAIN keys' = DOMAIN keys
      BY <1>1, <1>2, <2>2 DEF CooldownEnds, SameKeys, CouncilInv, CouncilType, BookedOnItsKey
    <2>. QED BY <1>1, <2>3 DEF CouncilInv, Quiet, InFlight, Backed, Required, Due
  <1>3. CASE KeyTick \/ (pc = "idle" /\ Operator)
    <2>1. /\ configured' \in KeyLists /\ cursor' \in Nat /\ forced' \in BOOLEAN
          /\ keys' = keys \/ keys' = Renewed(configured, forced)
      <3>1. CASE KeyTick
        BY <3>1, Zenon DEF KeyTick, Refresh, CouncilInv, CouncilType
      <3>2. CASE Operator
        BY <3>2, Zenon DEF Operator, Rotate, Hup, CouncilInv, CouncilType
      <3>. QED BY <1>3, <3>1, <3>2
    <2>2. keys' \in Seq(Health) /\ Len(keys') > 0
      BY <2>1, Fitted DEF CouncilInv, CouncilType
    <2>3. pc = "idle" /\ InFlight = {}
      BY <1>3 DEF KeyTick, RefreshReady, CouncilInv, Quiet
    <2>4. BookedOnItsKey'
      BY <1>1, <2>3 DEF BookedOnItsKey, InFlight
    <2>5. CouncilType'
      BY <1>1, <2>1, <2>2 DEF CouncilInv, CouncilType
    <2>. QED BY <1>1, <2>4, <2>5 DEF CouncilInv, Quiet, InFlight, Backed, Required, Due
  <1>. QED BY <1>2, <1>3

\* The worker's own steps: no call is out, or none is made.
LEMMA WorkerMoves ==
  ASSUME CouncilInv, UNCHANGED pool, call' \in [Caller -> Call],
         \A c \in Caller : call'[c].at = "sent" => call'[c] = call[c],
         pc' \in {"idle", "analysts", "judge", "commit", "decide"}, latest' \in BOOLEAN,
         verdict' \in Consensus, Quiet', Backed'
  PROVE  CouncilInv'
  <1>1. UNCHANGED <<configured, forced, keys, cursor>>
    BY DEF pool
  <1>2. CouncilType' /\ BookedOnItsKey'
    BY <1>1 DEF CouncilInv, CouncilType, BookedOnItsKey
  <1>. QED BY <1>2 DEF CouncilInv

\* Failing closed, aborting and abstaining.
LEMMA VerdictTypes ==
  /\ NotRun \in Consensus
  /\ \A v \in Consensus : /\ FailClosed(v) \in Consensus /\ FailClosed(v).status = "INCOMPLETE"
                          /\ Aborted(v) \in Consensus /\ Aborted(v).status = "INCOMPLETE"
                          /\ Abstain(v) \in Consensus /\ (Consents(v) => Consents(Abstain(v)))
  <1>1. NotRun \in Consensus
    BY DEF NotRun, Consensus
  <1>2. ASSUME NEW v \in Consensus
        PROVE  /\ FailClosed(v) \in Consensus /\ FailClosed(v).status = "INCOMPLETE"
               /\ Abstain(v) \in Consensus /\ (Consents(v) => Consents(Abstain(v)))
    BY DEF FailClosed, Abstain, Consensus, Consents, Bias
  <1>3. ASSUME NEW v \in Consensus
        PROVE  Aborted(v) \in Consensus /\ Aborted(v).status = "INCOMPLETE"
    <2>1. FailClosed(v) \in Consensus /\ FailClosed(v).status = "INCOMPLETE"
      BY <1>2
    <2>. HIDE DEF FailClosed
    <2>. QED BY <2>1 DEF Aborted, Consensus
  <1>. QED BY <1>1, <1>2, <1>3

\* StartBar keeps the invariant.
LEMMA StartBarStep ==
  ASSUME CouncilInv, StartBar
  PROVE  CouncilInv'
  <1>1. /\ pc = "idle" /\ latest' \in BOOLEAN /\ UNCHANGED <<pool, bar, verdict, row>> /\ InFlight = {}
        /\ call \in [Caller -> Call] /\ verdict \in Consensus
    BY DEF StartBar, CouncilInv, CouncilType, Quiet
  <1>2. CASE Due(bar) /\ latest'
    <2>1. /\ pc' = "analysts"
          /\ call' = [c \in Caller |-> IF c = Judge THEN NoCall ELSE Called]
      BY <1>2 DEF StartBar
    <2>2. /\ call' \in [Caller -> Call]
          /\ \A c \in Caller : call'[c].at # "sent"
      BY <2>1, CallTypes
    <2>3. Quiet' /\ Backed'
      BY <1>1, <1>2, <2>1 DEF Quiet, Backed, Required, Due
    <2>. QED BY <1>1, <2>1, <2>2, <2>3, WorkerMoves
  <1>3. CASE ~(Due(bar) /\ latest')
    <2>1. pc' = "decide" /\ UNCHANGED call
      BY <1>3 DEF StartBar
    <2>2. Quiet' /\ Backed'
      BY <1>1, <1>3, <2>1 DEF Quiet, InFlight, Backed, Required, Due
    <2>. QED BY <1>1, <2>1, <2>2, WorkerMoves
  <1>. QED BY <1>2, <1>3

\* Deadline keeps the invariant.
LEMMA DeadlineStep ==
  ASSUME CouncilInv, Deadline
  PROVE  CouncilInv'
  <1>1. /\ pc = "analysts" /\ UNCHANGED <<pool, pc, bar, latest, verdict, row>>
        /\ call' = [c \in Caller |->
             IF c \in InFlight THEN [NoCall EXCEPT !.at = "done", !.answer = "failed"] ELSE call[c]]
        /\ call \in [Caller -> Call] /\ verdict \in Consensus /\ latest \in BOOLEAN
    BY DEF Deadline, CouncilInv, CouncilType
  <1>2. /\ call' \in [Caller -> Call]
        /\ \A c \in Caller : call'[c].at = "sent" => call'[c] = call[c]
    BY <1>1, CallTypes
  <1>3. Quiet' /\ Backed'
    BY <1>1 DEF CouncilInv, Quiet, Backed, Required, Due
  <1>. QED BY <1>1, <1>2, <1>3, WorkerMoves

\* TallyVotes keeps the invariant: only a quorum is asked to consent.
LEMMA TallyStep ==
  ASSUME CouncilInv, TallyVotes
  PROVE  CouncilInv'
  <1>1. /\ pc = "analysts" /\ UNCHANGED <<pool, bar, latest, row>> /\ latest \in BOOLEAN /\ Required
        /\ InFlight = {}
    BY DEF TallyVotes, CouncilInv, CouncilType, Backed
  <1>2. PICK sure \in BOOLEAN, judge \in BOOLEAN :
          /\ verdict' \in {FailClosed(NotRun), Plurality(sure), Abstain(Plurality(sure)),
                           FailClosed(Plurality(sure))}
          /\ ~QuorumMet => verdict' = FailClosed(NotRun)
          /\ judge => QuorumMet /\ verdict' = Plurality(sure)
          /\ pc' = IF judge THEN "judge" ELSE "commit"
          /\ call' = [c \in Caller |-> IF c = Judge /\ judge THEN Called ELSE NoCall]
    <2>1. PICK sure \in BOOLEAN, judgeEnabled \in BOOLEAN, timeLeft \in BOOLEAN :
            LET strong == QuorumMet /\ Strong(Tally)
                judge == QuorumMet /\ ~strong /\ judgeEnabled /\ timeLeft IN
            /\ verdict' = IF ~QuorumMet THEN FailClosed(NotRun)
                          ELSE IF strong \/ judge THEN Plurality(sure)
                          ELSE IF ~judgeEnabled THEN Abstain(Plurality(sure))
                          ELSE FailClosed(Plurality(sure))
            /\ pc' = IF judge THEN "judge" ELSE "commit"
            /\ call' = [c \in Caller |-> IF c = Judge /\ judge THEN Called ELSE NoCall]
      BY DEF TallyVotes
    <2>. DEFINE judge == QuorumMet /\ ~(QuorumMet /\ Strong(Tally)) /\ judgeEnabled /\ timeLeft
    <2>2. judge \in BOOLEAN
      OBVIOUS
    <2>3. /\ verdict' \in {FailClosed(NotRun), Plurality(sure), Abstain(Plurality(sure)),
                           FailClosed(Plurality(sure))}
          /\ ~QuorumMet => verdict' = FailClosed(NotRun)
          /\ judge => QuorumMet /\ verdict' = Plurality(sure)
      BY <2>1
    <2>4. /\ pc' = IF judge THEN "judge" ELSE "commit"
          /\ call' = [c \in Caller |-> IF c = Judge /\ judge THEN Called ELSE NoCall]
      BY <2>1
    <2>. HIDE DEF judge
    <2>. QED BY <2>2, <2>3, <2>4
  <1>3. Plurality(sure) \in Consensus /\ (QuorumMet => Consents(Plurality(sure)))
    <2>1. Leader(Tally) \in Bias
      BY DEF Leader, Bias
    <2>2. (Cardinality(Succeeded) >= MinSuccessful) \in BOOLEAN
      OBVIOUS
    <2>. QED BY <2>1, <2>2 DEF Plurality, Consensus, Consents, QuorumMet, Quorum
  <1>4. /\ verdict' \in Consensus
        /\ judge => Consents(verdict')
        /\ verdict'.status = "INCOMPLETE" \/ Consents(verdict')
    <2>. DEFINE p == Plurality(sure)
                Good(v) == v \in Consensus /\ (v.status = "INCOMPLETE" \/ Consents(v))
    <2>1. Good(FailClosed(NotRun)) /\ Good(FailClosed(p))
      BY <1>3, VerdictTypes
    <2>2. QuorumMet => Good(p) /\ Good(Abstain(p))
      BY <1>3, VerdictTypes
    <2>3. Good(verdict')
      <3>. HIDE DEF Good, p
      <3>1. verdict' \in {FailClosed(NotRun), p, Abstain(p), FailClosed(p)}
        BY <1>2 DEF p
      <3>2. ~QuorumMet => verdict' = FailClosed(NotRun)
        BY <1>2
      <3>. QED BY <2>1, <2>2, <3>1, <3>2
    <2>4. judge => Consents(verdict')
      BY <1>2, <1>3 DEF Consents
    <2>. QED BY <2>3, <2>4
  <1>5. /\ call' \in [Caller -> Call] /\ \A c \in Caller : call'[c].at # "sent"
        /\ pc' = "commit" => \A c \in Caller : call'[c].at = "none"
    BY <1>2, CallTypes
  <1>6. Quiet'
    BY <1>2, <1>5, CallTypes DEF Quiet, InFlight
  <1>7. Backed'
    BY <1>1, <1>2, <1>4 DEF Backed, Required, Due, Consents
  <1>. QED BY <1>1, <1>2, <1>4, <1>5, <1>6, <1>7, WorkerMoves

\* JudgeEnds keeps the invariant: the analysts' calls had ended before.
LEMMA JudgeStep ==
  ASSUME CouncilInv, JudgeEnds
  PROVE  CouncilInv'
  <1>1. /\ pc = "judge" /\ pc' = "commit" /\ UNCHANGED <<pool, bar, latest, row>> /\ latest \in BOOLEAN
        /\ Required /\ Consents(verdict) /\ verdict \in Consensus /\ call \in [Caller -> Call]
        /\ call[Judge].at = "done" /\ Judge \in Caller
        /\ call' = [call EXCEPT ![Judge] = NoCall]
    BY CouncilAssumption DEF JudgeEnds, CouncilInv, CouncilType, Backed
  <1>2. /\ verdict' \in Consensus
        /\ verdict'.status = "INCOMPLETE" \/ Consents(verdict')
    <2>1. PICK sure \in BOOLEAN :
            verdict' = IF call[Judge].answer \in Answer
                       THEN [verdict EXCEPT !.bias = call[Judge].answer, !.sure = sure]
                       ELSE FailClosed(verdict)
      BY DEF JudgeEnds
    <2>2. CASE call[Judge].answer \in Answer
      <3>1. call[Judge].answer \in Bias
        BY <2>2, CouncilAssumption
      <3>. QED BY <1>1, <2>1, <2>2, <3>1 DEF Consensus, Consents
    <2>3. CASE call[Judge].answer \notin Answer
      BY <1>1, <2>1, <2>3, VerdictTypes
    <2>. QED BY <2>2, <2>3
  <1>3. /\ call' \in [Caller -> Call]
        /\ \A c \in Caller : call'[c].at = "sent" => call'[c] = call[c]
    BY <1>1, CallTypes
  <1>4. Quiet'
    <2>1. \A c \in Analyst : call[c].at \in {"none", "done"}
      BY <1>1, CouncilAssumption DEF CouncilInv, Quiet, InFlight
    <2>. QED BY <1>1, <2>1, CallTypes, CouncilAssumption DEF Quiet, InFlight
  <1>5. Backed'
    BY <1>1, <1>2 DEF Backed, Required, Due, Consents
  <1>. QED BY <1>1, <1>2, <1>3, <1>4, <1>5, WorkerMoves

\* Commit keeps the invariant: a verdict that was not stored, or not returned, fails closed.
LEMMA CommitStep ==
  ASSUME CouncilInv, Commit
  PROVE  CouncilInv'
  <1>1. /\ pc = "commit" /\ pc' = "decide" /\ UNCHANGED <<pool, call, bar, latest>> /\ latest \in BOOLEAN
        /\ verdict \in Consensus /\ (verdict.status = "INCOMPLETE" \/ Consents(verdict))
        /\ call \in [Caller -> Call]
    BY DEF Commit, CouncilInv, CouncilType, Backed, client, pool
  <1>2. PICK stored \in BOOLEAN, returned \in BOOLEAN :
          /\ returned => stored
          /\ row' = IF stored THEN [bar |-> bar, verdict |-> [verdict EXCEPT !.sure = FALSE]] ELSE row
          /\ verdict' = IF returned THEN verdict ELSE Aborted(verdict)
    BY DEF Commit
  <1>3. Quiet'
    BY <1>1 DEF CouncilInv, Quiet, InFlight
  <1>4. verdict' \in Consensus /\ Backed'
    <2>1. CASE returned
      <3>. DEFINE v == [verdict EXCEPT !.sure = FALSE]
      <3>1. row' = [bar |-> bar, verdict |-> v] /\ verdict' = verdict
        BY <1>2, <2>1
      <3>2. Consents(verdict) => Consents(v)
        BY <1>1 DEF Consents, Consensus
      <3>. HIDE DEF v
      <3>3. row'.bar = bar /\ row'.verdict = v
        BY <3>1
      <3>. QED BY <1>1, <3>1, <3>2, <3>3 DEF Backed, Consents
    <2>2. CASE ~returned
      <3>1. verdict' \in Consensus /\ verdict'.status = "INCOMPLETE"
        BY <1>1, <1>2, <2>2, VerdictTypes
      <3>. QED BY <1>1, <3>1 DEF Backed
    <2>. QED BY <2>1, <2>2
  <1>. QED BY <1>1, <1>3, <1>4, WorkerMoves

\* Leaving a bar keeps the invariant.
LEMMA LeaveStep ==
  ASSUME CouncilInv, Decide \/ AttemptFails
  PROVE  CouncilInv'
  <1>1. /\ pc' = "idle" /\ latest' = TRUE /\ verdict' = NotRun /\ UNCHANGED pool
        /\ call' = [c \in Caller |-> NoCall]
    BY DEF Decide, AttemptFails, Leave
  <1>2. call' \in [Caller -> Call] /\ \A c \in Caller : call'[c].at = "none"
    BY <1>1, CallTypes
  <1>3. Quiet' /\ Backed'
    BY <1>1, <1>2 DEF Quiet, InFlight, Backed
  <1>. QED BY <1>1, <1>2, <1>3, VerdictTypes, WorkerMoves

\* Every reachable state satisfies the invariant.
LEMMA CouncilInductive == CouncilSpec => []CouncilInv
  <1>1. CouncilInv /\ [CouncilNext]_councilVars => CouncilInv'
    <2>. SUFFICES ASSUME CouncilInv, [CouncilNext]_councilVars PROVE CouncilInv'
      OBVIOUS
    <2>1. CASE UNCHANGED councilVars
      <3>1. UNCHANGED <<configured, keys, cursor, forced, call, pc, bar, latest, verdict, row>>
        BY <2>1 DEF councilVars, client, council
      <3>. QED BY <3>1 DEF CouncilInv, CouncilType, BookedOnItsKey, Quiet, InFlight, Backed, Required, Due
    <2>. QED BY <2>1, StartBarStep, DeadlineStep, TallyStep, JudgeStep, CommitStep, LeaveStep, PoolStep,
                CallStepKeeps DEF CouncilNext
  <1>. QED BY <1>1, CouncilInitial, PTL DEF CouncilSpec

\* While a request is out, the position it was sent from holds the key it was asked with:
\* its outcome is booked on that key's health (ollama_client.py: _mark_success,
\* _mark_failure).  refresh_keys runs between two bars only (key_refresh.py): what makes the
\* theorem is that every way a bar ends, its deadline included, leaves no request out (Quiet).
THEOREM BookedWhereAsked == CouncilSpec => []BookedOnItsKey
  <1>1. CouncilInv => BookedOnItsKey
    BY DEF CouncilInv
  <1>. QED BY <1>1, CouncilInductive, PTL

\* An entry on a bar where the council is due is backed by a committed decision of that very
\* bar, with its quorum and its consent.
THEOREM EntriesBacked == CouncilSpec => EntryBacked
  <1>. DEFINE A == entry' \notin {entry, NoEntry} /\ Due(bar) =>
                     /\ row.bar = bar /\ row.verdict.quorum
                     /\ row.verdict.status = "COMPLETE" /\ row.verdict.allowed
  <1>1. CouncilInv /\ [CouncilNext]_councilVars => [A]_councilVars
    <2>. SUFFICES ASSUME CouncilInv, CouncilNext, entry' \notin {entry, NoEntry}, Due(bar)
                  PROVE  Consents(row.verdict) /\ row.bar = bar
      BY DEF Consents, councilVars, council
    <2>1. Decide
      BY DEF CouncilNext, StartBar, Deadline, TallyVotes, JudgeEnds, Commit, AttemptFails, KeyTick, council
    <2>2. PICK side \in {"LONG", "SHORT"} : latest /\ Combined(side, verdict) # "none"
      BY <2>1 DEF Decide
    <2>3. verdict.status # "INCOMPLETE"
      BY <2>2 DEF Combined
    <2>. QED BY <2>1, <2>2, <2>3 DEF Decide, CouncilInv, Backed, Required
  <1>. QED BY <1>1, CouncilInductive, PTL DEF CouncilSpec, EntryBacked
==============================================================================
