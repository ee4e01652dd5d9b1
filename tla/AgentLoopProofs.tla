--------------------------- MODULE AgentLoopProofs ---------------------------
(***************************************************************************)
(* The account of one agent, for every number of bars, every price range,  *)
(* every calendar of settlements and every mode of the engine.             *)
(*                                                                         *)
(* A pass is a composition of set-valued operators, so the argument        *)
(* follows the code: one lemma per operator says that from a sound account *)
(* it only reaches sound accounts, and IInv holds because a pass is their   *)
(* composition.  Sound is stronger than the three invariants it gives:     *)
(* an account that is flat owes nothing, an order is never pending beside  *)
(* a position, and a bar that was evaluated left its mark, on the position *)
(* if it is still open and in a Decision row if it is not.                 *)
(***************************************************************************)
EXTENDS AgentLoop, ExtremaLemmas, FiniteSetTheorems

\* The rows an account can hold.
PositionRow ==
  [opened : Nat, managed : Nat, fee : Int, funding : Int, paidTo : Nat, exitOn : Nat,
   attempts : Nat, since : Nat, charged : [Settlements -> Int]]
Account ==
  [status : {"ACTIVE", "DEAD", "PAUSED"}, valid : BOOLEAN, balance : Int, realized : Int,
   debt : Int, final : Int, position : PositionRow, order : Nat, decided : Nat, evals : Nat,
   ids : SUBSET Nat, seen : SUBSET Nat, open : SUBSET Nat]

\* accounting.reconcile, and a flat account has nothing left to pay.
Books(a) ==
  /\ a.balance = Starting + a.realized + a.debt - a.position.fee - a.position.funding
  /\ ~IsOpen(a) => a.position.fee = 0 /\ a.position.funding = 0

\* Each settlement since the fill was charged once up to the last one paid, later ones never.
Paid(p) ==
  /\ p.since <= p.paidTo
  /\ \A t \in Settlements : p.charged[t] = IF p.since < t /\ t <= p.paidTo THEN 1 ELSE 0

\* At most one evaluation on this bar; when there was one, the row that prevents the next
\* one is there: the mark on the open position, or the Decision that deselects the agent.
Once(a) ==
  /\ a.evals <= 1
  /\ IsOpen(a) => a.order = 0
  /\ a.evals = 1 => IF IsOpen(a) THEN a.position.managed >= bar ELSE a.decided = bar

Sound(a) == a \in Account /\ Books(a) /\ (IsOpen(a) => Paid(a.position)) /\ Once(a)

\* The values the bar, the timing and the stored settlements take.
Ambient == bar \in 1..MaxBar /\ timing \in Timings /\ published \in Nat /\ swept \in Nat

\* The numbers among the constants.
LEMMA Numbers ==
  /\ MaxBar \in Nat /\ Settlements \in SUBSET Nat /\ Starting \in Nat /\ Fee \in Nat
  /\ Penalty \in Nat /\ Move \in Nat /\ Maintenance \in Nat /\ MinViable \in Nat
  BY LoopAssumption

\* The bar being processed is a positive number.
LEMMA BarType == ASSUME Ambient PROVE bar \in Nat \ {0} /\ published \in Nat /\ bar - 1 \in Nat
  BY Numbers DEF Ambient

\* The types of an account's fields, as facts the arithmetic can use.
LEMMA Fields ==
  ASSUME NEW a \in Account
  PROVE  /\ a.balance \in Int /\ a.realized \in Int /\ a.debt \in Int /\ a.final \in Int
         /\ a.order \in Nat /\ a.decided \in Nat /\ a.evals \in Nat
         /\ a.position \in PositionRow
         /\ a.seen \in SUBSET Nat /\ a.open \in SUBSET Nat /\ a.ids \in SUBSET Nat
  BY DEF Account

\* The types of a position's fields.
LEMMA PositionFields ==
  ASSUME NEW p \in PositionRow
  PROVE  /\ p.fee \in Int /\ p.funding \in Int
         /\ p.opened \in Nat /\ p.managed \in Nat /\ p.paidTo \in Nat
         /\ p.exitOn \in Nat /\ p.attempts \in Nat /\ p.since \in Nat
         /\ p.charged \in [Settlements -> Int]
  BY DEF PositionRow

\* A flat position is a row that owes nothing.
LEMMA FlatType == Flat \in PositionRow /\ Flat.fee = 0 /\ Flat.funding = 0 /\ Flat.opened = 0
  BY LoopAssumption DEF Flat, PositionRow

\* A new agent's account is sound.
LEMMA FreshSound == Sound(Fresh)
  BY FlatType, LoopAssumption DEF Fresh, Sound, Account, Books, IsOpen, Once

\* Death and the equity update leave the money alone.
LEMMA DeadSound ==
  ASSUME NEW a, Sound(a), NEW e \in Int
  PROVE  Sound(Dead(a, e)) /\ Sound(Valued(a, e))
  <1>1. Sound(Dead(a, e))
    BY DEF Sound, Dead, Account, Books, IsOpen, Once
  <1>. QED BY <1>1 DEF Valued

\* Claiming an id leaves the money alone.
LEMMA ClaimedSound ==
  ASSUME NEW a, Sound(a), NEW i \in Nat
  PROVE  Sound(Claimed(a, i))
  BY DEF Sound, Claimed, Account, Books, IsOpen, Once

\* A rolled back savepoint leaves the account it started from.
LEMMA DiscardedSound ==
  ASSUME NEW a, Sound(a)
  PROVE  Sound(Discarded(a))
  BY DEF Sound, Discarded, Account, Books, IsOpen, Once

\* The greater of two integers is one.
LEMMA MaxOfInt == ASSUME NEW x \in Int, NEW y \in Int PROVE MaxOf(x, y) \in Int
  BY DEF MaxOf

\* A closed position leaves sound books when the balance is what was realized plus the
\* shortfall that was forgiven.
LEMMA ClosedSound ==
  ASSUME NEW a, Sound(a), NEW b \in Int, NEW d \in Int, NEW r \in Int, b = Starting + r + d,
         a.decided = bar
  PROVE  Sound([a EXCEPT !.position = Flat, !.balance = b, !.debt = d, !.realized = r])
  <1>1. [a EXCEPT !.position = Flat, !.balance = b, !.debt = d, !.realized = r] \in Account
    BY FlatType DEF Sound, Account
  <1>. QED BY <1>1, FlatType, LoopAssumption DEF Sound, Account, Books, IsOpen, Once

\* Freezing the final equity of a dead agent leaves the money alone.
LEMMA FrozenSound ==
  ASSUME NEW a, Sound(a)
  PROVE  Sound(Frozen(a))
  BY DEF Sound, Frozen, Account, Books, IsOpen, Once

\* settle_close keeps the books: what the trade realizes is what the balance gained, the
\* fees and the funding paid while it was open included, and the shortfall is bad debt.
LEMMA SettledSound ==
  ASSUME NEW a, Sound(a), NEW kind, NEW g \in Int, a.decided = bar
  PROVE  Sound(Settled(a, kind, g))
  <1>. DEFINE exitFee == Fee + (IF kind = "liquidation" THEN Penalty ELSE 0)
              raw == a.balance + g - exitFee
              b == MaxOf(raw, 0)
              d == a.debt + MaxOf(raw, 0) - raw
              r == a.realized + Net(a.position, g, exitFee)
              closed == [a EXCEPT !.position = Flat, !.balance = b, !.debt = d, !.realized = r]
              valued == Valued(closed, closed.balance)
  <1>0. exitFee \in Int
    BY LoopAssumption
  <1>. HIDE DEF exitFee
  <1>1. /\ a \in Account /\ Books(a) /\ a.position \in PositionRow
        /\ a.balance \in Int /\ a.debt \in Int /\ a.realized \in Int
        /\ a.position.fee \in Int /\ a.position.funding \in Int
    BY Fields, PositionFields DEF Sound
  <1>2. b \in Int /\ d \in Int /\ r \in Int
    BY <1>0, <1>1 DEF Net, MaxOf
  <1>3. b = Starting + r + d
    BY <1>0, <1>1, <1>2, LoopAssumption DEF Books, Net
  <1>. HIDE DEF b, d, r
  <1>4. Sound(closed) /\ closed.balance \in Int
    BY <1>1, <1>2, <1>3, ClosedSound, Fields DEF Sound
  <1>. HIDE DEF closed
  <1>5. Sound(valued) /\ Sound(Dead(valued, closed.balance))
    BY <1>4, DeadSound
  <1>. HIDE DEF valued
  <1>6. Sound(Frozen(valued)) /\ Sound(Frozen(Dead(valued, closed.balance)))
    BY <1>5, FrozenSound
  <1>. QED BY <1>6 DEF Settled, valued, closed, b, d, r, exitFee

\* An exit order that was sent leaves a Decision row on the bar.
LEMMA TriedSound ==
  ASSUME NEW a, Sound(a), Ambient, NEW id \in Nat
  PROVE  LET tried == [Claimed(a, id) EXCEPT !.decided = bar]
         IN Sound(tried) /\ tried.decided = bar /\ tried.position = a.position
  <1>1. Sound(Claimed(a, id)) /\ Claimed(a, id).position = a.position
    BY ClaimedSound DEF Claimed, Sound, Account
  <1>2. ASSUME NEW c, Sound(c) PROVE Sound([c EXCEPT !.decided = bar])
    BY <1>2 DEF Sound, Account, Books, IsOpen, Once, Ambient
  <1>3. Claimed(a, id) \in Account
    BY <1>1 DEF Sound
  <1>. QED BY <1>1, <1>2, <1>3 DEF Account, Ambient

\* Filled, refused or force settled, an exit leaves a sound account.
LEMMA CloseSound ==
  ASSUME NEW a, Sound(a), Ambient, NEW kind, NEW x \in Close(a, kind)
  PROVE  Sound(x)
  <1>. DEFINE tried == [Claimed(a, ExitId(a)) EXCEPT !.decided = bar]
              refused == [tried EXCEPT !.position.attempts = @ + 1]
  <1>0. ExitId(a) \in Nat
    BY Fields, PositionFields DEF ExitId, Sound
  <1>1. Sound(tried) /\ tried.decided = bar
    BY <1>0, TriedSound
  <1>. HIDE DEF tried
  <1>2. Sound(refused) /\ refused.decided = bar
    <2>1. tried \in Account /\ tried.position \in PositionRow
      BY <1>1, Fields DEF Sound
    <2>2. [tried.position EXCEPT !.attempts = @ + 1] \in PositionRow
      BY <2>1 DEF PositionRow
    <2>3. refused = [tried EXCEPT !.position = [tried.position EXCEPT !.attempts = @ + 1]]
      BY <2>1 DEF Account
    <2>4. refused \in Account /\ refused.decided = bar
      BY <1>1, <2>1, <2>2, <2>3 DEF Account
    <2>. QED BY <1>1, <2>1, <2>3, <2>4 DEF Sound, Books, IsOpen, Once, Paid, Account, PositionRow
  <1>. HIDE DEF refused
  <1>3. \A g \in PnL : Sound(Settled(tried, kind, g)) /\ Sound(Settled(refused, kind, g))
    BY <1>1, <1>2, SettledSound, LoopAssumption DEF PnL
  <1>4. x \in {Settled(tried, kind, g) : g \in PnL} \cup {Settled(refused, kind, g) : g \in PnL}
                 \cup {refused}
    BY DEF Close, tried, refused
  <1>. QED BY <1>2, <1>3, <1>4

\* The settlements due are those after the last one paid up to the last one due: none is
\* skipped between them.
LEMMA DueLast ==
  ASSUME NEW p \in PositionRow, Ambient, Due(p) # {}
  PROVE  LET last == CHOOSE t \in Due(p) : \A u \in Due(p) : u <= t
         IN /\ last \in Nat /\ p.paidTo < last
            /\ \A t \in Settlements : t \in Due(p) <=> p.paidTo < t /\ t <= last
  <1>1. Due(p) \in SUBSET Nat /\ bar \in Nat /\ \A t \in Due(p) : t <= bar
    BY Numbers, BarType DEF Due
  <1>2. \E t \in Due(p) : \A u \in Due(p) : u <= t
    <2>1. Due(p) \in SUBSET Int /\ bar \in Int
      BY <1>1
    <2>. QED BY <1>1, <2>1, MaxExists
  <1>. DEFINE last == CHOOSE t \in Due(p) : \A u \in Due(p) : u <= t
  <1>3. last \in Due(p) /\ \A u \in Due(p) : u <= last
    BY <1>2
  <1>. HIDE DEF last
  <1>. QED BY <1>1, <1>3, Numbers, BarType, PositionFields DEF Due

\* _accrue_funding charges each settlement due once and moves the mark past it.
LEMMA AccruedSound ==
  ASSUME NEW a, Sound(a), IsOpen(a), Ambient, NEW x \in Accrued(a)
  PROVE  /\ Sound(x) /\ IsOpen(x)
         /\ x.evals = a.evals /\ x.decided = a.decided
         /\ x.position.managed = a.position.managed
  <1>. DEFINE p == a.position
              due == Due(p)
              n == Cardinality(due)
              paidTo == IF due = {} THEN p.paidTo ELSE CHOOSE t \in due : \A u \in due : u <= t
              charged == [t \in Settlements |-> p.charged[t] + (IF t \in due THEN 1 ELSE 0)]
  <1>1. a \in Account /\ p \in PositionRow /\ Books(a) /\ Once(a) /\ Paid(p)
    BY Fields DEF Sound
  <1>2. n \in Nat
    <2>1. bar \in Int /\ \A t \in due : t \in Nat /\ t <= bar
      BY Numbers, BarType DEF Due
    <2>2. IsFiniteSet(0..bar)
      BY <2>1, FS_Interval
    <2>3. due \in SUBSET (0..bar)
      BY <2>1
    <2>. QED BY <2>2, <2>3, FS_Subset, FS_CardinalityType
  <1>3. /\ paidTo \in Nat /\ p.paidTo <= paidTo
        /\ \A t \in Settlements : t \in due <=> p.paidTo < t /\ t <= paidTo
    <2>1. CASE due = {}
      BY <2>1, <1>1, LoopAssumption DEF PositionRow
    <2>2. CASE due # {}
      BY <2>2, <1>1, DueLast DEF PositionRow
    <2>. QED BY <2>1, <2>2
  <1>4. charged \in [Settlements -> Int]
    BY <1>1 DEF PositionRow
  <1>5. PICK rate \in {-1, 1} :
          x = [a EXCEPT !.balance = @ - rate * n, !.position.funding = @ + rate * n,
                        !.position.paidTo = paidTo, !.position.charged = charged]
    BY <1>1 DEF Accrued, Account, PositionRow
  <1>. HIDE DEF n, paidTo, charged
  <1>6. rate * n \in Int
    BY <1>2, <1>5
  <1>. DEFINE d == rate * n
              f == p.funding + d
              b == a.balance - d
              q == [p EXCEPT !.funding = f, !.paidTo = paidTo, !.charged = charged]
  <1>7. x = [a EXCEPT !.balance = b, !.position = q]
    BY <1>1, <1>5 DEF Account, PositionRow
  <1>8. d \in Int /\ f \in Int /\ b \in Int /\ f = p.funding + d /\ b = a.balance - d
    BY <1>1, <1>6, Fields, PositionFields
  <1>. HIDE DEF d, f, b, due, p
  <1>9. /\ q \in PositionRow
        /\ q.funding = f /\ q.paidTo = paidTo /\ q.charged = charged
        /\ q.fee = p.fee /\ q.opened = p.opened /\ q.managed = p.managed /\ q.since = p.since
    BY <1>1, <1>3, <1>4, <1>8 DEF q, PositionRow
  <1>. HIDE DEF q
  <1>11. /\ x \in Account /\ x.position = q /\ x.balance = b
         /\ x.realized = a.realized /\ x.debt = a.debt /\ x.evals = a.evals
         /\ x.order = a.order /\ x.decided = a.decided
    BY <1>1, <1>7, <1>8, <1>9 DEF Account
  <1>12. Paid(q)
    <2>1. q.since <= q.paidTo
      BY <1>1, <1>3, <1>9, PositionFields DEF Paid
    <2>2. ASSUME NEW t \in Settlements
          PROVE  q.charged[t] = IF q.since < t /\ t <= q.paidTo THEN 1 ELSE 0
      <3>1. q.charged[t] = p.charged[t] + (IF t \in due THEN 1 ELSE 0)
        BY <1>9 DEF charged
      <3>2. t \in Nat /\ p.since \in Nat /\ p.paidTo \in Nat
        BY <1>1, Numbers DEF PositionRow
      <3>. QED BY <1>1, <1>3, <1>9, <3>1, <3>2 DEF Paid
    <2>. QED BY <2>1, <2>2 DEF Paid
  <1>13. Books(x)
    BY <1>1, <1>8, <1>9, <1>11, Fields, PositionFields, Numbers DEF Books, IsOpen, p
  <1>. QED BY <1>1, <1>9, <1>11, <1>12, <1>13 DEF Sound, Once, IsOpen, p

\* _manage_open_position evaluates a bar only when it was not evaluated, and marks it.
LEMMA ManagedSound ==
  ASSUME NEW a, Sound(a), IsOpen(a), Ambient, NEW x \in Managed(a)
  PROVE  Sound(x)
  <1>1. CASE AlreadyManaged(a.position)
    BY <1>1 DEF Managed
  <1>2. CASE ~AlreadyManaged(a.position)
    <2>1. PICK y \in Accrued(a) :
            x \in IF y.balance < 0 THEN {y}
                  ELSE Evaluated([y EXCEPT !.position.managed = bar, !.evals = @ + 1])
      BY <1>2 DEF Managed
    <2>. DEFINE q == [y.position EXCEPT !.managed = bar]
                z == [y EXCEPT !.position = q, !.evals = 1]
    <2>2. /\ Sound(y) /\ IsOpen(y) /\ y \in Account /\ y.position \in PositionRow
          /\ y.evals = a.evals /\ y.evals \in Nat /\ bar \in Nat
      BY AccruedSound, Fields, BarType DEF Sound
    <2>3. y.evals = 0
      BY <1>2, <2>2, Fields, PositionFields DEF Sound, Once, AlreadyManaged
    <2>4. /\ q \in PositionRow /\ q.managed = bar /\ q.opened = y.position.opened
          /\ q.fee = y.position.fee /\ q.funding = y.position.funding
          /\ q.since = y.position.since /\ q.paidTo = y.position.paidTo
          /\ q.charged = y.position.charged
      BY <2>2 DEF PositionRow
    <2>5. z = [y EXCEPT !.position.managed = bar, !.evals = @ + 1]
      BY <2>2, <2>3 DEF Account
    <2>. HIDE DEF q
    <2>6. /\ z \in Account /\ z.position = q /\ z.evals = 1 /\ z.order = y.order
          /\ z.balance = y.balance /\ z.realized = y.realized /\ z.debt = y.debt
      BY <2>2, <2>3, <2>4 DEF Account
    <2>. HIDE DEF z
    <2>7. Sound(z) /\ z.balance \in Int
      BY <2>2, <2>4, <2>6, Fields DEF Sound, Books, Once, Paid, IsOpen
    <2>8. CASE y.balance < 0
      BY <2>1, <2>2, <2>8
    <2>9. CASE ~(y.balance < 0)
      <3>1. \/ x \in Close(z, "level") \/ x \in Close(z, "liquidation")
            \/ \E u \in PnL : x = Valued(z, z.balance + u)
        BY <2>1, <2>5, <2>9 DEF Evaluated
      <3>2. \A u \in PnL : z.balance + u \in Int
        BY <2>7, Numbers DEF PnL
      <3>. QED BY <2>7, <3>1, <3>2, CloseSound, DeadSound
    <2>. QED BY <2>8, <2>9
  <1>. QED BY <1>1, <1>2

\* The protective sweep keeps a sound account sound.
LEMMA SweepSound ==
  ASSUME NEW a, Sound(a), Ambient, NEW x \in Sweep(a)
  PROVE  Sound(x)
  <1>1. ASSUME IsOpen(a), NEW y \in Protected(a) PROVE Sound(y)
    <2>1. PICK z \in Managed(a) :
            y \in IF z.balance < 0 \/ ~IsOpen(z) \/ z.status = "ACTIVE" THEN {z}
                  ELSE Close(z, IF z.status = "DEAD" THEN "liquidation" ELSE "market")
      BY <1>1 DEF Protected
    <2>2. Sound(z)
      BY <1>1, ManagedSound
    <2>. QED BY <2>1, <2>2, CloseSound
  <1>. QED BY <1>1, DiscardedSound DEF Sweep, Savepoint

\* Clearing the pending order changes nothing else.
LEMMA OrderCleared ==
  ASSUME NEW a, Sound(a)
  PROVE  /\ Sound([a EXCEPT !.order = 0])
         /\ IsOpen([a EXCEPT !.order = 0]) = IsOpen(a)
         /\ [a EXCEPT !.order = 0].evals = a.evals
  BY DEF Sound, Account, Books, IsOpen, Once

\* An entry filled on a flat account is booked with its fee and starts owing funding from
\* the fill on; at this bar's close it counts as evaluated, at its open it must not have been.
LEMMA FillSound ==
  ASSUME NEW a, Sound(a), ~IsOpen(a), Ambient, NEW immediate \in BOOLEAN,
         immediate \/ a.evals = 0, NEW x \in FillEntry(a, immediate)
  PROVE  Sound(x)
  <1>. DEFINE claimed == Claimed(a, EntryId)
              tried == Filled(claimed)
              since == IF immediate THEN bar ELSE bar - 1
              managed == IF immediate THEN bar ELSE 0
              q == [Flat EXCEPT !.opened = bar, !.fee = Fee, !.managed = managed,
                                !.paidTo = since, !.since = since]
              b == tried.balance - Fee
              opened == [tried EXCEPT !.balance = b, !.position = q]
              refused == [tried EXCEPT !.order = 0, !.decided = bar]
  <1>1. /\ Sound(claimed) /\ claimed \in Account /\ claimed.position = a.position
        /\ claimed.evals = a.evals
    BY ClaimedSound DEF EntryId, Sound, Claimed, Account
  <1>. HIDE DEF claimed
  <1>2. /\ Sound(tried) /\ tried \in Account /\ tried.position = a.position
        /\ tried.evals = a.evals /\ tried.order = 0 /\ ~IsOpen(tried)
    BY <1>1, OrderCleared DEF Filled, Sound, Account, IsOpen
  <1>. HIDE DEF tried
  <1>3. /\ bar \in Nat \ {0} /\ bar - 1 \in Nat /\ Fee \in Nat
    BY Numbers, BarType
  <1>4. since \in Nat /\ managed \in Nat
    BY <1>3
  <1>5. Sound(refused)
    BY <1>2, <1>3 DEF Sound, Account, Books, IsOpen, Once
  <1>. HIDE DEF since, managed
  <1>6. /\ q \in PositionRow /\ q.opened = bar /\ q.fee = Fee /\ q.funding = 0
        /\ q.paidTo = since /\ q.since = since /\ q.managed = managed
        /\ q.charged = Flat.charged
    <2>1. Flat \in PositionRow /\ Fee \in Int /\ bar \in Nat /\ Flat.funding = 0
      BY <1>3, FlatType
    <2>. HIDE DEF Flat
    <2>. QED BY <1>4, <2>1 DEF PositionRow
  <1>. HIDE DEF q, refused
  <1>7. /\ b \in Int /\ tried.balance \in Int /\ tried.realized \in Int /\ tried.debt \in Int
        /\ tried.balance = Starting + tried.realized + tried.debt
    BY <1>2, <1>3, Fields, PositionFields, Numbers DEF Sound, Books
  <1>. HIDE DEF b
  <1>8. /\ opened \in Account /\ opened.position = q /\ opened.balance = b
        /\ opened.order = 0 /\ opened.evals = tried.evals
        /\ opened.realized = tried.realized /\ opened.debt = tried.debt
    BY <1>2, <1>6, <1>7 DEF Account
  <1>. HIDE DEF opened
  <1>9. Books(opened)
    BY <1>3, <1>6, <1>7, <1>8, Numbers DEF Books, IsOpen, b
  <1>10. Paid(q)
    <2>1. ASSUME NEW t \in Settlements PROVE q.charged[t] = 0
      BY <1>6 DEF Flat
    <2>. QED BY <1>4, <1>6, <2>1, Numbers DEF Paid
  <1>11. Once(opened)
    BY <1>2, <1>3, <1>6, <1>8 DEF Sound, Once, IsOpen, managed
  <1>12. Sound(Valued(opened, opened.balance))
    BY <1>7, <1>8, <1>9, <1>10, <1>11, DeadSound DEF Sound
  <1>13. x = refused \/ x = Valued(opened, opened.balance)
    BY DEF FillEntry, refused, opened, b, q, since, managed, tried, claimed
  <1>. QED BY <1>5, <1>12, <1>13

\* A pending exit on an open position is no payment.
LEMMA PositionUpdated ==
  ASSUME NEW a, Sound(a), IsOpen(a), NEW e \in Nat
  PROVE  Sound([a EXCEPT !.position.exitOn = e])
  <1>. DEFINE q == [a.position EXCEPT !.exitOn = e]
              x == [a EXCEPT !.position = q]
  <1>1. a \in Account /\ a.position \in PositionRow
    BY Fields DEF Sound
  <1>2. x = [a EXCEPT !.position.exitOn = e]
    BY <1>1 DEF Account
  <1>3. /\ q \in PositionRow /\ q.opened = a.position.opened /\ q.fee = a.position.fee
        /\ q.funding = a.position.funding /\ q.managed = a.position.managed
        /\ q.since = a.position.since /\ q.paidTo = a.position.paidTo
        /\ q.charged = a.position.charged
    BY <1>1 DEF PositionRow
  <1>. HIDE DEF q
  <1>4. /\ x \in Account /\ x.position = q /\ x.balance = a.balance /\ x.debt = a.debt
        /\ x.realized = a.realized /\ x.evals = a.evals /\ x.order = a.order
    BY <1>1, <1>3 DEF Account
  <1>. HIDE DEF x
  <1>5. Sound(x)
    BY <1>1, <1>3, <1>4 DEF Sound, Books, IsOpen, Paid, Once
  <1>. QED BY <1>2, <1>5 DEF x

\* The orders of the previous close leave a sound account.
LEMMA ExecutedSound ==
  ASSUME NEW a, Sound(a), a.decided # bar, Ambient, NEW halted \in BOOLEAN,
         NEW x \in Executed(a, halted)
  PROVE  Sound(x)
  <1>1. CASE IsOpen(a) /\ a.position.exitOn # 0
    <2>1. Sound([a EXCEPT !.position.exitOn = 0])
      BY <1>1, PositionUpdated
    <2>. QED BY <1>1, <2>1, CloseSound DEF Executed
  <1>2. CASE ~IsOpen(a) /\ a.order # 0
    <2>1. a.evals = 0
      BY <1>2, Fields DEF Sound, Once
    <2>2. x \in PendingEntry(a, halted)
      BY <1>2 DEF Executed
    <2>3. \/ x = [a EXCEPT !.order = 0]
          \/ x \in FillEntry(a, TRUE) \/ x \in FillEntry(a, FALSE)
      BY <2>2 DEF PendingEntry
    <2>. QED BY <1>2, <2>1, <2>3, FillSound, OrderCleared
  <1>. QED BY <1>1, <1>2 DEF Executed

\* The signal of this close leaves a sound account.
LEMMA SignalledSound ==
  ASSUME NEW a, Sound(a), Ambient, NEW halted \in BOOLEAN, NEW x \in Signalled(a, halted)
  PROVE  Sound(x)
  <1>. DEFINE audited == [a EXCEPT !.decided = bar]
              ordered == [audited EXCEPT !.order = bar]
  <1>1. bar \in Nat \ {0}
    BY BarType
  <1>2. Sound(audited) /\ audited.position = a.position /\ audited \in Account
    BY <1>1 DEF Sound, Account, Books, IsOpen, Once
  <1>. HIDE DEF audited
  <1>3. ~IsOpen(a) => Sound(ordered) /\ ~IsOpen(ordered)
    BY <1>1, <1>2 DEF Sound, Account, Books, IsOpen, Once
  <1>4. IsOpen(a) => Sound([audited EXCEPT !.position.exitOn = bar])
    BY <1>1, <1>2, PositionUpdated DEF IsOpen
  <1>. HIDE DEF ordered
  <1>5. \/ x = a \/ x = audited
        \/ IsOpen(a) /\ x = [audited EXCEPT !.position.exitOn = bar]
        \/ x \in Close(a, "market")
        \/ ~IsOpen(a) /\ (x = ordered \/ x \in FillEntry(ordered, TRUE))
    BY DEF Signalled, audited, ordered
  <1>. QED BY <1>2, <1>3, <1>4, <1>5, CloseSound, FillSound

\* _process_agent leaves a sound account.
LEMMA ProcessedSound ==
  ASSUME NEW a, Sound(a), a.decided # bar, Ambient, NEW halted \in BOOLEAN,
         NEW x \in Processed(a, halted)
  PROVE  Sound(x)
  <1>1. PICK y \in Executed(a, halted) :
          \E z \in IF IsOpen(y) THEN UNION {AfterManaged(m, halted) : m \in Managed(y)}
                   ELSE Signalled(y, halted) :
            x = Untradeable(z)
    BY DEF Processed
  <1>2. PICK z \in IF IsOpen(y) THEN UNION {AfterManaged(m, halted) : m \in Managed(y)}
                  ELSE Signalled(y, halted) :
          x = Untradeable(z)
    BY <1>1
  <1>3. Sound(y)
    BY ExecutedSound
  <1>4. ASSUME IsOpen(y), NEW m \in Managed(y), NEW w \in AfterManaged(m, halted)
        PROVE  Sound(w)
    <2>1. Sound(m)
      BY <1>3, <1>4, ManagedSound
    <2>. QED BY <1>4, <2>1, CloseSound, SignalledSound DEF AfterManaged
  <1>5. Sound(z)
    BY <1>2, <1>3, <1>4, SignalledSound
  <1>6. z.balance \in Int
    BY <1>5, Fields DEF Sound
  <1>. QED BY <1>2, <1>5, <1>6, DeadSound DEF Untradeable

\* The loop of run_decision_cycle leaves a sound account.
LEMMA LoopedSound ==
  ASSUME NEW a, Sound(a), Ambient, NEW halted \in BOOLEAN, NEW x \in Looped(a, halted)
  PROVE  Sound(x)
  <1>1. Sound([a EXCEPT !.status = "PAUSED"])
    BY DEF Sound, Account, Books, IsOpen, Once
  <1>2. ASSUME Selected(a), x \in Savepoint(a, Processed(a, halted)) PROVE Sound(x)
    BY <1>2, ProcessedSound, DiscardedSound DEF Selected, Savepoint
  <1>. QED BY <1>1, <1>2 DEF Looped

\* So do the commit, the cancellation of stale entries, and a change of the DNA verdict.
LEMMA CommittedSound ==
  ASSUME NEW a, Sound(a), NEW s \in SUBSET Nat, NEW o \in SUBSET Nat, NEW v \in BOOLEAN
  PROVE  /\ Sound(Cancelled(a)) /\ Sound(Committed(a))
         /\ Sound([a EXCEPT !.seen = s, !.open = o]) /\ Sound([a EXCEPT !.valid = v])
  <1>1. Sound(Cancelled(a))
    BY DEF Cancelled, Sound, Account, Books, IsOpen, Once
  <1>2. Sound(Committed(a))
    BY DEF Committed, Sound, Account, Books, IsOpen, Once
  <1>3. Sound([a EXCEPT !.seen = s, !.open = o])
    BY DEF Sound, Account, Books, IsOpen, Once
  <1>4. Sound([a EXCEPT !.valid = v])
    BY DEF Sound, Account, Books, IsOpen, Once
  <1>. QED BY <1>1, <1>2, <1>3, <1>4

\* The inductive invariant.
IInv == Ambient /\ Sound(agent)

\* The inductive invariant holds of every reachable state.
LEMMA Inductive == Spec => []IInv
  <1>1. Init => IInv
    BY FreshSound, Numbers, LoopAssumption DEF Init, IInv, Ambient
  <1>2. IInv /\ [Next]_vars => IInv'
    <2>. SUFFICES ASSUME IInv, [Next]_vars PROVE IInv'
      OBVIOUS
    <2>0. Ambient /\ Sound(agent)
      BY DEF IInv
    <2>1. CASE Decide
      <3>1. PICK halted \in BOOLEAN :
              \E x \in UNION {Sweep(y) : y \in Looped(agent, halted)} :
                agent' = Committed(Cancelled(x))
        BY <2>1 DEF Decide
      <3>2. PICK y \in Looped(agent, halted) :
              \E x \in Sweep(y) : agent' = Committed(Cancelled(x))
        BY <3>1
      <3>3. Sound(y)
        BY <2>0, LoopedSound
      <3>4. PICK x \in Sweep(y) : agent' = Committed(Cancelled(x))
        BY <3>2
      <3>5. Sound(x)
        BY <2>0, <3>3, SweepSound
      <3>6. Sound(Cancelled(x))
        BY <3>5, CommittedSound
      <3>7. Sound(Committed(Cancelled(x)))
        BY <3>6, CommittedSound
      <3>. QED BY <2>0, <2>1, <3>4, <3>7, BarType DEF IInv, Decide, Ambient, Sound, Once
    <2>2. CASE DecideRolledBack
      BY <2>0, <2>2, DiscardedSound DEF DecideRolledBack, IInv, Ambient, Sound, Once
    <2>3. CASE Protect
      <3>1. PICK x \in Sweep(agent) : agent' = Committed(x)
        BY <2>3 DEF Protect
      <3>2. Sound(agent')
        BY <2>0, <3>1, SweepSound, CommittedSound
      <3>. QED BY <2>0, <2>3, <3>2, BarType DEF IInv, Protect, Ambient, Sound, Once
    <2>4. CASE ProtectRolledBack
      <3>1. PICK x \in Sweep(agent) : agent' = [agent EXCEPT !.seen = x.seen, !.open = x.open]
        BY <2>4 DEF ProtectRolledBack
      <3>2. x.seen \in SUBSET Nat /\ x.open \in SUBSET Nat
        BY <2>0, SweepSound, Fields DEF Sound
      <3>3. Sound(agent')
        BY <2>0, <3>1, <3>2, CommittedSound
      <3>. QED BY <2>0, <2>4, <3>3 DEF IInv, ProtectRolledBack, Ambient, Sound, Once
    <2>5. CASE NextBar
      <3>1. bar' \in 1..MaxBar
        BY <2>0, <2>5, Numbers DEF NextBar, Ambient
      <3>2. /\ agent' \in Account /\ agent'.evals = 0 /\ agent'.position = agent.position
            /\ agent'.balance = agent.balance /\ agent'.realized = agent.realized
            /\ agent'.debt = agent.debt /\ agent'.order = agent.order
        BY <2>0, <2>5 DEF NextBar, OnNewBar, Sound, Account
      <3>3. Sound(agent)'
        BY <2>0, <3>2 DEF Sound, Books, IsOpen, Once
      <3>. QED BY <2>0, <2>5, <3>1, <3>3 DEF IInv, NextBar, Ambient
    <2>6. CASE Publish
      <3>1. Sound(agent)' /\ Ambient'
        BY <2>0, <2>6 DEF Publish, Ambient, Sound, Once
      <3>. QED BY <3>1 DEF IInv
    <2>7. CASE Restart
      <3>1. Sound(agent')
        BY <2>0, <2>7, CommittedSound DEF Restart
      <3>. QED BY <2>0, <2>7, <3>1 DEF IInv, Restart, Ambient, Sound, Once
    <2>8. CASE Invalidate
      BY <2>0, <2>8, CommittedSound, BarType DEF Invalidate, IInv, Ambient, Sound, Once
    <2>9. CASE UNCHANGED vars
      BY <2>0, <2>9 DEF vars, IInv, Ambient, Sound, Once
    <2>. QED BY <2>1, <2>2, <2>3, <2>4, <2>5, <2>6, <2>7, <2>8, <2>9 DEF Next
  <1>. QED BY <1>1, <1>2, PTL DEF Spec

\* After every pass the balance is the starting balance plus what was realized and forgiven
\* less what the open position has paid (accounting.reconcile).
THEOREM Reconciled == Spec => []BooksReconcile
  <1>1. IInv => BooksReconcile
    BY DEF IInv, Sound, Books, BooksReconcile
  <1>. QED BY <1>1, Inductive, PTL

\* No bar's levels are evaluated twice, whatever was retried, replayed or rolled back.
THEOREM OneEvaluation == Spec => []EvaluatedOnce
  <1>1. IInv => EvaluatedOnce
    BY DEF IInv, Sound, Once, EvaluatedOnce
  <1>. QED BY <1>1, Inductive, PTL

\* An open position pays each settlement exactly once, also when the exchange publishes late
\* or a bar got no decision.
THEOREM FundingPaidOnce == Spec => []FundingExact
  <1>1. IInv => FundingExact
    BY DEF IInv, Sound, Paid, FundingExact
  <1>. QED BY <1>1, Inductive, PTL

-----------------------------------------------------------------------------

\* With fills at the next open, a signal opens nothing by itself.
LEMMA SignalledFlat ==
  ASSUME NEW a \in Account, ~IsOpen(a), timing = "next_open", NEW halted \in BOOLEAN,
         NEW x \in Signalled(a, halted)
  PROVE  ~IsOpen(x)
  <1>1. x = a \/ x.position = a.position
    BY DEF Signalled, Account
  <1>. QED BY <1>1 DEF IsOpen

\* A flat agent whose order is not of the previous bar is flat after _process_agent.
LEMMA ProcessedFlat ==
  ASSUME NEW a \in Account, ~IsOpen(a), timing = "next_open", NEW halted \in BOOLEAN,
         a.order # bar - 1, NEW x \in Processed(a, halted)
  PROVE  ~IsOpen(x)
  <1>1. PICK y \in Executed(a, halted) :
          \E z \in IF IsOpen(y) THEN UNION {AfterManaged(m, halted) : m \in Managed(y)}
                   ELSE Signalled(y, halted) :
            x = Untradeable(z)
    BY DEF Processed
  <1>2. PICK z \in IF IsOpen(y) THEN UNION {AfterManaged(m, halted) : m \in Managed(y)}
                  ELSE Signalled(y, halted) :
          x = Untradeable(z)
    BY <1>1
  <1>3. y = a \/ y = [a EXCEPT !.order = 0]
    BY DEF Executed, PendingEntry, Expired
  <1>4. y \in Account /\ ~IsOpen(y)
    BY <1>3 DEF Account, IsOpen
  <1>5. ~IsOpen(z)
    BY <1>2, <1>4, SignalledFlat
  <1>. QED BY <1>2, <1>5 DEF Untradeable, Dead, IsOpen

\* And after the loop of run_decision_cycle.
LEMMA LoopedFlat ==
  ASSUME NEW a \in Account, ~IsOpen(a), timing = "next_open", NEW halted \in BOOLEAN,
         a.order # bar - 1, NEW x \in Looped(a, halted)
  PROVE  ~IsOpen(x)
  BY ProcessedFlat DEF Looped, Savepoint, Discarded, Account, IsOpen

\* The sweep does not touch a flat account.
LEMMA SweepFlat == ASSUME NEW a, ~IsOpen(a) PROVE Sweep(a) = {a}
  BY DEF Sweep

\* The end of a pass does not touch the position.
LEMMA PositionKept ==
  ASSUME NEW a \in Account
  PROVE  /\ Committed(a).position = a.position /\ Cancelled(a).position = a.position
         /\ Cancelled(a) \in Account
  BY DEF Committed, Cancelled, Account

\* With fills at the next open, a pending entry fills on the bar after its signal or never.
THEOREM EntriesOnTime == Spec => NeverFilledLate
  <1>1. IInv /\ [Next]_vars =>
          [~IsOpen(agent) /\ IsOpen(agent') /\ timing = "next_open" => agent.order = bar - 1]_agent
    <2>. SUFFICES ASSUME IInv, [Next]_vars, ~IsOpen(agent), timing = "next_open",
                         agent.order # bar - 1
                  PROVE  ~IsOpen(agent')
      OBVIOUS
    <2>0. Sound(agent) /\ agent \in Account
      BY DEF IInv, Sound
    <2>1. CASE Decide
      <3>1. PICK halted \in BOOLEAN :
              \E x \in UNION {Sweep(y) : y \in Looped(agent, halted)} :
                agent' = Committed(Cancelled(x))
        BY <2>1 DEF Decide
      <3>2. PICK y \in Looped(agent, halted) :
              \E x \in Sweep(y) : agent' = Committed(Cancelled(x))
        BY <3>1
      <3>3. ~IsOpen(y) /\ y \in Account
        BY <2>0, LoopedFlat, LoopedSound DEF IInv, Sound
      <3>4. agent' = Committed(Cancelled(y))
        BY <3>2, <3>3, SweepFlat
      <3>. QED BY <3>3, <3>4, PositionKept DEF IsOpen
    <2>2. CASE Protect
      BY <2>0, <2>2, SweepFlat, PositionKept DEF Protect, IsOpen
    <2>3. CASE NextBar \/ Restart \/ Invalidate \/ DecideRolledBack \/ ProtectRolledBack
      BY <2>0, <2>3 DEF NextBar, OnNewBar, Restart, Invalidate, DecideRolledBack, Discarded,
                        ProtectRolledBack, Account, IsOpen
    <2>4. CASE Publish \/ UNCHANGED vars
      BY <2>4 DEF Publish, vars
    <2>. QED BY <2>1, <2>2, <2>3, <2>4 DEF Next
  <1>. QED BY <1>1, Inductive, PTL DEF Spec, NeverFilledLate

-----------------------------------------------------------------------------
(* What no operator does to an account, sound or not: another transaction may *)
(* have left it in any state (see Rollover).                                  *)

\* The columns of the rows.
Columns ==
  {"status", "valid", "balance", "realized", "debt", "final", "position", "order", "decided",
   "evals", "ids", "seen", "open"}
PositionColumns ==
  {"opened", "managed", "fee", "funding", "paidTo", "exitOn", "attempts", "since", "charged"}
Shape(a) == DOMAIN a = Columns /\ DOMAIN a.position = PositionColumns

\* The account of a dead agent without a position is frozen at its final equity.
Laid(a) == a.status = "DEAD" /\ ~IsOpen(a) => a.final = a.balance

\* x is what became of a: it was not revived, nor parked with valid DNA, and if it was laid
\* to rest it still is; an order that was placed is of this bar.
Follows(a, x) ==
  /\ Shape(x)
  /\ x.valid = a.valid
  /\ x.status = "ACTIVE" => a.status = "ACTIVE"
  /\ x.status \in {a.status, "DEAD"} \/ ~a.valid
  /\ Laid(a) => Laid(x)
  /\ x.order \in {a.order, 0, bar}

\* What is open was managed on no later bar, and its exit refused fewer times than those that
\* force its settlement.
Left(p) ==
  /\ p.attempts \in Nat /\ p.managed \in 0..bar
  /\ p.opened # 0 => p.attempts < ForceAfter
Tidy(a) == a.balance \in Int /\ Left(a.position)
Tends(a, x) == Tidy(a) => Tidy(x)

\* What becomes of what became of an account became of it.
LEMMA FollowsTwice ==
  ASSUME NEW a, NEW b, NEW c, Follows(a, b), Follows(b, c)
  PROVE  Follows(a, c)
  BY DEF Follows

LEMMA TendsTwice ==
  ASSUME NEW a, NEW b, NEW c, Tends(a, b), Tends(b, c)
  PROVE  Tends(a, c)
  BY DEF Tends

\* Nothing became of an unchanged account.
LEMMA FollowsSame == ASSUME NEW a, Shape(a) PROVE Follows(a, a) /\ Tends(a, a)
  BY DEF Follows, Tends

\* A new agent's account has its columns.
LEMMA FreshShape == Shape(Fresh) /\ Laid(Fresh) /\ DOMAIN Flat = PositionColumns
  BY DEF Fresh, Flat, Shape, Laid, Columns, PositionColumns

LEMMA FreshTidy ==
  ASSUME bar \in Nat
  PROVE  Left(Flat) /\ Tidy(Fresh) /\ Flat.opened = 0
  <1>1. Left(Flat) /\ Flat.opened = 0
    BY DEF Left, Flat
  <1>. QED BY <1>1, Numbers DEF Tidy, Fresh

\* Death at the current balance, or beside a position.
LEMMA DeadFollows ==
  ASSUME NEW a, Shape(a), NEW e, IsOpen(a) \/ e = a.balance
  PROVE  /\ Follows(a, Dead(a, e)) /\ Follows(a, Valued(a, e))
         /\ Tends(a, Dead(a, e)) /\ Tends(a, Valued(a, e))
         /\ Valued(a, e).position = a.position /\ Valued(a, e).order = a.order
         /\ Valued(a, e).balance = a.balance
  <1>1. Follows(a, Dead(a, e))
    BY DEF Dead, Follows, Shape, Laid, IsOpen, Columns
  <1>2. /\ Dead(a, e).position = a.position /\ Dead(a, e).order = a.order
        /\ Dead(a, e).balance = a.balance
    BY DEF Dead, Shape, Columns
  <1>. HIDE DEF Dead
  <1>. QED BY <1>1, <1>2, FollowsSame DEF Valued, Tends, Tidy

\* The same position and balance.
LEMMA Alike ==
  ASSUME NEW a, NEW x, x.position = a.position, x.balance = a.balance
  PROVE  Tends(a, x)
  BY DEF Tends, Tidy

\* An id is claimed.
LEMMA ClaimFollows ==
  ASSUME NEW a, Shape(a), NEW i
  PROVE  /\ Follows(a, Claimed(a, i)) /\ Tends(a, Claimed(a, i)) /\ Shape(Claimed(a, i))
         /\ Claimed(a, i).position = a.position /\ Claimed(a, i).order = a.order
         /\ Claimed(a, i).balance = a.balance
  <1>1. /\ Follows(a, Claimed(a, i)) /\ Claimed(a, i).position = a.position
        /\ Claimed(a, i).order = a.order /\ Claimed(a, i).balance = a.balance
    BY DEF Claimed, Follows, Shape, Laid, IsOpen, Columns
  <1>2. Tends(a, Claimed(a, i))
    BY <1>1, Alike
  <1>. QED BY <1>1, <1>2 DEF Follows

\* An order is placed or cleared.
LEMMA OrderFollows ==
  ASSUME NEW a, Shape(a), NEW n \in {0, bar}
  PROVE  LET x == [a EXCEPT !.order = n]
         IN /\ Follows(a, x) /\ Tends(a, x) /\ Shape(x)
            /\ x.position = a.position /\ x.balance = a.balance
  <1>. DEFINE x == [a EXCEPT !.order = n]
  <1>1. Follows(a, x) /\ x.position = a.position /\ x.balance = a.balance
    BY DEF Follows, Shape, Laid, IsOpen, Columns
  <1>2. Tends(a, x)
    BY <1>1, Alike
  <1>. QED BY <1>1, <1>2 DEF Follows

\* A Decision row is written.
LEMMA AuditFollows ==
  ASSUME NEW a, Shape(a), NEW n
  PROVE  LET x == [a EXCEPT !.decided = n]
         IN /\ Follows(a, x) /\ Tends(a, x) /\ Shape(x)
            /\ x.position = a.position /\ x.order = a.order /\ x.balance = a.balance
  <1>. DEFINE x == [a EXCEPT !.decided = n]
  <1>1. /\ Follows(a, x) /\ x.position = a.position /\ x.order = a.order
        /\ x.balance = a.balance
    BY DEF Follows, Shape, Laid, IsOpen, Columns
  <1>2. Tends(a, x)
    BY <1>1, Alike
  <1>. QED BY <1>1, <1>2 DEF Follows

\* The end of a pass or of a bar leaves status, position and balance as they are.
LEMMA EndOfPass ==
  ASSUME NEW a, Shape(a), NEW s, NEW o,
         NEW x \in {Discarded(a), Committed(a), Cancelled(a), OnNewBar(a),
                    [a EXCEPT !.seen = s, !.open = o]}
  PROVE  /\ Follows(a, x) /\ Tends(a, x)
         /\ x.position = a.position /\ x.balance = a.balance /\ x.status = a.status
         /\ x.order = a.order \/ x = Cancelled(a)
  <1>1. Follows(a, Discarded(a)) /\ Follows(a, Committed(a)) /\ Follows(a, Cancelled(a))
    BY DEF Discarded, Committed, Cancelled, Follows, Shape, Laid, IsOpen, Columns
  <1>2. Follows(a, OnNewBar(a)) /\ Follows(a, [a EXCEPT !.seen = s, !.open = o])
    BY DEF OnNewBar, Follows, Shape, Laid, IsOpen, Columns
  <1>3. /\ x.position = a.position /\ x.balance = a.balance /\ x.status = a.status
        /\ x.order = a.order \/ x = Cancelled(a)
    BY DEF Discarded, Committed, Cancelled, OnNewBar, Shape, Columns
  <1>4. Tends(a, x)
    BY <1>3, Alike
  <1>. QED BY <1>1, <1>2, <1>3, <1>4

\* A settled trade leaves a dead agent's account frozen.
LEMMA SettledFollows ==
  ASSUME NEW a, Shape(a), NEW kind, NEW g \in PnL
  PROVE  /\ Follows(a, Settled(a, kind, g)) /\ Settled(a, kind, g).order = a.order
         /\ Settled(a, kind, g).position = Flat
         /\ a.balance \in Int => Settled(a, kind, g).balance \in Nat
  <1>. DEFINE exitFee == Fee + (IF kind = "liquidation" THEN Penalty ELSE 0)
              raw == a.balance + g - exitFee
              b == MaxOf(raw, 0)
              d == a.debt + MaxOf(raw, 0) - raw
              r == a.realized + Net(a.position, g, exitFee)
              closed == [a EXCEPT !.position = Flat, !.balance = b, !.debt = d, !.realized = r]
              valued == Valued(closed, closed.balance)
              last == IF kind = "liquidation" THEN Dead(valued, closed.balance) ELSE valued
  <1>0. a.balance \in Int => b \in Nat
    BY Numbers DEF PnL, MaxOf
  <1>. HIDE DEF b, d, r
  <1>1. /\ Shape(closed) /\ closed.valid = a.valid /\ closed.status = a.status
        /\ closed.balance = b /\ closed.order = a.order /\ closed.position = Flat
    BY FreshShape DEF Shape, Columns
  <1>. HIDE DEF closed
  <1>2. /\ Shape(last) /\ last.valid = a.valid /\ last.status \in {a.status, "DEAD"}
        /\ last.balance = b /\ last.order = a.order /\ last.position = Flat
    BY <1>1 DEF Valued, Dead, Shape, Columns
  <1>. HIDE DEF last
  <1>3. /\ Follows(a, Frozen(last)) /\ Frozen(last).order = a.order
        /\ Frozen(last).position = Flat /\ Frozen(last).balance = b
    BY <1>2 DEF Frozen, Follows, Shape, Laid, IsOpen, Columns
  <1>4. Settled(a, kind, g) = Frozen(last)
    BY DEF Settled, last, valued, closed, b, d, r, exitFee
  <1>. QED BY <1>0, <1>3, <1>4

\* Filled, refused or force settled: what is open still was refused once more.
LEMMA CloseFollows ==
  ASSUME NEW a, Shape(a), bar \in Nat, NEW kind, NEW x \in Close(a, kind)
  PROVE  /\ Follows(a, x) /\ Tends(a, x) /\ x.order = a.order
         /\ a.balance \in Int => x.balance \in Nat \/ x.balance = a.balance
         /\ IsOpen(x) => /\ x.position.attempts = a.position.attempts + 1
                         /\ x.position.managed = a.position.managed
  <1>. DEFINE claimed == Claimed(a, ExitId(a))
              tried == [claimed EXCEPT !.decided = bar]
              q == [tried.position EXCEPT !.attempts = @ + 1]
              refused == [tried EXCEPT !.position = q]
              settled == {Settled(tried, kind, g) : g \in PnL} \cup {Settled(refused, kind, g) : g \in PnL}
  <1>1. /\ Follows(a, claimed) /\ Shape(claimed) /\ claimed.position = a.position
        /\ claimed.order = a.order /\ claimed.balance = a.balance
    BY ClaimFollows
  <1>. HIDE DEF claimed
  <1>2. /\ Follows(a, tried) /\ Shape(tried) /\ tried.position = a.position
        /\ tried.order = a.order /\ tried.balance = a.balance
    <2>1. /\ Follows(claimed, tried) /\ tried.position = claimed.position
          /\ tried.order = claimed.order /\ tried.balance = claimed.balance
      BY <1>1, AuditFollows
    <2>. HIDE DEF tried
    <2>. QED BY <1>1, <2>1, FollowsTwice DEF Follows
  <1>. HIDE DEF tried
  <1>3. refused = [tried EXCEPT !.position.attempts = @ + 1]
    BY <1>2 DEF Shape, Columns
  <1>4. /\ DOMAIN q = PositionColumns /\ q.opened = a.position.opened
        /\ q.attempts = a.position.attempts + 1 /\ q.managed = a.position.managed
    BY <1>2 DEF Shape, PositionColumns
  <1>. HIDE DEF q
  <1>5. /\ Follows(tried, refused) /\ Shape(refused) /\ refused.position = q
        /\ refused.order = a.order /\ refused.balance = a.balance
    BY <1>2, <1>4 DEF Follows, Shape, Laid, IsOpen, Columns
  <1>. HIDE DEF refused
  <1>6. x \in settled \/ (x = refused /\ ~(q.attempts >= ForceAfter))
    <2>1. \/ x \in settled \/ (x = refused /\ ~GivesUp(refused.position))
      <3>. HIDE DEF ExitId, Settled, GivesUp
      <3>. QED BY <1>3 DEF Close, tried, claimed
    <2>. QED BY <1>5, <2>1 DEF GivesUp
  <1>7. ASSUME NEW t, t = tried \/ t = refused, NEW g \in PnL, x = Settled(t, kind, g)
        PROVE  /\ Follows(a, x) /\ x.order = a.order /\ x.position = Flat
               /\ a.balance \in Int => x.balance \in Nat
    <2>1. /\ Follows(a, t) /\ Shape(t) /\ t.order = a.order /\ t.balance = a.balance
      BY <1>2, <1>5, <1>7, FollowsTwice
    <2>2. /\ Follows(t, x) /\ x.order = t.order /\ x.position = Flat
          /\ t.balance \in Int => x.balance \in Nat
      BY <1>7, <2>1, SettledFollows
    <2>. QED BY <2>1, <2>2, FollowsTwice
  <1>8. CASE x \in settled
    <2>1. /\ Follows(a, x) /\ x.order = a.order /\ x.position = Flat
          /\ a.balance \in Int => x.balance \in Nat
      BY <1>7, <1>8
    <2>2. Left(Flat) /\ ~IsOpen(x)
      BY <2>1, FreshTidy DEF IsOpen
    <2>. QED BY <2>1, <2>2 DEF Tends, Tidy
  <1>9. CASE x = refused /\ ~(q.attempts >= ForceAfter)
    <2>1. Left(a.position) => Left(q)
      BY <1>4, <1>9, LoopAssumption DEF Left
    <2>. QED BY <1>2, <1>4, <1>5, <1>9, <2>1, FollowsTwice DEF Tends, Tidy
  <1>. QED BY <1>6, <1>8, <1>9

\* There are finitely many settlements to pay.
LEMMA DueFinite ==
  ASSUME NEW p, bar \in Nat
  PROVE  Cardinality(Due(p)) \in Nat
  <1>1. bar \in Int /\ \A t \in Due(p) : t \in Nat /\ t <= bar
    BY Numbers DEF Due
  <1>2. IsFiniteSet(0..bar)
    BY <1>1, FS_Interval
  <1>3. Due(p) \in SUBSET (0..bar)
    BY <1>1
  <1>. QED BY <1>2, <1>3, FS_Subset, FS_CardinalityType

\* Funding paid beside an open position: what it leaves is not below zero when the balance
\* covers what is due.
LEMMA AccruedFollows ==
  ASSUME NEW a, Shape(a), bar \in Nat, IsOpen(a), NEW x \in Accrued(a)
  PROVE  /\ Follows(a, x) /\ Tends(a, x) /\ IsOpen(x) /\ x.order = a.order
         /\ x.position.attempts = a.position.attempts
         /\ a.balance \in Int => x.balance \in Int
         /\ a.balance \in Int /\ Cardinality(Due(a.position)) <= a.balance => x.balance \in Nat
  <1>. DEFINE due == Due(a.position)
              n == Cardinality(due)
              paidTo == IF due = {} THEN a.position.paidTo
                        ELSE CHOOSE t \in due : \A u \in due : u <= t
              charged == [t \in Settlements |-> a.position.charged[t] + (IF t \in due THEN 1 ELSE 0)]
  <1>1. PICK rate \in {-1, 1} :
          x = [a EXCEPT !.balance = @ - rate * Cardinality(due),
                        !.position.funding = @ + rate * Cardinality(due),
                        !.position.paidTo = paidTo, !.position.charged = charged]
    BY DEF Accrued, Shape, Columns, PositionColumns
  <1>2. n \in Nat
    BY DueFinite
  <1>. HIDE DEF due, paidTo, charged
  <1>3. /\ DOMAIN x = Columns /\ x.valid = a.valid /\ x.status = a.status /\ x.order = a.order
        /\ DOMAIN x.position = PositionColumns /\ x.position.opened = a.position.opened
        /\ x.position.attempts = a.position.attempts /\ x.position.managed = a.position.managed
        /\ x.balance = a.balance - rate * n
    BY <1>1 DEF Shape, Columns, PositionColumns
  <1>4. Follows(a, x) /\ IsOpen(x)
    BY <1>3 DEF Follows, Shape, Laid, IsOpen
  <1>. HIDE DEF n
  <1>5. /\ a.balance \in Int => x.balance \in Int
        /\ a.balance \in Int /\ n <= a.balance => x.balance \in Nat
    BY <1>2, <1>3
  <1>. QED BY <1>3, <1>4, <1>5 DEF Tends, Tidy, Left, n, due

\* A bar evaluated, or skipped because it was.
LEMMA ManagedFollows ==
  ASSUME NEW a, Shape(a), bar \in Nat, IsOpen(a), NEW x \in Managed(a)
  PROVE  /\ Follows(a, x) /\ Tends(a, x) /\ x.order = a.order
         /\ a.balance \in Int /\ Cardinality(Due(a.position)) <= a.balance /\ ~AlreadyManaged(a.position) =>
              x.balance \in Nat
         /\ Tidy(a) /\ ~AlreadyManaged(a.position) =>
              \/ x.balance \in Int /\ x.balance < 0
              \/ ~IsOpen(x) /\ x.balance \in Nat
              \/ /\ x.position.managed = bar /\ x.position.attempts >= a.position.attempts
                 /\ x.balance \in Nat
  <1>1. CASE AlreadyManaged(a.position)
    BY <1>1, FollowsSame DEF Managed
  <1>2. CASE ~AlreadyManaged(a.position)
    <2>1. PICK y \in Accrued(a) :
            x \in IF y.balance < 0 THEN {y}
                  ELSE Evaluated([y EXCEPT !.position.managed = bar, !.evals = @ + 1])
      BY <1>2 DEF Managed
    <2>2. /\ Follows(a, y) /\ Tends(a, y) /\ IsOpen(y) /\ Shape(y) /\ y.order = a.order
          /\ y.position.attempts = a.position.attempts
          /\ a.balance \in Int => y.balance \in Int
          /\ a.balance \in Int /\ Cardinality(Due(a.position)) <= a.balance => y.balance \in Nat
      BY AccruedFollows DEF Follows
    <2>. DEFINE q == [y.position EXCEPT !.managed = bar]
                n == y.evals + 1
                z == [y EXCEPT !.position = q, !.evals = n]
    <2>3. z = [y EXCEPT !.position.managed = bar, !.evals = @ + 1]
      BY <2>2 DEF Shape, Columns
    <2>4. /\ DOMAIN q = PositionColumns /\ q.opened = y.position.opened
          /\ q.attempts = y.position.attempts /\ q.managed = bar
      BY <2>2 DEF Shape, PositionColumns
    <2>. HIDE DEF q, n
    <2>5. /\ Follows(y, z) /\ IsOpen(z) /\ Shape(z) /\ z.order = y.order /\ z.position = q
          /\ z.balance = y.balance
      BY <2>2, <2>4 DEF Follows, Shape, Laid, IsOpen, Columns
    <2>. HIDE DEF z
    <2>6. Tends(y, z)
      <3>1. Left(y.position) => Left(q)
        BY <2>4 DEF Left
      <3>. QED BY <2>5, <3>1 DEF Tends, Tidy
    <2>7. ASSUME NEW w \in Evaluated(z)
          PROVE  /\ Follows(z, w) /\ Tends(z, w) /\ w.order = z.order
                 /\ z.balance \in Int => w.balance \in Nat \/ w.balance = z.balance
                 /\ IsOpen(w) => /\ w.position.managed = bar
                                 /\ w.position.attempts \in {q.attempts, q.attempts + 1}
      <3>1. CASE \E u \in PnL : w = Valued(z, z.balance + u)
        BY <2>4, <2>5, <3>1, DeadFollows
      <3>2. CASE w \in Close(z, "level") \/ w \in Close(z, "liquidation")
        BY <2>4, <2>5, <3>2, CloseFollows
      <3>. QED BY <2>7, <3>1, <3>2 DEF Evaluated
    <2>8. CASE x = y /\ y.balance < 0
      BY <2>2, <2>8 DEF Tidy
    <2>9. CASE x \in Evaluated(z) /\ ~(y.balance < 0)
      <3>1. Follows(a, x) /\ Tends(a, x) /\ x.order = a.order
        BY <2>2, <2>5, <2>6, <2>7, <2>9, FollowsTwice, TendsTwice
      <3>2. a.balance \in Int => x.balance \in Nat
        BY <2>2, <2>5, <2>7, <2>9
      <3>3. Tidy(a) /\ IsOpen(x) => x.position.managed = bar /\ x.position.attempts >= a.position.attempts
        <4>1. Tidy(a) => a.position.attempts \in Nat
          BY DEF Tidy, Left
        <4>. QED BY <2>2, <2>4, <2>7, <2>9, <4>1
      <3>. QED BY <3>1, <3>2, <3>3 DEF Tidy
    <2>. QED BY <2>1, <2>3, <2>8, <2>9
  <1>. QED BY <1>1, <1>2

\* A savepoint takes one of its outcomes or is rolled back.
LEMMA SavepointFollows ==
  ASSUME NEW a, Shape(a), NEW S, \A y \in S : Follows(a, y) /\ Tends(a, y), NEW x \in Savepoint(a, S)
  PROVE  Follows(a, x) /\ Tends(a, x)
  BY EndOfPass DEF Savepoint

\* protect_open_positions never revives an agent, nor places an order.
LEMMA SweepFollows ==
  ASSUME NEW a, Shape(a), bar \in Nat, NEW x \in Sweep(a)
  PROVE  Follows(a, x) /\ Tends(a, x) /\ x.order = a.order
  <1>1. ASSUME IsOpen(a), NEW y \in Protected(a)
        PROVE  Follows(a, y) /\ Tends(a, y) /\ y.order = a.order
    <2>1. PICK m \in Managed(a) :
            y \in IF m.balance < 0 \/ ~IsOpen(m) \/ m.status = "ACTIVE" THEN {m}
                  ELSE Close(m, IF m.status = "DEAD" THEN "liquidation" ELSE "market")
      BY <1>1 DEF Protected
    <2>2. Follows(a, m) /\ Shape(m) /\ Tends(a, m) /\ m.order = a.order
      BY <1>1, ManagedFollows DEF Follows
    <2>. QED BY <2>1, <2>2, CloseFollows, FollowsTwice, TendsTwice
  <1>2. CASE IsOpen(a) /\ x \in Savepoint(a, Protected(a))
    <2>1. Follows(a, x) /\ Tends(a, x)
      BY <1>1, <1>2, SavepointFollows
    <2>2. Discarded(a).order = a.order
      BY DEF Discarded, Shape, Columns
    <2>. QED BY <1>1, <1>2, <2>1, <2>2 DEF Savepoint
  <1>. QED BY <1>2, FollowsSame DEF Sweep

\* The sweep over a position whose owner is not ACTIVE: it is closed or was refused once more,
\* unless its funding cannot be paid.
LEMMA SweepTries ==
  ASSUME NEW a, Shape(a), Tidy(a), bar \in Nat, ~Transient, IsOpen(a), a.status # "ACTIVE",
         ~AlreadyManaged(a.position), NEW x \in Sweep(a)
  PROVE  \/ ~IsOpen(x)
         \/ x.position.attempts > a.position.attempts /\ x.position.managed = bar
         \/ x.position = a.position /\ Unpayable(a)
  <1>0. Cardinality(Due(a.position)) \in Nat
    BY DueFinite
  <1>1. a.position.attempts \in Nat /\ a.position.managed < bar /\ a.balance \in Int
    BY DEF Tidy, Left, AlreadyManaged
  <1>2. ASSUME NEW y \in Protected(a)
        PROVE  /\ Cardinality(Due(a.position)) <= a.balance => y.balance \in Nat
               /\ y.balance >= 0 => ~IsOpen(y) \/ (y.position.attempts > a.position.attempts
                                                    /\ y.position.managed = bar)
    <2>1. PICK m \in Managed(a) :
            y \in IF m.balance < 0 \/ ~IsOpen(m) \/ m.status = "ACTIVE" THEN {m}
                  ELSE Close(m, IF m.status = "DEAD" THEN "liquidation" ELSE "market")
      BY <1>2 DEF Protected
    <2>2. /\ Follows(a, m) /\ Tidy(m)
          /\ Cardinality(Due(a.position)) <= a.balance => m.balance \in Nat
          /\ \/ m.balance \in Int /\ m.balance < 0
             \/ ~IsOpen(m) /\ m.balance \in Nat
             \/ /\ m.position.managed = bar /\ m.position.attempts >= a.position.attempts
                /\ m.balance \in Nat
      BY <1>1, ManagedFollows DEF Tends
    <2>3. m.status # "ACTIVE" /\ Shape(m) /\ m.balance \in Int /\ m.position.attempts \in Nat
      BY <2>2 DEF Follows, Tidy, Left
    <2>4. CASE y = m /\ (m.balance < 0 \/ ~IsOpen(m))
      BY <2>2, <2>3, <2>4
    <2>5. CASE /\ y \in Close(m, "liquidation") \cup Close(m, "market")
               /\ ~(m.balance < 0) /\ IsOpen(m)
      <3>1. /\ y.balance \in Nat \/ y.balance = m.balance
            /\ IsOpen(y) => /\ y.position.attempts = m.position.attempts + 1
                            /\ y.position.managed = m.position.managed
        BY <2>3, <2>5, CloseFollows
      <3>. QED BY <1>1, <2>2, <2>3, <2>5, <3>1
    <2>. QED BY <2>1, <2>3, <2>4, <2>5
  <1>3. x \in Savepoint(a, Protected(a))
    BY <1>1 DEF Sweep
  <1>4. CASE x \in Protected(a) /\ x.balance >= 0
    BY <1>2, <1>4
  <1>5. CASE x = Discarded(a) /\ \E y \in Protected(a) : y.balance < 0
    <2>1. x.position = a.position
      BY <1>5, EndOfPass
    <2>2. PICK y \in Protected(a) : y.balance < 0
      BY <1>5
    <2>. QED BY <1>0, <1>1, <1>2, <2>1, <2>2 DEF Unpayable
  <1>. QED BY <1>3, <1>4, <1>5 DEF Savepoint

\* A fill opens a position or is refused.
LEMMA FillFollows ==
  ASSUME NEW a, Shape(a), bar \in Nat \ {0}, NEW immediate, NEW x \in FillEntry(a, immediate)
  PROVE  Follows(a, x) /\ Tends(a, x)
  <1>. DEFINE claimed == Claimed(a, EntryId)
              tried == [claimed EXCEPT !.order = 0]
              cleared == [tried EXCEPT !.order = 0]
              refused == [cleared EXCEPT !.decided = bar]
              b == tried.balance - Fee
              managed == IF immediate THEN bar ELSE 0
              since == IF immediate THEN bar ELSE bar - 1
              q == [Flat EXCEPT !.opened = bar, !.fee = Fee, !.managed = managed,
                                !.paidTo = since, !.since = since]
              opened == [tried EXCEPT !.balance = b, !.position = q]
  <1>1. Follows(a, claimed) /\ Shape(claimed) /\ Tends(a, claimed)
    BY ClaimFollows
  <1>. HIDE DEF claimed
  <1>2. Follows(a, tried) /\ Shape(tried) /\ Tends(a, tried)
    <2>1. Follows(claimed, tried) /\ Tends(claimed, tried)
      BY <1>1, OrderFollows
    <2>. HIDE DEF tried
    <2>. QED BY <1>1, <2>1, FollowsTwice, TendsTwice DEF Follows
  <1>. HIDE DEF tried
  <1>3. Follows(tried, cleared) /\ Shape(cleared) /\ Tends(tried, cleared)
    <2>1. Follows(tried, cleared) /\ Tends(tried, cleared)
      BY <1>2, OrderFollows
    <2>. HIDE DEF cleared
    <2>. QED BY <2>1 DEF Follows
  <1>. HIDE DEF cleared
  <1>4. Follows(cleared, refused) /\ Tends(cleared, refused)
    BY <1>3, AuditFollows
  <1>5. DOMAIN q = PositionColumns /\ q.opened = bar /\ q.attempts = 0 /\ q.managed = managed
    BY FreshShape DEF PositionColumns, Flat
  <1>6. managed \in 0..bar
    OBVIOUS
  <1>7. b = tried.balance - Fee
    OBVIOUS
  <1>. HIDE DEF refused, b, managed, since, q
  <1>8. /\ Follows(tried, opened) /\ Shape(opened) /\ IsOpen(opened)
        /\ opened.balance = b /\ opened.position = q
    BY <1>2, <1>5 DEF Follows, Shape, Laid, IsOpen, Columns
  <1>. HIDE DEF opened
  <1>9. Tends(tried, opened)
    BY <1>5, <1>6, <1>7, <1>8, LoopAssumption DEF Tends, Tidy, Left
  <1>10. Follows(opened, Valued(opened, opened.balance)) /\ Tends(opened, Valued(opened, opened.balance))
    BY <1>8, DeadFollows
  <1>11. x = refused \/ x = Valued(opened, opened.balance)
    BY DEF FillEntry, Filled, refused, cleared, opened, b, q, since, managed, tried, claimed
  <1>12. Follows(a, cleared) /\ Tends(a, cleared) /\ Follows(a, opened) /\ Tends(a, opened)
    BY <1>2, <1>3, <1>8, <1>9, FollowsTwice, TendsTwice
  <1>. QED BY <1>4, <1>10, <1>11, <1>12, FollowsTwice, TendsTwice

\* An exit is asked for at a bar's close, or no longer.
LEMMA AskedFollows ==
  ASSUME NEW a, Shape(a), IsOpen(a), NEW n
  PROVE  LET x == [a EXCEPT !.position.exitOn = n] IN Follows(a, x) /\ Tends(a, x) /\ Shape(x)
  <1>. DEFINE x == [a EXCEPT !.position.exitOn = n]
  <1>1. /\ DOMAIN x = Columns /\ x.valid = a.valid /\ x.status = a.status /\ x.order = a.order
        /\ x.balance = a.balance
        /\ DOMAIN x.position = PositionColumns /\ x.position.opened = a.position.opened
        /\ x.position.attempts = a.position.attempts /\ x.position.managed = a.position.managed
    BY DEF Shape, Columns, PositionColumns
  <1>. HIDE DEF x
  <1>2. Follows(a, x) /\ Tends(a, x) /\ Shape(x)
    BY <1>1 DEF Follows, Shape, Laid, IsOpen, Tends, Tidy, Left
  <1>. QED BY <1>2 DEF x

\* The orders of the previous close.
LEMMA ExecutedFollows ==
  ASSUME NEW a, Shape(a), bar \in Nat \ {0}, NEW halted, NEW x \in Executed(a, halted)
  PROVE  Follows(a, x) /\ Tends(a, x)
  <1>1. CASE IsOpen(a) /\ a.position.exitOn # 0
    <2>. DEFINE cleared == [a EXCEPT !.position.exitOn = 0]
    <2>1. x = cleared \/ x \in Close(cleared, "market")
      BY <1>1 DEF Executed
    <2>2. Follows(a, cleared) /\ Tends(a, cleared) /\ Shape(cleared)
      BY <1>1, AskedFollows
    <2>. HIDE DEF cleared
    <2>. QED BY <2>1, <2>2, CloseFollows, FollowsTwice, TendsTwice
  <1>2. CASE ~IsOpen(a) /\ a.order # 0
    <2>1. \/ x = [a EXCEPT !.order = 0]
          \/ x \in FillEntry(a, TRUE) \/ x \in FillEntry(a, FALSE)
      BY <1>2 DEF Executed, PendingEntry
    <2>2. Follows(a, [a EXCEPT !.order = 0]) /\ Tends(a, [a EXCEPT !.order = 0])
      BY OrderFollows
    <2>. QED BY <2>1, <2>2, FillFollows
  <1>. QED BY <1>1, <1>2, FollowsSame DEF Executed

\* The signal of this close.
LEMMA SignalledFollows ==
  ASSUME NEW a, Shape(a), bar \in Nat \ {0}, NEW halted, NEW x \in Signalled(a, halted)
  PROVE  Follows(a, x) /\ Tends(a, x)
  <1>. DEFINE audited == [a EXCEPT !.decided = bar]
              ordered == [audited EXCEPT !.order = bar]
              exiting == [audited EXCEPT !.position.exitOn = bar]
  <1>1. /\ Follows(a, audited) /\ Tends(a, audited) /\ Shape(audited)
        /\ audited.position = a.position
    BY AuditFollows
  <1>. HIDE DEF audited
  <1>2. Follows(audited, ordered) /\ Tends(audited, ordered) /\ Shape(ordered)
    <2>1. Follows(audited, ordered) /\ Tends(audited, ordered)
      BY <1>1, OrderFollows
    <2>. HIDE DEF ordered
    <2>. QED BY <2>1 DEF Follows
  <1>3. IsOpen(a) => Follows(audited, exiting) /\ Tends(audited, exiting)
    BY <1>1, AskedFollows DEF IsOpen
  <1>. HIDE DEF ordered
  <1>4. \/ x = a \/ x = audited \/ x = ordered
        \/ IsOpen(a) /\ x = exiting
        \/ x \in Close(a, "market") \/ x \in FillEntry(ordered, TRUE)
    BY DEF Signalled, audited, ordered
  <1>. HIDE DEF exiting
  <1>5. x \in FillEntry(ordered, TRUE) => Follows(ordered, x) /\ Tends(ordered, x)
    BY <1>2, FillFollows
  <1>6. x \in Close(a, "market") => Follows(a, x) /\ Tends(a, x)
    BY CloseFollows
  <1>7. Follows(a, ordered) /\ Tends(a, ordered) /\ Follows(a, a) /\ Tends(a, a)
    BY <1>1, <1>2, FollowsSame, FollowsTwice, TendsTwice
  <1>8. /\ Follows(ordered, x) => Follows(a, x)
        /\ Follows(audited, x) => Follows(a, x)
        /\ Tends(ordered, x) => Tends(a, x)
        /\ Tends(audited, x) => Tends(a, x)
    BY <1>1, <1>7, FollowsTwice, TendsTwice
  <1>. QED BY <1>1, <1>3, <1>4, <1>5, <1>6, <1>7, <1>8

\* _process_agent never revives an agent.
LEMMA ProcessedFollows ==
  ASSUME NEW a, Shape(a), bar \in Nat \ {0}, NEW halted, NEW x \in Processed(a, halted)
  PROVE  Follows(a, x) /\ Tends(a, x)
  <1>1. PICK y \in Executed(a, halted) :
          \E z \in IF IsOpen(y) THEN UNION {AfterManaged(m, halted) : m \in Managed(y)}
                   ELSE Signalled(y, halted) :
            x = Untradeable(z)
    BY DEF Processed
  <1>2. PICK z \in IF IsOpen(y) THEN UNION {AfterManaged(m, halted) : m \in Managed(y)}
                  ELSE Signalled(y, halted) :
          x = Untradeable(z)
    BY <1>1
  <1>3. Follows(a, y) /\ Tends(a, y) /\ Shape(y)
    BY ExecutedFollows DEF Follows
  <1>4. ASSUME IsOpen(y), NEW m \in Managed(y), NEW w \in AfterManaged(m, halted)
        PROVE  Follows(y, w) /\ Tends(y, w)
    <2>1. Follows(y, m) /\ Tends(y, m) /\ Shape(m)
      BY <1>3, <1>4, ManagedFollows DEF Follows
    <2>2. Follows(m, w) /\ Tends(m, w)
      BY <1>4, <2>1, CloseFollows, SignalledFollows, FollowsSame DEF AfterManaged
    <2>. QED BY <2>1, <2>2, FollowsTwice, TendsTwice
  <1>5. Follows(y, z) /\ Tends(y, z) /\ Shape(z)
    <2>1. Follows(y, z) /\ Tends(y, z)
      BY <1>2, <1>3, <1>4, SignalledFollows
    <2>. QED BY <2>1 DEF Follows
  <1>6. Follows(z, x) /\ Tends(z, x)
    BY <1>2, <1>5, DeadFollows, FollowsSame DEF Untradeable
  <1>. QED BY <1>3, <1>5, <1>6, FollowsTwice, TendsTwice

\* Nor does the loop of run_decision_cycle, which parks only agents with invalid DNA.
LEMMA LoopedFollows ==
  ASSUME NEW a, Shape(a), bar \in Nat \ {0}, NEW halted, NEW x \in Looped(a, halted)
  PROVE  Follows(a, x) /\ Tends(a, x)
  <1>1. ~a.valid => Follows(a, [a EXCEPT !.status = "PAUSED"]) /\ Tends(a, [a EXCEPT !.status = "PAUSED"])
    BY DEF Follows, Shape, Laid, IsOpen, Columns, Tends, Tidy
  <1>2. \A y \in Processed(a, halted) : Follows(a, y) /\ Tends(a, y)
    BY ProcessedFollows
  <1>3. \A y \in Savepoint(a, Processed(a, halted)) : Follows(a, y) /\ Tends(a, y)
    BY <1>2, SavepointFollows
  <1>. QED BY <1>1, <1>3, FollowsSame DEF Looped
==============================================================================
