---------------------------- MODULE RolloverProofs ----------------------------
(***************************************************************************)
(* A generation's end and the worker's passes, for every account, number of *)
(* bars, crashes and schedule of the two processes' transactions.           *)
(*                                                                         *)
(* What a pass makes of an account is AgentLoop's, so its lemmas are cited  *)
(* through L: the sound stay sound, and none is revived (Follows), sound or *)
(* not.  That nobody is revived needs only Writes: the column status is set *)
(* only where it changed, and no transaction changes it to ACTIVE.  That a  *)
(* rollover without an overlap leaves nothing behind needs three phases:    *)
(* while the generation is traded the worker's copy is the committed row    *)
(* (Unretired); from the retirement's first read on, so is its copy, until  *)
(* a pass commits (Overlap); afterwards no pass finds anything to write     *)
(* (After).  That what an overlap left behind goes with the following bars  *)
(* needs a bound on how long it resists (Counted).                          *)
(*                                                                         *)
(* Genome, what the next generation is bred from, comes last.               *)
(***************************************************************************)
EXTENDS Rollover, Genome, TLAPS

\* The columns of the agent's own row that the retirement settles.
Money == {"status", "balance", "realized", "debt", "final"}

\* What a rollover leaves of an account.
Gone(a) ==
  /\ a.status # "ACTIVE" /\ ~L!IsOpen(a) /\ a.order = 0
  /\ a.balance = Starting + a.realized + a.debt
  /\ a.final = a.balance

\* An account of the generation being traded.
Trading(a) == L!Sound(a) /\ L!Laid(a) /\ a.valid = TRUE /\ a.status \in {"ACTIVE", "DEAD"}

-----------------------------------------------------------------------------
(* What a pass, a read in two SELECTs, a merge and a settlement make of an account. *)

\* What AgentLoop's passes do to an account: sound ones stay sound, none is revived.
LEMMA Passes ==
  ASSUME NEW a, L!Shape(a), bar \in 1..MaxBar, swept \in Nat
  PROVE  /\ \A x \in L!Sweep(a) : L!Follows(a, x)
         /\ \A halted \in BOOLEAN : \A x \in L!Looped(a, halted) : L!Follows(a, x)
         /\ L!Sound(a) => \A x \in L!Sweep(a) : L!Sound(x)
         /\ L!Sound(a) => \A halted \in BOOLEAN : \A x \in L!Looped(a, halted) : L!Sound(x)
  <1>1. bar # 0 /\ L!Ambient
    BY RolloverAssumption DEF L!Ambient
  <1>2. \A x \in L!Sweep(a) : L!Follows(a, x)
    BY L!SweepFollows, RolloverAssumption
  <1>3. \A halted \in BOOLEAN : \A x \in L!Looped(a, halted) : L!Follows(a, x)
    BY <1>1, L!LoopedFollows, RolloverAssumption
  <1>4. L!Sound(a) => \A x \in L!Sweep(a) : L!Sound(x)
    BY <1>1, L!SweepSound, RolloverAssumption
  <1>5. L!Sound(a) => \A halted \in BOOLEAN : \A x \in L!Looped(a, halted) : L!Sound(x)
    BY <1>1, L!LoopedSound, RolloverAssumption
  <1>. QED BY <1>2, <1>3, <1>4, <1>5

\* So does the end of a pass.
LEMMA Ends ==
  ASSUME NEW a, L!Shape(a)
  PROVE  /\ L!Follows(a, L!Committed(a)) /\ L!Follows(a, L!Cancelled(a))
         /\ L!Sound(a) => L!Sound(L!Committed(a)) /\ L!Sound(L!Cancelled(a))
  <1>1. L!Follows(a, L!Committed(a)) /\ L!Follows(a, L!Cancelled(a))
    BY L!EndOfPass, RolloverAssumption
  <1>2. L!Sound(a) => L!Sound(L!Committed(a)) /\ L!Sound(L!Cancelled(a))
    BY L!CommittedSound, RolloverAssumption
  <1>. QED BY <1>1, <1>2

\* A sound account has its columns.
LEMMA SoundShape == ASSUME NEW a, L!Sound(a) PROVE L!Shape(a)
  BY DEF L!Sound, L!Account, L!PositionRow, L!Shape, L!Columns, L!PositionColumns

\* A new agent's account is one of the generation being traded.
LEMMA FreshTrading == Trading(L!Fresh) /\ L!Shape(L!Fresh) /\ L!Fresh.position.opened = 0
  <1>1. L!Sound(L!Fresh)
    BY L!FreshSound, RolloverAssumption
  <1>2. L!Shape(L!Fresh) /\ L!Laid(L!Fresh)
    BY L!FreshShape, RolloverAssumption
  <1>. QED BY <1>1, <1>2 DEF Trading, L!Fresh, L!Flat

\* An account read in two SELECTs.
LEMMA ReadShape ==
  ASSUME NEW row, NEW a, L!Shape(row), L!Shape(a)
  PROVE  /\ L!Shape(Account(row, a))
         /\ \A f \in L!Columns \ {"position", "order"} : Account(row, a)[f] = a[f]
         /\ Account(row, a).position = row.position /\ Account(row, a).order = row.order
  BY DEF Account, L!Shape, L!Columns

\* Read whole, it is the committed one.
LEMMA ReadWhole ==
  ASSUME NEW row, NEW a, a \in L!Account, L!Shape(row)
  PROVE  Account(a, Account(row, a)) = a /\ Account(Account(a, row), a) = a
  BY DEF Account, L!Account, L!Shape, L!Columns

\* A transaction that wrote nothing leaves the committed account.
LEMMA MergedNothing ==
  ASSUME NEW row, L!Shape(row), NEW w, L!Shape(w), w.position.opened = 0
  PROVE  /\ L!Shape(Merged(row, w, w))
         /\ \A f \in L!Columns : Merged(row, w, w)[f] = row[f]
  BY DEF Merged, Column, PositionRow, L!Shape, L!Columns, L!PositionColumns

\* A transaction that read the committed account leaves what it wrote.
LEMMA MergedOwn ==
  ASSUME NEW row, NEW read, NEW w, L!Shape(row), L!Shape(read), L!Shape(w)
  PROVE  /\ L!Shape(Merged(row, read, w))
         /\ \A f \in L!Columns : row[f] = read[f] => Merged(row, read, w)[f] = w[f]
  BY DEF Merged, Column, PositionRow, L!Shape, L!Columns, L!PositionColumns

\* A transaction leaves rows of their types.
LEMMA MergedAccount ==
  ASSUME NEW row \in L!Account, NEW read \in L!Account, NEW w \in L!Account
  PROVE  Merged(row, read, w) \in L!Account
  <1>. DEFINE cols == [f \in DOMAIN row |-> Column(row[f], read[f], w[f])]
              p == PositionRow(row.position, read.position, w.position)
  <1>1. DOMAIN row = L!Columns
    BY DEF L!Account, L!Columns
  <1>2. cols \in L!Account
    BY <1>1 DEF L!Account, Column, L!Columns
  <1>3. p \in L!PositionRow
    BY DEF PositionRow, L!Account
  <1>. HIDE DEF cols, p
  <1>4. [cols EXCEPT !.position = p] \in L!Account
    BY <1>2, <1>3 DEF L!Account
  <1>. QED BY <1>4 DEF Merged, cols, p

\* Settlement at the mark leaves an account with its columns that is not ACTIVE.
LEMMA RetiredShape ==
  ASSUME NEW a, L!Shape(a), NEW w \in Retired(a)
  PROVE  L!Shape(w) /\ w.status # "ACTIVE"
  <1>. DEFINE closed(g) == [a EXCEPT !.position = L!Flat, !.balance = Floored(a.balance + g - Fee),
                              !.debt = @ + Floored(a.balance + g - Fee) - (a.balance + g - Fee),
                              !.realized = @ + L!Net(a.position, g, Fee)]
  <1>1. DOMAIN L!Flat = L!PositionColumns
    BY L!FreshShape, RolloverAssumption
  <1>2. ASSUME NEW g PROVE L!Shape(Settled(a, g))
    <2>1. L!Shape(closed(g)) /\ Settled(a, g) = L!Frozen(closed(g))
      BY <1>1 DEF L!Shape, L!Columns, Settled
    <2>. HIDE DEF closed
    <2>. QED BY <2>1 DEF L!Frozen, L!Shape, L!Columns
  <1>3. PICK x \in {a} \cup {Settled(a, g) : g \in L!PnL} :
          w = IF x.status = "ACTIVE" THEN [x EXCEPT !.status = "RETIRED", !.final = x.balance] ELSE x
    BY DEF Retired
  <1>4. L!Shape(x)
    BY <1>2, <1>3
  <1>. QED BY <1>3, <1>4 DEF L!Shape, L!Columns

\* retire_generation settles an account with sound books completely.
LEMMA RetiredGone ==
  ASSUME NEW a, L!Shape(a), a.order = 0, a.status \in {"ACTIVE", "DEAD"}, L!Laid(a), L!Books(a),
         a.balance \in Int, a.realized \in Int, a.debt \in Int,
         a.position.fee \in Int, a.position.funding \in Int,
         NEW w \in Retired(a)
  PROVE  Gone(w)
  <1>1. DOMAIN L!Flat = L!PositionColumns /\ L!Flat.opened = 0
    BY L!FreshShape, RolloverAssumption DEF L!Flat
  <1>2. ASSUME NEW x, L!Shape(x), x.status \in {"ACTIVE", "DEAD"}, ~L!IsOpen(x), x.order = 0,
               x.balance = Starting + x.realized + x.debt,
               x.status = "DEAD" => x.final = x.balance,
               w = IF x.status = "ACTIVE" THEN [x EXCEPT !.status = "RETIRED", !.final = x.balance] ELSE x
        PROVE  Gone(w)
    BY <1>2 DEF Gone, L!Shape, L!Columns, L!IsOpen
  <1>3. CASE ~L!IsOpen(a)
    <2>1. w = IF a.status = "ACTIVE" THEN [a EXCEPT !.status = "RETIRED", !.final = a.balance] ELSE a
      BY <1>3 DEF Retired
    <2>2. a.balance = Starting + a.realized + a.debt
      BY <1>3, RolloverAssumption DEF L!Books
    <2>. QED BY <1>2, <1>3, <2>1, <2>2 DEF L!Laid
  <1>4. CASE L!IsOpen(a)
    <2>1. PICK g \in L!PnL :
            w = IF Settled(a, g).status = "ACTIVE"
                THEN [Settled(a, g) EXCEPT !.status = "RETIRED", !.final = Settled(a, g).balance]
                ELSE Settled(a, g)
      BY <1>4 DEF Retired
    <2>. DEFINE raw == a.balance + g - Fee
                b == Floored(raw)
                d == a.debt + Floored(raw) - raw
                r == a.realized + L!Net(a.position, g, Fee)
                closed == [a EXCEPT !.position = L!Flat, !.balance = b, !.debt = d, !.realized = r]
    <2>2. Settled(a, g) = L!Frozen(closed)
      BY DEF Settled
    <2>3. g \in Int /\ Fee \in Int /\ Starting \in Int
      BY RolloverAssumption DEF L!PnL
    <2>4. b = Starting + r + d
      BY <2>3 DEF L!Books, L!Net, Floored, L!MaxOf
    <2>. HIDE DEF b, d, r
    <2>5. /\ L!Shape(closed) /\ closed.status = a.status /\ closed.order = 0
          /\ closed.balance = Starting + closed.realized + closed.debt /\ ~L!IsOpen(closed)
      BY <1>1, <2>4 DEF L!Shape, L!Columns, L!IsOpen
    <2>. HIDE DEF closed
    <2>6. /\ L!Shape(Settled(a, g)) /\ Settled(a, g).status \in {"ACTIVE", "DEAD"}
          /\ ~L!IsOpen(Settled(a, g)) /\ Settled(a, g).order = 0
          /\ Settled(a, g).balance = Starting + Settled(a, g).realized + Settled(a, g).debt
          /\ (Settled(a, g).status = "DEAD" => Settled(a, g).final = Settled(a, g).balance)
      BY <2>2, <2>5 DEF L!Frozen, L!Shape, L!Columns, L!IsOpen
    <2>. QED BY <1>2, <2>1, <2>6
  <1>. QED BY <1>3, <1>4

-----------------------------------------------------------------------------
(* The inductive invariant. *)

\* The rows and the copies of them have their columns, whatever was merged into them.
Outlined ==
  /\ L!Shape(agent)
  /\ L!Shape(worker.read) /\ L!Shape(worker.written)
  /\ L!Shape(research.read) /\ L!Shape(research.written)

\* A pass writes ACTIVE only over what it read as ACTIVE, and a retirement never.
Writes ==
  /\ worker.step = "commit" /\ worker.written.status = "ACTIVE" => worker.read.status = "ACTIVE"
  /\ research.step = "commit" => research.written.status # "ACTIVE"

\* Where the two transactions are; a pass that has read nothing holds nothing.
Steps ==
  /\ bar \in 1..MaxBar /\ swept \in Nat /\ generation \in {1, 2} /\ raced \in BOOLEAN
  /\ DOMAIN worker = {"step", "pass", "generation", "read", "written"}
  /\ DOMAIN research = {"step", "read", "written"}
  /\ worker.step \in {"idle", "agents", "book", "positions", "owner", "commit"}
  /\ research.step \in {"idle", "agents", "positions", "orders", "commit"}
  /\ research.step # "idle" => generation = 1
  /\ worker.step \in {"idle", "agents", "positions"} =>
       worker.read = L!Fresh /\ worker.written = L!Fresh

\* Nothing read and nothing written.
Empty(pass) == pass.read = L!Fresh /\ pass.written = L!Fresh

\* While the generation is traded only the worker commits, and what it has read is what is
\* committed.
Unretired ==
  generation = 1 =>
    /\ Trading(agent)
    /\ worker.step = "book" => worker.read = Account(L!Fresh, agent)
    /\ worker.step = "owner" => worker.read = Account(agent, L!Fresh)
    /\ worker.step = "commit" => Empty(worker) \/ (worker.read = agent /\ Trading(worker.written))

\* What the retirement has read is still so, until a pass commits.
Overlap ==
  generation = 1 /\ ~raced =>
    /\ research.step \in {"positions", "orders", "commit"} =>
         \A f \in Money : research.read[f] = agent[f]
    /\ research.step \in {"orders", "commit"} => research.read.position = agent.position
    /\ research.step = "commit" => research.read.order = agent.order /\ Gone(research.written)

\* After a retirement that no pass overlapped, no pass finds anything to write.
After ==
  generation = 2 /\ ~raced =>
    /\ Gone(agent)
    /\ worker.step \in {"idle", "agents", "positions", "commit"} /\ Empty(worker)
    /\ worker.step = "agents" => worker.generation = 2

IInv == Outlined /\ Writes /\ Steps /\ Unretired /\ Overlap /\ After

\* The invariant holds at the start.
LEMMA Starts == Init => IInv
  <1>. SUFFICES ASSUME Init PROVE IInv
    OBVIOUS
  <1>1. /\ bar = 1 /\ agent = L!Fresh /\ swept = 0 /\ generation = 1 /\ raced = FALSE
        /\ worker = Idle /\ research = NotRetiring
    BY DEF Init
  <1>2. Outlined /\ Writes
    BY <1>1, FreshTrading DEF Outlined, Writes, Idle, NotRetiring
  <1>3. raced \in BOOLEAN
    BY <1>1, Zenon
  <1>4. Steps
    BY <1>1, <1>3, RolloverAssumption DEF Steps, Idle, NotRetiring
  <1>5. Unretired /\ Overlap /\ After
    BY <1>1, FreshTrading DEF Unretired, Overlap, After, Idle, NotRetiring
  <1>. QED BY <1>2, <1>4, <1>5 DEF IInv

\* What a pass that has not committed changes.
Pending == UNCHANGED <<bar, agent, swept, generation, after, research, raced>>

\* A pass begins.
LEMMA BeginStep ==
  ASSUME IInv, WorkerBegins \/ WorkerProtects
  PROVE  IInv'
  <1>. USE DEF IInv
  <1>1. /\ Pending
        /\ worker'.step \in {"agents", "positions"}
        /\ worker'.read = L!Fresh /\ worker'.written = L!Fresh
        /\ DOMAIN worker' = {"step", "pass", "generation", "read", "written"}
        /\ worker'.step = "agents" => worker'.generation = generation
    BY DEF WorkerBegins, WorkerProtects, Pending, Idle
  <1>2. Outlined'
    BY <1>1, FreshTrading DEF Outlined, Pending
  <1>3. Writes' /\ Steps'
    BY <1>1 DEF Writes, Steps, Pending
  <1>4. Unretired'
    BY <1>1 DEF Unretired, Pending, Trading, L!Sound, L!Once
  <1>5. Overlap'
    BY <1>1 DEF Overlap, Pending
  <1>6. After'
    BY <1>1 DEF After, Empty, Pending
  <1>. QED BY <1>2, <1>3, <1>4, <1>5, <1>6

\* It reads the agents of the latest generation.
LEMMA AgentsStep ==
  ASSUME IInv, ReadsAgents
  PROVE  IInv'
  <1>. USE DEF IInv
  <1>1. /\ Pending
        /\ DOMAIN worker' = DOMAIN worker /\ worker'.written = worker.written
        /\ \/ /\ worker.generation = 1 /\ worker'.step = "book"
              /\ worker'.read = Account(L!Fresh, agent)
           \/ worker'.step = "positions" /\ worker'.read = worker.read
    BY DEF ReadsAgents, Pending, Steps
  <1>2. worker.step = "agents" /\ worker.read = L!Fresh /\ worker.written = L!Fresh
    BY DEF ReadsAgents, Steps
  <1>3. Outlined'
    BY <1>1, FreshTrading, ReadShape DEF Outlined, Pending
  <1>4. Writes' /\ Steps'
    BY <1>1, <1>2 DEF Writes, Steps, Pending
  <1>5. Unretired'
    <2>1. generation = 1 => Trading(agent)'
      BY <1>1 DEF Unretired, Pending, Trading, L!Sound, L!Once
    <2>. QED BY <1>1, <1>2, <2>1 DEF Unretired, Pending
  <1>6. Overlap'
    BY <1>1 DEF Overlap, Pending
  <1>7. After'
    BY <1>1, <1>2 DEF After, Empty, Pending
  <1>. QED BY <1>3, <1>4, <1>5, <1>6, <1>7

\* It reads their positions and orders and runs the agent on what it read.
LEMMA BookStep ==
  ASSUME IInv, ReadsBook
  PROVE  IInv'
  <1>. USE DEF IInv
  <1>. DEFINE read == Account(agent, worker.read)
  <1>1. PICK halted \in BOOLEAN :
          \E written \in UNION {L!Sweep(x) : x \in L!Looped(read, halted)} :
            worker' = [worker EXCEPT !.step = "commit", !.read = read, !.written = written]
    BY DEF ReadsBook
  <1>2. PICK x \in L!Looped(read, halted) :
          \E written \in L!Sweep(x) :
            worker' = [worker EXCEPT !.step = "commit", !.read = read, !.written = written]
    BY <1>1
  <1>3. PICK written \in L!Sweep(x) :
          worker' = [worker EXCEPT !.step = "commit", !.read = read, !.written = written]
    BY <1>2
  <1>4. L!Shape(read)
    BY ReadShape DEF Outlined
  <1>5. bar \in 1..MaxBar /\ swept \in Nat
    BY DEF Steps
  <1>6. L!Follows(read, x) /\ L!Shape(x)
    BY <1>4, <1>5, Passes DEF L!Follows
  <1>7. L!Follows(x, written) /\ L!Shape(written)
    BY <1>5, <1>6, Passes DEF L!Follows
  <1>8. L!Sound(read) => L!Sound(written)
    BY <1>4, <1>5, <1>6, Passes
  <1>9. generation = 1 => read = agent
    BY FreshTrading, ReadWhole DEF Unretired, Trading, L!Sound, ReadsBook
  <1>10. generation = 1 => Trading(written)
    BY <1>6, <1>7, <1>8, <1>9 DEF Unretired, Trading, L!Follows
  <1>. HIDE DEF read
  <1>11. /\ Pending /\ DOMAIN worker' = DOMAIN worker /\ worker.step = "book"
         /\ worker'.step = "commit" /\ worker'.read = read /\ worker'.written = written
    BY <1>3 DEF ReadsBook, Pending, Steps
  <1>12. Outlined'
    BY <1>4, <1>7, <1>11 DEF Outlined, Pending
  <1>13. Writes' /\ Steps'
    BY <1>6, <1>7, <1>11 DEF Writes, Steps, Pending, L!Follows
  <1>14. Unretired'
    <2>1. generation = 1 => Trading(agent)' /\ Trading(worker.written)'
      BY <1>10, <1>11 DEF Unretired, Pending, Trading, L!Sound, L!Once
    <2>. QED BY <1>9, <1>11, <2>1 DEF Unretired, Pending
  <1>15. Overlap'
    BY <1>11 DEF Overlap, Pending
  <1>16. After'
    BY <1>11 DEF After, Pending
  <1>. QED BY <1>12, <1>13, <1>14, <1>15, <1>16

\* The sweep reads the open positions.
LEMMA PositionsStep ==
  ASSUME IInv, ReadsPositions
  PROVE  IInv'
  <1>. USE DEF IInv
  <1>1. /\ Pending
        /\ DOMAIN worker' = DOMAIN worker /\ worker'.written = worker.written
        /\ \/ /\ L!IsOpen(agent) /\ worker'.step = "owner"
              /\ worker'.read = Account(agent, L!Fresh)
           \/ worker'.step = "commit" /\ worker'.read = worker.read
    BY DEF ReadsPositions, Sweeps, Pending, Steps
  <1>2. worker.step = "positions" /\ worker.read = L!Fresh /\ worker.written = L!Fresh
    BY DEF ReadsPositions, Steps
  <1>3. Outlined'
    BY <1>1, FreshTrading, ReadShape DEF Outlined, Pending
  <1>4. Writes' /\ Steps'
    BY <1>1, <1>2 DEF Writes, Steps, Pending
  <1>5. Unretired'
    <2>1. generation = 1 => Trading(agent)'
      BY <1>1 DEF Unretired, Pending, Trading, L!Sound, L!Once
    <2>. QED BY <1>1, <1>2, <2>1 DEF Unretired, Pending, Empty
  <1>6. Overlap'
    BY <1>1 DEF Overlap, Pending
  <1>7. After'
    BY <1>1, <1>2 DEF After, Empty, Pending, Gone
  <1>. QED BY <1>3, <1>4, <1>5, <1>6, <1>7

\* And their owners, and protects on what it read.
LEMMA OwnerStep ==
  ASSUME IInv, ReadsOwner
  PROVE  IInv'
  <1>. USE DEF IInv
  <1>. DEFINE read == Account(worker.read, agent)
  <1>1. PICK written \in L!Sweep(read) :
          worker' = [worker EXCEPT !.step = "commit", !.read = read, !.written = written]
    BY DEF ReadsOwner
  <1>2. L!Shape(read)
    BY ReadShape DEF Outlined
  <1>3. bar \in 1..MaxBar /\ swept \in Nat
    BY DEF Steps
  <1>4. L!Follows(read, written) /\ L!Shape(written) /\ (L!Sound(read) => L!Sound(written))
    BY <1>2, <1>3, Passes DEF L!Follows
  <1>5. generation = 1 => read = agent
    BY FreshTrading, ReadWhole DEF Unretired, Trading, L!Sound, ReadsOwner
  <1>6. generation = 1 => Trading(written)
    BY <1>4, <1>5 DEF Unretired, Trading, L!Follows
  <1>. HIDE DEF read
  <1>7. /\ Pending /\ DOMAIN worker' = DOMAIN worker /\ worker.step = "owner"
        /\ worker'.step = "commit" /\ worker'.read = read /\ worker'.written = written
    BY <1>1 DEF ReadsOwner, Pending, Steps
  <1>8. Outlined'
    BY <1>2, <1>4, <1>7 DEF Outlined, Pending
  <1>9. Writes' /\ Steps'
    BY <1>4, <1>7 DEF Writes, Steps, Pending, L!Follows
  <1>10. Unretired'
    <2>1. generation = 1 => Trading(agent)' /\ Trading(worker.written)'
      BY <1>6, <1>7 DEF Unretired, Pending, Trading, L!Sound, L!Once
    <2>. QED BY <1>5, <1>7, <2>1 DEF Unretired, Pending
  <1>11. Overlap'
    BY <1>7 DEF Overlap, Pending
  <1>12. After'
    BY <1>7 DEF After, Pending
  <1>. QED BY <1>8, <1>9, <1>10, <1>11, <1>12

\* It commits.
LEMMA CommitStep ==
  ASSUME IInv, WorkerCommits
  PROVE  IInv'
  <1>. USE DEF IInv
  <1>. DEFINE row == Merged(agent, worker.read, worker.written)
              last == IF worker.pass = "decide" THEN L!Cancelled(row) ELSE row
  <1>0. /\ agent' = L!Committed(last) /\ worker.step = "commit" /\ worker' = Idle
        /\ UNCHANGED <<bar, generation, research, faults>>
        /\ swept' \in {bar, swept}
        /\ raced' = (raced \/ research.step \in {"positions", "orders", "commit"})
    BY DEF WorkerCommits
  <1>1. L!Shape(row) /\ L!Shape(agent) /\ L!Shape(worker.read) /\ L!Shape(worker.written)
    BY MergedOwn DEF Outlined
  <1>2. Empty(worker) => \A f \in L!Columns : row[f] = agent[f]
    BY <1>1, FreshTrading, MergedNothing DEF Empty
  <1>3. worker.read = agent => \A f \in L!Columns : row[f] = worker.written[f]
    BY <1>1, MergedOwn
  <1>4. generation = 1 => Trading(row)
    <2>. SUFFICES ASSUME generation = 1 PROVE Trading(row)
      OBVIOUS
    <2>1. Trading(agent) /\ (Empty(worker) \/ (worker.read = agent /\ Trading(worker.written)))
      BY <1>0 DEF Unretired
    <2>2. PICK x \in {agent, worker.written} : Trading(x) /\ \A f \in L!Columns : row[f] = x[f]
      BY <1>2, <1>3, <2>1
    <2>3. row \in L!Account
      BY <2>1, FreshTrading, MergedAccount DEF Trading, L!Sound, Empty
    <2>4. /\ row.status = x.status /\ row.valid = x.valid /\ row.balance = x.balance
          /\ row.realized = x.realized /\ row.debt = x.debt /\ row.final = x.final
          /\ row.position = x.position /\ row.order = x.order /\ row.decided = x.decided
          /\ row.evals = x.evals
      BY <2>2 DEF L!Columns
    <2>5. Trading(x)
      BY <2>2
    <2>. HIDE DEF row
    <2>. QED BY <2>3, <2>4, <2>5 DEF Trading, L!Sound, L!Books, L!Once, L!IsOpen, L!Laid
  <1>. HIDE DEF row
  <1>5. L!Follows(row, last) /\ L!Shape(last) /\ (L!Sound(row) => L!Sound(last))
    BY <1>1, Ends, L!FollowsSame, RolloverAssumption DEF L!Follows
  <1>. HIDE DEF last
  <1>6. L!Follows(last, agent') /\ L!Shape(agent') /\ (L!Sound(last) => L!Sound(agent'))
    BY <1>0, <1>5, Ends DEF L!Follows
  <1>7. generation = 1 => Trading(agent')
    BY <1>4, <1>5, <1>6 DEF Trading, L!Follows
  <1>8. Outlined'
    BY <1>0, <1>6, FreshTrading DEF Outlined, Idle
  <1>9. Writes' /\ Steps'
    BY <1>0 DEF Writes, Steps, Idle
  <1>10. Unretired'
    BY <1>0, <1>7 DEF Unretired, Idle, Trading, L!Sound, L!Once
  <1>11. Overlap'
    BY <1>0 DEF Overlap
  <1>12. After'
    <2>. SUFFICES ASSUME generation = 2, ~raced' PROVE Gone(agent)'
      BY <1>0 DEF After, Idle, Empty
    <2>1. ~raced /\ Gone(agent) /\ Empty(worker)
      BY <1>0 DEF After, Steps
    <2>2. Gone(row)
      BY <1>1, <1>2, <2>1 DEF Gone, L!Columns, L!IsOpen
    <2>3. Gone(last)
      BY <1>1, <2>2 DEF last, Gone, L!Cancelled, L!Shape, L!Columns, L!IsOpen
    <2>. QED BY <1>0, <1>5, <2>3 DEF Gone, L!Committed, L!Shape, L!Columns, L!IsOpen
  <1>. QED BY <1>8, <1>9, <1>10, <1>11, <1>12

\* The process dies.
LEMMA DieStep ==
  ASSUME IInv, WorkerDies
  PROVE  IInv'
  <1>. USE DEF IInv
  <1>0. /\ agent' = [agent EXCEPT !.seen = {}, !.open = {}] /\ worker' = Idle
        /\ UNCHANGED <<bar, swept, generation, after, research, raced>>
    BY DEF WorkerDies
  <1>1. L!Shape(agent)
    BY DEF Outlined
  <1>2. L!Follows(agent, agent')
    BY <1>0, <1>1, L!EndOfPass, RolloverAssumption
  <1>3. L!Sound(agent) => L!Sound(agent')
    BY <1>0, L!CommittedSound, RolloverAssumption
  <1>4. Outlined' /\ Writes' /\ Steps'
    BY <1>0, <1>2, FreshTrading DEF Outlined, Writes, Steps, Idle, L!Follows
  <1>5. Unretired'
    BY <1>0, <1>2, <1>3 DEF Unretired, Idle, Trading, L!Sound, L!Once, L!Follows
  <1>6. \A f \in Money \cup {"position", "order"} : agent'[f] = agent[f]
    BY <1>0, <1>1 DEF Money, L!Shape, L!Columns
  <1>7. Overlap'
    BY <1>0, <1>6 DEF Overlap
  <1>8. After'
    BY <1>0, <1>6 DEF After, Gone, Money, Empty, Idle, L!IsOpen
  <1>. QED BY <1>4, <1>5, <1>7, <1>8

\* The next bar.
LEMMA BarStep ==
  ASSUME IInv, NextBar
  PROVE  IInv'
  <1>. USE DEF IInv
  <1>0. /\ agent' = L!OnNewBar(agent) /\ worker.step = "idle" /\ bar < MaxBar /\ bar' = bar + 1
        /\ UNCHANGED <<swept, generation, after, worker, research, raced>>
    BY DEF NextBar
  <1>1. L!Shape(agent) /\ bar \in 1..MaxBar
    BY DEF Outlined, Steps
  <1>2. L!Follows(agent, agent')
    BY <1>0, <1>1, L!EndOfPass, RolloverAssumption
  <1>3. /\ \A f \in Money \cup {"position", "order"} : agent'[f] = agent[f]
        /\ agent'.evals = 0
    BY <1>0, <1>1 DEF L!OnNewBar, Money, L!Shape, L!Columns
  <1>4. L!Sound(agent) => L!Sound(agent)'
    <2>1. agent \in L!Account => agent' \in L!Account
      BY <1>0 DEF L!OnNewBar, L!Account
    <2>. QED BY <1>3, <2>1 DEF Money, L!Sound, L!Books, L!Once, L!IsOpen
  <1>5. Outlined' /\ Writes'
    BY <1>0, <1>2 DEF Outlined, Writes, L!Follows
  <1>6. Steps'
    BY <1>0, <1>1, RolloverAssumption DEF Steps
  <1>7. Unretired'
    BY <1>0, <1>2, <1>4 DEF Unretired, Trading, L!Follows
  <1>8. Overlap'
    BY <1>0, <1>3 DEF Overlap
  <1>9. After'
    BY <1>0, <1>3 DEF After, Gone, Money, Empty, L!IsOpen
  <1>. QED BY <1>5, <1>6, <1>7, <1>8, <1>9

\* What the retirement changes before its commit.
Retiring == UNCHANGED <<bar, agent, swept, generation, after, worker>>

\* The cycle loads the agent, fails, or reads its row again.
LEMMA LoadStep ==
  ASSUME IInv, ResearchLoads \/ ResearchFails
  PROVE  IInv'
  <1>. USE DEF IInv
  <1>1. /\ Retiring /\ raced' = raced
        /\ DOMAIN research' = {"step", "read", "written"}
        /\ \/ research'.step = "agents" /\ generation = 1
           \/ research'.step = "idle"
        /\ L!Shape(research'.read) /\ L!Shape(research'.written)
    <2>1. CASE ResearchLoads
      BY <2>1, FreshTrading, ReadShape DEF ResearchLoads, Retiring, NotRetiring, Outlined
    <2>2. CASE ResearchFails
      BY <2>2, FreshTrading DEF ResearchFails, Retiring, NotRetiring
    <2>. QED BY <2>1, <2>2
  <1>2. Outlined' /\ Writes' /\ Steps'
    BY <1>1 DEF Outlined, Writes, Steps, Retiring
  <1>3. Unretired'
    BY <1>1 DEF Unretired, Retiring, Trading, Empty, L!Sound, L!Once
  <1>4. Overlap' /\ After'
    BY <1>1 DEF Overlap, After, Retiring
  <1>. QED BY <1>2, <1>3, <1>4

\* It reads the agent's row again: from here on an overlap counts.
LEMMA RowStep ==
  ASSUME IInv, ResearchReadsAgents
  PROVE  IInv'
  <1>. USE DEF IInv
  <1>. DEFINE read == Account(L!Fresh, agent)
  <1>1. L!Shape(read) /\ \A f \in Money : read[f] = agent[f]
    BY FreshTrading, ReadShape DEF Outlined, Money, L!Columns
  <1>. HIDE DEF read
  <1>2. /\ Retiring /\ raced' = FALSE /\ research.step = "agents" /\ research'.step = "positions"
        /\ DOMAIN research' = DOMAIN research
        /\ research'.read = read /\ research'.written = research.written
    BY DEF ResearchReadsAgents, AgentsRead, Retiring, Steps, read
  <1>3. Outlined' /\ Writes'
    BY <1>1, <1>2 DEF Outlined, Writes, Retiring
  <1>4. raced' \in BOOLEAN
    BY <1>2, Zenon
  <1>5. Steps'
    BY <1>2, <1>4 DEF Steps, Retiring
  <1>6. Unretired'
    BY <1>2 DEF Unretired, Retiring, Trading, Empty, L!Sound, L!Once
  <1>7. Overlap'
    BY <1>1, <1>2 DEF Overlap, Retiring
  <1>8. After'
    BY <1>2 DEF After, Retiring, Steps
  <1>. QED BY <1>3, <1>5, <1>6, <1>7, <1>8

\* It reads the open position.
LEMMA PositionStep ==
  ASSUME IInv, ResearchReadsPositions
  PROVE  IInv'
  <1>. USE DEF IInv
  <1>. DEFINE read == [research.read EXCEPT !.position = agent.position]
  <1>1. /\ L!Shape(read) /\ read.position = agent.position
        /\ \A f \in Money : read[f] = research.read[f]
    BY DEF Outlined, Money, L!Shape, L!Columns
  <1>2. /\ Retiring /\ raced' = raced /\ research.step = "positions" /\ research'.step = "orders"
        /\ DOMAIN research' = DOMAIN research
        /\ research'.read = read /\ research'.written = research.written
    BY DEF ResearchReadsPositions, Retiring, Steps
  <1>. HIDE DEF read
  <1>3. Outlined' /\ Writes' /\ Steps'
    BY <1>1, <1>2 DEF Outlined, Writes, Steps, Retiring
  <1>4. Unretired'
    BY <1>2 DEF Unretired, Retiring, Trading, Empty, L!Sound, L!Once
  <1>5. Overlap'
    BY <1>1, <1>2 DEF Overlap, Retiring
  <1>6. After'
    BY <1>2 DEF After, Retiring
  <1>. QED BY <1>3, <1>4, <1>5, <1>6

\* It cancels the orders, closes at the mark and retires the agent it read.
LEMMA OrdersStep ==
  ASSUME IInv, ResearchCancelsOrders
  PROVE  IInv'
  <1>. USE DEF IInv
  <1>. DEFINE read == [research.read EXCEPT !.order = agent.order]
              base == [read EXCEPT !.order = 0]
  <1>1. PICK written \in Retired(base) :
          research' = [step |-> "commit", read |-> read, written |-> written]
    BY DEF ResearchCancelsOrders
  <1>2. /\ L!Shape(read) /\ read.order = agent.order
        /\ \A f \in Money \cup {"position"} : read[f] = research.read[f]
    BY DEF Outlined, Money, L!Shape, L!Columns
  <1>3. /\ L!Shape(base) /\ base.order = 0
        /\ \A f \in Money \cup {"position"} : base[f] = research.read[f]
    BY DEF Outlined, Money, L!Shape, L!Columns
  <1>. HIDE DEF read, base
  <1>4. L!Shape(written) /\ written.status # "ACTIVE"
    BY <1>3, RetiredShape
  <1>5. /\ Retiring /\ raced' = raced /\ research.step = "orders" /\ research'.step = "commit"
        /\ DOMAIN research' = DOMAIN research
        /\ research'.read = read /\ research'.written = written
    BY <1>1 DEF ResearchCancelsOrders, Retiring, Steps
  <1>6. generation = 1 /\ ~raced => Gone(written)
    <2>. SUFFICES ASSUME generation = 1, ~raced PROVE Gone(written)
      OBVIOUS
    <2>1. /\ \A f \in Money \cup {"position"} : base[f] = agent[f]
          /\ Trading(agent)
      BY <1>3, <1>5 DEF Overlap, Unretired
    <2>2. /\ base.status = agent.status /\ base.balance = agent.balance
          /\ base.realized = agent.realized /\ base.debt = agent.debt
          /\ base.final = agent.final /\ base.position = agent.position
      BY <2>1 DEF Money
    <2>3. /\ agent.balance \in Int /\ agent.realized \in Int /\ agent.debt \in Int
          /\ agent.position.fee \in Int /\ agent.position.funding \in Int
      BY <2>1 DEF Trading, L!Sound, L!Account, L!PositionRow
    <2>4. L!Laid(base) /\ L!Books(base) /\ base.status \in {"ACTIVE", "DEAD"}
      BY <2>1, <2>2 DEF Trading, L!Sound, L!Laid, L!Books, L!IsOpen
    <2>. QED BY <1>3, <2>2, <2>3, <2>4, RetiredGone
  <1>7. Outlined' /\ Writes' /\ Steps'
    BY <1>2, <1>4, <1>5 DEF Outlined, Writes, Steps, Retiring
  <1>8. Unretired'
    BY <1>5 DEF Unretired, Retiring, Trading, Empty, L!Sound, L!Once
  <1>9. Overlap'
    BY <1>2, <1>5, <1>6 DEF Overlap, Retiring, Gone, L!IsOpen
  <1>10. After'
    BY <1>5 DEF After, Retiring
  <1>. QED BY <1>7, <1>8, <1>9, <1>10

\* It commits, with the next generation.
LEMMA RetireStep ==
  ASSUME IInv, ResearchCommits
  PROVE  IInv'
  <1>. USE DEF IInv
  <1>1. /\ agent' = Merged(agent, research.read, research.written)
        /\ generation' = 2 /\ research' = NotRetiring /\ research.step = "commit"
        /\ raced' = (raced \/ worker.step # "idle")
        /\ UNCHANGED <<bar, swept, worker, after, faults>>
    BY DEF ResearchCommits
  <1>2. /\ L!Shape(agent')
        /\ \A f \in L!Columns : agent[f] = research.read[f] => agent'[f] = research.written[f]
    BY <1>1, MergedOwn DEF Outlined
  <1>3. Outlined' /\ Writes'
    BY <1>1, <1>2, FreshTrading DEF Outlined, Writes, NotRetiring
  <1>4. Steps' /\ Unretired' /\ Overlap'
    BY <1>1 DEF Steps, Unretired, Overlap, NotRetiring
  <1>5. After'
    <2>. SUFFICES ASSUME ~raced, worker.step = "idle" PROVE Gone(agent)' /\ Empty(worker)
      BY <1>1 DEF After, Empty
    <2>1. generation = 1 /\ Empty(worker)
      BY <1>1 DEF Steps, Empty
    <2>2. /\ \A f \in Money \cup {"position", "order"} : research.read[f] = agent[f]
          /\ Gone(research.written)
      BY <1>1, <2>1 DEF Overlap
    <2>3. \A f \in Money \cup {"position", "order"} : agent'[f] = research.written[f]
      BY <1>2, <2>2 DEF Money, L!Columns
    <2>. QED BY <2>1, <2>2, <2>3 DEF Gone, Money, L!IsOpen
  <1>. QED BY <1>3, <1>4, <1>5

\* The inductive invariant holds of every reachable state.
LEMMA Inductive == Spec => []IInv
  <1>1. IInv /\ [Next]_vars => IInv'
    <2>. SUFFICES ASSUME IInv, [Next]_vars PROVE IInv'
      OBVIOUS
    <2>1. CASE Trade
      BY <2>1, BeginStep, AgentsStep, BookStep, PositionsStep, OwnerStep, CommitStep DEF Trade
    <2>2. CASE WorkerProtects \/ WorkerDies \/ NextBar
      BY <2>2, BeginStep, DieStep, BarStep
    <2>3. CASE ResearchLoads \/ ResearchFails \/ ResearchReadsAgents \/ ResearchReadsPositions
      BY <2>3, LoadStep, RowStep, PositionStep
    <2>4. CASE ResearchCancelsOrders \/ ResearchCommits
      BY <2>4, OrdersStep, RetireStep
    <2>5. CASE UNCHANGED vars
      BY <2>5 DEF vars, IInv, Outlined, Writes, Steps, Unretired, Overlap, After, Trading, Empty, Gone,
                  L!Sound, L!Once, L!IsOpen
    <2>. QED BY <2>1, <2>2, <2>3, <2>4, <2>5 DEF Next
  <1>. QED BY <1>1, Starts, PTL DEF Spec

\* A rollover that no pass of the worker overlapped leaves nothing of the agent behind: it is
\* settled, closed and frozen, whatever was traded before and whatever passes follow.
THEOREM NothingLeft == Spec => []CleanRollover
  <1>1. IInv => CleanRollover
    BY DEF IInv, After, Gone, CleanRollover
  <1>. QED BY <1>1, Inductive, PTL

\* No step revives an agent.
LEMMA NoRevival ==
  ASSUME IInv, [Next]_vars, agent.status # "ACTIVE"
  PROVE  agent'.status # "ACTIVE"
  <1>. USE DEF IInv
  <1>1. ASSUME NEW read, NEW w, L!Shape(read), L!Shape(w),
               w.status = "ACTIVE" => read.status = "ACTIVE"
        PROVE  L!Shape(Merged(agent, read, w)) /\ Merged(agent, read, w).status # "ACTIVE"
    <2>1. L!Shape(agent) /\ L!Shape(Merged(agent, read, w))
      BY <1>1, MergedOwn DEF Outlined
    <2>2. Merged(agent, read, w).status = Column(agent.status, read.status, w.status)
      BY <2>1 DEF Merged, L!Shape, L!Columns
    <2>. QED BY <1>1, <2>1, <2>2 DEF Column
  <1>2. CASE WorkerCommits
    <2>. DEFINE row == Merged(agent, worker.read, worker.written)
                last == IF worker.pass = "decide" THEN L!Cancelled(row) ELSE row
    <2>1. L!Shape(row) /\ row.status # "ACTIVE"
      BY <1>1, <1>2 DEF WorkerCommits, Outlined, Writes
    <2>. HIDE DEF row
    <2>2. L!Follows(row, last) /\ L!Shape(last)
      BY <2>1, Ends, L!FollowsSame, RolloverAssumption DEF L!Follows
    <2>. HIDE DEF last
    <2>3. L!Follows(last, L!Committed(last)) /\ agent' = L!Committed(last)
      BY <1>2, <2>2, Ends DEF WorkerCommits, last, row
    <2>. QED BY <2>1, <2>2, <2>3 DEF L!Follows
  <1>3. CASE ResearchCommits
    BY <1>1, <1>3 DEF ResearchCommits, Outlined, Writes
  <1>4. CASE WorkerDies \/ NextBar
    <2>1. \/ agent' = [agent EXCEPT !.seen = {}, !.open = {}]
          \/ agent' = L!OnNewBar(agent)
      BY <1>4 DEF WorkerDies, NextBar
    <2>2. L!Shape(agent)
      BY DEF Outlined
    <2>3. /\ L!Follows(agent, [agent EXCEPT !.seen = {}, !.open = {}])
          /\ L!Follows(agent, L!OnNewBar(agent))
      BY <2>2, L!EndOfPass, RolloverAssumption
    <2>. QED BY <2>1, <2>3 DEF L!Follows
  <1>5. CASE agent' = agent
    BY <1>5
  <1>. QED BY <1>2, <1>3, <1>4, <1>5
       DEF Next, Trade, WorkerBegins, WorkerProtects, ReadsAgents, ReadsBook, ReadsPositions,
           ReadsOwner, ResearchLoads, ResearchFails, ResearchReadsAgents, ResearchReadsPositions,
           ResearchCancelsOrders, vars

\* No overlap of a pass and a retirement, no crash and no retry makes an agent ACTIVE again.
THEOREM StaysDead == Spec => NeverRevived
  <1>1. IInv /\ [Next]_vars => [agent.status # "ACTIVE" => agent'.status # "ACTIVE"]_agent
    BY NoRevival
  <1>. QED BY <1>1, Inductive, PTL DEF Spec, NeverRevived

-----------------------------------------------------------------------------
(* What a racing pass leaves behind, and what becomes of it. *)

\* Every copy of the account is one the passes may leave.
AllTidy ==
  /\ L!Tidy(agent)
  /\ L!Tidy(worker.read) /\ L!Tidy(worker.written)
  /\ L!Tidy(research.read) /\ L!Tidy(research.written)

\* An order is of the last bar decided on or an earlier one, and only a decision places one.
Ordered ==
  /\ swept <= bar /\ agent.order \in 0..swept
  /\ worker.step = "commit" =>
       /\ worker.written.order \in {worker.read.order, 0, bar}
       /\ worker.pass # "decide" => worker.written.order = worker.read.order
  /\ research.step = "commit" => research.written.order = 0
  /\ worker.step \in {"agents", "book"} => worker.pass = "decide"

\* Who was read as not ACTIVE is not ACTIVE, and a generation once retired is not either.
Fallen ==
  /\ generation = 2 => agent.status # "ACTIVE"
  /\ research.step \in {"positions", "orders", "commit"} /\ research.read.status # "ACTIVE" =>
       agent.status # "ACTIVE"

\* The pass began after the retirement: it runs no agent of the old generation.
Late == worker.generation = 2 \/ after.bars >= 1

\* What is left of a position that such a pass takes: nothing, one more refusal, or funding
\* that cannot be paid.
Tried(a, x) ==
  \/ x.opened = 0
  \/ x.attempts > a.position.attempts /\ x.managed = bar
  \/ x = a.position /\ L!Unpayable(a)

\* No pass but the worker's one at a time writes then, and it writes over what it read.
Alone ==
  /\ worker.generation \in {1, 2} /\ after.bars \in Nat /\ after.stuck \in Nat
  /\ Late =>
       /\ generation = 2 /\ worker.step # "book"
       /\ worker.step = "agents" => worker.generation = 2
       /\ worker.step = "owner" => worker.read.position = agent.position /\ Sweeps(agent)
       /\ worker.step = "commit" =>
            /\ worker.written.order = worker.read.order
            /\ \/ Empty(worker) /\ ~Sweeps(agent)
               \/ /\ worker.read.position = agent.position /\ L!IsOpen(agent)
                  /\ Tried(agent, worker.written.position)

\* The bars counted: the entry is expired by the second, the exit was tried on each of them
\* but the first, if an earlier pass had protected that bar, and those it was stuck on.
Counted ==
  /\ after.bars >= 1 => agent.order < swept
  /\ after.bars >= 2 => agent.order = 0
  /\ L!IsOpen(agent) =>
       /\ agent.position.attempts + after.stuck + 1 >= after.bars
       /\ after.bars >= 1 /\ agent.position.managed > swept =>
            agent.position.attempts + after.stuck >= after.bars

Leftovers == AllTidy /\ Ordered /\ Fallen /\ Alone /\ Counted

\* What a pass makes of an account can be swept again, and the sweep places no order.
LEMMA Keeps ==
  ASSUME NEW a, L!Shape(a), bar \in 1..MaxBar
  PROVE  /\ \A x \in L!Sweep(a) : L!Tends(a, x) /\ x.order = a.order
         /\ \A halted \in BOOLEAN : \A x \in L!Looped(a, halted) : L!Tends(a, x)
  <1>1. bar \in Nat /\ bar \in Nat \ {0}
    BY RolloverAssumption
  <1>2. \A x \in L!Sweep(a) : L!Tends(a, x) /\ x.order = a.order
    BY <1>1, L!SweepFollows, RolloverAssumption
  <1>3. \A halted \in BOOLEAN : \A x \in L!Looped(a, halted) : L!Tends(a, x)
    BY <1>1, L!LoopedFollows, RolloverAssumption
  <1>. QED BY <1>2, <1>3

\* The sweep tries the exit of a position whose owner is not ACTIVE.
LEMMA SweepsOut ==
  ASSUME NEW a, L!Shape(a), L!Tidy(a), bar \in 1..MaxBar, L!IsOpen(a), a.status # "ACTIVE",
         a.position.managed < bar, NEW x \in L!Sweep(a)
  PROVE  Tried(a, x.position)
  <1>1. bar \in Nat /\ ~L!AlreadyManaged(a.position)
    BY RolloverAssumption DEF L!AlreadyManaged, L!Tidy, L!Left
  <1>2. \/ ~L!IsOpen(x)
        \/ x.position.attempts > a.position.attempts /\ x.position.managed = bar
        \/ x.position = a.position /\ L!Unpayable(a)
    BY <1>1, L!SweepTries, RolloverAssumption
  <1>. QED BY <1>2 DEF Tried, L!IsOpen

\* A new agent's account is tidy, and so is one read in two SELECTs.
LEMMA FreshTidied ==
  ASSUME bar \in Nat
  PROVE  L!Tidy(L!Fresh) /\ L!Fresh.order = 0 /\ L!Left(L!Flat)
  <1>1. L!Tidy(L!Fresh) /\ L!Left(L!Flat)
    BY L!FreshTidy, RolloverAssumption
  <1>. QED BY <1>1 DEF L!Fresh

LEMMA ReadTidy ==
  ASSUME NEW row, NEW a, L!Shape(row), L!Shape(a), L!Left(row.position), a.balance \in Int
  PROVE  L!Tidy(Account(row, a))
  BY ReadShape DEF L!Tidy, L!Columns

\* The rows of a transaction: each is what was there, or what it writes.
LEMMA MergedRows ==
  ASSUME NEW row, NEW read, NEW w, L!Shape(row), L!Shape(read), L!Shape(w)
  PROVE  /\ Merged(row, read, w).position = PositionRow(row.position, read.position, w.position)
         /\ \A f \in L!Columns \ {"position"} : Merged(row, read, w)[f] = Column(row[f], read[f], w[f])
         /\ L!Tidy(row) /\ L!Tidy(w) => L!Tidy(Merged(row, read, w))
  <1>1. /\ Merged(row, read, w).position = PositionRow(row.position, read.position, w.position)
        /\ \A f \in L!Columns \ {"position"} : Merged(row, read, w)[f] = Column(row[f], read[f], w[f])
    BY DEF Merged, L!Shape, L!Columns
  <1>2. Merged(row, read, w).balance = Column(row.balance, read.balance, w.balance)
    BY <1>1 DEF L!Columns
  <1>3. /\ Merged(row, read, w).position \in {row.position, w.position}
        /\ Merged(row, read, w).balance \in {row.balance, w.balance}
    BY <1>1, <1>2 DEF PositionRow, Column
  <1>. QED BY <1>1, <1>3 DEF L!Tidy

\* Settlement at the mark leaves no order, and a tidy account.
LEMMA RetiredTidy ==
  ASSUME NEW a, L!Shape(a), L!Tidy(a), a.order = 0, bar \in Nat, NEW w \in Retired(a)
  PROVE  L!Tidy(w) /\ w.order = 0
  <1>1. DOMAIN L!Flat = L!PositionColumns /\ L!Left(L!Flat)
    BY L!FreshShape, FreshTidied, RolloverAssumption
  <1>2. ASSUME NEW g \in L!PnL PROVE L!Shape(Settled(a, g)) /\ L!Tidy(Settled(a, g)) /\ Settled(a, g).order = 0
    <2>. DEFINE raw == a.balance + g - Fee
                b == Floored(raw)
                d == a.debt + Floored(raw) - raw
                r == a.realized + L!Net(a.position, g, Fee)
                closed == [a EXCEPT !.position = L!Flat, !.balance = b, !.debt = d, !.realized = r]
    <2>1. b \in Int
      BY <1>2, RolloverAssumption DEF L!Tidy, L!PnL, Floored, L!MaxOf
    <2>2. Settled(a, g) = L!Frozen(closed)
      BY DEF Settled
    <2>. HIDE DEF b, d, r
    <2>3. L!Shape(closed) /\ closed.order = 0 /\ closed.position = L!Flat /\ closed.balance = b
      BY <1>1 DEF L!Shape, L!Columns
    <2>. HIDE DEF closed
    <2>. QED BY <1>1, <2>1, <2>2, <2>3 DEF L!Frozen, L!Shape, L!Columns, L!Tidy
  <1>3. PICK x \in {a} \cup {Settled(a, g) : g \in L!PnL} :
          w = IF x.status = "ACTIVE" THEN [x EXCEPT !.status = "RETIRED", !.final = x.balance] ELSE x
    BY DEF Retired
  <1>4. L!Shape(x) /\ L!Tidy(x) /\ x.order = 0
    BY <1>2, <1>3
  <1>5. w.position = x.position /\ w.balance = x.balance /\ w.order = x.order
    BY <1>3, <1>4 DEF L!Shape, L!Columns
  <1>. QED BY <1>4, <1>5 DEF L!Tidy

\* Nothing is left over at the start.
LEMMA LeftoversStart == Init => Leftovers
  <1>. SUFFICES ASSUME Init PROVE Leftovers
    OBVIOUS
  <1>1. /\ bar = 1 /\ agent = L!Fresh /\ swept = 0 /\ generation = 1
        /\ worker = Idle /\ research = NotRetiring /\ after = [bars |-> 0, stuck |-> 0]
    BY DEF Init
  <1>2. AllTidy
    BY <1>1, FreshTidied DEF AllTidy, Idle, NotRetiring
  <1>3. Ordered /\ Fallen
    BY <1>1, FreshTidied DEF Ordered, Fallen, Idle, NotRetiring
  <1>4. Alone
    BY <1>1 DEF Alone, Late, Idle
  <1>5. Counted
    BY <1>1, FreshTrading DEF Counted, L!IsOpen
  <1>. QED BY <1>2, <1>3, <1>4, <1>5 DEF Leftovers

\* A pass begins.
LEMMA BeginLeaves ==
  ASSUME IInv, Leftovers, WorkerBegins \/ WorkerProtects
  PROVE  Leftovers'
  <1>. USE DEF IInv, Leftovers
  <1>1. /\ Pending
        /\ worker'.read = L!Fresh /\ worker'.written = L!Fresh
        /\ \/ worker'.step = "agents" /\ worker'.pass = "decide" /\ worker'.generation = generation
           \/ worker'.step = "positions" /\ worker'.generation = 1
    BY DEF WorkerBegins, WorkerProtects, Pending, Idle
  <1>2. bar \in Nat /\ L!Tidy(L!Fresh)
    BY FreshTidied, RolloverAssumption DEF Steps
  <1>3. AllTidy'
    BY <1>1, <1>2 DEF AllTidy, Pending, L!Tidy, L!Left
  <1>4. Ordered' /\ Fallen'
    BY <1>1 DEF Ordered, Fallen, Pending
  <1>5. Alone'
    BY <1>1 DEF Alone, Late, Pending, Steps
  <1>6. Counted'
    BY <1>1 DEF Counted, Pending, L!IsOpen
  <1>. QED BY <1>3, <1>4, <1>5, <1>6

\* It reads the agents of the latest generation.
LEMMA AgentsLeaves ==
  ASSUME IInv, Leftovers, ReadsAgents
  PROVE  Leftovers'
  <1>. USE DEF IInv, Leftovers
  <1>1. /\ Pending /\ worker.step = "agents"
        /\ worker'.written = worker.written /\ worker'.generation = worker.generation
        /\ worker'.pass = worker.pass
        /\ \/ /\ worker.generation = 1 /\ worker'.step = "book"
              /\ worker'.read = Account(L!Fresh, agent)
           \/ worker'.step = "positions" /\ worker'.read = worker.read
    BY DEF ReadsAgents, Pending, Steps
  <1>2. L!Tidy(Account(L!Fresh, agent))
    <2>1. /\ bar \in Nat /\ L!Fresh.position = L!Flat /\ L!Shape(L!Fresh)
          /\ L!Shape(agent) /\ agent.balance \in Int
      BY FreshTrading, RolloverAssumption DEF Steps, Outlined, AllTidy, L!Tidy, L!Fresh
    <2>. QED BY <2>1, FreshTidied, ReadTidy
  <1>3. AllTidy'
    BY <1>1, <1>2 DEF AllTidy, Pending, L!Tidy, L!Left
  <1>4. Ordered' /\ Fallen'
    BY <1>1 DEF Ordered, Fallen, Pending
  <1>5. Alone'
    BY <1>1 DEF Alone, Late, Pending
  <1>6. Counted'
    BY <1>1 DEF Counted, Pending, L!IsOpen
  <1>. QED BY <1>3, <1>4, <1>5, <1>6

\* It reads their positions and orders and runs the agent on what it read: no pass that began
\* after the retirement comes here.
LEMMA BookLeaves ==
  ASSUME IInv, Leftovers, ReadsBook
  PROVE  Leftovers'
  <1>. USE DEF IInv, Leftovers
  <1>. DEFINE read == Account(agent, worker.read)
  <1>1. PICK halted \in BOOLEAN :
          \E written \in UNION {L!Sweep(x) : x \in L!Looped(read, halted)} :
            worker' = [worker EXCEPT !.step = "commit", !.read = read, !.written = written]
    BY DEF ReadsBook
  <1>2. PICK x \in L!Looped(read, halted) :
          \E written \in L!Sweep(x) :
            worker' = [worker EXCEPT !.step = "commit", !.read = read, !.written = written]
    BY <1>1
  <1>3. PICK written \in L!Sweep(x) :
          worker' = [worker EXCEPT !.step = "commit", !.read = read, !.written = written]
    BY <1>2
  <1>4. L!Shape(read) /\ L!Tidy(read) /\ bar \in 1..MaxBar /\ swept \in Nat
    BY ReadShape, ReadTidy DEF Outlined, Steps, AllTidy, L!Tidy
  <1>5. L!Follows(read, x) /\ L!Shape(x) /\ L!Tidy(x)
    BY <1>4, Passes, Keeps DEF L!Follows, L!Tends
  <1>6. L!Tidy(written) /\ written.order = x.order
    BY <1>4, <1>5, Keeps DEF L!Tends
  <1>7. written.order \in {read.order, 0, bar}
    BY <1>5, <1>6 DEF L!Follows
  <1>. HIDE DEF read
  <1>8. /\ Pending /\ worker.step = "book" /\ worker'.step = "commit"
        /\ worker'.read = read /\ worker'.written = written
        /\ worker'.generation = worker.generation /\ worker'.pass = worker.pass
    BY <1>3 DEF ReadsBook, Pending, Steps
  <1>9. AllTidy'
    BY <1>4, <1>6, <1>8 DEF AllTidy, Pending, L!Tidy, L!Left
  <1>10. Ordered' /\ Fallen'
    BY <1>7, <1>8 DEF Ordered, Fallen, Pending
  <1>11. Alone'
    BY <1>8 DEF Alone, Late, Pending
  <1>12. Counted'
    BY <1>8 DEF Counted, Pending, L!IsOpen
  <1>. QED BY <1>9, <1>10, <1>11, <1>12

\* The sweep reads the open positions.
LEMMA PositionsLeaves ==
  ASSUME IInv, Leftovers, ReadsPositions
  PROVE  Leftovers'
  <1>. USE DEF IInv, Leftovers
  <1>1. /\ Pending /\ worker.step = "positions"
        /\ worker'.written = worker.written /\ worker'.generation = worker.generation
        /\ worker'.pass = worker.pass
        /\ \/ /\ Sweeps(agent) /\ worker'.step = "owner"
              /\ worker'.read = Account(agent, L!Fresh)
           \/ ~Sweeps(agent) /\ worker'.step = "commit" /\ worker'.read = worker.read
    BY DEF ReadsPositions, Pending, Steps
  <1>2. worker.read = L!Fresh /\ worker.written = L!Fresh /\ L!Fresh.order = 0
    BY <1>1 DEF Steps, L!Fresh
  <1>3. L!Tidy(Account(agent, L!Fresh)) /\ Account(agent, L!Fresh).position = agent.position
    BY FreshTrading, FreshTidied, ReadShape, ReadTidy, RolloverAssumption
       DEF Steps, Outlined, AllTidy, L!Tidy
  <1>4. AllTidy'
    BY <1>1, <1>3 DEF AllTidy, Pending, L!Tidy, L!Left
  <1>5. Ordered' /\ Fallen'
    BY <1>1, <1>2 DEF Ordered, Fallen, Pending
  <1>6. Alone'
    BY <1>1, <1>2, <1>3 DEF Alone, Late, Pending, Empty, Sweeps, L!IsOpen
  <1>7. Counted'
    BY <1>1 DEF Counted, Pending, L!IsOpen
  <1>. QED BY <1>4, <1>5, <1>6, <1>7

\* And their owners, and protects on what it read.
LEMMA OwnerLeaves ==
  ASSUME IInv, Leftovers, ReadsOwner
  PROVE  Leftovers'
  <1>. USE DEF IInv, Leftovers
  <1>. DEFINE read == Account(worker.read, agent)
  <1>1. PICK written \in L!Sweep(read) :
          worker' = [worker EXCEPT !.step = "commit", !.read = read, !.written = written]
    BY DEF ReadsOwner
  <1>2. /\ L!Shape(read) /\ L!Tidy(read) /\ bar \in 1..MaxBar
        /\ read.position = worker.read.position
        /\ read.status = agent.status /\ read.balance = agent.balance
    BY ReadShape, ReadTidy DEF Outlined, Steps, AllTidy, L!Tidy, L!Columns
  <1>3. L!Tidy(written) /\ written.order = read.order
    BY <1>2, Keeps DEF L!Tends
  <1>4. Late => /\ read.position = agent.position /\ L!IsOpen(agent) /\ Tried(read, written.position)
                /\ generation = 2
    <2>. SUFFICES ASSUME Late
                  PROVE  /\ read.position = agent.position /\ L!IsOpen(agent)
                         /\ Tried(read, written.position) /\ generation = 2
      OBVIOUS
    <2>1. /\ read.position = agent.position /\ Sweeps(agent) /\ generation = 2
          /\ agent.status # "ACTIVE"
      BY <1>2 DEF ReadsOwner, Alone, Fallen
    <2>2. L!IsOpen(read) /\ read.status # "ACTIVE" /\ read.position.managed < bar
      BY <1>2, <2>1 DEF Sweeps, L!IsOpen
    <2>. HIDE DEF read
    <2>. QED BY <1>2, <2>1, <2>2, SweepsOut DEF Sweeps
  <1>5. Late => Tried(agent, written.position)
    BY <1>2, <1>4 DEF Tried, L!Unpayable, L!IsOpen
  <1>. HIDE DEF read
  <1>6. /\ Pending /\ worker.step = "owner" /\ worker'.step = "commit"
        /\ worker'.read = read /\ worker'.written = written
        /\ worker'.generation = worker.generation /\ worker'.pass = worker.pass
    BY <1>1 DEF ReadsOwner, Pending, Steps
  <1>7. AllTidy'
    BY <1>2, <1>3, <1>6 DEF AllTidy, Pending, L!Tidy, L!Left
  <1>8. Ordered' /\ Fallen'
    BY <1>3, <1>6 DEF Ordered, Fallen, Pending
  <1>9. Alone'
    <2>1. Late' => Late /\ L!IsOpen(agent)'
      BY <1>4, <1>6 DEF Late, Pending, L!IsOpen
    <2>2. Late => Tried(agent, worker.written.position)'
      BY <1>5, <1>6 DEF Tried, L!Unpayable, L!Due, L!IsOpen, Pending
    <2>. QED BY <1>3, <1>4, <1>6, <2>1, <2>2 DEF Alone, Pending
  <1>10. Counted'
    BY <1>6 DEF Counted, Pending, L!IsOpen
  <1>. QED BY <1>7, <1>8, <1>9, <1>10

\* It commits. The bar is counted when it was decided on for the first time, by a pass that
\* began after the retirement.
LEMMA CommitLeaves ==
  ASSUME IInv, Leftovers, WorkerCommits
  PROVE  Leftovers'
  <1>. USE DEF IInv, Leftovers
  <1>. DEFINE row == Merged(agent, worker.read, worker.written)
              last == IF worker.pass = "decide" THEN L!Cancelled(row) ELSE row
              counts == worker.pass = "decide" /\ worker.generation = 2 /\ swept < bar
  <1>1. /\ agent' = L!Committed(last) /\ worker.step = "commit" /\ worker' = Idle
        /\ swept' = IF worker.pass = "decide" THEN bar ELSE swept
        /\ after' = IF counts
                    THEN [bars |-> after.bars + 1,
                          stuck |-> after.stuck + (IF L!Unpayable(agent) THEN 1 ELSE 0)]
                    ELSE after
        /\ bar' = bar /\ generation' = generation /\ research' = research
    BY DEF WorkerCommits
  <1>2. /\ L!Shape(agent) /\ L!Shape(worker.read) /\ L!Shape(worker.written)
        /\ L!Shape(row)
    BY MergedOwn DEF Outlined
  <1>3. /\ row.position = PositionRow(agent.position, worker.read.position, worker.written.position)
        /\ row.order = Column(agent.order, worker.read.order, worker.written.order)
        /\ L!Tidy(row)
    BY <1>2, MergedRows DEF AllTidy, L!Columns
  <1>. HIDE DEF row
  <1>4. /\ agent'.position = row.position /\ agent'.balance = row.balance
        /\ agent'.order = IF worker.pass = "decide" /\ row.order < bar - 1 THEN 0 ELSE row.order
    BY <1>1, <1>2 DEF L!Committed, L!Cancelled, L!Shape, L!Columns
  <1>5. /\ bar \in Nat /\ bar >= 1 /\ swept \in 0..bar /\ agent.order \in 0..swept
        /\ row.order \in {agent.order, 0, bar}
        /\ worker.pass # "decide" => row.order = agent.order
    BY <1>1, <1>3, RolloverAssumption DEF Steps, Ordered, Column
  <1>6. AllTidy'
    <2>1. L!Tidy(L!Fresh)
      BY <1>5, FreshTidied
    <2>. QED BY <1>1, <1>3, <1>4, <2>1 DEF AllTidy, Idle, L!Tidy, L!Left
  <1>7. Ordered'
    BY <1>1, <1>4, <1>5 DEF Ordered, Idle
  <1>8. Fallen'
    <2>1. agent.status # "ACTIVE" => agent'.status # "ACTIVE"
      BY NoRevival DEF Next, Trade
    <2>. QED BY <1>1, <2>1 DEF Fallen
  <1>9. after.bars \in Nat /\ after.stuck \in Nat /\ (counts => Late) /\ (Late => generation = 2)
    BY DEF Alone, Late
  <1>10. after'.bars \in Nat /\ after'.stuck \in Nat /\ (after'.bars >= 1 => Late)
    BY <1>1, <1>9 DEF Late
  <1>11. Alone'
    BY <1>1, <1>9, <1>10 DEF Alone, Late, Idle
  <1>12. Late => row.order = agent.order
    BY <1>1, <1>3 DEF Alone, Column
  <1>13. /\ after'.bars >= 1 => agent'.order < swept'
         /\ after'.bars >= 2 => agent'.order = 0
    <2>1. CASE counts
      BY <1>1, <1>4, <1>5, <1>9, <1>12, <2>1 DEF Counted
    <2>2. CASE ~counts
      BY <1>1, <1>4, <1>5, <1>9, <1>10, <1>12, <2>2 DEF Counted
    <2>. QED BY <2>1, <2>2
  <1>14. ASSUME Late, L!IsOpen(agent')
         PROVE  \/ ~Sweeps(agent) /\ row.position = agent.position
                \/ /\ L!IsOpen(agent)
                   /\ row.position.attempts > agent.position.attempts /\ row.position.managed = bar
                \/ L!Unpayable(agent) /\ row.position = agent.position
    <2>1. CASE Empty(worker) /\ ~Sweeps(agent)
      BY <1>3, <2>1, FreshTrading DEF Empty, PositionRow
    <2>2. CASE /\ worker.read.position = agent.position /\ L!IsOpen(agent)
               /\ Tried(agent, worker.written.position)
      <3>1. row.position = worker.written.position
        BY <1>3, <2>2 DEF PositionRow
      <3>. QED BY <1>4, <1>14, <2>2, <3>1 DEF Tried, L!IsOpen
    <2>. QED BY <1>1, <1>14, <2>1, <2>2 DEF Alone
  <1>15. ASSUME after'.bars >= 1, L!IsOpen(agent')
         PROVE  /\ agent'.position.attempts + after'.stuck + 1 >= after'.bars
                /\ agent'.position.managed > swept' =>
                     agent'.position.attempts + after'.stuck >= after'.bars
    <2>1. Late /\ L!IsOpen(agent)
      BY <1>10, <1>14, <1>15, <1>4 DEF L!IsOpen
    <2>2. /\ agent.position.attempts \in Nat /\ agent.position.managed \in 0..bar
          /\ row.position.attempts \in Nat /\ row.position.managed \in 0..bar
      BY <1>3 DEF AllTidy, L!Tidy, L!Left
    <2>3. /\ agent.position.attempts + after.stuck + 1 >= after.bars
          /\ after.bars >= 1 /\ agent.position.managed > swept =>
               agent.position.attempts + after.stuck >= after.bars
      BY <2>1 DEF Counted
    <2>4. agent'.position = row.position
      BY <1>4
    <2>5. CASE counts
      <3>1. /\ swept' = bar /\ swept < bar /\ after'.bars = after.bars + 1
            /\ after'.stuck = after.stuck + (IF L!Unpayable(agent) THEN 1 ELSE 0)
        BY <1>1, <2>5
      <3>2. agent'.position.managed <= swept'
        BY <1>5, <2>2, <2>4, <3>1
      <3>3. CASE ~Sweeps(agent) /\ row.position = agent.position
        <4>1. agent.position.managed > swept
          BY <1>5, <2>1, <2>2, <3>1, <3>3 DEF Sweeps
        <4>. QED BY <1>5, <1>9, <2>2, <2>3, <2>4, <3>1, <3>2, <3>3, <4>1
      <3>4. CASE row.position.attempts > agent.position.attempts
        BY <1>5, <1>9, <2>2, <2>3, <2>4, <3>1, <3>2, <3>4
      <3>5. CASE L!Unpayable(agent) /\ row.position = agent.position
        BY <1>5, <1>9, <2>2, <2>3, <2>4, <3>1, <3>2, <3>5
      <3>. QED BY <1>14, <1>15, <2>1, <3>3, <3>4, <3>5
    <2>6. CASE ~counts
      <3>1. after' = after /\ swept' \in swept..bar
        BY <1>1, <1>5, <2>6
      <3>2. CASE row.position = agent.position
        BY <1>5, <1>9, <1>15, <2>2, <2>3, <2>4, <3>1, <3>2
      <3>3. CASE row.position.attempts > agent.position.attempts
        BY <1>9, <1>15, <2>2, <2>3, <2>4, <3>1, <3>3
      <3>. QED BY <1>14, <1>15, <2>1, <3>2, <3>3
    <2>. QED BY <2>5, <2>6
  <1>16. Counted'
    <2>1. L!IsOpen(agent)' <=> L!IsOpen(agent')
      BY DEF L!IsOpen
    <2>2. after'.bars < 1 /\ L!IsOpen(agent') => agent'.position.attempts + after'.stuck + 1 >= after'.bars
      BY <1>3, <1>4, <1>10 DEF L!Tidy, L!Left
    <2>. QED BY <1>10, <1>13, <1>15, <2>1, <2>2 DEF Counted
  <1>. QED BY <1>6, <1>7, <1>8, <1>11, <1>16

\* The process dies.
LEMMA DieLeaves ==
  ASSUME IInv, Leftovers, WorkerDies
  PROVE  Leftovers'
  <1>. USE DEF IInv, Leftovers
  <1>1. /\ agent' = [agent EXCEPT !.seen = {}, !.open = {}] /\ worker' = Idle
        /\ UNCHANGED <<bar, swept, generation, after, research>>
    BY DEF WorkerDies
  <1>2. /\ agent'.position = agent.position /\ agent'.balance = agent.balance
        /\ agent'.order = agent.order /\ agent'.status = agent.status
    BY <1>1 DEF Outlined, L!Shape, L!Columns
  <1>3. L!Tidy(L!Fresh)
    BY FreshTidied, RolloverAssumption DEF Steps
  <1>4. AllTidy'
    BY <1>1, <1>2, <1>3 DEF AllTidy, Idle, L!Tidy, L!Left
  <1>5. Ordered' /\ Fallen'
    BY <1>1, <1>2 DEF Ordered, Fallen, Idle
  <1>6. Alone'
    BY <1>1 DEF Alone, Late, Idle
  <1>7. Counted'
    BY <1>1, <1>2 DEF Counted, L!IsOpen
  <1>. QED BY <1>4, <1>5, <1>6, <1>7

\* The next bar.
LEMMA BarLeaves ==
  ASSUME IInv, Leftovers, NextBar
  PROVE  Leftovers'
  <1>. USE DEF IInv, Leftovers
  <1>1. /\ agent' = L!OnNewBar(agent) /\ worker.step = "idle" /\ bar' = bar + 1
        /\ UNCHANGED <<swept, generation, after, worker, research>>
    BY DEF NextBar
  <1>2. /\ agent'.position = agent.position /\ agent'.balance = agent.balance
        /\ agent'.order = agent.order /\ agent'.status = agent.status
    BY <1>1 DEF L!OnNewBar, Outlined, L!Shape, L!Columns
  <1>3. bar \in Nat /\ swept \in Nat
    BY RolloverAssumption DEF Steps
  <1>4. AllTidy'
    BY <1>1, <1>2, <1>3 DEF AllTidy, L!Tidy, L!Left
  <1>5. Ordered' /\ Fallen'
    BY <1>1, <1>2, <1>3 DEF Ordered, Fallen
  <1>6. Alone'
    BY <1>1 DEF Alone, Late
  <1>7. Counted'
    BY <1>1, <1>2 DEF Counted, L!IsOpen
  <1>. QED BY <1>4, <1>5, <1>6, <1>7

\* What the retirement does before its commit: it reads the account, and settles its copy.
LEMMA RetiringLeaves ==
  ASSUME IInv, Leftovers,
         \/ ResearchLoads \/ ResearchFails \/ ResearchReadsAgents \/ ResearchReadsPositions
         \/ ResearchCancelsOrders
  PROVE  Leftovers'
  <1>. USE DEF IInv, Leftovers
  <1>1. bar \in Nat /\ L!Tidy(L!Fresh) /\ L!Left(L!Flat) /\ L!Fresh.position = L!Flat
    BY FreshTidied, RolloverAssumption DEF Steps, L!Fresh
  <1>2. L!Tidy(Account(L!Fresh, agent)) /\ Account(L!Fresh, agent).status = agent.status
    BY <1>1, FreshTrading, ReadShape, ReadTidy DEF Outlined, AllTidy, L!Tidy, L!Columns
  <1>3. /\ Retiring /\ generation = 1
        /\ L!Tidy(research'.read) /\ L!Tidy(research'.written)
        /\ research'.step \in {"positions", "orders", "commit"} =>
             \/ research'.read.status = agent.status
             \/ /\ research.step \in {"positions", "orders", "commit"}
                /\ research'.read.status = research.read.status
        /\ research'.step = "commit" => research'.written.order = 0
    <2>1. CASE ResearchLoads
      BY <1>1, <1>2, <2>1 DEF ResearchLoads, Retiring, NotRetiring
    <2>2. CASE ResearchFails
      BY <1>1, <2>2 DEF ResearchFails, Retiring, NotRetiring, Steps
    <2>3. CASE ResearchReadsAgents
      BY <1>2, <2>3 DEF ResearchReadsAgents, AgentsRead, Retiring, Steps, AllTidy
    <2>4. CASE ResearchReadsPositions
      <3>. DEFINE read == [research.read EXCEPT !.position = agent.position]
      <3>1. /\ read.position = agent.position /\ read.balance = research.read.balance
            /\ read.status = research.read.status
        BY DEF Outlined, L!Shape, L!Columns
      <3>. HIDE DEF read
      <3>2. /\ Retiring /\ research.step = "positions" /\ research'.step = "orders"
            /\ research'.read = read /\ research'.written = research.written
        BY <2>4 DEF ResearchReadsPositions, Retiring, Steps, read
      <3>3. generation = 1
        BY <3>2 DEF Steps
      <3>. QED BY <3>1, <3>2, <3>3 DEF AllTidy, L!Tidy
    <2>5. CASE ResearchCancelsOrders
      <3>. DEFINE read == [research.read EXCEPT !.order = agent.order]
                  base == [read EXCEPT !.order = 0]
      <3>1. PICK written \in Retired(base) :
              research' = [step |-> "commit", read |-> read, written |-> written]
        BY <2>5 DEF ResearchCancelsOrders
      <3>2. /\ L!Shape(read) /\ read.position = research.read.position
            /\ read.balance = research.read.balance /\ read.status = research.read.status
        BY DEF Outlined, L!Shape, L!Columns
      <3>3. /\ L!Shape(base) /\ base.order = 0 /\ base.position = research.read.position
            /\ base.balance = research.read.balance
        BY DEF Outlined, L!Shape, L!Columns
      <3>. HIDE DEF read, base
      <3>4. L!Tidy(base) /\ L!Tidy(read)
        BY <3>2, <3>3 DEF AllTidy, L!Tidy
      <3>5. L!Tidy(written) /\ written.order = 0
        BY <1>1, <3>3, <3>4, RetiredTidy
      <3>6. Retiring /\ research.step = "orders" /\ generation = 1
        BY <2>5 DEF ResearchCancelsOrders, Retiring, Steps
      <3>. QED BY <3>1, <3>2, <3>4, <3>5, <3>6
    <2>. QED BY <2>1, <2>2, <2>3, <2>4, <2>5
  <1>4. AllTidy'
    BY <1>3 DEF AllTidy, Retiring, L!Tidy, L!Left
  <1>5. Ordered' /\ Fallen'
    BY <1>3 DEF Ordered, Fallen, Retiring
  <1>6. Alone'
    BY <1>3 DEF Alone, Late, Retiring
  <1>7. Counted'
    BY <1>3 DEF Counted, Retiring, L!IsOpen
  <1>. QED BY <1>4, <1>5, <1>6, <1>7

\* It commits, with the next generation, and retires whom it had read as ACTIVE.
LEMMA RetireLeaves ==
  ASSUME IInv, Leftovers, ResearchCommits
  PROVE  Leftovers'
  <1>. USE DEF IInv, Leftovers
  <1>1. /\ agent' = Merged(agent, research.read, research.written)
        /\ generation' = 2 /\ research' = NotRetiring /\ research.step = "commit"
        /\ UNCHANGED <<bar, swept, worker, after>>
    BY DEF ResearchCommits
  <1>2. /\ agent'.order = Column(agent.order, research.read.order, research.written.order)
        /\ agent'.status = Column(agent.status, research.read.status, research.written.status)
        /\ L!Tidy(agent')
    BY <1>1, MergedRows DEF Outlined, AllTidy, L!Columns
  <1>3. L!Tidy(L!Fresh)
    BY FreshTidied, RolloverAssumption DEF Steps
  <1>4. AllTidy'
    BY <1>1, <1>2, <1>3 DEF AllTidy, NotRetiring, L!Tidy, L!Left
  <1>5. Ordered'
    BY <1>1, <1>2 DEF Ordered, NotRetiring, Steps, Column
  <1>6. Fallen'
    BY <1>1, <1>2 DEF Fallen, Writes, NotRetiring, Column
  <1>7. generation = 1 /\ ~Late /\ after.bars \in Nat /\ after.stuck \in Nat
    BY <1>1 DEF Steps, Alone
  <1>8. Alone'
    BY <1>1, <1>7 DEF Alone, Late
  <1>9. Counted'
    <2>1. ~(after.bars >= 1) /\ agent'.position.attempts \in Nat
      BY <1>2, <1>7 DEF Late, L!Tidy, L!Left
    <2>. QED BY <1>1, <1>7, <2>1 DEF Counted, L!IsOpen
  <1>. QED BY <1>4, <1>5, <1>6, <1>8, <1>9

\* Whatever a racing pass leaves behind a retired generation goes with the decisions of the
\* bars that follow, for every number of refusals that force a settlement.
THEOREM LeftoversLeave == Spec => []LeftoversGo
  <1>1. IInv /\ Leftovers /\ [Next]_vars => Leftovers'
    <2>. SUFFICES ASSUME IInv, Leftovers, [Next]_vars PROVE Leftovers'
      OBVIOUS
    <2>1. CASE Trade
      BY <2>1, BeginLeaves, AgentsLeaves, BookLeaves, PositionsLeaves, OwnerLeaves, CommitLeaves
         DEF Trade
    <2>2. CASE WorkerProtects \/ WorkerDies \/ NextBar
      BY <2>2, BeginLeaves, DieLeaves, BarLeaves
    <2>3. CASE \/ ResearchLoads \/ ResearchFails \/ ResearchReadsAgents \/ ResearchReadsPositions
               \/ ResearchCancelsOrders \/ ResearchCommits
      BY <2>3, RetiringLeaves, RetireLeaves
    <2>4. CASE UNCHANGED vars
      BY <2>4 DEF vars, Leftovers, AllTidy, L!Tidy, L!Left, Ordered, Fallen, Alone, Late, Counted,
                  Tried, Empty, Sweeps, L!Unpayable, L!Due, L!IsOpen
    <2>. QED BY <2>1, <2>2, <2>3, <2>4 DEF Next
  <1>2. IInv /\ Leftovers => LeftoversGo
    <2>. SUFFICES ASSUME IInv, Leftovers, generation = 2 PROVE LeftoversGo
      BY DEF LeftoversGo
    <2>1. /\ ForceAfter \in Nat /\ after.bars \in Nat /\ after.stuck \in Nat
          /\ agent.position.attempts \in Nat
          /\ L!IsOpen(agent) => agent.position.attempts < ForceAfter
      BY RolloverAssumption DEF Leftovers, AllTidy, Alone, L!Tidy, L!Left, L!IsOpen
    <2>. QED BY <2>1 DEF Leftovers, Counted, LeftoversGo
  <1>. QED BY <1>1, <1>2, LeftoversStart, Inductive, PTL DEF Spec

-----------------------------------------------------------------------------
(* What the next generation is bred from: every DNA that is stored, drawn, crossed or      *)
(* mutated is whole, so a candidate is.  The gate plays no part in it.                      *)

\* The schema accepts it, and its rules read what it declares.
Whole(d) == Formed(d) /\ Valid(d) /\ Bound(d)

\* Every DNA in the population is whole, and so is the one being bred.
GenomeInv == (\A d \in alive : Whole(d)) /\ (cand # None => Whole(cand))

\* The keys of an indicator with a period are its stems at that period.
LEMMA KeysOf ==
  ASSUME NEW n, NEW p \in Nat \ {0}
  PROVE  Keys(Ind(n, p)) = Stems(n) \X {p}
  BY DEF Keys, Ind

\* A drift moves a key of the old indicator to one of the new, and no other.
LEMMA RenamedBound ==
  ASSUME NEW n, NEW p \in Nat \ {0}, NEW q \in Nat \ {0}, NEW keys, NEW others,
         keys \subseteq Keys(Ind(n, p)) \cup others
  PROVE  /\ Renamed(keys, Ind(n, p), q) \subseteq Keys(Ind(n, q)) \cup others
         /\ keys # {} => Renamed(keys, Ind(n, p), q) # {}
  <1>1. \A k \in Keys(Ind(n, p)) : <<k[1], q>> \in Keys(Ind(n, q))
    BY KeysOf
  <1>. QED BY <1>1 DEF Renamed

\* mutation.py: "a period change must never orphan a rule".
LEMMA RepacedWhole ==
  ASSUME GenomeAssumption, NEW d, Whole(d), NEW i \in DOMAIN d.inds, d.inds[i].period > 0,
         NEW q \in Drifts(d.inds[i].period)
  PROVE  Whole(Repaced(d, i, q))
  <1>. DEFINE ind == d.inds[i]
              new == Ind(ind.name, q)
              x == [d EXCEPT !.inds[i] = new,
                             !.entry = Renamed(@, ind, q), !.exit = Renamed(@, ind, q),
                             !.short = Renamed(@, ind, q), !.shortExit = Renamed(@, ind, q)]
              others == Context \cup UNION {Keys(d.inds[j]) : j \in DOMAIN d.inds \ {i}}
  <1>1. CASE \E j \in DOMAIN d.inds : d.inds[j] = new
    BY <1>1 DEF Repaced
  <1>2. CASE ~ \E j \in DOMAIN d.inds : d.inds[j] = new
    <2>1. Repaced(d, i, q) = x
      BY <1>2 DEF Repaced
    <2>2. q \in Nat \ {0}
      BY DEF Drifts, GenomeAssumption
    <2>3. ind = Ind(ind.name, ind.period) /\ ind.period \in Nat \ {0}
      BY DEF Whole, Formed
    <2>4. /\ DOMAIN x = Fields /\ x.cap = d.cap /\ x.limit = d.limit /\ x.mode = d.mode
          /\ x.inds = [d.inds EXCEPT ![i] = new]
          /\ x.entry = Renamed(d.entry, ind, q) /\ x.exit = Renamed(d.exit, ind, q)
          /\ x.short = Renamed(d.short, ind, q) /\ x.shortExit = Renamed(d.shortExit, ind, q)
      BY DEF Whole, Formed, Fields
    <2>. HIDE DEF x, new
    <2>5. /\ DOMAIN x.inds = DOMAIN d.inds /\ x.inds[i] = new
          /\ \A j \in DOMAIN d.inds \ {i} : x.inds[j] = d.inds[j]
      BY <2>4
    <2>6. new.name = ind.name /\ new.period = q /\ new = Ind(new.name, new.period)
      BY DEF new, Ind
    <2>7. Formed(x)
      BY <2>2, <2>4, <2>5, <2>6 DEF Whole, Formed
    <2>8. OwnKeys(d) \subseteq Keys(ind) \cup others
      BY DEF OwnKeys
    <2>9. Keys(new) \cup others \subseteq Context \cup OwnKeys(x)
      BY <2>5 DEF OwnKeys
    <2>10. \A keys \in {d.entry, d.exit, d.short, d.shortExit} :
             /\ Renamed(keys, ind, q) \subseteq Keys(new) \cup others
             /\ keys # {} => Renamed(keys, ind, q) # {}
      <3>1. \A keys \in {d.entry, d.exit, d.short, d.shortExit} : keys \subseteq Keys(ind) \cup others
        BY <2>8 DEF Whole, Bound, Rules
      <3>. HIDE DEF others, ind
      <3>. QED BY <2>2, <2>3, <3>1, RenamedBound DEF new
    <2>11. Bound(x)
      BY <2>4, <2>9, <2>10 DEF Bound, Rules
    <2>12. \A j, k \in DOMAIN x.inds : x.inds[j] = x.inds[k] => j = k
      BY <1>2, <2>5 DEF Whole, Valid
    <2>13. Valid(x)
      <3>1. x.inds # <<>>
        BY <2>5
      <3>. QED BY <2>4, <2>10, <2>12, <3>1 DEF Whole, Valid
    <2>. QED BY <2>1, <2>7, <2>11, <2>13 DEF Whole
  <1>. QED BY <1>1, <1>2

\* The limit follows the cap down.
LEMMA MutationsWhole ==
  ASSUME GenomeAssumption, NEW d, Whole(d), NEW x \in Mutations(d)
  PROVE  Whole(x)
  <1>1. PICK e \in {d} \cup Repacings(d), cap \in {d.cap} \cup Leverage :
          x = Recapped(e, cap)
    BY DEF Mutations
  <1>2. Whole(e)
    BY <1>1, RepacedWhole DEF Repacings
  <1>3. cap \in Nat
    BY DEF GenomeAssumption, Whole, Formed
  <1>4. /\ DOMAIN x = Fields /\ x.cap = cap /\ x.limit = Least(e.limit, cap)
        /\ \A f \in Fields \ {"cap", "limit"} : x[f] = e[f]
    BY <1>1, <1>2 DEF Recapped, Whole, Formed, Fields
  <1>5. /\ x.inds = e.inds /\ x.mode = e.mode /\ x.entry = e.entry /\ x.exit = e.exit
        /\ x.short = e.short /\ x.shortExit = e.shortExit
    BY <1>4 DEF Fields
  <1>6. x.limit \in Nat /\ x.limit <= x.cap
    BY <1>2, <1>3, <1>4 DEF Least, Whole, Formed
  <1>. QED BY <1>2, <1>3, <1>4, <1>5, <1>6 DEF Whole, Formed, Valid, Bound, Rules, OwnKeys

\* Rules and indicators come from one parent, and so bind.
LEMMA CrossingsWhole ==
  ASSUME NEW a, NEW b, Whole(a), Whole(b), NEW x \in Crossings(a, b)
  PROVE  Whole(x)
  <1>1. PICK e \in {a, b}, cap \in {a.cap, b.cap}, limit \in {a.limit, b.limit},
             stop \in {a.stop, b.stop}, reward \in {a.reward, b.reward}, dead \in {a.dead, b.dead} :
          x = [e EXCEPT !.cap = cap, !.limit = Least(cap, limit), !.stop = stop,
                        !.reward = reward, !.dead = dead]
    BY DEF Crossings
  <1>2. Whole(e) /\ cap \in Nat /\ limit \in Nat
    BY <1>1 DEF Whole, Formed
  <1>3. /\ DOMAIN x = Fields /\ x.cap = cap /\ x.limit = Least(cap, limit)
        /\ x.inds = e.inds /\ x.mode = e.mode /\ x.entry = e.entry /\ x.exit = e.exit
        /\ x.short = e.short /\ x.shortExit = e.shortExit
    BY <1>1, <1>2 DEF Whole, Formed, Fields
  <1>4. x.limit \in Nat /\ x.limit <= x.cap
    BY <1>2, <1>3 DEF Least
  <1>. QED BY <1>2, <1>3, <1>4 DEF Whole, Formed, Valid, Bound, Rules, OwnKeys

\* A key is one of its indicator's if its stem is.
LEMMA OwnKey ==
  ASSUME NEW n, NEW p \in Nat \ {0}, NEW k \in Stems(n)
  PROVE  <<k, p>> \in Keys(Ind(n, p))
  BY KeysOf

\* The stems the builders name.
LEMMA NamedStems ==
  /\ \A n \in {"rsi", "roc", "ema", "flow_imbalance", "volume_ratio"} : n \in Stems(n)
  /\ "adx" \in Stems("adx") /\ "vwap_dev" \in Stems("vwap")
  /\ "donchian_high" \in Stems("donchian") /\ "donchian_low" \in Stems("donchian")
  /\ "bb_pct_b" \in Stems("bbands") /\ "bb_middle" \in Stems("bbands") /\ "bb_width" \in Stems("bbands")
  BY DEF Stems

\* Features of the market context, which no DNA need declare.
LEMMA InContext ==
  /\ Close \in Context
  /\ {Static(s) : s \in {"volatility_percentile", "higher_high", "higher_low", "lower_high", "lower_low",
                         "is_momentum_candle", "macd_hist"}} \subseteq Context
  BY DEF Context, Close

\* A shape is whole if its rules read what its indicators produce.
Shaped(x) ==
  /\ DOMAIN x = {"inds", "mode", "entry", "exit", "short", "shortExit"}
  /\ x.inds # <<>> /\ x.entry # {} /\ x.exit # {}
  /\ \A i, j \in DOMAIN x.inds : x.inds[i] = x.inds[j] => i = j
  /\ \A i \in DOMAIN x.inds : /\ x.inds[i] = Ind(x.inds[i].name, x.inds[i].period)
                              /\ x.inds[i].period \in Nat
  /\ x.mode = "both" => x.short # {}
  /\ x.entry \cup x.exit \cup x.short \cup x.shortExit \subseteq Context \cup OwnKeys(x)

\* _finish, of different indicators.
LEMMA RuleShaped ==
  ASSUME NEW inds, inds # <<>>,
         \A i, j \in DOMAIN inds : inds[i] = inds[j] => i = j,
         \A i \in DOMAIN inds : \E n : \E p \in Nat : inds[i] = Ind(n, p),
         NEW mode, NEW entry, entry # {}, NEW exit, exit # {}, NEW short, NEW shortExit,
         mode = "both" => short # {},
         entry \cup exit \cup short \cup shortExit
           \subseteq Context \cup UNION {Keys(inds[i]) : i \in DOMAIN inds}
  PROVE  Shaped(Rule(inds, mode, entry, exit, short, shortExit))
  <1>. DEFINE x == Rule(inds, mode, entry, exit, short, shortExit)
  <1>1. /\ DOMAIN x = {"inds", "mode", "entry", "exit", "short", "shortExit"}
        /\ x.inds = inds /\ x.mode = mode /\ x.entry = entry /\ x.exit = exit
        /\ x.short = short /\ x.shortExit = shortExit
    BY DEF Rule
  <1>. HIDE DEF x
  <1>2. \A i \in DOMAIN inds : /\ inds[i] = Ind(inds[i].name, inds[i].period)
                               /\ inds[i].period \in Nat
    BY DEF Ind
  <1>3. Shaped(x)
    BY <1>1, <1>2 DEF Shaped, OwnKeys
  <1>. QED BY <1>3 DEF x

\* One to three different indicators.
LEMMA OneIndicator ==
  ASSUME NEW n1, NEW p1 \in Nat, NEW mode, NEW entry, entry # {}, NEW exit, exit # {},
         NEW short, NEW shortExit, mode = "both" => short # {},
         entry \cup exit \cup short \cup shortExit \subseteq Context \cup Keys(Ind(n1, p1))
  PROVE  Shaped(Rule(<<Ind(n1, p1)>>, mode, entry, exit, short, shortExit))
  <1>. DEFINE inds == <<Ind(n1, p1)>>
  <1>1. DOMAIN inds = {1} /\ inds # <<>> /\ inds[1] = Ind(n1, p1)
    OBVIOUS
  <1>. HIDE DEF inds
  <1>2. Shaped(Rule(inds, mode, entry, exit, short, shortExit))
    BY <1>1, RuleShaped
  <1>. QED BY <1>2 DEF inds

LEMMA TwoIndicators ==
  ASSUME NEW n1, NEW p1 \in Nat, NEW n2, NEW p2 \in Nat, n1 # n2 \/ p1 # p2,
         NEW mode, NEW entry, entry # {}, NEW exit, exit # {}, NEW short, NEW shortExit,
         mode = "both" => short # {},
         entry \cup exit \cup short \cup shortExit
           \subseteq Context \cup Keys(Ind(n1, p1)) \cup Keys(Ind(n2, p2))
  PROVE  Shaped(Rule(<<Ind(n1, p1), Ind(n2, p2)>>, mode, entry, exit, short, shortExit))
  <1>. DEFINE inds == <<Ind(n1, p1), Ind(n2, p2)>>
  <1>1. DOMAIN inds = {1, 2} /\ inds # <<>> /\ inds[1] = Ind(n1, p1) /\ inds[2] = Ind(n2, p2)
    OBVIOUS
  <1>2. inds[1] # inds[2]
    BY <1>1 DEF Ind
  <1>. HIDE DEF inds
  <1>3. Shaped(Rule(inds, mode, entry, exit, short, shortExit))
    BY <1>1, <1>2, RuleShaped
  <1>. QED BY <1>3 DEF inds

LEMMA ThreeIndicators ==
  ASSUME NEW n1, NEW p1 \in Nat, NEW n2, NEW p2 \in Nat, NEW n3, NEW p3 \in Nat,
         n1 # n2 \/ p1 # p2, n1 # n3 \/ p1 # p3, n2 # n3 \/ p2 # p3,
         NEW mode, NEW entry, entry # {}, NEW exit, exit # {}, NEW short, NEW shortExit,
         mode = "both" => short # {},
         entry \cup exit \cup short \cup shortExit
           \subseteq Context \cup Keys(Ind(n1, p1)) \cup Keys(Ind(n2, p2)) \cup Keys(Ind(n3, p3))
  PROVE  Shaped(Rule(<<Ind(n1, p1), Ind(n2, p2), Ind(n3, p3)>>, mode, entry, exit, short, shortExit))
  <1>. DEFINE inds == <<Ind(n1, p1), Ind(n2, p2), Ind(n3, p3)>>
  <1>1. /\ DOMAIN inds = {1, 2, 3} /\ inds # <<>>
        /\ inds[1] = Ind(n1, p1) /\ inds[2] = Ind(n2, p2) /\ inds[3] = Ind(n3, p3)
    OBVIOUS
  <1>2. inds[1] # inds[2] /\ inds[1] # inds[3] /\ inds[2] # inds[3]
    BY <1>1 DEF Ind
  <1>. HIDE DEF inds
  <1>3. Shaped(Rule(inds, mode, entry, exit, short, shortExit))
    BY <1>1, <1>2, RuleShaped
  <1>. QED BY <1>3 DEF inds

\* The builders of the factory: the keys their rules name are keys of their indicators or of
\* the market context, whatever the periods.
LEMMA MomentumShaped ==
  ASSUME NEW p \in Nat \ {0}, NEW r \in Nat \ {0}
  PROVE  Shaped(Momentum(p, r))
  <1>1. /\ <<"rsi", p>> \in Keys(Ind("rsi", p))
        /\ <<"roc", r>> \in Keys(Ind("roc", r))
    BY OwnKey, NamedStems
  <1>. QED BY <1>1, TwoIndicators DEF Momentum, Mirrored

LEMMA TrendFollowingShaped ==
  ASSUME NEW f \in Nat \ {0}, NEW s \in Nat \ {0}, NEW a \in Nat \ {0}, f # s
  PROVE  Shaped(TrendFollowing(f, s, a))
  <1>1. /\ <<"ema", f>> \in Keys(Ind("ema", f))
        /\ <<"ema", s>> \in Keys(Ind("ema", s))
        /\ <<"adx", a>> \in Keys(Ind("adx", a))
    BY OwnKey, NamedStems
  <1>. QED BY <1>1, ThreeIndicators DEF TrendFollowing, Mirrored

LEMMA BreakoutShaped ==
  ASSUME NEW n \in Nat \ {0}, n > 1
  PROVE  Shaped(Breakout(n))
  <1>0. n \div 2 \in Nat \ {0}
    OBVIOUS
  <1>1. /\ {<<"donchian_high", n>>, <<"donchian_low", n>>} \subseteq Keys(Ind("donchian", n))
        /\ <<"volume_ratio", 20>> \in Keys(Ind("volume_ratio", 20))
        /\ <<"ema", n \div 2>> \in Keys(Ind("ema", n \div 2))
    BY <1>0, OwnKey, NamedStems
  <1>. QED BY <1>0, <1>1, InContext, ThreeIndicators DEF Breakout, Volume

LEMMA MeanReversionShaped ==
  ASSUME NEW p \in Nat \ {0}, NEW r \in Nat \ {0}
  PROVE  Shaped(MeanReversion(p, r))
  <1>1. /\ {<<"bb_pct_b", p>>, <<"bb_middle", p>>} \subseteq Keys(Ind("bbands", p))
        /\ <<"rsi", r>> \in Keys(Ind("rsi", r))
    BY OwnKey, NamedStems
  <1>. QED BY <1>1, InContext, TwoIndicators DEF MeanReversion, Mirrored

LEMMA VolatilityShaped ==
  ASSUME NEW p \in Nat \ {0}
  PROVE  Shaped(Volatility(p))
  <1>1. /\ <<"bb_width", p>> \in Keys(Ind("bbands", p))
        /\ <<"volume_ratio", 20>> \in Keys(Ind("volume_ratio", 20))
    BY OwnKey, NamedStems
  <1>. QED BY <1>1, InContext, ThreeIndicators DEF Volatility, Volume

LEMMA MarketStructureShaped ==
  ASSUME NEW n \in Nat \ {0}
  PROVE  Shaped(MarketStructure(n))
  <1>. QED BY InContext, TwoIndicators DEF MarketStructure

LEMMA VwapShaped ==
  ASSUME NEW p \in Nat \ {0}
  PROVE  Shaped(Vwap(p))
  <1>1. <<"vwap_dev", p>> \in Keys(Ind("vwap", p))
    BY OwnKey, NamedStems
  <1>. QED BY <1>1, OneIndicator DEF Vwap, Mirrored

LEMMA ScalpingShaped ==
  ASSUME NEW e \in Nat \ {0}, NEW r \in Nat \ {0}
  PROVE  Shaped(Scalping(e, r))
  <1>1. /\ <<"ema", e>> \in Keys(Ind("ema", e))
        /\ <<"roc", r>> \in Keys(Ind("roc", r))
        /\ <<"rsi", 7>> \in Keys(Ind("rsi", 7))
    BY OwnKey, NamedStems
  <1>. QED BY <1>1, InContext, ThreeIndicators DEF Scalping, Mirrored

LEMMA OrderFlowShaped ==
  ASSUME NEW p \in Nat \ {0}
  PROVE  Shaped(OrderFlow(p))
  <1>1. /\ <<"flow_imbalance", p>> \in Keys(Ind("flow_imbalance", p))
        /\ <<"volume_ratio", 20>> \in Keys(Ind("volume_ratio", 20))
    BY OwnKey, NamedStems
  <1>. QED BY <1>1, TwoIndicators DEF OrderFlow, Mirrored, Volume

LEMMA HybridShaped ==
  ASSUME NEW e \in Nat \ {0}, NEW r \in Nat \ {0}
  PROVE  Shaped(Hybrid(e, r))
  <1>1. /\ <<"ema", e>> \in Keys(Ind("ema", e))
        /\ <<"rsi", r>> \in Keys(Ind("rsi", r))
    BY OwnKey, NamedStems
  <1>. QED BY <1>1, InContext, ThreeIndicators DEF Hybrid, Mirrored

\* The session's VWAP has no period.
LEMMA SessionVwapShaped == Shaped(SessionVwap)
  <1>1. Static("vwap_dev_session") \in Keys(Ind("vwap", 0))
    BY DEF Keys
  <1>. QED BY <1>1, OneIndicator DEF SessionVwap, Mirrored

\* Every shape the factory draws.
LEMMA FactoryShapes ==
  ASSUME GenomeAssumption, NEW family \in Family, NEW x \in Shapes(family)
  PROVE  Shaped(x)
  <1>1. CASE family = "momentum"
    BY <1>1, MomentumShaped DEF Shapes, Of
  <1>2. CASE family = "trend_following"
    BY <1>2, TrendFollowingShaped DEF Shapes, Of
  <1>3. CASE family = "breakout"
    BY <1>3, BreakoutShaped DEF Shapes, Of
  <1>4. CASE family = "mean_reversion"
    BY <1>4, MeanReversionShaped DEF Shapes, Of
  <1>5. CASE family = "volatility"
    BY <1>5, VolatilityShaped DEF Shapes, Of
  <1>6. CASE family = "market_structure"
    BY <1>6, MarketStructureShaped DEF Shapes, Of
  <1>7. CASE family = "vwap"
    BY <1>7, VwapShaped, SessionVwapShaped DEF Shapes, Of
  <1>8. CASE family = "scalping"
    BY <1>8, ScalpingShaped DEF Shapes, Of
  <1>9. CASE family = "order_flow"
    BY <1>9, OrderFlowShaped DEF Shapes, Of
  <1>10. CASE family = "hybrid"
    BY <1>10, HybridShaped DEF Shapes, Of
  <1>. QED
    BY <1>1, <1>2, <1>3, <1>4, <1>5, <1>6, <1>7, <1>8, <1>9, <1>10 DEF GenomeAssumption

\* A founder's limit is drawn below its cap.
LEMMA FoundersWhole ==
  ASSUME GenomeAssumption, NEW d \in Founders
  PROVE  Whole(d)
  <1>1. PICK f \in Family :
          \E r \in Shapes(f), cap \in Leverage, drawn \in Leverage : d = Founder(f, r, cap, drawn)
    BY DEF Founders
  <1>2. PICK r \in Shapes(f), cap \in Leverage, drawn \in Leverage : d = Founder(f, r, cap, drawn)
    BY <1>1
  <1>3. Shaped(r)
    BY FactoryShapes
  <1>4. cap \in Nat /\ drawn \in Nat
    BY DEF GenomeAssumption
  <1>5. /\ DOMAIN d = Fields /\ d.cap = cap /\ d.limit = Least(drawn, cap)
        /\ d.inds = r.inds /\ d.mode = r.mode /\ d.entry = r.entry /\ d.exit = r.exit
        /\ d.short = r.short /\ d.shortExit = r.shortExit
    BY <1>2 DEF Founder, Dna, Fields
  <1>6. d.limit \in Nat /\ d.limit <= d.cap
    BY <1>4, <1>5 DEF Least
  <1>. QED BY <1>3, <1>4, <1>5, <1>6 DEF Shaped, Whole, Formed, Valid, Bound, Rules, OwnKeys

\* Breeding keeps the population whole.
LEMMA GenomeInductive == GenomeSpec => []GenomeInv
  <1>. USE GenomeAssumption
  <1>1. GenomeInit => GenomeInv
    BY FoundersWhole, LegacyAssumption DEF GenomeInit, GenomeInv, Whole
  <1>2. ASSUME GenomeInv, [GenomeNext]_genomeVars PROVE GenomeInv'
    <2>1. CASE Conceive
      <3>1. PICK a \in alive, b \in alive : \E child \in Crossings(a, b) : cand' \in Mutations(child)
        BY <2>1 DEF Conceive
      <3>2. Whole(cand')
        BY <1>2, <3>1, CrossingsWhole, MutationsWhole DEF GenomeInv
      <3>. QED BY <1>2, <2>1, <3>2 DEF Conceive, GenomeInv
    <2>2. CASE Diversify \/ Retry
      <3>1. Whole(cand')
        BY <1>2, <2>2, MutationsWhole, FoundersWhole DEF Diversify, Retry, GenomeInv
      <3>. QED BY <1>2, <2>2, <3>1 DEF Diversify, Retry, GenomeInv
    <2>3. CASE Accept \/ Replace
      BY <1>2, <2>3, FoundersWhole DEF Accept, Replace, GenomeInv
    <2>4. CASE Leave \/ UNCHANGED genomeVars
      BY <1>2, <2>4 DEF Leave, genomeVars, GenomeInv
    <2>. QED BY <1>2, <2>1, <2>2, <2>3, <2>4 DEF GenomeNext
  <1>. QED BY <1>1, <1>2, PTL DEF GenomeSpec

\* No sequence of crossovers and mutations ends the rollover with a schema error, or leaves a
\* rule over a feature nobody computes; whatever the periods, families and profiles.
THEOREM BreedingWhole == GenomeSpec => []CandidatesWhole
  <1>1. GenomeInv => CandidatesWhole
    BY DEF GenomeInv, Whole, CandidatesWhole
  <1>. QED BY <1>1, GenomeInductive, PTL

\* The families whose direction is decided on the market context alone.
Contextual == {"trend_following", "volatility", "market_structure", "hybrid"}

\* Where the family decides the direction, it looks at the market context alone.
Impartial(d) == d.mode = "auto" => d.family \in Contextual

\* Of the factory's families only volatility decides the direction.
LEMMA FactoryModes ==
  ASSUME GenomeAssumption, NEW family \in Family, NEW x \in Shapes(family), x.mode = "auto"
  PROVE  family = "volatility"
  <1>1. \A y \in Shapes(family) : family = "volatility" \/ y.mode = "both"
    BY GenomeAssumption
       DEF Shapes, Momentum, TrendFollowing, Breakout, MeanReversion, MarketStructure, Vwap,
           SessionVwap, Scalping, OrderFlow, Hybrid, Mirrored, Rule
  <1>. QED BY <1>1

LEMMA FoundersImpartial ==
  ASSUME GenomeAssumption, NEW d \in Founders
  PROVE  Impartial(d)
  <1>1. PICK f \in Family :
          \E r \in Shapes(f), cap \in Leverage, drawn \in Leverage : d = Founder(f, r, cap, drawn)
    BY DEF Founders
  <1>2. PICK r \in Shapes(f), cap \in Leverage, drawn \in Leverage : d = Founder(f, r, cap, drawn)
    BY <1>1
  <1>3. d.family = f /\ d.mode = r.mode
    BY <1>2 DEF Founder, Dna
  <1>. QED BY <1>3, FactoryModes DEF Impartial, Contextual

\* Family and mode come from one parent, and no mutation touches them.
LEMMA CrossingsImpartial ==
  ASSUME NEW a, NEW b, Whole(a), Whole(b), Impartial(a), Impartial(b), NEW x \in Crossings(a, b)
  PROVE  Impartial(x)
  <1>1. PICK e \in {a, b}, cap \in {a.cap, b.cap}, limit \in {a.limit, b.limit},
             stop \in {a.stop, b.stop}, reward \in {a.reward, b.reward}, dead \in {a.dead, b.dead} :
          x = [e EXCEPT !.cap = cap, !.limit = Least(cap, limit), !.stop = stop,
                        !.reward = reward, !.dead = dead]
    BY DEF Crossings
  <1>2. DOMAIN e = Fields /\ Impartial(e)
    BY <1>1 DEF Whole, Formed
  <1>3. x.family = e.family /\ x.mode = e.mode
    BY <1>1, <1>2 DEF Fields
  <1>. QED BY <1>2, <1>3 DEF Impartial

LEMMA MutationsImpartial ==
  ASSUME GenomeAssumption, NEW d, Whole(d), Impartial(d), NEW x \in Mutations(d)
  PROVE  Impartial(x)
  <1>1. PICK e \in {d} \cup Repacings(d), cap \in {d.cap} \cup Leverage : x = Recapped(e, cap)
    BY DEF Mutations
  <1>2. DOMAIN d = Fields
    BY DEF Whole, Formed
  <1>3. DOMAIN e = Fields /\ e.family = d.family /\ e.mode = d.mode
    <2>1. CASE e = d
      BY <1>2, <2>1
    <2>2. CASE e \in Repacings(d)
      <3>1. PICK i \in DOMAIN d.inds : \E q \in Drifts(d.inds[i].period) : e = Repaced(d, i, q)
        BY <2>2 DEF Repacings
      <3>2. PICK q : e = Repaced(d, i, q)
        BY <3>1
      <3>3. \/ e = d
            \/ e = [d EXCEPT !.inds[i] = Ind(d.inds[i].name, q),
                             !.entry = Renamed(@, d.inds[i], q), !.exit = Renamed(@, d.inds[i], q),
                             !.short = Renamed(@, d.inds[i], q),
                             !.shortExit = Renamed(@, d.inds[i], q)]
        BY <3>2 DEF Repaced
      <3>. QED BY <1>2, <3>3 DEF Fields
    <2>. QED BY <1>1, <2>1, <2>2
  <1>4. x.family = e.family /\ x.mode = e.mode
    BY <1>1, <1>3 DEF Recapped, Fields
  <1>. QED BY <1>3, <1>4 DEF Impartial

\* Where stored DNA leaves the direction to such a family, if at all, so does all that is bred.
LEMMA ImpartialInductive ==
  ASSUME \A d \in Legacy : Impartial(d)
  PROVE  GenomeSpec => [](GenomeInv /\ (\A d \in alive : Impartial(d)) /\ (cand # None => Impartial(cand)))
  <1>. DEFINE Inv == (\A d \in alive : Impartial(d)) /\ (cand # None => Impartial(cand))
  <1>1. GenomeInit => Inv
    BY GenomeAssumption, FoundersImpartial DEF GenomeInit
  <1>2. ASSUME GenomeInv, Inv, [GenomeNext]_genomeVars PROVE Inv'
    <2>1. CASE Conceive
      <3>1. PICK a \in alive, b \in alive : \E child \in Crossings(a, b) : cand' \in Mutations(child)
        BY <2>1 DEF Conceive
      <3>2. PICK child \in Crossings(a, b) : cand' \in Mutations(child)
        BY <3>1
      <3>3. Whole(a) /\ Whole(b) /\ Impartial(a) /\ Impartial(b)
        BY <1>2 DEF GenomeInv
      <3>4. Whole(child) /\ Impartial(child)
        BY <3>3, CrossingsWhole, CrossingsImpartial
      <3>5. Impartial(cand')
        BY <3>2, <3>4, GenomeAssumption, MutationsImpartial
      <3>. QED BY <1>2, <2>1, <3>5 DEF Conceive
    <2>2. CASE Diversify \/ Retry
      <3>1. Impartial(cand')
        BY <1>2, <2>2, GenomeAssumption, MutationsImpartial, FoundersImpartial
           DEF Diversify, Retry, GenomeInv
      <3>. QED BY <1>2, <2>2, <3>1 DEF Diversify, Retry
    <2>3. CASE Accept \/ Replace
      BY <1>2, <2>3, GenomeAssumption, FoundersImpartial DEF Accept, Replace
    <2>4. CASE Leave \/ UNCHANGED genomeVars
      BY <1>2, <2>4 DEF Leave, genomeVars
    <2>. QED BY <1>2, <2>1, <2>2, <2>3, <2>4 DEF GenomeNext
  <1>. QED BY <1>1, <1>2, GenomeInductive, PTL DEF GenomeSpec

\* evaluate_signal decides on the same features in the worker, with the whole population's
\* indicators at hand, and in a version's own backtest.  The hypothesis is of DNA stored before:
\* "auto" is the schema's default, and six families' directions look indicators up by stem; the
\* audit of the stored agents found it in the volatility family alone
\* (FORENSIC_AUDIT_REPORT.md:76).
THEOREM TradesAlike ==
  ASSUME \A d \in Legacy : Impartial(d)
  PROVE  GenomeSpec => []SameTrades
  <1>1. ASSUME GenomeInv, \A d \in alive : Impartial(d) PROVE SameTrades
    <2>1. ASSUME NEW d \in alive PROVE SignalReads(d, Live) = SignalReads(d, Replayed(d))
      <3>1. OwnKeys(d) \subseteq PopulationKeys
        BY DEF PopulationKeys
      <3>2. Rules(d) \subseteq Replayed(d) /\ Rules(d) \subseteq Live
        BY <1>1, <3>1 DEF GenomeInv, Whole, Bound, Replayed, Live
      <3>3. d.mode = "auto" => DirectionReads(d.family, Live) = DirectionReads(d.family, Replayed(d))
        BY <1>1 DEF Impartial, Contextual, DirectionReads
      <3>. QED BY <3>2, <3>3 DEF SignalReads
    <2>. QED BY <2>1 DEF SameTrades
  <1>. QED BY <1>1, ImpartialInductive, PTL
=============================================================================
