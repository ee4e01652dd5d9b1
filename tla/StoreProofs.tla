----------------------------- MODULE StoreProofs -----------------------------
(***************************************************************************)
(* The two tables every process of the worker shares.                       *)
(*                                                                         *)
(* The lease, for every set of workers and every TTL: type correctness,     *)
(* mutual exclusion of the local fence, order of the fencing tokens, and    *)
(* the refinement of FencedWriter.                                          *)
(*                                                                         *)
(* The candle store, for every number of bars, interval, grace period,      *)
(* early and stale limit, and whatever the polls leave out.                 *)
(***************************************************************************)
EXTENDS WorkerLease, MarketData, ExtremaLemmas

-----------------------------------------------------------------------------
(* The lease. *)


(* The inductive invariant.  A renewal in flight was requested no earlier  *)
(* than the last one that succeeded ... *)
CallOrdered(w) ==
  /\ renewed[w] <= now
  /\ call[w].step \in {"asked", "timed"} => call[w].epoch = 0
  /\ call[w].step \in {"asked", "timed", "won"} =>
       renewed[w] <= call[w].asked /\ call[w].asked <= now
  /\ call[w].step \in {"timed", "won"} =>
       call[w].asked <= call[w].clock /\ call[w].clock <= now

(* ... and for TTL after its request the row it wrote belongs to the       *)
(* worker, unexpired. *)
WonIsSafe(w) ==
  call[w].step = "won" /\ now <= call[w].asked + TTL =>
    /\ row.owner = w
    /\ call[w].asked + TTL <= row.expires
    /\ call[w].epoch # 0 => call[w].epoch = row.epoch

(* So is the row of a worker whose check_local passes ... *)
BeliefIsSafe(w) ==
  ActsAsHolder(w) =>
    row.owner = w /\ row.epoch = epoch[w] /\ renewed[w] + TTL <= row.expires

(* ... and a row that is share-locked, at whatever time it was. *)
LockIsSafe(w) ==
  /\ fence[w] # "open" => mode[w] = "running"
  /\ fence[w] = "locked" => row.owner = w /\ row.epoch = epoch[w]

(* A process calls only while it starts or runs. *)
CallIsLive(w) ==
  /\ call[w].step \in {"asked", "timed", "won", "refused"} =>
       mode[w] \in {"starting", "running"}
  /\ mode[w] = "starting" => call[w].step \in {"asked", "timed", "won", "refused"}

(* The last commit never carries a token above the row's, and one with the *)
(* row's token was made by the row's owner. *)
WrittenIsSafe ==
  /\ row.owner = NoWorker => row.epoch = 0
  /\ written.token <= row.epoch
  /\ written.token = row.epoch => written.by = row.owner

PerWorker(w) ==
  CallOrdered(w) /\ WonIsSafe(w) /\ BeliefIsSafe(w) /\ LockIsSafe(w) /\ CallIsLive(w)

IInv ==
  /\ TypeOK
  /\ \A w \in Worker : PerWorker(w)
  /\ WrittenIsSafe

-----------------------------------------------------------------------------
USE DEF Mode, Step, Call

(* The initial states satisfy the invariant. *)
LEMMA InitInvariant == Init => IInv
  BY LeaseAssumption
  DEF Init, IInv, PerWorker, TypeOK, CallOrdered, WonIsSafe, BeliefIsSafe, LockIsSafe,
      CallIsLive, WrittenIsSafe, ActsAsHolder, LocallyValid, NoCall

(* Every step preserves the types. *)
LEMMA TypePreserved == TypeOK /\ [Next]_vars => TypeOK'
  <1>. SUFFICES ASSUME TypeOK, [Next]_vars PROVE TypeOK'
    OBVIOUS
  <1>. USE LeaseAssumption DEF TypeOK
  <1>1. CASE Tick
    BY <1>1 DEF Tick
  <1>2. ASSUME NEW w \in Worker, Start(w) PROVE TypeOK'
    BY <1>2 DEF Start, NoCall
  <1>3. ASSUME NEW w \in Worker, Beat(w) PROVE TypeOK'
    BY <1>3 DEF Beat, NoCall
  <1>4. ASSUME NEW w \in Worker, ReadClock(w) PROVE TypeOK'
    BY <1>4 DEF ReadClock
  <1>5. ASSUME NEW w \in Worker, Insert(w) PROVE TypeOK'
    BY <1>5 DEF Insert
  <1>6. ASSUME NEW w \in Worker, Update(w) PROVE TypeOK'
    BY <1>6 DEF Update, MayTake, NextEpoch
  <1>7. ASSUME NEW w \in Worker, Refuse(w) PROVE TypeOK'
    BY <1>7 DEF Refuse
  <1>8. ASSUME NEW w \in Worker, Acquired(w) PROVE TypeOK'
    BY <1>8 DEF Acquired, NoCall, Answer, RenewedAt
  <1>9. ASSUME NEW w \in Worker, Renewed(w) PROVE TypeOK'
    BY <1>9 DEF Renewed, NoCall, Answer, RenewedAt
  <1>10. ASSUME NEW w \in Worker, Superseded(w) PROVE TypeOK'
    BY <1>10 DEF Superseded, NoCall, EndedCall
  <1>11. ASSUME NEW w \in Worker, BeatFails(w) PROVE TypeOK'
    <2>1. NoCall \in Call /\ EndedCall \in Call
      BY DEF NoCall, EndedCall
    <2>2. \/ lost' = [lost EXCEPT ![w] = TRUE] /\ call' = [call EXCEPT ![w] = EndedCall]
          \/ lost' = lost /\ call' = [call EXCEPT ![w] = NoCall]
      BY <1>11 DEF BeatFails
    <2>3. call' \in [Worker -> Call]
      BY <2>1, <2>2 DEF TypeOK
    <2>4. lost' \in [Worker -> BOOLEAN]
      BY <2>2
    <2> QED
      BY <1>11, <2>3, <2>4 DEF BeatFails
  <1>12. ASSUME NEW w \in Worker, CheckLocalFails(w) PROVE TypeOK'
    BY <1>12 DEF CheckLocalFails
  <1>13. ASSUME NEW w \in Worker, CheckDb(w) PROVE TypeOK'
    BY <1>13 DEF CheckDb
  <1>14. ASSUME NEW w \in Worker, Locks(w) PROVE TypeOK'
    BY <1>14 DEF Locks
  <1>15. ASSUME NEW w \in Worker, Fenced(w) PROVE TypeOK'
    BY <1>15 DEF Fenced
  <1>16. ASSUME NEW w \in Worker, Commit(w) PROVE TypeOK'
    BY <1>16 DEF Commit
  <1>17. ASSUME NEW w \in Worker, RollBack(w) PROVE TypeOK'
    BY <1>17 DEF RollBack
  <1>18. ASSUME NEW w \in Worker, Close(w) PROVE TypeOK'
    BY <1>18 DEF Close, NoCall, Released
  <1>19. ASSUME NEW w \in Worker, AlreadyActive(w) PROVE TypeOK'
    BY <1>19 DEF AlreadyActive, NoCall
  <1>20. ASSUME NEW w \in Worker, Crash(w) PROVE TypeOK'
    BY <1>20 DEF Crash, NoCall
  <1>21. CASE UNCHANGED vars
    BY <1>21 DEF vars
  <1>. QED
    BY <1>1, <1>2, <1>3, <1>4, <1>5, <1>6, <1>7, <1>8, <1>9, <1>10, <1>11,
       <1>12, <1>13, <1>14, <1>15, <1>16, <1>17, <1>18, <1>19, <1>20,
       <1>21 DEF Next

(* Every step preserves the invariant. *)
LEMMA StepInvariant == IInv /\ [Next]_vars => IInv'
  <1>. SUFFICES ASSUME IInv, [Next]_vars PROVE IInv'
    OBVIOUS
  <1>. USE LeaseAssumption
  <1>t. TypeOK /\ TypeOK'
    BY TypePreserved DEF IInv
  <1>1. CASE Tick
    <2>1. ASSUME NEW v \in Worker PROVE PerWorker(v)'
      BY <1>t, <1>1 DEF IInv, Tick, PerWorker, CallOrdered, WonIsSafe,
         BeliefIsSafe, LockIsSafe, CallIsLive, ActsAsHolder, LocallyValid,
         TypeOK
    <2>2. WrittenIsSafe'
      BY <1>t, <1>1 DEF IInv, Tick, WrittenIsSafe, PerWorker, LockIsSafe,
         TypeOK
    <2>. QED
      BY <1>t, <2>1, <2>2 DEF IInv
  <1>2. ASSUME NEW w \in Worker, Start(w) PROVE IInv'
    <2>1. ASSUME NEW v \in Worker PROVE PerWorker(v)'
      BY <1>t, <1>2 DEF IInv, Start, NoCall, PerWorker, CallOrdered,
         WonIsSafe, BeliefIsSafe, LockIsSafe, CallIsLive, ActsAsHolder,
         LocallyValid, TypeOK
    <2>2. WrittenIsSafe'
      BY <1>t, <1>2 DEF IInv, Start, NoCall, WrittenIsSafe, PerWorker,
         LockIsSafe, TypeOK
    <2>. QED
      BY <1>t, <2>1, <2>2 DEF IInv
  <1>3. ASSUME NEW w \in Worker, Beat(w) PROVE IInv'
    <2>1. ASSUME NEW v \in Worker PROVE PerWorker(v)'
      BY <1>t, <1>3 DEF IInv, Beat, NoCall, PerWorker, CallOrdered,
         WonIsSafe, BeliefIsSafe, LockIsSafe, CallIsLive, ActsAsHolder,
         LocallyValid, TypeOK
    <2>2. WrittenIsSafe'
      BY <1>t, <1>3 DEF IInv, Beat, NoCall, WrittenIsSafe, PerWorker,
         LockIsSafe, TypeOK
    <2>. QED
      BY <1>t, <2>1, <2>2 DEF IInv
  <1>4. ASSUME NEW w \in Worker, ReadClock(w) PROVE IInv'
    <2>1. ASSUME NEW v \in Worker PROVE PerWorker(v)'
      BY <1>t, <1>4 DEF IInv, ReadClock, PerWorker, CallOrdered, WonIsSafe,
         BeliefIsSafe, LockIsSafe, CallIsLive, ActsAsHolder, LocallyValid,
         TypeOK
    <2>2. WrittenIsSafe'
      BY <1>t, <1>4 DEF IInv, ReadClock, WrittenIsSafe, PerWorker,
         LockIsSafe, TypeOK
    <2>. QED
      BY <1>t, <2>1, <2>2 DEF IInv
  <1>5. ASSUME NEW w \in Worker, Insert(w) PROVE IInv'
    <2>1. ASSUME NEW v \in Worker PROVE PerWorker(v)'
      BY <1>t, <1>5 DEF IInv, Insert, PerWorker, CallOrdered, WonIsSafe,
         BeliefIsSafe, LockIsSafe, CallIsLive, ActsAsHolder, LocallyValid,
         TypeOK
    <2>2. WrittenIsSafe'
      BY <1>t, <1>5 DEF IInv, Insert, WrittenIsSafe, PerWorker, LockIsSafe,
         TypeOK
    <2>. QED
      BY <1>t, <2>1, <2>2 DEF IInv
  <1>6. ASSUME NEW w \in Worker, Update(w) PROVE IInv'
    <2>1. ASSUME NEW v \in Worker PROVE PerWorker(v)'
      <3>0. PerWorker(v) /\ PerWorker(w)
        BY DEF IInv
      <3>1. CallOrdered(v)' /\ CallIsLive(v)'
        BY <1>t, <1>6, <3>0 DEF Update, PerWorker, CallOrdered, CallIsLive, TypeOK
      <3>2. CASE v = w
        <4>1. WonIsSafe(v)' /\ LockIsSafe(v)'
          BY <1>t, <1>6, <3>0, <3>2
          DEF Update, PerWorker, CallOrdered, WonIsSafe, LockIsSafe, TypeOK
        <4>2. BeliefIsSafe(v)'
          BY <1>t, <1>6, <3>0, <3>2
          DEF Update, MayTake, NextEpoch, PerWorker, CallOrdered, BeliefIsSafe,
              ActsAsHolder, LocallyValid, TypeOK
        <4>. QED
          BY <3>1, <4>1, <4>2 DEF PerWorker
      <3>3. CASE v # w
        \* w's clock was read in the past: v's row is not expired by it.
        <4>1. fence[v] # "locked"
          BY <1>6 DEF Update
        <4>2. WonIsSafe(v)'
          BY <1>t, <1>6, <3>0, <3>3
          DEF Update, MayTake, NextEpoch, PerWorker, CallOrdered, WonIsSafe, TypeOK
        <4>3. BeliefIsSafe(v)'
          BY <1>t, <1>6, <3>0, <3>3
          DEF Update, MayTake, NextEpoch, PerWorker, CallOrdered, BeliefIsSafe,
              ActsAsHolder, LocallyValid, TypeOK
        <4>. QED
          BY <1>6, <3>0, <3>1, <4>1, <4>2, <4>3 DEF Update, PerWorker, LockIsSafe
      <3>. QED
        BY <3>2, <3>3
    <2>2. WrittenIsSafe'
      BY <1>t, <1>6 DEF IInv, Update, MayTake, NextEpoch, WrittenIsSafe,
         PerWorker, LockIsSafe, TypeOK
    <2>. QED
      BY <1>t, <2>1, <2>2 DEF IInv
  <1>7. ASSUME NEW w \in Worker, Refuse(w) PROVE IInv'
    <2>1. ASSUME NEW v \in Worker PROVE PerWorker(v)'
      BY <1>t, <1>7 DEF IInv, Refuse, MayTake, PerWorker, CallOrdered,
         WonIsSafe, BeliefIsSafe, LockIsSafe, CallIsLive, ActsAsHolder,
         LocallyValid, TypeOK
    <2>2. WrittenIsSafe'
      BY <1>t, <1>7 DEF IInv, Refuse, MayTake, WrittenIsSafe, PerWorker,
         LockIsSafe, TypeOK
    <2>. QED
      BY <1>t, <2>1, <2>2 DEF IInv
  <1>8. ASSUME NEW w \in Worker, Acquired(w) PROVE IInv'
    <2>1. ASSUME NEW v \in Worker PROVE PerWorker(v)'
      BY <1>t, <1>8 DEF IInv, Acquired, NoCall, Answer, RenewedAt,
         PerWorker, CallOrdered, WonIsSafe, BeliefIsSafe, LockIsSafe,
         CallIsLive, ActsAsHolder, LocallyValid, TypeOK
    <2>2. WrittenIsSafe'
      BY <1>t, <1>8 DEF IInv, Acquired, NoCall, Answer, RenewedAt,
         WrittenIsSafe, PerWorker, LockIsSafe, TypeOK
    <2>. QED
      BY <1>t, <2>1, <2>2 DEF IInv
  <1>9. ASSUME NEW w \in Worker, Renewed(w) PROVE IInv'
    <2>1. ASSUME NEW v \in Worker PROVE PerWorker(v)'
      BY <1>t, <1>9 DEF IInv, Renewed, NoCall, Answer, RenewedAt, PerWorker,
         CallOrdered, WonIsSafe, BeliefIsSafe, LockIsSafe, CallIsLive,
         ActsAsHolder, LocallyValid, TypeOK
    <2>2. WrittenIsSafe'
      BY <1>t, <1>9 DEF IInv, Renewed, NoCall, Answer, RenewedAt,
         WrittenIsSafe, PerWorker, LockIsSafe, TypeOK
    <2>. QED
      BY <1>t, <2>1, <2>2 DEF IInv
  <1>10. ASSUME NEW w \in Worker, Superseded(w) PROVE IInv'
    <2>1. ASSUME NEW v \in Worker PROVE PerWorker(v)'
      BY <1>t, <1>10 DEF IInv, Superseded, NoCall, EndedCall, Answer,
         PerWorker, CallOrdered, WonIsSafe, BeliefIsSafe, LockIsSafe,
         CallIsLive, ActsAsHolder, LocallyValid, TypeOK
    <2>2. WrittenIsSafe'
      BY <1>t, <1>10 DEF IInv, Superseded, NoCall, EndedCall, Answer,
         WrittenIsSafe, PerWorker, LockIsSafe, TypeOK
    <2>. QED
      BY <1>t, <2>1, <2>2 DEF IInv
  <1>11. ASSUME NEW w \in Worker, BeatFails(w) PROVE IInv'
    <2>0. \/ lost' = [lost EXCEPT ![w] = TRUE] /\ call' = [call EXCEPT ![w] = EndedCall]
          \/ lost' = lost /\ call' = [call EXCEPT ![w] = NoCall]
      BY <1>11 DEF BeatFails
    <2>1. ASSUME NEW v \in Worker PROVE PerWorker(v)'
      <3>1. call'[v].step \in {"idle", "ended"} \/ call'[v] = call[v]
        BY <1>t, <2>0 DEF EndedCall, NoCall, TypeOK
      <3>2. lost'[v] \/ lost'[v] = lost[v]
        BY <1>t, <2>0 DEF TypeOK
      <3>3. mode[w] = "running"
        BY <1>11 DEF BeatFails
      <3>4. mode[v] = "starting" => call'[v] = call[v]
        BY <1>t, <2>0, <3>3 DEF TypeOK
      <3>5. UNCHANGED <<now, row, mode, epoch, renewed, fence>>
        BY <1>11 DEF BeatFails
      <3>. QED
        BY <1>t, <3>1, <3>2, <3>4, <3>5
        DEF IInv, PerWorker, CallOrdered, WonIsSafe, BeliefIsSafe, LockIsSafe,
            CallIsLive, ActsAsHolder, LocallyValid, TypeOK
    <2>2. WrittenIsSafe'
      BY <1>t, <1>11 DEF IInv, BeatFails, NoCall, EndedCall, WrittenIsSafe,
         PerWorker, LockIsSafe, TypeOK
    <2>. QED
      BY <1>t, <2>1, <2>2 DEF IInv
  <1>12. ASSUME NEW w \in Worker, CheckLocalFails(w) PROVE IInv'
    <2>1. ASSUME NEW v \in Worker PROVE PerWorker(v)'
      BY <1>t, <1>12 DEF IInv, CheckLocalFails, PerWorker, CallOrdered,
         WonIsSafe, BeliefIsSafe, LockIsSafe, CallIsLive, ActsAsHolder,
         LocallyValid, TypeOK
    <2>2. WrittenIsSafe'
      BY <1>t, <1>12 DEF IInv, CheckLocalFails, WrittenIsSafe, PerWorker,
         LockIsSafe, TypeOK
    <2>. QED
      BY <1>t, <2>1, <2>2 DEF IInv
  <1>13. ASSUME NEW w \in Worker, CheckDb(w) PROVE IInv'
    <2>1. ASSUME NEW v \in Worker PROVE PerWorker(v)'
      BY <1>t, <1>13 DEF IInv, CheckDb, PerWorker, CallOrdered,
         WonIsSafe, BeliefIsSafe, LockIsSafe, CallIsLive, ActsAsHolder,
         LocallyValid, TypeOK
    <2>2. WrittenIsSafe'
      BY <1>t, <1>13 DEF IInv, CheckDb, WrittenIsSafe,
         PerWorker, LockIsSafe, TypeOK
    <2>. QED
      BY <1>t, <2>1, <2>2 DEF IInv
  <1>14. ASSUME NEW w \in Worker, Locks(w) PROVE IInv'
    <2>1. ASSUME NEW v \in Worker PROVE PerWorker(v)'
      BY <1>t, <1>14 DEF IInv, Locks, RowConfirms, PerWorker, CallOrdered,
         WonIsSafe, BeliefIsSafe, LockIsSafe, CallIsLive, ActsAsHolder,
         LocallyValid, TypeOK
    <2>2. WrittenIsSafe'
      BY <1>t, <1>14 DEF IInv, Locks, RowConfirms, WrittenIsSafe,
         PerWorker, LockIsSafe, TypeOK
    <2>. QED
      BY <1>t, <2>1, <2>2 DEF IInv
  <1>15. ASSUME NEW w \in Worker, Fenced(w) PROVE IInv'
    <2>1. ASSUME NEW v \in Worker PROVE PerWorker(v)'
      BY <1>t, <1>15 DEF IInv, Fenced, RowConfirms, PerWorker,
         CallOrdered, WonIsSafe, BeliefIsSafe, LockIsSafe, CallIsLive,
         ActsAsHolder, LocallyValid, TypeOK
    <2>2. WrittenIsSafe'
      BY <1>t, <1>15 DEF IInv, Fenced, RowConfirms, WrittenIsSafe,
         PerWorker, LockIsSafe, TypeOK
    <2>. QED
      BY <1>t, <2>1, <2>2 DEF IInv
  <1>16. ASSUME NEW w \in Worker, Commit(w) PROVE IInv'
    <2>1. ASSUME NEW v \in Worker PROVE PerWorker(v)'
      BY <1>t, <1>16 DEF IInv, Commit, PerWorker, CallOrdered, WonIsSafe,
         BeliefIsSafe, LockIsSafe, CallIsLive, ActsAsHolder, LocallyValid,
         TypeOK
    <2>2. WrittenIsSafe'
      BY <1>t, <1>16 DEF IInv, Commit, WrittenIsSafe, PerWorker, LockIsSafe,
         TypeOK
    <2>. QED
      BY <1>t, <2>1, <2>2 DEF IInv
  <1>17. ASSUME NEW w \in Worker, RollBack(w) PROVE IInv'
    <2>1. ASSUME NEW v \in Worker PROVE PerWorker(v)'
      BY <1>t, <1>17 DEF IInv, RollBack, PerWorker, CallOrdered, WonIsSafe,
         BeliefIsSafe, LockIsSafe, CallIsLive, ActsAsHolder, LocallyValid,
         TypeOK
    <2>2. WrittenIsSafe'
      BY <1>t, <1>17 DEF IInv, RollBack, WrittenIsSafe, PerWorker,
         LockIsSafe, TypeOK
    <2>. QED
      BY <1>t, <2>1, <2>2 DEF IInv
  <1>18. ASSUME NEW w \in Worker, Close(w) PROVE IInv'
    <2>1. ASSUME NEW v \in Worker PROVE PerWorker(v)'
      BY <1>t, <1>18 DEF IInv, Close, NoCall, Released, PerWorker,
         CallOrdered, WonIsSafe, BeliefIsSafe, LockIsSafe, CallIsLive,
         ActsAsHolder, LocallyValid, TypeOK
    <2>2. WrittenIsSafe'
      BY <1>t, <1>18 DEF IInv, Close, NoCall, Released, WrittenIsSafe,
         PerWorker, LockIsSafe, TypeOK
    <2>. QED
      BY <1>t, <2>1, <2>2 DEF IInv
  <1>19. ASSUME NEW w \in Worker, AlreadyActive(w) PROVE IInv'
    <2>1. ASSUME NEW v \in Worker PROVE PerWorker(v)'
      BY <1>t, <1>19 DEF IInv, AlreadyActive, NoCall, PerWorker,
         CallOrdered, WonIsSafe, BeliefIsSafe, LockIsSafe, CallIsLive,
         ActsAsHolder, LocallyValid, TypeOK
    <2>2. WrittenIsSafe'
      BY <1>t, <1>19 DEF IInv, AlreadyActive, NoCall, WrittenIsSafe,
         PerWorker, LockIsSafe, TypeOK
    <2>. QED
      BY <1>t, <2>1, <2>2 DEF IInv
  <1>20. ASSUME NEW w \in Worker, Crash(w) PROVE IInv'
    <2>1. ASSUME NEW v \in Worker PROVE PerWorker(v)'
      BY <1>t, <1>20 DEF IInv, Crash, NoCall, PerWorker, CallOrdered,
         WonIsSafe, BeliefIsSafe, LockIsSafe, CallIsLive, ActsAsHolder,
         LocallyValid, TypeOK
    <2>2. WrittenIsSafe'
      BY <1>t, <1>20 DEF IInv, Crash, NoCall, WrittenIsSafe, PerWorker,
         LockIsSafe, TypeOK
    <2>. QED
      BY <1>t, <2>1, <2>2 DEF IInv
  <1>21. CASE UNCHANGED vars
    <2>1. ASSUME NEW v \in Worker PROVE PerWorker(v)'
      BY <1>t, <1>21 DEF IInv, vars, PerWorker, CallOrdered, WonIsSafe,
         BeliefIsSafe, LockIsSafe, CallIsLive, ActsAsHolder, LocallyValid,
         TypeOK
    <2>2. WrittenIsSafe'
      BY <1>t, <1>21 DEF IInv, vars, WrittenIsSafe, PerWorker, LockIsSafe,
         TypeOK
    <2>. QED
      BY <1>t, <2>1, <2>2 DEF IInv
  <1>. QED
    BY <1>1, <1>2, <1>3, <1>4, <1>5, <1>6, <1>7, <1>8, <1>9, <1>10, <1>11,
       <1>12, <1>13, <1>14, <1>15, <1>16, <1>17, <1>18, <1>19, <1>20,
       <1>21 DEF Next

-----------------------------------------------------------------------------
(* The inductive invariant holds in every reachable state. *)
LEMMA Invariance == Spec => []IInv
  <1>. QED
    BY InitInvariant, StepInvariant, PTL DEF Spec

(* The variables keep their types: the lease row, every LeaseKeeper and    *)
(* every call in flight. *)
THEOREM TypeCorrect == Spec => []TypeOK
  <1>1. IInv => TypeOK
    BY DEF IInv
  <1>. QED
    BY <1>1, Invariance, PTL

(* check_local is never wrong: a process that passes it is the row's owner *)
(* at the row's epoch. *)
THEOREM LocalFenceIsSound == Spec => []LocalFenceSound
  <1>1. IInv => LocalFenceSound
    BY DEF IInv, PerWorker, BeliefIsSafe, LocalFenceSound
  <1>. QED
    BY <1>1, Invariance, PTL

(* Two workers never both pass check_local. *)
THEOREM MutualExclusion == Spec => []OneHolder
  <1>1. IInv => OneHolder
    BY DEF IInv, PerWorker, BeliefIsSafe, OneHolder
  <1>. QED
    BY <1>1, Invariance, PTL

-----------------------------------------------------------------------------
(* Every step of the lease is a step of the abstract writer, or stutters. *)
LEMMA RefinementStep == IInv /\ [Next]_vars => [FW!Next]_FW!vars
  <1>. SUFFICES ASSUME IInv, [Next]_vars PROVE [FW!Next]_FW!vars
    OBVIOUS
  <1>. USE LeaseAssumption
  <1>t. TypeOK
    BY DEF IInv
  <1>1. ASSUME NEW w \in Worker, Insert(w) PROVE FW!Grant(w)
    BY <1>t, <1>1 DEF Insert, FW!Grant, IInv, WrittenIsSafe, TypeOK
  <1>2. ASSUME NEW w \in Worker, Update(w) PROVE FW!Grant(w) \/ UNCHANGED FW!vars
    <2>1. CASE row.owner = w
      BY <1>t, <1>2, <2>1 DEF Update, NextEpoch, FW!vars, TypeOK
    <2>2. CASE row.owner # w
      BY <1>t, <1>2, <2>2 DEF Update, NextEpoch, FW!Grant, TypeOK
    <2>. QED
      BY <2>1, <2>2
  <1>3. ASSUME NEW w \in Worker, Commit(w) PROVE FW!Write(w)
    BY <1>t, <1>3 DEF Commit, FW!Write, IInv, PerWorker, LockIsSafe, TypeOK
  <1>4. ASSUME NEW w \in Worker, Close(w) PROVE UNCHANGED FW!vars
    BY <1>t, <1>4 DEF Close, Released, FW!vars, TypeOK
  <1>5. CASE UNCHANGED <<row, written>>
    BY <1>5 DEF FW!vars
  <1>6. \/ UNCHANGED <<row, written>>
        \/ \E w \in Worker : Insert(w) \/ Update(w) \/ Commit(w) \/ Close(w)
    BY DEF Next, vars, Tick, Start, Beat, ReadClock, Refuse, Acquired, Renewed,
           Superseded, BeatFails, CheckLocalFails, CheckDb, Locks, Fenced,
           RollBack, AlreadyActive, Crash
  <1>. QED
    BY <1>1, <1>2, <1>3, <1>4, <1>5, <1>6 DEF FW!Next

(* The lease implements the single fenced writer: tokens grow with every   *)
(* change of ownership, and only the owner writes, under its own token. *)
THEOREM LeaseImplementsFencedWriter == Spec => FencedWriterSpec
  <1>1. Init => FW!Init
    BY DEF Init, FW!Init, FW!NoWrite
  <1>. QED
    BY <1>1, Invariance, RefinementStep, PTL DEF Spec, FencedWriterSpec, FW!Spec

(* Committed fencing tokens never go back, and one token is one worker. *)
THEOREM FencingTokensOrdered == Spec => TokensOrdered
  <1>1. IInv /\ [Next]_vars =>
          [\/ written'.token > written.token
           \/ written'.token = written.token /\ written'.by = written.by]_written
    <2>. SUFFICES ASSUME IInv, Next, written' # written
         PROVE \/ written'.token > written.token
               \/ written'.token = written.token /\ written'.by = written.by
      BY DEF vars
    <2>1. PICK w \in Worker : Commit(w)
      BY DEF Next, Tick, Start, Beat, ReadClock, Insert, Update, Refuse, Acquired,
             Renewed, Superseded, BeatFails, CheckLocalFails, CheckDb, Locks,
             Fenced, RollBack, Close, AlreadyActive, Crash
    <2>2. row.owner = w /\ row.epoch = epoch[w]
      BY <2>1 DEF Commit, IInv, PerWorker, LockIsSafe
    <2>3. written'.token = epoch[w] /\ written'.by = w
      BY <2>1 DEF Commit
    <2>4. /\ written.token <= row.epoch
          /\ written.token = row.epoch => written.by = row.owner
          /\ written.token \in Nat /\ row.epoch \in Nat
      BY DEF IInv, WrittenIsSafe, TypeOK
    <2>. QED
      BY <2>2, <2>3, <2>4
  <1>. QED
    BY <1>1, Invariance, PTL DEF Spec, TokensOrdered

-----------------------------------------------------------------------------
(* The candle store.                                                        *)
(*                                                                         *)
(* What the exchange shows of a confirmed bar is the whole of it (Clock),   *)
(* so a REST answer judged by the clock before its request is, too          *)
(* (RestAnswer).  Of the stream it holds while no frame is lost, early or late: *)
(* the ingestor's last frame is then at most one frame behind the last one  *)
(* that reached us (InOrder), and the bar it seals is one it saw the end of. *)


\* The types of the state.
Rows == [part : 0..2, final : BOOLEAN]

MarketTypeOK ==
  /\ utc \in Int /\ settled \in 0..MaxBar /\ store \in [Bar -> Rows]
  /\ halt \in BOOLEAN /\ lapse \in BOOLEAN
  /\ sent \in Frame \cup {NoFrame} /\ frame \in Frame \cup {NoFrame}
  /\ latest \in Frame \cup {NoFrame} /\ wspc \in {"recv", "seal", "store"}
  /\ checked \in Int /\ basis \in [Bar -> {basis[b] : b \in Bar}]

\* A confirmed bar is settled.
Clock == \A b \in Bar : IsConfirmed(b, utc) => b <= settled

\* A poll is judged by a clock that is past; its confirmed rows are whole.
RestAnswer ==
  /\ pc \in {"sync", "poll"} => asked \in Int /\ asked <= utc
  /\ rows # <<>> =>
       /\ pc \in {"sync", "poll"}
       /\ \A b \in Bar \cap DOMAIN rows :
            rows[b] \in 1..2 /\ (IsConfirmed(b, asked) => rows[b] = 2)

\* A delivery has a frame, and the bar to seal is one.
Delivery ==
  /\ wspc # "recv" => frame \in Frame
  /\ wspc = "seal" => latest \in Frame

\* Without a lapse the frame in delivery is the last one sent, the ingestor's last frame is
\* that one or the last of an earlier bar, and no confirmed bar's end was missed.
InOrder ==
  /\ wspc # "recv" => frame = sent
  /\ latest # NoFrame =>
       /\ sent # NoFrame /\ latest.bar <= sent.bar
       /\ latest.bar < sent.bar => latest.part = 2
       /\ wspc # "store" /\ latest.bar = sent.bar => latest = sent
  /\ wspc = "seal" => latest.bar < sent.bar
  /\ sent # NoFrame => \A b \in Bar : IsConfirmed(b, utc) => Rank(sent) >= 2 * b + 2

\* ConfirmedWhole without its premise.
Whole == \A b \in Final : store[b].part = 2

\* Without a halt there is no hole up to where the gaps were looked for; at the flag, the
\* report says so first.
Looked ==
  /\ 1 \in Final
  /\ pc # "flag" /\ ~halt => \A b \in Bar : b <= checked => b \in Final
  /\ pc = "flag" /\ missing = {} => \A b \in Bar : b <= checked => b \in Final

Ambient == MarketTypeOK /\ Clock /\ RestAnswer /\ Delivery
\* The inductive invariant.
MarketInv == Ambient /\ DecidedOnStored /\ Looked /\ (lapse \/ (InOrder /\ Whole))

\* What an upsert may do to the rows.
Extends(s) ==
  /\ s \in [Bar -> Rows]
  /\ \A b \in Final : s[b] = store[b]

\* A confirmed bar is kept, and another is confirmed only with the upserted part.
LEMMA Upserted ==
  ASSUME store \in [Bar -> Rows], NEW r, NEW at \in Int, Upsert(r, at),
         \A b \in Bar \cap DOMAIN r : r[b] \in 0..2
  PROVE  /\ Extends(store')
         /\ \A b \in Bar : store'[b].final /\ ~store[b].final =>
                             b \in DOMAIN r /\ IsConfirmed(b, at) /\ store'[b].part = r[b]
  <1>. DEFINE bar(b) == IF b \in DOMAIN r /\ ~store[b].final
                        THEN [part |-> r[b], final |-> IsConfirmed(b, at)] ELSE store[b]
  <1>1. store' = [b \in Bar |-> bar(b)]
    BY DEF Upsert
  <1>2. \A b \in Bar : bar(b) \in Rows
    BY DEF Rows, IsConfirmed
  <1>3. \A b \in Bar : store'[b] = bar(b)
    BY <1>1
  <1>4. store' \in [Bar -> Rows]
    BY <1>1, <1>2
  <1>5. \A b \in Final : store'[b] = store[b]
    BY <1>3 DEF Final
  <1>. QED BY <1>3, <1>4, <1>5 DEF Extends

\* What the proofs need of opening, closing and confirmation times.
LEMMA Times ==
  ASSUME NEW b \in Bar, NEW s \in Int, NEW t \in Int, s <= t
  PROVE  /\ Opens(b) \in Int /\ Closes(b) \in Int
         /\ IsConfirmed(b, s) => IsConfirmed(b, t)
         /\ IsConfirmed(b, t + 1) => Opens(b) <= t
         /\ IsConfirmed(b, Closes(b) + Grace)
  <1>. DEFINE n == b * Interval
  <1>1. Interval \in Nat /\ Interval > 0 /\ Grace \in Nat /\ Grace > 0 /\ b \in Int
    BY MarketAssumption DEF Bar
  <1>2. n \in Int /\ (b - 1) * Interval = n - Interval
    BY <1>1
  <1>3. Opens(b) = n - Interval /\ Closes(b) = n - 1
    BY <1>2 DEF Opens, Closes
  <1>. HIDE DEF n
  <1>. QED BY <1>1, <1>2, <1>3 DEF IsConfirmed

\* The first and the last bar of a set.
LEMMA Ends ==
  ASSUME NEW S \in SUBSET Bar, S # {}
  PROVE  /\ Least(S) \in S /\ \A x \in S : Least(S) <= x
         /\ Greatest(S) \in S /\ \A x \in S : x <= Greatest(S)
  <1>1. S \in SUBSET Nat /\ S \in SUBSET Int /\ MaxBar \in Int /\ \A x \in S : x <= MaxBar
    BY MarketAssumption DEF Bar
  <1>2. \E m \in S : \A x \in S : m <= x
    BY <1>1, MinExists
  <1>3. \E m \in S : \A x \in S : x <= m
    BY <1>1, MaxExists
  <1>. QED BY <1>2, <1>3 DEF Least, Greatest

\* Confirmed rows stay, so what a decision was based on does.
LEMMA Grown ==
  ASSUME MarketInv, Extends(store')
  PROVE  /\ Final \subseteq Final'
         /\ (\A b \in Bar : basis[b] # 0 => store'[b] = [part |-> basis[b], final |-> TRUE])
  <1>1. Final \subseteq Final'
    BY DEF Extends, Final
  <1>2. ASSUME NEW b \in Bar, basis[b] # 0 PROVE store'[b] = [part |-> basis[b], final |-> TRUE]
    <2>1. store[b] = [part |-> basis[b], final |-> TRUE]
      BY <1>2 DEF MarketInv, DecidedOnStored
    <2>2. b \in Final
      BY <2>1 DEF Final
    <2>. QED BY <2>1, <2>2 DEF Extends
  <1>. QED BY <1>1, <1>2
\* Frames are ranked by bar, then by part.
LEMMA Frames ==
  /\ \A f \in Frame : f.bar \in Bar /\ f.part \in 1..2 /\ f # NoFrame /\ f.bar \in Int /\ f.bar > 0
                      /\ Rank(f) = 2 * f.bar + f.part
  /\ \A f, g \in Frame : f.bar = g.bar /\ f.part = g.part => f = g
  <1>1. \A f \in Frame : f.bar \in Bar /\ f.part \in 1..2
    BY DEF Frame
  <1>2. \A f \in Frame : f.bar \in Int /\ f.bar > 0
    BY <1>1, MarketAssumption DEF Bar
  <1>3. \A f \in Frame : f # NoFrame
    BY <1>2 DEF NoFrame
  <1>4. \A f, g \in Frame : f.bar = g.bar /\ f.part = g.part => f = g
    BY DEF Frame
  <1>. QED BY <1>1, <1>2, <1>3, <1>4 DEF Rank

\* Only bars are confirmed.
LEMMA FinalBars == Final \subseteq Bar
  BY DEF Final

\* The bar the ingestor seals is whole, or a frame was lost, early or late.
LEMMA SealWhole ==
  ASSUME MarketInv, Seal
  PROVE  Extends(store') /\ (~lapse => Whole')
  <1>. DEFINE r == [b \in {latest.bar} |-> latest.part]
              at == Closes(latest.bar) + Grace
  <1>1. latest \in Frame /\ latest.bar \in Bar /\ latest.part \in 0..2 /\ DOMAIN r = {latest.bar}
        /\ latest # NoFrame
    BY Frames DEF MarketInv, Ambient, Delivery, Seal
  <1>2. at \in Int /\ r[latest.bar] = latest.part
    BY <1>1, Times, MarketAssumption
  <1>3. Upsert(r, at) /\ store \in [Bar -> Rows]
    BY DEF Seal, MarketInv, Ambient, MarketTypeOK
  <1>. HIDE DEF r, at
  <1>4. /\ Extends(store')
        /\ \A b \in Bar : store'[b].final /\ ~store[b].final => b \in DOMAIN r /\ store'[b].part = r[b]
    BY <1>1, <1>2, <1>3, Upserted
  <1>5. ASSUME ~lapse, NEW b \in Final' PROVE store'[b].part = 2
    <2>1. InOrder /\ Whole
      BY <1>5 DEF MarketInv
    <2>2. latest.part = 2
      BY <1>1, <2>1 DEF InOrder, Seal
    <2>. QED BY <1>1, <1>2, <1>4, <1>5, <2>1, <2>2 DEF Whole, Final, Extends
  <1>. QED BY <1>4, <1>5 DEF Whole

\* A frame that is confirmed when it is stored is its bar's last, or one was late.
LEMMA StoreWhole ==
  ASSUME MarketInv, StoreFrame
  PROVE  Extends(store') /\ (~lapse => Whole')
  <1>. DEFINE r == [b \in {frame.bar} |-> frame.part]
  <1>1. frame \in Frame /\ frame.bar \in Bar /\ frame.part \in 0..2 /\ DOMAIN r = {frame.bar}
        /\ r[frame.bar] = frame.part /\ utc \in Int
    BY Frames DEF MarketInv, Ambient, Delivery, StoreFrame, MarketTypeOK
  <1>2. Upsert(r, utc) /\ store \in [Bar -> Rows]
    BY DEF StoreFrame, MarketInv, Ambient, MarketTypeOK
  <1>. HIDE DEF r
  <1>3. /\ Extends(store')
        /\ \A b \in Bar : store'[b].final /\ ~store[b].final =>
                            b \in DOMAIN r /\ IsConfirmed(b, utc) /\ store'[b].part = r[b]
    BY <1>1, <1>2, Upserted
  <1>4. ASSUME ~lapse, NEW b \in Final' PROVE store'[b].part = 2
    <2>1. InOrder /\ Whole
      BY <1>4 DEF MarketInv
    <2>2. CASE b \in Final
      BY <1>3, <2>1, <2>2 DEF Whole, Extends
    <2>3. CASE b \notin Final
      <3>1. b = frame.bar /\ IsConfirmed(b, utc) /\ store'[b].part = frame.part
        BY <1>1, <1>3, <1>4, <2>3 DEF Final
      <3>2. frame = sent /\ sent # NoFrame
        BY <1>1, <2>1, Frames DEF InOrder, StoreFrame
      <3>3. Rank(frame) >= 2 * b + 2
        BY <1>1, <2>1, <3>1, <3>2 DEF InOrder
      <3>4. Rank(frame) = 2 * b + frame.part /\ frame.part \in 1..2 /\ b \in Int
        BY <1>1, <3>1, Frames
      <3>. QED BY <3>1, <3>3, <3>4
    <2>. QED BY <2>2, <2>3
  <1>. QED BY <1>3, <1>4 DEF Whole

\* Rows shown by the exchange: the confirmed ones are whole.
LEMMA ShownWhole ==
  ASSUME MarketInv, NEW at \in Int, NEW r, Upsert(r, at),
         \A b \in Bar \cap DOMAIN r : r[b] \in 1..2 /\ (IsConfirmed(b, at) => r[b] = 2)
  PROVE  Extends(store') /\ (~lapse => Whole')
  <1>1. store \in [Bar -> Rows] /\ \A b \in Bar \cap DOMAIN r : r[b] \in 0..2
    BY DEF MarketInv, Ambient, MarketTypeOK
  <1>2. /\ Extends(store')
        /\ \A b \in Bar : store'[b].final /\ ~store[b].final =>
                            b \in DOMAIN r /\ IsConfirmed(b, at) /\ store'[b].part = r[b]
    BY <1>1, Upserted
  <1>3. ASSUME ~lapse, NEW b \in Final' PROVE store'[b].part = 2
    <2>1. Whole
      BY <1>3 DEF MarketInv
    <2>2. CASE b \in Final
      BY <1>2, <2>1, <2>2 DEF Whole, Extends
    <2>3. CASE b \notin Final
      BY <1>2, <1>3, <2>3 DEF Final
    <2>. QED BY <2>2, <2>3
  <1>. QED BY <1>2, <1>3 DEF Whole

\* The exchange shows a confirmed bar whole.
LEMMA Exhibited ==
  ASSUME MarketInv, NEW b \in Bar
  PROVE  Shown(b) \in 1..2 /\ (IsConfirmed(b, utc) => Shown(b) = 2)
  BY DEF MarketInv, Ambient, Clock, Shown

\* A step of the tick.
LEMMA TickStep ==
  ASSUME MarketInv, UNCHANGED <<exchange, stream>>, Extends(store'), ~lapse => Whole', halt' \in BOOLEAN,
         checked' \in Int, basis' \in [Bar -> {basis'[b] : b \in Bar}],
         RestAnswer', Looked', DecidedOnStored'
  PROVE  MarketInv'
  <1>1. UNCHANGED <<utc, settled, sent, lapse, frame, wspc, latest>>
    BY DEF exchange, stream
  <1>2. MarketTypeOK' /\ Clock' /\ Delivery'
    BY <1>1 DEF MarketInv, Ambient, MarketTypeOK, Clock, Delivery, Extends, IsConfirmed, Closes
  <1>3. (lapse \/ (InOrder /\ Whole))'
    BY <1>1 DEF MarketInv, InOrder, Rank, IsConfirmed, Closes
  <1>. QED BY <1>2, <1>3 DEF MarketInv, Ambient

\* A step of the stream.
LEMMA StreamStep ==
  ASSUME MarketInv, UNCHANGED <<utc, settled, halt, tick, worked>>, Extends(store'), lapse' \in BOOLEAN,
         sent' \in Frame \cup {NoFrame}, frame' \in Frame \cup {NoFrame},
         latest' \in Frame \cup {NoFrame}, wspc' \in {"recv", "seal", "store"}, Delivery',
         ~lapse' => ~lapse /\ Whole' /\ InOrder'
  PROVE  MarketInv'
  <1>1. UNCHANGED <<utc, settled, halt, pc, asked, rows, missing, checked, basis>>
    BY DEF tick, worked
  <1>2. MarketTypeOK' /\ Clock' /\ RestAnswer'
    BY <1>1 DEF MarketInv, Ambient, MarketTypeOK, Clock, RestAnswer, Extends, IsConfirmed, Closes
  <1>3. DecidedOnStored' /\ Final \subseteq Final'
    BY <1>1, Grown DEF DecidedOnStored
  <1>4. Looked'
    BY <1>1, <1>3 DEF MarketInv, Looked
  <1>. QED BY <1>2, <1>3, <1>4 DEF MarketInv, Ambient

\* A step that stores nothing.
LEMMA Unfilled ==
  ASSUME MarketInv, UNCHANGED store
  PROVE  Extends(store') /\ (~lapse => Whole')
  BY DEF MarketInv, Ambient, MarketTypeOK, Extends, Whole, Final

\* Seal keeps the invariant.
LEMMA SealStep ==
  ASSUME MarketInv, Seal
  PROVE  MarketInv'
  <1>1. Extends(store') /\ (~lapse => Whole')
    BY SealWhole
  <1>2. /\ wspc = "seal" /\ wspc' = "store" /\ latest' = frame /\ frame \in Frame /\ latest \in Frame
        /\ UNCHANGED <<frame, sent, lapse, utc, settled, halt, tick, worked>>
    BY DEF Seal, exchange, MarketInv, Ambient, Delivery
  <1>3. Delivery'
    BY <1>2 DEF Delivery
  <1>4. ASSUME ~lapse PROVE InOrder'
    <2>1. InOrder
      BY <1>4 DEF MarketInv
    <2>2. frame = sent /\ sent # NoFrame
      BY <1>2, <2>1, Frames DEF InOrder
    <2>3. frame.bar \in Int
      BY <1>2, Frames
    <2>. QED BY <1>2, <2>1, <2>2, <2>3 DEF InOrder, Rank, IsConfirmed, Closes
  <1>. QED BY <1>1, <1>2, <1>3, <1>4, StreamStep DEF MarketInv, Ambient, MarketTypeOK

\* StoreFrame keeps the invariant.
LEMMA StoreStep ==
  ASSUME MarketInv, StoreFrame
  PROVE  MarketInv'
  <1>1. Extends(store') /\ (~lapse => Whole')
    BY StoreWhole
  <1>2. /\ wspc = "store" /\ wspc' = "recv" /\ frame' = NoFrame /\ frame \in Frame
        /\ latest' = IF latest = NoFrame \/ frame.bar >= latest.bar THEN frame ELSE latest
        /\ UNCHANGED <<sent, lapse, utc, settled, halt, tick, worked>>
    BY DEF StoreFrame, exchange, MarketInv, Ambient, Delivery
  <1>3. Delivery'
    BY <1>2 DEF Delivery
  <1>4. ASSUME ~lapse PROVE InOrder'
    <2>1. InOrder
      BY <1>4 DEF MarketInv
    <2>2. frame = sent /\ sent # NoFrame
      BY <1>2, <2>1, Frames DEF InOrder
    <2>3. frame.bar \in Int
      BY <1>2, Frames
    <2>4. latest' = sent
      BY <1>2, <2>1, <2>2, <2>3, Frames DEF InOrder, MarketInv, Ambient, MarketTypeOK
    <2>. QED BY <1>2, <2>1, <2>2, <2>3, <2>4 DEF InOrder, Rank, IsConfirmed, Closes
  <1>. QED BY <1>1, <1>2, <1>3, <1>4, StreamStep DEF MarketInv, Ambient, MarketTypeOK

\* FrameFails keeps the invariant: before the seal the last frame is still the one of the
\* bar to seal.
LEMMA FrameFailsStep ==
  ASSUME MarketInv, FrameFails
  PROVE  MarketInv'
  <1>1. Extends(store') /\ (~lapse => Whole')
    BY Unfilled DEF FrameFails
  <1>2. /\ wspc \in {"seal", "store"} /\ wspc' = "recv" /\ frame' = NoFrame /\ frame \in Frame
        /\ latest' = IF wspc = "store" /\ (latest = NoFrame \/ frame.bar >= latest.bar)
                     THEN frame ELSE latest
        /\ UNCHANGED <<sent, lapse, utc, settled, halt, tick, worked>>
    BY DEF FrameFails, exchange, MarketInv, Ambient, Delivery
  <1>3. Delivery'
    BY <1>2 DEF Delivery
  <1>4. ASSUME ~lapse PROVE InOrder'
    <2>1. InOrder
      BY <1>4 DEF MarketInv
    <2>2. frame = sent /\ sent # NoFrame
      BY <1>2, <2>1, Frames DEF InOrder
    <2>3. frame.bar \in Int
      BY <1>2, Frames
    <2>4. CASE wspc = "store"
      <3>1. latest' = sent
        BY <1>2, <2>1, <2>2, <2>3, <2>4, Frames DEF InOrder, MarketInv, Ambient, MarketTypeOK
      <3>. QED BY <1>2, <2>1, <2>2, <2>3, <3>1 DEF InOrder, Rank, IsConfirmed, Closes
    <2>5. CASE wspc = "seal"
      <3>1. latest' = latest
        BY <1>2, <2>5
      <3>. QED BY <1>2, <2>1, <2>2, <2>5, <3>1 DEF InOrder, Rank, IsConfirmed, Closes
    <2>. QED BY <1>2, <2>4, <2>5
  <1>. QED BY <1>1, <1>2, <1>3, <1>4, StreamStep DEF MarketInv, Ambient, MarketTypeOK

\* ReceiveEarly keeps the invariant.
LEMMA EarlyStep ==
  ASSUME MarketInv, ReceiveEarly
  PROVE  MarketInv'
  <1>1. PICK b \in Bar \ Opened : Starts([bar |-> b, part |-> 1]) /\ lapse' = TRUE /\ UNCHANGED sent
    BY DEF ReceiveEarly
  <1>. DEFINE f == [bar |-> b, part |-> 1]
  <1>2. f \in Frame
    BY DEF Frame
  <1>. HIDE DEF f
  <1>3. /\ frame' = f /\ wspc' = IF latest # NoFrame /\ f.bar > latest.bar THEN "seal" ELSE "store"
        /\ UNCHANGED <<latest, utc, settled, store, halt, tick, worked>>
    BY <1>1 DEF Starts, f
  <1>4. Delivery'
    BY <1>2, <1>3 DEF Delivery, MarketInv, Ambient, MarketTypeOK
  <1>. QED BY <1>1, <1>2, <1>3, <1>4, Unfilled, StreamStep DEF MarketInv, Ambient, MarketTypeOK

\* Receive keeps the invariant: the frame is the last one again or the next one.
LEMMA ReceiveStep ==
  ASSUME MarketInv, Receive
  PROVE  MarketInv'
  <1>1. PICK f \in Streamed :
          /\ Rank(f) >= Rank(sent) /\ Starts(f) /\ sent' = f
          /\ lapse' = (lapse \/ IF sent = NoFrame THEN IsLate(f) ELSE Rank(f) > Rank(sent) + 1)
    BY DEF Receive
  <1>2. f \in Frame
    BY DEF Streamed
  <1>3. /\ wspc = "recv" /\ frame' = f
        /\ wspc' = IF latest # NoFrame /\ f.bar > latest.bar THEN "seal" ELSE "store"
        /\ UNCHANGED <<latest, utc, settled, store, halt, tick, worked>>
    BY <1>1 DEF Starts
  <1>4. Delivery'
    BY <1>2, <1>3 DEF Delivery, MarketInv, Ambient, MarketTypeOK
  <1>5. ASSUME ~lapse' PROVE ~lapse /\ InOrder'
    <2>1. ~lapse /\ InOrder
      BY <1>1, <1>5 DEF MarketInv
    <2>2. ASSUME NEW b \in Bar, IsConfirmed(b, utc) PROVE Rank(f) >= 2 * b + 2
      <3>1. Rank([bar |-> b, part |-> 2]) = 2 * b + 2 /\ b \in Int
        BY DEF Rank, Bar
      <3>2. CASE sent = NoFrame
        <4>1. ~ (Rank(f) < 2 * b + 2)
          BY <1>1, <1>5, <2>2, <3>1, <3>2 DEF IsLate
        <4>. QED BY <1>2, <3>1, <4>1, Frames
      <3>3. CASE sent # NoFrame
        <4>1. Rank(sent) >= 2 * b + 2 /\ sent \in Frame
          BY <2>1, <2>2, <3>3 DEF InOrder, MarketInv, Ambient, MarketTypeOK
        <4>. QED BY <1>1, <1>2, <3>1, <4>1, Frames
      <3>. QED BY <3>2, <3>3
    <2>3. ASSUME latest # NoFrame
          PROVE  /\ latest.bar <= f.bar
                 /\ latest.bar < f.bar => latest.part = 2
      <3>0. latest \in Frame /\ sent \in Frame /\ sent # NoFrame
        BY <2>1, <2>3 DEF InOrder, MarketInv, Ambient, MarketTypeOK
      <3>2. /\ latest.bar \in Int /\ sent.bar \in Int /\ f.bar \in Int
            /\ latest.part \in 1..2 /\ sent.part \in 1..2 /\ f.part \in 1..2
            /\ Rank(sent) = 2 * sent.bar + sent.part /\ Rank(f) = 2 * f.bar + f.part
        BY <1>2, <3>0, Frames
      <3>1. Rank(sent) <= Rank(f) /\ Rank(f) <= Rank(sent) + 1
        <4>1. Rank(sent) \in Int /\ Rank(f) \in Int
          BY <3>2
        <4>2. ~ (Rank(f) > Rank(sent) + 1)
          BY <1>1, <1>5, <3>0
        <4>3. Rank(f) >= Rank(sent)
          BY <1>1
        <4>. HIDE DEF Rank
        <4>. QED BY <4>1, <4>2, <4>3
      <3>3. sent.bar <= f.bar /\ (sent.bar < f.bar => sent.part = 2)
        BY <3>1, <3>2
      <3>4. /\ latest.bar <= sent.bar /\ (latest.bar < sent.bar => latest.part = 2)
            /\ latest.bar = sent.bar => latest = sent
        BY <1>3, <2>1, <2>3 DEF InOrder
      <3>. QED BY <3>2, <3>3, <3>4
    <2>4. latest # NoFrame => latest.bar \in Int /\ f.bar \in Int
      BY <1>2, Frames DEF MarketInv, Ambient, MarketTypeOK
    <2>. QED BY <1>1, <1>2, <1>3, <2>1, <2>2, <2>3, <2>4, Frames DEF InOrder, IsConfirmed, Closes
  <1>6. lapse' \in BOOLEAN
    BY <1>1 DEF MarketInv, Ambient, MarketTypeOK, IsLate
  <1>. QED BY <1>1, <1>2, <1>3, <1>4, <1>5, <1>6, Unfilled, StreamStep DEF MarketInv, Ambient, MarketTypeOK

\* Settle keeps the invariant.
LEMMA SettleStep ==
  ASSUME MarketInv, Settle
  PROVE  MarketInv'
  <1>1. /\ settled \in 0..MaxBar /\ settled < MaxBar /\ settled' = settled + 1 /\ MaxBar \in Int
        /\ UNCHANGED <<utc, sent, lapse, store, halt, frame, wspc, latest, pc, asked, rows, missing,
                       checked, basis>>
    BY MarketAssumption DEF Settle, stream, tick, worked, MarketInv, Ambient, MarketTypeOK
  <1>2. settled' \in 0..MaxBar /\ \A b \in Bar : b <= settled => b <= settled'
    BY <1>1 DEF Bar
  <1>3. MarketTypeOK'
    BY <1>1, <1>2 DEF MarketInv, Ambient, MarketTypeOK
  <1>4. Clock'
    BY <1>1, <1>2 DEF MarketInv, Ambient, Clock, IsConfirmed, Closes
  <1>5. RestAnswer' /\ Delivery'
    BY <1>1 DEF MarketInv, Ambient, RestAnswer, Delivery, IsConfirmed, Closes
  <1>6. DecidedOnStored' /\ Looked'
    BY <1>1 DEF MarketInv, DecidedOnStored, Looked, Final
  <1>7. (lapse \/ (InOrder /\ Whole))'
    BY <1>1 DEF MarketInv, InOrder, Whole, Final, IsConfirmed, Closes, Rank
  <1>. QED BY <1>3, <1>4, <1>5, <1>6, <1>7 DEF MarketInv, Ambient

\* ClockTicks keeps the invariant: a bar that gets confirmed has been sent whole, or that is
\* a lapse.
LEMMA ClockStep ==
  ASSUME MarketInv, ClockTicks
  PROVE  MarketInv'
  <1>1. /\ utc \in Int /\ utc' = utc + 1
        /\ \A b \in Bar : IsConfirmed(b, utc + 1) => b <= settled
        /\ lapse' = (lapse \/ wspc # "recv" \/ (sent # NoFrame /\ \E f \in Streamed : Rank(f) > Rank(sent)))
        /\ UNCHANGED <<settled, sent, store, halt, frame, wspc, latest, pc, asked, rows, missing,
                       checked, basis>>
    BY DEF ClockTicks, stream, tick, worked, MarketInv, Ambient, MarketTypeOK
  <1>2. MarketTypeOK'
    BY <1>1 DEF MarketInv, Ambient, MarketTypeOK
  <1>3. Clock'
    BY <1>1 DEF Clock, IsConfirmed, Closes
  <1>4. RestAnswer' /\ Delivery'
    <2>1. Delivery'
      BY <1>1 DEF MarketInv, Ambient, Delivery
    <2>2. pc \in {"sync", "poll"} => asked \in Int /\ asked <= utc + 1
      BY <1>1 DEF MarketInv, Ambient, RestAnswer
    <2>. QED BY <1>1, <2>1, <2>2 DEF MarketInv, Ambient, RestAnswer, IsConfirmed, Closes
  <1>5. DecidedOnStored' /\ Looked'
    BY <1>1 DEF MarketInv, DecidedOnStored, Looked, Final
  <1>6. ASSUME ~lapse' PROVE InOrder' /\ Whole'
    <2>1. ~lapse /\ wspc = "recv" /\ InOrder /\ Whole
      BY <1>1, <1>6 DEF MarketInv
    <2>2. ASSUME sent # NoFrame, NEW b \in Bar, IsConfirmed(b, utc + 1)
          PROVE  Rank(sent) >= 2 * b + 2
      <3>. DEFINE f == [bar |-> b, part |-> 2]
      <3>1. f \in Frame /\ Rank(f) = 2 * b + 2 /\ b \in Int
        BY DEF Frame, Rank, Bar
      <3>2. Opens(b) <= utc
        BY <1>1, <2>2, Times
      <3>3. b <= settled /\ settled \in Int
        BY <1>1, <2>2 DEF MarketInv, Ambient, MarketTypeOK
      <3>4. f \in Streamed
        BY <3>1, <3>2, <3>3 DEF Streamed, Opened, Shown
      <3>5. ~ (Rank(f) > Rank(sent))
        BY <1>1, <1>6, <2>2, <3>4
      <3>6. Rank(sent) \in Int
        <4>1. sent \in Frame
          BY <2>2 DEF MarketInv, Ambient, MarketTypeOK
        <4>2. sent.bar \in Int /\ sent.part \in Int /\ Rank(sent) = 2 * sent.bar + sent.part
          BY <4>1, Frames
        <4>. QED BY <4>2
      <3>. QED BY <3>1, <3>5, <3>6
    <2>3. Whole'
      BY <1>1, <2>1 DEF Whole, Final
    <2>4. \A b \in Bar : IsConfirmed(b, utc)' = IsConfirmed(b, utc + 1)
      BY <1>1 DEF IsConfirmed, Closes
    <2>. QED BY <1>1, <2>1, <2>2, <2>3, <2>4 DEF InOrder, Rank
  <1>. QED BY <1>2, <1>3, <1>4, <1>5, <1>6 DEF MarketInv, Ambient

\* Steps of the tick that store nothing.
LEMMA Quiet ==
  ASSUME MarketInv, UNCHANGED <<exchange, stream, store, halt, checked>>, RestAnswer', DecidedOnStored',
         basis' \in [Bar -> {basis'[b] : b \in Bar}],
         pc' \in {"sync", "poll", "idle", "gaps", "wait", "compute", "decide", "validate"},
         pc # "flag"
  PROVE  MarketInv'
  <1>1. Extends(store') /\ (~lapse => Whole')
    BY Unfilled
  <1>2. Looked'
    BY DEF MarketInv, Looked, Final
  <1>. QED BY <1>1, <1>2, TickStep DEF MarketInv, Ambient, MarketTypeOK

\* The steps of the tick that neither store nor look for gaps keep the invariant.
LEMMA TicksStep ==
  ASSUME MarketInv, Ask \/ RestAnswers \/ Unanswered \/ Plan \/ Compute \/ Decide
  PROVE  MarketInv'
  <1>1. /\ UNCHANGED <<exchange, stream, store, halt, checked>> /\ pc # "flag"
        /\ pc' \in {"sync", "poll", "idle", "gaps", "wait", "compute", "decide"}
    BY DEF Ask, RestAnswers, Unanswered, Plan, Compute, Decide, Goto
  <1>2. RestAnswer'
    <2>0. UNCHANGED <<utc, settled>> /\ utc \in Int
      BY <1>1 DEF exchange, MarketInv, Ambient, MarketTypeOK
    <2>1. CASE Ask
      BY <2>0, <2>1 DEF Ask, Goto, RestAnswer, MarketInv, Ambient, IsConfirmed, Closes
    <2>2. CASE RestAnswers
      <3>1. PICK S \in SUBSET Opened : rows' = [b \in S |-> Shown(b)]
        BY <2>2 DEF RestAnswers
      <3>2. /\ pc' = pc /\ pc \in {"sync", "poll"} /\ asked' = asked /\ asked \in Int
            /\ asked <= utc
        BY <2>2 DEF RestAnswers, MarketInv, Ambient, RestAnswer
      <3>3. ASSUME NEW b \in Bar, b \in S
            PROVE  Shown(b) \in 1..2 /\ (IsConfirmed(b, asked) => Shown(b) = 2)
        BY <2>0, <3>2, Exhibited, Times
      <3>. QED BY <2>0, <3>1, <3>2, <3>3 DEF RestAnswer, IsConfirmed, Closes
    <2>3. CASE Unanswered
      BY <2>0, <2>3 DEF Unanswered, Goto, RestAnswer
    <2>4. CASE Plan \/ Compute \/ Decide
      BY <2>0, <2>4 DEF Plan, Compute, Decide, Goto, RestAnswer, MarketInv, Ambient, IsConfirmed, Closes
    <2>. QED BY <2>1, <2>2, <2>3, <2>4
  <1>3. DecidedOnStored'
    <2>1. CASE UNCHANGED basis
      BY <1>1, <2>1 DEF MarketInv, DecidedOnStored
    <2>2. CASE Decide
      <3>1. /\ Verified(Least(todo), seen) /\ basis' = [basis EXCEPT ![Least(todo)] = seen]
            /\ store' = store
        BY <2>2 DEF Decide
      <3>2. ASSUME NEW b \in Bar, basis'[b] # 0
            PROVE  store[b] = [part |-> basis'[b], final |-> TRUE]
        <4>1. store[b] \in Rows /\ (basis[b] # 0 => store[b] = [part |-> basis[b], final |-> TRUE])
          BY DEF MarketInv, Ambient, MarketTypeOK, DecidedOnStored
        <4>2. CASE b # Least(todo)
          <5>1. basis'[b] = basis[b]
            BY <3>1, <4>2 DEF MarketInv, Ambient, MarketTypeOK
          <5>. QED BY <3>2, <4>1, <5>1
        <4>3. CASE b = Least(todo)
          <5>1. basis'[b] = seen
            BY <3>1, <4>3 DEF MarketInv, Ambient, MarketTypeOK
          <5>. QED BY <3>1, <4>1, <4>3, <5>1 DEF Verified, Rows
        <4>. QED BY <4>2, <4>3
      <3>. QED BY <3>1, <3>2 DEF DecidedOnStored
    <2>. QED BY <2>1, <2>2 DEF Ask, RestAnswers, Unanswered, Plan, Compute, worked
  <1>4. basis' \in [Bar -> {basis'[b] : b \in Bar}]
    <2>1. basis' = basis \/ basis' = [basis EXCEPT ![Least(todo)] = seen]
      BY DEF Ask, RestAnswers, Unanswered, Plan, Compute, Decide, worked
    <2>. QED BY <2>1 DEF MarketInv, Ambient, MarketTypeOK
  <1>. QED BY <1>1, <1>2, <1>3, <1>4, Quiet

\* Install and Backfill keep the invariant.
LEMMA FillStep ==
  ASSUME MarketInv, Install \/ Backfill
  PROVE  MarketInv'
  <1>2. Extends(store') /\ (~lapse => Whole')
    <2>1. CASE Install
      <3>1. /\ Upsert(rows, asked) /\ asked \in Int
            /\ \A b \in Bar \cap DOMAIN rows :
                 rows[b] \in 1..2 /\ (IsConfirmed(b, asked) => rows[b] = 2)
        BY <2>1 DEF Install, MarketInv, Ambient, RestAnswer
      <3>. QED BY <3>1, ShownWhole
    <2>2. CASE Backfill
      <3>1. PICK S \in SUBSET Gaps : Upsert([b \in S |-> Shown(b)], utc)
        BY <2>2 DEF Backfill
      <3>2. \A b \in Bar : b \in S => Shown(b) \in 1..2 /\ (IsConfirmed(b, utc) => Shown(b) = 2)
        BY Exhibited
      <3>. DEFINE r == [b \in S |-> Shown(b)]
      <3>3. \A b \in Bar \cap DOMAIN r : r[b] \in 1..2 /\ (IsConfirmed(b, utc) => r[b] = 2)
        BY <3>2
      <3>4. Upsert(r, utc) /\ utc \in Int
        BY <3>1 DEF MarketInv, Ambient, MarketTypeOK
      <3>. HIDE DEF r
      <3>. QED BY <3>3, <3>4, ShownWhole
    <2>. QED BY <2>1, <2>2
  <1>3. /\ UNCHANGED <<exchange, stream, halt, checked, basis>> /\ pc # "flag" /\ pc' # "flag"
        /\ rows' = <<>> /\ pc' \notin {"sync", "poll"}
    BY DEF Install, Backfill, Goto, worked, MarketInv, Ambient, RestAnswer
  <1>4. RestAnswer'
    BY <1>3 DEF RestAnswer
  <1>5. Final \subseteq Final' /\ DecidedOnStored'
    BY <1>2, <1>3, Grown DEF DecidedOnStored
  <1>6. Looked'
    BY <1>3, <1>5 DEF MarketInv, Looked
  <1>. QED BY <1>2, <1>3, <1>4, <1>5, <1>6, TickStep DEF MarketInv, Ambient, MarketTypeOK

\* Validate keeps the invariant: bar 1 is confirmed, so no hole begins before the first
\* confirmed bar.
LEMMA ValidateStep ==
  ASSUME MarketInv, Validate
  PROVE  MarketInv'
  <1>1. Extends(store') /\ (~lapse => Whole')
    BY Unfilled DEF Validate
  <1>2. /\ UNCHANGED <<exchange, stream, store, halt, basis, rows>> /\ pc' = "flag" /\ missing' = Gaps
        /\ checked' = Greatest(Final) /\ pc \notin {"sync", "poll"}
    BY DEF Validate, Goto, worked
  <1>3. Final \subseteq Bar /\ 1 \in Final
    BY FinalBars DEF MarketInv, Looked
  <1>4. Greatest(Final) \in Int /\ Least(Final) <= 1 /\ Least(Final) \in Int
    <2>1. Greatest(Final) \in Final /\ Least(Final) \in Final /\ Least(Final) <= 1
      BY <1>3, Ends
    <2>2. \A x \in Bar : x \in Int
      BY DEF Bar
    <2>3. Greatest(Final) \in Bar /\ Least(Final) \in Bar
      BY <1>3, <2>1
    <2>. QED BY <2>1, <2>2, <2>3
  <1>5. RestAnswer'
    BY <1>2 DEF RestAnswer, MarketInv, Ambient
  <1>6. ASSUME Gaps = {}, NEW b \in Bar, b <= checked' PROVE b \in Final
    <2>1. b \in Least(Final)..Greatest(Final)
      BY <1>2, <1>4, <1>6 DEF Bar
    <2>. QED BY <1>6, <2>1 DEF Gaps
  <1>7. Looked'
    BY <1>2, <1>3, <1>6 DEF Looked, Final
  <1>8. DecidedOnStored'
    BY <1>2 DEF MarketInv, DecidedOnStored
  <1>. QED BY <1>1, <1>2, <1>4, <1>5, <1>7, <1>8, TickStep DEF MarketInv, Ambient, MarketTypeOK

\* SetFlag keeps the invariant.
LEMMA FlagStep ==
  ASSUME MarketInv, SetFlag
  PROVE  MarketInv'
  <1>1. Extends(store') /\ (~lapse => Whole')
    BY Unfilled DEF SetFlag
  <1>2. /\ UNCHANGED <<exchange, stream, store, checked, basis, rows>> /\ pc = "flag" /\ pc' = "wait"
        /\ halt' = (missing # {})
    BY DEF SetFlag, Flag, Goto, worked
  <1>3. RestAnswer' /\ Looked' /\ DecidedOnStored'
    BY <1>2 DEF RestAnswer, MarketInv, Ambient, Looked, Final, DecidedOnStored
  <1>. QED BY <1>1, <1>2, <1>3, TickStep DEF MarketInv, Ambient, MarketTypeOK

\* Fails keeps the invariant.
LEMMA FailsStep ==
  ASSUME MarketInv, Fails
  PROVE  MarketInv'
  <1>1. Extends(store') /\ (~lapse => Whole')
    BY Unfilled DEF Fails
  <1>2. /\ UNCHANGED <<exchange, stream, store, halt, basis, rows>> /\ pc' = "idle" /\ checked' = 0
        /\ pc \notin {"sync", "poll"}
    BY DEF Fails, Goto, worked
  <1>3. RestAnswer' /\ Looked' /\ DecidedOnStored'
    BY <1>2, MarketAssumption DEF RestAnswer, MarketInv, Ambient, Looked, Final, DecidedOnStored, Bar
  <1>. QED BY <1>1, <1>2, <1>3, TickStep DEF MarketInv, Ambient, MarketTypeOK

\* Restart keeps the invariant.
LEMMA RestartStep ==
  ASSUME MarketInv, Restart
  PROVE  MarketInv'
  <1>1. /\ UNCHANGED <<utc, settled, sent, lapse, store, halt, basis>> /\ pc' = "idle" /\ checked' = 0
        /\ rows' = <<>> /\ frame' = NoFrame /\ wspc' = "recv" /\ latest' = NoFrame
    BY DEF Restart, Goto, worked, exchange
  <1>2. MarketTypeOK' /\ RestAnswer' /\ Delivery'
    BY <1>1 DEF MarketInv, Ambient, MarketTypeOK, RestAnswer, Delivery
  <1>3. Clock'
    BY <1>1 DEF MarketInv, Ambient, Clock, IsConfirmed, Closes
  <1>4. Looked' /\ DecidedOnStored'
    BY <1>1, MarketAssumption DEF MarketInv, Looked, Final, DecidedOnStored, Bar
  <1>5. (lapse \/ (InOrder /\ Whole))'
    BY <1>1 DEF MarketInv, InOrder, Whole, Final, Rank, IsConfirmed, Closes
  <1>. QED BY <1>2, <1>3, <1>4, <1>5 DEF MarketInv, Ambient

\* The initial state satisfies the invariant.
LEMMA Initial == MarketInit => MarketInv
  <1>. SUFFICES ASSUME MarketInit PROVE MarketInv
    OBVIOUS
  <1>1. /\ Warm \in Bar /\ Warm \in Int /\ MaxBar \in Int /\ Interval \in Int /\ Interval > 0 /\ Grace \in Int
        /\ 1 \in Bar /\ 1 <= Warm /\ Warm <= MaxBar
    BY MarketAssumption DEF Bar
  <1>2. MarketTypeOK
    <2>1. Closes(Warm) \in Int /\ utc = Closes(Warm) + Grace
      BY <1>1, Times DEF MarketInit
    <2>2. store \in [Bar -> Rows]
      BY DEF MarketInit, Rows, NoRow
    <2>3. basis = [b \in Bar |-> 0]
      BY DEF MarketInit
    <2>4. basis \in [Bar -> {basis[b] : b \in Bar}]
      BY <2>3
    <2>5. settled \in 0..MaxBar
      BY <1>1 DEF MarketInit
    <2>6. utc \in Int
      BY <1>1, <2>1
    <2>7. /\ sent = NoFrame /\ frame = NoFrame /\ latest = NoFrame /\ wspc = "recv" /\ checked = 0
      BY DEF MarketInit
    <2>8. halt \in BOOLEAN /\ lapse \in BOOLEAN
      BY Zenon DEF MarketInit
    <2>9. /\ sent \in Frame \cup {NoFrame} /\ frame \in Frame \cup {NoFrame}
          /\ latest \in Frame \cup {NoFrame}
      BY <2>7
    <2>. QED BY <2>2, <2>4, <2>5, <2>6, <2>7, <2>8, <2>9 DEF MarketTypeOK
  <1>3. ASSUME NEW b \in Bar, IsConfirmed(b, utc) PROVE b <= Warm
    <2>1. b * Interval - 1 + Grace <= Warm * Interval - 1 + Grace
      BY <1>3 DEF IsConfirmed, Closes, MarketInit
    <2>2. b \in Int
      BY DEF Bar
    <2>3. SUFFICES ASSUME b >= Warm + 1 PROVE FALSE
      BY <1>1, <2>2
    <2>4. PICK d \in Int : d >= 1 /\ b = Warm + d
      <3>1. b - Warm \in Int /\ b - Warm >= 1 /\ b = Warm + (b - Warm)
        BY <1>1, <2>2, <2>3
      <3>. QED BY <3>1
    <2>5. b * Interval = Warm * Interval + d * Interval /\ d * Interval >= Interval
      BY <1>1, <2>4
    <2>6. Warm * Interval \in Int /\ d * Interval \in Int
      BY <1>1, <2>4
    <2>. QED BY <1>1, <2>1, <2>5, <2>6
  <1>4. Clock
    BY <1>3 DEF Clock, MarketInit
  <1>5. RestAnswer /\ Delivery
    BY DEF MarketInit, RestAnswer, Delivery
  <1>6. DecidedOnStored
    BY DEF MarketInit, DecidedOnStored
  <1>7. 1 \in Final /\ \A b \in Final : store[b].part = 2
    BY <1>1 DEF MarketInit, Final, NoRow
  <1>8. Looked
    BY <1>7, <1>1 DEF MarketInit, Looked, Bar
  <1>9. InOrder
    BY DEF MarketInit, InOrder
  <1>. QED BY <1>2, <1>4, <1>5, <1>6, <1>7, <1>8, <1>9 DEF MarketInv, Ambient, Whole

\* Every reachable state satisfies the invariant.
LEMMA Inductive == MarketSpec => []MarketInv
  <1>1. MarketInit => MarketInv
    BY Initial
  <1>2. MarketInv /\ [MarketNext]_marketVars => MarketInv'
    <2>. SUFFICES ASSUME MarketInv, [MarketNext]_marketVars PROVE MarketInv'
      OBVIOUS
    <2>1. CASE UNCHANGED marketVars
      <3>1. UNCHANGED <<utc, settled, sent, lapse, store, halt, basis, pc, checked, rows, asked, missing,
                        frame, wspc, latest>>
        BY <2>1 DEF marketVars, exchange, stream, tick, worked
      <3>2. Ambient'
        BY <3>1 DEF MarketInv, Ambient, MarketTypeOK, RestAnswer, Delivery, Clock, IsConfirmed, Closes
      <3>3. DecidedOnStored' /\ Looked'
        BY <3>1 DEF MarketInv, DecidedOnStored, Looked, Final
      <3>4. (lapse \/ (InOrder /\ Whole))'
        BY <3>1 DEF MarketInv, InOrder, Whole, Final, Rank, IsConfirmed, Closes
      <3>. QED BY <3>2, <3>3, <3>4 DEF MarketInv
    <2>2. CASE Settle \/ ClockTicks
      BY <2>2, SettleStep, ClockStep
    <2>3. CASE Receive \/ ReceiveEarly \/ Seal \/ StoreFrame \/ FrameFails
      BY <2>3, ReceiveStep, EarlyStep, SealStep, StoreStep, FrameFailsStep
    <2>4. CASE Ask \/ RestAnswers \/ Unanswered \/ Plan \/ Compute \/ Decide
      BY <2>4, TicksStep
    <2>5. CASE Install \/ Backfill \/ Validate \/ SetFlag \/ Fails \/ Restart
      BY <2>5, FillStep, ValidateStep, FlagStep, FailsStep, RestartStep
    <2>. QED BY <2>1, <2>2, <2>3, <2>4, <2>5 DEF MarketNext
  <1>. QED BY <1>1, <1>2, PTL DEF MarketSpec

\* A confirmed bar is the whole bar, however polls, frames, retries and restarts interleave,
\* as long as no frame of the stream is lost, late or early (market_data_service.py:
\* upsert_candles).
THEOREM ConfirmedBarsWhole == MarketSpec => []ConfirmedWhole
  <1>1. MarketInv => ConfirmedWhole
    BY DEF MarketInv, Whole, ConfirmedWhole
  <1>. QED BY <1>1, Inductive, PTL

\* What a decision was made on is what the store says of that bar ever after.
THEOREM DecisionsOnTheStore == MarketSpec => []DecidedOnStored
  <1>1. MarketInv => DecidedOnStored
    BY DEF MarketInv
  <1>. QED BY <1>1, Inductive, PTL

\* New entries are never made over a hole in the bars recover_gaps looked at, through
\* backfills that fail, restarts and late frames.
THEOREM NoEntryOverAGap == MarketSpec => NoEntryThroughKnownGap
  <1>1. MarketInv /\ [MarketNext]_marketVars => [entered' # entered => \A b \in Gaps : b > checked]_entered
    <2>. SUFFICES ASSUME MarketInv, [MarketNext]_marketVars, entered' # entered, NEW b \in Gaps
                  PROVE  b > checked
      OBVIOUS
    <2>1. Decide /\ ~halt
      BY DEF MarketNext, marketVars, worked, Settle, ClockTicks, Receive, ReceiveEarly, Starts, Seal,
             StoreFrame, FrameFails, Ask, RestAnswers, Install, Unanswered, Backfill, Validate, SetFlag,
             Plan, Compute, Decide, Fails, Restart
    <2>2. pc # "flag" /\ \A c \in Bar : c <= checked => c \in Final
      BY <2>1 DEF Decide, MarketInv, Looked
    <2>3. b \in Bar /\ b \notin Final
      <3>1. Least(Final) \in Bar /\ Greatest(Final) \in Bar
        BY FinalBars, Ends DEF MarketInv, Looked
      <3>. QED BY <3>1, MarketAssumption DEF Gaps, Bar
    <2>. QED BY <2>2, <2>3 DEF MarketInv, Ambient, MarketTypeOK, Bar
  <1>. QED BY <1>1, Inductive, PTL DEF MarketSpec, NoEntryThroughKnownGap
==============================================================================
