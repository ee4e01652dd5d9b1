----------------------------- MODULE WorkerLease -----------------------------
(***************************************************************************)
(* The durable single-worker lease: one database row, LeaseKeeper objects *)
(* of several worker processes, their heartbeats, the local self-fence    *)
(* and the fenced commit.                                                 *)
(*                                                                         *)
(* A process is one owner id: new_owner_id() is drawn at every start, so a *)
(* worker that stopped never comes back, another one starts.  `now' stands *)
(* for the database's clock (lease expiry) and for every process's         *)
(* monotonic clock (its age since the last renewal): they are assumed to   *)
(* advance at the same rate; a process may stall between any two steps.    *)
(***************************************************************************)
EXTENDS Integers

CONSTANTS Worker,    \* owner ids, one per process start
          NoWorker,  \* owner of the row before the first INSERT
          TTL,       \* worker_lease_ttl_seconds
          MaxTime    \* bound on the clock (model only)

ASSUME LeaseAssumption ==
  /\ NoWorker \notin Worker
  /\ TTL \in Nat \ {0}
  /\ MaxTime \in Nat

VARIABLES now,      \* the clock
          row,      \* the WorkerLease row: owner_id, epoch, expires_at
          mode,     \* life of each process
          epoch,    \* LeaseKeeper.epoch (0 is None)
          renewed,  \* LeaseKeeper._last_renewed
          lost,     \* LeaseKeeper.lost
          call,     \* the try_acquire in flight: of acquire() or of _beat()
          fence,    \* check_db: not called, past its check_local, or holding the row's lock
          written   \* [by, token] of the last fenced commit

vars == <<now, row, mode, epoch, renewed, lost, call, fence, written>>

Mode == {"new", "starting", "running", "gone"}
Step == {"idle", "asked", "timed", "won", "refused", "ended"}

NoCall == [step |-> "idle", asked |-> 0, clock |-> 0, epoch |-> 0]
EndedCall == [NoCall EXCEPT !.step = "ended"]

Init ==
  /\ now = 1
  /\ row = [owner |-> NoWorker, epoch |-> 0, expires |-> 0]
  /\ mode = [w \in Worker |-> "new"]
  /\ epoch = [w \in Worker |-> 0]
  /\ renewed = [w \in Worker |-> 0]
  /\ lost = [w \in Worker |-> FALSE]
  /\ call = [w \in Worker |-> NoCall]
  /\ fence = [w \in Worker |-> "open"]
  /\ written = [by |-> NoWorker, token |-> 0]

Tick ==
  /\ now < MaxTime
  /\ now' = now + 1
  /\ UNCHANGED <<row, mode, epoch, renewed, lost, call, fence, written>>

-----------------------------------------------------------------------------
(* try_acquire, in the three round trips another process can run between. *)

\* `requested = time.monotonic()` before the call, at start-up ...
Start(w) ==
  /\ mode[w] = "new"
  /\ mode' = [mode EXCEPT ![w] = "starting"]
  /\ call' = [call EXCEPT ![w] = [NoCall EXCEPT !.step = "asked", !.asked = now]]
  /\ UNCHANGED <<now, row, epoch, renewed, lost, fence, written>>

\* ... and after every sleep of the heartbeat.
Beat(w) ==
  /\ mode[w] = "running"
  /\ call[w].step = "idle"
  /\ call' = [call EXCEPT ![w] = [NoCall EXCEPT !.step = "asked", !.asked = now]]
  /\ UNCHANGED <<now, row, mode, epoch, renewed, lost, fence, written>>

\* `now = await db_now(db)'.
ReadClock(w) ==
  /\ call[w].step = "asked"
  /\ call' = [call EXCEPT ![w] =
                [step |-> "timed", asked |-> call[w].asked, clock |-> now, epoch |-> 0]]
  /\ UNCHANGED <<now, row, mode, epoch, renewed, lost, fence, written>>

\* `WHERE owner_id = me OR expires_at < now', and the bug of losing the strictness.
MayTake_Inclusive(w, clock) == row.owner = w \/ row.expires <= clock
MayTake(w, clock) == row.owner = w \/ row.expires < clock

\* The epoch the UPDATE writes: bumped when the ownership changes.
NextEpoch_NoBump(w) == row.epoch
NextEpoch(w) == IF row.owner = w THEN row.epoch ELSE row.epoch + 1

\* The INSERT wins the race for a row that does not exist; its answer is epoch 1.
Insert(w) ==
  /\ call[w].step = "timed"
  /\ row.owner = NoWorker
  /\ row' = [owner |-> w, epoch |-> 1, expires |-> call[w].clock + TTL]
  /\ call' = [call EXCEPT ![w] =
                [step |-> "won", asked |-> call[w].asked, clock |-> call[w].clock, epoch |-> 1]]
  /\ UNCHANGED <<now, mode, epoch, renewed, lost, fence, written>>

\* The conditional UPDATE waits for a share lock on the row it matches.
Update(w) ==
  /\ call[w].step = "timed"
  /\ row.owner # NoWorker
  /\ MayTake(w, call[w].clock)
  /\ \A v \in Worker : fence[v] # "locked"
  /\ row' = [owner |-> w, epoch |-> NextEpoch(w), expires |-> call[w].clock + TTL]
  /\ call' = [call EXCEPT ![w].step = "won"]
  /\ UNCHANGED <<now, mode, epoch, renewed, lost, fence, written>>

Refuse(w) ==
  /\ call[w].step = "timed"
  /\ row.owner # NoWorker
  /\ ~MayTake(w, call[w].clock)
  /\ call' = [call EXCEPT ![w].step = "refused"]
  /\ UNCHANGED <<now, row, mode, epoch, renewed, lost, fence, written>>

\* The epoch try_acquire returns is re-read AFTER its commit (except on INSERT).
Answer(w) == IF call[w].epoch # 0 THEN call[w].epoch ELSE row.epoch

\* The renewal counts from the request, and the bug of counting it from the answer.
RenewedAt_Answer(w) == now
RenewedAt(w) == call[w].asked

\* acquire() returns True: lost.clear() and the heartbeat task starts.
Acquired(w) ==
  /\ mode[w] = "starting"
  /\ call[w].step = "won"
  /\ mode' = [mode EXCEPT ![w] = "running"]
  /\ epoch' = [epoch EXCEPT ![w] = Answer(w)]
  /\ renewed' = [renewed EXCEPT ![w] = RenewedAt(w)]
  /\ lost' = [lost EXCEPT ![w] = FALSE]
  /\ call' = [call EXCEPT ![w] = NoCall]
  /\ UNCHANGED <<now, row, fence, written>>

\* A heartbeat that renewed the lease at the epoch this worker holds.
Renewed(w) ==
  /\ mode[w] = "running"
  /\ call[w].step = "won"
  /\ Answer(w) = epoch[w]
  /\ renewed' = [renewed EXCEPT ![w] = RenewedAt(w)]
  /\ call' = [call EXCEPT ![w] = NoCall]
  /\ UNCHANGED <<now, row, mode, epoch, lost, fence, written>>

\* A heartbeat that was refused, or that took an expired row back from its
\* usurper under a new epoch: superseded, and the heartbeat task returns.
Superseded(w) ==
  /\ mode[w] = "running"
  /\ \/ call[w].step = "refused"
     \/ (call[w].step = "won" /\ Answer(w) # epoch[w])
  /\ lost' = [lost EXCEPT ![w] = TRUE]
  /\ call' = [call EXCEPT ![w] = EndedCall]
  /\ UNCHANGED <<now, row, mode, epoch, renewed, fence, written>>

\* A database error anywhere in the heartbeat's call, before or after the row
\* changed: tolerated until the TTL has truly lapsed.
BeatFails(w) ==
  /\ mode[w] = "running"
  /\ call[w].step \in {"asked", "timed", "won", "refused"}
  /\ IF now - renewed[w] > TTL
     THEN /\ lost' = [lost EXCEPT ![w] = TRUE]
          /\ call' = [call EXCEPT ![w] = EndedCall]
     ELSE /\ call' = [call EXCEPT ![w] = NoCall]
          /\ UNCHANGED lost
  /\ UNCHANGED <<now, row, mode, epoch, renewed, fence, written>>

-----------------------------------------------------------------------------
(* Fencing. *)

\* check_local: this process may still act as the lease holder.
LocallyValid(w) == ~lost[w] /\ epoch[w] # 0 /\ now - renewed[w] <= TTL

\* check_local raises and marks the lease lost.
CheckLocalFails(w) ==
  /\ mode[w] = "running"
  /\ fence[w] = "open"
  /\ ~LocallyValid(w)
  /\ ~lost[w]
  /\ lost' = [lost EXCEPT ![w] = TRUE]
  /\ UNCHANGED <<now, row, mode, epoch, renewed, call, fence, written>>

\* check_db(lock=True), the last statement before a commit, passes check_local first; its
\* SELECT is awaited, and the worker may stall there past its TTL.
CheckDb(w) ==
  /\ mode[w] = "running"
  /\ fence[w] = "open"
  /\ LocallyValid(w)
  /\ fence' = [fence EXCEPT ![w] = "checked"]
  /\ UNCHANGED <<now, row, mode, epoch, renewed, lost, call, written>>

\* The row says this worker is the owner at its epoch, unexpired, and the bug of trusting
\* check_local for the ownership.
RowConfirms_NoOwnership(w) == row.expires > now
RowConfirms(w) == row.owner = w /\ row.epoch = epoch[w] /\ row.expires > now

\* The row stays share-locked until the transaction ends.  (SQLite: the writer holds the
\* database's write lock since BEGIN IMMEDIATE.)
Locks(w) ==
  /\ fence[w] = "checked"
  /\ RowConfirms(w)
  /\ fence' = [fence EXCEPT ![w] = "locked"]
  /\ UNCHANGED <<now, row, mode, epoch, renewed, lost, call, written>>

\* check_db finds another owner, another epoch or an expired row: fenced off.
Fenced(w) ==
  /\ fence[w] = "checked"
  /\ ~RowConfirms(w)
  /\ fence' = [fence EXCEPT ![w] = "open"]
  /\ lost' = [lost EXCEPT ![w] = TRUE]
  /\ UNCHANGED <<now, row, mode, epoch, renewed, call, written>>

\* The commit that follows, whatever the clock shows by now, under the token
\* this worker holds.
Commit(w) ==
  /\ fence[w] = "locked"
  /\ written' = [by |-> w, token |-> epoch[w]]
  /\ fence' = [fence EXCEPT ![w] = "open"]
  /\ UNCHANGED <<now, row, mode, epoch, renewed, lost, call>>

\* The transaction fails instead.
RollBack(w) ==
  /\ fence[w] # "open"
  /\ fence' = [fence EXCEPT ![w] = "open"]
  /\ UNCHANGED <<now, row, mode, epoch, renewed, lost, call, written>>

-----------------------------------------------------------------------------
(* The end of a process. *)

\* release(): UPDATE ... SET expires_at = 0 WHERE owner_id = me; the bug of
\* writing NULL instead.
Released_Null(w) == [row EXCEPT !.expires = IF row.owner = w THEN NoWorker ELSE row.expires]
Released(w) == [row EXCEPT !.expires = IF row.owner = w THEN 0 ELSE row.expires]

\* main() leaves its loop (signal, --once, lease lost) between transactions:
\* close() cancels the heartbeat and releases the row.
Close(w) ==
  /\ mode[w] = "running"
  /\ fence[w] = "open"
  /\ row' = Released(w)
  /\ mode' = [mode EXCEPT ![w] = "gone"]
  /\ call' = [call EXCEPT ![w] = NoCall]
  /\ UNCHANGED <<now, epoch, renewed, lost, fence, written>>

\* A second worker refuses to trade: WorkerAlreadyActive.
AlreadyActive(w) ==
  /\ mode[w] = "starting"
  /\ call[w].step = "refused"
  /\ mode' = [mode EXCEPT ![w] = "gone"]
  /\ call' = [call EXCEPT ![w] = NoCall]
  /\ UNCHANGED <<now, row, epoch, renewed, lost, fence, written>>

\* The process dies anywhere (an error of acquire() and a failed release()
\* too): its transaction is rolled back, the row keeps its expiry.
Crash(w) ==
  /\ mode[w] \in {"starting", "running"}
  /\ mode' = [mode EXCEPT ![w] = "gone"]
  /\ call' = [call EXCEPT ![w] = NoCall]
  /\ fence' = [fence EXCEPT ![w] = "open"]
  /\ UNCHANGED <<now, row, epoch, renewed, lost, written>>

Next ==
  \/ Tick
  \/ \E w \in Worker :
       \/ Start(w) \/ Beat(w) \/ ReadClock(w) \/ Insert(w) \/ Update(w)
       \/ Refuse(w) \/ Acquired(w) \/ Renewed(w) \/ Superseded(w)
       \/ BeatFails(w) \/ CheckLocalFails(w) \/ CheckDb(w) \/ Locks(w) \/ Fenced(w)
       \/ Commit(w) \/ RollBack(w) \/ Close(w) \/ AlreadyActive(w) \/ Crash(w)

Spec == Init /\ [][Next]_vars

-----------------------------------------------------------------------------
(* Properties. *)

Call == [step : Step, asked : Nat, clock : Nat, epoch : Nat]

\* Types of the variables.
TypeOK ==
  /\ now \in Nat
  /\ row \in [owner : Worker \cup {NoWorker}, epoch : Nat, expires : Nat]
  /\ mode \in [Worker -> Mode]
  /\ epoch \in [Worker -> Nat]
  /\ renewed \in [Worker -> Nat]
  /\ lost \in [Worker -> BOOLEAN]
  /\ call \in [Worker -> Call]
  /\ fence \in [Worker -> {"open", "checked", "locked"}]
  /\ written \in [by : Worker \cup {NoWorker}, token : Nat]

\* A running process whose check_local passes.
ActsAsHolder(w) == mode[w] = "running" /\ LocallyValid(w)

\* Two workers never both pass check_local, whatever the heartbeats, the
\* stalls and the database errors were: the local self-fence (`<= ttl' from
\* the renewal REQUEST) ends strictly before the row can be taken over
\* (`expires_at < now').
OneHolder == \A u, v \in Worker : ActsAsHolder(u) /\ ActsAsHolder(v) => u = v

\* check_local, which asks nobody, is never wrong: the row still names this
\* worker at its epoch.
LocalFenceSound ==
  \A w \in Worker : ActsAsHolder(w) => row.owner = w /\ row.epoch = epoch[w]

\* Fencing tokens order the commits: a commit carries a token above every
\* earlier one, or the same token and the same worker.
TokensOrdered ==
  [][written'.token > written.token
     \/ (written'.token = written.token /\ written'.by = written.by)]_written

\* The lease implements the abstract single fenced writer.
FW == INSTANCE FencedWriter WITH holder <- row.owner, token <- row.epoch
FencedWriterSpec == FW!Spec
==============================================================================
