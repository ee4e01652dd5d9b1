---------------------------- MODULE FencedWriter ----------------------------
(***************************************************************************)
(* What the worker lease promises to the rest of the program: a single    *)
(* writer at a time, named by a fencing token that grows with every       *)
(* change of ownership, and a committed write always carries the token of *)
(* the ownership it was made under.  WorkerLease.tla is the detailed      *)
(* specification that implements this one.                                *)
(***************************************************************************)
EXTENDS Naturals

CONSTANTS Worker,    \* owner ids: one per process start (new_owner_id)
          NoWorker   \* the owner of a lease row that does not exist yet

VARIABLES holder,    \* the worker the lease belongs to
          token,     \* its fencing token
          written    \* [by, token] of the last committed write

vars == <<holder, token, written>>

NoWrite == [by |-> NoWorker, token |-> 0]

Init ==
  /\ holder = NoWorker
  /\ token = 0
  /\ written = NoWrite

\* Every change of ownership bumps the token.
Grant(w) ==
  /\ w # holder
  /\ holder' = w
  /\ token' = token + 1
  /\ UNCHANGED written

\* Only the holder writes, under its own token.
Write(w) ==
  /\ holder = w
  /\ written' = [by |-> w, token |-> token]
  /\ UNCHANGED <<holder, token>>

Next == \E w \in Worker : Grant(w) \/ Write(w)

Spec == Init /\ [][Next]_vars
=============================================================================
