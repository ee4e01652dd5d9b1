---------------------------- MODULE OllamaClient ----------------------------
(***************************************************************************)
(* The language-model client: its pool of API keys and the calls that      *)
(* rotate over it (services/ollama_client.py, worker/key_refresh.py).       *)
(*                                                                         *)
(* A call is a task: it takes a key, awaits the answer, and books the      *)
(* outcome on the position it took the key from.  Whether a cooldown is     *)
(* over is the environment's choice; answers, errors and their order too.   *)
(* A pool without any key (an open endpoint) is left out.                  *)
(***************************************************************************)
EXTENDS Integers, Sequences, FiniteSets

CONSTANTS Caller,       \* the tasks that may call at the same time
          Key,          \* API key values
          Answer,       \* what a valid answer can say
          MaxTries,     \* ollama_max_retries
          Concurrency,  \* ollama_concurrency
          MaxRotations  \* edits of the environment file (model bound)

ASSUME ClientAssumption ==
  /\ MaxTries \in Nat \ {0} /\ Concurrency \in Nat \ {0} /\ MaxRotations \in Nat

VARIABLES
  configured, \* the keys in the environment file
  keys,       \* _api_keys with _key_health, position by position
  cursor,     \* _key_cursor, modulo the number of keys
  call,       \* per task: where its call is
  forced,     \* KeyRefresher._force
  rotations

client == <<configured, keys, cursor, call, forced, rotations>>
pool == <<configured, keys, cursor, forced, rotations>>

KeyLists == {<<k>> : k \in Key} \cup {s \in [1..2 -> Key] : s[1] # s[2]}

Fresh(k) == [key |-> k, disabled |-> FALSE, cooling |-> FALSE]
Healthy(h) == ~h.disabled /\ ~h.cooling

NoCall == [at |-> "none", index |-> 0, key |-> "none", tries |-> 0, answer |-> "none"]

ClientInit ==
  /\ configured \in KeyLists
  /\ keys = [i \in DOMAIN configured |-> Fresh(configured[i])]
  /\ cursor = 0
  /\ call = [c \in Caller |-> NoCall]
  /\ forced = FALSE
  /\ rotations = 0

-----------------------------------------------------------------------------
(* The pool. *)

IsAvailable == \E i \in DOMAIN keys : Healthy(keys[i])

\* _next_key: the first usable position from the cursor on.
Position(n) == ((cursor + n) % Len(keys)) + 1

\* refresh_keys: an unchanged key keeps its health unless the refresh is forced.
Renewed(new, force) ==
  [i \in DOMAIN new |->
     LET old == {j \in DOMAIN keys : keys[j].key = new[i]} IN
     IF force \/ old = {} THEN Fresh(new[i]) ELSE keys[CHOOSE j \in old : TRUE]]

InFlight == {c \in Caller : call[c].at \notin {"none", "done"}}

\* KeyRefresher.tick, which the worker calls between two ticks of its loop.
Refresh ==
  /\ keys' = Renewed(configured, forced)
  /\ cursor' = 0
  /\ forced' = FALSE
  /\ UNCHANGED <<configured, call, rotations>>

\* The operator edits the file, or sends SIGHUP; a cooldown ends.
Rotate ==
  /\ rotations < MaxRotations
  /\ configured' \in KeyLists \ {configured}
  /\ rotations' = rotations + 1
  /\ UNCHANGED <<keys, cursor, call, forced>>

Hup ==
  /\ ~forced /\ rotations < MaxRotations
  /\ forced' = TRUE /\ rotations' = rotations + 1
  /\ UNCHANGED <<configured, keys, cursor, call>>

CooldownEnds ==
  /\ \E i \in DOMAIN keys : keys[i].cooling /\ keys' = [keys EXCEPT ![i].cooling = FALSE]
  /\ UNCHANGED <<configured, cursor, call, forced, rotations>>

-----------------------------------------------------------------------------
(* One call: generate_structured. *)

Done(c, answer) == call' = [call EXCEPT ![c] = [NoCall EXCEPT !.at = "done", !.answer = answer]]
Failed(c) == Done(c, "failed")

\* A call that is made now: without a usable key it fails before any request.
\* (The tasks made together all pass this check before any of them is answered.)
Called == IF IsAvailable THEN [NoCall EXCEPT !.at = "queued"]
          ELSE [NoCall EXCEPT !.at = "done", !.answer = "failed"]

\* The semaphore is free: take the next key, or fail if there is none by now.
Send(c) ==
  /\ call[c].at = "queued"
  /\ Cardinality({d \in Caller : call[d].at = "sent"}) < Concurrency
  /\ LET usable == {n \in 0..(Len(keys) - 1) : Healthy(keys[Position(n)])} IN
     IF usable = {}
     THEN Failed(c) /\ UNCHANGED cursor
     ELSE LET n == CHOOSE m \in usable : \A o \in usable : m <= o IN
          /\ call' = [call EXCEPT ![c].at = "sent", ![c].index = Position(n),
                                  ![c].key = keys[Position(n)].key, ![c].tries = @ + 1]
          /\ cursor' = Position(n) % Len(keys)
  /\ UNCHANGED <<configured, keys, forced, rotations>>

\* Once more after a backoff, or the error is the caller's.
RetryIf(c, worthwhile) ==
  IF worthwhile /\ call[c].tries < MaxTries
  THEN call' = [call EXCEPT ![c] = [NoCall EXCEPT !.at = "queued", !.tries = call[c].tries]]
  ELSE Failed(c)

\* 200: a valid answer, or one that cannot be parsed (no retry); also any other
\* status the code has no case for.
Answers(c) ==
  /\ call[c].at = "sent"
  /\ \E a \in Answer \cup {"failed"} : Done(c, a)
  /\ UNCHANGED pool

\* Timeouts, resets, 408 and 5xx.
Transient(c) ==
  /\ call[c].at = "sent"
  /\ RetryIf(c, TRUE)
  /\ UNCHANGED pool

\* 429: this position cools down; a retry needs another usable key.
RateLimited(c) ==
  /\ call[c].at = "sent"
  /\ keys' = [keys EXCEPT ![call[c].index].cooling = TRUE]
  /\ RetryIf(c, \E i \in DOMAIN keys : i # call[c].index /\ Healthy(keys[i]))
  /\ UNCHANGED <<configured, cursor, forced, rotations>>

\* 401 and 403: this position is disabled; a retry needs another that is not.
Unauthorized(c) ==
  /\ call[c].at = "sent"
  /\ keys' = [keys EXCEPT ![call[c].index].disabled = TRUE]
  /\ RetryIf(c, \E i \in DOMAIN keys : i # call[c].index /\ ~keys[i].disabled)
  /\ UNCHANGED <<configured, cursor, forced, rotations>>

\* The caller's own timeout cancels the call; nothing is booked.
TimesOut(c) ==
  /\ c \in InFlight
  /\ Failed(c)
  /\ UNCHANGED pool

CallStep(c) ==
  \/ Send(c) \/ Answers(c) \/ Transient(c) \/ RateLimited(c) \/ Unauthorized(c)
  \/ TimesOut(c)

Operator == Rotate \/ Hup
=============================================================================
