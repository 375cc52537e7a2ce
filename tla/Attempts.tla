------------------------------ MODULE Attempts ------------------------------
(***************************************************************************)
(* The dedupe marks of src/store.js: `attempts`, a time for every key that  *)
(* was attempted.  markAttempt is one synchronous check-and-set, so its     *)
(* test (Live) and its write (Marked) are used inside one action.           *)
(***************************************************************************)
EXTENDS Integers

CONSTANTS Key,   \* "<automation>:<storeHash>:<identifier>"
          TTL    \* ttlMs, 24 h in the code

ASSUME TTLAssumption == TTL \in Nat \ {0}

\* The key has no entry.
NoMark == -1

NoMarks == [k \in Key |-> NoMark]

\* A slip: the mark lapses one unit early.
Live_Early(at, t) == at # NoMark /\ t - at < TTL - 1

\* The entry still blocks at time t.
Live(at, t) == at # NoMark /\ t - at < TTL

\* What markAttempt leaves when it wins: its own entry, and no expired one.
Marked(attempts, k, t) ==
  [x \in Key |-> IF x = k THEN t
                 ELSE IF Live(attempts[x], t) THEN attempts[x] ELSE NoMark]

\* clearAttempt: whoever asks, the entry goes.
Cleared(attempts, k) == [attempts EXCEPT ![k] = NoMark]
=============================================================================
