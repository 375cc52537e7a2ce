----------------------------- MODULE CallWindow -----------------------------
(***************************************************************************)
(* What src/automations/_base.js promises of the calls it places, without   *)
(* the mechanism: an attempt opens a window of TTL for its key; within it   *)
(* the customer is called at most once, or the attempt is given up.  No     *)
(* timers, requests, settings or files.                                     *)
(***************************************************************************)
EXTENDS Integers, Sequences

CONSTANTS Key, TTL

VARIABLES now, window, placed

vars == <<now, window, placed>>

\* No window is open: a delivery may attempt a call.
Free == [state |-> "free"]

\* A fault took the key's record away: the promise does not hold for it.
Off == [state |-> "off"]

Open(state, since) == [state |-> state, since |-> since]

Trying(k) == window[k].state = "trying"

Over(k, t) == /\ window[k].state \in {"called", "kept"}
              /\ window[k].since + TTL <= t
-----------------------------------------------------------------------------
Init == /\ now = 0
        /\ window = [k \in Key |-> Free]
        /\ placed = <<>>

Attempt(k) == /\ window[k] = Free
              /\ window' = [window EXCEPT ![k] = Open("trying", now)]
              /\ UNCHANGED <<now, placed>>

\* The one call of the window.
Place(k) ==
  /\ Trying(k)
  /\ window' = [window EXCEPT ![k] = Open("called", window[k].since)]
  /\ placed' = Append(placed, [key |-> k, since |-> window[k].since])
  /\ UNCHANGED now

\* The attempt failed and another may follow at once.
Withdraw(k) == /\ Trying(k)
               /\ window' = [window EXCEPT ![k] = Free]
               /\ UNCHANGED <<now, placed>>

\* There is to be no call in this window.
Keep(K) ==
  /\ \A k \in K : Trying(k)
  /\ window' = [k \in Key |-> IF k \in K THEN Open("kept", window[k].since)
                                         ELSE window[k]]
  /\ UNCHANGED <<now, placed>>

GiveUp(K) ==
  /\ window' = [k \in Key |-> IF k \in K THEN Off ELSE window[k]]
  /\ UNCHANGED <<now, placed>>

PlaceAnyway(k) ==
  /\ window[k] = Off
  /\ \E since \in 0 .. now : placed' = Append(placed, [key |-> k, since |-> since])
  /\ UNCHANGED <<now, window>>

\* An attempt is over before its window is.
Tick ==
  /\ \A k \in Key : Trying(k) => now + 1 < window[k].since + TTL
  /\ now' = now + 1
  /\ window' = [k \in Key |-> IF Over(k, now + 1) THEN Free ELSE window[k]]
  /\ UNCHANGED placed

Next == \/ \E k \in Key : Attempt(k) \/ Place(k) \/ Withdraw(k) \/ PlaceAnyway(k)
        \/ \E K \in SUBSET Key : Keep(K) \/ GiveUp(K)
        \/ Tick

Spec == Init /\ [][Next]_vars
=============================================================================
