---------------------------- MODULE WinBackProofs ----------------------------
(***************************************************************************)
(* Proofs about WinBack, for any customers, sweeps, faults and bounds, and  *)
(* for delays that end before the marks of their calls (ShortDelays).       *)
(***************************************************************************)
EXTENDS WinBack, TLAPS

LEMMA ConstantsType == Latency \in Nat /\ TTL \in Nat /\ DaysChoices \subseteq Nat
BY WinBackAssumption

LEMMA PlacementTyped ==
  ASSUME TypeOK, NEW c \in Customer, Running(placement[c])
  PROVE  /\ placement[c] \in Placement
         /\ placement[c].stage \in {"timer", "dialing", "accepted"}
         /\ placement[c].markedAt \in Nat /\ placement[c].due \in Nat
         /\ placement[c].by \subseteq SweepId
         /\ placement[c].days \in Nat
<1>1. placement[c] \in Placement
  BY DEF TypeOK, Running, Idle
<1> QED
  BY <1>1, ConstantsType DEF Placement

LEMMA CallTyped ==
  ASSUME TypeOK, NEW n \in 1 .. Len(calls)
  PROVE  /\ calls[n] \in Call
         /\ calls[n].customer \in Customer
         /\ calls[n].markedAt \in Nat /\ calls[n].at \in Nat
         /\ calls[n].days \in Nat
<1>1. calls[n] \in Call
  BY DEF TypeOK
<1> QED
  BY <1>1, ConstantsType DEF Call

\* A sweep in the middle of its page.
LEMMA SweepTyped ==
  ASSUME TypeOK, SweepsInHand, NEW t \in SweepId,
         sweep[t].stage \in {"orders", "placing"}
  PROVE  /\ sweep[t] \in Sweep /\ sweep[t].todo # <<>>
         /\ Head(sweep[t].todo) \in Customer
         /\ sweep[t].days \in DaysChoices
<1>1. sweep[t] \in Sweep /\ sweep[t].todo # <<>>
  BY DEF TypeOK, SweepsInHand, Idle
<1>2. sweep[t].todo \in Seq(Customer) /\ sweep[t].days \in DaysChoices
  BY <1>1 DEF Sweep
<1> QED
  BY <1>1, <1>2

LEMMA AfterType ==
  ASSUME NEW w \in Sweep, w.todo # <<>>, now \in Nat
  PROVE  /\ After(w) \in {Idle} \cup Sweep
         /\ After(w).stage \in {"idle", "orders"}
         /\ After(w).stage = "orders" => After(w).todo # <<>>
<1> DEFINE next == [w EXCEPT !.stage = "orders", !.todo = Tail(@), !.due = now]
<1>1. w.todo \in Seq(Customer) /\ Len(w.todo) \in Nat /\ Len(w.todo) # 0
  BY DEF Sweep
<1>2. CASE Len(w.todo) = 1
  BY <1>2 DEF After, Idle
<1>3. CASE Len(w.todo) # 1
  <2>1. Tail(w.todo) \in Seq(Customer) /\ Len(Tail(w.todo)) = Len(w.todo) - 1
    BY <1>1
  <2>a. Len(<<>>) = 0
    OBVIOUS
  <2>b. Len(Tail(w.todo)) # 0
    BY <1>1, <1>3, <2>1
  <2>2. Tail(w.todo) # <<>>
    BY <2>a, <2>b
  <2>3. next \in Sweep /\ next.stage = "orders" /\ next.todo = Tail(w.todo)
    BY <2>1 DEF Sweep
  <2> QED
    BY <1>3, <2>2, <2>3 DEF After
<1> QED
  BY <1>2, <1>3

\* The sweeps in `gone` end or go on to their next customer, and no placement is
\* awaited by them any more.
LEMMA SweepsMoveOn ==
  ASSUME WinBackIInv, NEW gone \in SUBSET SweepId, now' = now,
         \A t \in gone : sweep[t].stage \in {"orders", "placing"},
         \/ sweep' = [t \in SweepId |-> IF t \in gone THEN After(sweep[t]) ELSE sweep[t]]
         \/ sweep' = [t \in SweepId |-> IF t \in gone THEN Idle ELSE sweep[t]],
         \A c \in Customer : Running(placement'[c]) =>
           \A t \in placement'[c].by :
             Running(placement[c]) /\ t \in placement[c].by \ gone
  PROVE  sweep' \in [SweepId -> {Idle} \cup Sweep] /\ SweepsInHand'
<1>1. \A t \in gone : /\ After(sweep[t]) \in {Idle} \cup Sweep
                      /\ After(sweep[t]).stage \in {"idle", "orders"}
                      /\ After(sweep[t]).stage = "orders" => After(sweep[t]).todo # <<>>
  BY SweepTyped, AfterType DEF WinBackIInv, TypeOK
<1>2. /\ sweep' \in [SweepId -> {Idle} \cup Sweep]
      /\ \A t \in gone : /\ sweep'[t].stage \in {"idle", "orders"}
                         /\ sweep'[t].stage = "orders" => sweep'[t].todo # <<>>
      /\ \A t \in SweepId \ gone : sweep'[t] = sweep[t]
  <2>1. /\ sweep \in [SweepId -> {Idle} \cup Sweep]
        /\ Idle.stage = "idle"
    BY DEF WinBackIInv, TypeOK, Idle
  <2>2. CASE sweep' = [t \in SweepId |-> IF t \in gone THEN After(sweep[t]) ELSE sweep[t]]
    BY <1>1, <2>1, <2>2
  <2>3. CASE sweep' = [t \in SweepId |-> IF t \in gone THEN Idle ELSE sweep[t]]
    BY <2>1, <2>3
  <2> QED
    BY <2>2, <2>3
<1>3. ASSUME NEW t \in SweepId, sweep'[t].stage \in {"orders", "placing"}
      PROVE  sweep'[t].todo # <<>>
  BY <1>2, <1>3 DEF WinBackIInv, SweepsInHand
<1>4. ASSUME NEW c \in Customer, Running(placement'[c]), NEW t \in placement'[c].by
      PROVE  sweep'[t].stage = "placing" /\ Head(sweep'[t].todo) = c
  <2>1. Running(placement[c]) /\ t \in placement[c].by /\ t \notin gone
    BY <1>4
  <2>2. t \in SweepId
    BY <2>1, PlacementTyped DEF WinBackIInv, Placement
  <2> QED
    BY <1>2, <2>1, <2>2 DEF WinBackIInv, SweepsInHand
<1> QED
  BY <1>2, <1>3, <1>4 DEF SweepsInHand

LEMMA Inits == Init => WinBackIInv
<1> SUFFICES ASSUME Init PROVE WinBackIInv
  OBVIOUS
<1>1. /\ \A c \in Customer : ~Running(placement[c]) /\ placement[c].stage = "idle"
      /\ \A t \in SweepId : sweep[t].stage = "idle"
      /\ \A c \in Customer : recorded[c] = Never
      /\ Len(calls) = 0
  BY DEF Init, Running, Idle
<1>2. TypeOK
  BY WinBackAssumption DEF Init, TypeOK, NoMarks, NoMark, Never, Mode
<1>3. SweepsInHand /\ PlacementHoldsMark /\ AcceptedHasCall
  BY <1>1 DEF SweepsInHand, PlacementHoldsMark, AcceptedHasCall
<1>4. CallKeepsItsMark /\ CallGoesOnRecord /\ PendingIsFresh
  BY <1>1 DEF CallKeepsItsMark, CallGoesOnRecord, PendingIsFresh
<1>5. OneWinBackPerWindow /\ OneCallPerDay /\ RecordHasCause
  BY <1>1 DEF OneWinBackPerWindow, OneCallPerDay, RecordHasCause
<1> QED
  BY <1>2, <1>3, <1>4, <1>5 DEF WinBackIInv

\* The steps that leave placements, marks, records and calls alone.
LEMMA Aside ==
  ASSUME WinBackIInv, TypeOK', SweepsInHand',
         UNCHANGED <<now, attempts, recorded, placement, calls, quieted, unseen>>
  PROVE  WinBackIInv'
<1>1. PlacementHoldsMark' /\ AcceptedHasCall'
  BY DEF WinBackIInv, PlacementHoldsMark, AcceptedHasCall, Running
<1>2. CallKeepsItsMark' /\ CallGoesOnRecord' /\ PendingIsFresh'
  BY DEF WinBackIInv, CallKeepsItsMark, CallGoesOnRecord, PendingIsFresh
<1>3. OneWinBackPerWindow' /\ OneCallPerDay' /\ RecordHasCause'
  BY DEF WinBackIInv, OneWinBackPerWindow, OneCallPerDay, RecordHasCause
<1> QED
  BY <1>1, <1>2, <1>3 DEF WinBackIInv

LEMMA StartSweepInd ==
  ASSUME WinBackIInv, NEW t \in SweepId, StartSweep(t)
  PROVE  WinBackIInv'
<1> DEFINE new == [stage |-> "list", cutoff |-> now - days, days |-> days,
                 todo |-> <<>>, due |-> now]
<1>1. TypeOK /\ now \in Nat /\ days \in DaysChoices
  BY DEF WinBackIInv, TypeOK
<1>2. new \in Sweep /\ new.stage = "list"
  BY <1>1, ConstantsType DEF Sweep
<1> HIDE DEF new
<1>3. sweep' = [sweep EXCEPT ![t] = new] /\ sweep[t].stage = "idle"
  BY DEF StartSweep, new, Idle
<1>4. /\ sweep'[t] = new /\ \A u \in SweepId \ {t} : sweep'[u] = sweep[u]
      /\ UNCHANGED <<now, attempts, recorded, placement, calls, quieted, unseen>>
  BY <1>1, <1>3 DEF StartSweep, TypeOK
<1>5. TypeOK'
  BY <1>1, <1>2, <1>3 DEF StartSweep, TypeOK, env
<1>6. SweepsInHand'
  <2>1. ASSUME NEW u \in SweepId, sweep'[u].stage \in {"orders", "placing"}
        PROVE  sweep'[u].todo # <<>>
    BY <1>2, <1>4, <2>1 DEF WinBackIInv, SweepsInHand
  <2>2. ASSUME NEW c \in Customer, Running(placement[c]), NEW u \in placement[c].by
        PROVE  sweep'[u].stage = "placing" /\ Head(sweep'[u].todo) = c
    <3>1. u \in SweepId /\ sweep[u].stage = "placing" /\ Head(sweep[u].todo) = c
      BY <1>1, <2>2, PlacementTyped DEF WinBackIInv, SweepsInHand, Placement
    <3> QED
      BY <1>3, <1>4, <3>1
  <2> QED
    BY <1>4, <2>1, <2>2 DEF SweepsInHand
<1> QED
  BY <1>4, <1>5, <1>6, Aside

LEMMA ListInd ==
  ASSUME WinBackIInv, NEW t \in SweepId, List(t)
  PROVE  WinBackIInv'
<1> DEFINE page == [sweep[t] EXCEPT !.stage = "orders", !.todo = Listed, !.due = now]
<1>1. /\ TypeOK /\ now \in Nat /\ sweep[t] \in Sweep /\ sweep[t].stage = "list"
      /\ sweep \in [SweepId -> {Idle} \cup Sweep]
  BY DEF WinBackIInv, TypeOK, List, Idle
<1>2. page \in Sweep /\ page.stage = "orders" /\ page.todo = Listed
  BY <1>1, WinBackAssumption DEF Sweep
<1>3. \/ sweep' = [sweep EXCEPT ![t] = Idle]
      \/ Listed # <<>> /\ sweep' = [sweep EXCEPT ![t] = page]
  BY <1>1 DEF List, Sweep
<1> HIDE DEF page
<1>4. /\ \A u \in SweepId \ {t} : sweep'[u] = sweep[u]
      /\ sweep'[t].stage = "orders" => sweep'[t].todo # <<>>
      /\ sweep'[t].stage \in {"idle", "orders"}
      /\ sweep' \in [SweepId -> {Idle} \cup Sweep]
      /\ UNCHANGED <<now, attempts, recorded, placement, calls, quieted, unseen>>
  BY <1>1, <1>2, <1>3 DEF List, Idle
<1>5. TypeOK'
  BY <1>1, <1>4 DEF List, TypeOK, env
<1>6. SweepsInHand'
  <2>1. ASSUME NEW u \in SweepId, sweep'[u].stage \in {"orders", "placing"}
        PROVE  sweep'[u].todo # <<>>
    BY <1>4, <2>1 DEF WinBackIInv, SweepsInHand
  <2>2. ASSUME NEW c \in Customer, Running(placement[c]), NEW u \in placement[c].by
        PROVE  sweep'[u].stage = "placing" /\ Head(sweep'[u].todo) = c
    <3>1. u \in SweepId /\ sweep[u].stage = "placing" /\ Head(sweep[u].todo) = c
      BY <1>1, <2>2, PlacementTyped DEF WinBackIInv, SweepsInHand, Placement
    <3> QED
      BY <1>1, <1>4, <3>1
  <2> QED
    BY <1>4, <2>1, <2>2 DEF SweepsInHand
<1> QED
  BY <1>4, <1>5, <1>6, Aside

\* No placement is awaited by a sweep that reads orders.
LEMMA ReaderAwaitsNone ==
  ASSUME WinBackIInv, NEW t \in SweepId, sweep[t].stage = "orders",
         NEW c \in Customer, Running(placement[c])
  PROVE  t \notin placement[c].by
BY DEF WinBackIInv, SweepsInHand

LEMMA SweepMovesOn ==
  ASSUME WinBackIInv, NEW t \in SweepId, sweep[t].stage = "orders",
         sweep' = [sweep EXCEPT ![t] = After(sweep[t])],
         now' = now,
         \A c \in Customer : Running(placement'[c]) =>
           placement'[c] = placement[c] \/ placement'[c].by = {}
  PROVE  sweep' \in [SweepId -> {Idle} \cup Sweep] /\ SweepsInHand'
<1>1. sweep' = [u \in SweepId |-> IF u \in {t} THEN After(sweep[u]) ELSE sweep[u]]
  BY DEF WinBackIInv, TypeOK
<1>2. \A c \in Customer : Running(placement'[c]) =>
        \A u \in placement'[c].by :
          Running(placement[c]) /\ u \in placement[c].by \ {t}
  BY ReaderAwaitsNone
<1>3. \A u \in {t} : sweep[u].stage \in {"orders", "placing"}
  OBVIOUS
<1> HIDE DEF Running
<1> QED
  BY ONLY WinBackIInv, {t} \in SUBSET SweepId, now' = now, <1>1, <1>2, <1>3, SweepsMoveOn

LEMMA PassOverInd ==
  ASSUME WinBackIInv, NEW t \in SweepId, PassOver(t)
  PROVE  WinBackIInv'
<1>1. sweep' \in [SweepId -> {Idle} \cup Sweep] /\ SweepsInHand'
  BY SweepMovesOn DEF PassOver
<1>2. TypeOK'
  BY <1>1 DEF WinBackIInv, TypeOK, PassOver, env
<1> QED
  BY <1>1, <1>2, Aside DEF PassOver

\* While a placement is in flight its customer's mark blocks.
LEMMA PlacementBlocks ==
  ASSUME WinBackIInv, NEW c \in Customer, Running(placement[c])
  PROVE  Live(attempts[c], now)
<1>1. /\ attempts[c] = placement[c].markedAt
      /\ now <= placement[c].due + Latency
      /\ placement[c].due + Slack(placement[c].stage) < placement[c].markedAt + TTL
  BY DEF WinBackIInv, PlacementHoldsMark
<1>2. now \in Nat /\ placement[c].markedAt \in Nat /\ placement[c].due \in Nat
  BY PlacementTyped DEF WinBackIInv, TypeOK
<1>3. Slack(placement[c].stage) \in Nat /\ Latency <= Slack(placement[c].stage)
  BY ConstantsType DEF Slack
<1> QED
  BY <1>1, <1>2, <1>3, ConstantsType DEF Live, NoMark

\* A call whose mark does not block any more is a day old.
LEMMA CallIsOver ==
  ASSUME WinBackIInv, NEW n \in 1 .. Len(calls), calls[n].customer \notin unseen,
         ~Live(attempts[calls[n].customer], now)
  PROVE  calls[n].markedAt + TTL <= now
<1>1. now \in Nat /\ calls[n].markedAt \in Nat
  BY CallTyped DEF WinBackIInv, TypeOK
<1>2. \/ attempts[calls[n].customer] = calls[n].markedAt
      \/ calls[n].markedAt + TTL <= now
  BY DEF WinBackIInv, CallKeepsItsMark
<1> QED
  BY <1>1, <1>2, ConstantsType DEF Live, NoMark

\* A customer without a placement is on record for every call a sweep awaited.
LEMMA IdleIsOnRecord ==
  ASSUME WinBackIInv, NEW n \in 1 .. Len(calls), calls[n].customer \notin unseen,
         ~calls[n].late, placement[calls[n].customer].stage # "accepted",
         NEW window \in Nat, ~InWindow(calls[n].customer, window)
  PROVE  calls[n].at + window <= now
<1> DEFINE c == calls[n].customer
<1>1. c \in Customer /\ calls[n].at \in Nat /\ now \in Nat
  BY CallTyped DEF WinBackIInv, TypeOK
<1>2. recorded[c] # Never /\ calls[n].at <= recorded[c]
  BY DEF WinBackIInv, CallGoesOnRecord
<1>3. recorded[c] \in Nat
  BY <1>1, <1>2 DEF WinBackIInv, TypeOK
<1>4. now - recorded[c] >= window
  BY <1>1, <1>2, <1>3, ConstantsType DEF InWindow
<1> QED
  BY <1>1, <1>2, <1>3, <1>4, ConstantsType

\* A sweep is stopped by the mark or by a switch: nothing but the sweep moves.
LEMMA PlaceSkipInd ==
  ASSUME WinBackIInv, NEW t \in SweepId, sweep[t].stage = "orders",
         sweep' = [sweep EXCEPT ![t] = After(@)],
         UNCHANGED <<env, now, attempts, recorded, placement, calls, quieted, unseen>>
  PROVE  WinBackIInv'
<1>1. sweep' \in [SweepId -> {Idle} \cup Sweep] /\ SweepsInHand'
  BY SweepMovesOn
<1>2. TypeOK'
  BY <1>1 DEF WinBackIInv, TypeOK, env
<1> QED
  BY <1>1, <1>2, Aside

\* In quiet hours the customer goes on record without a call.
LEMMA PlaceQuietInd ==
  ASSUME WinBackIInv, NEW t \in SweepId, sweep[t].stage = "orders",
         NEW c \in Customer,
         recorded' = [recorded EXCEPT ![c] = now],
         quieted' = [quieted EXCEPT ![c] = @ \cup {now}],
         sweep' = [sweep EXCEPT ![t] = After(@)],
         UNCHANGED <<env, now, attempts, placement, calls, unseen>>
  PROVE  WinBackIInv'
<1>1. sweep' \in [SweepId -> {Idle} \cup Sweep] /\ SweepsInHand'
  BY SweepMovesOn
<1>2. TypeOK /\ now \in Nat /\ recorded \in [Customer -> Nat \cup {Never}]
  BY DEF WinBackIInv, TypeOK
<1>3. quieted' \in [Customer -> SUBSET Nat]
  BY <1>2 DEF TypeOK
<1>4. TypeOK'
  BY <1>1, <1>2, <1>3 DEF TypeOK, env
<1>5. PlacementHoldsMark' /\ AcceptedHasCall' /\ CallKeepsItsMark' /\ PendingIsFresh'
  BY DEF WinBackIInv, PlacementHoldsMark, AcceptedHasCall, CallKeepsItsMark, PendingIsFresh
<1>6. OneWinBackPerWindow' /\ OneCallPerDay'
  BY DEF WinBackIInv, OneWinBackPerWindow, OneCallPerDay
<1>7. \A d \in Customer : recorded'[d] = IF d = c THEN now ELSE recorded[d]
  BY <1>2
<1>8. CallGoesOnRecord'
  <2> SUFFICES ASSUME NEW n \in 1 .. Len(calls), ~calls[n].late,
                      calls[n].customer \notin unseen
               PROVE  \/ /\ recorded'[calls[n].customer] # Never
                         /\ calls[n].at <= recorded'[calls[n].customer]
                      \/ /\ placement[calls[n].customer].stage = "accepted"
                         /\ placement[calls[n].customer].by # {}
    BY DEF CallGoesOnRecord
  <2>1. calls[n].customer \in Customer /\ calls[n].at <= now
    BY <1>2, CallTyped DEF WinBackIInv, CallKeepsItsMark
  <2>2. CASE calls[n].customer = c
    BY <1>2, <1>7, <2>1, <2>2 DEF Never
  <2>3. CASE calls[n].customer # c
    BY <1>7, <2>1, <2>3 DEF WinBackIInv, CallGoesOnRecord
  <2> QED
    BY <2>2, <2>3
<1>9. RecordHasCause'
  <2> SUFFICES ASSUME NEW d \in Customer, recorded'[d] # Never
               PROVE  \/ recorded'[d] \in quieted'[d]
                      \/ \E n \in 1 .. Len(calls) :
                           /\ calls[n].customer = d
                           /\ calls[n].at \in recorded'[d] - Latency .. recorded'[d]
    BY DEF RecordHasCause
  <2>1. quieted'[d] = IF d = c THEN quieted[c] \cup {now} ELSE quieted[d]
    BY DEF WinBackIInv, TypeOK
  <2>2. CASE d = c
    BY <1>7, <2>1, <2>2
  <2>3. CASE d # c
    BY <1>7, <2>1, <2>3 DEF WinBackIInv, RecordHasCause
  <2> QED
    BY <2>2, <2>3
<1> QED
  BY <1>1, <1>4, <1>5, <1>6, <1>8, <1>9 DEF WinBackIInv

\* A placement begins: it takes the mark, and at once or after the delay the call.
LEMMA PlaceCallInd ==
  ASSUME ShortDelays, WinBackIInv, NEW t \in SweepId, sweep[t].stage = "orders",
         NEW c \in Customer, c = Head(sweep[t].todo),
         ~InWindow(c, sweep[t].days), ~Live(attempts[c], now), placement[c] = Idle,
         attempts' = Marked(attempts, c, now),
         placement' = [placement EXCEPT ![c] =
           [stage |-> IF delay > 0 THEN "timer" ELSE "dialing",
            markedAt |-> now, due |-> now + delay,
            by |-> IF delay > 0 THEN {} ELSE {t},
            days |-> sweep[t].days]],
         sweep' = [sweep EXCEPT ![t] =
           IF delay > 0 THEN After(@) ELSE [@ EXCEPT !.stage = "placing", !.due = now]],
         UNCHANGED <<env, now, recorded, calls, quieted, unseen>>
  PROVE  WinBackIInv'
<1> DEFINE p == [stage |-> IF delay > 0 THEN "timer" ELSE "dialing",
                 markedAt |-> now, due |-> now + delay,
                 by |-> IF delay > 0 THEN {} ELSE {t},
                 days |-> sweep[t].days]
<1>1. /\ TypeOK /\ now \in Nat /\ delay \in Delays /\ delay \in Nat
      /\ attempts \in [Customer -> Nat \cup {NoMark}]
      /\ placement \in [Customer -> {Idle} \cup Placement]
      /\ sweep[t].days \in DaysChoices
  BY WinBackAssumption, SweepTyped DEF WinBackIInv, TypeOK
<1>2. /\ p \in Placement /\ p.markedAt = now /\ p.due = now + delay
      /\ p.stage = IF delay > 0 THEN "timer" ELSE "dialing"
      /\ p.by = IF delay > 0 THEN {} ELSE {t}
      /\ p.days = sweep[t].days /\ p.days \in Nat
  BY <1>1, ConstantsType DEF Placement
<1>3. placement' = [placement EXCEPT ![c] = p]
  OBVIOUS
<1> HIDE DEF p
<1>4. /\ placement'[c] = p
      /\ \A d \in Customer \ {c} : placement'[d] = placement[d]
      /\ placement' \in [Customer -> {Idle} \cup Placement]
  BY <1>1, <1>2, <1>3
<1>5. /\ attempts'[c] = now
      /\ \A d \in Customer \ {c} :
           attempts'[d] = IF Live(attempts[d], now) THEN attempts[d] ELSE NoMark
      /\ attempts' \in [Customer -> Nat \cup {NoMark}]
  BY <1>1 DEF Marked
<1>6. ~Running(placement[c]) /\ placement[c].stage = "idle"
  BY DEF Running, Idle
<1>a. sweep' \in [SweepId -> {Idle} \cup Sweep] /\ SweepsInHand'
  <2>1. CASE delay > 0
    <3>1. \A d \in Customer : Running(placement'[d]) =>
            placement'[d] = placement[d] \/ placement'[d].by = {}
      BY <1>2, <1>4, <2>1
    <3>2. sweep' = [sweep EXCEPT ![t] = After(sweep[t])] /\ now' = now
      BY <2>1
    <3> QED
      BY <3>1, <3>2, SweepMovesOn
  <2>2. CASE ~(delay > 0)
    <3> DEFINE w == [sweep[t] EXCEPT !.stage = "placing", !.due = now]
    <3>1. sweep[t] \in Sweep /\ sweep[t].todo # <<>> /\ sweep \in [SweepId -> {Idle} \cup Sweep]
      BY SweepTyped DEF WinBackIInv, TypeOK
    <3>2. w \in Sweep /\ w.stage = "placing" /\ w.todo = sweep[t].todo
      BY <1>1, <3>1 DEF Sweep
    <3>3. sweep' = [sweep EXCEPT ![t] = w]
      BY <2>2
    <3> HIDE DEF w
    <3>4. /\ sweep'[t] = w /\ \A u \in SweepId \ {t} : sweep'[u] = sweep[u]
          /\ sweep' \in [SweepId -> {Idle} \cup Sweep]
      BY <3>1, <3>2, <3>3
    <3>5. ASSUME NEW u \in SweepId, sweep'[u].stage \in {"orders", "placing"}
          PROVE  sweep'[u].todo # <<>>
      BY <3>1, <3>2, <3>4, <3>5 DEF WinBackIInv, SweepsInHand
    <3>6. ASSUME NEW d \in Customer, Running(placement'[d]), NEW u \in placement'[d].by
          PROVE  sweep'[u].stage = "placing" /\ Head(sweep'[u].todo) = d
      <4>1. CASE d = c
        BY <1>2, <1>4, <2>2, <3>2, <3>4, <3>6, <4>1
      <4>2. CASE d # c
        <5>1. Running(placement[d]) /\ u \in placement[d].by
          BY <1>4, <3>6, <4>2
        <5>2. u \in SweepId /\ u # t
          BY <1>1, <5>1, PlacementTyped, ReaderAwaitsNone
        <5> QED
          BY <3>4, <5>1, <5>2 DEF WinBackIInv, SweepsInHand
      <4> QED
        BY <4>1, <4>2
    <3> QED
      BY <3>4, <3>5, <3>6 DEF SweepsInHand
  <2> QED
    BY <2>1, <2>2
<1>b. TypeOK'
  BY <1>1, <1>4, <1>5, <1>a DEF TypeOK, env
<1>c. PlacementHoldsMark'
  <2> SUFFICES ASSUME NEW d \in Customer, Running(placement'[d])
               PROVE  /\ attempts'[d] = placement'[d].markedAt
                      /\ placement'[d].markedAt <= now
                      /\ placement'[d].stage # "timer" => placement'[d].due <= now
                      /\ now <= placement'[d].due + Latency
                      /\ placement'[d].due + Slack(placement'[d].stage)
                           < placement'[d].markedAt + TTL
    BY DEF PlacementHoldsMark
  <2>1. CASE d = c
    <3>1. delay + 2 * Latency < TTL
      BY <1>1 DEF ShortDelays
    <3>2. Slack(p.stage) = IF delay > 0 THEN 2 * Latency ELSE Latency
      BY <1>2 DEF Slack
    <3> QED
      BY <1>1, <1>2, <1>4, <1>5, <2>1, <3>1, <3>2, ConstantsType
  <2>2. CASE d # c
    <3>1. Running(placement[d]) /\ placement'[d] = placement[d]
      BY <1>4, <2>2
    <3>2. attempts'[d] = attempts[d]
      BY <1>5, <2>2, <3>1, PlacementBlocks
    <3> QED
      BY <3>1, <3>2 DEF WinBackIInv, PlacementHoldsMark
  <2> QED
    BY <2>1, <2>2
<1>d. AcceptedHasCall'
  <2> SUFFICES ASSUME NEW d \in Customer, placement'[d].stage = "accepted"
               PROVE  \E n \in 1 .. Len(calls) :
                        calls[n].customer = d /\ placement'[d].due <= calls[n].at
    BY DEF AcceptedHasCall
  <2>1. d # c
    BY <1>2, <1>4
  <2> QED
    BY <1>4, <2>1 DEF WinBackIInv, AcceptedHasCall
<1>e. CallKeepsItsMark'
  <2> SUFFICES ASSUME NEW n \in 1 .. Len(calls)
               PROVE  /\ calls[n].at <= now
                      /\ calls[n].customer \notin unseen =>
                           \/ attempts'[calls[n].customer] = calls[n].markedAt
                           \/ calls[n].markedAt + TTL <= now
    BY DEF CallKeepsItsMark
  <2>1. calls[n].customer \in Customer /\ calls[n].markedAt \in Nat
    BY <1>1, CallTyped
  <2>2. /\ calls[n].at <= now
        /\ calls[n].customer \notin unseen =>
             \/ attempts[calls[n].customer] = calls[n].markedAt
             \/ calls[n].markedAt + TTL <= now
    BY DEF WinBackIInv, CallKeepsItsMark
  <2>3. CASE ~Live(attempts[calls[n].customer], now)
    BY <2>2, <2>3, CallIsOver
  <2>4. CASE Live(attempts[calls[n].customer], now)
    BY <1>5, <2>1, <2>2, <2>4
  <2> QED
    BY <2>3, <2>4
<1>f. CallGoesOnRecord'
  <2> SUFFICES ASSUME NEW n \in 1 .. Len(calls), ~calls[n].late,
                      calls[n].customer \notin unseen
               PROVE  \/ /\ recorded[calls[n].customer] # Never
                         /\ calls[n].at <= recorded[calls[n].customer]
                      \/ /\ placement'[calls[n].customer].stage = "accepted"
                         /\ placement'[calls[n].customer].by # {}
    BY DEF CallGoesOnRecord
  <2>1. calls[n].customer \in Customer
    BY <1>1, CallTyped
  <2>2. \/ /\ recorded[calls[n].customer] # Never
           /\ calls[n].at <= recorded[calls[n].customer]
        \/ /\ placement[calls[n].customer].stage = "accepted"
           /\ placement[calls[n].customer].by # {}
    BY DEF WinBackIInv, CallGoesOnRecord
  <2> QED
    BY <1>4, <1>6, <2>1, <2>2
<1>g. PendingIsFresh'
  <2> SUFFICES ASSUME NEW n \in 1 .. Len(calls),
                      placement'[calls[n].customer].stage \in {"timer", "dialing"},
                      calls[n].customer \notin unseen
               PROVE  /\ calls[n].markedAt + TTL <= placement'[calls[n].customer].markedAt
                      /\ ~calls[n].late =>
                           calls[n].at + placement'[calls[n].customer].days
                             <= placement'[calls[n].customer].markedAt
    BY DEF PendingIsFresh
  <2>1. calls[n].customer \in Customer
    BY <1>1, CallTyped
  <2>2. CASE calls[n].customer = c
    BY <1>2, <1>4, <1>6, <2>2, CallIsOver, IdleIsOnRecord
  <2>3. CASE calls[n].customer # c
    BY <1>4, <2>1, <2>3 DEF WinBackIInv, PendingIsFresh
  <2> QED
    BY <2>2, <2>3
<1>h. OneWinBackPerWindow' /\ OneCallPerDay' /\ RecordHasCause'
  BY DEF WinBackIInv, OneWinBackPerWindow, OneCallPerDay, RecordHasCause
<1> QED
  BY <1>a, <1>b, <1>c, <1>d, <1>e, <1>f, <1>g, <1>h DEF WinBackIInv

LEMMA PlaceInd ==
  ASSUME ShortDelays, WinBackIInv, NEW t \in SweepId, Place(t)
  PROVE  WinBackIInv'
<1> DEFINE c == Head(sweep[t].todo)
<1>1. sweep[t].stage = "orders" /\ c \in Customer
  BY SweepTyped DEF Place, WinBackIInv
<1>2. ~InWindow(c, sweep[t].days)
  BY DEF Place, ToWinBack
<1>3. CASE /\ sweep' = [sweep EXCEPT ![t] = After(@)]
           /\ NoRecord(c)
           /\ UNCHANGED <<attempts, placement, quieted>>
  BY <1>1, <1>3, PlaceSkipInd DEF Place, NoRecord
<1>4. CASE /\ recorded' = [recorded EXCEPT ![c] = now]
           /\ quieted' = [quieted EXCEPT ![c] = @ \cup {now}]
           /\ sweep' = [sweep EXCEPT ![t] = After(@)]
           /\ UNCHANGED <<attempts, placement>>
  BY <1>1, <1>4, PlaceQuietInd DEF Place
<1>5. CASE /\ mode = "on" /\ ~Live(attempts[c], now) /\ placement[c] = Idle
           /\ attempts' = Marked(attempts, c, now)
           /\ placement' = [placement EXCEPT ![c] =
                [stage |-> IF delay > 0 THEN "timer" ELSE "dialing",
                 markedAt |-> now, due |-> now + delay,
                 by |-> IF delay > 0 THEN {} ELSE {t},
                 days |-> sweep[t].days]]
           /\ sweep' = [sweep EXCEPT ![t] =
                IF delay > 0 THEN After(@)
                ELSE [@ EXCEPT !.stage = "placing", !.due = now]]
           /\ NoRecord(c)
           /\ UNCHANGED quieted
  BY <1>1, <1>2, <1>5, PlaceCallInd DEF Place, NoRecord
<1> QED
  BY <1>3, <1>4, <1>5 DEF Place

\* A placement that ends without a call on record gives its mark back: the calls
\* of its customer are older than the mark was, or it is not known what came of it.
LEMMA PlacementEnds ==
  ASSUME WinBackIInv, TypeOK', SweepsInHand', NEW c \in Customer,
         Running(placement[c]),
         placement' = [placement EXCEPT ![c] = Idle],
         attempts' = Cleared(attempts, c),
         unseen \subseteq unseen',
         placement[c].stage # "accepted" \/ c \in unseen',
         UNCHANGED <<now, recorded, calls, quieted>>
  PROVE  WinBackIInv'
<1>1. /\ now \in Nat /\ TypeOK
      /\ placement \in [Customer -> {Idle} \cup Placement]
      /\ attempts \in [Customer -> Nat \cup {NoMark}]
  BY DEF WinBackIInv, TypeOK
<1>2. /\ placement'[c].stage = "idle" /\ ~Running(placement'[c])
      /\ \A d \in Customer \ {c} : /\ placement'[d] = placement[d]
                                    /\ attempts'[d] = attempts[d]
  BY <1>1 DEF Cleared, Running, Idle
<1>3. PlacementHoldsMark'
  BY <1>2 DEF WinBackIInv, PlacementHoldsMark
<1>4. AcceptedHasCall'
  BY <1>2 DEF WinBackIInv, AcceptedHasCall
<1>5. CallKeepsItsMark'
  <2> SUFFICES ASSUME NEW n \in 1 .. Len(calls)
               PROVE  /\ calls[n].at <= now
                      /\ calls[n].customer \notin unseen' =>
                           \/ attempts'[calls[n].customer] = calls[n].markedAt
                           \/ calls[n].markedAt + TTL <= now
    BY DEF CallKeepsItsMark
  <2>1. /\ calls[n].customer \in Customer /\ calls[n].markedAt \in Nat
        /\ calls[n].at <= now
    BY <1>1, CallTyped DEF WinBackIInv, CallKeepsItsMark
  <2>2. CASE calls[n].customer = c /\ c \notin unseen'
    <3>1. placement[c].stage \in {"timer", "dialing"} /\ c \notin unseen
      BY <1>1, <2>2, PlacementTyped
    <3>2. calls[n].markedAt + TTL <= placement[c].markedAt
      BY <2>2, <3>1 DEF WinBackIInv, PendingIsFresh
    <3>3. placement[c].markedAt <= now /\ placement[c].markedAt \in Nat
      BY <1>1, PlacementTyped DEF WinBackIInv, PlacementHoldsMark
    <3> QED
      BY <1>1, <2>1, <3>2, <3>3, ConstantsType
  <2>3. CASE calls[n].customer # c
    BY <1>2, <2>1, <2>3 DEF WinBackIInv, CallKeepsItsMark
  <2> QED
    BY <2>1, <2>2, <2>3
<1>6. CallGoesOnRecord'
  <2> SUFFICES ASSUME NEW n \in 1 .. Len(calls), ~calls[n].late,
                      calls[n].customer \notin unseen'
               PROVE  \/ /\ recorded[calls[n].customer] # Never
                         /\ calls[n].at <= recorded[calls[n].customer]
                      \/ /\ placement'[calls[n].customer].stage = "accepted"
                         /\ placement'[calls[n].customer].by # {}
    BY DEF CallGoesOnRecord
  <2>1. calls[n].customer \in Customer
    BY <1>1, CallTyped
  <2>2. \/ /\ recorded[calls[n].customer] # Never
           /\ calls[n].at <= recorded[calls[n].customer]
        \/ /\ placement[calls[n].customer].stage = "accepted"
           /\ placement[calls[n].customer].by # {}
    BY DEF WinBackIInv, CallGoesOnRecord
  <2> QED
    BY <1>2, <2>1, <2>2
<1>7. PendingIsFresh'
  <2> SUFFICES ASSUME NEW n \in 1 .. Len(calls),
                      placement'[calls[n].customer].stage \in {"timer", "dialing"},
                      calls[n].customer \notin unseen'
               PROVE  /\ calls[n].markedAt + TTL <= placement'[calls[n].customer].markedAt
                      /\ ~calls[n].late =>
                           calls[n].at + placement'[calls[n].customer].days
                             <= placement'[calls[n].customer].markedAt
    BY DEF PendingIsFresh
  <2>1. calls[n].customer \in Customer \ {c}
    BY <1>1, <1>2, CallTyped
  <2> QED
    BY <1>2, <2>1 DEF WinBackIInv, PendingIsFresh
<1>8. OneWinBackPerWindow' /\ OneCallPerDay' /\ RecordHasCause'
  BY DEF WinBackIInv, OneWinBackPerWindow, OneCallPerDay, RecordHasCause
<1> QED
  BY <1>3, <1>4, <1>5, <1>6, <1>7, <1>8 DEF WinBackIInv

LEMMA TimerFiresInd ==
  ASSUME WinBackIInv, NEW c \in Customer, TimerFires(c)
  PROVE  WinBackIInv'
<1>1. /\ TypeOK /\ now \in Nat
      /\ placement \in [Customer -> {Idle} \cup Placement]
      /\ Running(placement[c]) /\ placement[c].stage = "timer"
      /\ attempts \in [Customer -> Nat \cup {NoMark}]
  BY DEF WinBackIInv, TypeOK, TimerFires, Running
<1>2. CASE mode \in {"off", "quiet"}
  <2>1. /\ placement' = [placement EXCEPT ![c] = Idle]
        /\ attempts' = Cleared(attempts, c)
        /\ UNCHANGED <<env, now, recorded, sweep, calls, quieted, unseen>>
    BY <1>2 DEF TimerFires
  <2>2. TypeOK'
    BY <1>1, <2>1 DEF TypeOK, Cleared, env
  <2>3. SweepsInHand'
    <3>1. \A d \in Customer : Running(placement'[d]) => placement'[d] = placement[d]
      BY <1>1, <2>1 DEF Running, Idle
    <3> QED
      BY <2>1, <3>1 DEF WinBackIInv, SweepsInHand
  <2> QED
    BY <1>1, <2>1, <2>2, <2>3, PlacementEnds
<1>3. CASE mode \notin {"off", "quiet"}
  <2> DEFINE p == [placement[c] EXCEPT !.stage = "dialing", !.due = now]
  <2>1. placement[c] \in Placement
    BY <1>1, PlacementTyped
  <2>2. /\ p \in Placement /\ p.stage = "dialing" /\ p.due = now
        /\ p.markedAt = placement[c].markedAt /\ p.by = placement[c].by
        /\ p.days = placement[c].days
    BY <1>1, <2>1 DEF Placement
  <2>3. /\ placement' = [placement EXCEPT ![c] = p]
        /\ UNCHANGED <<env, now, attempts, recorded, sweep, calls, quieted, unseen>>
    BY <1>1, <1>3 DEF TimerFires
  <2> HIDE DEF p
  <2>4. /\ placement'[c] = p
        /\ \A d \in Customer \ {c} : placement'[d] = placement[d]
        /\ placement' \in [Customer -> {Idle} \cup Placement]
    BY <1>1, <2>2, <2>3
  <2>5. TypeOK'
    BY <1>1, <2>3, <2>4 DEF TypeOK, env
  <2>6. SweepsInHand'
    <3>1. \A d \in Customer : Running(placement'[d]) =>
            Running(placement[d]) /\ placement'[d].by = placement[d].by
      BY <1>1, <2>2, <2>4
    <3> QED
      BY <2>3, <3>1 DEF WinBackIInv, SweepsInHand
  <2>7. PlacementHoldsMark'
    <3> SUFFICES ASSUME NEW d \in Customer, Running(placement'[d])
                 PROVE  /\ attempts[d] = placement'[d].markedAt
                        /\ placement'[d].markedAt <= now
                        /\ placement'[d].stage # "timer" => placement'[d].due <= now
                        /\ now <= placement'[d].due + Latency
                        /\ placement'[d].due + Slack(placement'[d].stage)
                             < placement'[d].markedAt + TTL
      BY <2>3 DEF PlacementHoldsMark
    <3>1. CASE d = c
      <4>1. /\ attempts[c] = placement[c].markedAt /\ placement[c].markedAt <= now
            /\ now <= placement[c].due + Latency
            /\ placement[c].due + 2 * Latency < placement[c].markedAt + TTL
        BY <1>1 DEF WinBackIInv, PlacementHoldsMark, Slack
      <4>2. Slack(p.stage) = Latency
        BY <2>2 DEF Slack
      <4>3. placement[c].due \in Nat /\ placement[c].markedAt \in Nat
        BY <1>1, PlacementTyped
      <4> QED
        BY <1>1, <2>2, <2>4, <3>1, <4>1, <4>2, <4>3, ConstantsType
    <3>2. CASE d # c
      BY <2>4, <3>2 DEF WinBackIInv, PlacementHoldsMark
    <3> QED
      BY <3>1, <3>2
  <2>8. AcceptedHasCall'
    BY <2>2, <2>3, <2>4 DEF WinBackIInv, AcceptedHasCall
  <2>9. CallKeepsItsMark'
    BY <2>3 DEF WinBackIInv, CallKeepsItsMark
  <2>a. \A n \in 1 .. Len(calls) : calls[n].customer \in Customer
    BY <1>1, CallTyped
  <2>b. CallGoesOnRecord'
    BY <1>1, <2>3, <2>4, <2>a DEF WinBackIInv, CallGoesOnRecord
  <2>c. PendingIsFresh'
    BY <1>1, <2>2, <2>3, <2>4, <2>a DEF WinBackIInv, PendingIsFresh
  <2>d. OneWinBackPerWindow' /\ OneCallPerDay' /\ RecordHasCause'
    BY <2>3 DEF WinBackIInv, OneWinBackPerWindow, OneCallPerDay, RecordHasCause
  <2> QED
    BY <2>5, <2>6, <2>7, <2>8, <2>9, <2>b, <2>c, <2>d DEF WinBackIInv
<1> QED
  BY <1>2, <1>3

LEMMA DialFailsInd ==
  ASSUME WinBackIInv, NEW c \in Customer, DialFails(c)
  PROVE  WinBackIInv'
<1>1. /\ TypeOK /\ unseen \subseteq Customer
      /\ placement \in [Customer -> {Idle} \cup Placement]
      /\ attempts \in [Customer -> Nat \cup {NoMark}]
  BY DEF WinBackIInv, TypeOK
<1>2. /\ Running(placement[c])
      /\ placement' = [placement EXCEPT ![c] = Idle]
      /\ attempts' = Cleared(attempts, c)
      /\ sweep' = [t \in SweepId |-> IF t \in placement[c].by THEN Idle ELSE sweep[t]]
      /\ unseen \subseteq unseen' /\ unseen' \subseteq Customer
      /\ placement[c].stage # "accepted" \/ c \in unseen'
      /\ UNCHANGED <<env, now, recorded, calls, quieted>>
  BY <1>1 DEF DialFails, Running, Abandon, NoRecord
<1>3. sweep' \in [SweepId -> {Idle} \cup Sweep] /\ SweepsInHand'
  <2>1. placement[c].by \in SUBSET SweepId
    BY <1>1, <1>2, PlacementTyped
  <2>2. \A t \in placement[c].by : sweep[t].stage \in {"orders", "placing"}
    BY <1>2 DEF WinBackIInv, SweepsInHand
  <2>3. \A d \in Customer : Running(placement'[d]) =>
          \A t \in placement'[d].by :
            Running(placement[d]) /\ t \in placement[d].by \ placement[c].by
    <3> SUFFICES ASSUME NEW d \in Customer, Running(placement'[d]),
                        NEW t \in placement'[d].by
                 PROVE  Running(placement[d]) /\ t \in placement[d].by \ placement[c].by
      OBVIOUS
    <3>1. d # c
      BY <1>1, <1>2 DEF Running, Idle
    <3>2. placement'[d] = placement[d]
      BY <1>1, <1>2, <3>1
    <3>3. Running(placement[d]) /\ Head(sweep[t].todo) = d
      BY <3>2 DEF WinBackIInv, SweepsInHand
    <3> QED
      BY <1>2, <3>1, <3>2, <3>3 DEF WinBackIInv, SweepsInHand
  <2> QED
    BY <1>2, <2>1, <2>2, <2>3, SweepsMoveOn
<1>4. TypeOK'
  BY <1>1, <1>2, <1>3 DEF TypeOK, Cleared, env
<1> QED
  BY <1>2, <1>3, <1>4, PlacementEnds

LEMMA AcceptInd ==
  ASSUME WinBackIInv, NEW c \in Customer, Accept(c)
  PROVE  WinBackIInv'
<1> DEFINE call == [customer |-> c, at |-> now, markedAt |-> placement[c].markedAt,
                    late |-> placement[c].by = {}, days |-> placement[c].days]
           p == [placement[c] EXCEPT !.stage = "accepted"]
<1>1. /\ TypeOK /\ now \in Nat /\ calls \in Seq(Call) /\ Len(calls) \in Nat
      /\ placement \in [Customer -> {Idle} \cup Placement]
      /\ Running(placement[c]) /\ placement[c].stage = "dialing"
  BY DEF WinBackIInv, TypeOK, Accept, Running
<1>2. /\ placement[c] \in Placement /\ placement[c].markedAt \in Nat
      /\ placement[c].due \in Nat /\ placement[c].days \in Nat
  BY <1>1, PlacementTyped
<1>3. /\ p \in Placement /\ p.stage = "accepted" /\ p.due = placement[c].due
      /\ p.markedAt = placement[c].markedAt /\ p.by = placement[c].by
      /\ p.days = placement[c].days
  BY <1>2 DEF Placement
<1>4. /\ call \in Call /\ call.customer = c /\ call.at = now
      /\ call.markedAt = placement[c].markedAt
      /\ call.late <=> placement[c].by = {}
      /\ call.days = placement[c].days
  BY <1>1, <1>2 DEF Call, Placement
<1>5. /\ placement' = [placement EXCEPT ![c] = p] /\ calls' = Append(calls, call)
      /\ UNCHANGED <<env, now, attempts, recorded, sweep, quieted, unseen>>
  BY <1>1 DEF Accept
<1> HIDE DEF p, call
<1>6. /\ placement'[c] = p
      /\ \A d \in Customer \ {c} : placement'[d] = placement[d]
      /\ placement' \in [Customer -> {Idle} \cup Placement]
  BY <1>1, <1>3, <1>5
<1>7. /\ calls' \in Seq(Call) /\ Len(calls') = Len(calls) + 1
      /\ calls'[Len(calls')] = call
      /\ \A n \in 1 .. Len(calls) : calls'[n] = calls[n]
      /\ \A n \in 1 .. Len(calls') : n \in 1 .. Len(calls) \/ n = Len(calls')
  BY <1>1, <1>4, <1>5
<1>8. \A n \in 1 .. Len(calls) : calls[n].customer \in Customer
  BY <1>1, CallTyped
<1>9. \A d \in Customer : Running(placement'[d]) =>
        Running(placement[d]) /\ placement'[d].by = placement[d].by
  BY <1>1, <1>3, <1>6
<1>a. TypeOK' /\ SweepsInHand'
  <2>1. TypeOK'
    BY <1>1, <1>5, <1>6, <1>7 DEF TypeOK, env
  <2>2. SweepsInHand'
    BY <1>5, <1>9 DEF WinBackIInv, SweepsInHand
  <2> QED
    BY <2>1, <2>2
<1>b. /\ attempts[c] = placement[c].markedAt /\ placement[c].markedAt <= now
      /\ placement[c].due <= now /\ now <= placement[c].due + Latency
      /\ placement[c].due + Latency < placement[c].markedAt + TTL
  BY <1>1 DEF WinBackIInv, PlacementHoldsMark, Slack
<1>c. PlacementHoldsMark'
  <2> SUFFICES ASSUME NEW d \in Customer, Running(placement'[d])
               PROVE  /\ attempts[d] = placement'[d].markedAt
                      /\ placement'[d].markedAt <= now
                      /\ placement'[d].stage # "timer" => placement'[d].due <= now
                      /\ now <= placement'[d].due + Latency
                      /\ placement'[d].due + Slack(placement'[d].stage)
                           < placement'[d].markedAt + TTL
    BY <1>5 DEF PlacementHoldsMark
  <2>1. Slack(p.stage) = Latency
    BY <1>3 DEF Slack
  <2>2. CASE d = c
    BY <1>3, <1>6, <1>b, <2>1, <2>2
  <2>3. CASE d # c
    BY <1>6, <2>3 DEF WinBackIInv, PlacementHoldsMark
  <2> QED
    BY <2>2, <2>3
<1>d. AcceptedHasCall'
  <2> SUFFICES ASSUME NEW d \in Customer, placement'[d].stage = "accepted"
               PROVE  \E n \in 1 .. Len(calls') :
                        calls'[n].customer = d /\ placement'[d].due <= calls'[n].at
    BY DEF AcceptedHasCall
  <2>1. CASE d = c
    <3>1. Len(calls') \in 1 .. Len(calls')
      BY <1>1, <1>7
    <3> QED
      BY <1>3, <1>4, <1>6, <1>7, <1>b, <2>1, <3>1
  <2>2. CASE d # c
    <3>1. PICK n \in 1 .. Len(calls) :
            calls[n].customer = d /\ placement[d].due <= calls[n].at
      BY <1>6, <2>2 DEF WinBackIInv, AcceptedHasCall
    <3>2. n \in 1 .. Len(calls') /\ calls'[n] = calls[n]
      BY <1>1, <1>7
    <3> QED
      BY <1>6, <2>2, <3>1, <3>2
  <2> QED
    BY <2>1, <2>2
<1>e. CallKeepsItsMark'
  <2> SUFFICES ASSUME NEW n \in 1 .. Len(calls')
               PROVE  /\ calls'[n].at <= now
                      /\ calls'[n].customer \notin unseen =>
                           \/ attempts[calls'[n].customer] = calls'[n].markedAt
                           \/ calls'[n].markedAt + TTL <= now
    BY <1>5 DEF CallKeepsItsMark
  <2>1. CASE n \in 1 .. Len(calls)
    BY <1>7, <2>1 DEF WinBackIInv, CallKeepsItsMark
  <2>2. CASE n = Len(calls')
    BY <1>1, <1>4, <1>7, <1>b, <2>2
  <2> QED
    BY <1>7, <2>1, <2>2
<1>f. CallGoesOnRecord'
  <2> SUFFICES ASSUME NEW n \in 1 .. Len(calls'), ~calls'[n].late,
                      calls'[n].customer \notin unseen
               PROVE  \/ /\ recorded[calls'[n].customer] # Never
                         /\ calls'[n].at <= recorded[calls'[n].customer]
                      \/ /\ placement'[calls'[n].customer].stage = "accepted"
                         /\ placement'[calls'[n].customer].by # {}
    BY <1>5 DEF CallGoesOnRecord
  <2>1. CASE n \in 1 .. Len(calls)
    <3>1. \/ /\ recorded[calls[n].customer] # Never
             /\ calls[n].at <= recorded[calls[n].customer]
          \/ /\ placement[calls[n].customer].stage = "accepted"
             /\ placement[calls[n].customer].by # {}
      BY <1>7, <2>1 DEF WinBackIInv, CallGoesOnRecord
    <3> QED
      BY <1>1, <1>6, <1>7, <1>8, <2>1, <3>1
  <2>2. CASE n = Len(calls')
    BY <1>3, <1>4, <1>6, <1>7, <2>2
  <2> QED
    BY <1>7, <2>1, <2>2
<1>g. PendingIsFresh'
  <2> SUFFICES ASSUME NEW n \in 1 .. Len(calls'),
                      placement'[calls'[n].customer].stage \in {"timer", "dialing"},
                      calls'[n].customer \notin unseen
               PROVE  /\ calls'[n].markedAt + TTL <= placement'[calls'[n].customer].markedAt
                      /\ ~calls'[n].late =>
                           calls'[n].at + placement'[calls'[n].customer].days
                             <= placement'[calls'[n].customer].markedAt
    BY <1>5 DEF PendingIsFresh
  <2>1. n \in 1 .. Len(calls) /\ calls[n].customer # c
    BY <1>3, <1>4, <1>6, <1>7
  <2> QED
    BY <1>6, <1>7, <1>8, <2>1 DEF WinBackIInv, PendingIsFresh
\* The calls the customer has had are older than the mark of this one.
<1>h. ASSUME NEW m \in 1 .. Len(calls), calls[m].customer = c, c \notin unseen
      PROVE  /\ calls[m].markedAt + TTL <= placement[c].markedAt
             /\ ~calls[m].late => calls[m].at + placement[c].days <= now
  <2>1. /\ calls[m].markedAt + TTL <= placement[c].markedAt
        /\ ~calls[m].late =>
             calls[m].at + placement[c].days <= placement[c].markedAt
    BY <1>1, <1>h DEF WinBackIInv, PendingIsFresh
  <2>2. calls[m].at \in Nat
    BY <1>1, CallTyped
  <2> QED
    BY <1>1, <1>2, <1>b, <2>1, <2>2, ConstantsType
<1>i. OneWinBackPerWindow' /\ OneCallPerDay'
  <2> SUFFICES ASSUME NEW m \in 1 .. Len(calls'), NEW n \in 1 .. Len(calls'),
                      m < n, calls'[m].customer = calls'[n].customer,
                      calls'[m].customer \notin unseen
               PROVE  /\ ~calls'[m].late => calls'[m].at + calls'[n].days <= calls'[n].at
                      /\ calls'[m].markedAt + TTL <= calls'[n].markedAt
    BY <1>5 DEF OneWinBackPerWindow, OneCallPerDay
  <2>1. m \in 1 .. Len(calls) /\ calls'[m] = calls[m]
    BY <1>1, <1>7
  <2>2. CASE n \in 1 .. Len(calls)
    BY <1>7, <2>1, <2>2 DEF WinBackIInv, OneWinBackPerWindow, OneCallPerDay
  <2>3. CASE n = Len(calls')
    BY <1>4, <1>7, <1>h, <2>1, <2>3
  <2> QED
    BY <1>7, <2>2, <2>3
<1>j. RecordHasCause'
  <2> SUFFICES ASSUME NEW d \in Customer, recorded[d] # Never, recorded[d] \notin quieted[d]
               PROVE  \E n \in 1 .. Len(calls') :
                        /\ calls'[n].customer = d
                        /\ calls'[n].at \in recorded[d] - Latency .. recorded[d]
    BY <1>5 DEF RecordHasCause
  <2>1. PICK n \in 1 .. Len(calls) :
          /\ calls[n].customer = d
          /\ calls[n].at \in recorded[d] - Latency .. recorded[d]
    BY DEF WinBackIInv, RecordHasCause
  <2>2. n \in 1 .. Len(calls') /\ calls'[n] = calls[n]
    BY <1>1, <1>7
  <2> QED
    BY <2>1, <2>2
<1> QED
  BY <1>a, <1>c, <1>d, <1>e, <1>f, <1>g, <1>i, <1>j DEF WinBackIInv

LEMMA DialOkInd ==
  ASSUME WinBackIInv, NEW c \in Customer, DialOk(c)
  PROVE  WinBackIInv'
<1>1. /\ TypeOK /\ now \in Nat /\ recorded \in [Customer -> Nat \cup {Never}]
      /\ placement \in [Customer -> {Idle} \cup Placement]
      /\ Running(placement[c]) /\ placement[c].stage = "accepted"
  BY DEF WinBackIInv, TypeOK, DialOk, Running
<1>2. /\ placement' = [placement EXCEPT ![c] = Idle]
      /\ sweep' = [t \in SweepId |-> IF t \in placement[c].by THEN After(sweep[t]) ELSE sweep[t]]
      /\ recorded' = IF placement[c].by = {} THEN recorded
                     ELSE [recorded EXCEPT ![c] = now]
      /\ UNCHANGED <<env, now, attempts, calls, quieted, unseen>>
  BY DEF DialOk
<1>3. /\ placement'[c].stage = "idle" /\ ~Running(placement'[c])
      /\ \A d \in Customer \ {c} : placement'[d] = placement[d]
      /\ \A d \in Customer : recorded'[d] =
           IF d = c /\ placement[c].by # {} THEN now ELSE recorded[d]
  BY <1>1, <1>2 DEF Running, Idle
<1>4. sweep' \in [SweepId -> {Idle} \cup Sweep] /\ SweepsInHand'
  <2>1. placement[c].by \in SUBSET SweepId
    BY <1>1, PlacementTyped
  <2>2. \A t \in placement[c].by : sweep[t].stage \in {"orders", "placing"}
    BY <1>1 DEF WinBackIInv, SweepsInHand
  <2>3. \A d \in Customer : Running(placement'[d]) =>
          \A t \in placement'[d].by :
            Running(placement[d]) /\ t \in placement[d].by \ placement[c].by
    <3> SUFFICES ASSUME NEW d \in Customer, Running(placement'[d]),
                        NEW t \in placement'[d].by
                 PROVE  Running(placement[d]) /\ t \in placement[d].by \ placement[c].by
      OBVIOUS
    <3>1. d # c /\ placement'[d] = placement[d]
      BY <1>3
    <3>2. Running(placement[d]) /\ Head(sweep[t].todo) = d
      BY <3>1 DEF WinBackIInv, SweepsInHand
    <3> QED
      BY <1>1, <3>1, <3>2 DEF WinBackIInv, SweepsInHand
  <2> QED
    BY <1>2, <2>1, <2>2, <2>3, SweepsMoveOn
<1>5. TypeOK'
  <2>1. recorded' \in [Customer -> Nat \cup {Never}]
    BY <1>1, <1>2
  <2> QED
    BY <1>1, <1>2, <1>4, <2>1 DEF TypeOK, env
<1>6. PlacementHoldsMark' /\ AcceptedHasCall'
  BY <1>2, <1>3 DEF WinBackIInv, PlacementHoldsMark, AcceptedHasCall
<1>7. CallKeepsItsMark'
  BY <1>2 DEF WinBackIInv, CallKeepsItsMark
<1>8. CallGoesOnRecord'
  <2> SUFFICES ASSUME NEW n \in 1 .. Len(calls), ~calls[n].late,
                      calls[n].customer \notin unseen
               PROVE  \/ /\ recorded'[calls[n].customer] # Never
                         /\ calls[n].at <= recorded'[calls[n].customer]
                      \/ /\ placement'[calls[n].customer].stage = "accepted"
                         /\ placement'[calls[n].customer].by # {}
    BY <1>2 DEF CallGoesOnRecord
  <2>1. calls[n].customer \in Customer /\ calls[n].at <= now
    BY <1>1, CallTyped DEF WinBackIInv, CallKeepsItsMark
  <2>2. \/ /\ recorded[calls[n].customer] # Never
           /\ calls[n].at <= recorded[calls[n].customer]
        \/ /\ placement[calls[n].customer].stage = "accepted"
           /\ placement[calls[n].customer].by # {}
    BY DEF WinBackIInv, CallGoesOnRecord
  <2> QED
    BY <1>1, <1>3, <2>1, <2>2 DEF Never
<1>9. PendingIsFresh'
  <2>1. \A n \in 1 .. Len(calls) : calls[n].customer \in Customer
    BY <1>1, CallTyped
  <2> QED
    BY <1>2, <1>3, <2>1 DEF WinBackIInv, PendingIsFresh
<1>a. OneWinBackPerWindow' /\ OneCallPerDay'
  BY <1>2 DEF WinBackIInv, OneWinBackPerWindow, OneCallPerDay
<1>b. RecordHasCause'
  <2> SUFFICES ASSUME NEW d \in Customer, recorded'[d] # Never, recorded'[d] \notin quieted[d]
               PROVE  \E n \in 1 .. Len(calls) :
                        /\ calls[n].customer = d
                        /\ calls[n].at \in recorded'[d] - Latency .. recorded'[d]
    BY <1>2 DEF RecordHasCause
  <2>1. CASE d = c /\ placement[c].by # {}
    <3>1. PICK n \in 1 .. Len(calls) :
            calls[n].customer = c /\ placement[c].due <= calls[n].at
      BY <1>1 DEF WinBackIInv, AcceptedHasCall
    <3>2. calls[n].at <= now /\ now <= placement[c].due + Latency
      BY <1>1 DEF WinBackIInv, CallKeepsItsMark, PlacementHoldsMark
    <3>3. calls[n].at \in Nat /\ placement[c].due \in Nat
      BY <1>1, CallTyped, PlacementTyped
    <3>4. calls[n].at \in now - Latency .. now
      BY <1>1, <3>1, <3>2, <3>3, ConstantsType
    <3> QED
      BY <1>3, <2>1, <3>1, <3>4
  <2>2. CASE ~(d = c /\ placement[c].by # {})
    BY <1>3, <2>2 DEF WinBackIInv, RecordHasCause
  <2> QED
    BY <2>1, <2>2
<1> QED
  BY <1>4, <1>5, <1>6, <1>7, <1>8, <1>9, <1>a, <1>b DEF WinBackIInv

LEMMA EnvInd ==
  ASSUME WinBackIInv, (\E c \in Customer : NewOrder(c)) \/ ChangeMode
  PROVE  WinBackIInv'
<1>1. /\ TypeOK /\ now \in Nat /\ MaxOrders \in Nat /\ MaxChanges \in Nat
      /\ lastOrder \in [Customer -> Int]
      /\ orders \in 0 .. MaxOrders /\ changes \in 0 .. MaxChanges
  BY WinBackAssumption DEF WinBackIInv, TypeOK
<1>2. UNCHANGED <<now, attempts, recorded, sweep, placement, calls, quieted, unseen>>
  BY DEF NewOrder, ChangeMode
<1>3. SweepsInHand'
  BY <1>2 DEF WinBackIInv, SweepsInHand
<1>4. TypeOK'
  <2>1. CASE \E c \in Customer : NewOrder(c)
    <3>1. lastOrder' \in [Customer -> Int] /\ orders' \in 0 .. MaxOrders
      BY <1>1, <2>1 DEF NewOrder
    <3> QED
      BY <1>1, <1>2, <2>1, <3>1 DEF TypeOK, NewOrder
  <2>2. CASE ChangeMode
    BY <1>1, <1>2, <2>2 DEF TypeOK, ChangeMode
  <2> QED
    BY <2>1, <2>2
<1> QED
  BY <1>2, <1>3, <1>4, Aside

LEMMA TickInd ==
  ASSUME WinBackIInv, Tick
  PROVE  WinBackIInv'
<1>1. /\ TypeOK /\ now \in Nat /\ now' = now + 1
      /\ UNCHANGED <<env, attempts, recorded, sweep, placement, calls, quieted, unseen>>
  BY DEF WinBackIInv, TypeOK, Tick
<1>2. TypeOK'
  BY <1>1 DEF TypeOK, env
<1>3. SweepsInHand' /\ AcceptedHasCall' /\ CallGoesOnRecord' /\ PendingIsFresh'
  BY <1>1 DEF WinBackIInv, SweepsInHand, AcceptedHasCall, CallGoesOnRecord, PendingIsFresh
<1>4. PlacementHoldsMark'
  <2> SUFFICES ASSUME NEW c \in Customer, Running(placement[c])
               PROVE  /\ attempts[c] = placement[c].markedAt
                      /\ placement[c].markedAt <= now'
                      /\ placement[c].stage # "timer" => placement[c].due <= now'
                      /\ now' <= placement[c].due + Latency
                      /\ placement[c].due + Slack(placement[c].stage)
                           < placement[c].markedAt + TTL
    BY <1>1 DEF PlacementHoldsMark
  <2>1. now < placement[c].due + Latency
    BY DEF Tick
  <2>2. placement[c].due \in Nat /\ placement[c].markedAt \in Nat
    BY <1>1, PlacementTyped
  <2> QED
    BY <1>1, <2>1, <2>2, ConstantsType DEF WinBackIInv, PlacementHoldsMark
<1>5. CallKeepsItsMark'
  <2> SUFFICES ASSUME NEW n \in 1 .. Len(calls)
               PROVE  /\ calls[n].at <= now'
                      /\ calls[n].customer \notin unseen =>
                           \/ attempts[calls[n].customer] = calls[n].markedAt
                           \/ calls[n].markedAt + TTL <= now'
    BY <1>1 DEF CallKeepsItsMark
  <2>1. calls[n].at \in Nat /\ calls[n].markedAt \in Nat
    BY <1>1, CallTyped
  <2> QED
    BY <1>1, <2>1, ConstantsType DEF WinBackIInv, CallKeepsItsMark
<1>6. OneWinBackPerWindow' /\ OneCallPerDay' /\ RecordHasCause'
  BY <1>1 DEF WinBackIInv, OneWinBackPerWindow, OneCallPerDay, RecordHasCause
<1> QED
  BY <1>2, <1>3, <1>4, <1>5, <1>6 DEF WinBackIInv

LEMMA CrashInd ==
  ASSUME WinBackIInv, Crash
  PROVE  WinBackIInv'
<1>1. /\ TypeOK /\ unseen \subseteq Customer
      /\ sweep' = [t \in SweepId |-> Idle] /\ placement' = [c \in Customer |-> Idle]
      /\ unseen \subseteq unseen' /\ unseen' \subseteq Customer
      /\ \A c \in Customer : placement[c].stage = "accepted" => c \in unseen'
      /\ UNCHANGED <<env, now, attempts, recorded, calls, quieted>>
  BY DEF WinBackIInv, TypeOK, Crash
<1>2. /\ \A c \in Customer : placement'[c].stage = "idle" /\ ~Running(placement'[c])
      /\ \A t \in SweepId : sweep'[t].stage = "idle"
  BY <1>1 DEF Running, Idle
<1>3. \A n \in 1 .. Len(calls) : calls[n].customer \in Customer
  BY <1>1, CallTyped
<1>4. TypeOK'
  BY <1>1 DEF TypeOK, env
<1>5. SweepsInHand' /\ PlacementHoldsMark' /\ AcceptedHasCall'
  BY <1>1, <1>2 DEF SweepsInHand, PlacementHoldsMark, AcceptedHasCall
<1>6. CallKeepsItsMark'
  BY <1>1 DEF WinBackIInv, CallKeepsItsMark
<1>7. CallGoesOnRecord'
  BY <1>1, <1>2, <1>3 DEF WinBackIInv, CallGoesOnRecord
<1>8. PendingIsFresh'
  BY <1>1, <1>2, <1>3 DEF PendingIsFresh
<1>9. OneWinBackPerWindow' /\ OneCallPerDay' /\ RecordHasCause'
  BY <1>1 DEF WinBackIInv, OneWinBackPerWindow, OneCallPerDay, RecordHasCause
<1> QED
  BY <1>4, <1>5, <1>6, <1>7, <1>8, <1>9 DEF WinBackIInv

LEMMA StutterInd ==
  ASSUME WinBackIInv, UNCHANGED vars
  PROVE  WinBackIInv'
<1>1. TypeOK' /\ SweepsInHand'
  BY DEF WinBackIInv, TypeOK, SweepsInHand, vars, env
<1> QED
  BY <1>1, Aside DEF vars

\* No step of a sweep, a placement, a merchant or the clock breaks the inductive
\* invariant.
LEMMA NextInd ==
  ASSUME ShortDelays, WinBackIInv, [Next]_vars
  PROVE  WinBackIInv'
<1>1. CASE \E t \in SweepId : StartSweep(t)
  BY <1>1, StartSweepInd
<1>2. CASE \E t \in SweepId : SweepStep(t)
  BY <1>2, ListInd, PassOverInd, PlaceInd DEF SweepStep
<1>3. CASE \E c \in Customer : PlacementStep(c)
  BY <1>3, TimerFiresInd, AcceptInd, DialOkInd, DialFailsInd DEF PlacementStep
<1>4. CASE (\E c \in Customer : NewOrder(c)) \/ ChangeMode
  BY <1>4, EnvInd
<1>5. CASE Tick
  BY <1>5, TickInd
<1>6. CASE Crash
  BY <1>6, CrashInd
<1>7. CASE UNCHANGED vars
  BY <1>7, StutterInd
<1> QED
  BY <1>1, <1>2, <1>3, <1>4, <1>5, <1>6, <1>7 DEF Next

\* Under ShortDelays a placement of runWinBackSweep is over before the mark of its
\* customer expires, and whatever sweeps run side by side, marks, records and calls
\* stay in step.
THEOREM MarksAndRecordsInStep ==
  ASSUME ShortDelays
  PROVE  Spec => []WinBackIInv
<1>1. WinBackIInv /\ [Next]_vars => WinBackIInv'
  BY NextInd
<1> QED
  BY Inits, <1>1, PTL DEF Spec

\* winBack.js: under ShortDelays a customer whose call a sweep has placed is not won
\* back again within the winBackDays that the later sweep has read, unless the
\* answer to one of the customer's calls was lost.
THEOREM NoSecondWinBack ==
  ASSUME ShortDelays
  PROVE  Spec => []OneWinBackPerWindow
<1>1. WinBackIInv => OneWinBackPerWindow
  BY DEF WinBackIInv
<1> QED
  BY <1>1, MarksAndRecordsInStep, PTL

\* store.js, markAttempt: under ShortDelays the attempts of two calls to a customer
\* are a day apart, also of those that a sweep only schedules, unless the answer to
\* one of the customer's calls was lost.
THEOREM WinBackMarksADayApart ==
  ASSUME ShortDelays
  PROVE  Spec => []OneCallPerDay
<1>1. WinBackIInv => OneCallPerDay
  BY DEF WinBackIInv
<1> QED
  BY <1>1, MarksAndRecordsInStep, PTL

\* winBack.js: under ShortDelays a customer is on record for a call Telenow took
\* within the last latency or for quiet hours, never for a placement that was refused.
THEOREM EveryRecordHasCause ==
  ASSUME ShortDelays
  PROVE  Spec => []RecordHasCause
<1>1. WinBackIInv => RecordHasCause
  BY DEF WinBackIInv
<1> QED
  BY <1>1, MarksAndRecordsInStep, PTL
=============================================================================
