----------------------------- MODULE LeadProofs -----------------------------
(***************************************************************************)
(* Proofs about LeadCallback: rows and callbacks of one customer are a TTL  *)
(* apart, and a row tells what became of its call.                          *)
(*                                                                         *)
(* The witness of a handled event may vanish (a row is pruned, a callback   *)
(* ends) and its fields never change, so most steps only take handlings     *)
(* away; FewerHandlings is about those.  Deliver adds one, and a failed     *)
(* placement takes a mark back.  What a row tells rests on lemmas about     *)
(* what each action does to the rows (...Effect).                           *)
(***************************************************************************)
EXTENDS LeadCallback, TLAPS

Rows == [1 .. MaxRows -> {NoRow} \cup Row]

Statuses == {"queued", "skipped", "placed", "failed", "completed"}

\* A patch keeps who a row is about and when it was made.
LEMMA UpdateKeeps ==
  ASSUME rows \in Rows, NEW id \in 1 .. MaxRows, NEW patch,
         patch.status \in Statuses,
         "session" \in DOMAIN patch => patch.session \in Nat,
         Update(id, patch)
  PROVE  /\ rows' \in Rows
         /\ \A i \in 1 .. MaxRows :
              Exists(i)' => /\ Exists(i)
                            /\ rows'[i].customer = rows[i].customer
                            /\ rows'[i].createdAt = rows[i].createdAt
<1>1. CASE ~Exists(id)
  BY <1>1 DEF Update, Exists
<1>2. CASE Exists(id)
  <2> DEFINE session == IF "session" \in DOMAIN patch THEN patch.session
                                                      ELSE rows[id].session
             row == [rows[id] EXCEPT !.status = patch.status, !.session = session]
  <2>1. rows[id] \in Row
    BY <1>2 DEF Rows, Exists, NoRow
  <2>2. session \in Nat
    BY <2>1 DEF Row
  <2>3. row \in Row /\ row.customer = rows[id].customer
        /\ row.createdAt = rows[id].createdAt
    BY <2>1, <2>2 DEF Row, Statuses
  <2>4. rows' = [rows EXCEPT ![id] = row]
    BY <1>2, <2>1 DEF Update, Rows, Row
  <2> QED
    BY <1>2, <2>3, <2>4 DEF Rows, Exists
<1> QED
  BY <1>1, <1>2

\* What bears witness of a handling.
LEMMA Witnesses ==
  ASSUME NEW x \in Handlings
  PROVE  \/ \E i \in 1 .. MaxRows :
              Exists(i) /\ x = Handling(i, rows[i].customer, rows[i].createdAt)
         \/ \E t \in TaskId :
              /\ Active(t) /\ Current(task[t])
              /\ x = Handling(task[t].lead, task[t].customer, task[t].markedAt)
         \/ \E n \in DOMAIN calls :
              /\ Current(calls[n])
              /\ x = Handling(calls[n].lead, calls[n].customer, calls[n].markedAt)
BY DEF Handlings

LEMMA HandlingTypes ==
  ASSUME TypeOK, NEW x \in Handlings
  PROVE  x.lead \in 1 .. MaxRows /\ x.customer \in Customer /\ x.at \in Nat
<1>1. ASSUME NEW i \in 1 .. MaxRows, Exists(i),
             x = Handling(i, rows[i].customer, rows[i].createdAt)
      PROVE  x.lead \in 1 .. MaxRows /\ x.customer \in Customer /\ x.at \in Nat
  BY <1>1 DEF TypeOK, Exists, NoRow, Row, Handling
<1>2. ASSUME NEW t \in TaskId, Active(t),
             x = Handling(task[t].lead, task[t].customer, task[t].markedAt)
      PROVE  x.lead \in 1 .. MaxRows /\ x.customer \in Customer /\ x.at \in Nat
  BY <1>2 DEF TypeOK, Active, Idle, Task, Handling
<1>3. ASSUME NEW n \in DOMAIN calls,
             x = Handling(calls[n].lead, calls[n].customer, calls[n].markedAt)
      PROVE  x.lead \in 1 .. MaxRows /\ x.customer \in Customer /\ x.at \in Nat
  <2>1. calls[n] \in Call
    BY DEF TypeOK
  <2> QED
    BY <1>3, <2>1 DEF Call, Handling
<1> QED
  BY <1>1, <1>2, <1>3, Witnesses

\* A step that adds no handling, leaves the marks alone and forgets no failure
\* breaks neither part.
LEMMA FewerHandlings ==
  ASSUME TypeOK, HandlingHoldsMark, HandlingsApart,
         Handlings' \subseteq Handlings, released \subseteq released',
         attempts' = attempts, leadSeq' = leadSeq, now' \in Nat, now <= now'
  PROVE  HandlingHoldsMark' /\ HandlingsApart'
<1>1. HandlingHoldsMark'
  <2> SUFFICES ASSUME NEW x \in Handlings'
               PROVE  /\ x.lead <= leadSeq' /\ x.at <= now'
                      /\ \/ x.lead \in released'
                         \/ x.at + TTL <= now'
                         \/ attempts'[x.customer] = x.at
    BY DEF HandlingHoldsMark
  <2>1. x \in Handlings /\ x.at \in Nat /\ now \in Nat
    BY HandlingTypes DEF TypeOK
  <2> QED
    BY <2>1, LeadAssumption DEF HandlingHoldsMark
<1>2. HandlingsApart'
  BY DEF HandlingsApart
<1> QED
  BY <1>1, <1>2

\* A step that leaves the rows' owners, the callbacks' and the calls' alone, or
\* drops some, adds no handling.
LEMMA NoNewHandling ==
  ASSUME installs' = installs,
         \A i \in 1 .. MaxRows :
           Exists(i)' => /\ Exists(i)
                         /\ rows'[i].customer = rows[i].customer
                         /\ rows'[i].createdAt = rows[i].createdAt,
         \A t \in TaskId :
           Active(t)' => /\ Active(t)
                         /\ task'[t].install = task[t].install
                         /\ task'[t].lead = task[t].lead
                         /\ task'[t].customer = task[t].customer
                         /\ task'[t].markedAt = task[t].markedAt,
         calls' = calls
  PROVE  Handlings' \subseteq Handlings
<1> SUFFICES ASSUME NEW x \in Handlings'
             PROVE  x \in Handlings
  OBVIOUS
<1>1. \/ \E i \in 1 .. MaxRows :
           Exists(i)' /\ x = Handling(i, rows'[i].customer, rows'[i].createdAt)
      \/ \E t \in TaskId :
           /\ Active(t)' /\ task'[t].install = installs'
           /\ x = Handling(task'[t].lead, task'[t].customer, task'[t].markedAt)
      \/ \E n \in DOMAIN calls' :
           /\ calls'[n].install = installs'
           /\ x = Handling(calls'[n].lead, calls'[n].customer, calls'[n].markedAt)
  BY DEF Handlings, Current, Handling
<1> QED
  BY <1>1 DEF Handlings, Current
-----------------------------------------------------------------------------
LEMMA TaskTyped ==
  ASSUME TypeOK, NEW t \in TaskId, Active(t)
  PROVE  task[t] \in Task
BY DEF TypeOK, Active, Idle

LEMMA RowsTyped == TypeOK => rows \in Rows
BY DEF TypeOK, Rows

\* A callback that ends.
LEMMA TaskEnds ==
  ASSUME TypeOK, NEW t \in TaskId, task' = [task EXCEPT ![t] = Idle]
  PROVE  /\ task' \in [TaskId -> {Idle} \cup Task]
         /\ \A u \in TaskId : Active(u)' => Active(u) /\ task'[u] = task[u]
BY DEF TypeOK, Active, Idle

LEMMA RequestsStay ==
  ASSUME MarksIInv, now' = now, installs' = installs, calls' = calls,
         \A u \in TaskId : Active(u)' => Active(u) /\ task'[u] = task[u]
  PROVE  RequestsAreQuick' /\ InstallsArePast'
BY DEF MarksIInv, RequestsAreQuick, InstallsArePast

LEMMA Inits == Init => MarksIInv
<1> SUFFICES ASSUME Init PROVE MarksIInv
  OBVIOUS
<1>1. TypeOK
  BY LeadAssumption DEF Init, TypeOK, NoMarks, NoMark, NoRow
<1>2. Handlings = {}
  BY DEF Init, Handlings, Exists, Active, NoRow, Idle
<1>3. RequestsAreQuick /\ InstallsArePast
  BY DEF Init, RequestsAreQuick, InstallsArePast, Active, Idle
<1> QED
  BY <1>1, <1>2, <1>3 DEF MarksIInv, HandlingHoldsMark, HandlingsApart

\* The calm steps: the timer, Telenow's taking of the call, the answer, a result.
LEMMA TimerFiresInd ==
  ASSUME MarksIInv, NEW t \in TaskId, TimerFires(t)
  PROVE  MarksIInv' /\ Handlings' \subseteq Handlings
<1> DEFINE fired == [task[t] EXCEPT !.stage = "dialing", !.due = now]
<1>1. TypeOK /\ Active(t) /\ task[t] \in Task /\ now \in Nat
  BY TaskTyped DEF MarksIInv, TimerFires, Active, TypeOK
<1>2. task[t].late
  BY <1>1 DEF MarksIInv, TimerFires, RequestsAreQuick
<1>3. /\ fired \in Task
      /\ fired.lead = task[t].lead /\ fired.customer = task[t].customer
      /\ fired.markedAt = task[t].markedAt /\ fired.install = task[t].install
  BY <1>1 DEF Task
<1>4. fired.late
  BY <1>1, <1>2 DEF Task
<1>5. \/ task' = [task EXCEPT ![t] = fired]
      \/ task' = [task EXCEPT ![t] = Idle]
  BY <1>1 DEF TimerFires, TypeOK, Task
<1> HIDE DEF fired
<1>6. /\ task' \in [TaskId -> {Idle} \cup Task]
      /\ \A u \in TaskId :
           Active(u)' => /\ Active(u)
                         /\ task'[u] = task[u] \/ (task'[u] = fired /\ u = t)
  BY <1>1, <1>3, <1>5 DEF TypeOK, Active, Idle
<1>7. UNCHANGED <<now, attempts, leadSeq, rows, calls, installs, released, cut, foreign>>
  BY DEF TimerFires, history
<1>8. TypeOK'
  BY <1>1, <1>6, <1>7 DEF TypeOK
<1>9. Handlings' \subseteq Handlings
  BY <1>3, <1>6, <1>7, NoNewHandling DEF Exists
<1>a. HandlingHoldsMark' /\ HandlingsApart'
  BY <1>1, <1>7, <1>9, FewerHandlings DEF MarksIInv
<1>b. RequestsAreQuick'
  BY <1>4, <1>6, <1>7 DEF MarksIInv, RequestsAreQuick, Active
<1>c. InstallsArePast'
  BY <1>3, <1>6, <1>7 DEF MarksIInv, InstallsArePast, Active
<1> QED
  BY <1>8, <1>9, <1>a, <1>b, <1>c DEF MarksIInv

LEMMA AcceptInd ==
  ASSUME MarksIInv, NEW t \in TaskId, Accept(t)
  PROVE  MarksIInv' /\ Handlings' \subseteq Handlings
<1> DEFINE call == [lead |-> task[t].lead, customer |-> task[t].customer,
                    markedAt |-> task[t].markedAt, late |-> task[t].late,
                    install |-> task[t].install]
           taken == [task[t] EXCEPT !.stage = "accepted", !.session = Len(calls) + 1]
<1>1. /\ TypeOK /\ Active(t) /\ task[t] \in Task /\ now \in Nat
      /\ calls \in Seq(Call) /\ Len(calls) \in Nat
  BY TaskTyped DEF MarksIInv, Accept, Active, TypeOK
<1>2. /\ call \in Call
      /\ call.lead = task[t].lead /\ call.customer = task[t].customer
      /\ call.markedAt = task[t].markedAt /\ call.install = task[t].install
  BY <1>1 DEF Call, Task
<1>3. /\ taken \in Task
      /\ taken.lead = task[t].lead /\ taken.customer = task[t].customer
      /\ taken.markedAt = task[t].markedAt /\ taken.install = task[t].install
      /\ taken.due = task[t].due /\ taken.stage # "timer"
  <2>1. Len(calls) + 1 \in Nat
    BY <1>1
  <2>2. taken \in Task
    BY <1>1, <2>1 DEF Task
  <2>3. /\ taken.lead = task[t].lead /\ taken.customer = task[t].customer
        /\ taken.markedAt = task[t].markedAt /\ taken.install = task[t].install
        /\ taken.due = task[t].due /\ taken.stage = "accepted"
    BY <1>1 DEF Task
  <2> QED
    BY <2>2, <2>3
<1>4. taken.late => task[t].late
  BY <1>1 DEF Task
<1>5. task[t].late => taken.late
  BY <1>1 DEF Task
<1>6. calls' = Append(calls, call)
  BY DEF Accept
<1>7. task' = [task EXCEPT ![t] = taken]
  BY <1>1 DEF Accept, TypeOK, Task
<1> HIDE DEF call, taken
<1>8. /\ task' \in [TaskId -> {Idle} \cup Task]
      /\ \A u \in TaskId :
           Active(u)' => /\ Active(u)
                         /\ task'[u] = task[u] \/ (task'[u] = taken /\ u = t)
  BY <1>1, <1>3, <1>7 DEF TypeOK, Active
<1>9. /\ calls' \in Seq(Call)
      /\ \A n \in DOMAIN calls' :
           (n \in DOMAIN calls /\ calls'[n] = calls[n]) \/ calls'[n] = call
  BY <1>1, <1>2, <1>6
<1>a. UNCHANGED <<now, attempts, leadSeq, rows, installs, released, cut, foreign>>
  BY DEF Accept, history
<1>b. TypeOK'
  BY <1>1, <1>8, <1>9, <1>a DEF TypeOK
<1>c. Handlings' \subseteq Handlings
  <2> SUFFICES ASSUME NEW x \in Handlings'
               PROVE  x \in Handlings
    OBVIOUS
  <2>1. \/ \E i \in 1 .. MaxRows :
             Exists(i)' /\ x = Handling(i, rows'[i].customer, rows'[i].createdAt)
        \/ \E u \in TaskId :
             /\ Active(u)' /\ task'[u].install = installs'
             /\ x = Handling(task'[u].lead, task'[u].customer, task'[u].markedAt)
        \/ \E n \in DOMAIN calls' :
             /\ calls'[n].install = installs'
             /\ x = Handling(calls'[n].lead, calls'[n].customer, calls'[n].markedAt)
    BY DEF Handlings, Current, Handling
  <2>2. CASE \E i \in 1 .. MaxRows :
               Exists(i)' /\ x = Handling(i, rows'[i].customer, rows'[i].createdAt)
    BY <1>a, <2>2 DEF Handlings, Exists
  <2>3. CASE \E u \in TaskId :
               /\ Active(u)' /\ task'[u].install = installs'
               /\ x = Handling(task'[u].lead, task'[u].customer, task'[u].markedAt)
    <3>1. PICK u \in TaskId :
            /\ Active(u)' /\ task'[u].install = installs'
            /\ x = Handling(task'[u].lead, task'[u].customer, task'[u].markedAt)
      BY <2>3
    <3>2. /\ Active(u) /\ task[u].install = installs
          /\ x = Handling(task[u].lead, task[u].customer, task[u].markedAt)
      BY <1>3, <1>8, <1>a, <3>1
    <3> QED
      BY <3>2 DEF Handlings, Current
  <2>4. CASE \E n \in DOMAIN calls' :
               /\ calls'[n].install = installs'
               /\ x = Handling(calls'[n].lead, calls'[n].customer, calls'[n].markedAt)
    <3>1. PICK n \in DOMAIN calls' :
            /\ calls'[n].install = installs'
            /\ x = Handling(calls'[n].lead, calls'[n].customer, calls'[n].markedAt)
      BY <2>4
    <3>2. CASE n \in DOMAIN calls /\ calls'[n] = calls[n]
      BY <1>a, <3>1, <3>2 DEF Handlings, Current
    <3>3. CASE calls'[n] = call
      BY <1>1, <1>2, <1>a, <3>1, <3>3 DEF Handlings, Current
    <3> QED
      BY <1>9, <3>2, <3>3
  <2> QED
    BY <2>1, <2>2, <2>3, <2>4
<1>d. HandlingHoldsMark' /\ HandlingsApart'
  BY <1>1, <1>a, <1>c, FewerHandlings DEF MarksIInv
<1>e. RequestsAreQuick'
  BY <1>3, <1>5, <1>8, <1>a DEF MarksIInv, RequestsAreQuick, Active
<1>f. InstallsArePast'
  BY <1>1, <1>2, <1>3, <1>8, <1>9, <1>a DEF MarksIInv, InstallsArePast, Active
<1> QED
  BY <1>b, <1>c, <1>d, <1>e, <1>f DEF MarksIInv

\* The answer of initiateCall patches the row of an immediate call at most.
LEMMA DialRows ==
  ASSUME TypeOK, NEW t \in TaskId, DialOk(t) \/ DialFails(t)
  PROVE  /\ rows' \in Rows
         /\ \A i \in 1 .. MaxRows :
              Exists(i)' => /\ Exists(i)
                            /\ rows'[i].customer = rows[i].customer
                            /\ rows'[i].createdAt = rows[i].createdAt
<1>1. task[t] \in Task /\ rows \in Rows
  BY TaskTyped, RowsTyped DEF DialOk, DialFails, Active
<1>2. CASE task[t].late
  BY <1>1, <1>2 DEF DialOk, DialFails, Exists
<1>3. CASE ~task[t].late /\ DialOk(t)
  <2>0. PICK session \in Told(t) :
          Update(task[t].lead, [status |-> "placed", session |-> session])
    BY <1>3 DEF DialOk
  <2> DEFINE patch == [status |-> "placed", session |-> session]
  <2>1. Update(task[t].lead, patch)
    BY <2>0
  <2>2. task[t].lead \in 1 .. MaxRows /\ patch.status \in Statuses
        /\ patch.session \in Nat
    BY <1>1, <2>0 DEF Task, Statuses, Told, NoSession
  <2> HIDE DEF patch
  <2> QED
    BY <1>1, <2>1, <2>2, UpdateKeeps
<1>4. CASE ~task[t].late /\ DialFails(t)
  <2> DEFINE patch == [status |-> "failed"]
  <2>1. Update(task[t].lead, patch)
    BY <1>4 DEF DialFails
  <2>2. task[t].lead \in 1 .. MaxRows /\ patch.status \in Statuses
        /\ "session" \notin DOMAIN patch
    BY <1>1 DEF Task, Statuses
  <2> HIDE DEF patch
  <2> QED
    BY <1>1, <2>1, <2>2, UpdateKeeps
<1> QED
  BY <1>2, <1>3, <1>4

LEMMA ResultRows ==
  ASSUME TypeOK, NEW s \in 1 .. Len(calls), Result(s)
  PROVE  /\ rows' \in Rows
         /\ \A i \in 1 .. MaxRows :
              Exists(i)' => /\ Exists(i)
                            /\ rows'[i].customer = rows[i].customer
                            /\ rows'[i].createdAt = rows[i].createdAt
<1> DEFINE patch == [status |-> "completed", session |-> s]
<1>1. rows \in Rows /\ s \in Nat /\ calls[s] \in Call
  BY RowsTyped DEF TypeOK
<1>2. /\ Update(calls[s].lead, patch) /\ calls[s].lead \in 1 .. MaxRows
      /\ patch.status \in Statuses /\ patch.session \in Nat
  BY <1>1 DEF Result, Call, Statuses
<1> HIDE DEF patch
<1> QED
  BY <1>1, <1>2, UpdateKeeps

LEMMA DialOkInd ==
  ASSUME MarksIInv, NEW t \in TaskId, DialOk(t)
  PROVE  MarksIInv' /\ Handlings' \subseteq Handlings
<1>1. TypeOK /\ Active(t) /\ task[t] \in Task /\ rows \in Rows /\ now \in Nat
  BY TaskTyped, RowsTyped DEF MarksIInv, DialOk, Active, TypeOK
<1>2. /\ rows' \in Rows
      /\ \A i \in 1 .. MaxRows :
           Exists(i)' => /\ Exists(i)
                         /\ rows'[i].customer = rows[i].customer
                         /\ rows'[i].createdAt = rows[i].createdAt
  BY <1>1, DialRows
<1>3. /\ task' \in [TaskId -> {Idle} \cup Task]
      /\ \A u \in TaskId : Active(u)' => Active(u) /\ task'[u] = task[u]
  BY <1>1, TaskEnds DEF DialOk
<1>4. foreign' \subseteq 1 .. MaxRows
  BY <1>1 DEF DialOk, Touching, TypeOK, Task
<1>5. TypeOK'
  BY <1>1, <1>2, <1>3, <1>4 DEF DialOk, TypeOK, Rows
<1>6. Handlings' \subseteq Handlings
  BY <1>2, <1>3, NoNewHandling DEF DialOk
<1>7. HandlingHoldsMark' /\ HandlingsApart'
  BY <1>1, <1>6, FewerHandlings DEF MarksIInv, DialOk
<1>8. RequestsAreQuick' /\ InstallsArePast'
  BY <1>3, RequestsStay DEF DialOk
<1> QED
  BY <1>5, <1>6, <1>7, <1>8 DEF MarksIInv

LEMMA ResultInd ==
  ASSUME MarksIInv, NEW s \in 1 .. Len(calls), Result(s)
  PROVE  MarksIInv' /\ Handlings' \subseteq Handlings
<1>1. TypeOK /\ now \in Nat /\ calls[s] \in Call
  BY DEF MarksIInv, TypeOK
<1>2. /\ rows' \in Rows
      /\ \A i \in 1 .. MaxRows :
           Exists(i)' => /\ Exists(i)
                         /\ rows'[i].customer = rows[i].customer
                         /\ rows'[i].createdAt = rows[i].createdAt
  BY <1>1, ResultRows
<1>3. foreign' \subseteq 1 .. MaxRows
  BY <1>1 DEF Result, Touching, TypeOK, Call
<1>4. TypeOK'
  BY <1>1, <1>2, <1>3 DEF Result, TypeOK, Rows
<1>5. Handlings' \subseteq Handlings
  BY <1>2, NoNewHandling DEF Result, Active
<1>6. HandlingHoldsMark' /\ HandlingsApart'
  BY <1>1, <1>5, FewerHandlings DEF MarksIInv, Result
<1>7. RequestsAreQuick' /\ InstallsArePast'
  BY RequestsStay DEF Result, Active
<1> QED
  BY <1>4, <1>5, <1>6, <1>7 DEF MarksIInv

-----------------------------------------------------------------------------
LEMMA PrunedKeeps ==
  ASSUME NEW r \in Rows
  PROVE  /\ Pruned(r) \in Rows
         /\ \A i \in 1 .. MaxRows : Pruned(r)[i] = NoRow \/ Pruned(r)[i] = r[i]
BY DEF Rows, Pruned

LEMMA MarkedIs ==
  ASSUME NEW marks \in [Customer -> Nat \cup {NoMark}], NEW c \in Customer, NEW at \in Nat
  PROVE  /\ Marked(marks, c, at) \in [Customer -> Nat \cup {NoMark}]
         /\ Marked(marks, c, at)[c] = at
         /\ \A d \in Customer \ {c} :
              Live(marks[d], at) => Marked(marks, c, at)[d] = marks[d]
BY DEF Marked

\* Deliver adds one row, and may prune others.
LEMMA DeliverRows ==
  ASSUME TypeOK, NEW c \in Customer, NEW t \in TaskId, NEW mode \in Mode,
         Deliver(c, t, mode)
  PROVE  /\ leadSeq + 1 \in 1 .. MaxRows
         /\ rows' \in Rows
         /\ \A i \in 1 .. MaxRows :
              Exists(i)' => \/ Exists(i) /\ rows'[i] = rows[i]
                            \/ /\ i = leadSeq + 1
                               /\ rows'[i].status \in {"queued", "skipped"}
                               /\ rows'[i].customer = c
                               /\ rows'[i].createdAt = now
<1> DEFINE id == leadSeq + 1
           row == [status |-> FirstStatus(c, mode), customer |-> c,
                   createdAt |-> now, session |-> NoSession]
           full == [rows EXCEPT ![id] = row]
<1>1. rows \in Rows /\ now \in Nat /\ id \in 1 .. MaxRows
  <2>1. rows \in Rows /\ leadSeq < MaxRows + 1 - installs
    BY RowsTyped DEF Deliver, CanHandle, RowBound
  <2> QED
    BY <2>1, LeadAssumption DEF TypeOK
<1>2. /\ row \in Row /\ row.customer = c /\ row.createdAt = now
      /\ row.status \in {"queued", "skipped"}
  BY <1>1 DEF Row, FirstStatus, NoSession
<1>3. rows' = Pruned(full)
  BY DEF Deliver
<1> HIDE DEF row
<1>4. full \in Rows
  BY <1>1, <1>2 DEF Rows
<1>5. \A i \in 1 .. MaxRows : full[i] = IF i = id THEN row ELSE rows[i]
  BY <1>1 DEF Rows
<1> HIDE DEF full
<1> QED
  BY <1>1, <1>2, <1>3, <1>4, <1>5, PrunedKeeps DEF Exists, NoRow

\* An unreleased handling that has not expired holds a live mark.
LEMMA HoldsLive ==
  ASSUME TypeOK, HandlingHoldsMark, NEW x \in Handlings, x.lead \notin released,
         ~(x.at + TTL <= now)
  PROVE  attempts[x.customer] = x.at /\ Live(attempts[x.customer], now)
<1>1. x.at \in Nat /\ now \in Nat /\ TTL \in Nat
  BY HandlingTypes, LeadAssumption DEF TypeOK
<1>2. attempts[x.customer] = x.at /\ x.at <= now
  BY DEF HandlingHoldsMark
<1> QED
  BY <1>1, <1>2 DEF Live, NoMark

\* The new handling is the last, and no other of its customer holds a mark.
LEMMA DeliverInd ==
  ASSUME MarksIInv, NEW c \in Customer, NEW t \in TaskId, NEW mode \in Mode,
         Deliver(c, t, mode)
  PROVE  /\ MarksIInv'
         /\ \A x \in Handlings' : x \in Handlings \/ x = Handling(leadSeq + 1, c, now)
<1> DEFINE id == leadSeq + 1
           late == mode = "delayed"
           new == [stage |-> IF late THEN "timer" ELSE "dialing",
                   lead |-> id, customer |-> c, markedAt |-> now, late |-> late,
                   session |-> NoSession, install |-> installs,
                   due |-> IF late THEN now + Delay ELSE now]
           h == Handling(id, c, now)
<1>1. /\ TypeOK /\ now \in Nat /\ installs \in Nat /\ leadSeq \in Nat /\ TTL \in Nat
  BY LeadAssumption DEF MarksIInv, TypeOK
<1>2. /\ id \in 1 .. MaxRows
      /\ rows' \in Rows
      /\ \A i \in 1 .. MaxRows :
           Exists(i)' => \/ Exists(i) /\ rows'[i] = rows[i]
                         \/ /\ i = id
                            /\ rows'[i].customer = c
                            /\ rows'[i].createdAt = now
  BY <1>1, DeliverRows
<1>3. new \in Task
  <2>1. now + Delay \in Nat
    BY <1>1, LeadAssumption
  <2>2. new.due \in Nat /\ installs \in Nat
    BY <1>1, <2>1
  <2> QED
    BY <1>1, <1>2, <2>2 DEF Task, NoSession
<1>4. /\ new.lead = id /\ new.customer = c /\ new.markedAt = now
      /\ new.install = installs
  OBVIOUS
<1>5. ~late => new.stage = "dialing" /\ new.due = now
  OBVIOUS
<1>6. ~new.late => new.stage = "dialing" /\ new.due = now
  BY <1>5
<1>7. task' = task \/ task' = [task EXCEPT ![t] = new]
  BY DEF Deliver
<1>8. /\ UNCHANGED <<now, calls, installs, released, cut, foreign>>
      /\ leadSeq' = id /\ attempts' = Marked(attempts, c, now)
      /\ ~Live(attempts[c], now)
  BY DEF Deliver, CanHandle, history
<1> HIDE DEF new
<1>9. /\ task' \in [TaskId -> {Idle} \cup Task]
      /\ \A u \in TaskId :
           Active(u)' => (Active(u) /\ task'[u] = task[u]) \/ (u = t /\ task'[u] = new)
  BY <1>1, <1>3, <1>7 DEF TypeOK, Active
<1>a. /\ attempts' \in [Customer -> Nat \cup {NoMark}]
      /\ attempts'[c] = now
      /\ \A d \in Customer \ {c} :
           Live(attempts[d], now) => attempts'[d] = attempts[d]
  <2>1. attempts \in [Customer -> Nat \cup {NoMark}] /\ now \in Nat
    BY <1>1 DEF TypeOK
  <2> DEFINE left == Marked(attempts, c, now)
  <2>2. /\ left \in [Customer -> Nat \cup {NoMark}]
        /\ left[c] = now
        /\ \A d \in Customer \ {c} : Live(attempts[d], now) => left[d] = attempts[d]
    BY <2>1, MarkedIs
  <2> HIDE DEF left
  <2>3. attempts' = left
    BY <1>8 DEF left
  <2> QED
    BY <2>2, <2>3
<1>b. TypeOK'
  BY <1>1, <1>2, <1>8, <1>9, <1>a DEF TypeOK, Rows
<1>c. \A x \in Handlings' : x \in Handlings \/ x = h
  <2> SUFFICES ASSUME NEW x \in Handlings'
               PROVE  x \in Handlings \/ x = h
    OBVIOUS
  <2>1. \/ \E i \in 1 .. MaxRows :
             Exists(i)' /\ x = Handling(i, rows'[i].customer, rows'[i].createdAt)
        \/ \E u \in TaskId :
             /\ Active(u)' /\ task'[u].install = installs'
             /\ x = Handling(task'[u].lead, task'[u].customer, task'[u].markedAt)
        \/ \E n \in DOMAIN calls' :
             /\ calls'[n].install = installs'
             /\ x = Handling(calls'[n].lead, calls'[n].customer, calls'[n].markedAt)
    BY DEF Handlings, Current, Handling
  <2>2. ASSUME NEW i \in 1 .. MaxRows, Exists(i)',
               x = Handling(i, rows'[i].customer, rows'[i].createdAt)
        PROVE  x \in Handlings \/ x = h
    BY <1>2, <2>2 DEF Handlings
  <2>3. ASSUME NEW u \in TaskId, Active(u)', task'[u].install = installs',
               x = Handling(task'[u].lead, task'[u].customer, task'[u].markedAt)
        PROVE  x \in Handlings \/ x = h
    BY <1>4, <1>8, <1>9, <2>3 DEF Handlings, Current
  <2>4. ASSUME NEW n \in DOMAIN calls', calls'[n].install = installs',
               x = Handling(calls'[n].lead, calls'[n].customer, calls'[n].markedAt)
        PROVE  x \in Handlings \/ x = h
    BY <1>8, <2>4 DEF Handlings, Current
  <2> QED
    BY <2>1, <2>2, <2>3, <2>4
<1>d. h.lead = id /\ h.customer = c /\ h.at = now
  BY DEF Handling
<1>e. \A x \in Handlings :
        /\ x.lead \in 1 .. MaxRows /\ x.customer \in Customer /\ x.at \in Nat
        /\ x.lead <= leadSeq /\ x.at <= now
        /\ \/ x.lead \in released
           \/ x.at + TTL <= now
           \/ attempts[x.customer] = x.at /\ Live(attempts[x.customer], now)
  BY <1>1, HandlingTypes, HoldsLive DEF MarksIInv, HandlingHoldsMark
<1> HIDE DEF h
<1>f. HandlingHoldsMark'
  <2> SUFFICES ASSUME NEW x \in Handlings'
               PROVE  /\ x.lead <= id /\ x.at <= now
                      /\ \/ x.lead \in released
                         \/ x.at + TTL <= now
                         \/ attempts'[x.customer] = x.at
    BY <1>8 DEF HandlingHoldsMark
  <2>1. CASE x = h
    BY <1>1, <1>a, <1>d, <2>1
  <2>2. CASE x \in Handlings
    <3>1. x.lead <= id /\ x.at <= now
      BY <1>1, <1>e, <2>2
    <3>2. CASE x.customer = c
      BY <1>8, <1>e, <2>2, <3>1, <3>2
    <3>3. CASE x.customer # c
      BY <1>a, <1>e, <2>2, <3>1, <3>3
    <3> QED
      BY <3>2, <3>3
  <2> QED
    BY <1>c, <2>1, <2>2
<1>g. HandlingsApart'
  <2> SUFFICES ASSUME NEW x \in Handlings', NEW y \in Handlings',
                      x.customer = y.customer, x.lead < y.lead
               PROVE  x.lead \in released \/ x.at + TTL <= y.at
    BY <1>8 DEF HandlingsApart
  <2>1. CASE x \in Handlings /\ y \in Handlings
    BY <2>1 DEF MarksIInv, HandlingsApart
  <2>2. CASE x \in Handlings /\ y = h
    BY <1>8, <1>d, <1>e, <2>2
  <2>3. CASE x = h
    BY <1>1, <1>c, <1>d, <1>e, <2>3
  <2> QED
    BY <1>c, <2>1, <2>2, <2>3
<1>h. RequestsAreQuick'
  <2> SUFFICES ASSUME NEW u \in TaskId, Active(u)', ~task'[u].late
               PROVE  /\ task'[u].stage # "timer" /\ task'[u].due = task'[u].markedAt
                      /\ now <= task'[u].markedAt + Latency
    BY <1>8 DEF RequestsAreQuick
  <2>1. CASE Active(u) /\ task'[u] = task[u]
    BY <2>1 DEF MarksIInv, RequestsAreQuick
  <2>2. CASE task'[u] = new
    BY <1>1, <1>4, <1>6, <2>2, LeadAssumption
  <2> QED
    BY <1>9, <2>1, <2>2
<1>i. InstallsArePast'
  BY <1>1, <1>4, <1>8, <1>9 DEF MarksIInv, InstallsArePast
<1> QED
  BY <1>b, <1>c, <1>f, <1>g, <1>h, <1>i DEF MarksIInv, h

\* A failed placement that gives its mark back still holds it, or another
\* placement of its customer has given it back before.
LEMMA DialFailsInd ==
  ASSUME QuickRequests, MarksIInv, NEW t \in TaskId, DialFails(t)
  PROVE  MarksIInv' /\ Handlings' \subseteq Handlings
<1> DEFINE cc == task[t].customer
           own == IF Current(task[t]) THEN {task[t].lead} ELSE {}
<1>1. /\ TypeOK /\ Active(t) /\ task[t] \in Task /\ rows \in Rows
      /\ now \in Nat /\ TTL \in Nat /\ Latency \in Nat
  BY TaskTyped, RowsTyped, LeadAssumption DEF MarksIInv, DialFails, Active, TypeOK
<1>2. UNCHANGED <<now, leadSeq, calls, installs, cut>>
  BY DEF DialFails
<1>3. /\ rows' \in Rows
      /\ \A i \in 1 .. MaxRows :
           Exists(i)' => /\ Exists(i)
                         /\ rows'[i].customer = rows[i].customer
                         /\ rows'[i].createdAt = rows[i].createdAt
  BY <1>1, DialRows
<1>4. /\ task' \in [TaskId -> {Idle} \cup Task]
      /\ \A u \in TaskId : Active(u)' => Active(u) /\ task'[u] = task[u]
  BY <1>1, TaskEnds DEF DialFails
<1>5. Handlings' \subseteq Handlings
  BY <1>2, <1>3, <1>4, NoNewHandling
<1>6. foreign' \subseteq 1 .. MaxRows
  BY <1>1 DEF DialFails, Touching, TypeOK, Task
<1>7. Losing(t) \subseteq 1 .. MaxRows
  <2>1. own \subseteq 1 .. MaxRows
    BY <1>1 DEF Task
  <2>2. {x.lead : x \in {y \in Handlings : own \subseteq released /\ y.customer = cc}}
          \subseteq 1 .. MaxRows
    BY <1>1, HandlingTypes
  <2> QED
    BY <2>1, <2>2 DEF Losing
<1>8. /\ released' \subseteq 1 .. MaxRows /\ released \subseteq released'
      /\ attempts' \in [Customer -> Nat \cup {NoMark}]
  BY <1>1, <1>7 DEF DialFails, ReleaseMark, TypeOK, Cleared
<1>9. TypeOK'
  BY <1>1, <1>2, <1>3, <1>4, <1>6, <1>8 DEF TypeOK, Rows
<1>a. RequestsAreQuick' /\ InstallsArePast'
  BY <1>2, <1>4, RequestsStay
<1>b. CASE task[t].late
  <2>1. attempts' = attempts
    BY <1>b DEF DialFails, ReleaseMark
  <2> QED
    BY <1>1, <1>2, <1>5, <1>8, <1>9, <1>a, <2>1, FewerHandlings DEF MarksIInv
<1>c. CASE ~task[t].late
  <2>1. /\ released' = released \cup Losing(t)
        /\ attempts' = [attempts EXCEPT ![cc] = NoMark]
    BY <1>c DEF DialFails, ReleaseMark, Cleared
  <2>2. own \subseteq Losing(t)
    BY DEF Losing
  <2>3. ASSUME NEW x \in Handlings, x.customer = cc
        PROVE  x.lead \in released' \/ x.at + TTL <= now
    <3>1. CASE own \subseteq released
      BY <2>1, <2>3, <3>1 DEF Losing
    <3>2. CASE ~(own \subseteq released)
      <4> DEFINE h == Handling(task[t].lead, cc, task[t].markedAt)
      <4>1. /\ Current(task[t]) /\ task[t].lead \notin released
            /\ task[t].lead \in released'
        BY <2>1, <2>2, <3>2
      <4>2. h \in Handlings /\ h.lead = task[t].lead /\ h.customer = cc
            /\ h.at = task[t].markedAt
        BY <1>1, <4>1 DEF Handlings, Handling
      <4> HIDE DEF h
      <4>3. now <= h.at + Latency /\ Latency < TTL
        BY <1>1, <1>c, <4>2 DEF MarksIInv, RequestsAreQuick, QuickRequests
      <4>4. /\ h.at \in Nat /\ x.at \in Nat /\ h.at <= now /\ x.at <= now
            /\ x.lead \in 1 .. MaxRows /\ h.lead \in 1 .. MaxRows
        BY <1>1, <4>2, HandlingTypes DEF MarksIInv, HandlingHoldsMark
      <4>5. CASE x.lead = h.lead
        BY <4>1, <4>2, <4>5
      <4>6. CASE x.lead < h.lead
        <5>1. x.lead \in released \/ x.at + TTL <= h.at
          BY <2>3, <4>2, <4>6 DEF MarksIInv, HandlingsApart
        <5> QED
          BY <1>1, <1>8, <4>4, <5>1
      <4>7. CASE h.lead < x.lead
        <5>1. h.at + TTL <= x.at
          BY <2>3, <4>1, <4>2, <4>7 DEF MarksIInv, HandlingsApart
        <5> QED
          BY <1>1, <4>3, <4>4, <5>1
      <4> QED
        BY <4>4, <4>5, <4>6, <4>7
    <3> QED
      BY <3>1, <3>2
  <2>4. HandlingHoldsMark'
    <3> SUFFICES ASSUME NEW x \in Handlings'
                 PROVE  /\ x.lead <= leadSeq /\ x.at <= now
                        /\ \/ x.lead \in released'
                           \/ x.at + TTL <= now
                           \/ attempts'[x.customer] = x.at
      BY <1>2 DEF HandlingHoldsMark
    <3>1. x \in Handlings /\ x.customer \in Customer
      BY <1>1, <1>5, HandlingTypes
    <3>2. /\ x.lead <= leadSeq /\ x.at <= now
          /\ \/ x.lead \in released
             \/ x.at + TTL <= now
             \/ attempts[x.customer] = x.at
      BY <3>1 DEF MarksIInv, HandlingHoldsMark
    <3>3. CASE x.customer = cc
      BY <2>3, <3>1, <3>2, <3>3
    <3>4. CASE x.customer # cc
      <4>1. attempts'[x.customer] = attempts[x.customer]
        BY <1>1, <2>1, <3>1, <3>4 DEF TypeOK
      <4> QED
        BY <1>8, <3>2, <4>1
    <3> QED
      BY <3>3, <3>4
  <2>5. HandlingsApart'
    BY <1>5, <1>8 DEF MarksIInv, HandlingsApart
  <2> QED
    BY <1>5, <1>9, <1>a, <2>4, <2>5 DEF MarksIInv
<1> QED
  BY <1>b, <1>c

LEMMA ReinstallInd ==
  ASSUME MarksIInv, Reinstall
  PROVE  MarksIInv' /\ Handlings' \subseteq Handlings
<1>1. /\ TypeOK /\ installs \in Nat /\ installs' = installs + 1
      /\ installs' \in 1 .. MaxInstalls /\ UNCHANGED <<now, task, calls>>
  BY LeadAssumption DEF MarksIInv, TypeOK, Reinstall
<1>2. calls \in Seq(Call) /\ \A n \in DOMAIN calls : calls[n] \in Call
  BY <1>1 DEF TypeOK
<1>3. TypeOK'
  BY <1>1, LeadAssumption DEF TypeOK, Reinstall, NoMarks, NoMark, NoRow
<1>4. Handlings' = {}
  <2>1. \A t \in TaskId : Active(t) => task[t].install \in Nat
    BY <1>1, TaskTyped DEF Task
  <2>2. \A t \in TaskId : Active(t)' => ~Current(task[t])'
    BY <1>1, <2>1 DEF MarksIInv, InstallsArePast, Active, Current
  <2>3. \A n \in DOMAIN calls' : ~Current(calls[n])'
    BY <1>1, <1>2 DEF MarksIInv, InstallsArePast, Current, Call
  <2>4. \A i \in 1 .. MaxRows : ~Exists(i)'
    BY DEF Reinstall, Exists, NoRow
  <2> QED
    BY <2>2, <2>3, <2>4 DEF Handlings
<1>5. RequestsAreQuick'
  BY <1>1 DEF MarksIInv, RequestsAreQuick, Active
<1>6. InstallsArePast'
  <2>1. \A t \in TaskId : Active(t) => task[t].install \in Nat
    BY <1>1, TaskTyped DEF Task
  <2>2. \A n \in DOMAIN calls : calls[n].install \in Nat
    BY <1>2 DEF Call
  <2> QED
    BY <1>1, <2>1, <2>2 DEF MarksIInv, InstallsArePast, Active
<1> QED
  BY <1>3, <1>4, <1>5, <1>6 DEF MarksIInv, HandlingHoldsMark, HandlingsApart

LEMMA CrashInd ==
  ASSUME MarksIInv, Crash
  PROVE  MarksIInv' /\ Handlings' \subseteq Handlings
<1>1. /\ TypeOK /\ now \in Nat
      /\ UNCHANGED <<now, attempts, leadSeq, rows, calls, installs, released, foreign>>
      /\ task' = [u \in TaskId |-> Idle]
  BY DEF MarksIInv, TypeOK, Crash
<1>2. \A u \in TaskId : ~Active(u)'
  BY <1>1 DEF Active, Idle
<1>3. cut' \subseteq 1 .. MaxRows
  <2>1. \A u \in TaskId : Active(u) => task[u].lead \in 1 .. MaxRows
    BY <1>1, TaskTyped DEF Task
  <2> QED
    BY <1>1, <2>1 DEF Crash, TypeOK
<1>4. TypeOK'
  BY <1>1, <1>3 DEF TypeOK
<1>5. Handlings' \subseteq Handlings
  BY <1>1, <1>2, NoNewHandling DEF Exists
<1>6. HandlingHoldsMark' /\ HandlingsApart'
  BY <1>1, <1>5, FewerHandlings DEF MarksIInv
<1>7. RequestsAreQuick' /\ InstallsArePast'
  BY <1>1, <1>2, RequestsStay
<1> QED
  BY <1>4, <1>5, <1>6, <1>7 DEF MarksIInv

LEMMA TickInd ==
  ASSUME MarksIInv, Tick
  PROVE  MarksIInv' /\ Handlings' \subseteq Handlings
<1>1. /\ TypeOK /\ now \in Nat /\ now' = now + 1
      /\ UNCHANGED <<attempts, leadSeq, rows, task, calls, installs, released, cut, foreign>>
  BY DEF MarksIInv, TypeOK, Tick, history
<1>2. TypeOK'
  BY <1>1 DEF TypeOK
<1>3. Handlings' \subseteq Handlings
  BY <1>1, NoNewHandling DEF Exists, Active
<1>4. HandlingHoldsMark' /\ HandlingsApart'
  BY <1>1, <1>3, FewerHandlings DEF MarksIInv
<1>5. RequestsAreQuick'
  <2> SUFFICES ASSUME NEW u \in TaskId, Active(u), ~task[u].late
               PROVE  /\ task[u].stage # "timer" /\ task[u].due = task[u].markedAt
                      /\ now + 1 <= task[u].markedAt + Latency
    BY <1>1 DEF RequestsAreQuick, Active
  <2>1. task[u].markedAt \in Nat
    BY <1>1, TaskTyped DEF Task
  <2>2. task[u].stage # "timer" /\ task[u].due = task[u].markedAt
    BY DEF MarksIInv, RequestsAreQuick
  <2>3. now < task[u].due + Latency
    BY DEF Tick
  <2> QED
    BY <1>1, <2>1, <2>2, <2>3, LeadAssumption
<1>6. InstallsArePast'
  BY <1>1 DEF MarksIInv, InstallsArePast, Active
<1> QED
  BY <1>2, <1>3, <1>4, <1>5, <1>6 DEF MarksIInv

LEMMA Stutters == MarksIInv /\ UNCHANGED vars => MarksIInv'
<1> SUFFICES ASSUME MarksIInv, UNCHANGED vars PROVE MarksIInv'
  OBVIOUS
<1>1. UNCHANGED <<now, attempts, leadSeq, rows, task, calls, installs, released, cut, foreign>>
  BY DEF vars, history
<1>2. TypeOK /\ now \in Nat
  BY DEF MarksIInv, TypeOK
<1>3. TypeOK'
  BY <1>1, <1>2 DEF TypeOK
<1>4. Handlings' \subseteq Handlings
  BY <1>1, NoNewHandling DEF Exists, Active
<1>5. HandlingHoldsMark' /\ HandlingsApart'
  BY <1>1, <1>2, <1>4, FewerHandlings DEF MarksIInv
<1>6. RequestsAreQuick' /\ InstallsArePast'
  BY <1>1, RequestsStay DEF Active
<1> QED
  BY <1>3, <1>5, <1>6 DEF MarksIInv

LEMMA MarksStep ==
  ASSUME QuickRequests, MarksIInv, [Next]_vars
  PROVE  MarksIInv'
<1>1. ASSUME NEW c \in Customer, NEW t \in TaskId, NEW mode \in Mode, Deliver(c, t, mode)
      PROVE  MarksIInv'
  BY <1>1, DeliverInd
<1>2. ASSUME NEW t \in TaskId, Resolve(t)
      PROVE  MarksIInv'
  BY <1>2, TimerFiresInd, AcceptInd, DialOkInd, DialFailsInd DEF Resolve
<1>3. ASSUME NEW s \in 1 .. Len(calls), Result(s)
      PROVE  MarksIInv'
  BY <1>3, ResultInd
<1>4. CASE UNCHANGED vars
  BY <1>4, Stutters
<1> QED
  BY <1>1, <1>2, <1>3, <1>4, ReinstallInd, CrashInd, TickInd DEF Next

-----------------------------------------------------------------------------
(* What a row tells of its call. *)

\* An event has a row id of its own.
LEMMA OneStep ==
  ASSUME QuickRequests, MarksIInv, HandlingsAreOne, [Next]_vars
  PROVE  HandlingsAreOne'
<1>1. ASSUME NEW c \in Customer, NEW t \in TaskId, NEW mode \in Mode, Deliver(c, t, mode)
      PROVE  HandlingsAreOne'
  <2> DEFINE h == Handling(leadSeq + 1, c, now)
  <2>1. \A x \in Handlings' : x \in Handlings \/ x = h
    BY <1>1, DeliverInd
  <2>2. leadSeq \in Nat /\ h.lead = leadSeq + 1
    BY LeadAssumption DEF MarksIInv, TypeOK, Handling
  <2>3. \A x \in Handlings : x.lead \in Nat /\ x.lead <= leadSeq
    BY HandlingTypes DEF MarksIInv, HandlingHoldsMark
  <2> HIDE DEF h
  <2> QED
    BY <2>1, <2>2, <2>3 DEF HandlingsAreOne
<1>2. CASE UNCHANGED vars
  BY <1>2, NoNewHandling DEF vars, history, HandlingsAreOne, Exists, Active
<1>3. ASSUME NEW t \in TaskId, Resolve(t)
      PROVE  Handlings' \subseteq Handlings
  BY <1>3, TimerFiresInd, AcceptInd, DialOkInd, DialFailsInd DEF Resolve
<1>4. ASSUME NEW s \in 1 .. Len(calls), Result(s)
      PROVE  Handlings' \subseteq Handlings
  BY <1>4, ResultInd
<1>5. Reinstall \/ Crash \/ Tick => Handlings' \subseteq Handlings
  BY ReinstallInd, CrashInd, TickInd
<1> QED
  BY <1>1, <1>2, <1>3, <1>4, <1>5 DEF Next, HandlingsAreOne

LEMMA AcceptEffect ==
  ASSUME TypeOK, NEW t \in TaskId, Accept(t)
  PROVE  /\ Active(t) /\ \A u \in TaskId \ {t} : task'[u] = task[u]
         /\ task'[t].stage = "accepted" /\ task'[t].session = Len(calls) + 1
         /\ task'[t].lead = task[t].lead /\ task'[t].late = task[t].late
         /\ task'[t].install = task[t].install
         /\ Len(calls) \in Nat /\ Len(calls') = Len(calls) + 1
         /\ \A n \in 1 .. Len(calls) : calls'[n] = calls[n]
         /\ calls'[Len(calls) + 1].lead = task[t].lead
         /\ calls'[Len(calls) + 1].late = task[t].late
         /\ calls'[Len(calls) + 1].install = task[t].install
         /\ UNCHANGED <<now, attempts, leadSeq, rows, installs, released, cut, foreign>>
<1> DEFINE call == [lead |-> task[t].lead, customer |-> task[t].customer,
                    markedAt |-> task[t].markedAt, late |-> task[t].late,
                    install |-> task[t].install]
           n == Len(calls) + 1
           taken == [task[t] EXCEPT !.stage = "accepted", !.session = n]
<1>1. /\ Active(t) /\ task[t] \in Task /\ calls \in Seq(Call) /\ Len(calls) \in Nat
  BY TaskTyped DEF Accept, Active, TypeOK
<1>2. /\ call \in Call /\ call.lead = task[t].lead /\ call.late = task[t].late
      /\ call.install = task[t].install
  BY <1>1 DEF Call, Task
<1>3. /\ taken.stage = "accepted" /\ taken.session = n
      /\ taken.lead = task[t].lead /\ taken.install = task[t].install
  BY <1>1 DEF Task
<1>4. taken.late = task[t].late
  BY <1>1 DEF Task
<1>5. calls' = Append(calls, call) /\ task' = [task EXCEPT ![t] = taken]
  BY <1>1 DEF Accept, TypeOK, Task
<1>6. UNCHANGED <<now, attempts, leadSeq, rows, installs, released, cut, foreign>>
  BY DEF Accept, history
<1> HIDE DEF call, taken
<1>7. /\ Len(calls') = Len(calls) + 1 /\ calls'[n] = call
      /\ \A i \in 1 .. Len(calls) : calls'[i] = calls[i]
  BY <1>1, <1>2, <1>5
<1>8. task'[t] = taken /\ \A u \in TaskId \ {t} : task'[u] = task[u]
  BY <1>5 DEF TypeOK
<1> QED
  BY <1>1, <1>2, <1>3, <1>4, <1>6, <1>7, <1>8

\* A patch reaches its row, if that is there, and no other.
LEMMA UpdateIs ==
  ASSUME rows \in Rows, NEW id \in 1 .. MaxRows, NEW patch, Update(id, patch)
  PROVE  /\ \A i \in (1 .. MaxRows) \ {id} : rows'[i] = rows[i]
         /\ ~Exists(id) => rows' = rows
         /\ Exists(id) => /\ rows'[id].status = patch.status
                          /\ "session" \in DOMAIN patch => rows'[id].session = patch.session
<1>1. CASE ~Exists(id)
  BY <1>1 DEF Update
<1>2. CASE Exists(id)
  <2> DEFINE session == IF "session" \in DOMAIN patch THEN patch.session
                                                      ELSE rows[id].session
             row == [rows[id] EXCEPT !.status = patch.status, !.session = session]
  <2>1. rows[id] \in Row
    BY <1>2 DEF Rows, Exists, NoRow
  <2>2. row.status = patch.status /\ row.session = session
    BY <2>1 DEF Row
  <2>3. rows' = [rows EXCEPT ![id] = row]
    BY <1>2, <2>1 DEF Update, Rows, Row
  <2> HIDE DEF row
  <2> QED
    BY <1>2, <2>2, <2>3 DEF Rows
<1> QED
  BY <1>1, <1>2

LEMMA TimerFiresEffect ==
  ASSUME MarksIInv, NEW t \in TaskId, TimerFires(t)
  PROVE  /\ Active(t) /\ task[t].late /\ task'[t].stage # "accepted"
         /\ \A u \in TaskId \ {t} : task'[u] = task[u]
         /\ UNCHANGED <<rows, calls, installs, released, cut, foreign>>
<1>1. TypeOK /\ Active(t) /\ task[t] \in Task
  BY TaskTyped DEF MarksIInv, TimerFires, Active
<1>2. task[t].late
  BY <1>1 DEF MarksIInv, TimerFires, RequestsAreQuick
<1>3. CASE task' = [task EXCEPT ![t] = Idle]
  BY <1>1, <1>2, <1>3 DEF TimerFires, TypeOK, Idle, history
<1>4. CASE task' = [task EXCEPT ![t].stage = "dialing", ![t].due = now]
  <2> DEFINE w == [task[t] EXCEPT !.stage = "dialing", !.due = now]
  <2>1. w.stage = "dialing"
    BY <1>1 DEF Task
  <2>2. task' = [task EXCEPT ![t] = w]
    BY <1>1, <1>4 DEF TypeOK, Task
  <2> HIDE DEF w
  <2> QED
    BY <1>1, <1>2, <2>1, <2>2 DEF TimerFires, TypeOK, history
<1> QED
  BY <1>3, <1>4 DEF TimerFires

\* The answer of a call, and what it makes of the row.
LEMMA DialOkEffect ==
  ASSUME TypeOK, NEW t \in TaskId, DialOk(t)
  PROVE  /\ Active(t) /\ task[t].stage = "accepted" /\ task'[t] = Idle
         /\ \A u \in TaskId \ {t} : task'[u] = task[u]
         /\ task[t].lead \in 1 .. MaxRows
         /\ \A i \in 1 .. MaxRows :
              \/ rows'[i] = rows[i] /\ (i # task[t].lead \/ task[t].late \/ ~Exists(i))
              \/ /\ i = task[t].lead /\ Exists(i) /\ ~task[t].late
                 /\ rows'[i].status = "placed" /\ rows'[i].session \in Told(t)
                 /\ Current(task[t]) \/ i \in foreign'
         /\ foreign \subseteq foreign'
         /\ UNCHANGED <<calls, installs, released, cut>>
<1>1. Active(t) /\ task[t] \in Task /\ rows \in Rows /\ task[t].lead \in 1 .. MaxRows
  BY TaskTyped, RowsTyped DEF DialOk, Active, Task
<1>2. task'[t] = Idle /\ \A u \in TaskId \ {t} : task'[u] = task[u]
  BY DEF DialOk, TypeOK
<1>3. CASE task[t].late
  BY <1>1, <1>2, <1>3 DEF DialOk
<1>4. CASE ~task[t].late
  <2>0. PICK session \in Told(t) :
          Update(task[t].lead, [status |-> "placed", session |-> session])
    BY <1>4 DEF DialOk
  <2> DEFINE patch == [status |-> "placed", session |-> session]
  <2>1. Update(task[t].lead, patch) /\ Touching(task[t])
    BY <1>4, <2>0 DEF DialOk
  <2>2. /\ patch.status = "placed" /\ patch.session \in Told(t)
        /\ "session" \in DOMAIN patch
    OBVIOUS
  <2> HIDE DEF patch
  <2>3. /\ \A i \in (1 .. MaxRows) \ {task[t].lead} : rows'[i] = rows[i]
        /\ ~Exists(task[t].lead) => rows' = rows
        /\ Exists(task[t].lead) => /\ rows'[task[t].lead].status = "placed"
                                   /\ rows'[task[t].lead].session \in Told(t)
    BY <1>1, <2>1, <2>2, UpdateIs
  <2>4. /\ foreign \subseteq foreign'
        /\ Exists(task[t].lead) => Current(task[t]) \/ task[t].lead \in foreign'
    BY <2>1 DEF Touching
  <2>5. UNCHANGED <<calls, installs, released, cut>> /\ task[t].stage = "accepted"
    BY DEF DialOk
  <2> QED
    BY <1>1, <1>2, <1>4, <2>3, <2>4, <2>5
<1> QED
  BY <1>3, <1>4

\* A failed placement marks the row failed, and names it among the released ones.
LEMMA DialFailsEffect ==
  ASSUME TypeOK, NEW t \in TaskId, DialFails(t)
  PROVE  /\ Active(t) /\ task'[t] = Idle
         /\ \A u \in TaskId \ {t} : task'[u] = task[u]
         /\ task[t].lead \in 1 .. MaxRows
         /\ \A i \in 1 .. MaxRows :
              \/ rows'[i] = rows[i] /\ (i # task[t].lead \/ task[t].late \/ ~Exists(i))
              \/ /\ i = task[t].lead /\ Exists(i) /\ ~task[t].late
                 /\ rows'[i].status = "failed"
                 /\ i \in released' \/ i \in foreign'
         /\ foreign \subseteq foreign' /\ released \subseteq released'
         /\ UNCHANGED <<calls, installs, cut>>
<1>1. Active(t) /\ task[t] \in Task /\ rows \in Rows /\ task[t].lead \in 1 .. MaxRows
  BY TaskTyped, RowsTyped DEF DialFails, Active, Task
<1>2. task'[t] = Idle /\ \A u \in TaskId \ {t} : task'[u] = task[u]
  BY DEF DialFails, TypeOK
<1>3. UNCHANGED <<calls, installs, cut>>
  BY DEF DialFails
<1>4. CASE task[t].late
  BY <1>1, <1>2, <1>3, <1>4 DEF DialFails, ReleaseMark
<1>5. CASE ~task[t].late
  <2> DEFINE patch == [status |-> "failed"]
  <2>1. Update(task[t].lead, patch) /\ Touching(task[t])
    BY <1>5 DEF DialFails
  <2>2. patch.status = "failed" /\ "session" \notin DOMAIN patch
    OBVIOUS
  <2> HIDE DEF patch
  <2>3. /\ \A i \in (1 .. MaxRows) \ {task[t].lead} : rows'[i] = rows[i]
        /\ ~Exists(task[t].lead) => rows' = rows
        /\ Exists(task[t].lead) => rows'[task[t].lead].status = "failed"
    BY <1>1, <2>1, <2>2, UpdateIs
  <2>4. /\ foreign \subseteq foreign'
        /\ Exists(task[t].lead) => Current(task[t]) \/ task[t].lead \in foreign'
    BY <2>1 DEF Touching
  <2>5. released' = released \cup Losing(t)
    BY <1>5 DEF DialFails, ReleaseMark
  <2>6. Current(task[t]) => task[t].lead \in released'
    BY <2>5 DEF Losing
  <2> QED
    BY <1>1, <1>2, <1>3, <1>5, <2>3, <2>4, <2>5, <2>6
<1> QED
  BY <1>4, <1>5

LEMMA ResultEffect ==
  ASSUME TypeOK, NEW s \in 1 .. Len(calls), Result(s)
  PROVE  /\ \A i \in 1 .. MaxRows :
              \/ rows'[i] = rows[i] /\ (i # calls[s].lead \/ ~Exists(i))
              \/ /\ i = calls[s].lead /\ Exists(i)
                 /\ rows'[i].status = "completed" /\ rows'[i].session = s
                 /\ Current(calls[s]) \/ i \in foreign'
         /\ foreign \subseteq foreign'
         /\ UNCHANGED <<task, calls, installs, released, cut>>
<1>1. rows \in Rows /\ calls[s] \in Call /\ calls[s].lead \in 1 .. MaxRows
  <2>1. calls[s] \in Call
    BY DEF TypeOK
  <2> QED
    BY <2>1, RowsTyped DEF Call
<1> DEFINE patch == [status |-> "completed", session |-> s]
<1>2. Update(calls[s].lead, patch) /\ Touching(calls[s])
  BY DEF Result
<1>3. patch.status = "completed" /\ patch.session = s /\ "session" \in DOMAIN patch
  OBVIOUS
<1> HIDE DEF patch
<1>4. /\ \A i \in (1 .. MaxRows) \ {calls[s].lead} : rows'[i] = rows[i]
      /\ ~Exists(calls[s].lead) => rows' = rows
      /\ Exists(calls[s].lead) => /\ rows'[calls[s].lead].status = "completed"
                                  /\ rows'[calls[s].lead].session = s
  BY <1>1, <1>2, <1>3, UpdateIs
<1>5. /\ foreign \subseteq foreign'
      /\ Exists(calls[s].lead) => Current(calls[s]) \/ calls[s].lead \in foreign'
  BY <1>2 DEF Touching
<1>6. UNCHANGED <<task, calls, installs, released, cut>>
  BY DEF Result
<1> QED
  BY <1>1, <1>4, <1>5, <1>6

LEMMA DeliverTasks ==
  ASSUME TypeOK, NEW c \in Customer, NEW t \in TaskId, NEW mode \in Mode,
         Deliver(c, t, mode)
  PROVE  /\ \A u \in TaskId : Active(u) => task'[u] = task[u]
         /\ \A u \in TaskId : task'[u] = task[u] \/ task'[u].stage # "accepted"
         /\ leadSeq' = leadSeq + 1
         /\ UNCHANGED <<calls, installs, released, cut, foreign>>
<1> DEFINE late == mode = "delayed"
           new == [stage |-> IF late THEN "timer" ELSE "dialing",
                   lead |-> leadSeq + 1, customer |-> c, markedAt |-> now, late |-> late,
                   session |-> NoSession, install |-> installs,
                   due |-> IF late THEN now + Delay ELSE now]
<1>1. task' = task \/ task' = [task EXCEPT ![t] = new]
  BY DEF Deliver
<1>2. new.stage # "accepted"
  OBVIOUS
<1> HIDE DEF new
<1>3. ~Active(t) /\ leadSeq' = leadSeq + 1
      /\ UNCHANGED <<calls, installs, released, cut, foreign>>
  BY DEF Deliver, history
<1> QED
  BY <1>1, <1>2, <1>3 DEF TypeOK

LEMMA ReinstallEmpties == Reinstall => \A i \in 1 .. MaxRows : rows'[i].status = "none"
BY DEF Reinstall, NoRow

\* Calls are only ever added.
LEMMA CallsGrow ==
  ASSUME TypeOK, [Next]_vars
  PROVE  /\ Len(calls) \in Nat /\ Len(calls') \in Nat /\ Len(calls) <= Len(calls')
         /\ \A n \in 1 .. Len(calls) : calls'[n] = calls[n]
         /\ (\A t \in TaskId : ~Accept(t)) => calls' = calls
<1>1. Len(calls) \in Nat
  BY DEF TypeOK
<1>2. ASSUME NEW t \in TaskId, Accept(t)
      PROVE  /\ Len(calls') = Len(calls) + 1
             /\ \A n \in 1 .. Len(calls) : calls'[n] = calls[n]
  BY <1>2, AcceptEffect
<1>3. (\A t \in TaskId : ~Accept(t)) => calls' = calls
  BY DEF Next, vars, Deliver, Resolve, TimerFires, DialOk, DialFails, Result,
         Reinstall, Crash, Tick
<1> QED
  BY <1>1, <1>2, <1>3

\* An answer on its way is about a call.
LEMMA AnswersStep ==
  ASSUME MarksIInv, AnswersKnowTheirCalls, [Next]_vars
  PROVE  AnswersKnowTheirCalls'
<1> SUFFICES ASSUME NEW u \in TaskId, task'[u].stage = "accepted"
             PROVE  /\ task'[u].session \in 1 .. Len(calls')
                    /\ calls'[task'[u].session].lead = task'[u].lead
                    /\ calls'[task'[u].session].install = task'[u].install
  BY DEF AnswersKnowTheirCalls
<1>1. /\ TypeOK
      /\ Len(calls) \in Nat /\ Len(calls') \in Nat /\ Len(calls) <= Len(calls')
      /\ \A n \in 1 .. Len(calls) : calls'[n] = calls[n]
  BY CallsGrow DEF MarksIInv
<1>2. CASE task'[u] = task[u]
  BY <1>1, <1>2 DEF AnswersKnowTheirCalls
<1>3. ASSUME NEW c \in Customer, NEW t \in TaskId, NEW mode \in Mode, Deliver(c, t, mode)
      PROVE  task'[u] = task[u]
  BY <1>1, <1>3, DeliverTasks
<1>4. ASSUME NEW t \in TaskId, TimerFires(t)
      PROVE  task'[u] = task[u]
  BY <1>4, TimerFiresEffect
<1>5. ASSUME NEW t \in TaskId, Accept(t), u = t
      PROVE  /\ task'[u].session \in 1 .. Len(calls')
             /\ calls'[task'[u].session].lead = task'[u].lead
             /\ calls'[task'[u].session].install = task'[u].install
  BY <1>1, <1>5, AcceptEffect
<1>6. ASSUME NEW t \in TaskId, Accept(t), u # t
      PROVE  task'[u] = task[u]
  BY <1>1, <1>6, AcceptEffect
<1>7. ASSUME NEW t \in TaskId, DialOk(t) \/ DialFails(t)
      PROVE  task'[u] = task[u]
  BY <1>1, <1>7, DialOkEffect, DialFailsEffect DEF Idle
<1>8. ASSUME NEW s \in 1 .. Len(calls), Result(s)
      PROVE  task'[u] = task[u]
  BY <1>8 DEF Result
<1>9. Reinstall \/ Tick \/ UNCHANGED vars => task'[u] = task[u]
  BY DEF Reinstall, Tick, vars
<1>a. ~Crash
  BY DEF Crash, Idle
<1> QED
  BY <1>2, <1>3, <1>4, <1>5, <1>6, <1>7, <1>8, <1>9, <1>a DEF Next, Resolve

\* The call that a row names is one of its own.
LEMMA NamesStep ==
  ASSUME MarksIInv, AnswersKnowTheirCalls, RowsNameTheirCalls, [Next]_vars
  PROVE  RowsNameTheirCalls'
<1> SUFFICES ASSUME NEW i \in 1 .. MaxRows, i \notin foreign',
                    rows'[i].status \in {"placed", "completed"}
             PROVE  \/ Unnamed(i)'
                    \/ /\ rows'[i].session \in 1 .. Len(calls')
                       /\ calls'[rows'[i].session].install = installs'
                       /\ calls'[rows'[i].session].lead = i
  BY DEF RowsNameTheirCalls, Current
<1> DEFINE Named == \/ Unnamed(i)'
                    \/ /\ rows'[i].session \in 1 .. Len(calls')
                       /\ calls'[rows'[i].session].install = installs'
                       /\ calls'[rows'[i].session].lead = i
<1>1. /\ TypeOK
      /\ Len(calls) \in Nat /\ Len(calls') \in Nat /\ Len(calls) <= Len(calls')
      /\ \A n \in 1 .. Len(calls) : calls'[n] = calls[n]
  BY CallsGrow DEF MarksIInv
<1>2. ASSUME rows'[i] = rows[i], foreign \subseteq foreign', installs' = installs
      PROVE  Named
  BY <1>1, <1>2 DEF RowsNameTheirCalls, Current, Unnamed
<1>3. ASSUME NEW c \in Customer, NEW t \in TaskId, NEW mode \in Mode, Deliver(c, t, mode)
      PROVE  Named
  <2>1. Exists(i)'
    BY DEF Exists
  <2>2. rows'[i] = rows[i]
    BY <1>1, <1>3, <2>1, DeliverRows
  <2>3. foreign' = foreign /\ installs' = installs
    BY <1>1, <1>3, DeliverTasks
  <2> QED
    BY <1>2, <2>2, <2>3
<1>4. ASSUME NEW t \in TaskId, TimerFires(t)
      PROVE  Named
  BY <1>2, <1>4, TimerFiresEffect
<1>5. ASSUME NEW t \in TaskId, Accept(t)
      PROVE  Named
  <2>1. rows' = rows /\ foreign' = foreign /\ installs' = installs
    BY <1>1, <1>5, AcceptEffect
  <2> QED
    BY <1>2, <2>1
<1>6. ASSUME NEW t \in TaskId, DialOk(t)
      PROVE  Named
  <2>1. /\ task[t].stage = "accepted" /\ foreign \subseteq foreign'
        /\ installs' = installs /\ calls' = calls
        /\ \/ rows'[i] = rows[i]
           \/ /\ i = task[t].lead /\ rows'[i].session \in Told(t)
              /\ Current(task[t])
    BY <1>1, <1>6, DialOkEffect
  <2>2. /\ task[t].session \in 1 .. Len(calls)
        /\ calls[task[t].session].lead = task[t].lead
        /\ calls[task[t].session].install = task[t].install
    BY <2>1 DEF AnswersKnowTheirCalls
  <2> QED
    BY <1>2, <2>1, <2>2 DEF Current, Told, Unnamed
<1>7. ASSUME NEW t \in TaskId, DialFails(t)
      PROVE  Named
  <2>1. /\ rows'[i] = rows[i] /\ foreign \subseteq foreign'
        /\ installs' = installs
    BY <1>1, <1>7, DialFailsEffect
  <2> QED
    BY <1>2, <2>1
<1>8. ASSUME NEW s \in 1 .. Len(calls), Result(s)
      PROVE  Named
  <2>1. /\ foreign \subseteq foreign' /\ installs' = installs /\ calls' = calls
        /\ \/ rows'[i] = rows[i]
           \/ i = calls[s].lead /\ rows'[i].session = s /\ Current(calls[s])
    BY <1>1, <1>8, ResultEffect
  <2> QED
    BY <1>2, <2>1 DEF Current
<1>9. ~Reinstall
  BY ReinstallEmpties
<1>a. Crash \/ Tick \/ UNCHANGED vars => Named
  BY <1>2 DEF Crash, Tick, vars, history
<1> QED
  BY <1>3, <1>4, <1>5, <1>6, <1>7, <1>8, <1>9, <1>a DEF Next, Resolve

\* The handler of a call that was taken is at work, or its row names a call.
LEMMA FollowStep ==
  ASSUME MarksIInv, RowsFollowTheirCalls, [Next]_vars
  PROVE  RowsFollowTheirCalls'
<1> SUFFICES ASSUME NEW n \in 1 .. Len(calls'),
                    calls'[n].install = installs', rows'[calls'[n].lead].status # "none",
                    ~calls'[n].late, calls'[n].lead \notin released',
                    calls'[n].lead \notin cut', calls'[n].lead \notin foreign'
             PROVE  \/ rows'[calls'[n].lead].status \in {"placed", "completed"}
                    \/ \E t \in TaskId :
                         /\ Active(t)' /\ task'[t].install = installs'
                         /\ ~task'[t].late /\ task'[t].lead = calls'[n].lead
  BY DEF RowsFollowTheirCalls, Current, Exists
<1> DEFINE id == calls'[n].lead
           AtWork(t) == /\ Active(t) /\ task[t].install = installs
                        /\ ~task[t].late /\ task[t].lead = id
           Followed == \/ rows'[id].status \in {"placed", "completed"}
                       \/ \E t \in TaskId :
                            /\ Active(t)' /\ task'[t].install = installs'
                            /\ ~task'[t].late /\ task'[t].lead = id
<1>1. /\ TypeOK /\ calls \in Seq(Call)
      /\ Len(calls) \in Nat /\ Len(calls') \in Nat /\ Len(calls) <= Len(calls')
      /\ \A m \in 1 .. Len(calls) : calls'[m] = calls[m]
      /\ (\A t \in TaskId : ~Accept(t)) => calls' = calls
  BY CallsGrow DEF MarksIInv, TypeOK
<1>0. ASSUME calls' = calls
      PROVE  n \in 1 .. Len(calls) /\ id \in 1 .. MaxRows
  <2>1. calls[n] \in Call
    BY <1>1, <1>0
  <2> QED
    BY <1>0, <2>1 DEF Call
<1>2. ASSUME n \in 1 .. Len(calls), installs' = installs, rows'[id] = rows[id],
             released \subseteq released', cut \subseteq cut', foreign \subseteq foreign'
      PROVE  rows'[id].status \in {"placed", "completed"} \/ \E t \in TaskId : AtWork(t)
  <2>1. calls[n] = calls'[n]
    BY <1>1, <1>2
  <2>2. Exists(id)
    BY <1>2 DEF Exists
  <2> QED
    BY <1>2, <2>1, <2>2 DEF RowsFollowTheirCalls, Current
<1>3. ASSUME n \in 1 .. Len(calls), installs' = installs, rows'[id] = rows[id],
             released \subseteq released', cut \subseteq cut', foreign \subseteq foreign',
             \A t \in TaskId : AtWork(t) => task'[t] = task[t]
      PROVE  Followed
  <2>1. ASSUME NEW t \in TaskId, AtWork(t)
        PROVE  Followed
    BY <1>3, <2>1 DEF Active
  <2> QED
    BY <1>2, <1>3, <2>1
<1> HIDE DEF Followed
<1>4. ASSUME NEW c \in Customer, NEW t \in TaskId, NEW mode \in Mode, Deliver(c, t, mode)
      PROVE  Followed
  <2>1. /\ \A u \in TaskId : Active(u) => task'[u] = task[u]
        /\ leadSeq' = leadSeq + 1
        /\ UNCHANGED <<calls, installs, released, cut, foreign>>
    BY <1>1, <1>4, DeliverTasks
  <2>2. n \in DOMAIN calls /\ n \in 1 .. Len(calls)
    BY <1>1, <2>1
  <2> DEFINE h == Handling(calls[n].lead, calls[n].customer, calls[n].markedAt)
  <2>3. h \in Handlings /\ h.lead = calls[n].lead
    BY <2>1, <2>2 DEF Handlings, Handling, Current
  <2> HIDE DEF h
  <2>4. id \in 1 .. MaxRows /\ id <= leadSeq /\ leadSeq \in Nat
    BY <1>1, <2>1, <2>3, HandlingTypes, LeadAssumption
       DEF MarksIInv, HandlingHoldsMark, TypeOK
  <2>5. id \in 1 .. MaxRows /\ id # leadSeq + 1
    BY <2>4
  <2> HIDE DEF id
  <2>6. rows'[id] = rows[id]
    <3>1. \A i \in 1 .. MaxRows :
            rows'[i].status # "none" => rows'[i] = rows[i] \/ i = leadSeq + 1
      BY <1>1, <1>4, DeliverRows DEF Exists
    <3> QED
      BY <2>5, <3>1 DEF id
  <2> QED
    BY <1>3, <2>1, <2>2, <2>6
<1>5. ASSUME NEW t \in TaskId, TimerFires(t)
      PROVE  Followed
  <2>1. /\ task[t].late /\ \A u \in TaskId \ {t} : task'[u] = task[u]
        /\ UNCHANGED <<rows, calls, installs, released, cut, foreign>>
    BY <1>5, TimerFiresEffect
  <2> QED
    BY <1>3, <2>1
<1>6. ASSUME NEW t \in TaskId, Accept(t)
      PROVE  Followed
  <2>1. /\ Active(t) /\ \A u \in TaskId \ {t} : task'[u] = task[u]
        /\ task'[t].stage = "accepted" /\ task'[t].lead = task[t].lead
        /\ task'[t].install = task[t].install
        /\ Len(calls') = Len(calls) + 1
        /\ calls'[Len(calls) + 1].lead = task[t].lead
        /\ calls'[Len(calls) + 1].install = task[t].install
        /\ UNCHANGED <<rows, installs, released, cut, foreign>>
    BY <1>1, <1>6, AcceptEffect
  <2>2. /\ task[t].late => task'[t].late
        /\ task'[t].late => task[t].late
        /\ task'[t].late => calls'[Len(calls) + 1].late
    BY <1>1, <1>6, AcceptEffect
  <2>3. Active(t)'
    BY <2>1 DEF Active
  <2>4. CASE n = Len(calls) + 1
    BY <2>1, <2>2, <2>3, <2>4 DEF Followed
  <2>5. CASE n \in 1 .. Len(calls)
    <3>1. ASSUME NEW u \in TaskId, AtWork(u)
          PROVE  Followed
      <4>1. CASE u = t
        BY <2>1, <2>2, <2>3, <3>1, <4>1 DEF Followed
      <4>2. CASE u # t
        BY <2>1, <3>1, <4>2 DEF Followed, Active
      <4> QED
        BY <4>1, <4>2
    <3>2. rows'[id].status \in {"placed", "completed"} \/ \E u \in TaskId : AtWork(u)
      BY <1>2, <2>1, <2>5
    <3> QED
      BY <3>1, <3>2 DEF Followed
  <2> QED
    BY <1>1, <2>1, <2>4, <2>5
<1>7. ASSUME NEW t \in TaskId, DialOk(t)
      PROVE  Followed
  <2>1. /\ \A u \in TaskId \ {t} : task'[u] = task[u]
        /\ foreign \subseteq foreign'
        /\ UNCHANGED <<calls, installs, released, cut>>
    BY <1>1, <1>7, DialOkEffect
  <2>2. n \in 1 .. Len(calls) /\ id \in 1 .. MaxRows
    BY <1>0, <2>1
  <2>3. CASE rows'[id] = rows[id] /\ (id # task[t].lead \/ task[t].late \/ ~Exists(id))
    <3>1. Exists(id)
      BY <2>3 DEF Exists
    <3> QED
      BY <1>3, <2>1, <2>2, <2>3, <3>1
  <2>4. CASE rows'[id].status = "placed"
    BY <2>4 DEF Followed
  <2> QED
    BY <1>1, <1>7, <2>2, <2>3, <2>4, DialOkEffect
<1>8. ASSUME NEW t \in TaskId, DialFails(t)
      PROVE  Followed
  <2>1. /\ \A u \in TaskId \ {t} : task'[u] = task[u]
        /\ foreign \subseteq foreign' /\ released \subseteq released'
        /\ UNCHANGED <<calls, installs, cut>>
    BY <1>1, <1>8, DialFailsEffect
  <2>2. n \in 1 .. Len(calls) /\ id \in 1 .. MaxRows
    BY <1>0, <2>1
  <2>3. rows'[id] = rows[id] /\ (id # task[t].lead \/ task[t].late \/ ~Exists(id))
    BY <1>1, <1>8, <2>2, DialFailsEffect
  <2>4. Exists(id)
    BY <2>3 DEF Exists
  <2> QED
    BY <1>3, <2>1, <2>2, <2>3, <2>4
<1>9. ASSUME NEW s \in 1 .. Len(calls), Result(s)
      PROVE  Followed
  <2>1. /\ foreign \subseteq foreign'
        /\ UNCHANGED <<task, calls, installs, released, cut>>
    BY <1>1, <1>9, ResultEffect
  <2>2. n \in 1 .. Len(calls) /\ id \in 1 .. MaxRows
    BY <1>0, <2>1
  <2>3. CASE rows'[id] = rows[id]
    BY <1>3, <2>1, <2>2, <2>3
  <2>4. CASE rows'[id].status = "completed"
    BY <2>4 DEF Followed
  <2> QED
    BY <1>1, <1>9, <2>2, <2>3, <2>4, ResultEffect
<1>a. ~Reinstall
  <2>1. ASSUME Reinstall PROVE FALSE
    <3>1. calls' = calls
      BY <2>1 DEF Reinstall
    <3>2. id \in 1 .. MaxRows
      BY <1>0, <3>1
    <3> QED
      BY <2>1, <3>2, ReinstallEmpties
  <2> QED
    BY <2>1
<1>b. ASSUME Crash
      PROVE  Followed
  <2>1. /\ UNCHANGED <<rows, calls, installs, released, foreign>> /\ cut \subseteq cut'
        /\ \A u \in TaskId : Active(u) /\ Current(task[u]) => task[u].lead \in cut'
    BY <1>b DEF Crash
  <2>2. \A u \in TaskId : ~AtWork(u)
    BY <2>1 DEF Current
  <2> QED
    BY <1>3, <2>1, <2>2
<1>c. Tick \/ UNCHANGED vars => Followed
  BY <1>3 DEF Tick, vars, history
<1> QED
  BY <1>4, <1>5, <1>6, <1>7, <1>8, <1>9, <1>a, <1>b, <1>c DEF Next, Resolve, Followed

LEMMA InitTells == Init => LeadIInv
<1> SUFFICES ASSUME Init PROVE LeadIInv
  OBVIOUS
<1>1. MarksIInv
  BY Inits
<1>2. HandlingsAreOne
  <2>1. Handlings = {}
    BY DEF Init, Handlings, Exists, Active, NoRow, Idle
  <2> QED
    BY <2>1 DEF HandlingsAreOne
<1>3. AnswersKnowTheirCalls
  BY DEF Init, AnswersKnowTheirCalls, Idle
<1>4. RowsNameTheirCalls
  BY DEF Init, RowsNameTheirCalls, NoRow
<1>5. RowsFollowTheirCalls
  BY DEF Init, RowsFollowTheirCalls
<1> QED
  BY <1>1, <1>2, <1>3, <1>4, <1>5 DEF LeadIInv
-----------------------------------------------------------------------------
\* The inductive invariant, for every number of customers, callbacks in flight,
\* rows, calls and installations, with crashes, lost answers and reinstalls at any
\* moment: as long as a request of placeCall ends before its mark expires, only the
\* handler that holds a customer's mark, or one whose mark was given back already,
\* gives it back (leadCallback.js:106, store.js:214-236).
THEOREM LeadInductive == QuickRequests => (Spec => []LeadIInv)
<1> SUFFICES ASSUME QuickRequests PROVE Spec => []LeadIInv
  OBVIOUS
<1>1. LeadIInv /\ [Next]_vars => LeadIInv'
  BY MarksStep, OneStep, AnswersStep, NamesStep, FollowStep DEF LeadIInv
<1> QED
  BY <1>1, InitTells, PTL DEF Spec

LEMMA RowsFollow == LeadIInv => OneRowPerWindow
<1> SUFFICES ASSUME LeadIInv,
                    NEW i \in 1 .. MaxRows, NEW k \in 1 .. MaxRows,
                    i < k, Exists(i), Exists(k), rows[i].customer = rows[k].customer
             PROVE  i \in released \/ rows[i].createdAt + TTL <= rows[k].createdAt
  BY DEF OneRowPerWindow
<1> DEFINE x == Handling(i, rows[i].customer, rows[i].createdAt)
           y == Handling(k, rows[k].customer, rows[k].createdAt)
<1>1. x \in Handlings /\ y \in Handlings
  BY DEF Handlings
<1>2. /\ x.lead = i /\ x.customer = rows[i].customer /\ x.at = rows[i].createdAt
      /\ y.lead = k /\ y.customer = rows[k].customer /\ y.at = rows[k].createdAt
  BY DEF Handling
<1> HIDE DEF x, y
<1> QED
  BY <1>1, <1>2 DEF LeadIInv, MarksIInv, HandlingsApart

\* Redeliveries of store/customer/created make no second row within the TTL, unless
\* the placement of the older row failed (leadCallback.js:58-60, store.js:214-228).
THEOREM RowsOncePerWindow == QuickRequests => (Spec => []OneRowPerWindow)
<1> SUFFICES ASSUME QuickRequests PROVE Spec => []OneRowPerWindow
  OBVIOUS
<1>1. Spec => []LeadIInv
  BY LeadInductive
<1> QED
  BY <1>1, RowsFollow, PTL

LEMMA CallsFollow == LeadIInv => OneCallbackPerWindow
<1> SUFFICES ASSUME LeadIInv,
                    NEW m \in 1 .. Len(calls), NEW n \in 1 .. Len(calls),
                    Current(calls[m]), Current(calls[n]),
                    calls[m].lead < calls[n].lead,
                    calls[m].customer = calls[n].customer
             PROVE  \/ calls[m].lead \in released
                    \/ calls[m].markedAt + TTL <= calls[n].markedAt
  BY DEF OneCallbackPerWindow
<1> DEFINE x == Handling(calls[m].lead, calls[m].customer, calls[m].markedAt)
           y == Handling(calls[n].lead, calls[n].customer, calls[n].markedAt)
<1>1. m \in DOMAIN calls /\ n \in DOMAIN calls
  BY DEF LeadIInv, MarksIInv, TypeOK
<1>2. x \in Handlings /\ y \in Handlings
  BY <1>1 DEF Handlings
<1>3. /\ x.lead = calls[m].lead /\ x.customer = calls[m].customer
      /\ x.at = calls[m].markedAt
      /\ y.lead = calls[n].lead /\ y.customer = calls[n].customer
      /\ y.at = calls[n].markedAt
  BY DEF Handling
<1> HIDE DEF x, y
<1> QED
  BY <1>2, <1>3 DEF LeadIInv, MarksIInv, HandlingsApart

\* A new customer is called back once per TTL and installation, unless the app
\* saw the earlier placement fail (leadCallback.js:58-60 and :106).
THEOREM CallbacksOncePerWindow == QuickRequests => (Spec => []OneCallbackPerWindow)
<1> SUFFICES ASSUME QuickRequests PROVE Spec => []OneCallbackPerWindow
  OBVIOUS
<1>1. Spec => []LeadIInv
  BY LeadInductive
<1> QED
  BY <1>1, CallsFollow, PTL

LEMMA RowsTell == LeadIInv => RowTellsOfItsCall
<1> SUFFICES ASSUME LeadIInv, NEW n \in 1 .. Len(calls),
                    Current(calls[n]), Exists(calls[n].lead), ~calls[n].late,
                    calls[n].lead \notin released \cup cut \cup foreign,
                    \A t \in TaskId :
                      Active(t) /\ Current(task[t]) => task[t].lead # calls[n].lead
             PROVE  /\ rows[calls[n].lead].status \in {"placed", "completed"}
                    /\ \/ Unnamed(calls[n].lead)
                       \/ \E m \in 1 .. Len(calls) :
                            /\ rows[calls[n].lead].session = m
                            /\ calls[m].customer = rows[calls[n].lead].customer
  BY DEF RowTellsOfItsCall
<1> DEFINE id == calls[n].lead
           m == rows[id].session
           x == Handling(id, rows[id].customer, rows[id].createdAt)
           y == Handling(calls[m].lead, calls[m].customer, calls[m].markedAt)
<1>1. TypeOK /\ calls[n] \in Call /\ id \in 1 .. MaxRows
  <2>1. TypeOK /\ calls[n] \in Call
    BY DEF LeadIInv, MarksIInv, TypeOK
  <2> QED
    BY <2>1 DEF Call
<1>2. rows[id].status \in {"placed", "completed"}
  BY DEF LeadIInv, RowsFollowTheirCalls
<1>3. CASE Unnamed(id)
  BY <1>2, <1>3
<1>4. CASE ~Unnamed(id)
  <2>1. m \in 1 .. Len(calls) /\ Current(calls[m]) /\ calls[m].lead = id
    BY <1>1, <1>2, <1>4 DEF LeadIInv, RowsNameTheirCalls
  <2>2. m \in DOMAIN calls
    BY <1>1, <2>1 DEF TypeOK
  <2>3. x \in Handlings /\ y \in Handlings
    BY <1>1, <2>1, <2>2 DEF Handlings
  <2>4. /\ x.lead = id /\ x.customer = rows[id].customer
        /\ y.lead = calls[m].lead /\ y.customer = calls[m].customer
    BY DEF Handling
  <2> HIDE DEF x, y
  <2>5. x = y
    BY <2>1, <2>3, <2>4 DEF LeadIInv, HandlingsAreOne
  <2> QED
    BY <1>2, <2>1, <2>4, <2>5
<1> QED
  BY <1>3, <1>4

\* A row tells what became of its callback, whatever the order in which the answer
\* of initiateCall, its failure, results and other callbacks reach it, unless a
\* crash cut the handler off, its answer was lost or a callback of an earlier
\* installation patched the row (leadCallback.js:98-117, webhooks/telenow.js:181-192).
THEOREM RowsTellTheirCalls == QuickRequests => (Spec => []RowTellsOfItsCall)
<1> SUFFICES ASSUME QuickRequests PROVE Spec => []RowTellsOfItsCall
  OBVIOUS
<1>1. Spec => []LeadIInv
  BY LeadInductive
<1> QED
  BY <1>1, RowsTell, PTL

LEMMA RowsStayGone ==
  LeadIInv /\ [Next]_vars
    => [\A i \in 1 .. MaxRows : ~Exists(i) /\ Exists(i)' => leadSeq < i /\ i <= leadSeq']_vars
<1> SUFFICES ASSUME LeadIInv, Next, NEW i \in 1 .. MaxRows, ~Exists(i), Exists(i)'
             PROVE  leadSeq < i /\ i <= leadSeq'
  OBVIOUS
<1>1. TypeOK /\ leadSeq \in Nat
  BY DEF LeadIInv, MarksIInv, TypeOK
<1>2. ASSUME NEW c \in Customer, NEW t \in TaskId, NEW mode \in Mode, Deliver(c, t, mode)
      PROVE  leadSeq < i /\ i <= leadSeq'
  <2>1. i = leadSeq + 1
    BY <1>1, <1>2, DeliverRows
  <2>2. leadSeq' = leadSeq + 1
    BY <1>2 DEF Deliver
  <2> QED
    BY <1>1, <2>1, <2>2
<1>3. ASSUME NEW t \in TaskId, Resolve(t)
      PROVE  FALSE
  <2>1. CASE TimerFires(t) \/ Accept(t)
    BY <2>1 DEF TimerFires, Accept, Exists
  <2>2. CASE DialOk(t) \/ DialFails(t)
    BY <1>1, <2>2, DialRows
  <2> QED
    BY <1>3, <2>1, <2>2 DEF Resolve
<1>4. ASSUME NEW s \in 1 .. Len(calls), Result(s)
      PROVE  FALSE
  BY <1>1, <1>4, ResultRows
<1>5. ~Reinstall
  <2>1. Reinstall => \A k \in 1 .. MaxRows : ~Exists(k)'
    BY DEF Reinstall, Exists, NoRow
  <2> QED
    BY <2>1
<1>6. ~Crash
  BY DEF Crash, Exists
<1>7. ~Tick
  BY DEF Tick, Exists
<1> QED
  BY <1>2, <1>3, <1>4, <1>5, <1>6, <1>7 DEF Next

\* A row that was pruned, or purged with its store, does not come back: neither an
\* answer of initiateCall nor a late result writes it anew (store.js:317-320).
THEOREM PrunedRowsStayGone == QuickRequests => (Spec => PrunedStaysGone)
<1> SUFFICES ASSUME QuickRequests PROVE Spec => PrunedStaysGone
  OBVIOUS
<1>1. Spec => []LeadIInv
  BY LeadInductive
<1> QED
  BY <1>1, RowsStayGone, PTL DEF Spec, PrunedStaysGone
=============================================================================
