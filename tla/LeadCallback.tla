---------------------------- MODULE LeadCallback ----------------------------
(***************************************************************************)
(* src/automations/leadCallback.js and the lead rows of src/store.js: a new  *)
(* customer is marked, stored as a row of the dashboard and called back; the *)
(* row follows the call through the answer of initiateCall and the result    *)
(* that Telenow posts, two independent messages.                             *)
(*                                                                         *)
(* placeCall's own dedupe key holds the row id, which insertLead has just    *)
(* made, so its mark never blocks; the customer's mark is the one that does. *)
(***************************************************************************)
EXTENDS Integers, Sequences, FiniteSets

CONSTANTS
  Customer,     \* BigCommerce customers with an id
  WithPhone,    \* those toE164 finds a phone for
  TTL,          \* of a mark
  Delay,        \* delayMinutes when the callback is configured as delayed
  Latency,      \* how late a timer fires, how long a request takes
  MaxLeads,     \* MAX_LEADS_PER_STORE
  TaskId,       \* slots for callbacks in flight
  Faults,       \* "answerLost", "noSession", "crash", "reinstall": those that may
                \* happen
  MaxRows,      \* bound on the rows of the first installation; each later one has
                \* room for one less
  MaxCalls,     \* bound on the calls Telenow takes
  MaxInstalls,  \* bound on the installations
  MaxTime       \* bound on the clock

INSTANCE Attempts WITH Key <- Customer

ASSUME LeadAssumption ==
  /\ WithPhone \subseteq Customer
  /\ TTL \in Nat \ {0} /\ Delay \in Nat \ {0} /\ Latency \in Nat
  /\ MaxLeads \in Nat \ {0}
  /\ Faults \subseteq {"answerLost", "noSession", "crash", "reinstall"}
  /\ MaxRows \in Nat /\ MaxCalls \in Nat /\ MaxInstalls \in Nat \ {0} /\ MaxTime \in Nat

VARIABLES
  now,
  attempts,  \* the customers' marks
  leadSeq,   \* the last row id
  rows,      \* the lead rows, by id
  task,      \* callbacks in flight
  calls,     \* history: the calls Telenow took
  installs,  \* history: the installation the store is in
  released,  \* history: rows whose customer's mark a failed placement gave back
  cut,       \* history: rows whose callback a crash cut off
  foreign    \* history: rows patched for a callback of an earlier installation

history == <<installs, released, cut, foreign>>

vars == <<now, attempts, leadSeq, rows, task, calls, history>>

\* What settings and clock make of the automation: "off" (disabled, no key, no
\* agent or quiet hours), "immediate" or "delayed".  Both may change between any
\* two steps, so each reading of them is any of these.
Mode == {"off", "immediate", "delayed"}

NoRow == [status |-> "none"]

\* Of a row that names no call, and of an answer without a session.
NoSession == 0

Row == [status : {"queued", "skipped", "placed", "failed", "completed"},
        customer : Customer, createdAt : Nat, session : Nat]

Idle == [stage |-> "idle"]

\* `late` says that placeCall only scheduled the call: handleLeadCallback is
\* over, and nobody waits for what becomes of it.
Task == [stage : {"timer", "dialing", "accepted"}, lead : 1 .. MaxRows,
         customer : Customer, markedAt : Nat, due : Nat, late : BOOLEAN,
         session : Nat, install : Nat]

Call == [lead : 1 .. MaxRows, customer : Customer, markedAt : Nat, late : BOOLEAN,
         install : Nat]

TypeOK == /\ now \in Nat
          /\ attempts \in [Customer -> Nat \cup {NoMark}]
          /\ leadSeq \in 0 .. MaxRows
          /\ rows \in [1 .. MaxRows -> {NoRow} \cup Row]
          /\ task \in [TaskId -> {Idle} \cup Task]
          /\ calls \in Seq(Call)
          /\ installs \in 1 .. MaxInstalls
          /\ released \subseteq 1 .. MaxRows
          /\ cut \subseteq 1 .. MaxRows
          /\ foreign \subseteq 1 .. MaxRows
-----------------------------------------------------------------------------
Active(t) == task[t].stage # "idle"

Exists(id) == rows[id].status # "none"

\* pruneLeads: the MaxLeads rows with the highest ids stay.
Pruned(r) ==
  [i \in 1 .. MaxRows |->
     IF Cardinality({k \in i + 1 .. MaxRows : r[k].status # "none"}) >= MaxLeads
       THEN NoRow ELSE r[i]]

\* A slip: the patch goes to the newest row.
Update_Newest(id, patch) ==
  rows' = [rows EXCEPT ![leadSeq].status = patch.status]

\* A slip: a row that is gone is written anew.
Update_Recreates(id, patch) ==
  rows' = [rows EXCEPT ![id] = [status |-> patch.status, createdAt |-> now,
             customer |-> CHOOSE c \in Customer : TRUE, session |-> NoSession]]

\* updateLead: a patch of a row that is there.
Update(id, patch) ==
  rows' = IF Exists(id)
            THEN [rows EXCEPT ![id].status = patch.status,
                              ![id].session = IF "session" \in DOMAIN patch
                                                THEN patch.session ELSE @]
            ELSE rows

Current(x) == x.install = installs

\* A handled store/customer/created: the row it made, its customer, and when.
Handling(lead, customer, at) == [lead |-> lead, customer |-> customer, at |-> at]

\* Those of this installation that rows, callbacks or calls bear witness of.
Handlings ==
  {Handling(i, rows[i].customer, rows[i].createdAt) :
     i \in {k \in 1 .. MaxRows : Exists(k)}}
  \cup {Handling(task[t].lead, task[t].customer, task[t].markedAt) :
          t \in {u \in TaskId : Active(u) /\ Current(task[u])}}
  \cup {Handling(calls[n].lead, calls[n].customer, calls[n].markedAt) :
          n \in {m \in DOMAIN calls : Current(calls[m])}}

\* The rows that a failed placement takes the mark from: its own, and, where a
\* reinstall has let two of the customer's placements run at once, the others
\* too, since clearAttempt asks for no owner.
Losing(t) ==
  LET own == IF Current(task[t]) THEN {task[t].lead} ELSE {}
  IN  own \cup {x.lead : x \in {y \in Handlings : /\ own \subseteq released
                                                  /\ y.customer = task[t].customer}}

\* The outer catch of handleLeadCallback, not reached by a scheduled call.
ReleaseMark(t) ==
  IF task[t].late
    THEN UNCHANGED <<attempts, released>>
    ELSE /\ attempts' = Cleared(attempts, task[t].customer)
         /\ released' = released \cup Losing(t)

\* The row that a patch for x (a callback or a call) is about to touch, when x
\* is of an earlier installation, whose ids have been given out again.
Touching(x) ==
  foreign' = foreign \cup {i \in {x.lead} : ~Current(x) /\ Exists(i)}
-----------------------------------------------------------------------------
Init == /\ now = 0
        /\ attempts = NoMarks
        /\ leadSeq = 0
        /\ rows = [i \in 1 .. MaxRows |-> NoRow]
        /\ task = [t \in TaskId |-> Idle]
        /\ calls = <<>>
        /\ released = {}
        /\ installs = 1
        /\ cut = {}
        /\ foreign = {}

\* A slip: the reason of a skip is not written back.
FirstStatus_Queued(c, mode) == "queued"

\* What becomes of a fresh row at once: it is skipped, or its call is asked for.
FirstStatus(c, mode) ==
  IF c \in WithPhone /\ mode = "immediate" THEN "queued" ELSE "skipped"

RowBound == MaxRows + 1 - installs

\* A slip: the row is stored, and the call asked for, before the mark is read.
CanHandle_NoDedupe(c) == leadSeq < RowBound

CanHandle(c) == ~Live(attempts[c], now) /\ leadSeq < RowBound

\* handleLeadCallback up to its first await: mark, row, and placeCall's guards.
Deliver(c, t, mode) ==
  LET id == leadSeq + 1
      late == mode = "delayed"
  IN /\ CanHandle(c)
     /\ ~Active(t) /\ t = CHOOSE u \in TaskId : ~Active(u)
     /\ now + Delay + 2 * Latency <= MaxTime
     /\ attempts' = Marked(attempts, c, now)
     /\ leadSeq' = id
     /\ rows' = Pruned([rows EXCEPT ![id] =
                  [status |-> FirstStatus(c, mode), customer |-> c,
                   createdAt |-> now, session |-> NoSession]])
     /\ task' = IF c \notin WithPhone \/ mode = "off" THEN task
                ELSE [task EXCEPT ![t] =
                  [stage |-> IF late THEN "timer" ELSE "dialing",
                   lead |-> id, customer |-> c, markedAt |-> now, late |-> late,
                   session |-> NoSession, install |-> installs,
                   due |-> IF late THEN now + Delay ELSE now]]
     /\ UNCHANGED <<now, calls, history>>

\* The timer of placeCall.  It reads enabled and quiet hours again; an agent or
\* a key that is gone by now does not stop the call.
TimerFires(t) ==
  /\ task[t].stage = "timer"
  /\ now >= task[t].due
  /\ \/ task' = [task EXCEPT ![t].stage = "dialing", ![t].due = now]
     \/ task' = [task EXCEPT ![t] = Idle]
  /\ UNCHANGED <<now, attempts, leadSeq, rows, calls, history>>

\* Telenow takes the call.
Accept(t) ==
  /\ task[t].stage = "dialing"
  /\ Len(calls) < MaxCalls
  /\ calls' = Append(calls, [lead |-> task[t].lead, customer |-> task[t].customer,
                             markedAt |-> task[t].markedAt, late |-> task[t].late,
                             install |-> task[t].install])
  /\ task' = [task EXCEPT ![t].stage = "accepted",
                          ![t].session = Len(calls) + 1]
  /\ UNCHANGED <<now, attempts, leadSeq, rows, history>>

\* The sessions that the answer of a call may tell: none, if Telenow leaves it out.
Told(t) == {task[t].session}
             \cup (IF "noSession" \in Faults THEN {NoSession} ELSE {})

\* initiateCall resolves, and for an immediate call the row says so; it names the
\* session if the answer does.
DialOk(t) ==
  /\ task[t].stage = "accepted"
  /\ IF task[t].late
       THEN UNCHANGED <<rows, foreign>>
       ELSE /\ \E session \in Told(t) :
                 Update(task[t].lead, [status |-> "placed", session |-> session])
            /\ Touching(task[t])
  /\ task' = [task EXCEPT ![t] = Idle]
  /\ UNCHANGED <<now, attempts, leadSeq, calls, installs, released, cut>>

\* initiateCall rejects, whether Telenow refused the call or its answer is lost.
DialFails(t) ==
  /\ \/ task[t].stage = "dialing"
     \/ task[t].stage = "accepted" /\ "answerLost" \in Faults
  /\ ReleaseMark(t)
  /\ IF task[t].late
       THEN UNCHANGED <<rows, foreign>>
       ELSE /\ Update(task[t].lead, [status |-> "failed"])
            /\ Touching(task[t])
  /\ task' = [task EXCEPT ![t] = Idle]
  /\ UNCHANGED <<now, leadSeq, calls, installs, cut>>

\* A result of Telenow, the first or a later one: handleResult's lead branch.
\* The row is named by callMap or, without an entry, by the identifier.
Result(s) ==
  /\ Update(calls[s].lead, [status |-> "completed", session |-> s])
  /\ Touching(calls[s])
  /\ UNCHANGED <<now, attempts, leadSeq, task, calls, installs, released, cut>>

\* A slip: the rows stay.
Reinstall_KeepsRows ==
  /\ "reinstall" \in Faults /\ installs < MaxInstalls
  /\ installs' = installs + 1
  /\ attempts' = NoMarks
  /\ leadSeq' = 0
  /\ released' = {} /\ cut' = {} /\ foreign' = {}
  /\ UNCHANGED <<now, rows, task, calls>>

\* /uninstall (deleteStore), and the /auth that may follow.  Timers and requests in
\* flight know nothing of it.
Reinstall ==
  /\ "reinstall" \in Faults /\ installs < MaxInstalls
  /\ installs' = installs + 1
  /\ attempts' = NoMarks
  /\ leadSeq' = 0
  /\ rows' = [i \in 1 .. MaxRows |-> NoRow]
  /\ released' = {} /\ cut' = {} /\ foreign' = {}
  /\ UNCHANGED <<now, task, calls>>

Crash ==
  /\ "crash" \in Faults
  /\ \E t \in TaskId : Active(t)
  /\ task' = [t \in TaskId |-> Idle]
  /\ cut' = cut \cup {task[t].lead : t \in {u \in TaskId : Active(u) /\ Current(task[u])}}
  /\ UNCHANGED <<now, attempts, leadSeq, rows, calls, installs, released, foreign>>

Tick ==
  /\ now < MaxTime
  /\ \A t \in TaskId : Active(t) => now < task[t].due + Latency
  /\ now' = now + 1
  /\ UNCHANGED <<attempts, leadSeq, rows, task, calls, history>>

Resolve(t) == TimerFires(t) \/ Accept(t) \/ DialOk(t) \/ DialFails(t)

Next == \/ \E c \in Customer, t \in TaskId, mode \in Mode : Deliver(c, t, mode)
        \/ \E t \in TaskId : Resolve(t)
        \/ \E s \in 1 .. Len(calls) : Result(s)
        \/ Reinstall \/ Crash \/ Tick

Spec == Init /\ [][Next]_vars

\* Requests settle by their answer or their timeout.
FairSpec == Spec /\ \A t \in TaskId : WF_vars(Resolve(t))
-----------------------------------------------------------------------------
\* Redeliveries of store/customer/created make no second row: two rows of one
\* customer are a TTL apart, unless the placement of the older one failed and
\* asked for the retry (or one from before a reinstall did).
OneRowPerWindow ==
  \A i, k \in 1 .. MaxRows :
    /\ i < k /\ Exists(i) /\ Exists(k) /\ rows[i].customer = rows[k].customer
    => i \in released \/ rows[i].createdAt + TTL <= rows[k].createdAt

\* ... and no second callback: a customer is called again within
\* one installation and the TTL only after a placement the app saw fail.
OneCallbackPerWindow ==
  \A m, n \in 1 .. Len(calls) :
    /\ Current(calls[m]) /\ Current(calls[n]) /\ calls[m].lead < calls[n].lead
    /\ calls[m].customer = calls[n].customer
    => calls[m].lead \in released \/ calls[m].markedAt + TTL <= calls[n].markedAt

\* What makes these inductive, when a request is over before its mark expires:
\* all that bears witness of a handled event says the same.  The mark of a
\* customer stays for a TTL unless a failed placement gave it back,
HandlingHoldsMark ==
  \A x \in Handlings :
    /\ x.lead <= leadSeq /\ x.at <= now
    /\ \/ x.lead \in released
       \/ x.at + TTL <= now
       \/ attempts[x.customer] = x.at

\* so that two handlings of a customer are a TTL apart,
HandlingsApart ==
  \A x, y \in Handlings :
    x.customer = y.customer /\ x.lead < y.lead
    => x.lead \in released \/ x.at + TTL <= y.at

\* and only a handler that still holds its mark can give it back.
RequestsAreQuick ==
  \A t \in TaskId :
    Active(t) /\ ~task[t].late =>
      /\ task[t].stage # "timer" /\ task[t].due = task[t].markedAt
      /\ now <= task[t].markedAt + Latency

QuickRequests == Latency < TTL

\* Nothing is of an installation still to come.
InstallsArePast ==
  /\ \A t \in TaskId : Active(t) => task[t].install <= installs
  /\ \A n \in DOMAIN calls : calls[n].install <= installs

MarksIInv == /\ TypeOK
             /\ HandlingHoldsMark
             /\ HandlingsApart
             /\ RequestsAreQuick
             /\ InstallsArePast

\* A row, its callback and its call are about one event.
HandlingsAreOne == \A x, y \in Handlings : x.lead = y.lead => x = y

\* An answer on its way is about a call.
AnswersKnowTheirCalls ==
  \A t \in TaskId : task[t].stage = "accepted" =>
    /\ task[t].session \in 1 .. Len(calls)
    /\ calls[task[t].session].lead = task[t].lead
    /\ calls[task[t].session].install = task[t].install

\* A row names no call because the answer named none.
Unnamed(i) == rows[i].session = NoSession /\ "noSession" \in Faults

\* A row that names a call names one of its own.
RowsNameTheirCalls ==
  \A i \in (1 .. MaxRows) \ foreign : rows[i].status \in {"placed", "completed"} =>
    \/ Unnamed(i)
    \/ /\ rows[i].session \in 1 .. Len(calls)
       /\ Current(calls[rows[i].session]) /\ calls[rows[i].session].lead = i

\* The row of a call that was taken will name one, as long as its handler is at work.
RowsFollowTheirCalls ==
  \A n \in 1 .. Len(calls) :
    LET id == calls[n].lead IN
    /\ Current(calls[n]) /\ Exists(id) /\ ~calls[n].late
    /\ id \notin released \cup cut \cup foreign
    => \/ rows[id].status \in {"placed", "completed"}
       \/ \E t \in TaskId : /\ Active(t) /\ Current(task[t]) /\ ~task[t].late
                            /\ task[t].lead = id

LeadIInv == /\ MarksIInv
            /\ HandlingsAreOne
            /\ AnswersKnowTheirCalls
            /\ RowsNameTheirCalls
            /\ RowsFollowTheirCalls

\* A row that was pruned, or purged with its store, does not come back, neither
\* by the answer of its call nor by a result that is still to come: a row appears
\* only under an id that has just been given out.
PrunedStaysGone ==
  [][\A i \in 1 .. MaxRows : ~Exists(i) /\ Exists(i)' => leadSeq < i /\ i <= leadSeq']_vars

\* A row tells what became of its callback: once the handler is through, the row
\* of an immediate call that was taken is "placed" or "completed", and the call it
\* names is one of its customer's (it names none only where Telenow's answer does
\* not); unless the answer got lost, a crash cut the handler off or a callback of an
\* earlier installation patched the row.  It does not say which of the two: the
\* answer sets "placed" also after the result (CompletedStands), and nothing ever
\* tells the row of a scheduled call.
RowTellsOfItsCall ==
  \A n \in 1 .. Len(calls) :
    LET id == calls[n].lead IN
    /\ Current(calls[n]) /\ Exists(id) /\ ~calls[n].late
    /\ id \notin released \cup cut \cup foreign
    /\ \A t \in TaskId : Active(t) /\ Current(task[t]) => task[t].lead # id
    => /\ rows[id].status \in {"placed", "completed"}
       /\ \/ Unnamed(id)
          \/ \E m \in 1 .. Len(calls) :
               rows[id].session = m /\ calls[m].customer = rows[id].customer

\* A row is "queued" only while its call is being placed, but for a crash.
QueuedIsPassing ==
  \A i \in 1 .. MaxRows :
    rows[i].status = "queued" ~> (rows[i].status # "queued" \/ i \in cut)

\* leadCallback.js:12-14: the result marks the lead completed; nothing after it
\* is about the lead any more.
CompletedStands ==
  [][\A i \in 1 .. MaxRows :
       rows[i].status = "completed" => rows'[i].status \in {"completed", "none"}]_vars

\* README:155 and store.js:141: uninstalling purges everything, so that the rows
\* of the next installation tell of its own calls only.
RowsAreOfTheirCalls ==
  \A i \in 1 .. MaxRows :
    Exists(i) /\ rows[i].session # 0 => Current(calls[rows[i].session])
=============================================================================
