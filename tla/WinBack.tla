------------------------------ MODULE WinBack ------------------------------
(***************************************************************************)
(* src/automations/winBack.js for one store: periodic sweeps over the        *)
(* customers, each awaiting BigCommerce for a customer's last order and      *)
(* Telenow for the call; nothing keeps two sweeps apart.  Two records stop a *)
(* second call: placeCall's mark (TTL) and the entry a sweep puts into       *)
(* callMap under the customer (winBackDays).                                 *)
(*                                                                         *)
(* Every customer has a phone and one placement in flight.  A second needs   *)
(* an expired mark, which under ShortDelays no placement in flight has.  The *)
(* module says nothing of longer delays, where the code places a second call *)
(* beside a pending one and the guard placement[c] = Idle would hide it.     *)
(***************************************************************************)
EXTENDS Integers, Sequences, FiniteSets

CONSTANTS
  Customer,    \* the customers of the first page
  Listed,      \* the order in which BigCommerce lists them
  Ordered,     \* when each of them ordered last, at the beginning
  Refused,     \* those whose call Telenow always refuses
  TTL,         \* of a mark, one day
  DaysChoices, \* the winBackDays a merchant may set
  Delays,      \* the delayMinutes a merchant may set
  Latency,     \* how late a timer fires, how long a request takes
  SweepId,     \* slots for sweeps in flight
  Faults,      \* "readFails", "answerLost", "crash": those that may happen
  MaxCalls,    \* bound on the calls Telenow takes
  MaxOrders,   \* bound on the orders customers place
  MaxChanges,  \* bound on the changes of mode
  MaxTime      \* bound on the clock

INSTANCE Attempts WITH Key <- Customer

ASSUME WinBackAssumption ==
  /\ Listed \in Seq(Customer)
  /\ Ordered \in [Customer -> Int] /\ Refused \subseteq Customer
  /\ Delays \subseteq Nat /\ Delays # {}
  /\ Latency \in Nat /\ TTL \in Nat
  /\ DaysChoices \subseteq Nat /\ DaysChoices # {}
  /\ Faults \subseteq {"readFails", "answerLost", "crash"}
  /\ MaxCalls \in Nat /\ MaxOrders \in Nat /\ MaxChanges \in Nat
  /\ MaxTime \in Nat

\* The timer and the request of a call end before its mark expires.  Nothing in
\* the code sees to it: server.js:170 takes any delayMinutes that is not negative
\* and app.html:191 offers a week, while a mark lasts a day.
ShortDelays == \A d \in Delays : d + 2 * Latency < TTL

VARIABLES
  now,
  mode,       \* what placeCall's guards make of the automation
  delay,      \* its delayMinutes
  days,       \* winBackDays
  lastOrder,  \* when a customer ordered last
  attempts,   \* placeCall's marks
  recorded,   \* createdAt of callMap's "winback:" entries
  sweep,      \* sweeps in flight
  placement,  \* placeCall for a customer, past its guards
  calls,      \* history: the calls Telenow took
  quieted,    \* history: when a customer was passed over for quiet hours
  unseen,     \* history: customers whose call the sweep learnt nothing of
  orders, changes

vars == <<now, mode, delay, days, lastOrder, attempts, recorded, sweep, placement, calls,
          quieted, unseen, orders, changes>>

\* What only customers, merchants and the calendar change.
env == <<mode, delay, days, lastOrder, orders, changes>>

Mode == {"off", "noKey", "quiet", "on"}

\* No entry, no time.
Never == -1

Idle == [stage |-> "idle"]

\* todo is the rest of the page, its head the customer in hand; days is what the
\* sweep read of winBackDays when it began.
Sweep == [stage : {"list", "orders", "placing"}, cutoff : Int, days : DaysChoices,
          todo : Seq(Customer), due : Nat]

\* by names the sweep that awaits the placement; a scheduled one has none.  days is
\* history: the window of the sweep that placed.
Placement == [stage : {"timer", "dialing", "accepted"}, markedAt : Nat,
              due : Nat, by : SUBSET SweepId, days : DaysChoices]

Call == [customer : Customer, markedAt : Nat, at : Nat, late : BOOLEAN,
         days : DaysChoices]

TypeOK == /\ now \in Nat
          /\ mode \in Mode
          /\ delay \in Delays /\ days \in DaysChoices
          /\ lastOrder \in [Customer -> Int]
          /\ attempts \in [Customer -> Nat \cup {NoMark}]
          /\ recorded \in [Customer -> Nat \cup {Never}]
          /\ sweep \in [SweepId -> {Idle} \cup Sweep]
          /\ placement \in [Customer -> {Idle} \cup Placement]
          /\ calls \in Seq(Call)
          /\ quieted \in [Customer -> SUBSET Nat]
          /\ unseen \subseteq Customer
          /\ orders \in 0 .. MaxOrders /\ changes \in 0 .. MaxChanges
-----------------------------------------------------------------------------
Running(w) == w.stage # "idle"

\* A slip: two customers are taken off the page.
After_SkipsOne(w) ==
  IF Len(w.todo) <= 2 THEN Idle
  ELSE [w EXCEPT !.stage = "orders", !.todo = Tail(Tail(@)), !.due = now]

\* The sweep after its customer in hand: the next one, or the end.
After(w) == IF Len(w.todo) = 1 THEN Idle
            ELSE [w EXCEPT !.stage = "orders", !.todo = Tail(@), !.due = now]

\* A slip: a customer counts as won back for a day only.
InWindow_Day(c, window) == recorded[c] # Never /\ now - recorded[c] < TTL

\* An entry younger than winBackDays stops the customer.
InWindow(c, window) == recorded[c] # Never /\ now - recorded[c] < window

\* The customer in hand is lapsed, and not on record.
ToWinBack(t) == LET c == Head(sweep[t].todo) IN
                lastOrder[c] < sweep[t].cutoff /\ ~InWindow(c, sweep[t].days)

\* A slip: an attempt counts as a call whatever came of it.
Record_Always(c) == recorded' = [recorded EXCEPT ![c] = now]

NoRecord(c) == UNCHANGED recorded

\* A slip: the sweep keeps waiting for a placement that failed.
Abandon_Waits(by) == UNCHANGED sweep

\* The rejection of placeCall leaves sweepStore: the rest of the page is not
\* looked at.
Abandon(by) == sweep' = [t \in SweepId |-> IF t \in by THEN Idle ELSE sweep[t]]
-----------------------------------------------------------------------------
Init == /\ now = 0
        /\ mode = "on"
        /\ delay \in Delays /\ days \in DaysChoices
        /\ lastOrder = Ordered
        /\ attempts = NoMarks
        /\ recorded = [c \in Customer |-> Never]
        /\ sweep = [t \in SweepId |-> Idle]
        /\ placement = [c \in Customer |-> Idle]
        /\ calls = <<>>
        /\ quieted = [c \in Customer |-> {}]
        /\ unseen = {}
        /\ orders = 0 /\ changes = 0

\* The interval fires: runWinBackSweep, sweepStore to its first await.
StartSweep(t) ==
  /\ sweep[t] = Idle
  /\ mode # "off"
  /\ \A d \in Delays : now + Latency + d <= MaxTime
  /\ sweep' = [sweep EXCEPT ![t] = [stage |-> "list", cutoff |-> now - days,
                                    days |-> days, todo |-> <<>>, due |-> now]]
  /\ UNCHANGED <<env, now, attempts, recorded, placement, calls, quieted,
                 unseen>>

\* listCustomers answers, or fails and ends the sweep.
List(t) ==
  /\ sweep[t].stage = "list"
  /\ \/ /\ "readFails" \in Faults \/ Listed = <<>>
        /\ sweep' = [sweep EXCEPT ![t] = Idle]
     \/ /\ Listed # <<>>
        /\ sweep' = [sweep EXCEPT ![t].stage = "orders", ![t].todo = Listed,
                                  ![t].due = now]
  /\ UNCHANGED <<env, now, attempts, recorded, placement, calls, quieted,
                 unseen>>

\* listCustomerOrders fails, or the customer is none to win back: next.
PassOver(t) ==
  /\ sweep[t].stage = "orders"
  /\ "readFails" \in Faults \/ ~ToWinBack(t)
  /\ sweep' = [sweep EXCEPT ![t] = After(@)]
  /\ UNCHANGED <<env, now, attempts, recorded, placement, calls, quieted,
                 unseen>>

\* A customer whose last order is older than the cutoff and who has no entry:
\* placeCall runs to its first await, or skips.
Place(t) ==
  LET c == Head(sweep[t].todo) IN
  /\ sweep[t].stage = "orders"
  /\ ToWinBack(t)
  /\ \/ /\ mode \in {"off", "noKey"} \/ (mode = "on" /\ Live(attempts[c], now))
        /\ sweep' = [sweep EXCEPT ![t] = After(@)]
        /\ NoRecord(c)
        /\ UNCHANGED <<attempts, placement, quieted>>
     \/ /\ mode = "quiet"
        /\ recorded' = [recorded EXCEPT ![c] = now]
        /\ quieted' = [quieted EXCEPT ![c] = @ \cup {now}]
        /\ sweep' = [sweep EXCEPT ![t] = After(@)]
        /\ UNCHANGED <<attempts, placement>>
     \/ /\ mode = "on" /\ ~Live(attempts[c], now) /\ placement[c] = Idle
        /\ attempts' = Marked(attempts, c, now)
        /\ placement' = [placement EXCEPT ![c] =
             [stage |-> IF delay > 0 THEN "timer" ELSE "dialing",
              markedAt |-> now, due |-> now + delay,
              by |-> IF delay > 0 THEN {} ELSE {t},
              days |-> sweep[t].days]]
        /\ sweep' = [sweep EXCEPT ![t] =
             IF delay > 0 THEN After(@)
             ELSE [@ EXCEPT !.stage = "placing", !.due = now]]
        /\ NoRecord(c)
        /\ UNCHANGED quieted
  /\ UNCHANGED <<env, now, calls, unseen>>

\* The timer of a scheduled placement: enabled and quiet hours are read again.
TimerFires(c) ==
  /\ placement[c].stage = "timer"
  /\ now >= placement[c].due
  /\ IF mode \in {"off", "quiet"}
       THEN /\ placement' = [placement EXCEPT ![c] = Idle]
            /\ attempts' = Cleared(attempts, c)
       ELSE /\ placement' = [placement EXCEPT ![c].stage = "dialing",
                                              ![c].due = now]
            /\ UNCHANGED attempts
  /\ UNCHANGED <<env, now, recorded, sweep, calls, quieted, unseen>>

\* Telenow takes the call.
Accept(c) ==
  /\ placement[c].stage = "dialing"
  /\ c \notin Refused
  /\ Len(calls) < MaxCalls
  /\ calls' = Append(calls, [customer |-> c, at |-> now,
                             markedAt |-> placement[c].markedAt,
                             late |-> placement[c].by = {},
                             days |-> placement[c].days])
  /\ placement' = [placement EXCEPT ![c].stage = "accepted"]
  /\ UNCHANGED <<env, now, attempts, recorded, sweep, quieted, unseen>>

\* initiateCall resolves; the sweep that awaited it puts the customer on record
\* and goes on.
DialOk(c) ==
  /\ placement[c].stage = "accepted"
  /\ placement' = [placement EXCEPT ![c] = Idle]
  /\ sweep' = [t \in SweepId |->
                 IF t \in placement[c].by THEN After(sweep[t]) ELSE sweep[t]]
  /\ recorded' = IF placement[c].by = {} THEN recorded
                 ELSE [recorded EXCEPT ![c] = now]
  /\ UNCHANGED <<env, now, attempts, calls, quieted, unseen>>

\* initiateCall rejects, because Telenow refused the call or because its answer
\* is lost: the mark goes, and with it the sweep.
DialFails(c) ==
  /\ \/ placement[c].stage = "dialing" /\ UNCHANGED unseen
     \/ /\ placement[c].stage = "accepted" /\ "answerLost" \in Faults
        /\ unseen' = unseen \cup {c}
  /\ placement' = [placement EXCEPT ![c] = Idle]
  /\ attempts' = Cleared(attempts, c)
  /\ NoRecord(c)
  /\ Abandon(placement[c].by)
  /\ UNCHANGED <<env, now, calls, quieted>>

NewOrder(c) ==
  /\ orders < MaxOrders
  /\ orders' = orders + 1
  /\ lastOrder' = [lastOrder EXCEPT ![c] = now]
  /\ UNCHANGED <<now, mode, delay, days, attempts, recorded, sweep, placement,
                 calls, quieted, unseen, changes>>

\* Settings are saved, or the quiet window begins or ends.
ChangeMode ==
  /\ changes < MaxChanges
  /\ changes' = changes + 1
  /\ mode' \in Mode /\ delay' \in Delays /\ days' \in DaysChoices
  /\ <<mode', delay', days'>> # <<mode, delay, days>>
  /\ UNCHANGED <<now, lastOrder, attempts, recorded, sweep, placement, calls,
                 quieted, unseen, orders>>

\* The clock moves, but never past the time by which a timer has fired and a
\* request is over.
Tick ==
  /\ now < MaxTime
  /\ \A t \in SweepId : sweep[t].stage \in {"list", "orders"} =>
                          now < sweep[t].due + Latency
  /\ \A c \in Customer : Running(placement[c]) =>
                           now < placement[c].due + Latency
  /\ now' = now + 1
  /\ UNCHANGED <<env, attempts, recorded, sweep, placement, calls, quieted,
                 unseen>>

\* The process dies; marks and records are read back.
Crash ==
  /\ "crash" \in Faults
  /\ \/ \E c \in Customer : Running(placement[c])
     \/ \E t \in SweepId : Running(sweep[t])
  /\ sweep' = [t \in SweepId |-> Idle]
  /\ placement' = [c \in Customer |-> Idle]
  /\ unseen' = unseen \cup {c \in Customer : placement[c].stage = "accepted"}
  /\ UNCHANGED <<env, now, attempts, recorded, calls, quieted>>

SweepStep(t) == List(t) \/ PassOver(t) \/ Place(t)

PlacementStep(c) == TimerFires(c) \/ Accept(c) \/ DialOk(c) \/ DialFails(c)

Next == \/ \E t \in SweepId : StartSweep(t) \/ SweepStep(t)
        \/ \E c \in Customer : PlacementStep(c) \/ NewOrder(c)
        \/ ChangeMode \/ Tick \/ Crash

Spec == Init /\ [][Next]_vars

\* setInterval starts sweeps again and again, requests settle, and a call that
\* Telenow does not refuse is taken in the end.
Fairness ==
  /\ \A t \in SweepId : WF_vars(StartSweep(t)) /\ WF_vars(SweepStep(t))
  /\ \A c \in Customer : WF_vars(PlacementStep(c)) /\ SF_vars(Accept(c))
  /\ SF_vars(Tick)

FairSpec == Spec /\ Fairness
-----------------------------------------------------------------------------
\* winBack.js:70: a customer whose call a sweep has placed is not won back again
\* within winBackDays, as the sweep that would do so has read them, however many
\* sweeps run side by side, unless the answer to one of the customer's calls was
\* lost (unseen).  This is for delays that end before the mark does (ShortDelays).
OneWinBackPerWindow ==
  \A m, n \in 1 .. Len(calls) :
    /\ m < n /\ calls[m].customer = calls[n].customer
    /\ ~calls[m].late /\ calls[m].customer \notin unseen
    => calls[m].at + calls[n].days <= calls[n].at

\* The mark alone keeps the attempts of two calls to a customer a day apart, also
\* those that a sweep only schedules, unless the answer to one of the customer's
\* calls was lost (unseen).  This too is for ShortDelays: with a delay beyond a day
\* the failure of an old placement clears the mark of a newer one.
OneCallPerDay ==
  \A m, n \in 1 .. Len(calls) :
    /\ m < n /\ calls[m].customer = calls[n].customer
    /\ calls[m].customer \notin unseen
    => calls[m].markedAt + TTL <= calls[n].markedAt

\* A customer is on record for a call Telenow took or for quiet hours: a refused
\* placement never keeps a customer from being called for winBackDays.
RecordHasCause ==
  \A c \in Customer : recorded[c] # Never =>
    \/ recorded[c] \in quieted[c]
    \/ \E n \in 1 .. Len(calls) :
         /\ calls[n].customer = c
         /\ calls[n].at \in recorded[c] - Latency .. recorded[c]

-----------------------------------------------------------------------------
(* What makes these inductive. *)

\* A sweep that is past its list has a customer in hand, and the sweep that awaits
\* a placement has that customer in hand.
SweepsInHand ==
  /\ \A t \in SweepId : sweep[t].stage \in {"orders", "placing"} =>
                          sweep[t].todo # <<>>
  /\ \A c \in Customer : Running(placement[c]) =>
       \A t \in placement[c].by : /\ sweep[t].stage = "placing"
                                  /\ Head(sweep[t].todo) = c

\* The time a placement may still need.
Slack(stage) == IF stage = "timer" THEN 2 * Latency ELSE Latency

\* A placement is over before the mark it took expires, so the mark is still its
\* own, and no second placement of its customer begins.
PlacementHoldsMark ==
  \A c \in Customer : Running(placement[c]) =>
    LET p == placement[c] IN
    /\ attempts[c] = p.markedAt /\ p.markedAt <= now
    /\ p.stage # "timer" => p.due <= now
    /\ now <= p.due + Latency
    /\ p.due + Slack(p.stage) < p.markedAt + TTL

\* A call that Telenow took is among the calls before initiateCall resolves.
AcceptedHasCall ==
  \A c \in Customer : placement[c].stage = "accepted" =>
    \E n \in 1 .. Len(calls) : calls[n].customer = c /\ placement[c].due <= calls[n].at

\* Until its mark expires, nobody takes the mark of a call away.
CallKeepsItsMark ==
  \A n \in 1 .. Len(calls) :
    LET c == calls[n].customer IN
    /\ calls[n].at <= now
    /\ c \notin unseen => \/ attempts[c] = calls[n].markedAt
                          \/ calls[n].markedAt + TTL <= now

\* A call that a sweep awaited is on record as soon as the sweep knows of it.
CallGoesOnRecord ==
  \A n \in 1 .. Len(calls) :
    LET c == calls[n].customer IN
    ~calls[n].late /\ c \notin unseen =>
      \/ recorded[c] # Never /\ calls[n].at <= recorded[c]
      \/ placement[c].stage = "accepted" /\ placement[c].by # {}

\* A placement that has not reached Telenow comes after the windows of all calls
\* its customer has had.
PendingIsFresh ==
  \A n \in 1 .. Len(calls) :
    LET c == calls[n].customer IN
    placement[c].stage \in {"timer", "dialing"} /\ c \notin unseen =>
      /\ calls[n].markedAt + TTL <= placement[c].markedAt
      /\ ~calls[n].late => calls[n].at + placement[c].days <= placement[c].markedAt

WinBackIInv == /\ TypeOK
               /\ SweepsInHand
               /\ PlacementHoldsMark
               /\ AcceptedHasCall
               /\ CallKeepsItsMark
               /\ CallGoesOnRecord
               /\ PendingIsFresh
               /\ OneWinBackPerWindow
               /\ OneCallPerDay
               /\ RecordHasCause
-----------------------------------------------------------------------------
\* Every sweep ends, whatever becomes of its calls.
EverySweepEnds == \A t \in SweepId : []<>(sweep[t] = Idle)

\* winBack.js:4: a periodic sweep finds the lapsed customers and calls them: none
\* whose call Telenow would take at once stays due for ever.
EveryLapsedIsCalled ==
  \A c \in Customer \ Refused :
    []<>~(mode = "on" /\ delay = 0 /\ lastOrder[c] < now - days
          /\ ~InWindow(c, days))

\* winBack.js:70 without the exceptions above: once per window, also for those
\* that are only scheduled.
OneWinBackInAllCases ==
  \A m, n \in 1 .. Len(calls) :
    m < n /\ calls[m].customer = calls[n].customer =>
      calls[m].at + calls[n].days <= calls[n].at
=============================================================================
