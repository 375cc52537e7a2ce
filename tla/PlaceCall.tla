----------------------------- MODULE PlaceCall -----------------------------
(***************************************************************************)
(* placeCall of src/automations/_base.js for one store: gating, the dedupe  *)
(* mark, the in-process delay, the re-check when the timer fires, the       *)
(* request to Telenow and its answer, beside settings saves, uninstall and  *)
(* reinstall, and a crash that forgets the timers but not the store file.   *)
(*                                                                         *)
(* A job is one run of placeCall past its dedupe guard.  It is synchronous  *)
(* between its awaits, so it is one action per stage:                       *)
(*   "timer"     setTimeout is pending                                      *)
(*   "precheck"  shouldStillCall() is awaited (abandoned carts only)        *)
(*   "dialing"   initiateCall is awaited, Telenow has not taken it          *)
(*   "accepted"  Telenow took the call, its answer is on the way            *)
(***************************************************************************)
EXTENDS QuietHours, Attempts, Sequences, FiniteSets

CONSTANTS
  Automation,       \* the automations of settings.js that place calls
  AutomationOf,     \* the automation a dedupe key belongs to
  Prechecked,       \* the automations that pass shouldStillCall
  CfgChoices,       \* the configurations a merchant may save
  DefaultCfg,       \* defaultAutomation(): disabled, no agent
  TimeoutMax,       \* the longest delay setTimeout honours (2^31 - 1 ms)
  Latency,          \* how late a timer fires, how long a request takes
  JobId,            \* slots for the runs of placeCall that are in flight
  Faults,           \* "answerLost", "noSession", "uninstall", "writeLost": those
                    \* that may happen
  MaxTime,          \* bound on the clock
  MaxCalls,         \* bound on the calls Telenow takes
  MaxDisturbances   \* bound on saves, uninstalls, installs and crashes

Cfg == [enabled : BOOLEAN, agent : BOOLEAN, delay : Nat, quietHours : Window]

ASSUME PlaceCallAssumption ==
  /\ AutomationOf \in [Key -> Automation]
  /\ Prechecked \subseteq Automation
  /\ CfgChoices \subseteq Cfg
  /\ DefaultCfg \in CfgChoices
  /\ ~DefaultCfg.enabled
  /\ TimeoutMax \in Nat
  /\ Latency \in Nat
  /\ Faults \subseteq {"answerLost", "noSession", "uninstall", "writeLost"}
  /\ MaxTime \in Nat /\ MaxCalls \in Nat /\ MaxDisturbances \in Nat

VARIABLES
  now,       \* the clock, in units of the same length as a configured delay
  db,        \* the in-memory store.json: one store's part of it
  disk,      \* the last version of it that persist() wrote
  job,       \* the runs of placeCall in flight
  calls,     \* history: the calls Telenow took, a session id is an index here
  blocked,   \* history: <<key, mark>> of jobs that ended and kept their mark
  excused,   \* history: keys whose marks a fault has made unreliable
  budget     \* disturbances so far

vars == <<now, db, disk, job, calls, blocked, excused, budget>>

Stage == {"timer", "precheck", "dialing", "accepted"}

Idle == [stage |-> "idle"]

Job == [stage : Stage, key : Key, markedAt : Nat, wait : Nat, due : Nat,
        session : Nat]

Call == [key : Key, markedAt : Nat, wait : Nat, at : Nat]

Db == [installed : BOOLEAN, apiKey : BOOLEAN, cfg : [Automation -> CfgChoices],
       attempts : [Key -> Nat \cup {NoMark}], callMap : SUBSET Nat]

TypeOK == /\ now \in Nat
          /\ db \in Db
          /\ disk \in Db
          /\ job \in [JobId -> {Idle} \cup Job]
          /\ calls \in Seq(Call)
          /\ blocked \subseteq Key \X Nat
          /\ excused \subseteq Key
          /\ budget \in Nat

-----------------------------------------------------------------------------
Active(j) == job[j].stage # "idle"

IsQuiet(cfg) == IsQuietNow(cfg.quietHours, now % Day)

\* The guards placeCall applies before it takes the mark.
MayCall(cfg) == cfg.enabled /\ db.apiKey /\ cfg.agent /\ ~IsQuiet(cfg)

\* What the timer's callback re-reads.
MayFire(cfg) == cfg.enabled /\ ~IsQuiet(cfg)

\* A slip: the conversion from minutes drops a unit.
TimerDelay_Short(d) == IF d > TimeoutMax \/ d = 0 THEN 0 ELSE d - 1

\* setTimeout fires at once when the delay does not fit its 32-bit range.
TimerDelay(d) == IF d > TimeoutMax THEN 0 ELSE d

\* persist(): the new database is in memory; the write may fail unnoticed.
Persist(next) ==
  /\ db' = next
  /\ \/ disk' = next
     \/ "writeLost" \in Faults /\ disk' = disk

\* clearAttempt persists only when there was an entry to delete.
ClearMark(k) ==
  IF db.attempts[k] = NoMark
    THEN UNCHANGED <<db, disk>>
    ELSE Persist([db EXCEPT !.attempts = Cleared(@, k)])

\* A slip: the job goes but its mark stays.
Release_KeepsMark(j) == /\ UNCHANGED <<db, disk>>
                        /\ job' = [job EXCEPT ![j] = Idle]

\* The job ends without a call and lets a later delivery try again.
Release(j) == /\ ClearMark(job[j].key)
              /\ job' = [job EXCEPT ![j] = Idle]

Dial(j) == job' = [job EXCEPT ![j].stage = "dialing", ![j].due = now]
-----------------------------------------------------------------------------
Init == /\ now = 0
        /\ db \in [installed : {TRUE}, apiKey : {TRUE},
                   cfg : [Automation -> CfgChoices],
                   attempts : {NoMarks}, callMap : {{}}]
        /\ disk = db
        /\ job = [j \in JobId |-> Idle]
        /\ calls = <<>>
        /\ blocked = {}
        /\ excused = {}
        /\ budget = 0

\* A slip: the mark is not looked at.
CanStart_NoDedupe(k, j) ==
  LET cfg == db.cfg[AutomationOf[k]] IN
  /\ ~Active(j)
  /\ MayCall(cfg)
  /\ now + cfg.delay + 3 * Latency <= MaxTime

\* What a delivery must find for placeCall to pass its guards.
CanStart(k, j) ==
  LET cfg == db.cfg[AutomationOf[k]] IN
  /\ ~Active(j)
  /\ MayCall(cfg)
  /\ ~Live(db.attempts[k], now)
  /\ now + cfg.delay + 3 * Latency <= MaxTime

\* placeCall from its call to its first await: the guards, markAttempt, and
\* either setTimeout or fire()'s request.
StartJob(k, j) ==
  LET cfg == db.cfg[AutomationOf[k]]
      timer == cfg.delay > 0
  IN /\ CanStart(k, j)
     /\ Persist([db EXCEPT !.attempts = Marked(@, k, now)])
     /\ job' = [job EXCEPT ![j] =
                  [stage    |-> IF timer THEN "timer" ELSE "dialing",
                   key      |-> k,
                   markedAt |-> now,
                   wait     |-> cfg.delay,
                   due      |-> now + TimerDelay(cfg.delay),
                   session  |-> 0]]
     /\ UNCHANGED <<now, calls, blocked, excused, budget>>

\* A slip: a callback that finds quiet hours arms itself again instead of
\* ending the job.
TimerFires_Rearms(j) ==
  LET a == AutomationOf[job[j].key] IN
  /\ job[j].stage = "timer"
  /\ now >= job[j].due
  /\ IF MayFire(db.cfg[a])
       THEN Dial(j)
       ELSE job' = [job EXCEPT ![j].due = now]
  /\ UNCHANGED <<now, db, disk, calls, blocked, excused, budget>>

\* The setTimeout callback: the fresh settings decide; a job that is not
\* allowed any more gives its mark back.
TimerFires(j) ==
  LET a == AutomationOf[job[j].key] IN
  /\ job[j].stage = "timer"
  /\ now >= job[j].due
  /\ \/ /\ ~MayFire(db.cfg[a])
        /\ Release(j)
     \/ /\ MayFire(db.cfg[a]) /\ a \in Prechecked
        /\ job' = [job EXCEPT ![j].stage = "precheck", ![j].due = now]
        /\ UNCHANGED <<db, disk>>
     \/ /\ MayFire(db.cfg[a]) /\ a \notin Prechecked
        /\ Dial(j)
        /\ UNCHANGED <<db, disk>>
  /\ UNCHANGED <<now, calls, blocked, excused, budget>>

\* shouldStillCall answers.  "No" ends the job; the mark stays, so that the
\* cart is not tried again within the TTL.
PrecheckEnds(j) ==
  /\ job[j].stage = "precheck"
  /\ \/ Dial(j) /\ UNCHANGED blocked
     \/ /\ job' = [job EXCEPT ![j] = Idle]
        /\ blocked' = blocked \cup {<<job[j].key, job[j].markedAt>>}
  /\ UNCHANGED <<now, db, disk, calls, excused, budget>>

\* Telenow takes the call: from here on the customer's phone rings.
Accept(j) ==
  /\ job[j].stage = "dialing"
  /\ Len(calls) < MaxCalls
  /\ calls' = Append(calls, [key      |-> job[j].key,
                             markedAt |-> job[j].markedAt,
                             wait     |-> job[j].wait,
                             at       |-> now])
  /\ job' = [job EXCEPT ![j].stage = "accepted",
                        ![j].session = Len(calls) + 1]
  /\ UNCHANGED <<now, db, disk, blocked, excused, budget>>

\* initiateCall resolves: mapCall, if the answer names the session.
DialOk(j) ==
  /\ job[j].stage = "accepted"
  /\ \/ Persist([db EXCEPT !.callMap = @ \cup {job[j].session}])
     \/ "noSession" \in Faults /\ UNCHANGED <<db, disk>>
  /\ job' = [job EXCEPT ![j] = Idle]
  /\ UNCHANGED <<now, calls, blocked, excused, budget>>

\* initiateCall rejects and no call was placed: fire()'s catch.
DialFails(j) ==
  /\ job[j].stage = "dialing"
  /\ Release(j)
  /\ UNCHANGED <<now, calls, blocked, excused, budget>>

\* The same catch after Telenow took the call: the 20 s timeout, a reset
\* connection or a 5xx hides the answer.
AnswerLost(j) ==
  /\ "answerLost" \in Faults
  /\ job[j].stage = "accepted"
  /\ Release(j)
  /\ excused' = excused \cup {job[j].key}
  /\ UNCHANGED <<now, calls, blocked, budget>>

\* The clock moves, but never past the time by which a pending timer fires or
\* a pending request is over.
Tick ==
  /\ now < MaxTime
  /\ \A j \in JobId : Active(j) => now < job[j].due + Latency
  /\ now' = now + 1
  /\ UNCHANGED <<db, disk, job, calls, blocked, excused, budget>>
-----------------------------------------------------------------------------
Disturb == budget < MaxDisturbances /\ budget' = budget + 1

\* POST /api/settings for one automation of an installed store, with or without
\* a key: a key that is there is never taken away.
SaveSettings(a) ==
  /\ Disturb
  /\ db.installed
  /\ \E c \in CfgChoices \ {db.cfg[a]}, apiKey \in {db.apiKey, TRUE} :
       Persist([db EXCEPT !.cfg[a] = c, !.apiKey = apiKey])
  /\ UNCHANGED <<now, job, calls, blocked, excused>>

Purged == [installed |-> FALSE, apiKey |-> FALSE,
           cfg |-> [a \in Automation |-> DefaultCfg],
           attempts |-> NoMarks, callMap |-> {}]

\* deleteStore.  Timers and requests in flight know nothing of it.
Uninstall ==
  /\ "uninstall" \in Faults
  /\ Disturb
  /\ db.installed
  /\ Persist(Purged)
  /\ excused' = Key
  /\ UNCHANGED <<now, job, calls, blocked>>

\* saveStore on the OAuth callback.
Install ==
  /\ Disturb
  /\ ~db.installed
  /\ Persist([db EXCEPT !.installed = TRUE])
  /\ UNCHANGED <<now, job, calls, blocked, excused>>

\* The process dies and comes back on the file: every timer and every request
\* in flight is forgotten, their marks are not.
Crash ==
  /\ Disturb
  /\ db' = disk
  /\ job' = [j \in JobId |-> Idle]
  /\ blocked' = blocked \cup {<<job[j].key, job[j].markedAt>> :
                                j \in {i \in JobId : Active(i)}}
  /\ excused' = IF disk = db THEN excused ELSE Key
  /\ UNCHANGED <<now, disk, calls>>

Resolve(j) == \/ TimerFires(j)
              \/ PrecheckEnds(j)
              \/ Accept(j)
              \/ DialOk(j)
              \/ DialFails(j)
              \/ AnswerLost(j)

Next == \/ \E k \in Key, j \in JobId : StartJob(k, j)
        \/ \E j \in JobId : Resolve(j)
        \/ \E a \in Automation : SaveSettings(a)
        \/ Tick \/ Uninstall \/ Install \/ Crash

Spec == Init /\ [][Next]_vars

\* Node runs a callback whose timer is over and settles every request (by its
\* answer or by its timeout); the clock does not stop.
Fairness == /\ \A j \in JobId : WF_vars(Resolve(j))
            /\ SF_vars(Tick)

FairSpec == Spec /\ Fairness
-----------------------------------------------------------------------------
\* A job in flight holds the mark of its key: it is the mark the job took, and
\* no other run has cleared or replaced it in the meantime.  clearAttempt asks
\* for no owner, so this is what makes it safe.
JobHoldsItsMark ==
  \A j \in JobId : Active(j) /\ job[j].key \notin excused =>
    db.attempts[job[j].key] = job[j].markedAt

\* Redeliveries and repeated cart updates leave at most one job in flight for a
\* key, whatever timers, requests, failures and retries overlap.
OneJobPerKey ==
  \A i, j \in JobId :
    Active(i) /\ Active(j) /\ job[i].key = job[j].key /\ i # j =>
      job[i].key \in excused

\* Any two calls placed for one key come from attempts at least a TTL apart.
Apart(c, d) == \/ c.markedAt + TTL <= d.markedAt
               \/ d.markedAt + TTL <= c.markedAt

OneCallPerWindow ==
  \A m, n \in 1 .. Len(calls) :
    m < n /\ calls[m].key = calls[n].key /\ calls[m].key \notin excused =>
      Apart(calls[m], calls[n])

\* A mark that is there has a cause: a job that will still use or release it, a
\* call it was taken for, or a job that ended and meant to keep it.  A failed
\* or refused placement never leaves the key blocked behind it.
MarkHasCause ==
  \A k \in Key \ excused :
    LET m == db.attempts[k] IN
    m # NoMark =>
      \/ \E j \in JobId : Active(j) /\ job[j].key = k /\ job[j].markedAt = m
      \/ \E n \in 1 .. Len(calls) : calls[n].key = k /\ calls[n].markedAt = m
      \/ <<k, m>> \in blocked

\* A call is placed no earlier than the delay that was configured when its
\* attempt was made.
WaitsTheDelay ==
  \A n \in 1 .. Len(calls) :
    calls[n].at >= calls[n].markedAt + calls[n].wait

-----------------------------------------------------------------------------
(* What makes OneCallPerWindow inductive. *)

\* The units of Latency a job may still need, from its timer to its answer.
Slack(stage) == CASE stage = "timer"    -> 3 * Latency
                  [] stage = "precheck" -> 2 * Latency
                  [] OTHER              -> Latency

\* A job is over before the mark it took expires.
JobEndsBeforeItsMark ==
  \A j \in JobId : Active(j) =>
    /\ job[j].markedAt <= now
    /\ now <= job[j].due + Latency
    /\ job[j].due + Slack(job[j].stage) < job[j].markedAt + TTL

\* The mark of a call stays until it expires, so no attempt follows the call
\* before that.
CallKeepsItsMark ==
  \A n \in 1 .. Len(calls) :
    calls[n].key \notin excused /\ now < calls[n].markedAt + TTL =>
      db.attempts[calls[n].key] = calls[n].markedAt

\* A job that has not reached Telenow yet comes a TTL after every call that its
\* key was given.
PendingIsFresh ==
  \A j \in JobId, n \in 1 .. Len(calls) :
    /\ Active(j) /\ job[j].stage # "accepted"
    /\ calls[n].key = job[j].key /\ job[j].key \notin excused
    => calls[n].markedAt + TTL <= job[j].markedAt

IInv == /\ TypeOK
        /\ JobEndsBeforeItsMark
        /\ JobHoldsItsMark
        /\ OneJobPerKey
        /\ CallKeepsItsMark
        /\ PendingIsFresh
        /\ OneCallPerWindow

\* Every delay leaves room for the timer, the precheck and the request before
\* the mark expires.
ShortDelays == \A c \in CfgChoices : c.delay + 3 * Latency < TTL
-----------------------------------------------------------------------------
(* The promise that the above keeps (CallWindow), seen through the marks. *)

\* A job of the key may still reach Telenow.
TryingKey(k) == \E j \in JobId : /\ Active(j) /\ job[j].key = k
                                 /\ job[j].stage # "accepted"

\* The mark of the key was used for a call.
CalledKey(k) == \E n \in 1 .. Len(calls) : /\ calls[n].key = k
                                           /\ calls[n].markedAt = db.attempts[k]

OpenState(k) == IF TryingKey(k) THEN "trying"
                ELSE IF CalledKey(k) THEN "called" ELSE "kept"

WindowOf(k) == IF k \in excused THEN [state |-> "off"]
               ELSE IF ~Live(db.attempts[k], now) THEN [state |-> "free"]
               ELSE [state |-> OpenState(k), since |-> db.attempts[k]]

Promise == INSTANCE CallWindow WITH
  window <- [k \in Key |-> WindowOf(k)],
  placed <- [n \in 1 .. Len(calls) |->
               [key |-> calls[n].key, since |-> calls[n].markedAt]]

\* placeCall implements CallWindow: each of its steps, with timers, requests,
\* retries and faults, opens, uses, withdraws or keeps a window, or none of it.
KeepsPromise == Promise!Spec
-----------------------------------------------------------------------------
\* Every job ends: no key waits for ever behind a timer or a request.
EveryJobEnds == \A j \in JobId : []<>(job[j].stage = "idle")
-----------------------------------------------------------------------------
(* What the documentation says without the exceptions above. *)

\* README.md:153: webhook redeliveries don't double-call.
NeverTwoCallsInAWindow ==
  \A m, n \in 1 .. Len(calls) :
    m < n /\ calls[m].key = calls[n].key => Apart(calls[m], calls[n])

\* README.md:155: deleteStore() purges everything for a store on uninstall.
UninstalledStoreHoldsNothing ==
  ~db.installed => db.callMap = {} /\ db.attempts = NoMarks

\* _base.js:113: enabled and quiet hours are re-checked at fire time.
DialsOnlyWhenAllowed ==
  [][\A j \in JobId :
       job[j].stage \in {"timer", "precheck"} /\ job'[j].stage = "dialing" =>
         MayFire(db.cfg[AutomationOf[job[j].key]])]_vars
=============================================================================
