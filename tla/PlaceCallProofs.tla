-------------------------- MODULE PlaceCallProofs --------------------------
(***************************************************************************)
(* Proofs about PlaceCall for any keys, automations, configurations, bounds  *)
(* and faults, and, at the end, about the functions without state that calls *)
(* are placed by: the window arithmetic of src/util/quietHours.js for a day  *)
(* of any length, and the normalization of src/util/phone.js for every       *)
(* country code.                                                             *)
(***************************************************************************)
EXTENDS PlaceCall, PureFunctions, SequenceTheorems, TLAPS

LEMMA NoMarkNotTime == NoMark \in Int /\ NoMark \notin Nat
BY DEF NoMark

LEMMA MarkedType ==
  ASSUME NEW a \in [Key -> Nat \cup {NoMark}], NEW k \in Key, NEW t \in Nat
  PROVE  Marked(a, k, t) \in [Key -> Nat \cup {NoMark}]
BY DEF Marked

LEMMA ClearedType ==
  ASSUME NEW a \in [Key -> Nat \cup {NoMark}], NEW k \in Key
  PROVE  Cleared(a, k) \in [Key -> Nat \cup {NoMark}]
BY DEF Cleared

LEMMA PersistType ==
  ASSUME db \in Db, disk \in Db, NEW next \in Db, Persist(next)
  PROVE  db' \in Db /\ disk' \in Db
BY DEF Persist

LEMMA AttemptsUpdateType ==
  ASSUME NEW d \in Db, NEW a \in [Key -> Nat \cup {NoMark}]
  PROVE  [d EXCEPT !.attempts = a] \in Db
BY DEF Db

LEMMA ClearMarkType ==
  ASSUME db \in Db, disk \in Db, NEW k \in Key, ClearMark(k)
  PROVE  db' \in Db /\ disk' \in Db
<1>1. db.attempts \in [Key -> Nat \cup {NoMark}]
  BY DEF Db
<1>2. [db EXCEPT !.attempts = Cleared(@, k)] \in Db
  BY <1>1, ClearedType, AttemptsUpdateType
<1> QED BY <1>2, PersistType DEF ClearMark

LEMMA ActiveIsJob ==
  ASSUME TypeOK, NEW j \in JobId, job[j].stage # "idle"
  PROVE  job[j] \in Job
BY DEF TypeOK, Idle

LEMMA StageUpdateType ==
  ASSUME TypeOK, NEW j \in JobId, job[j] \in Job, NEW s \in Stage, NEW t \in Nat
  PROVE  /\ [job EXCEPT ![j].stage = s, ![j].due = t]
              \in [JobId -> {Idle} \cup Job]
         /\ [job EXCEPT ![j].stage = s, ![j].session = t]
              \in [JobId -> {Idle} \cup Job]
<1>1. [job[j] EXCEPT !.stage = s, !.due = t] \in Job
  BY DEF Job
<1>2. [job[j] EXCEPT !.stage = s, !.session = t] \in Job
  BY DEF Job
<1> QED BY <1>1, <1>2 DEF TypeOK

LEMMA DialType ==
  ASSUME TypeOK, NEW j \in JobId, job[j] \in Job, Dial(j)
  PROVE  job' \in [JobId -> {Idle} \cup Job]
<1>1. "dialing" \in Stage /\ now \in Nat
  BY DEF Stage, TypeOK
<1> QED BY <1>1, StageUpdateType DEF Dial

LEMMA InitType == Init => TypeOK
<1> SUFFICES ASSUME Init PROVE TypeOK
  OBVIOUS
<1>1. db \in Db
  <2>1. NoMarks \in [Key -> Nat \cup {NoMark}]
    BY DEF NoMarks
  <2> QED BY <2>1 DEF Init, Db
<1> QED BY <1>1 DEF Init, TypeOK

LEMMA NextType == TypeOK /\ [Next]_vars => TypeOK'
<1> SUFFICES ASSUME TypeOK, [Next]_vars PROVE TypeOK'
  OBVIOUS
<1> USE PlaceCallAssumption, NoMarkNotTime
<1>1. ASSUME NEW k \in Key, NEW j \in JobId, StartJob(k, j) PROVE TypeOK'
  <2> DEFINE cfg == db.cfg[AutomationOf[k]]
  <2>1. cfg \in Cfg /\ cfg.delay \in Nat
    BY DEF TypeOK, Db, Cfg
  <2>2. TimerDelay(cfg.delay) \in Nat
    BY <2>1 DEF TimerDelay
  <2>3. [db EXCEPT !.attempts = Marked(@, k, now)] \in Db
    BY MarkedType, AttemptsUpdateType DEF TypeOK, Db
  <2>4. db' \in Db /\ disk' \in Db
    BY <1>1, <2>3, PersistType DEF StartJob, TypeOK
  <2>5. job' \in [JobId -> {Idle} \cup Job]
    <3> HIDE DEF cfg
    <3>1. [stage    |-> IF cfg.delay > 0 THEN "timer" ELSE "dialing",
           key      |-> k, markedAt |-> now, wait |-> cfg.delay,
           due      |-> now + TimerDelay(cfg.delay), session |-> 0] \in Job
      BY <2>1, <2>2 DEF Job, Stage, TypeOK
    <3> QED BY <1>1, <3>1 DEF StartJob, TypeOK, cfg
  <2> QED BY <1>1, <2>4, <2>5 DEF StartJob, TypeOK
<1>2. ASSUME NEW j \in JobId, TimerFires(j) PROVE TypeOK'
  <2>1. job[j] \in Job
    BY <1>2, ActiveIsJob DEF TimerFires
  <2>2. job' \in [JobId -> {Idle} \cup Job]
    <3>1. "precheck" \in Stage /\ now \in Nat
      BY DEF Stage, TypeOK
    <3>2. [job EXCEPT ![j].stage = "precheck", ![j].due = now]
            \in [JobId -> {Idle} \cup Job]
      BY <2>1, <3>1, StageUpdateType
    <3>3. [job EXCEPT ![j] = Idle] \in [JobId -> {Idle} \cup Job]
      BY DEF TypeOK
    <3> QED BY <1>2, <2>1, <3>2, <3>3, DialType DEF TimerFires, Release
  <2>3. job[j].key \in Key
    BY <2>1 DEF Job
  <2>4. db' \in Db /\ disk' \in Db
    BY <1>2, <2>3, ClearMarkType DEF TimerFires, TypeOK, Release
  <2> QED BY <1>2, <2>2, <2>4 DEF TimerFires, TypeOK
<1>3. ASSUME NEW j \in JobId, PrecheckEnds(j) PROVE TypeOK'
  <2>1. job[j] \in Job
    BY <1>3, ActiveIsJob DEF PrecheckEnds
  <2>2. job' \in [JobId -> {Idle} \cup Job]
    <3>1. [job EXCEPT ![j] = Idle] \in [JobId -> {Idle} \cup Job]
      BY DEF TypeOK
    <3> QED BY <1>3, <2>1, <3>1, DialType DEF PrecheckEnds
  <2>3. blocked' \subseteq Key \X Nat
    BY <1>3, <2>1 DEF PrecheckEnds, TypeOK, Job
  <2> QED BY <1>3, <2>2, <2>3 DEF PrecheckEnds, TypeOK
<1>4. ASSUME NEW j \in JobId, Accept(j) PROVE TypeOK'
  <2>1. job[j] \in Job
    BY <1>4, ActiveIsJob DEF Accept
  <2>2. job' \in [JobId -> {Idle} \cup Job]
    <3>1. Len(calls) + 1 \in Nat
      BY DEF TypeOK
    <3> QED BY <1>4, <2>1, <3>1, StageUpdateType DEF Accept, TypeOK, Stage
  <2>3. calls' \in Seq(Call)
    BY <1>4, <2>1 DEF Accept, TypeOK, Job, Call
  <2> QED BY <1>4, <2>2, <2>3 DEF Accept, TypeOK
<1>5. ASSUME NEW j \in JobId, DialOk(j) PROVE TypeOK'
  <2>1. job[j] \in Job
    BY <1>5, ActiveIsJob DEF DialOk
  <2>2. [db EXCEPT !.callMap = @ \cup {job[j].session}] \in Db
    BY <2>1 DEF TypeOK, Db, Job
  <2>3. db' \in Db /\ disk' \in Db
    BY <1>5, <2>2, PersistType DEF DialOk, TypeOK
  <2> QED BY <1>5, <2>3 DEF DialOk, TypeOK
<1>6. ASSUME NEW j \in JobId, DialFails(j) PROVE TypeOK'
  <2>1. job[j].key \in Key
    BY <1>6, ActiveIsJob DEF DialFails, Job
  <2>2. db' \in Db /\ disk' \in Db
    BY <1>6, <2>1, ClearMarkType DEF DialFails, Release, TypeOK
  <2> QED BY <1>6, <2>2 DEF DialFails, Release, TypeOK
<1>7. ASSUME NEW j \in JobId, AnswerLost(j) PROVE TypeOK'
  <2>1. job[j].key \in Key
    BY <1>7, ActiveIsJob DEF AnswerLost, Job
  <2>2. db' \in Db /\ disk' \in Db
    BY <1>7, <2>1, ClearMarkType DEF AnswerLost, Release, TypeOK
  <2> QED BY <1>7, <2>1, <2>2 DEF AnswerLost, Release, TypeOK
<1>8. ASSUME NEW a \in Automation, SaveSettings(a) PROVE TypeOK'
  <2>1. PICK c \in CfgChoices, apiKey \in {db.apiKey, TRUE} :
          Persist([db EXCEPT !.cfg[a] = c, !.apiKey = apiKey])
    BY <1>8 DEF SaveSettings
  <2>2. apiKey \in BOOLEAN
    BY DEF TypeOK, Db
  <2>3. [db EXCEPT !.cfg[a] = c, !.apiKey = apiKey] \in Db
    BY <2>2 DEF TypeOK, Db
  <2>4. db' \in Db /\ disk' \in Db
    BY <2>1, <2>3, PersistType DEF TypeOK
  <2> QED BY <1>8, <2>4 DEF SaveSettings, Disturb, TypeOK
<1>9. CASE Tick
  BY <1>9 DEF Tick, TypeOK
<1>10. CASE Uninstall
  <2>1. Purged \in Db
    BY DEF Purged, Db, NoMarks
  <2>2. db' \in Db /\ disk' \in Db
    BY <1>10, <2>1, PersistType DEF Uninstall, TypeOK
  <2> QED BY <1>10, <2>2 DEF Uninstall, Disturb, TypeOK
<1>11. CASE Install
  <2>1. [db EXCEPT !.installed = TRUE] \in Db
    BY DEF TypeOK, Db
  <2>2. db' \in Db /\ disk' \in Db
    BY <1>11, <2>1, PersistType DEF Install, TypeOK
  <2> QED BY <1>11, <2>2 DEF Install, Disturb, TypeOK
<1>12. CASE Crash
  <2>1. \A j \in JobId : Active(j) => job[j].key \in Key /\ job[j].markedAt \in Nat
    BY ActiveIsJob DEF Active, Job
  <2>2. blocked' \subseteq Key \X Nat
    BY <1>12, <2>1 DEF Crash, TypeOK
  <2> QED BY <1>12, <2>2 DEF Crash, Disturb, TypeOK
<1>13. CASE UNCHANGED vars
  BY <1>13 DEF vars, TypeOK
<1> QED BY <1>1, <1>2, <1>3, <1>4, <1>5, <1>6, <1>7, <1>8, <1>9, <1>10, <1>11,
           <1>12, <1>13 DEF Next, Resolve

\* Type correctness of the model of placeCall.
THEOREM TypeCorrect == Spec => []TypeOK
BY InitType, NextType, PTL DEF Spec

-----------------------------------------------------------------------------
(* The dedupe guarantee. *)

\* What every step but StartJob does to the jobs: it moves one on or ends it.
NoNewJob ==
  \A i \in JobId : Active(i)' =>
    /\ Active(i)
    /\ job'[i].key = job[i].key
    /\ job'[i].markedAt = job[i].markedAt
    /\ job'[i].stage # "accepted" => job[i].stage # "accepted"

LEMMA ConstantsType ==
  /\ Latency \in Nat
  /\ TTL \in Nat \ {0}
BY PlaceCallAssumption, TTLAssumption

LEMMA SlackValue ==
  /\ Slack("timer") = 3 * Latency
  /\ Slack("precheck") = 2 * Latency
  /\ Slack("dialing") = Latency
  /\ Slack("accepted") = Latency
BY DEF Slack

\* What TypeOK says of one job, of one call and of one mark.
LEMMA JobFacts ==
  ASSUME TypeOK, NEW j \in JobId, Active(j)
  PROVE  /\ job[j].stage \in Stage
         /\ job[j].key \in Key
         /\ job[j].markedAt \in Nat
         /\ job[j].due \in Nat
         /\ job[j].wait \in Nat
BY ActiveIsJob DEF Active, Job

LEMMA CallFacts ==
  ASSUME TypeOK, NEW n \in 1 .. Len(calls)
  PROVE  calls[n].key \in Key /\ calls[n].markedAt \in Nat
<1>1. calls[n] \in Call
  BY DEF TypeOK
<1> QED BY <1>1 DEF Call

LEMMA MarkFacts ==
  ASSUME TypeOK
  PROVE  /\ now \in Nat
         /\ db.attempts \in [Key -> Nat \cup {NoMark}]
BY DEF TypeOK, Db

\* A step that starts no job, takes no call and leaves the marks alone.
LEMMA MarksUntouched ==
  ASSUME IInv, TypeOK', NoNewJob, JobEndsBeforeItsMark',
         db'.attempts = db.attempts, calls' = calls, excused' = excused,
         now' >= now
  PROVE  IInv'
<1>1. JobHoldsItsMark'
  BY DEF IInv, JobHoldsItsMark, NoNewJob
<1>2. OneJobPerKey'
  BY DEF IInv, OneJobPerKey, NoNewJob
<1>3. CallKeepsItsMark'
  <2> SUFFICES ASSUME NEW n \in 1 .. Len(calls), calls[n].key \notin excused,
                      now' < calls[n].markedAt + TTL
               PROVE  db.attempts[calls[n].key] = calls[n].markedAt
    BY DEF CallKeepsItsMark
  <2>1. now \in Nat /\ now' \in Nat
    BY DEF IInv, TypeOK
  <2>2. now < calls[n].markedAt + TTL
    BY <2>1, CallFacts, ConstantsType DEF IInv
  <2> QED BY <2>2 DEF IInv, CallKeepsItsMark
<1>4. PendingIsFresh'
  BY DEF IInv, PendingIsFresh, NoNewJob
<1>5. OneCallPerWindow'
  BY DEF IInv, OneCallPerWindow, Apart
<1> QED BY <1>1, <1>2, <1>3, <1>4, <1>5 DEF IInv

\* A job that ends and clears its mark: the mark is its own, and no call that
\* still needs it was placed under it.
LEMMA MarkReleased ==
  ASSUME IInv, TypeOK', NEW j \in JobId, Active(j),
         job[j].stage # "accepted" \/ job[j].key \in excused',
         job' = [job EXCEPT ![j] = Idle],
         db'.attempts = Cleared(db.attempts, job[j].key),
         calls' = calls, excused \subseteq excused', now' = now
  PROVE  IInv'
<1> DEFINE k == job[j].key
<1>1. \A i \in JobId : Active(i)' => i # j /\ Active(i) /\ job'[i] = job[i]
  BY DEF IInv, TypeOK, Active, Idle
<1>2. JobEndsBeforeItsMark'
  BY <1>1 DEF IInv, JobEndsBeforeItsMark
<1>3. OneJobPerKey'
  BY <1>1 DEF IInv, OneJobPerKey
<1>4. \A x \in Key \ {k} : db'.attempts[x] = db.attempts[x]
  BY MarkFacts DEF IInv, Cleared
<1>5. JobHoldsItsMark'
  <2> SUFFICES ASSUME NEW i \in JobId, Active(i)', job'[i].key \notin excused'
               PROVE  db'.attempts[job'[i].key] = job'[i].markedAt
    BY DEF JobHoldsItsMark
  <2>1. i # j /\ Active(i) /\ job'[i] = job[i] /\ job[i].key \notin excused
    BY <1>1
  <2>2. job[i].key # k
    BY <2>1 DEF IInv, OneJobPerKey
  <2>3. job[i].key \in Key
    BY <2>1, JobFacts DEF IInv
  <2> QED BY <2>1, <2>2, <2>3, <1>4 DEF IInv, JobHoldsItsMark
<1>6. CallKeepsItsMark'
  <2> SUFFICES ASSUME NEW n \in 1 .. Len(calls), calls[n].key \notin excused',
                      now < calls[n].markedAt + TTL
               PROVE  db'.attempts[calls[n].key] = calls[n].markedAt
    BY DEF CallKeepsItsMark
  <2>1. db.attempts[calls[n].key] = calls[n].markedAt
    BY DEF IInv, CallKeepsItsMark
  <2>2. calls[n].key # k
    <3> SUFFICES ASSUME calls[n].key = k PROVE FALSE
      OBVIOUS
    <3>1. job[j].stage # "accepted" /\ k \notin excused
      OBVIOUS
    <3>2. calls[n].markedAt + TTL <= job[j].markedAt
      BY <3>1 DEF IInv, PendingIsFresh
    <3>3. job[j].markedAt <= now
      BY DEF IInv, JobEndsBeforeItsMark
    <3> QED BY <3>2, <3>3, CallFacts, JobFacts, MarkFacts, ConstantsType DEF IInv
  <2> QED BY <2>1, <2>2, <1>4, CallFacts DEF IInv
<1>7. PendingIsFresh'
  BY <1>1 DEF IInv, PendingIsFresh
<1>8. OneCallPerWindow'
  BY DEF IInv, OneCallPerWindow, Apart
<1> QED BY <1>2, <1>3, <1>5, <1>6, <1>7, <1>8 DEF IInv

\* clearAttempt, with or without an entry to delete.
LEMMA ClearMarkEffect ==
  ASSUME db \in Db, NEW k \in Key, ClearMark(k)
  PROVE  db'.attempts = Cleared(db.attempts, k)
<1>1. CASE db.attempts[k] = NoMark
  BY <1>1 DEF ClearMark, Cleared, Db
<1>2. CASE db.attempts[k] # NoMark
  BY <1>2 DEF ClearMark, Persist, Db
<1> QED BY <1>1, <1>2

\* A fault that makes every mark unreliable leaves nothing to show but time.
LEMMA AllExcused ==
  ASSUME TypeOK', JobEndsBeforeItsMark', excused' = Key
  PROVE  IInv'
<1>1. \A j \in JobId : Active(j)' => job'[j].key \in Key
  <2> SUFFICES ASSUME NEW j \in JobId, Active(j)' PROVE job'[j].key \in Key
    OBVIOUS
  <2>1. job'[j] \in Job
    BY DEF TypeOK, Idle, Active
  <2> QED BY <2>1 DEF Job
<1>2. \A n \in 1 .. Len(calls') : calls'[n].key \in Key
  <2> SUFFICES ASSUME NEW n \in 1 .. Len(calls') PROVE calls'[n].key \in Key
    OBVIOUS
  <2>1. calls'[n] \in Call
    BY DEF TypeOK
  <2> QED BY <2>1 DEF Call
<1> QED BY <1>1, <1>2 DEF IInv, JobHoldsItsMark, OneJobPerKey, CallKeepsItsMark,
                          PendingIsFresh, OneCallPerWindow

LEMMA StartJobStep ==
  ASSUME ShortDelays, IInv, TypeOK', NEW k \in Key, NEW j \in JobId,
         StartJob(k, j)
  PROVE  IInv'
<1> DEFINE cfg == db.cfg[AutomationOf[k]]
<1>1. /\ cfg.delay \in Nat
      /\ cfg.delay + 3 * Latency < TTL
      /\ TimerDelay(cfg.delay) \in 0 .. cfg.delay
  <2>1. cfg \in CfgChoices
    BY PlaceCallAssumption DEF IInv, TypeOK, Db
  <2>2. cfg.delay \in Nat
    BY <2>1, PlaceCallAssumption DEF Cfg
  <2>3. TimerDelay(cfg.delay) \in 0 .. cfg.delay
    <3> HIDE DEF cfg
    <3> QED BY <2>2 DEF TimerDelay
  <2> QED BY <2>1, <2>2, <2>3 DEF ShortDelays
<1>2. /\ ~Active(j)
      /\ ~Live(db.attempts[k], now)
      /\ now' = now /\ calls' = calls /\ excused' = excused
      /\ db'.attempts = Marked(db.attempts, k, now)
  BY DEF StartJob, CanStart, Persist, IInv, TypeOK, Db
<1>3. /\ job'[j].key = k
      /\ job'[j].markedAt = now
      /\ job'[j].due = now + TimerDelay(cfg.delay)
      /\ job'[j].stage = IF cfg.delay > 0 THEN "timer" ELSE "dialing"
      /\ Active(j)'
  BY DEF StartJob, IInv, TypeOK, Active
<1>4. \A i \in JobId \ {j} : job'[i] = job[i] /\ (Active(i)' <=> Active(i))
  BY DEF StartJob, IInv, TypeOK, Active
<1>5. now \in Nat /\ db.attempts \in [Key -> Nat \cup {NoMark}]
  BY MarkFacts DEF IInv
\* No call and no job in flight holds the key: their marks would still be live.
<1>6. \A n \in 1 .. Len(calls) :
        calls[n].key = k /\ k \notin excused => calls[n].markedAt + TTL <= now
  <2> SUFFICES ASSUME NEW n \in 1 .. Len(calls), calls[n].key = k,
                      k \notin excused, now < calls[n].markedAt + TTL
               PROVE  FALSE
    BY <1>5, CallFacts, ConstantsType DEF IInv
  <2>1. db.attempts[k] = calls[n].markedAt
    BY DEF IInv, CallKeepsItsMark
  <2> QED BY <2>1, <1>2, <1>5, CallFacts, ConstantsType, NoMarkNotTime
          DEF IInv, Live
<1>7. \A i \in JobId : Active(i) => job[i].key # k \/ k \in excused
  <2> SUFFICES ASSUME NEW i \in JobId, Active(i), job[i].key = k, k \notin excused
               PROVE  FALSE
    OBVIOUS
  <2>1. db.attempts[k] = job[i].markedAt
    BY DEF IInv, JobHoldsItsMark
  <2>2. now < job[i].markedAt + TTL
    <3>1. Slack(job[i].stage) >= Latency /\ Slack(job[i].stage) \in Nat
      BY JobFacts, SlackValue, ConstantsType DEF IInv, Stage
    <3> QED BY <3>1, <1>5, JobFacts, ConstantsType DEF IInv, JobEndsBeforeItsMark
  <2> QED BY <2>1, <2>2, <1>2, <1>5, JobFacts, ConstantsType, NoMarkNotTime
          DEF IInv, Live
<1>8. JobEndsBeforeItsMark'
  <2> SUFFICES ASSUME NEW i \in JobId, Active(i)'
               PROVE  /\ job'[i].markedAt <= now
                      /\ now <= job'[i].due + Latency
                      /\ job'[i].due + Slack(job'[i].stage)
                           < job'[i].markedAt + TTL
    BY <1>2 DEF JobEndsBeforeItsMark
  <2>1. CASE i = j
    <3>1. CASE cfg.delay > 0
      BY <2>1, <3>1, <1>1, <1>3, <1>5, SlackValue, ConstantsType
    <3>2. CASE ~(cfg.delay > 0)
      BY <2>1, <3>2, <1>1, <1>3, <1>5, SlackValue, ConstantsType
    <3> QED BY <3>1, <3>2
  <2>2. CASE i # j
    BY <2>2, <1>4 DEF IInv, JobEndsBeforeItsMark
  <2> QED BY <2>1, <2>2
<1>9. JobHoldsItsMark'
  <2> SUFFICES ASSUME NEW i \in JobId, Active(i)', job'[i].key \notin excused
               PROVE  db'.attempts[job'[i].key] = job'[i].markedAt
    BY <1>2 DEF JobHoldsItsMark
  <2>1. CASE i = j
    BY <2>1, <1>2, <1>3 DEF Marked
  <2>2. CASE i # j
    <3>1. Active(i) /\ job'[i] = job[i] /\ job[i].key # k
      BY <2>2, <1>4, <1>7
    <3>2. db.attempts[job[i].key] = job[i].markedAt
      BY <3>1 DEF IInv, JobHoldsItsMark
    <3>3. Slack(job[i].stage) >= Latency /\ Slack(job[i].stage) \in Nat
      BY <3>1, JobFacts, SlackValue, ConstantsType DEF IInv, Stage
    <3>4. now < job[i].markedAt + TTL
      BY <3>1, <3>3, <1>5, JobFacts, ConstantsType DEF IInv, JobEndsBeforeItsMark
    <3>5. Live(db.attempts[job[i].key], now)
      BY <3>1, <3>2, <3>4, <1>5, JobFacts, ConstantsType, NoMarkNotTime
      DEF IInv, Live
    <3> QED BY <3>1, <3>2, <3>5, <1>2, JobFacts DEF IInv, Marked
  <2> QED BY <2>1, <2>2
<1>10. OneJobPerKey'
  BY <1>2, <1>3, <1>4, <1>7 DEF IInv, OneJobPerKey
<1>11. CallKeepsItsMark'
  <2> SUFFICES ASSUME NEW n \in 1 .. Len(calls), calls[n].key \notin excused,
                      now < calls[n].markedAt + TTL
               PROVE  db'.attempts[calls[n].key] = calls[n].markedAt
    BY <1>2 DEF CallKeepsItsMark
  <2>1. db.attempts[calls[n].key] = calls[n].markedAt
    BY DEF IInv, CallKeepsItsMark
  <2>2. calls[n].key # k
    BY <1>6, <1>5, CallFacts, ConstantsType DEF IInv
  <2>3. Live(db.attempts[calls[n].key], now)
    BY <2>1, <1>5, CallFacts, ConstantsType, NoMarkNotTime DEF IInv, Live
  <2> QED BY <2>1, <2>2, <2>3, <1>2, CallFacts DEF IInv, Marked
<1>12. PendingIsFresh'
  BY <1>2, <1>3, <1>4, <1>6 DEF IInv, PendingIsFresh
<1>13. OneCallPerWindow'
  BY <1>2 DEF IInv, OneCallPerWindow, Apart
<1> QED BY <1>8, <1>9, <1>10, <1>11, <1>12, <1>13 DEF IInv

LEMMA TimerFiresStep ==
  ASSUME IInv, TypeOK', NEW j \in JobId, TimerFires(j)
  PROVE  IInv'
<1>1. /\ Active(j) /\ job[j].stage = "timer"
      /\ now' = now /\ calls' = calls /\ excused' = excused
  BY DEF TimerFires, Active
<1>2. CASE Release(j)
  <2>1. db'.attempts = Cleared(db.attempts, job[j].key)
    BY <1>1, <1>2, JobFacts, ClearMarkEffect DEF IInv, TypeOK, Release
  <2> QED BY <1>1, <1>2, <2>1, MarkReleased DEF Release
<1>3. CASE UNCHANGED db /\ (\/ Dial(j)
                            \/ job' = [job EXCEPT ![j].stage = "precheck",
                                                  ![j].due = now])
  <2>1. /\ job'[j].key = job[j].key
        /\ job'[j].markedAt = job[j].markedAt
        /\ job'[j].due = now
        /\ job'[j].stage \in {"precheck", "dialing"}
    <3>1. job[j] \in Job /\ job \in [JobId -> {Idle} \cup Job]
      BY <1>1, ActiveIsJob DEF IInv, TypeOK, Active
    <3>2. CASE Dial(j)
      BY <3>1, <3>2 DEF Dial, Job
    <3>3. CASE job' = [job EXCEPT ![j].stage = "precheck", ![j].due = now]
      BY <3>1, <3>3 DEF Job
    <3> QED BY <1>3, <3>2, <3>3
  <2>2. \A i \in JobId \ {j} : job'[i] = job[i]
    BY <1>3 DEF Dial, IInv, TypeOK
  <2>3. NoNewJob
    BY <2>1, <2>2, <1>1 DEF NoNewJob, Active
  <2>4. JobEndsBeforeItsMark'
    <3> SUFFICES ASSUME NEW i \in JobId, Active(i)'
                 PROVE  /\ job'[i].markedAt <= now
                        /\ now <= job'[i].due + Latency
                        /\ job'[i].due + Slack(job'[i].stage)
                             < job'[i].markedAt + TTL
      BY <1>1 DEF JobEndsBeforeItsMark
    <3>1. CASE i = j
      <4>1. /\ job[j].markedAt <= now
            /\ now <= job[j].due + Latency
            /\ job[j].due + 3 * Latency < job[j].markedAt + TTL
        BY <1>1, SlackValue DEF IInv, JobEndsBeforeItsMark
      <4>2. /\ Slack(job'[j].stage) \in Nat
            /\ Slack(job'[j].stage) <= 2 * Latency
        BY <2>1, SlackValue, ConstantsType
      <4> QED BY <3>1, <4>1, <4>2, <2>1, <1>1, JobFacts, MarkFacts, ConstantsType
              DEF IInv
    <3>2. CASE i # j
      BY <3>2, <2>2 DEF IInv, JobEndsBeforeItsMark, Active
    <3> QED BY <3>1, <3>2
  <2> QED BY <1>1, <1>3, <2>3, <2>4, MarksUntouched, MarkFacts DEF IInv
<1> QED BY <1>2, <1>3 DEF TimerFires

LEMMA PrecheckEndsStep ==
  ASSUME IInv, TypeOK', NEW j \in JobId, PrecheckEnds(j)
  PROVE  IInv'
<1>1. /\ Active(j) /\ job[j].stage = "precheck"
      /\ now' = now /\ calls' = calls /\ excused' = excused /\ db' = db
      /\ Dial(j) \/ job' = [job EXCEPT ![j] = Idle]
  BY DEF PrecheckEnds, Active
<1>2. Active(j)' => /\ job'[j].key = job[j].key
                    /\ job'[j].markedAt = job[j].markedAt
                    /\ job'[j].due = now
                    /\ job'[j].stage = "dialing"
  BY <1>1, ActiveIsJob DEF Dial, IInv, TypeOK, Active, Job, Idle
<1>3. \A i \in JobId \ {j} : job'[i] = job[i]
  BY <1>1 DEF Dial, IInv, TypeOK
<1>4. NoNewJob
  BY <1>1, <1>2, <1>3 DEF NoNewJob, Active
<1>5. JobEndsBeforeItsMark'
  <2> SUFFICES ASSUME NEW i \in JobId, Active(i)'
               PROVE  /\ job'[i].markedAt <= now
                      /\ now <= job'[i].due + Latency
                      /\ job'[i].due + Slack(job'[i].stage)
                           < job'[i].markedAt + TTL
    BY <1>1 DEF JobEndsBeforeItsMark
  <2>1. CASE i = j
    <3>1. /\ job[j].markedAt <= now
          /\ now <= job[j].due + Latency
          /\ job[j].due + 2 * Latency < job[j].markedAt + TTL
      BY <1>1, SlackValue DEF IInv, JobEndsBeforeItsMark
    <3> QED BY <2>1, <3>1, <1>1, <1>2, SlackValue, JobFacts, MarkFacts,
               ConstantsType DEF IInv
  <2>2. CASE i # j
    BY <2>2, <1>3 DEF IInv, JobEndsBeforeItsMark, Active
  <2> QED BY <2>1, <2>2
<1> QED BY <1>1, <1>4, <1>5, MarksUntouched, MarkFacts DEF IInv

LEMMA AcceptStep ==
  ASSUME IInv, TypeOK', NEW j \in JobId, Accept(j)
  PROVE  IInv'
<1> DEFINE new == [key |-> job[j].key, markedAt |-> job[j].markedAt,
                   wait |-> job[j].wait, at |-> now]
           N == Len(calls)
<1>1. /\ Active(j) /\ job[j].stage = "dialing"
      /\ now' = now /\ excused' = excused /\ db' = db
      /\ calls' = Append(calls, new)
  BY DEF Accept, Active
<1>2. /\ N \in Nat /\ Len(calls') = N + 1 /\ calls'[N + 1] = new
      /\ \A n \in 1 .. N : calls'[n] = calls[n]
  BY <1>1 DEF IInv, TypeOK
<1>3. /\ job'[j].key = job[j].key
      /\ job'[j].markedAt = job[j].markedAt
      /\ job'[j].due = job[j].due
      /\ job'[j].stage = "accepted"
  BY <1>1, ActiveIsJob DEF Accept, IInv, TypeOK, Active, Job
<1>4. \A i \in JobId \ {j} : job'[i] = job[i]
  BY DEF Accept, IInv, TypeOK
<1>5. NoNewJob
  BY <1>1, <1>3, <1>4 DEF NoNewJob, Active
<1>6. JobEndsBeforeItsMark'
  <2>1. Slack("accepted") = Slack("dialing")
    BY SlackValue
  <2> QED BY <2>1, <1>1, <1>3, <1>4 DEF IInv, JobEndsBeforeItsMark, Active
<1>7. JobHoldsItsMark'
  BY <1>1, <1>5 DEF IInv, JobHoldsItsMark, NoNewJob
<1>8. OneJobPerKey'
  BY <1>1, <1>5 DEF IInv, OneJobPerKey, NoNewJob
<1>9. CallKeepsItsMark'
  <2> SUFFICES ASSUME NEW n \in 1 .. N + 1, calls'[n].key \notin excused,
                      now < calls'[n].markedAt + TTL
               PROVE  db.attempts[calls'[n].key] = calls'[n].markedAt
    BY <1>1, <1>2 DEF CallKeepsItsMark
  <2>1. CASE n = N + 1
    BY <2>1, <1>1, <1>2 DEF IInv, JobHoldsItsMark
  <2>2. CASE n \in 1 .. N
    BY <2>2, <1>2 DEF IInv, CallKeepsItsMark
  <2> QED BY <1>2, <2>1, <2>2
<1>10. PendingIsFresh'
  <2> SUFFICES ASSUME NEW i \in JobId, NEW n \in 1 .. N + 1,
                      Active(i)', job'[i].stage # "accepted",
                      calls'[n].key = job'[i].key, job'[i].key \notin excused
               PROVE  calls'[n].markedAt + TTL <= job'[i].markedAt
    BY <1>1, <1>2 DEF PendingIsFresh
  <2>1. i # j /\ job'[i] = job[i] /\ Active(i)
    BY <1>3, <1>4 DEF Active
  <2>2. n # N + 1
    BY <2>1, <1>1, <1>2 DEF IInv, OneJobPerKey
  <2>3. n \in 1 .. N /\ calls'[n] = calls[n]
    BY <2>2, <1>2
  <2> QED BY <2>1, <2>3 DEF IInv, PendingIsFresh
<1>11. OneCallPerWindow'
  <2> SUFFICES ASSUME NEW m \in 1 .. N + 1, NEW n \in 1 .. N + 1, m < n,
                      calls'[m].key = calls'[n].key,
                      calls'[m].key \notin excused
               PROVE  Apart(calls'[m], calls'[n])
    BY <1>1, <1>2 DEF OneCallPerWindow, Apart
  <2>1. m \in 1 .. N /\ calls'[m] = calls[m]
    BY <1>2
  <2>2. CASE n = N + 1
    <3>1. calls[m].markedAt + TTL <= job[j].markedAt
      BY <2>1, <2>2, <1>1, <1>2 DEF IInv, PendingIsFresh
    <3> QED BY <2>1, <2>2, <3>1, <1>2 DEF Apart
  <2>3. CASE n \in 1 .. N
    BY <2>1, <2>3, <1>2 DEF IInv, OneCallPerWindow
  <2> QED BY <1>2, <2>2, <2>3
<1> QED BY <1>6, <1>7, <1>8, <1>9, <1>10, <1>11 DEF IInv

LEMMA TickStep ==
  ASSUME IInv, TypeOK', Tick
  PROVE  IInv'
<1>1. NoNewJob
  BY DEF Tick, NoNewJob, Active
<1>2. JobEndsBeforeItsMark'
  <2> SUFFICES ASSUME NEW j \in JobId, Active(j)
               PROVE  /\ job[j].markedAt <= now + 1
                      /\ now + 1 <= job[j].due + Latency
                      /\ job[j].due + Slack(job[j].stage)
                           < job[j].markedAt + TTL
    BY DEF Tick, JobEndsBeforeItsMark, Active
  <2>1. now < job[j].due + Latency
    BY DEF Tick
  <2> QED BY <2>1, JobFacts, MarkFacts, ConstantsType
          DEF IInv, JobEndsBeforeItsMark
<1>3. now' >= now
  BY MarkFacts DEF IInv, Tick
<1> QED BY <1>1, <1>2, <1>3, MarksUntouched DEF Tick

LEMMA InitInductive == Init => IInv
<1> SUFFICES ASSUME Init PROVE IInv
  OBVIOUS
<1>1. \A j \in JobId : ~Active(j)
  BY DEF Init, Active, Idle
<1>2. Len(calls) = 0
  BY DEF Init
<1> QED BY <1>1, <1>2, InitType
        DEF IInv, JobEndsBeforeItsMark, JobHoldsItsMark, OneJobPerKey,
            CallKeepsItsMark, PendingIsFresh, OneCallPerWindow

LEMMA NextInductive ==
  ASSUME ShortDelays, IInv, [Next]_vars
  PROVE  IInv'
<1>1. TypeOK'
  BY NextType DEF IInv
<1>2. ASSUME NEW k \in Key, NEW j \in JobId, StartJob(k, j) PROVE IInv'
  BY <1>1, <1>2, StartJobStep
<1>3. ASSUME NEW j \in JobId, TimerFires(j) PROVE IInv'
  BY <1>1, <1>3, TimerFiresStep
<1>4. ASSUME NEW j \in JobId, PrecheckEnds(j) PROVE IInv'
  BY <1>1, <1>4, PrecheckEndsStep
<1>5. ASSUME NEW j \in JobId, Accept(j) PROVE IInv'
  BY <1>1, <1>5, AcceptStep
<1>6. ASSUME NEW j \in JobId, DialOk(j) PROVE IInv'
  <2>1. db'.attempts = db.attempts
    BY <1>6 DEF DialOk, Persist, IInv, TypeOK, Db
  <2>2. /\ \A i \in JobId : Active(i)' => i # j /\ job'[i] = job[i] /\ Active(i)
        /\ calls' = calls /\ excused' = excused /\ now' = now
    BY <1>6 DEF DialOk, Active, Idle, IInv, TypeOK
  <2>3. NoNewJob
    BY <2>2 DEF NoNewJob
  <2>4. JobEndsBeforeItsMark'
    BY <2>2 DEF IInv, JobEndsBeforeItsMark
  <2> QED BY <1>1, <2>1, <2>2, <2>3, <2>4, MarksUntouched, MarkFacts DEF IInv
<1>7. ASSUME NEW j \in JobId, DialFails(j) PROVE IInv'
  <2>1. Active(j)
    BY <1>7 DEF DialFails, Active
  <2>2. db'.attempts = Cleared(db.attempts, job[j].key)
    BY <1>7, <2>1, JobFacts, ClearMarkEffect DEF DialFails, Release, IInv, TypeOK
  <2> QED BY <1>1, <1>7, <2>1, <2>2, MarkReleased DEF DialFails, Release
<1>8. ASSUME NEW j \in JobId, AnswerLost(j) PROVE IInv'
  <2>1. Active(j)
    BY <1>8 DEF AnswerLost, Active
  <2>2. db'.attempts = Cleared(db.attempts, job[j].key)
    BY <1>8, <2>1, JobFacts, ClearMarkEffect DEF AnswerLost, Release, IInv, TypeOK
  <2> QED BY <1>1, <1>8, <2>1, <2>2, MarkReleased DEF AnswerLost, Release
<1>9. ASSUME NEW a \in Automation, SaveSettings(a) PROVE IInv'
  <2>1. db'.attempts = db.attempts
    BY <1>9 DEF SaveSettings, Persist, IInv, TypeOK, Db
  <2>2. NoNewJob /\ JobEndsBeforeItsMark'
    BY <1>9 DEF SaveSettings, NoNewJob, Active, IInv, JobEndsBeforeItsMark
  <2> QED BY <1>1, <1>9, <2>1, <2>2, MarksUntouched, MarkFacts
          DEF SaveSettings, IInv
<1>10. CASE Tick
  BY <1>1, <1>10, TickStep
<1>11. CASE Uninstall
  <2>1. JobEndsBeforeItsMark'
    BY <1>11 DEF Uninstall, Active, IInv, JobEndsBeforeItsMark
  <2> QED BY <1>1, <1>11, <2>1, AllExcused DEF Uninstall
<1>12. CASE Install
  <2>1. db'.attempts = db.attempts
    BY <1>12 DEF Install, Persist, IInv, TypeOK, Db
  <2>2. NoNewJob /\ JobEndsBeforeItsMark'
    BY <1>12 DEF Install, NoNewJob, Active, IInv, JobEndsBeforeItsMark
  <2> QED BY <1>1, <1>12, <2>1, <2>2, MarksUntouched, MarkFacts
          DEF Install, IInv
<1>13. CASE Crash
  <2>1. \A i \in JobId : ~Active(i)'
    BY <1>13 DEF Crash, Active, Idle
  <2>2. JobEndsBeforeItsMark' /\ NoNewJob
    BY <2>1 DEF JobEndsBeforeItsMark, NoNewJob
  <2>3. CASE disk = db
    BY <1>1, <1>13, <2>2, <2>3, MarksUntouched, MarkFacts DEF Crash, IInv
  <2>4. CASE disk # db
    BY <1>1, <1>13, <2>2, <2>4, AllExcused DEF Crash
  <2> QED BY <2>3, <2>4
<1>14. CASE UNCHANGED vars
  <2>1. NoNewJob /\ JobEndsBeforeItsMark'
    BY <1>14 DEF vars, NoNewJob, Active, IInv, JobEndsBeforeItsMark
  <2> QED BY <1>1, <1>14, <2>1, MarksUntouched, MarkFacts DEF vars, IInv
<1> QED BY <1>2, <1>3, <1>4, <1>5, <1>6, <1>7, <1>8, <1>9, <1>10, <1>11, <1>12,
           <1>13, <1>14 DEF Next, Resolve

\* The inductive invariant of placeCall, when every delay that can be configured
\* ends before the mark does.
THEOREM Inductive ==
  ASSUME ShortDelays
  PROVE  Spec => []IInv
<1>1. IInv /\ [Next]_vars => IInv'
  BY NextInductive
<1> QED BY <1>1, InitInductive, PTL DEF Spec

\* However deliveries, timers, failures and retries overlap, no key is given two
\* calls within one TTL, unless a fault (a lost answer, an uninstall, a lost write
\* before a crash) touched that key.
THEOREM AtMostOneCallPerWindow ==
  ASSUME ShortDelays
  PROVE  Spec => []OneCallPerWindow
<1>1. IInv => OneCallPerWindow
  BY DEF IInv
<1> QED BY <1>1, Inductive, PTL

\* No run of placeCall clears or replaces the mark of another.
THEOREM MarksAreOwned ==
  ASSUME ShortDelays
  PROVE  Spec => [](JobHoldsItsMark /\ OneJobPerKey)
<1>1. IInv => JobHoldsItsMark /\ OneJobPerKey
  BY DEF IInv
<1> QED BY <1>1, Inductive, PTL

-----------------------------------------------------------------------------
(* What a mark stands for, and when a call is placed.  Neither needs             *)
(* ShortDelays: a mark that was cleared asks for no cause, so it does not matter  *)
(* who cleared it.                                                               *)

\* What a mark may stand for: keys and the times of their marks.
Causes == {<<job[j].key, job[j].markedAt>> : j \in {i \in JobId : Active(i)}}
          \cup {<<calls[n].key, calls[n].markedAt>> : n \in 1 .. Len(calls)}
          \cup blocked

\* A job whose call Telenow has taken is in the record of calls.
AcceptedHasCall ==
  \A j \in JobId : job[j].stage = "accepted" =>
    \E n \in 1 .. Len(calls) : /\ calls[n].key = job[j].key
                               /\ calls[n].markedAt = job[j].markedAt

CauseIInv == TypeOK /\ AcceptedHasCall /\ MarkHasCause

LEMMA CauseIs ==
  MarkHasCause <=> \A k \in Key \ excused :
                     db.attempts[k] # NoMark => <<k, db.attempts[k]>> \in Causes
BY DEF MarkHasCause, Causes

\* A step keeps MarkHasCause when it keeps the causes of the marks it keeps.
LEMMA CausesKept ==
  ASSUME CauseIInv, excused \subseteq excused',
         \A k \in Key \ excused' :
           \/ db'.attempts[k] = NoMark
           \/ <<k, db'.attempts[k]>> \in Causes'
           \/ /\ db'.attempts[k] = db.attempts[k]
              /\ \A m \in Nat : <<k, m>> \in Causes => <<k, m>> \in Causes'
  PROVE  MarkHasCause'
<1>1. MarkHasCause' <=> \A k \in Key \ excused' :
                          db'.attempts[k] # NoMark => <<k, db'.attempts[k]>> \in Causes'
  BY DEF MarkHasCause, Causes
<1>2. \A k \in Key : db.attempts[k] \in Nat \cup {NoMark}
  BY MarkFacts DEF CauseIInv
<1> QED
  BY <1>1, <1>2, CauseIs DEF CauseIInv

\* The marks stay, jobs only move on, and what ends leaves a cause behind.
LEMMA MarksStay ==
  ASSUME CauseIInv, excused \subseteq excused', db'.attempts = db.attempts,
         Causes \subseteq Causes'
  PROVE  MarkHasCause'
BY CausesKept

LEMMA JobMovesOn ==
  ASSUME calls' = calls, blocked \subseteq blocked',
         \A i \in JobId : Active(i) => \/ /\ Active(i)'
                                          /\ job'[i].key = job[i].key
                                          /\ job'[i].markedAt = job[i].markedAt
                                       \/ <<job[i].key, job[i].markedAt>> \in Causes'
  PROVE  Causes \subseteq Causes'
<1> SUFFICES ASSUME NEW x \in Causes PROVE x \in Causes'
  OBVIOUS
<1>1. CASE \E i \in JobId : Active(i) /\ x = <<job[i].key, job[i].markedAt>>
  BY <1>1 DEF Causes
<1>2. CASE x \in {<<calls[n].key, calls[n].markedAt>> : n \in 1 .. Len(calls)}
  BY <1>2 DEF Causes
<1>3. CASE x \in blocked
  BY <1>3 DEF Causes
<1> QED
  BY <1>1, <1>2, <1>3 DEF Causes

\* A job that gives its mark back leaves the causes of all other keys.
LEMMA ReleaseKeepsCauses ==
  ASSUME CauseIInv, NEW j \in JobId, Active(j), Release(j),
         calls' = calls, blocked' = blocked, excused \subseteq excused'
  PROVE  MarkHasCause' /\ AcceptedHasCall'
<1>1. TypeOK /\ job[j].key \in Key /\ db.attempts \in [Key -> Nat \cup {NoMark}]
  BY JobFacts, MarkFacts DEF CauseIInv
<1>2. db'.attempts = Cleared(db.attempts, job[j].key)
  BY <1>1, ClearMarkEffect DEF Release, TypeOK
<1>3. /\ db'.attempts[job[j].key] = NoMark
      /\ \A k \in Key \ {job[j].key} : db'.attempts[k] = db.attempts[k]
  BY <1>1, <1>2 DEF Cleared
<1>4. /\ \A i \in JobId \ {j} : job'[i] = job[i]
      /\ job'[j].stage = "idle"
  BY <1>1 DEF Release, TypeOK, Idle
<1>5. ASSUME NEW k \in Key \ {job[j].key}, NEW m \in Nat, <<k, m>> \in Causes
      PROVE  <<k, m>> \in Causes'
  <2>1. CASE \E i \in JobId : Active(i) /\ <<k, m>> = <<job[i].key, job[i].markedAt>>
    <3>1. PICK i \in JobId : Active(i) /\ k = job[i].key /\ m = job[i].markedAt
      BY <2>1
    <3>2. i # j /\ job'[i] = job[i]
      BY <1>4, <3>1
    <3> QED
      BY <3>1, <3>2 DEF Causes, Active
  <2>2. CASE <<k, m>> \in {<<calls[n].key, calls[n].markedAt>> : n \in 1 .. Len(calls)}
    BY <2>2 DEF Causes
  <2>3. CASE <<k, m>> \in blocked
    BY <2>3 DEF Causes
  <2> QED
    BY <1>5, <2>1, <2>2, <2>3 DEF Causes
<1>6. MarkHasCause'
  BY <1>3, <1>5, CausesKept
<1>7. AcceptedHasCall'
  BY <1>4 DEF CauseIInv, AcceptedHasCall
<1> QED
  BY <1>6, <1>7

LEMMA StartJobCause ==
  ASSUME CauseIInv, NEW k \in Key, NEW j \in JobId, StartJob(k, j)
  PROVE  MarkHasCause' /\ AcceptedHasCall'
<1> DEFINE cfg == db.cfg[AutomationOf[k]]
           new == [stage    |-> IF cfg.delay > 0 THEN "timer" ELSE "dialing",
                   key      |-> k, markedAt |-> now, wait |-> cfg.delay,
                   due      |-> now + TimerDelay(cfg.delay), session |-> 0]
<1>1. /\ TypeOK /\ ~Active(j) /\ now \in Nat
      /\ db.attempts \in [Key -> Nat \cup {NoMark}]
      /\ calls' = calls /\ blocked' = blocked /\ excused' = excused
  BY MarkFacts DEF CauseIInv, StartJob, CanStart
<1>2. db'.attempts = Marked(db.attempts, k, now)
  BY <1>1 DEF StartJob, Persist, TypeOK, Db
<1>3. /\ db'.attempts[k] = now
      /\ \A x \in Key : x = k \/ db'.attempts[x] \in {NoMark, db.attempts[x]}
  BY <1>1, <1>2 DEF Marked
<1>4. job' = [job EXCEPT ![j] = new]
  BY DEF StartJob
<1>5. new.key = k /\ new.markedAt = now /\ new.stage \in {"timer", "dialing"}
  OBVIOUS
<1> HIDE DEF new
<1>6. job'[j] = new /\ \A i \in JobId \ {j} : job'[i] = job[i]
  BY <1>1, <1>4 DEF TypeOK
<1>7. <<k, now>> \in Causes'
  <2>1. Active(j)' /\ job'[j].key = k /\ job'[j].markedAt = now
    BY <1>5, <1>6 DEF Active
  <2> QED
    BY <2>1 DEF Causes
<1>8. Causes \subseteq Causes'
  <2>1. \A i \in JobId : Active(i) => /\ Active(i)'
                                      /\ job'[i].key = job[i].key
                                      /\ job'[i].markedAt = job[i].markedAt
    BY <1>1, <1>6 DEF Active
  <2> QED
    BY <1>1, <2>1, JobMovesOn
<1>9. MarkHasCause'
  BY <1>1, <1>3, <1>7, <1>8, CausesKept
<1>a. AcceptedHasCall'
  BY <1>1, <1>5, <1>6 DEF CauseIInv, AcceptedHasCall
<1> QED
  BY <1>9, <1>a

\* The steps of a job that give no mark back.
LEMMA ForwardCause ==
  ASSUME CauseIInv, NEW j \in JobId,
         PrecheckEnds(j) \/ Accept(j) \/ DialOk(j)
  PROVE  MarkHasCause' /\ AcceptedHasCall'
<1>1. /\ TypeOK /\ Active(j) /\ job[j] \in Job /\ job \in [JobId -> {Idle} \cup Job]
      /\ excused' = excused
  BY ActiveIsJob DEF CauseIInv, PrecheckEnds, Accept, DialOk, Active, TypeOK
<1>2. db'.attempts = db.attempts
  BY <1>1 DEF PrecheckEnds, Accept, DialOk, Persist, TypeOK, Db
<1>3. \A i \in JobId \ {j} : job'[i] = job[i]
  BY <1>1 DEF PrecheckEnds, Accept, DialOk, Dial
<1>4. CASE PrecheckEnds(j)
  <2>1. calls' = calls /\ blocked \subseteq blocked'
    BY <1>4 DEF PrecheckEnds
  <2>2. CASE Dial(j)
    <3>1. /\ job'[j].key = job[j].key /\ job'[j].markedAt = job[j].markedAt
          /\ job'[j].stage = "dialing"
      BY <1>1, <2>2 DEF Dial, Job
    <3>2. Causes \subseteq Causes'
      BY <1>3, <2>1, <3>1, JobMovesOn DEF Active
    <3>3. AcceptedHasCall'
      BY <1>3, <2>1, <3>1 DEF CauseIInv, AcceptedHasCall
    <3> QED
      BY <1>1, <1>2, <3>2, <3>3, MarksStay
  <2>3. CASE /\ job' = [job EXCEPT ![j] = Idle]
             /\ blocked' = blocked \cup {<<job[j].key, job[j].markedAt>>}
    <3>1. job'[j].stage = "idle"
      BY <1>1, <2>3 DEF Idle
    <3>2. <<job[j].key, job[j].markedAt>> \in Causes'
      BY <2>3 DEF Causes
    <3>3. Causes \subseteq Causes'
      BY <1>3, <2>1, <3>2, JobMovesOn DEF Active
    <3>4. AcceptedHasCall'
      BY <1>3, <2>1, <3>1 DEF CauseIInv, AcceptedHasCall
    <3> QED
      BY <1>1, <1>2, <3>3, <3>4, MarksStay
  <2> QED
    BY <1>4, <2>2, <2>3 DEF PrecheckEnds
<1>5. CASE Accept(j)
  <2> DEFINE N == Len(calls)
  <2>1. /\ job'[j].key = job[j].key /\ job'[j].markedAt = job[j].markedAt
        /\ blocked' = blocked
    BY <1>1, <1>5 DEF Accept, Job
  <2>2. /\ N \in Nat /\ Len(calls') = N + 1
        /\ calls'[N + 1].key = job[j].key /\ calls'[N + 1].markedAt = job[j].markedAt
        /\ \A n \in 1 .. N : calls'[n] = calls[n]
    BY <1>1, <1>5 DEF Accept, TypeOK
  <2>3. job'[j].stage = "accepted"
    BY <1>1, <1>5 DEF Accept, Job
  <2>4. Causes \subseteq Causes'
    <3> SUFFICES ASSUME NEW x \in Causes PROVE x \in Causes'
      OBVIOUS
    <3>1. CASE \E i \in JobId : Active(i) /\ x = <<job[i].key, job[i].markedAt>>
      <4>1. PICK i \in JobId : Active(i) /\ x = <<job[i].key, job[i].markedAt>>
        BY <3>1
      <4>2. /\ job'[i].key = job[i].key /\ job'[i].markedAt = job[i].markedAt
            /\ job'[i].stage # "idle"
        BY <1>3, <2>1, <2>3, <4>1 DEF Active
      <4> QED
        BY <4>1, <4>2 DEF Causes, Active
    <3>2. CASE \E n \in 1 .. N : x = <<calls[n].key, calls[n].markedAt>>
      <4>1. PICK n \in 1 .. N : x = <<calls[n].key, calls[n].markedAt>>
        BY <3>2
      <4>2. n \in 1 .. Len(calls') /\ x = <<calls'[n].key, calls'[n].markedAt>>
        BY <2>2, <4>1
      <4> QED
        BY <4>2 DEF Causes
    <3>3. CASE x \in blocked
      BY <2>1, <3>3 DEF Causes
    <3> QED
      BY <3>1, <3>2, <3>3 DEF Causes
  <2>5. AcceptedHasCall'
    <3> SUFFICES ASSUME NEW i \in JobId, job'[i].stage = "accepted"
                 PROVE  \E n \in 1 .. Len(calls') :
                          /\ calls'[n].key = job'[i].key
                          /\ calls'[n].markedAt = job'[i].markedAt
      BY DEF AcceptedHasCall
    <3>1. CASE i = j
      BY <2>1, <2>2, <3>1
    <3>2. CASE i # j
      <4>1. job'[i] = job[i]
        BY <1>3, <3>2
      <4>2. PICK n \in 1 .. N : /\ calls[n].key = job[i].key
                                /\ calls[n].markedAt = job[i].markedAt
        BY <4>1 DEF CauseIInv, AcceptedHasCall
      <4>3. n \in 1 .. Len(calls') /\ calls'[n] = calls[n]
        BY <2>2
      <4> QED
        BY <4>1, <4>2, <4>3
    <3> QED
      BY <3>1, <3>2
  <2> QED
    BY <1>1, <1>2, <2>4, <2>5, MarksStay
<1>6. CASE DialOk(j)
  <2>1. calls' = calls /\ blocked' = blocked /\ job'[j].stage = "idle"
    BY <1>1, <1>6 DEF DialOk, Idle
  <2>2. <<job[j].key, job[j].markedAt>> \in Causes'
    <3>1. PICK n \in 1 .. Len(calls) : /\ calls[n].key = job[j].key
                                       /\ calls[n].markedAt = job[j].markedAt
      BY <1>6 DEF DialOk, CauseIInv, AcceptedHasCall
    <3>2. n \in 1 .. Len(calls') /\ calls'[n] = calls[n]
      BY <2>1, <3>1
    <3> QED
      BY <3>1, <3>2 DEF Causes
  <2>3. Causes \subseteq Causes'
    BY <1>3, <2>1, <2>2, JobMovesOn DEF Active
  <2>4. AcceptedHasCall'
    BY <1>3, <2>1 DEF CauseIInv, AcceptedHasCall
  <2> QED
    BY <1>1, <1>2, <2>3, <2>4, MarksStay
<1> QED
  BY <1>4, <1>5, <1>6

LEMMA TimerFiresCause ==
  ASSUME CauseIInv, NEW j \in JobId, TimerFires(j)
  PROVE  MarkHasCause' /\ AcceptedHasCall'
<1>1. /\ TypeOK /\ Active(j) /\ job[j] \in Job /\ job \in [JobId -> {Idle} \cup Job]
      /\ excused' = excused /\ calls' = calls /\ blocked' = blocked
  BY ActiveIsJob DEF CauseIInv, TimerFires, Active, TypeOK
<1>2. CASE Release(j)
  BY <1>1, <1>2, ReleaseKeepsCauses
<1>3. CASE UNCHANGED db /\ (\/ Dial(j)
                            \/ job' = [job EXCEPT ![j].stage = "precheck",
                                                  ![j].due = now])
  <2>1. /\ job'[j].key = job[j].key /\ job'[j].markedAt = job[j].markedAt
        /\ job'[j].stage \in {"precheck", "dialing"}
    <3>1. CASE Dial(j)
      BY <1>1, <3>1 DEF Dial, Job
    <3>2. CASE job' = [job EXCEPT ![j].stage = "precheck", ![j].due = now]
      BY <1>1, <3>2 DEF Job
    <3> QED
      BY <1>3, <3>1, <3>2
  <2>2. \A i \in JobId \ {j} : job'[i] = job[i]
    BY <1>1, <1>3 DEF Dial
  <2>3. Causes \subseteq Causes'
    BY <1>1, <2>1, <2>2, JobMovesOn DEF Active
  <2>4. AcceptedHasCall'
    BY <1>1, <2>1, <2>2 DEF CauseIInv, AcceptedHasCall
  <2> QED
    BY <1>1, <1>3, <2>3, <2>4, MarksStay
<1> QED
  BY <1>2, <1>3 DEF TimerFires

LEMMA CrashCause ==
  ASSUME CauseIInv, Crash
  PROVE  MarkHasCause' /\ AcceptedHasCall'
<1>1. \A i \in JobId : job'[i].stage = "idle"
  BY DEF Crash, Idle
<1>2. AcceptedHasCall'
  BY <1>1 DEF AcceptedHasCall
<1>3. CASE disk = db
  <2>1. db' = db /\ excused' = excused /\ calls' = calls
    BY <1>3 DEF Crash
  <2>2. \A i \in JobId : Active(i) => <<job[i].key, job[i].markedAt>> \in Causes'
    BY DEF Crash, Causes
  <2>3. blocked \subseteq blocked'
    BY DEF Crash
  <2>4. Causes \subseteq Causes'
    BY <2>1, <2>2, <2>3, JobMovesOn
  <2> QED
    BY <1>2, <2>1, <2>4, MarksStay
<1>4. CASE disk # db
  <2>1. excused' = Key
    BY <1>4 DEF Crash
  <2> QED
    BY <1>2, <2>1 DEF MarkHasCause
<1> QED
  BY <1>3, <1>4

\* The steps that touch neither marks nor jobs nor calls.
LEMMA AsideCause ==
  ASSUME CauseIInv, db'.attempts = db.attempts,
         UNCHANGED <<job, calls, blocked, excused>>
  PROVE  MarkHasCause' /\ AcceptedHasCall'
<1>1. Causes \subseteq Causes'
  BY DEF Causes, Active
<1> QED
  BY <1>1, MarksStay DEF CauseIInv, AcceptedHasCall

LEMMA CauseStep == CauseIInv /\ [Next]_vars => CauseIInv'
<1> SUFFICES ASSUME CauseIInv, [Next]_vars PROVE CauseIInv'
  OBVIOUS
<1>1. TypeOK /\ TypeOK'
  BY NextType DEF CauseIInv
<1> SUFFICES MarkHasCause' /\ AcceptedHasCall'
  BY <1>1 DEF CauseIInv
<1>2. ASSUME NEW k \in Key, NEW j \in JobId, StartJob(k, j)
      PROVE  MarkHasCause' /\ AcceptedHasCall'
  BY <1>2, StartJobCause
<1>3. ASSUME NEW j \in JobId, Resolve(j)
      PROVE  MarkHasCause' /\ AcceptedHasCall'
  <2>1. CASE TimerFires(j)
    BY <2>1, TimerFiresCause
  <2>2. CASE PrecheckEnds(j) \/ Accept(j) \/ DialOk(j)
    BY <2>2, ForwardCause
  <2>3. CASE DialFails(j) \/ AnswerLost(j)
    BY <2>3, ReleaseKeepsCauses DEF DialFails, AnswerLost, Active
  <2> QED
    BY <1>3, <2>1, <2>2, <2>3 DEF Resolve
<1>4. ASSUME NEW a \in Automation, SaveSettings(a)
      PROVE  MarkHasCause' /\ AcceptedHasCall'
  <2>1. db'.attempts = db.attempts
    BY <1>1, <1>4 DEF SaveSettings, Persist, TypeOK, Db
  <2> QED
    BY <1>4, <2>1, AsideCause DEF SaveSettings
<1>5. CASE Tick
  BY <1>5, AsideCause DEF Tick
<1>6. CASE Uninstall
  <2>1. excused' = Key /\ job' = job /\ calls' = calls
    BY <1>6 DEF Uninstall
  <2> QED
    BY <2>1 DEF MarkHasCause, CauseIInv, AcceptedHasCall
<1>7. CASE Install
  <2>1. db'.attempts = db.attempts
    BY <1>1, <1>7 DEF Install, Persist, TypeOK, Db
  <2> QED
    BY <1>7, <2>1, AsideCause DEF Install
<1>8. CASE Crash
  BY <1>8, CrashCause
<1>9. CASE UNCHANGED vars
  BY <1>9, AsideCause DEF vars
<1> QED
  BY <1>2, <1>3, <1>4, <1>5, <1>6, <1>7, <1>8, <1>9 DEF Next

\* A refused or failed placement never leaves a key blocked behind it, whatever the
\* delays: who finds a key marked will find the job that is using the mark, the call
\* it was taken for, or the job that ended and meant to keep it (_base.js:84-136,
\* store.js:214-236).
THEOREM EveryMarkHasCause == Spec => []MarkHasCause
<1>1. Init => CauseIInv
  <2> SUFFICES ASSUME Init PROVE AcceptedHasCall /\ MarkHasCause
    BY InitType DEF CauseIInv
  <2>1. \A j \in JobId : job[j].stage = "idle"
    BY DEF Init, Idle
  <2>2. db.attempts = NoMarks
    BY DEF Init
  <2> QED
    BY <2>1, <2>2 DEF AcceptedHasCall, MarkHasCause, NoMarks
<1>2. CauseIInv => MarkHasCause
  BY DEF CauseIInv
<1> QED
  BY <1>1, <1>2, CauseStep, PTL DEF Spec
-----------------------------------------------------------------------------
\* setTimeout can hold every delay that can be configured.
DelaysFit == \A c \in CfgChoices : c.delay <= TimeoutMax

\* A timer is not due, and a job is not past it, before its delay is over.
JobsWait ==
  \A j \in JobId : Active(j) =>
    IF job[j].stage = "timer" THEN job[j].due >= job[j].markedAt + job[j].wait
                              ELSE now >= job[j].markedAt + job[j].wait

WaitIInv == TypeOK /\ JobsWait /\ WaitsTheDelay

\* A job that is past its timer stays so.
LEMMA WaitGoesOn ==
  ASSUME WaitIInv, now' \in Nat, now <= now', calls' = calls,
         \A i \in JobId : Active(i)' => Active(i) /\ job'[i] = job[i]
  PROVE  JobsWait' /\ WaitsTheDelay'
<1>1. WaitsTheDelay'
  BY DEF WaitIInv, WaitsTheDelay
<1>2. JobsWait'
  <2> SUFFICES ASSUME NEW i \in JobId, Active(i), job'[i] = job[i]
               PROVE  IF job[i].stage = "timer"
                        THEN job[i].due >= job[i].markedAt + job[i].wait
                        ELSE now' >= job[i].markedAt + job[i].wait
    BY DEF JobsWait
  <2>1. job[i].markedAt \in Nat /\ job[i].wait \in Nat /\ now \in Nat
    BY JobFacts, MarkFacts DEF WaitIInv
  <2> QED
    BY <2>1 DEF WaitIInv, JobsWait
<1> QED
  BY <1>1, <1>2

LEMMA WaitStep ==
  ASSUME DelaysFit, WaitIInv, [Next]_vars
  PROVE  WaitIInv'
<1>1. /\ TypeOK /\ TypeOK' /\ now \in Nat /\ now' \in Nat
      /\ job \in [JobId -> {Idle} \cup Job]
  BY NextType DEF WaitIInv, TypeOK
<1> SUFFICES JobsWait' /\ WaitsTheDelay'
  BY <1>1 DEF WaitIInv
<1>2. ASSUME NEW k \in Key, NEW j \in JobId, StartJob(k, j)
      PROVE  JobsWait' /\ WaitsTheDelay'
  <2> DEFINE cfg == db.cfg[AutomationOf[k]]
             new == [stage    |-> IF cfg.delay > 0 THEN "timer" ELSE "dialing",
                     key      |-> k, markedAt |-> now, wait |-> cfg.delay,
                     due      |-> now + TimerDelay(cfg.delay), session |-> 0]
  <2>1. cfg \in CfgChoices /\ cfg.delay \in Nat
    BY <1>1, PlaceCallAssumption DEF TypeOK, Db, Cfg
  <2>2. TimerDelay(cfg.delay) = cfg.delay
    BY <2>1, PlaceCallAssumption DEF TimerDelay, DelaysFit
  <2>3. job' = [job EXCEPT ![j] = new] /\ calls' = calls /\ now' = now
    BY <1>2 DEF StartJob
  <2>4. /\ new.markedAt = now /\ new.wait = cfg.delay /\ new.due = now + cfg.delay
        /\ new.stage = IF cfg.delay > 0 THEN "timer" ELSE "dialing"
    BY <2>2
  <2> HIDE DEF cfg, new
  <2>5. job'[j] = new /\ \A i \in JobId \ {j} : job'[i] = job[i]
    BY <1>1, <2>3
  <2>6. JobsWait'
    <3> SUFFICES ASSUME NEW i \in JobId, Active(i)'
                 PROVE  IF job'[i].stage = "timer"
                          THEN job'[i].due >= job'[i].markedAt + job'[i].wait
                          ELSE now' >= job'[i].markedAt + job'[i].wait
      BY DEF JobsWait
    <3>1. CASE i = j
      <4>1. CASE cfg.delay > 0
        BY <1>1, <2>1, <2>4, <2>5, <3>1, <4>1
      <4>2. CASE cfg.delay = 0
        BY <1>1, <2>3, <2>4, <2>5, <3>1, <4>2
      <4> QED
        BY <2>1, <4>1, <4>2
    <3>2. CASE i # j
      BY <2>3, <2>5, <3>2 DEF WaitIInv, JobsWait, Active
    <3> QED
      BY <3>1, <3>2
  <2>7. WaitsTheDelay'
    BY <2>3 DEF WaitIInv, WaitsTheDelay
  <2> QED
    BY <2>6, <2>7
<1>3. ASSUME NEW j \in JobId, Resolve(j)
      PROVE  JobsWait' /\ WaitsTheDelay'
  <2>1. Active(j) /\ job[j] \in Job /\ now' = now
    BY <1>1, <1>3, ActiveIsJob
    DEF Resolve, TimerFires, PrecheckEnds, Accept, DialOk, DialFails, AnswerLost, Active
  <2>2. \A i \in JobId \ {j} : job'[i] = job[i]
    BY <1>1, <1>3 DEF Resolve, TimerFires, PrecheckEnds, Accept, DialOk, DialFails,
                      AnswerLost, Release, Dial
  <2>3. CASE job' = [job EXCEPT ![j] = Idle] /\ calls' = calls
    <3>1. \A i \in JobId : Active(i)' => Active(i) /\ job'[i] = job[i]
      BY <1>1, <2>2, <2>3 DEF Active, Idle
    <3> QED
      BY <1>1, <2>1, <2>3, <3>1, WaitGoesOn
  <2>4. CASE /\ job[j].stage \in {"timer", "precheck"} /\ calls' = calls
             /\ job[j].stage = "timer" => now >= job[j].due
             /\ \/ Dial(j)
                \/ job' = [job EXCEPT ![j].stage = "precheck", ![j].due = now]
    <3>1. /\ job'[j].markedAt = job[j].markedAt /\ job'[j].wait = job[j].wait
          /\ job'[j].stage \in {"precheck", "dialing"}
      <4>1. CASE Dial(j)
        BY <1>1, <2>1, <4>1 DEF Dial, Job
      <4>2. CASE job' = [job EXCEPT ![j].stage = "precheck", ![j].due = now]
        BY <1>1, <2>1, <4>2 DEF Job
      <4> QED
        BY <2>4, <4>1, <4>2
    <3>2. now >= job[j].markedAt + job[j].wait
      BY <1>1, <2>1, <2>4, JobFacts DEF WaitIInv, JobsWait
    <3>3. JobsWait'
      <4> SUFFICES ASSUME NEW i \in JobId, Active(i)'
                   PROVE  IF job'[i].stage = "timer"
                            THEN job'[i].due >= job'[i].markedAt + job'[i].wait
                            ELSE now' >= job'[i].markedAt + job'[i].wait
        BY DEF JobsWait
      <4>1. CASE i = j
        BY <2>1, <3>1, <3>2, <4>1
      <4>2. CASE i # j
        BY <2>1, <2>2, <4>2 DEF WaitIInv, JobsWait, Active
      <4> QED
        BY <4>1, <4>2
    <3> QED
      BY <2>4, <3>3 DEF WaitIInv, WaitsTheDelay
  <2>5. CASE Accept(j)
    <3> DEFINE N == Len(calls)
    <3>1. job[j].stage = "dialing" /\ now >= job[j].markedAt + job[j].wait
      BY <2>1, <2>5 DEF Accept, WaitIInv, JobsWait
    <3>2. /\ N \in Nat /\ Len(calls') = N + 1
          /\ calls'[N + 1].markedAt = job[j].markedAt
          /\ calls'[N + 1].wait = job[j].wait /\ calls'[N + 1].at = now
          /\ \A n \in 1 .. N : calls'[n] = calls[n]
      BY <1>1, <2>5 DEF Accept, TypeOK
    <3>3. WaitsTheDelay'
      <4> SUFFICES ASSUME NEW n \in 1 .. N + 1
                   PROVE  calls'[n].at >= calls'[n].markedAt + calls'[n].wait
        BY <3>2 DEF WaitsTheDelay
      <4>1. CASE n = N + 1
        BY <3>1, <3>2, <4>1
      <4>2. CASE n \in 1 .. N
        BY <3>2, <4>2 DEF WaitIInv, WaitsTheDelay
      <4> QED
        BY <3>2, <4>1, <4>2
    <3>4. /\ job'[j].markedAt = job[j].markedAt /\ job'[j].wait = job[j].wait
          /\ job'[j].stage = "accepted"
      BY <1>1, <2>1, <2>5 DEF Accept, Job
    <3>5. JobsWait'
      <4> SUFFICES ASSUME NEW i \in JobId, Active(i)'
                   PROVE  IF job'[i].stage = "timer"
                            THEN job'[i].due >= job'[i].markedAt + job'[i].wait
                            ELSE now' >= job'[i].markedAt + job'[i].wait
        BY DEF JobsWait
      <4>1. CASE i = j
        BY <2>1, <3>1, <3>4, <4>1
      <4>2. CASE i # j
        BY <2>1, <2>2, <4>2 DEF WaitIInv, JobsWait, Active
      <4> QED
        BY <4>1, <4>2
    <3> QED
      BY <3>3, <3>5
  <2> QED
    BY <1>3, <2>3, <2>4, <2>5
    DEF Resolve, TimerFires, PrecheckEnds, DialOk, DialFails, AnswerLost, Release
<1>4. CASE (\E a \in Automation : SaveSettings(a)) \/ Uninstall \/ Install \/ UNCHANGED vars
  <2>1. UNCHANGED <<now, job, calls>>
    BY <1>4 DEF SaveSettings, Uninstall, Install, vars
  <2> QED
    BY <1>1, <2>1, WaitGoesOn DEF Active
<1>5. CASE Tick
  <2>1. job' = job /\ calls' = calls /\ now <= now'
    BY <1>1, <1>5 DEF Tick
  <2> QED
    BY <1>1, <2>1, WaitGoesOn DEF Active
<1>6. CASE Crash
  <2>1. now' = now /\ calls' = calls /\ \A i \in JobId : ~Active(i)'
    BY <1>6 DEF Crash, Active, Idle
  <2> QED
    BY <1>1, <2>1, WaitGoesOn
<1> QED
  BY <1>2, <1>3, <1>4, <1>5, <1>6 DEF Next

\* No call is placed before the delay its attempt was given is over, as long as
\* the delay fits setTimeout, which fires at once otherwise (_base.js:112-136).
THEOREM CallsWaitTheirDelay ==
  ASSUME DelaysFit
  PROVE  Spec => []WaitsTheDelay
<1>1. Init => WaitIInv
  <2> SUFFICES ASSUME Init PROVE JobsWait /\ WaitsTheDelay
    BY InitType DEF WaitIInv
  <2>1. (\A j \in JobId : ~Active(j)) /\ Len(calls) = 0
    BY DEF Init, Active, Idle
  <2> QED
    BY <2>1 DEF JobsWait, WaitsTheDelay
<1>2. WaitIInv /\ [Next]_vars => WaitIInv'
  BY WaitStep
<1>3. WaitIInv => WaitsTheDelay
  BY DEF WaitIInv
<1> QED
  BY <1>1, <1>2, <1>3, PTL DEF Spec

-----------------------------------------------------------------------------
(* PlaceCall implements CallWindow. *)

\* A key whose mark, jobs and calls a step leaves alone keeps its window.
LEMMA SameWindow ==
  ASSUME NEW k \in Key, now' = now, k \in excused' <=> k \in excused,
         db'.attempts[k] = db.attempts[k],
         TryingKey(k)' <=> TryingKey(k), CalledKey(k)' <=> CalledKey(k)
  PROVE  WindowOf(k)' = WindowOf(k)
BY DEF WindowOf, OpenState

LEMMA SameCalls ==
  ASSUME NEW k \in Key, calls' = calls, db'.attempts[k] = db.attempts[k]
  PROVE  CalledKey(k)' <=> CalledKey(k)
BY DEF CalledKey

\* A step that changes no window and takes no call is none of CallWindow's.
LEMMA Stutter ==
  ASSUME now' = now, calls' = calls,
         \A k \in Key : WindowOf(k)' = WindowOf(k)
  PROVE  UNCHANGED Promise!vars
BY DEF Promise!vars

\* The window of a key with a job that has not reached Telenow.
LEMMA PendingWindow ==
  ASSUME IInv, NEW j \in JobId, Active(j), job[j].stage # "accepted",
         job[j].key \notin excused
  PROVE  /\ WindowOf(job[j].key) = [state |-> "trying", since |-> job[j].markedAt]
         /\ ~CalledKey(job[j].key)
<1> DEFINE k == job[j].key
<1>1. k \in Key /\ job[j].markedAt \in Nat /\ job[j].stage \in Stage
      /\ job[j].due \in Nat /\ now \in Nat
  BY JobFacts, MarkFacts DEF IInv
<1>2. db.attempts[k] = job[j].markedAt
  BY DEF IInv, JobHoldsItsMark
<1>3. Live(db.attempts[k], now)
  <2>1. /\ now <= job[j].due + Latency
        /\ job[j].due + Slack(job[j].stage) < job[j].markedAt + TTL
    BY DEF IInv, JobEndsBeforeItsMark
  <2>2. Slack(job[j].stage) \in Nat /\ Slack(job[j].stage) >= Latency
    BY <1>1, SlackValue, ConstantsType DEF Stage
  <2> QED BY <1>1, <1>2, <2>1, <2>2, ConstantsType, NoMarkNotTime DEF Live
<1>4. TryingKey(k)
  BY DEF TryingKey
<1>5. ~CalledKey(k)
  <2> SUFFICES ASSUME NEW n \in 1 .. Len(calls), calls[n].key = k,
                      calls[n].markedAt = job[j].markedAt
               PROVE  FALSE
    BY <1>2 DEF CalledKey
  <2>1. calls[n].markedAt + TTL <= job[j].markedAt
    BY DEF IInv, PendingIsFresh
  <2> QED BY <2>1, <1>1, ConstantsType
<1> QED BY <1>2, <1>3, <1>4, <1>5 DEF WindowOf, OpenState

\* Jobs other than those of a key do not matter to its window.
LEMMA OthersTrying ==
  ASSUME NEW j \in JobId, NEW k \in Key,
         \A i \in JobId \ {j} : job'[i] = job[i],
         Active(j) => job[j].key # k, Active(j)' => job'[j].key # k
  PROVE  TryingKey(k)' <=> TryingKey(k)
BY DEF TryingKey, Active

\* A job that moves between stages before Telenow takes its call.
LEMMA StillTrying ==
  ASSUME NEW j \in JobId, \A i \in JobId \ {j} : job'[i] = job[i],
         Active(j), Active(j)', job'[j].key = job[j].key,
         job[j].stage # "accepted" <=> job'[j].stage # "accepted",
         NEW k \in Key
  PROVE  TryingKey(k)' <=> TryingKey(k)
BY DEF TryingKey, Active

LEMMA StartJobMaps ==
  ASSUME IInv, NEW k \in Key, NEW j \in JobId, StartJob(k, j)
  PROVE  [Promise!Next]_(Promise!vars)
<1> USE DEF IInv
<1>1. /\ now' = now /\ calls' = calls /\ excused' = excused
      /\ db'.attempts = Marked(db.attempts, k, now)
      /\ ~Live(db.attempts[k], now)
      /\ ~Active(j)
  BY DEF StartJob, CanStart, Persist, TypeOK, Db
<1>2. now \in Nat /\ db.attempts \in [Key -> Nat \cup {NoMark}]
  BY MarkFacts
<1>3. \A i \in JobId \ {j} : job'[i] = job[i]
  BY DEF StartJob, TypeOK
<1>4. job'[j].key = k /\ job'[j].stage \in {"timer", "dialing"}
  BY DEF StartJob, TypeOK
<1>5. \A x \in Key \ {k} : WindowOf(x)' = WindowOf(x)
  <2> SUFFICES ASSUME NEW x \in Key, x # k PROVE WindowOf(x)' = WindowOf(x)
    OBVIOUS
  <2>1. CASE Live(db.attempts[x], now)
    <3>1. db'.attempts[x] = db.attempts[x]
      BY <1>1, <2>1 DEF Marked
    <3>2. TryingKey(x)' <=> TryingKey(x)
      BY <1>1, <1>3, <1>4, OthersTrying
    <3> QED BY <1>1, <3>1, <3>2, SameCalls, SameWindow
  <2>2. CASE ~Live(db.attempts[x], now)
    <3>1. db'.attempts[x] = NoMark
      BY <1>1, <2>2 DEF Marked
    <3>2. ~Live(db'.attempts[x], now)
      BY <3>1 DEF Live
    <3> QED BY <1>1, <2>2, <3>2 DEF WindowOf
  <2> QED BY <2>1, <2>2
<1>6. CASE k \in excused
  <2>1. WindowOf(k)' = WindowOf(k)
    BY <1>1, <1>6 DEF WindowOf
  <2> QED BY <1>1, <1>5, <2>1, Stutter
<1>7. CASE k \notin excused
  <2>1. WindowOf(k) = [state |-> "free"]
    BY <1>1, <1>7 DEF WindowOf
  <2>2. WindowOf(k)' = [state |-> "trying", since |-> now]
    <3>1. db'.attempts[k] = now
      BY <1>1 DEF Marked
    <3>2. Live(db'.attempts[k], now')
      BY <1>1, <1>2, <3>1, ConstantsType, NoMarkNotTime DEF Live
    <3>3. TryingKey(k)'
      BY <1>4 DEF TryingKey, Active
    <3> QED BY <1>1, <1>7, <3>1, <3>2, <3>3 DEF WindowOf, OpenState
  <2>3. Promise!Attempt(k)
    BY <1>1, <1>5, <2>1, <2>2
       DEF Promise!Attempt, Promise!Free, Promise!Open
  <2> QED BY <2>3 DEF Promise!Next
<1> QED BY <1>6, <1>7

\* A job that has not reached Telenow ends and clears its mark: the attempt is
\* withdrawn, unless its key is off.
LEMMA ReleaseMaps ==
  ASSUME IInv, NEW j \in JobId, NEW k \in Key, job[j].key = k,
         job[j].stage \in {"timer", "dialing"}, Release(j),
         now' = now, calls' = calls, excused' = excused
  PROVE  [Promise!Next]_(Promise!vars)
<1> USE DEF IInv
<1>1. Active(j) /\ job[j].stage # "accepted"
  BY DEF Active
<1>2. db'.attempts = Cleared(db.attempts, k)
  BY ClearMarkEffect DEF Release, TypeOK
<1>3. /\ \A i \in JobId \ {j} : job'[i] = job[i]
      /\ ~Active(j)'
  BY DEF Release, TypeOK, Active, Idle
<1>4. /\ db'.attempts[k] = NoMark
      /\ \A x \in Key \ {k} : db'.attempts[x] = db.attempts[x]
  BY <1>2, MarkFacts DEF Cleared
<1>5. \A x \in Key \ {k} : WindowOf(x)' = WindowOf(x)
  BY <1>1, <1>3, <1>4, OthersTrying, SameCalls, SameWindow
<1>6. CASE k \in excused
  <2>1. WindowOf(k)' = WindowOf(k)
    BY <1>6 DEF WindowOf
  <2> QED BY <1>5, <2>1, Stutter
<1>7. CASE k \notin excused
  <2>1. WindowOf(k) = [state |-> "trying", since |-> job[j].markedAt]
    BY <1>1, <1>7, PendingWindow
  <2>2. WindowOf(k)' = [state |-> "free"]
    BY <1>4, <1>7 DEF WindowOf, Live
  <2>3. Promise!Trying(k)
    BY <2>1 DEF Promise!Trying
  <2>4. [x \in Key |-> WindowOf(x)]' = [[x \in Key |-> WindowOf(x)] EXCEPT
                                         ![k] = [state |-> "free"]]
    BY <1>5, <2>2
  <2>5. Promise!Withdraw(k)
    BY <2>3, <2>4 DEF Promise!Withdraw, Promise!Free
  <2> QED BY <2>5 DEF Promise!Next
<1> QED BY <1>6, <1>7

\* A job moves on towards Telenow: nothing that the promise speaks of.
LEMMA MovesOn ==
  ASSUME IInv, NEW j \in JobId, job[j].stage \in {"timer", "precheck"},
         NEW s \in {"precheck", "dialing"},
         job' = [job EXCEPT ![j].stage = s, ![j].due = now],
         db' = db, now' = now, calls' = calls, excused' = excused
  PROVE  UNCHANGED Promise!vars
<1> USE DEF IInv
<1>1. /\ \A i \in JobId \ {j} : job'[i] = job[i]
      /\ Active(j) /\ Active(j)'
      /\ job'[j].key = job[j].key
      /\ job[j].stage # "accepted" /\ job'[j].stage # "accepted"
  BY ActiveIsJob DEF TypeOK, Active, Job
<1>2. \A k \in Key : TryingKey(k)' <=> TryingKey(k)
  BY <1>1, StillTrying
<1> QED BY <1>2, SameCalls, SameWindow, Stutter

LEMMA TimerFiresMaps ==
  ASSUME IInv, NEW j \in JobId, TimerFires(j)
  PROVE  [Promise!Next]_(Promise!vars)
<1>1. /\ job[j].stage = "timer"
      /\ now' = now /\ calls' = calls /\ excused' = excused
  BY DEF TimerFires
<1>2. CASE Release(j)
  <2>1. job[j].key \in Key
    BY <1>1, JobFacts DEF Active, IInv
  <2> QED BY <1>1, <1>2, <2>1, ReleaseMaps
<1>3. CASE /\ job' = [job EXCEPT ![j].stage = "precheck", ![j].due = now]
           /\ UNCHANGED <<db, disk>>
  BY <1>1, <1>3, MovesOn
<1>4. CASE Dial(j) /\ UNCHANGED <<db, disk>>
  BY <1>1, <1>4, MovesOn DEF Dial
<1> QED BY <1>2, <1>3, <1>4 DEF TimerFires

\* Jobs end and keep their marks: their windows are kept without a call.
LEMMA KeepMaps ==
  ASSUME IInv, NEW J \in SUBSET JobId,
         \A j \in J : Active(j),
         \A i \in JobId \ J : job'[i] = job[i],
         \A j \in J : ~Active(j)',
         db'.attempts = db.attempts, now' = now, calls' = calls, excused' = excused
  PROVE  [Promise!Next]_(Promise!vars)
<1> USE DEF IInv
<1> DEFINE pending(j) == j \in J /\ job[j].stage # "accepted"
           K == {k \in Key \ excused : \E j \in J : pending(j) /\ job[j].key = k}
<1>1. ASSUME NEW k \in K
      PROVE  \E since : /\ WindowOf(k) = [state |-> "trying", since |-> since]
                        /\ WindowOf(k)' = [state |-> "kept", since |-> since]
  <2>1. PICK j \in J : pending(j) /\ job[j].key = k
    BY <1>1
  <2>2. /\ WindowOf(k) = [state |-> "trying", since |-> job[j].markedAt]
        /\ ~CalledKey(k)
    BY <2>1, PendingWindow
  <2>3. Live(db.attempts[k], now) /\ db.attempts[k] = job[j].markedAt
    BY <2>2 DEF WindowOf
  <2>4. ~TryingKey(k)'
    <3> SUFFICES ASSUME NEW i \in JobId, Active(i)', job'[i].key = k PROVE FALSE
      BY DEF TryingKey
    <3>1. i \notin J /\ job'[i] = job[i]
      OBVIOUS
    <3>2. Active(i) /\ job[i].key = k /\ i # j
      BY <3>1, <2>1 DEF Active
    <3> QED BY <2>1, <3>2 DEF OneJobPerKey
  <2>5. ~CalledKey(k)'
    BY <2>2, SameCalls
  <2>6. WindowOf(k)' = [state |-> "kept", since |-> job[j].markedAt]
    BY <2>3, <2>4, <2>5 DEF WindowOf, OpenState
  <2> QED BY <2>2, <2>6
<1>2. ASSUME NEW k \in Key \ K PROVE WindowOf(k)' = WindowOf(k)
  <2>1. CASE k \in excused
    BY <2>1 DEF WindowOf
  <2>2. CASE k \notin excused
    <3>1. TryingKey(k)' <=> TryingKey(k)
      BY <1>2, <2>2 DEF TryingKey, Active
    <3> QED BY <3>1, SameCalls, SameWindow
  <2> QED BY <2>1, <2>2
<1>3. Promise!Keep(K)
  BY <1>1, <1>2 DEF Promise!Keep, Promise!Trying, Promise!Open
<1> QED BY <1>3 DEF Promise!Next

LEMMA PrecheckEndsMaps ==
  ASSUME IInv, NEW j \in JobId, PrecheckEnds(j)
  PROVE  [Promise!Next]_(Promise!vars)
<1>1. /\ job[j].stage = "precheck" /\ db' = db
      /\ now' = now /\ calls' = calls /\ excused' = excused
  BY DEF PrecheckEnds
<1>2. CASE Dial(j)
  BY <1>1, <1>2, MovesOn DEF Dial
<1>3. CASE job' = [job EXCEPT ![j] = Idle]
  <2>1. \A i \in JobId \ {j} : job'[i] = job[i]
    BY <1>3 DEF IInv, TypeOK
  <2>2. Active(j) /\ ~Active(j)'
    BY <1>1, <1>3 DEF Active, Idle, IInv, TypeOK
  <2>3. /\ {j} \in SUBSET JobId
        /\ \A i \in {j} : Active(i)
        /\ \A i \in JobId \ {j} : job'[i] = job[i]
        /\ \A i \in {j} : ~Active(i)'
    BY <2>1, <2>2
  <2>4. db'.attempts = db.attempts
    BY <1>1
  <2> QED BY ONLY <1>1, <2>3, <2>4, KeepMaps, IInv
<1> QED BY <1>2, <1>3 DEF PrecheckEnds
\* Telenow takes the call: it is the one call of the key's window.
LEMMA AcceptMaps ==
  ASSUME IInv, NEW j \in JobId, NEW k \in Key, job[j].key = k, Accept(j)
  PROVE  [Promise!Next]_(Promise!vars)
<1> USE DEF IInv
<1> DEFINE new == [key |-> k, since |-> job[j].markedAt]
           N == Len(calls)
           placed == [n \in 1 .. Len(calls) |->
                        [key |-> calls[n].key, since |-> calls[n].markedAt]]
<1>1. /\ Active(j) /\ job[j].stage # "accepted"
      /\ now' = now /\ excused' = excused /\ db' = db
  BY DEF Accept, Active
<1>2. /\ N \in Nat /\ Len(calls') = N + 1
      /\ calls'[N + 1].key = k /\ calls'[N + 1].markedAt = job[j].markedAt
      /\ \A n \in 1 .. N : calls'[n] = calls[n]
  BY DEF Accept, TypeOK
<1>3. placed' = Append(placed, new)
  <2>1. placed \in Seq([key : Key, since : Nat])
    <3>1. \A n \in 1 .. N : placed[n] \in [key : Key, since : Nat]
      BY CallFacts
    <3> QED BY <1>2, <3>1
  <2>2. /\ Len(Append(placed, new)) = N + 1
        /\ \A n \in 1 .. N : Append(placed, new)[n] = placed[n]
        /\ Append(placed, new)[N + 1] = new
    BY <1>2, <2>1
  <2>3. Append(placed, new) = [n \in 1 .. N + 1 |-> Append(placed, new)[n]]
    BY <1>2, <2>1
  <2> QED BY <1>2, <2>2, <2>3
<1>4. \A i \in JobId \ {j} : job'[i] = job[i]
  BY DEF Accept, TypeOK
<1>5. job'[j].key = k /\ job'[j].stage = "accepted"
  BY <1>1, ActiveIsJob DEF Accept, TypeOK, Active, Job
<1>6. \A x \in Key \ {k} : WindowOf(x)' = WindowOf(x)
  <2> SUFFICES ASSUME NEW x \in Key, x # k PROVE WindowOf(x)' = WindowOf(x)
    OBVIOUS
  <2>1. TryingKey(x)' <=> TryingKey(x)
    BY <1>4, <1>5, OthersTrying
  <2>2. CalledKey(x)' <=> CalledKey(x)
    <3>1. \A n \in 1 .. N + 1 : calls'[n].key = x => n \in 1 .. N
      BY <1>2
    <3> QED BY <1>1, <1>2, <3>1 DEF CalledKey
  <2> QED BY <1>1, <2>1, <2>2, SameWindow
<1>7. CASE k \in excused
  <2>1. WindowOf(k) = [state |-> "off"] /\ WindowOf(k)' = WindowOf(k)
    BY <1>1, <1>7 DEF WindowOf
  <2>2. [x \in Key |-> WindowOf(x)]' = [x \in Key |-> WindowOf(x)]
    BY <1>6, <2>1
  <2>3. job[j].markedAt \in 0 .. now
    BY <1>1, JobFacts, MarkFacts DEF JobEndsBeforeItsMark
  <2>4. Promise!PlaceAnyway(k)
    BY <1>1, <1>3, <2>1, <2>2, <2>3 DEF Promise!PlaceAnyway, Promise!Off
  <2> QED BY <2>4 DEF Promise!Next
<1>8. CASE k \notin excused
  <2>1. /\ WindowOf(k) = [state |-> "trying", since |-> job[j].markedAt]
        /\ Live(db.attempts[k], now) /\ db.attempts[k] = job[j].markedAt
    BY <1>1, <1>8, PendingWindow DEF WindowOf
  <2>2. ~TryingKey(k)'
    <3> SUFFICES ASSUME NEW i \in JobId, Active(i)', job'[i].key = k,
                        job'[i].stage # "accepted"
                 PROVE  FALSE
      BY DEF TryingKey
    <3>1. i # j /\ job'[i] = job[i]
      BY <1>4, <1>5
    <3> QED BY <1>1, <1>8, <3>1 DEF OneJobPerKey, Active
  <2>3. CalledKey(k)'
    BY <1>1, <1>2, <2>1 DEF CalledKey
  <2>4. WindowOf(k)' = [state |-> "called", since |-> job[j].markedAt]
    BY <1>1, <1>8, <2>1, <2>2, <2>3 DEF WindowOf, OpenState
  <2>5. Promise!Trying(k)
    BY <2>1 DEF Promise!Trying
  <2>6. [x \in Key |-> WindowOf(x)]' =
          [[x \in Key |-> WindowOf(x)] EXCEPT
             ![k] = [state |-> "called", since |-> job[j].markedAt]]
    BY <1>6, <2>4
  <2>7. [x \in Key |-> WindowOf(x)][k].since = job[j].markedAt
    BY <2>1
  <2>8. Promise!Place(k)
    BY <1>1, <1>3, <2>5, <2>6, <2>7 DEF Promise!Place, Promise!Open
  <2> QED BY <2>8 DEF Promise!Next
<1> QED BY <1>7, <1>8

\* A fault takes keys out of the promise; the windows of the others stay.
LEMMA ExcuseMaps ==
  ASSUME NEW K \in SUBSET Key, excused' = excused \cup K,
         now' = now, calls' = calls,
         \A k \in Key \ K : WindowOf(k)' = WindowOf(k)
  PROVE  [Promise!Next]_(Promise!vars)
<1>1. \A k \in K : WindowOf(k)' = [state |-> "off"]
  BY DEF WindowOf
<1>2. Promise!GiveUp(K)
  BY <1>1 DEF Promise!GiveUp, Promise!Off
<1> QED BY <1>2 DEF Promise!Next

\* Marks, jobs and calls stay as they are.
LEMMA NothingMaps ==
  ASSUME db'.attempts = db.attempts, job' = job, now' = now, calls' = calls,
         excused' = excused
  PROVE  UNCHANGED Promise!vars
<1>1. \A k \in Key : TryingKey(k)' <=> TryingKey(k)
  BY DEF TryingKey, Active
<1> QED BY <1>1, SameCalls, SameWindow, Stutter

LEMMA DialOkMaps ==
  ASSUME IInv, NEW j \in JobId, DialOk(j)
  PROVE  UNCHANGED Promise!vars
<1> USE DEF IInv
<1>1. /\ db'.attempts = db.attempts
      /\ now' = now /\ calls' = calls /\ excused' = excused
  BY DEF DialOk, Persist, TypeOK, Db
<1>2. /\ \A i \in JobId \ {j} : job'[i] = job[i]
      /\ job[j].stage = "accepted" /\ ~Active(j)'
  BY DEF DialOk, TypeOK, Active, Idle
<1>3. \A k \in Key : TryingKey(k)' <=> TryingKey(k)
  BY <1>2 DEF TryingKey, Active
<1> QED BY <1>1, <1>3, SameCalls, SameWindow, Stutter

LEMMA AnswerLostMaps ==
  ASSUME IInv, NEW j \in JobId, NEW k \in Key, job[j].key = k, AnswerLost(j)
  PROVE  [Promise!Next]_(Promise!vars)
<1> USE DEF IInv
<1>1. db'.attempts = Cleared(db.attempts, k)
  BY ClearMarkEffect DEF AnswerLost, Release, TypeOK
<1>2. \A x \in Key \ {k} : db'.attempts[x] = db.attempts[x]
  BY <1>1, MarkFacts DEF Cleared
<1>3. /\ \A i \in JobId \ {j} : job'[i] = job[i]
      /\ ~Active(j)'
      /\ now' = now /\ calls' = calls /\ excused' = excused \cup {k}
  BY DEF AnswerLost, Release, TypeOK, Active, Idle
<1>4. \A x \in Key \ {k} : WindowOf(x)' = WindowOf(x)
  <2> SUFFICES ASSUME NEW x \in Key, x # k PROVE WindowOf(x)' = WindowOf(x)
    OBVIOUS
  <2>1. TryingKey(x)' <=> TryingKey(x)
    BY <1>3, OthersTrying
  <2>2. x \in excused' <=> x \in excused
    BY <1>3
  <2> QED BY <1>2, <1>3, <2>1, <2>2, SameCalls, SameWindow
<1>5. {k} \in SUBSET Key /\ excused' = excused \cup {k}
  BY <1>3
<1> HIDE DEF IInv
<1> QED BY ONLY <1>3, <1>4, <1>5, ExcuseMaps

\* Time passes: an attempt stays within its window, and windows end.
LEMMA TickMaps ==
  ASSUME IInv, Tick
  PROVE  [Promise!Next]_(Promise!vars)
<1> USE DEF IInv
<1>1. /\ now' = now + 1 /\ calls' = calls /\ excused' = excused /\ job' = job
      /\ db' = db /\ now \in Nat
  BY MarkFacts DEF Tick
<1>2. ASSUME NEW k \in Key, WindowOf(k).state = "trying"
      PROVE  /\ now + 1 < WindowOf(k).since + TTL
             /\ WindowOf(k)' = WindowOf(k)
  <2>1. k \notin excused /\ TryingKey(k) /\ WindowOf(k).since = db.attempts[k]
    BY <1>2 DEF WindowOf, OpenState
  <2>2. PICK j \in JobId : /\ Active(j) /\ job[j].key = k
                           /\ job[j].stage # "accepted"
    BY <2>1 DEF TryingKey
  <2>3. db.attempts[k] = job[j].markedAt
    BY <2>1, <2>2 DEF JobHoldsItsMark
  <2>4. /\ job[j].due \in Nat /\ job[j].markedAt \in Nat
        /\ job[j].stage \in Stage
    BY <2>2, JobFacts
  <2>5. Slack(job[j].stage) \in Nat /\ Slack(job[j].stage) >= Latency
    BY <2>4, SlackValue, ConstantsType DEF Stage
  <2>6. /\ job[j].due + Slack(job[j].stage) < job[j].markedAt + TTL
        /\ now < job[j].due + Latency
    BY <2>2 DEF JobEndsBeforeItsMark, Tick
  <2>7. now + 1 < job[j].markedAt + TTL
    BY <1>1, <2>4, <2>5, <2>6, ConstantsType
  <2>8. Live(db.attempts[k], now) /\ Live(db.attempts[k], now + 1)
    BY <1>1, <2>3, <2>4, <2>7, ConstantsType, NoMarkNotTime DEF Live
  <2>9. TryingKey(k)'
    BY <1>1, <2>1 DEF TryingKey, Active
  <2> QED BY <1>1, <2>1, <2>3, <2>7, <2>8, <2>9 DEF WindowOf, OpenState
<1>3. ASSUME NEW k \in Key, WindowOf(k).state # "trying"
      PROVE  WindowOf(k)' = IF /\ WindowOf(k).state \in {"called", "kept"}
                               /\ WindowOf(k).since + TTL <= now + 1
                              THEN [state |-> "free"] ELSE WindowOf(k)
  <2>1. db.attempts[k] \in Nat \cup {NoMark}
    BY MarkFacts
  <2>2. CASE k \in excused
    BY <1>1, <2>2 DEF WindowOf
  <2>3. CASE k \notin excused /\ ~Live(db.attempts[k], now)
    <3>1. ~Live(db.attempts[k], now + 1)
      BY <1>1, <2>1, <2>3, ConstantsType DEF Live
    <3> QED BY <1>1, <2>3, <3>1 DEF WindowOf
  <2>4. CASE k \notin excused /\ Live(db.attempts[k], now)
    <3>1. /\ WindowOf(k) = [state |-> OpenState(k), since |-> db.attempts[k]]
          /\ OpenState(k) \in {"called", "kept"}
      BY <1>3, <2>4 DEF WindowOf, OpenState
    <3>2. OpenState(k)' = OpenState(k)
      BY <1>1 DEF OpenState, TryingKey, CalledKey, Active
    <3>3. Live(db.attempts[k], now + 1) <=> ~(db.attempts[k] + TTL <= now + 1)
      <4>1. db.attempts[k] \in Nat /\ db.attempts[k] # NoMark
        BY <2>1, <2>4 DEF Live
      <4> HIDE DEF IInv
      <4> QED BY <1>1, <4>1, ConstantsType DEF Live
    <3>4. WindowOf(k)' = IF ~Live(db.attempts[k], now + 1)
                           THEN [state |-> "free"]
                           ELSE [state |-> OpenState(k), since |-> db.attempts[k]]
      BY <1>1, <2>4, <3>2 DEF WindowOf
    <3> QED BY <3>1, <3>3, <3>4
  <2> QED BY <2>2, <2>3, <2>4
<1>4. Promise!Tick
  BY <1>1, <1>2, <1>3 DEF Promise!Tick, Promise!Trying, Promise!Over, Promise!Free
<1> QED BY <1>4 DEF Promise!Next

LEMMA CrashMaps ==
  ASSUME IInv, Crash
  PROVE  [Promise!Next]_(Promise!vars)
<1> USE DEF IInv
<1>1. now' = now /\ calls' = calls /\ db' = disk
  BY DEF Crash
<1>2. CASE disk = db
  <2> DEFINE J == {j \in JobId : Active(j)}
  <2>1. /\ J \in SUBSET JobId
        /\ \A j \in J : Active(j)
        /\ \A j \in J : ~Active(j)'
    BY DEF Crash, Active, Idle
  <2>2. \A i \in JobId \ J : job'[i] = job[i]
    <3> SUFFICES ASSUME NEW i \in JobId, ~Active(i) PROVE job'[i] = job[i]
      OBVIOUS
    <3>1. job[i] \in {Idle} \cup Job /\ job[i].stage = "idle"
      BY DEF TypeOK, Active
    <3>2. job[i] = Idle
      BY <3>1 DEF Job, Stage
    <3> QED BY <3>2 DEF Crash
  <2>3. db'.attempts = db.attempts /\ excused' = excused
    BY <1>2 DEF Crash
  <2> QED BY <1>1, <2>1, <2>2, <2>3, KeepMaps
<1>3. CASE disk # db
  <2>1. excused' = excused \cup Key
    BY <1>3 DEF Crash, TypeOK
  <2> QED BY <1>1, <2>1, ExcuseMaps
<1> QED BY <1>2, <1>3

LEMMA InitMaps == Init => Promise!Init
<1> SUFFICES ASSUME Init PROVE Promise!Init
  OBVIOUS
<1>1. now = 0 /\ calls = <<>> /\ excused = {} /\ db.attempts = NoMarks
  BY DEF Init
<1>2. \A k \in Key : WindowOf(k) = [state |-> "free"]
  BY <1>1 DEF WindowOf, Live, NoMarks
<1>3. [n \in 1 .. Len(calls) |->
         [key |-> calls[n].key, since |-> calls[n].markedAt]] = <<>>
  BY <1>1
<1> QED BY <1>1, <1>2, <1>3 DEF Promise!Init, Promise!Free

LEMMA NextMaps ==
  ASSUME IInv, [Next]_vars
  PROVE  [Promise!Next]_(Promise!vars)
<1> USE DEF IInv
<1>1. ASSUME NEW k \in Key, NEW j \in JobId, StartJob(k, j)
      PROVE  [Promise!Next]_(Promise!vars)
  BY <1>1, StartJobMaps
<1>2. ASSUME NEW j \in JobId, TimerFires(j) PROVE [Promise!Next]_(Promise!vars)
  BY <1>2, TimerFiresMaps
<1>3. ASSUME NEW j \in JobId, PrecheckEnds(j) PROVE [Promise!Next]_(Promise!vars)
  BY <1>3, PrecheckEndsMaps
<1>4. ASSUME NEW j \in JobId, Accept(j) PROVE [Promise!Next]_(Promise!vars)
  <2>1. job[j].key \in Key
    BY <1>4, JobFacts DEF Accept, Active
  <2> QED BY <1>4, <2>1, AcceptMaps
<1>5. ASSUME NEW j \in JobId, DialOk(j) PROVE [Promise!Next]_(Promise!vars)
  BY <1>5, DialOkMaps
<1>6. ASSUME NEW j \in JobId, DialFails(j) PROVE [Promise!Next]_(Promise!vars)
  <2>1. job[j].key \in Key /\ job[j].stage = "dialing"
    BY <1>6, JobFacts DEF DialFails, Active
  <2> QED BY <1>6, <2>1, ReleaseMaps DEF DialFails
<1>7. ASSUME NEW j \in JobId, AnswerLost(j) PROVE [Promise!Next]_(Promise!vars)
  <2>1. job[j].key \in Key
    BY <1>7, JobFacts DEF AnswerLost, Active
  <2> QED BY <1>7, <2>1, AnswerLostMaps
<1>8. ASSUME NEW a \in Automation, SaveSettings(a) PROVE UNCHANGED Promise!vars
  <2>1. db'.attempts = db.attempts
    BY <1>8 DEF SaveSettings, Persist, TypeOK, Db
  <2> QED BY <1>8, <2>1, NothingMaps DEF SaveSettings
<1>9. CASE Tick
  BY <1>9, TickMaps
<1>10. CASE Uninstall
  <2>1. excused' = excused \cup Key /\ now' = now /\ calls' = calls
    BY <1>10 DEF Uninstall, TypeOK
  <2> QED BY <2>1, ExcuseMaps
<1>11. CASE Install
  <2>1. db'.attempts = db.attempts
    BY <1>11 DEF Install, Persist, TypeOK, Db
  <2> QED BY <1>11, <2>1, NothingMaps DEF Install
<1>12. CASE Crash
  BY <1>12, CrashMaps
<1>13. CASE UNCHANGED vars
  BY <1>13, NothingMaps DEF vars
<1> QED BY <1>1, <1>2, <1>3, <1>4, <1>5, <1>6, <1>7, <1>8, <1>9, <1>10, <1>11,
           <1>12, <1>13 DEF Next, Resolve

\* placeCall keeps its promise: with timers, overlapping deliveries, failures,
\* retries, crashes, saved settings and uninstalls, it does to each key only what
\* CallWindow allows.
THEOREM PlaceCallKeepsPromise ==
  ASSUME ShortDelays
  PROVE  Spec => KeepsPromise
<1>1. IInv /\ [Next]_vars => [Promise!Next]_(Promise!vars)
  BY NextMaps
<1> QED BY <1>1, InitMaps, Inductive, PTL DEF Spec, KeepsPromise, Promise!Spec
-----------------------------------------------------------------------------
(* Quiet hours and phone numbers. *)

LEMMA DayIsPositive == Day \in Nat \ {0}
BY ClockAssumption, SMT DEF Day

\* What parseHHMM accepts is a minute of the day.
LEMMA ParsedIsMinute ==
  ASSUME NEW s \in Nat \X Nat, ParseHHMM(s) # Malformed
  PROVE  ParseHHMM(s) \in 0 .. Day - 1
<1> DEFINE H == HoursPerDay
           M == MinutesPerHour
           h == s[1]
           m == s[2]
<1>1. H \in Nat /\ M \in Nat /\ h \in Nat /\ m \in Nat
  BY ClockAssumption
<1>2. h <= H - 1 /\ m <= M - 1
  BY <1>1 DEF ParseHHMM
<1>3. ParseHHMM(s) = h * M + m
  BY <1>2 DEF ParseHHMM
<1>4. h * M + m < H * M /\ h * M + m \in Nat
  <2> HIDE DEF H, M, h, m
  <2>1. PICK r \in Nat : H = h + 1 + r
    <3>1. H - h - 1 \in Nat BY <1>1, <1>2
    <3> QED BY <3>1, <1>1
  <2>2. H * M = h * M + M + r * M /\ r * M \in Nat /\ h * M \in Nat
    BY <2>1, <1>1
  <2> QED BY <2>2, <1>1, <1>2
<1>5. Day = H * M
  BY DEF Day
<1> HIDE DEF H, M, h, m
<1>6. H * M \in Int
  BY <1>1
<1> QED BY <1>3, <1>4, <1>5, <1>6

\* Every minute of the day is quiet under exactly one of a window and the
\* window with its ends exchanged: isQuietNow neither loses a boundary minute
\* nor claims it twice.
THEOREM SwappedWindow ==
  ASSUME NEW w \in Window, NEW cur \in 0 .. Day - 1, Usable(w)
  PROVE  IsQuietNow(w, cur) <=>
           ~IsQuietNow([w EXCEPT !.start = w.end, !.end = w.start], cur)
<1> DEFINE v == [w EXCEPT !.start = w.end, !.end = w.start]
           s == ParseHHMM(w.start)
           e == ParseHHMM(w.end)
<1>1. v.start = w.end /\ v.end = w.start /\ v.enabled = w.enabled
  BY DEF Window
<1>2. Usable(v)
  BY <1>1 DEF Usable
<1>3. s \in 0 .. Day - 1 /\ e \in 0 .. Day - 1 /\ s # e
  BY ParsedIsMinute DEF Usable, Window
<1>4. InWindow(s, e, cur) <=> ~InWindow(e, s, cur)
  <2> HIDE DEF s, e
  <2> QED BY <1>3, DayIsPositive DEF InWindow
<1> QED BY <1>1, <1>2, <1>4 DEF IsQuietNow

\* nextWindowEnd is exact: the minute it names is free, and every minute before
\* it is quiet, on a day of any length and under every usable window.
THEOREM WindowEndIsFirstFreeMinute ==
  ASSUME NEW w \in Window, NEW cur \in 0 .. Day - 1, IsQuietNow(w, cur)
  PROVE  LET d == NextWindowEnd(w, cur) IN
         /\ d \in 1 .. Day
         /\ ~IsQuietNow(w, MinuteAfter(cur, d))
         /\ \A i \in 0 .. d - 1 : IsQuietNow(w, MinuteAfter(cur, i))
<1> DEFINE s == ParseHHMM(w.start)
           e == ParseHHMM(w.end)
           d == Delta(e, cur)
<1>1. Usable(w) /\ InWindow(s, e, cur)
  BY DEF IsQuietNow
<1>2. s \in 0 .. Day - 1 /\ e \in 0 .. Day - 1 /\ s # e
  BY <1>1, ParsedIsMinute DEF Usable, Window
<1>3. NextWindowEnd(w, cur) = d
  BY DEF NextWindowEnd
<1>4. /\ d \in 1 .. Day
      /\ ~InWindow(s, e, MinuteAfter(cur, d))
      /\ \A i \in 0 .. d - 1 : InWindow(s, e, MinuteAfter(cur, i))
  <2> HIDE DEF s, e
  <2> QED BY <1>1, <1>2, DayIsPositive DEF Delta, InWindow, MinuteAfter
<1> QED BY <1>1, <1>3, <1>4 DEF IsQuietNow

-----------------------------------------------------------------------------
(* Phone numbers: the ways to write one normalize to one number. *)

\* What stands behind zeros is what is left when they are stripped.
LEMMA ZerosStripped ==
  ASSUME NEW z \in Seq(Digit), \A i \in 1 .. Len(z) : z[i] = 0,
         NEW s \in Seq(Digit), s # <<>>, s[1] # 0
  PROVE  StripZeros(z \o s) = s
<1> DEFINE t == z \o s
           k == Len(z) + 1
<1>1. /\ Len(z) \in Nat /\ Len(s) \in Nat \ {0}
      /\ t \in Seq(Digit) /\ Len(t) = Len(z) + Len(s)
      /\ \A i \in 1 .. Len(z) + Len(s) :
           t[i] = IF i <= Len(z) THEN z[i] ELSE s[i - Len(z)]
  BY ConcatProperties, EmptySeq
<1> HIDE DEF t
<1>2. k \in 1 .. Len(t) /\ t[k] # 0 /\ \A j \in 1 .. k - 1 : t[j] = 0
  <2>1. k - Len(z) = 1 /\ k \in 1 .. Len(t) /\ ~(k <= Len(z))
    BY <1>1
  <2>2. t[k] = s[1]
    BY <1>1, <2>1
  <2>3. \A j \in 1 .. k - 1 : t[j] = z[j] /\ z[j] = 0
    BY <1>1
  <2> QED BY <2>1, <2>2, <2>3
<1> DEFINE First(i) == t[i] # 0 /\ \A j \in 1 .. i - 1 : t[j] = 0
<1>3. \A i \in 1 .. Len(t) : First(i) => i = k
  <2> SUFFICES ASSUME NEW i \in 1 .. Len(t), First(i), i # k
               PROVE  FALSE
    OBVIOUS
  <2>1. i \in Int /\ k \in Int
    BY <1>1
  <2>2. CASE i < k
    <3>1. i \in 1 .. k - 1
      BY <2>1, <2>2
    <3> QED BY <3>1, <1>2
  <2>3. CASE k < i
    <3>1. k \in 1 .. i - 1
      BY <2>1, <2>3, <1>1
    <3> QED BY <3>1, <1>2
  <2> QED BY <2>1, <2>2, <2>3
<1>4. (CHOOSE i \in 1 .. Len(t) : First(i)) = k
  <2>1. First(k)
    BY <1>2
  <2> HIDE DEF First
  <2> QED BY <1>2, <1>3, <2>1
<1>5. SubSeq(t, k, Len(t)) = s
  <2>1. /\ k = Len(z) + 1 /\ k \in Len(z) + 1 .. Len(z) + Len(s)
        /\ Len(t) \in Len(z) + 1 .. Len(z) + Len(s)
        /\ k - Len(z) = 1 /\ Len(t) - Len(z) = Len(s)
    BY <1>1
  <2>2. SubSeq(t, k, Len(t)) = SubSeq(s, k - Len(z), Len(t) - Len(z))
    BY <2>1, SubSeqOfConcat2 DEF t
  <2>3. SubSeq(s, 1, Len(s)) = s
    BY SubSeqFull
  <2> QED BY <2>1, <2>2, <2>3
<1> QED BY <1>2, <1>4, <1>5 DEF StripZeros, From, t

LEMMA NoZerosStripped ==
  ASSUME NEW s \in Seq(Digit), s # <<>>, s[1] # 0
  PROVE  StripZeros(s) = s
<1>1. <<>> \in Seq(Digit) /\ Len(<<>>) = 0
  BY EmptySeq
<1>2. <<>> \o s = s
  BY ConcatEmptySeq
<1>3. \A i \in 1 .. Len(<<>>) : <<>>[i] = 0
  BY <1>1
<1>4. StripZeros(<<>> \o s) = s
  BY <1>1, <1>3, ZerosStripped
<1> QED BY <1>2, <1>4

\* A national number of the usual length, with trunk zero, with the country code
\* with or without plus or 00, with whatever between the digits: toE164 gives the
\* country code and the number.
THEOREM EveryWritingIsOneNumber ==
  ASSUME NEW n \in Seq(Digit), National(n), NEW w \in Writings(n)
  PROVE  ToE164(w) = CountryCode \o n
<1> DEFINE cc == CountryCode
           full == cc \o n
<1>1. /\ Len(cc) \in Nat \ {0} /\ Len(n) \in Nat \ {0} /\ n # <<>> /\ cc # <<>>
      /\ cc \in Seq(Digit) /\ cc[1] # 0
      /\ Len(n) >= NationalLength /\ Len(n) < Len(cc) + NationalLength
  BY PhoneAssumption, EmptySeq, LenProperties DEF National
<1>2. /\ full \in Seq(Digit) /\ Len(full) = Len(cc) + Len(n)
      /\ \A i \in 1 .. Len(cc) + Len(n) :
           full[i] = IF i <= Len(cc) THEN cc[i] ELSE n[i - Len(cc)]
  BY <1>1, ConcatProperties
<1>3. /\ full # <<>> /\ full[1] # 0
      /\ StartsWith(full, cc)
  <2>1. full[1] = cc[1]
    BY <1>1, <1>2
  <2>2. full # <<>>
    BY <1>1, <1>2, EmptySeq
  <2>3. StartsWith(full, cc)
    BY <1>1, <1>2 DEF StartsWith
  <2> QED BY <1>1, <2>1, <2>2, <2>3
<1>4. SanityCheck(full) = full
  <2>1. Len(full) \in MinDigits .. MaxDigits
    BY <1>1, <1>2, PhoneAssumption
  <2> QED BY <2>1 DEF SanityCheck
<1>5. HasCountryCode(full) /\ ~HasCountryCode(n)
  BY <1>1, <1>2, <1>3, PhoneAssumption DEF HasCountryCode
<1>6. Local(full) = full /\ Local(n) = full
  BY <1>4, <1>5 DEF Local
<1>7. <<0>> \in Seq(Digit) /\ <<0, 0>> \in Seq(Digit)
      /\ Len(<<0>>) = 1 /\ Len(<<0, 0>>) = 2
      /\ <<0>>[1] = 0 /\ <<0, 0>>[1] = 0 /\ <<0, 0>>[2] = 0
  BY PhoneAssumption
<1>8. \A s : s[1] # 0 => ~StartsWith(s, <<0, 0>>)
  BY <1>7 DEF StartsWith
<1>9. CASE w = [plus |-> TRUE, glued |-> FALSE, digits |-> full]
  BY <1>9, <1>3, <1>4 DEF ToE164
<1>10. CASE w.plus = FALSE /\ w.digits = n
  <2>1. ~StartsWith(n, <<0, 0>>) /\ StripZeros(n) = n
    BY <1>1, <1>8, NoZerosStripped DEF National
  <2> QED BY <1>10, <2>1, <1>1, <1>6 DEF ToE164
<1>11. CASE w.plus = FALSE /\ w.digits = <<0>> \o n
  <2> DEFINE zn == <<0>> \o n
  <2>1. /\ Len(zn) = 1 + Len(n)
        /\ \A i \in 1 .. 1 + Len(n) : zn[i] = IF i <= 1 THEN <<0>>[i] ELSE n[i - 1]
    BY <1>7, ConcatProperties
  <2>2. zn[2] = n[1] /\ zn # <<>>
    BY <1>1, <2>1, EmptySeq
  <2>3. ~StartsWith(zn, <<0, 0>>)
    BY <2>2, <1>7 DEF StartsWith, National
  <2>4. StripZeros(zn) = n
    <3>1. \A i \in 1 .. Len(<<0>>) : <<0>>[i] = 0
      BY <1>7
    <3>2. n[1] # 0
      BY DEF National
    <3> QED BY <1>1, <1>7, <3>1, <3>2, ZerosStripped
  <2> HIDE DEF zn
  <2>5. w.plus = FALSE /\ w.digits = zn
    BY <1>11 DEF zn
  <2> QED BY <2>5, <2>2, <2>3, <2>4, <1>6 DEF ToE164
<1>12. CASE w.plus = FALSE /\ w.digits = full
  <2>1. ~StartsWith(full, <<0, 0>>) /\ StripZeros(full) = full
    BY <1>2, <1>3, <1>8, NoZerosStripped
  <2> QED BY <1>12, <2>1, <1>3, <1>6 DEF ToE164
<1>13. CASE /\ w.plus = FALSE /\ w.glued \in BOOLEAN
            /\ w.digits = <<0, 0>> \o cc \o n
  <2> DEFINE zf == <<0, 0>> \o full
  <2>1. <<0, 0>> \o cc \o n = zf
    BY <1>1, <1>7, ConcatAssociative
  <2>2. zf \in Seq(Digit) /\ Len(zf) = 2 + Len(full) /\ Len(full) \in Nat \ {0}
    BY <1>1, <1>2, <1>7, ConcatProperties
  <2>3. SubSeq(zf, 3, Len(zf)) = full
    <3>1. SubSeq(zf, 3, Len(zf)) = SubSeq(full, 3 - 2, Len(zf) - 2)
      BY <1>2, <1>7, <2>2, SubSeqOfConcat2
    <3>2. SubSeq(full, 1, Len(full)) = full
      BY <1>2, SubSeqFull
    <3>3. Len(zf) - 2 = Len(full) /\ 3 - 2 = 1
      BY <2>2
    <3> QED BY <3>1, <3>2, <3>3
  <2>4. StripZeros(zf) = full
    <3>1. \A i \in 1 .. Len(<<0, 0>>) : <<0, 0>>[i] = 0
      BY <1>7
    <3> QED BY <1>2, <1>3, <1>7, <3>1, ZerosStripped
  <2>5. zf # <<>>
    BY <2>2, EmptySeq
  <2> HIDE DEF zf
  <2>6. w.plus = FALSE /\ w.digits = zf
    BY <1>13, <2>1
  <2>7. From(zf, 3) = full
    BY <2>3 DEF From
  <2>8. ToE164(w) = full
    <3> HIDE DEF full
    <3> QED BY <2>4, <2>5, <2>6, <2>7, <1>3, <1>4, <1>6 DEF ToE164
  <2> QED BY <2>8
<1>14. \/ w = [plus |-> TRUE, glued |-> FALSE, digits |-> full]
       \/ /\ w.plus = FALSE /\ w.glued \in BOOLEAN
          /\ w.digits \in {n, <<0>> \o n, full, <<0, 0>> \o cc \o n}
  BY DEF Writings
<1> QED BY <1>9, <1>10, <1>11, <1>12, <1>13, <1>14

\* What is written around no number at all gives none: a country code alone, also
\* twice, is too short.
LEMMA NoNumberNoPhone ==
  ASSUME NEW w \in Writings(<<>>)
  PROVE  ToE164(w) = None
<1> DEFINE cc == CountryCode
<1>1. /\ cc \in Seq(Digit) /\ Len(cc) \in Nat \ {0} /\ cc # <<>> /\ cc[1] # 0
      /\ 2 * Len(cc) < MinDigits /\ MinDigits \in Nat /\ MaxDigits \in Nat
      /\ NationalLength \in Nat \ {0} /\ 0 \in Digit
  BY PhoneAssumption, EmptySeq, LenProperties
<1>2. <<>> \in Seq(Digit) /\ Len(<<>>) = 0 /\ <<0>> \o <<>> = <<0>> /\ cc \o <<>> = cc
  BY <1>1, EmptySeq, ConcatEmptySeq
<1>3. /\ <<0>> \in Seq(Digit) /\ <<0, 0>> \in Seq(Digit)
      /\ Len(<<0>>) = 1 /\ Len(<<0, 0>>) = 2
      /\ <<0>>[1] = 0 /\ <<0, 0>>[1] = 0 /\ <<0, 0>>[2] = 0
  BY <1>1
<1>4. SanityCheck(cc) = None
  BY <1>1 DEF SanityCheck, None
<1>5. Local(<<>>) = None
  <2>1. ~HasCountryCode(<<>>)
    BY <1>1, <1>2 DEF HasCountryCode, StartsWith
  <2> QED BY <1>2, <1>4, <2>1 DEF Local
<1>6. Local(cc) = None
  <2>1. ~HasCountryCode(cc)
    BY <1>1 DEF HasCountryCode
  <2>2. cc \o cc \in Seq(Digit) /\ Len(cc \o cc) = 2 * Len(cc)
    BY <1>1, ConcatProperties
  <2>3. SanityCheck(cc \o cc) = None
    BY <1>1, <2>2 DEF SanityCheck, None
  <2> QED BY <2>1, <2>3 DEF Local
<1>7. CASE w = [plus |-> TRUE, glued |-> FALSE, digits |-> cc]
  BY <1>1, <1>4, <1>7 DEF ToE164
<1>8. CASE w.plus = FALSE /\ w.digits = <<>>
  BY <1>8 DEF ToE164, From, StartsWith
<1>9. CASE w.plus = FALSE /\ w.digits = <<0>>
  <2>1. ~StartsWith(<<0>>, <<0, 0>>)
    BY <1>3 DEF StartsWith
  <2>2. StripZeros(<<0>>) = <<>>
    BY <1>3 DEF StripZeros
  <2>3. <<0>> # <<>>
    OBVIOUS
  <2> QED BY <1>5, <1>9, <2>1, <2>2, <2>3 DEF ToE164
<1>a. CASE w.plus = FALSE /\ w.digits = cc
  <2>1. ~StartsWith(cc, <<0, 0>>) /\ StripZeros(cc) = cc
    BY <1>1, <1>3, NoZerosStripped DEF StartsWith
  <2> QED BY <1>1, <1>6, <1>a, <2>1 DEF ToE164
<1>b. CASE w.plus = FALSE /\ w.digits = <<0, 0>> \o cc
  <2> DEFINE zc == <<0, 0>> \o cc
  <2>1. zc \in Seq(Digit) /\ Len(zc) = 2 + Len(cc)
    BY <1>1, <1>3, ConcatProperties
  <2>2. From(zc, 3) = cc
    <3>1. SubSeq(zc, 3, Len(zc)) = SubSeq(cc, 3 - 2, Len(zc) - 2)
      BY <1>1, <1>3, <2>1, SubSeqOfConcat2
    <3>2. SubSeq(cc, 1, Len(cc)) = cc
      BY <1>1, SubSeqFull
    <3>3. Len(zc) - 2 = Len(cc) /\ 3 - 2 = 1
      BY <1>1, <2>1
    <3> QED BY <3>1, <3>2, <3>3 DEF From
  <2>3. StripZeros(zc) = cc
    <3>1. \A i \in 1 .. Len(<<0, 0>>) : <<0, 0>>[i] = 0
      BY <1>3
    <3> QED BY <1>1, <1>3, <3>1, ZerosStripped
  <2>4. zc # <<>>
    BY <1>1, <2>1, EmptySeq
  <2>5. w.plus = FALSE /\ w.digits = zc
    BY <1>b
  <2> HIDE DEF zc
  <2> QED BY <1>1, <1>4, <1>6, <2>2, <2>3, <2>4, <2>5 DEF ToE164
<1>c. \/ w = [plus |-> TRUE, glued |-> FALSE, digits |-> cc]
      \/ w.plus = FALSE /\ w.digits \in {<<>>, <<0>>, cc, <<0, 0>> \o cc}
  <2>1. <<0, 0>> \o cc \o <<>> = <<0, 0>> \o cc
    BY <1>1, <1>3, ConcatEmptySeq, ConcatProperties
  <2> QED BY <1>2, <2>1 DEF Writings
<1> QED BY <1>7, <1>8, <1>9, <1>a, <1>b, <1>c

\* Among two places of which the first gives no number, the second counts.
LEMMA SecondPlaceCounts ==
  ASSUME NEW v, NEW w, ToE164(v) = None, ToE164(w) # None
  PROVE  ExtractPhone(<<v, w>>) = ToE164(w)
<1> DEFINE places == <<v, w>>
           usable == {i \in DOMAIN places : ToE164(places[i]) # None}
<1>1. DOMAIN places = {1, 2} /\ places[1] = v /\ places[2] = w
  OBVIOUS
<1>2. usable = {2}
  BY <1>1
<1>3. (CHOOSE i \in usable : \A j \in usable : i <= j) = 2
  <2> HIDE DEF usable
  <2> QED BY <1>2
<1> QED BY <1>1, <1>2, <1>3 DEF ExtractPhone

-----------------------------------------------------------------------------
(* All inputs of PureFunctions. *)

\* The inputs are windows of well-typed texts with a minute of the day, and
\* sequences of digits.
InputOK == \/ /\ DOMAIN input = {"window", "cur"}
             /\ input.window \in Window /\ input.cur \in 0 .. Day - 1
           \/ DOMAIN input = {"number"} /\ input.number \in Seq(Digit)

LEMMA InputsOK == InputSpec => []InputOK
<1>1. AnyInput => InputOK
  <2> SUFFICES ASSUME AnyInput PROVE InputOK
    OBVIOUS
  <2>1. CASE input = [number |-> <<>>]
    BY <2>1, EmptySeq DEF InputOK
  <2>2. CASE input \in [window : [enabled : BOOLEAN, start : Texts, end : Texts],
                        cur : 0 .. Day - 1]
    <3>1. Texts \subseteq Nat \X Nat
      BY ClockAssumption DEF Texts
    <3>2. input.window \in Window
      BY <2>2, <3>1 DEF Window
    <3> QED BY <2>2, <3>2 DEF InputOK
  <2> QED BY <2>1, <2>2 DEF AnyInput
<1>2. InputOK /\ [NextInput]_input => InputOK'
  <2> SUFFICES ASSUME InputOK, [NextInput]_input PROVE InputOK'
    OBVIOUS
  <2>1. CASE NextMinute
    <3>1. /\ DOMAIN input = {"window", "cur"}
          /\ input.window \in Window /\ input.cur \in 0 .. Day - 1
      BY <2>1 DEF InputOK, NextMinute
    <3>2. /\ DOMAIN input' = {"window", "cur"} /\ input'.window = input.window
          /\ input'.cur = MinuteAfter(input.cur, 1)
      BY <2>1, <3>1 DEF NextMinute
    <3>3. MinuteAfter(input.cur, 1) \in 0 .. Day - 1
      BY <3>1, DayIsPositive DEF MinuteAfter
    <3> QED BY <3>1, <3>2, <3>3 DEF InputOK
  <2>2. CASE Write
    <3>1. input.number \in Seq(Digit)
      BY <2>2 DEF InputOK, Write
    <3>2. PICK d \in Digit : input' = [number |-> Append(input.number, d)]
      BY <2>2 DEF Write
    <3>3. Append(input.number, d) \in Seq(Digit)
      BY <3>1
    <3> QED BY <3>2, <3>3 DEF InputOK
  <2>3. CASE UNCHANGED input
    BY <2>3 DEF InputOK
  <2> QED BY <2>1, <2>2, <2>3 DEF NextInput
<1> QED BY <1>1, <1>2, PTL DEF InputSpec

\* quietHours.js, for a day of any length: nextWindowEnd is the first minute that
\* is not quiet.
THEOREM WindowEndIsExact == InputSpec => []NextWindowEndIsFirstFreeMinute
<1>1. InputOK => NextWindowEndIsFirstFreeMinute
  <2> SUFFICES ASSUME InputOK, "cur" \in DOMAIN input, IsQuietNow(input.window, input.cur)
               PROVE  LET d == NextWindowEnd(input.window, input.cur)
                      IN /\ d \in 1 .. Day
                         /\ ~IsQuietNow(input.window, MinuteAfter(input.cur, d))
                         /\ \A i \in 0 .. d - 1 :
                              IsQuietNow(input.window, MinuteAfter(input.cur, i))
    BY DEF NextWindowEndIsFirstFreeMinute
  <2>1. input.window \in Window /\ input.cur \in 0 .. Day - 1
    BY DEF InputOK
  <2> QED BY <2>1, WindowEndIsFirstFreeMinute
<1> QED BY <1>1, InputsOK, PTL

\* A window and the one with its ends exchanged share out a day of any length.
THEOREM WindowsShareTheDay == InputSpec => []SwappedWindowIsComplement
<1>1. InputOK => SwappedWindowIsComplement
  <2> SUFFICES ASSUME InputOK, "cur" \in DOMAIN input, Usable(input.window)
               PROVE  IsQuietNow(input.window, input.cur) <=>
                        ~IsQuietNow([input.window EXCEPT !.start = input.window.end,
                                                         !.end = input.window.start],
                                    input.cur)
    BY DEF SwappedWindowIsComplement
  <2>1. input.window \in Window /\ input.cur \in 0 .. Day - 1
    BY DEF InputOK
  <2> QED BY <2>1, SwappedWindow
<1> QED BY <1>1, InputsOK, PTL

\* phone.js, for every country code of the lengths there are: all ways to write a
\* national number of the usual length are one number, wherever it stands.
THEOREM WritingsAgree == InputSpec => []AllWritingsAgree
<1>1. InputOK => AllWritingsAgree
  <2> SUFFICES ASSUME InputOK, "number" \in DOMAIN input, National(input.number),
                      NEW w \in Writings(input.number), NEW other \in Writings(<<>>)
               PROVE  ExtractPhone(<<other, w>>) = CountryCode \o input.number
    BY DEF AllWritingsAgree
  <2>1. input.number \in Seq(Digit)
    BY DEF InputOK
  <2>2. ToE164(w) = CountryCode \o input.number
    BY <2>1, EveryWritingIsOneNumber
  <2>3. CountryCode \o input.number # None
    <3>1. /\ CountryCode \in Seq(Digit) /\ Len(CountryCode) \in Nat \ {0}
      BY PhoneAssumption, EmptySeq, LenProperties
    <3>2. Len(CountryCode \o input.number) = Len(CountryCode) + Len(input.number)
      BY <2>1, <3>1, ConcatProperties
    <3> QED BY <2>1, <3>1, <3>2, EmptySeq DEF None
  <2> QED BY <2>2, <2>3, NoNumberNoPhone, SecondPlaceCounts
<1> QED BY <1>1, InputsOK, PTL
=============================================================================
