----------------------- MODULE ResultWriteBackProofs -----------------------
(***************************************************************************)
(* Proofs about ResultWriteBack, for any sessions, orders, analyses,         *)
(* handlers and regimes.                                                    *)
(***************************************************************************)
EXTENDS ResultWriteBack, TLAPS

LEMMA TaskTyped ==
  ASSUME TypeOK, NEW t \in TaskId, Active(t)
  PROVE  /\ task[t] \in Task
         /\ task[t].pc \in Pc /\ task[t].session \in Session /\ task[t].event \in Event
         /\ task[t].kind \in {"cod", "order"} /\ task[t].found \in BOOLEAN
         /\ task[t].read \subseteq Line \cup {MerchantLine}
         /\ OrderOfTask(t) \in Order
<1>1. task[t] \in Task
  BY DEF TypeOK, Active, Idle
<1> QED
  BY <1>1, WriteBackAssumption DEF Task, OrderOfTask

\* Metafields hold what a handler may write.
LEMMA ValuesTyped ==
  /\ \A s \in Session, e \in Event : CodValueOf(s, e) \in CodValue
  /\ CodValue \cap {None} = {} /\ Event \cap {None} = {}
BY DEF CodValueOf, ReadDisposition, CodValue, Event, None

\* The line a handler writes is a line.
LEMMA LineTyped ==
  ASSUME TypeOK, NEW t \in TaskId, Active(t)
  PROVE  LineOf(t) \in Line
BY TaskTyped DEF LineOf, Line

-----------------------------------------------------------------------------
(* What the requests of a handler do. *)

\* Every request leaves the handler at its work for the same event, or ends it, and
\* leaves the other handlers alone; no mapping comes, and only its own goes.
Moves(t) == /\ \/ task'[t] = Idle
               \/ /\ task'[t] \in Task
                  /\ task'[t].session = task[t].session
                  /\ task'[t].event = task[t].event /\ task'[t].kind = task[t].kind
            /\ \A u \in TaskId \ {t} : task'[u] = task[u]
            /\ task' \in [TaskId -> {Idle} \cup Task]
            /\ callMap' = callMap \/ callMap' = callMap \ {task[t].session}
            /\ UNCHANGED <<regime, phase, answered, deliveries>>

LEMMA GetNotesEffect ==
  ASSUME TypeOK, NEW t \in TaskId, GetNotes(t)
  PROVE  /\ Active(t) /\ Moves(t)
         /\ task[t].pc = "getNotes" /\ task'[t].pc = "putNotes"
         /\ InTurn => task'[t].read = notes[OrderOfTask(t)]
         /\ UNCHANGED <<callMap, notes, meta, wrote>>
<1>1. Active(t) /\ task[t].pc = "getNotes"
  BY DEF GetNotes, Active
<1>2. PICK read \in {notes[OrderOfTask(t)]} \cup
                    (IF "readFails" \in regime.faults THEN {{}} ELSE {}) :
        task' = [task EXCEPT ![t].pc = "putNotes", ![t].read = read]
  BY DEF GetNotes
<1>3. read \subseteq Line \cup {MerchantLine} /\ (InTurn => read = notes[OrderOfTask(t)])
  BY <1>1, <1>2, TaskTyped DEF TypeOK, InTurn
<1> DEFINE w == [task[t] EXCEPT !.pc = "putNotes", !.read = read]
<1>4. /\ w \in Task /\ w.pc = "putNotes" /\ w.read = read /\ w.session = task[t].session
      /\ w.event = task[t].event /\ w.kind = task[t].kind
  BY <1>1, <1>3, TaskTyped DEF Task, Pc
<1>5. task' = [task EXCEPT ![t] = w]
  BY <1>2
<1> HIDE DEF w
<1>6. /\ task'[t] = w /\ \A u \in TaskId \ {t} : task'[u] = task[u]
      /\ task' \in [TaskId -> {Idle} \cup Task]
  BY <1>4, <1>5 DEF TypeOK
<1> QED
  BY <1>1, <1>3, <1>4, <1>6 DEF GetNotes, Moves

\* The step after the note.
AfterNote(t) == IF task[t].kind = "cod" THEN "getCod" ELSE "getLast"

LEMMA GotoEffect ==
  ASSUME TypeOK, NEW t \in TaskId, Active(t), NEW pc \in Pc, Goto(t, pc),
         UNCHANGED <<regime, phase, answered, deliveries, callMap>>
  PROVE  /\ Moves(t) /\ task'[t].pc = pc
         /\ task'[t].read = task[t].read /\ task'[t].found = task[t].found
<1> DEFINE w == [task[t] EXCEPT !.pc = pc]
<1>1. /\ w \in Task /\ w.pc = pc /\ w.session = task[t].session
      /\ w.event = task[t].event /\ w.kind = task[t].kind
      /\ w.read = task[t].read /\ w.found = task[t].found
  BY TaskTyped DEF Task
<1>2. task' = [task EXCEPT ![t] = w]
  BY DEF Goto
<1> HIDE DEF w
<1>3. /\ task'[t] = w /\ \A u \in TaskId \ {t} : task'[u] = task[u]
      /\ task' \in [TaskId -> {Idle} \cup Task]
  BY <1>1, <1>2 DEF TypeOK
<1> QED
  BY <1>1, <1>3 DEF Moves

LEMMA AbortEffect ==
  ASSUME TypeOK, NEW t \in TaskId, Abort(t), UNCHANGED <<regime, phase, answered, deliveries>>
  PROVE  Moves(t) /\ task'[t] = Idle /\ callMap' = callMap
BY DEF TypeOK, Abort, Moves

LEMMA FinishEffect ==
  ASSUME TypeOK, NEW t \in TaskId, Finish(t), UNCHANGED <<regime, phase, answered, deliveries>>
  PROVE  /\ Moves(t) /\ task'[t] = Idle
         /\ callMap' = IF task[t].event = "call.analyzed" THEN callMap \ {task[t].session}
                                                         ELSE callMap
BY DEF TypeOK, Finish, Cleanup, Moves

\* A note is added to what was read, where there is room.
LEMMA NotesWithEffect ==
  ASSUME TypeOK, NEW t \in TaskId, Active(t), notes' = NotesWith(t)
  PROVE  /\ notes' \in [Order -> SUBSET (Line \cup {MerchantLine})]
         /\ \A o \in Order \ {OrderOfTask(t)} : notes'[o] = notes[o]
         /\ notes'[OrderOfTask(t)] \subseteq task[t].read \cup {LineOf(t)}
         /\ task[t].read \subseteq notes'[OrderOfTask(t)]
BY TaskTyped, LineTyped DEF NotesWith, TypeOK

LEMMA PutNotesEffect ==
  ASSUME TypeOK, NEW t \in TaskId, PutNotes(t)
  PROVE  /\ Active(t) /\ Moves(t)
         /\ task[t].pc = "putNotes" /\ task'[t].pc = AfterNote(t)
         /\ task'[t].read = task[t].read
         /\ notes' = NotesWith(t)
         /\ wrote' = IF /\ LineOf(t) \in notes'[OrderOfTask(t)]
                        /\ task[t].event = "call.analyzed"
                       THEN wrote \cup {<<task[t].session, "note">>} ELSE wrote
         /\ UNCHANGED <<callMap, meta>>
<1>1. Active(t) /\ AfterNote(t) \in Pc
  BY DEF PutNotes, Active, AfterNote, Pc
<1> QED
  BY <1>1, GotoEffect DEF PutNotes, AfterNote, Record

LEMMA PutNotesFailsEffect ==
  ASSUME TypeOK, NEW t \in TaskId, PutNotesFails(t)
  PROVE  /\ Active(t) /\ Moves(t) /\ task[t].pc = "putNotes" /\ task'[t] = Idle
         /\ notes' \in {notes, NotesWith(t)} /\ "writeFails" \in regime.faults
         /\ UNCHANGED <<callMap, meta, wrote>>
BY AbortEffect DEF PutNotesFails, Active

LEMMA GetMetaEffect ==
  ASSUME TypeOK, NEW t \in TaskId, GetMeta(t)
  PROVE  /\ Active(t) /\ Moves(t) /\ task[t].pc \in {"getCod", "getLast"}
         /\ task'[t].pc = IF task[t].pc = "getCod" THEN "setCod" ELSE "setLast"
         /\ task'[t].read = task[t].read
         /\ InTurn => (task'[t].found <=> meta[OrderOfTask(t)][MetaKey(t)] # None)
         /\ UNCHANGED <<callMap, notes, meta, wrote>>
<1>1. Active(t) /\ task[t].pc \in {"getCod", "getLast"}
  BY DEF GetMeta, Active
<1> DEFINE there == meta[OrderOfTask(t)][MetaKey(t)] # None
           pc == IF task[t].pc = "getCod" THEN "setCod" ELSE "setLast"
<1>2. PICK found \in {there} \cup (IF "readFails" \in regime.faults THEN {FALSE} ELSE {}) :
        task' = [task EXCEPT ![t].found = found,
                   ![t].pc = IF @ = "getCod" THEN "setCod" ELSE "setLast"]
  BY DEF GetMeta
<1>3. found \in BOOLEAN /\ (InTurn => (found <=> there))
  BY <1>2 DEF InTurn
<1> DEFINE w == [task[t] EXCEPT !.found = found, !.pc = pc]
<1>4. /\ w \in Task /\ w.pc = pc /\ w.found = found /\ w.session = task[t].session
      /\ w.read = task[t].read
      /\ w.event = task[t].event /\ w.kind = task[t].kind
  BY <1>1, <1>3, TaskTyped DEF Task, Pc
<1>5. task' = [task EXCEPT ![t] = w]
  BY <1>2
<1> HIDE DEF w, there
<1>6. /\ task'[t] = w /\ \A u \in TaskId \ {t} : task'[u] = task[u]
      /\ task' \in [TaskId -> {Idle} \cup Task]
  BY <1>4, <1>5 DEF TypeOK
<1> QED
  BY <1>1, <1>3, <1>4, <1>6 DEF GetMeta, Moves, there

\* A handler writes one metafield of its order.
LEMMA MetaWithEffect ==
  ASSUME TypeOK, NEW t \in TaskId, Active(t), task[t].pc \in {"setCod", "setLast"},
         meta' = MetaWith(t)
  PROVE  /\ meta' \in [Order -> [Key -> CodValue \cup Event \cup {None}]]
         /\ \A o \in Order, k \in Key :
              meta'[o][k] = IF o = OrderOfTask(t) /\ k = MetaKey(t) THEN MetaValue(t)
                                                                  ELSE meta[o][k]
<1>1. MetaKey(t) \in Key /\ MetaValue(t) \in CodValue \cup Event /\ OrderOfTask(t) \in Order
  BY TaskTyped, ValuesTyped DEF MetaKey, MetaValue, Key
<1> QED
  BY <1>1 DEF MetaWith, TypeOK

LEMMA SetMetaEffect ==
  ASSUME TypeOK, NEW t \in TaskId, SetMeta(t)
  PROVE  /\ Active(t) /\ Moves(t) /\ meta' = MetaWith(t)
         /\ \/ /\ task[t].pc = "setCod" /\ task'[t].pc = "getLast"
               /\ task'[t].read = task[t].read
               /\ wrote' = IF task[t].event = "call.analyzed"
                             THEN wrote \cup {<<task[t].session, "cod">>} ELSE wrote
               /\ callMap' = callMap
            \/ /\ task[t].pc = "setLast" /\ task'[t] = Idle /\ wrote' = wrote
               /\ callMap' = IF task[t].event = "call.analyzed"
                               THEN callMap \ {task[t].session} ELSE callMap
         /\ notes' = notes
<1>1. Active(t)
  BY DEF SetMeta, Active
<1>2. "getLast" \in Pc
  BY DEF Pc
<1>3. CASE task[t].pc = "setCod"
  BY <1>1, <1>2, <1>3, GotoEffect DEF SetMeta, Record
<1>4. CASE task[t].pc = "setLast"
  BY <1>1, <1>4, FinishEffect DEF SetMeta
<1> QED
  BY <1>3, <1>4 DEF SetMeta

LEMMA SetMetaFailsEffect ==
  ASSUME TypeOK, NEW t \in TaskId, SetMetaFails(t)
  PROVE  /\ Active(t) /\ Moves(t) /\ task'[t] = Idle
         /\ task[t].pc \in {"setCod", "setLast"}
         /\ Conflict(t) \/ "writeFails" \in regime.faults
         /\ meta' \in {meta, MetaWith(t)}
         /\ \/ callMap' = callMap
            \/ /\ task[t].pc = "setLast" /\ task[t].event = "call.analyzed"
               /\ callMap' = callMap \ {task[t].session}
         /\ UNCHANGED <<notes, wrote>>
<1>1. Active(t) /\ UNCHANGED <<regime, phase, answered, deliveries>>
  BY DEF SetMetaFails, Active
<1>2. CASE task[t].pc = "setCod"
  BY <1>1, <1>2, AbortEffect DEF SetMetaFails
<1>3. CASE task[t].pc = "setLast"
  BY <1>1, <1>3, FinishEffect DEF SetMetaFails
<1> QED
  BY <1>2, <1>3 DEF SetMetaFails

\* A request writes on the order of its handler only.
LEMMA StepEffect ==
  ASSUME TypeOK, NEW t \in TaskId, Step(t)
  PROVE  /\ Active(t) /\ Moves(t) /\ TypeOK'
         /\ \A o \in Order \ {OrderOfTask(t)} :
              notes'[o] = notes[o] /\ \A k \in Key : meta'[o][k] = meta[o][k]
         /\ wrote \subseteq wrote'
<1>1. Active(t) /\ Moves(t)
  BY GetNotesEffect, PutNotesEffect, PutNotesFailsEffect, GetMetaEffect, SetMetaEffect,
     SetMetaFailsEffect DEF Step
<1>2. /\ regime' \in Regimes /\ phase' \in [Session -> {"calling", "ended", "analyzed"}]
      /\ answered' \subseteq Session /\ callMap' \subseteq answered'
      /\ task' \in [TaskId -> {Idle} \cup Task] /\ deliveries' \in Nat
  BY <1>1 DEF Moves, TypeOK
<1>3. /\ notes' = notes \/ notes' = NotesWith(t)
      /\ \/ meta' = meta
         \/ meta' = MetaWith(t) /\ task[t].pc \in {"setCod", "setLast"}
      /\ wrote \subseteq wrote' /\ wrote' \subseteq wrote \cup ({task[t].session} \X {"note", "cod"})
  <2>1. CASE GetNotes(t)
    BY <2>1, GetNotesEffect
  <2>2. CASE PutNotes(t)
    BY <2>2, PutNotesEffect
  <2>3. CASE PutNotesFails(t)
    BY <2>3, PutNotesFailsEffect
  <2>4. CASE GetMeta(t)
    BY <2>4, GetMetaEffect
  <2>5. CASE SetMeta(t)
    BY <2>5, SetMetaEffect
  <2>6. CASE SetMetaFails(t)
    BY <2>6, SetMetaFailsEffect
  <2> QED
    BY <2>1, <2>2, <2>3, <2>4, <2>5, <2>6 DEF Step
<1>4. wrote' \subseteq Session \X {"note", "cod"}
  BY <1>1, <1>3, TaskTyped DEF TypeOK
<1>5. /\ notes' \in [Order -> SUBSET (Line \cup {MerchantLine})]
      /\ \A o \in Order \ {OrderOfTask(t)} : notes'[o] = notes[o]
  BY <1>1, <1>3, NotesWithEffect DEF TypeOK
<1>6. /\ meta' \in [Order -> [Key -> CodValue \cup Event \cup {None}]]
      /\ \A o \in Order \ {OrderOfTask(t)}, k \in Key : meta'[o][k] = meta[o][k]
  <2>1. CASE meta' = meta
    BY <2>1 DEF TypeOK
  <2>2. CASE meta' = MetaWith(t) /\ task[t].pc \in {"setCod", "setLast"}
    BY <1>1, <2>2, MetaWithEffect
  <2> QED
    BY <1>3, <2>1, <2>2
<1> QED
  BY <1>1, <1>2, <1>3, <1>4, <1>5, <1>6 DEF TypeOK

\* A delivery starts a handler that knows what callMap knows, or is only cleaned up.
LEMMA DeliverEffect ==
  ASSUME TypeOK, NEW s \in Session, NEW e \in Event, NEW t \in TaskId, Deliver(s, e, t)
  PROVE  /\ ~Active(t) /\ phase[s] # "calling"
         /\ regime.overlap \/ \A u \in TaskId : Active(u) => OrderOfTask(u) # OrderOf[s]
         /\ \/ /\ Automation[s] = "cart" /\ task' = task
               /\ callMap' = callMap \/ callMap' = callMap \ {s}
            \/ /\ KindOf(s) \in {"cod", "order"}
               /\ task'[t].pc = "getNotes" /\ task'[t].session = s
               /\ task'[t].event = e /\ task'[t].kind = KindOf(s) /\ task'[t].read = {}
               /\ callMap' = callMap
         /\ \A u \in TaskId \ {t} : task'[u] = task[u]
         /\ task' \in [TaskId -> {Idle} \cup Task]
         /\ deliveries' \in Nat
         /\ UNCHANGED <<regime, phase, answered, notes, meta, wrote>>
<1>1. ~Active(t) /\ phase[s] # "calling" /\ deliveries' \in Nat
  BY DEF Deliver, Sent, TypeOK
<1>2. CASE KindOf(s) = "cart"
  <2>1. Automation[s] = "cart"
    BY <1>2 DEF KindOf
  <2> QED
    BY <1>1, <1>2, <2>1 DEF Deliver, Cleanup, TypeOK
<1>3. CASE KindOf(s) # "cart"
  <2>1. KindOf(s) \in {"cod", "order"}
    BY <1>3, WriteBackAssumption DEF KindOf
  <2> DEFINE w == [pc |-> "getNotes", session |-> s, event |-> e,
                   kind |-> KindOf(s), read |-> {}, found |-> FALSE]
  <2>2. w \in Task
    BY <2>1 DEF Task, Pc
  <2>3. task' = [task EXCEPT ![t] = w] /\ callMap' = callMap
    BY <1>3 DEF Deliver
  <2>4. /\ w.pc = "getNotes" /\ w.session = s /\ w.event = e /\ w.kind = KindOf(s)
        /\ w.read = {}
    OBVIOUS
  <2> HIDE DEF w
  <2>5. /\ task'[t] = w /\ \A u \in TaskId \ {t} : task'[u] = task[u]
        /\ task' \in [TaskId -> {Idle} \cup Task]
    BY <2>2, <2>3 DEF TypeOK
  <2> QED
    BY <1>1, <2>1, <2>3, <2>4, <2>5 DEF Deliver
<1> QED
  BY <1>2, <1>3

\* The other steps leave the handlers alone, or end them all.
LEMMA QuietEffect ==
  ASSUME TypeOK, \/ \E s \in Session : MapCall(s) \/ CallEnds(s) \/ CallAnalyzed(s)
                 \/ Crash \/ UNCHANGED vars
  PROVE  /\ TypeOK'
         /\ task' = task \/ ("crash" \in regime.faults /\ task' = [t \in TaskId |-> Idle])
         /\ answered \subseteq answered' /\ answered' \ callMap' \subseteq answered \ callMap
         /\ callMap' \cap answered \subseteq callMap
         /\ UNCHANGED <<regime, notes, meta, wrote>>
<1>1. CASE \E s \in Session : MapCall(s)
  BY <1>1 DEF MapCall, TypeOK
<1>2. CASE \E s \in Session : CallEnds(s) \/ CallAnalyzed(s)
  BY <1>2 DEF CallEnds, CallAnalyzed, TypeOK
<1>3. CASE Crash
  BY <1>3 DEF Crash, TypeOK
<1>4. CASE UNCHANGED vars
  BY <1>4 DEF vars, TypeOK
<1> QED
  BY <1>1, <1>2, <1>3, <1>4

LEMMA NextSplits ==
  ASSUME [Next]_vars
  PROVE  \/ \E t \in TaskId : Step(t)
         \/ \E s \in Session, e \in Event, t \in TaskId : Deliver(s, e, t)
         \/ \/ \E s \in Session : MapCall(s) \/ CallEnds(s) \/ CallAnalyzed(s)
            \/ Crash \/ UNCHANGED vars
BY DEF Next

LEMMA StillAtWork ==
  ASSUME NEW t \in TaskId, Active(t), Moves(t), NEW u \in TaskId, task'[u].pc # "idle"
  PROVE  /\ Active(u) /\ (u # t => task'[u] = task[u])
         /\ task'[u].session = task[u].session /\ task'[u].event = task[u].event
         /\ task'[u].kind = task[u].kind
         /\ OrderOf[task'[u].session] = OrderOfTask(u)
BY DEF Active, Moves, Idle, OrderOfTask

LEMMA IdleIsIdle ==
  ASSUME task' = [t \in TaskId |-> Idle]
  PROVE  \A t \in TaskId : ~Active(t)' /\ task'[t].pc = "idle"
BY DEF Active, Idle

-----------------------------------------------------------------------------
(* A handler is alone with its order, and knows its call. *)

LEMMA HandlersInit ==
  ASSUME Init
  PROVE  HandlersInv /\ \A t \in TaskId : ~Active(t)
<1>1. TypeOK
  BY WriteBackAssumption DEF Init, TypeOK, None
<1>2. \A t \in TaskId : ~Active(t) /\ task[t].pc = "idle"
  BY DEF Init, Active, Idle
<1>3. \A s \in Session : phase[s] = "calling"
  BY DEF Init
<1> QED
  BY <1>1, <1>2, <1>3 DEF HandlersInv, OneHandlerPerOrder, ReadIsCurrent, HandlersKnowTheirCall

LEMMA StepKeepsHandlers ==
  ASSUME HandlersInv, NEW t \in TaskId, Step(t)
  PROVE  HandlersInv'
<1>1. TypeOK /\ Active(t) /\ Moves(t) /\ TypeOK'
  BY StepEffect DEF HandlersInv
<1>2. OneHandlerPerOrder'
  BY <1>1, StillAtWork DEF HandlersInv, OneHandlerPerOrder, Moves, Active, OrderOfTask
<1>3. ReadIsCurrent'
  <2> SUFFICES ASSUME InTurn, NEW u \in TaskId, task'[u].pc # "idle"
               PROVE  /\ task'[u].pc = "putNotes" => task'[u].read = notes'[OrderOf[task'[u].session]]
                      /\ task'[u].pc \in {"setCod", "setLast"} =>
                           (task'[u].found <=> meta'[OrderOf[task'[u].session]][MetaKey(u)'] # None)
    BY <1>1 DEF ReadIsCurrent, InTurn, Moves, OrderOfTask
  <2>1. CASE u # t
    <3>1. Active(u) /\ task'[u] = task[u] /\ OrderOf[task'[u].session] = OrderOfTask(u)
      BY <1>1, <2>1, StillAtWork
    <3>2. OrderOfTask(u) \in Order \ {OrderOfTask(t)}
      BY <1>1, <2>1, <3>1, TaskTyped DEF HandlersInv, OneHandlerPerOrder, InTurn
    <3>3. MetaKey(u)' = MetaKey(u) /\ MetaKey(u) \in Key
      BY <3>1 DEF MetaKey, Key
    <3> QED
      BY <1>1, <3>1, <3>2, <3>3, StepEffect DEF HandlersInv, ReadIsCurrent
  <2>2. CASE u = t
    <3>1. OrderOf[task'[t].session] = OrderOfTask(t)
      BY <1>1, <2>2, StillAtWork
    <3>2. CASE GetNotes(t)
      BY <1>1, <2>2, <3>1, <3>2, GetNotesEffect
    <3>3. CASE PutNotes(t)
      BY <1>1, <2>2, <3>3, PutNotesEffect DEF AfterNote
    <3>4. CASE PutNotesFails(t) \/ SetMetaFails(t)
      BY <1>1, <2>2, <3>4, PutNotesFailsEffect, SetMetaFailsEffect DEF Idle
    <3>5. CASE GetMeta(t)
      <4>1. MetaKey(t)' = MetaKey(t)
        BY <1>1, <3>5, GetMetaEffect DEF MetaKey
      <4> QED
        BY <1>1, <2>2, <3>1, <3>5, <4>1, GetMetaEffect
    <3>6. CASE SetMeta(t)
      BY <1>1, <2>2, <3>6, SetMetaEffect DEF Idle
    <3> QED
      BY <3>2, <3>3, <3>4, <3>5, <3>6 DEF Step
  <2> QED
    BY <2>1, <2>2
<1>4. HandlersKnowTheirCall'
  <2>1. ~regime'.late => \A s \in Session : phase'[s] # "calling" => s \in answered'
    BY <1>1 DEF HandlersInv, HandlersKnowTheirCall, Moves
  <2> SUFFICES ASSUME NEW u \in TaskId, task'[u].pc # "idle"
               PROVE  /\ task'[u].pc \in {"getCod", "setCod"} => task'[u].kind = "cod"
                      /\ task'[u].kind = "cod" =>
                           Automation[task'[u].session] = "cod" /\ task'[u].session \in answered'
                      /\ Automation[task'[u].session] = "cod" /\ task'[u].kind = "order"
                           /\ ~regime'.late => task'[u].session \in answered' \ callMap'
    BY <2>1 DEF HandlersKnowTheirCall, Active
  <2>2. /\ Active(u) /\ task'[u].session = task[u].session /\ task'[u].kind = task[u].kind
        /\ u # t => task'[u] = task[u]
        /\ callMap' \subseteq callMap /\ answered' = answered /\ regime' = regime
    BY <1>1, StillAtWork DEF Moves
  <2>3. CASE u # t
    BY <2>2, <2>3 DEF HandlersInv, HandlersKnowTheirCall
  <2>4. CASE u = t
    <3>1. task'[t].pc \in {"getCod", "setCod"} => task[t].kind = "cod"
      <4>1. CASE GetNotes(t)
        BY <1>1, <4>1, GetNotesEffect
      <4>2. CASE PutNotes(t)
        BY <1>1, <4>2, PutNotesEffect DEF AfterNote
      <4>3. CASE PutNotesFails(t) \/ SetMetaFails(t)
        BY <1>1, <4>3, PutNotesFailsEffect, SetMetaFailsEffect DEF Idle
      <4>4. CASE GetMeta(t)
        BY <1>1, <2>2, <4>4, GetMetaEffect DEF HandlersInv, HandlersKnowTheirCall
      <4>5. CASE SetMeta(t)
        BY <1>1, <4>5, SetMetaEffect DEF Idle
      <4> QED
        BY <4>1, <4>2, <4>3, <4>4, <4>5 DEF Step
    <3>2. /\ task[t].kind = "cod" =>
               Automation[task[t].session] = "cod" /\ task[t].session \in answered
          /\ Automation[task[t].session] = "cod" /\ task[t].kind = "order"
               /\ ~regime.late => task[t].session \in answered \ callMap
      BY <2>2, <2>4 DEF HandlersInv, HandlersKnowTheirCall
    <3> QED
      BY <2>2, <2>4, <3>1, <3>2
  <2> QED
    BY <2>3, <2>4
<1> QED
  BY <1>1, <1>2, <1>3, <1>4 DEF HandlersInv

LEMMA DeliverKeepsHandlers ==
  ASSUME HandlersInv, NEW s \in Session, NEW e \in Event, NEW t \in TaskId, Deliver(s, e, t)
  PROVE  HandlersInv'
<1>1. /\ TypeOK /\ ~Active(t) /\ phase[s] # "calling" /\ callMap' \subseteq callMap
      /\ UNCHANGED <<regime, phase, answered, notes, meta, wrote>>
      /\ \A u \in TaskId \ {t} : task'[u] = task[u]
  BY DeliverEffect DEF HandlersInv
<1>2. TypeOK'
  BY <1>1, DeliverEffect DEF TypeOK
<1>3. \/ task' = task
      \/ /\ task'[t].pc = "getNotes" /\ task'[t].session = s /\ task'[t].kind = KindOf(s)
         /\ callMap' = callMap
  BY <1>1, DeliverEffect
<1>4. \A u \in TaskId : \/ task'[u] = task[u]
                        \/ /\ u = t /\ task'[u].pc = "getNotes" /\ task'[u].session = s
                           /\ task'[u].kind = KindOf(s) /\ callMap' = callMap
  BY <1>1, <1>3
<1>5. OneHandlerPerOrder'
  <2>1. regime.overlap \/ \A u \in TaskId : Active(u) => OrderOfTask(u) # OrderOf[s]
    BY <1>1, DeliverEffect
  <2> QED
    BY <1>1, <1>4, <2>1 DEF HandlersInv, OneHandlerPerOrder, OrderOfTask, Active
<1>6. ReadIsCurrent'
  BY <1>1, <1>4 DEF HandlersInv, ReadIsCurrent, OrderOfTask, MetaKey, InTurn
<1>7. HandlersKnowTheirCall'
  <2>1. KindOf(s) = "cod" => Automation[s] = "cod" /\ s \in answered
    BY <1>1 DEF KindOf, TypeOK
  <2>2. Automation[s] = "cod" /\ KindOf(s) = "order" /\ ~regime.late => s \in answered \ callMap
    BY <1>1 DEF KindOf, HandlersInv, HandlersKnowTheirCall
  <2> QED
    BY <1>1, <1>4, <2>1, <2>2 DEF HandlersInv, HandlersKnowTheirCall, Active
<1> QED
  BY <1>2, <1>5, <1>6, <1>7 DEF HandlersInv

LEMMA QuietKeepsHandlers ==
  ASSUME HandlersInv, \/ \E s \in Session : MapCall(s) \/ CallEnds(s) \/ CallAnalyzed(s)
                      \/ Crash \/ UNCHANGED vars
  PROVE  HandlersInv'
<1>1. /\ TypeOK /\ TypeOK' /\ answered \subseteq answered'
      /\ callMap' \cap answered \subseteq callMap
      /\ UNCHANGED <<regime, notes, meta>>
  BY QuietEffect DEF HandlersInv
<1>2. \A u \in TaskId : task'[u] = task[u] \/ task'[u].pc = "idle"
  BY <1>1, QuietEffect, IdleIsIdle
<1>3. OneHandlerPerOrder'
  BY <1>1, <1>2 DEF HandlersInv, OneHandlerPerOrder, OrderOfTask, Active
<1>4. ReadIsCurrent'
  BY <1>1, <1>2 DEF HandlersInv, ReadIsCurrent, OrderOfTask, MetaKey, InTurn
<1>5. HandlersKnowTheirCall'
  <2>1. ~regime.late => \A s \in Session : phase'[s] # "calling" => s \in answered'
    <3>1. CASE \E s \in Session : CallEnds(s) \/ CallAnalyzed(s)
      BY <1>1, <3>1 DEF CallEnds, CallAnalyzed, HandlersInv, HandlersKnowTheirCall, TypeOK
    <3>2. CASE (\E s \in Session : MapCall(s)) \/ Crash \/ UNCHANGED vars
      BY <1>1, <3>2 DEF MapCall, Crash, vars, HandlersInv, HandlersKnowTheirCall
    <3> QED
      BY <3>1, <3>2
  <2> QED
    BY <1>1, <1>2, <2>1 DEF HandlersInv, HandlersKnowTheirCall, Active
<1> QED
  BY <1>1, <1>3, <1>4, <1>5 DEF HandlersInv

LEMMA HandlersStep ==
  ASSUME HandlersInv, [Next]_vars
  PROVE  HandlersInv'
BY NextSplits, StepKeepsHandlers, DeliverKeepsHandlers, QuietKeepsHandlers

\* Whatever fails, crashes or overlaps, the state is typed; in turn a handler is alone
\* with its order and what it has read of it is current when it writes; and a handler
\* that writes telenow_cod works for a COD call it found mapped.
THEOREM HandlersAreSound == Spec => []HandlersInv
<1>1. Init => HandlersInv
  BY HandlersInit
<1>2. HandlersInv /\ [Next]_vars => HandlersInv'
  BY HandlersStep
<1> QED
  BY <1>1, <1>2, PTL DEF Spec

LEMMA SettledStep ==
  ASSUME HandlersInv, [Next]_vars, NEW s \in Session, Automation[s] = "cod", Settled(s)
  PROVE  /\ Settled(s)'
         /\ \/ meta'[OrderOf[s]]["telenow_cod"] = meta[OrderOf[s]]["telenow_cod"]
            \/ \E r \in Session \ {s}, t \in TaskId :
                 Active(t) /\ task[t].session = r /\ OrderOf[r] = OrderOf[s]
<1>1. TypeOK /\ OrderOf[s] \in Order /\ "telenow_cod" \in Key
  BY WriteBackAssumption DEF HandlersInv, Key
<1>2. CASE \E t \in TaskId : Step(t)
  <2>1. PICK t \in TaskId : Step(t)
    BY <1>2
  <2>2. /\ Active(t) /\ Moves(t)
        /\ \A o \in Order \ {OrderOfTask(t)}, k \in Key : meta'[o][k] = meta[o][k]
    BY <1>1, <2>1, StepEffect
  <2>3. Settled(s)'
    BY <2>2, StillAtWork DEF Settled, Active, Moves
  <2>4. CASE task[t].session # s
    <3>1. task[t].session \in Session
      BY <1>1, <2>2, TaskTyped
    <3> QED
      BY <1>1, <2>2, <2>3, <2>4, <3>1 DEF OrderOfTask
  <2>5. CASE task[t].session = s
    <3>1. task[t].pc \notin {"getCod", "setCod"}
      BY <2>2, <2>5 DEF Settled, HandlersInv, HandlersKnowTheirCall
    <3>2. meta' = meta \/ (meta' = MetaWith(t) /\ task[t].pc = "setLast")
      BY <1>1, <2>1, <3>1, GetNotesEffect, PutNotesEffect, PutNotesFailsEffect,
         GetMetaEffect, SetMetaEffect, SetMetaFailsEffect DEF Step
    <3>3. CASE meta' = MetaWith(t) /\ task[t].pc = "setLast"
      <4>1. MetaKey(t) = "last_call"
        BY <3>3 DEF MetaKey
      <4> QED
        BY <1>1, <2>2, <2>3, <3>3, <4>1, MetaWithEffect
    <3> QED
      BY <2>3, <3>2, <3>3
  <2> QED
    BY <2>4, <2>5
<1>3. CASE \E r \in Session, e \in Event, t \in TaskId : Deliver(r, e, t)
  <2>1. PICK r \in Session, e \in Event, t \in TaskId : Deliver(r, e, t)
    BY <1>3
  <2>2. /\ answered' = answered /\ meta' = meta /\ callMap' \subseteq callMap
        /\ \A u \in TaskId \ {t} : task'[u] = task[u]
        /\ task'[t] = task[t] \/ (task'[t].session = r /\ task'[t].kind = KindOf(r))
    BY <1>1, <2>1, DeliverEffect
  <2>3. r = s => KindOf(r) # "cod"
    BY DEF KindOf, Settled
  <2> QED
    BY <2>2, <2>3 DEF Settled, Active
<1>4. CASE \/ \E r \in Session : MapCall(r) \/ CallEnds(r) \/ CallAnalyzed(r)
           \/ Crash \/ UNCHANGED vars
  <2>1. /\ answered \subseteq answered' /\ callMap' \cap answered \subseteq callMap /\ meta' = meta
        /\ \A u \in TaskId : task'[u] = task[u] \/ task'[u].pc = "idle"
    BY <1>1, <1>4, QuietEffect, IdleIsIdle
  <2> QED
    BY <2>1 DEF Settled, Active
<1> QED
  BY <1>2, <1>3, <1>4, NextSplits

\* Whatever fails, crashes, overlaps or comes late: a settled COD call stays settled,
\* and only a handler of another call about the order moves its telenow_cod.
THEOREM SettledStands == Spec => SettledOutcomeStands
<1>1. HandlersInv /\ [Next]_vars =>
        \A s \in Session :
          Automation[s] = "cod" /\ Settled(s) =>
            /\ Settled(s)'
            /\ \/ meta'[OrderOf[s]]["telenow_cod"] = meta[OrderOf[s]]["telenow_cod"]
               \/ \E r \in Session \ {s}, t \in TaskId :
                    Active(t) /\ task[t].session = r /\ OrderOf[r] = OrderOf[s]
  BY SettledStep
<1> QED
  BY <1>1, HandlersAreSound, PTL DEF Spec, SettledOutcomeStands

\* In turn and with reads that answer, no step of any handler, nor a failed or a late
\* one, takes a line from an order's staff notes.
LEMMA NotesStep ==
  ASSUME HandlersInv, [Next]_vars, InTurn, NEW o \in Order
  PROVE  notes[o] \subseteq notes'[o]
<1>1. TypeOK
  BY DEF HandlersInv
<1>2. CASE \E t \in TaskId : Step(t)
  <2>1. PICK t \in TaskId : Step(t)
    BY <1>2
  <2>2. Active(t)
    BY <1>1, <2>1, StepEffect
  <2>3. \/ notes' = notes
        \/ notes' = NotesWith(t) /\ task[t].pc = "putNotes"
    BY <1>1, <2>1, GetNotesEffect, PutNotesEffect, PutNotesFailsEffect,
       GetMetaEffect, SetMetaEffect, SetMetaFailsEffect DEF Step
  <2>4. CASE notes' = NotesWith(t) /\ task[t].pc = "putNotes"
    <3>1. task[t].read = notes[OrderOfTask(t)]
      BY <2>4 DEF HandlersInv, ReadIsCurrent
    <3> QED
      BY <1>1, <2>2, <2>4, <3>1, NotesWithEffect
  <2> QED
    BY <2>3, <2>4
<1>3. CASE ~(\E t \in TaskId : Step(t))
  BY <1>1, <1>3, NextSplits, DeliverEffect, QuietEffect
<1> QED
  BY <1>2, <1>3

THEOREM NotesAreKept == Spec => NotesKept
<1>1. HandlersInv /\ [Next]_vars => (InTurn => \A o \in Order : notes[o] \subseteq notes'[o])
  BY NotesStep
<1> QED
  BY <1>1, HandlersAreSound, PTL DEF Spec, NotesKept

-----------------------------------------------------------------------------
(* What call.analyzed drops is written. *)

LEMMA LinesStep ==
  ASSUME TypeOK, LinesOfTheOrder, [Next]_vars
  PROVE  LinesOfTheOrder'
<1>1. CASE \E t \in TaskId : Step(t)
  <2>1. PICK t \in TaskId : Step(t)
    BY <1>1
  <2>2. /\ Active(t) /\ Moves(t) /\ OrderOfTask(t) \in Order
        /\ task[t].read \subseteq LinesAbout(OrderOfTask(t))
        /\ \A o \in Order \ {OrderOfTask(t)} : notes'[o] = notes[o]
    BY <2>1, StepEffect, TaskTyped DEF LinesOfTheOrder
  <2>3. LineOf(t) \in LinesAbout(OrderOfTask(t))
    BY <2>2, LineTyped DEF LinesAbout, LineOf, OrderOfTask
  <2>4. notes' = notes \/ notes' = NotesWith(t)
    BY <2>1, GetNotesEffect, PutNotesEffect, PutNotesFailsEffect, GetMetaEffect,
       SetMetaEffect, SetMetaFailsEffect DEF Step
  <2>5. \A o \in Order : notes'[o] \subseteq LinesAbout(o)
    BY <2>2, <2>3, <2>4, NotesWithEffect DEF LinesOfTheOrder
  <2>6. ASSUME task'[t].pc # "idle"
        PROVE  task'[t].read \subseteq LinesAbout(OrderOfTask(t))
    <3>1. CASE GetNotes(t)
      <4>1. task'[t].read \in {notes[OrderOfTask(t)], {}}
        BY <2>1, <3>1, <2>2 DEF GetNotes, Active, TypeOK
      <4> QED
        BY <2>2, <4>1 DEF LinesOfTheOrder
    <3>2. CASE PutNotes(t) \/ GetMeta(t) \/ SetMeta(t)
      <4>1. task'[t].read = task[t].read
        BY <2>6, <3>2, PutNotesEffect, GetMetaEffect, SetMetaEffect DEF Idle
      <4> QED
        BY <2>2, <4>1
    <3>3. CASE PutNotesFails(t) \/ SetMetaFails(t)
      BY <2>6, <3>3, PutNotesFailsEffect, SetMetaFailsEffect DEF Idle
    <3> QED
      BY <2>1, <3>1, <3>2, <3>3 DEF Step
  <2> QED
    BY <2>2, <2>5, <2>6, StillAtWork DEF LinesOfTheOrder, Active, OrderOfTask
<1>2. CASE \E s \in Session, e \in Event, t \in TaskId : Deliver(s, e, t)
  <2>1. PICK s \in Session, e \in Event, t \in TaskId : Deliver(s, e, t)
    BY <1>2
  <2>2. /\ notes' = notes
        /\ \A u \in TaskId : task'[u] = task[u] \/ task'[u].read = {}
    BY <2>1, DeliverEffect
  <2> QED
    BY <2>2 DEF LinesOfTheOrder, Active, OrderOfTask
<1>3. CASE \/ \E s \in Session : MapCall(s) \/ CallEnds(s) \/ CallAnalyzed(s)
           \/ Crash \/ UNCHANGED vars
  <2>1. /\ notes' = notes
        /\ \A u \in TaskId : task'[u] = task[u] \/ task'[u].pc = "idle"
    BY <1>3, QuietEffect, IdleIsIdle
  <2> QED
    BY <2>1 DEF LinesOfTheOrder, Active, OrderOfTask
<1> QED
  BY <1>1, <1>2, <1>3, NextSplits

LEMMA WrittenStep ==
  ASSUME RoomSuffices, HandlersInv, LinesOfTheOrder, WrittenOnTheWay, DroppedMeansWritten,
         [Next]_vars
  PROVE  WrittenOnTheWay' /\ DroppedMeansWritten'
<1>1. TypeOK
  BY DEF HandlersInv
<1>2. CASE \E t \in TaskId : Step(t)
  <2>1. PICK t \in TaskId : Step(t)
    BY <1>2
  <2>2. Active(t) /\ Moves(t) /\ wrote \subseteq wrote'
    BY <1>1, <2>1, StepEffect
  <2>3. /\ task[t].session \in Session /\ task[t].kind \in {"cod", "order"}
        /\ OrderOfTask(t) \in Order
    BY <1>1, <2>2, TaskTyped
  <2>4. ASSUME task'[t].pc # "idle", task[t].event = "call.analyzed"
        PROVE  /\ task'[t].pc \notin {"getNotes", "putNotes"} =>
                    <<task[t].session, "note">> \in wrote'
               /\ task'[t].pc \in {"getLast", "setLast"} /\ task[t].kind = "cod" =>
                    <<task[t].session, "cod">> \in wrote'
    <3>1. CASE GetNotes(t)
      BY <1>1, <3>1, GetNotesEffect
    <3>2. CASE PutNotes(t)
      <4>1. Cardinality(task[t].read) < Room
        BY <2>2, <2>3 DEF LinesOfTheOrder, RoomSuffices
      <4>2. LineOf(t) \in NotesWith(t)[OrderOfTask(t)]
        BY <1>1, <2>3, <4>1 DEF NotesWith, TypeOK
      <4>3. wrote' = wrote \cup {<<task[t].session, "note">>} /\ task'[t].pc = AfterNote(t)
        BY <1>1, <2>4, <3>2, <4>2, PutNotesEffect
      <4> QED
        BY <4>3 DEF AfterNote
    <3>3. CASE GetMeta(t)
      BY <1>1, <2>2, <2>4, <3>3, GetMetaEffect DEF WrittenOnTheWay
    <3>4. CASE SetMeta(t)
      BY <1>1, <2>2, <2>4, <3>4, SetMetaEffect DEF WrittenOnTheWay, Idle
    <3>5. CASE PutNotesFails(t) \/ SetMetaFails(t)
      BY <1>1, <2>4, <3>5, PutNotesFailsEffect, SetMetaFailsEffect DEF Idle
    <3> QED
      BY <2>1, <3>1, <3>2, <3>3, <3>4, <3>5 DEF Step
  <2>5. WrittenOnTheWay'
    BY <2>2, <2>4, StillAtWork DEF WrittenOnTheWay, Active
  <2>6. \/ callMap' = callMap
        \/ /\ callMap' = callMap \ {task[t].session}
           /\ task[t].pc = "setLast" /\ task[t].event = "call.analyzed"
    BY <1>1, <2>1, GetNotesEffect, PutNotesEffect, PutNotesFailsEffect, GetMetaEffect,
       SetMetaEffect, SetMetaFailsEffect DEF Step
  <2>7. ASSUME task[t].pc = "setLast", task[t].event = "call.analyzed",
               task[t].session \in callMap, ~regime.late
        PROVE  /\ <<task[t].session, "note">> \in wrote
               /\ Automation[task[t].session] = "cod" => <<task[t].session, "cod">> \in wrote
    <3>1. Automation[task[t].session] = "cod" => task[t].kind = "cod"
      BY <2>2, <2>3, <2>7 DEF HandlersInv, HandlersKnowTheirCall
    <3> QED
      BY <2>2, <2>7, <3>1 DEF WrittenOnTheWay
  <2>8. DroppedMeansWritten'
    BY <2>2, <2>6, <2>7 DEF DroppedMeansWritten, Moves
  <2> QED
    BY <2>5, <2>8
<1>3. CASE \E s \in Session, e \in Event, t \in TaskId : Deliver(s, e, t)
  <2>1. PICK s \in Session, e \in Event, t \in TaskId : Deliver(s, e, t)
    BY <1>3
  <2>2. /\ wrote' = wrote /\ answered' = answered /\ regime' = regime
        /\ callMap' = callMap \/ (Automation[s] = "cart" /\ callMap' = callMap \ {s})
        /\ \A u \in TaskId : task'[u] = task[u] \/ task'[u].pc = "getNotes"
    BY <1>1, <2>1, DeliverEffect
  <2> QED
    BY <2>2 DEF WrittenOnTheWay, DroppedMeansWritten, Active
<1>4. CASE \/ \E s \in Session : MapCall(s) \/ CallEnds(s) \/ CallAnalyzed(s)
           \/ Crash \/ UNCHANGED vars
  <2>1. /\ wrote' = wrote /\ regime' = regime
        /\ answered' \ callMap' \subseteq answered \ callMap
        /\ \A u \in TaskId : task'[u] = task[u] \/ task'[u].pc = "idle"
    BY <1>1, <1>4, QuietEffect, IdleIsIdle
  <2> QED
    BY <2>1 DEF WrittenOnTheWay, DroppedMeansWritten, Active
<1> QED
  BY <1>2, <1>3, <1>4, NextSplits

LEMMA LinesAreOfTheOrder == Spec => []LinesOfTheOrder
<1>1. Init => LinesOfTheOrder
  BY HandlersInit DEF Init, LinesOfTheOrder, LinesAbout
<1>2. HandlersInv /\ LinesOfTheOrder /\ [Next]_vars => LinesOfTheOrder'
  BY LinesStep DEF HandlersInv
<1> QED
  BY <1>1, <1>2, HandlersAreSound, PTL DEF Spec

\* While there is room for the lines of its calls on every order: a mapping goes only
\* after the outcome of its call was written, in spite of crashes, failing requests,
\* overlapping handlers and repeated deliveries.
THEOREM OutcomeBeforeDrop ==
  ASSUME RoomSuffices
  PROVE  Spec => [](WrittenOnTheWay /\ DroppedMeansWritten)
<1>1. Init => WrittenOnTheWay /\ DroppedMeansWritten
  BY HandlersInit DEF Init, WrittenOnTheWay, DroppedMeansWritten
<1>2. HandlersInv /\ LinesOfTheOrder /\ WrittenOnTheWay /\ DroppedMeansWritten /\ [Next]_vars
        => WrittenOnTheWay' /\ DroppedMeansWritten'
  BY WrittenStep
<1> QED
  BY <1>1, <1>2, HandlersAreSound, LinesAreOfTheOrder, PTL DEF Spec

-----------------------------------------------------------------------------
(* What the note says reaches the metafield. *)

ArrivesInv == AnalysisArrives /\ EndedComesBefore

\* A handler that does not move stays where it is.
LEMMA AnalysisStays ==
  ASSUME NEW s, NEW steps, NEW u \in TaskId, task'[u] = task[u],
         task[u].pc \in steps, task[u].session = s, task[u].event = "call.analyzed",
         task[u].kind = "cod"
  PROVE  AnalysisAt(s, steps)'
BY DEF AnalysisAt

\* Without failures a handler in turn meets no conflict: what it writes gets written.
LEMMA NoFailure ==
  ASSUME HandlersInv, NothingFails, NEW t \in TaskId
  PROVE  ~PutNotesFails(t) /\ ~SetMetaFails(t)
<1>1. ~PutNotesFails(t)
  BY DEF PutNotesFails, NothingFails
<1>2. ASSUME SetMetaFails(t) PROVE FALSE
  <2>1. task[t].pc \in {"setCod", "setLast"} /\ Conflict(t)
    BY <1>2 DEF SetMetaFails, NothingFails
  <2> QED
    BY <2>1 DEF Conflict, HandlersInv, ReadIsCurrent, NothingFails
<1> QED
  BY <1>1, <1>2

\* A new note of the analysis of a COD call is the note its handler writes.
LEMMA NoteOrigin ==
  ASSUME HandlersInv, NothingFails, NEW t \in TaskId, Step(t), NEW s \in Session,
         AnalysedNote(s)'
  PROVE  \/ AnalysedNote(s)
         \/ /\ PutNotes(t) /\ task[t].session = s /\ task[t].event = "call.analyzed"
            /\ task[t].kind = "cod"
<1>1. TypeOK /\ Active(t) /\ OrderOf[s] \in Order
  BY StepEffect, WriteBackAssumption DEF HandlersInv
<1>2. CASE PutNotes(t)
  <2>1. task[t].read = notes[OrderOfTask(t)]
    BY <1>1, <1>2, PutNotesEffect DEF HandlersInv, ReadIsCurrent, NothingFails
  <2>2. notes'[OrderOf[s]] \subseteq notes[OrderOf[s]] \cup {LineOf(t)}
    BY <1>1, <1>2, <2>1, PutNotesEffect, NotesWithEffect
  <2>3. AnalysedNote(s) \/ <<s, "call.analyzed", "cod">> = LineOf(t)
    BY <2>2 DEF AnalysedNote
  <2> QED
    BY <1>2, <2>3 DEF LineOf
<1>3. CASE ~PutNotes(t)
  <2>1. notes' = notes
    BY <1>1, <1>3, NoFailure, GetNotesEffect, GetMetaEffect, SetMetaEffect DEF Step
  <2> QED
    BY <2>1 DEF AnalysedNote
<1> QED
  BY <1>2, <1>3

\* What AnalysisArrives says of one call.
Arrived(s) ==
  /\ s \in answered /\ Automation[s] = "cod"
  /\ \/ AnalysisAt(s, {"getCod", "setCod"})
     \/ /\ meta[OrderOf[s]]["telenow_cod"] = CodValueOf(s, "call.analyzed")
        /\ s \in callMap => AnalysisAt(s, {"getLast", "setLast"})

LEMMA StepArrives ==
  ASSUME OneCodCall, HandlersInv, NothingFails, ArrivesInv, NEW t \in TaskId, Step(t),
         NEW s \in Session, AnalysedNote(s)'
  PROVE  Arrived(s)'
<1>1. /\ TypeOK /\ Active(t) /\ Moves(t) /\ OrderOf[s] \in Order /\ "telenow_cod" \in Key
      /\ answered' = answered /\ \A u \in TaskId \ {t} : task'[u] = task[u]
      /\ callMap' \subseteq callMap
  BY StepEffect, WriteBackAssumption DEF HandlersInv, Key, Moves
<1>2. AnalysedNote(s) => Arrived(s)
  BY DEF ArrivesInv, AnalysisArrives, Arrived, NothingFails
<1>3. task[t].kind = "cod" =>
        Automation[task[t].session] = "cod" /\ task[t].session \in answered
  BY <1>1 DEF HandlersInv, HandlersKnowTheirCall
<1>4. CASE GetNotes(t)
  <2>1. task[t].pc = "getNotes" /\ UNCHANGED <<callMap, notes, meta>>
    BY <1>1, <1>4, GetNotesEffect
  <2>2. AnalysisAt(s, {"getCod", "setCod"}) => AnalysisAt(s, {"getCod", "setCod"})'
    BY <1>1, <2>1 DEF AnalysisAt
  <2>3. AnalysisAt(s, {"getLast", "setLast"}) => AnalysisAt(s, {"getLast", "setLast"})'
    BY <1>1, <2>1 DEF AnalysisAt
  <2> QED
    BY <1>1, <1>2, <2>1, <2>2, <2>3 DEF AnalysedNote, Arrived
<1>5. CASE PutNotes(t)
  <2>1. /\ task[t].pc = "putNotes" /\ UNCHANGED <<callMap, meta>>
        /\ task'[t].pc = AfterNote(t)
    BY <1>1, <1>5, PutNotesEffect
  <2>2. AnalysisAt(s, {"getCod", "setCod"}) => AnalysisAt(s, {"getCod", "setCod"})'
    BY <1>1, <2>1 DEF AnalysisAt
  <2>3. AnalysisAt(s, {"getLast", "setLast"}) => AnalysisAt(s, {"getLast", "setLast"})'
    BY <1>1, <2>1 DEF AnalysisAt
  <2>4. CASE AnalysedNote(s)
    BY <1>1, <1>2, <2>1, <2>2, <2>3, <2>4 DEF Arrived
  <2>5. CASE ~AnalysedNote(s)
    <3>1. /\ task[t].session = s /\ task[t].event = "call.analyzed" /\ task[t].kind = "cod"
      BY <2>5, NoteOrigin
    <3>2. task'[t].pc = "getCod"
      BY <2>1, <3>1 DEF AfterNote
    <3>3. AnalysisAt(s, {"getCod", "setCod"})'
      BY <1>1, <3>1, <3>2, StillAtWork DEF AnalysisAt
    <3> QED
      BY <1>1, <1>3, <3>1, <3>3 DEF Arrived
  <2> QED
    BY <2>4, <2>5
<1>6. CASE GetMeta(t)
  <2>1. /\ task[t].pc \in {"getCod", "getLast"} /\ UNCHANGED <<callMap, notes, meta>>
        /\ task'[t].pc = IF task[t].pc = "getCod" THEN "setCod" ELSE "setLast"
        /\ task'[t].session = task[t].session /\ task'[t].event = task[t].event
        /\ task'[t].kind = task[t].kind
    BY <1>1, <1>6, GetMetaEffect, StillAtWork
  <2>2. AnalysisAt(s, {"getCod", "setCod"}) => AnalysisAt(s, {"getCod", "setCod"})'
    BY <1>1, <2>1 DEF AnalysisAt
  <2>3. AnalysisAt(s, {"getLast", "setLast"}) => AnalysisAt(s, {"getLast", "setLast"})'
    BY <1>1, <2>1 DEF AnalysisAt
  <2> QED
    BY <1>1, <1>2, <2>1, <2>2, <2>3 DEF AnalysedNote, Arrived
<1>7. CASE SetMeta(t)
  <2>1. notes' = notes /\ meta' = MetaWith(t) /\ Arrived(s)
    BY <1>1, <1>2, <1>7, SetMetaEffect DEF AnalysedNote
  <2>2. CASE task[t].pc = "setCod"
    <3>1. task'[t].pc = "getLast" /\ callMap' = callMap
      BY <1>1, <1>7, <2>2, SetMetaEffect
    <3>2. MetaKey(t) = "telenow_cod" /\ MetaValue(t) = CodValueOf(task[t].session, task[t].event)
      BY <2>2 DEF MetaKey, MetaValue
    <3>3. task[t].kind = "cod" /\ task[t].session \in Session
      BY <1>1, <2>2, TaskTyped DEF HandlersInv, HandlersKnowTheirCall
    <3>4. CASE OrderOfTask(t) # OrderOf[s]
      <4>1. meta'[OrderOf[s]]["telenow_cod"] = meta[OrderOf[s]]["telenow_cod"]
        BY <1>1, <2>1, <2>2, <3>4, MetaWithEffect
      <4>2. task[t].session # s
        BY <3>4 DEF OrderOfTask
      <4>3. AnalysisAt(s, {"getCod", "setCod"}) => AnalysisAt(s, {"getCod", "setCod"})'
        BY <1>1, <4>2 DEF AnalysisAt
      <4>4. AnalysisAt(s, {"getLast", "setLast"}) => AnalysisAt(s, {"getLast", "setLast"})'
        BY <1>1, <4>2 DEF AnalysisAt
      <4> QED
        BY <1>1, <2>1, <3>1, <4>1, <4>3, <4>4 DEF Arrived
    <3>5. CASE OrderOfTask(t) = OrderOf[s]
      <4>1. task[t].session = s
        BY <1>3, <2>1, <3>3, <3>5 DEF OneCodCall, OrderOfTask, Arrived
      <4>2. AnalysedNote(s)
        BY <2>1 DEF AnalysedNote
      <4>3. task[t].event = "call.analyzed"
        BY <1>1, <3>3, <4>1, <4>2, TaskTyped DEF ArrivesInv, EndedComesBefore, Event
      <4>4. meta'[OrderOf[s]]["telenow_cod"] = CodValueOf(s, "call.analyzed")
        BY <1>1, <2>1, <2>2, <3>2, <3>5, <4>1, <4>3, MetaWithEffect
      <4>5. AnalysisAt(s, {"getLast", "setLast"})'
        BY <1>1, <3>1, <3>3, <4>1, <4>3, StillAtWork DEF AnalysisAt
      <4> QED
        BY <1>1, <2>1, <4>4, <4>5 DEF Arrived
    <3> QED
      BY <3>4, <3>5
  <2>3. CASE task[t].pc = "setLast"
    <3>1. callMap' = IF task[t].event = "call.analyzed" THEN callMap \ {task[t].session}
                                                       ELSE callMap
      BY <1>1, <1>7, <2>3, SetMetaEffect
    <3>2. MetaKey(t) = "last_call"
      BY <2>3 DEF MetaKey
    <3>3. meta'[OrderOf[s]]["telenow_cod"] = meta[OrderOf[s]]["telenow_cod"]
      BY <1>1, <2>1, <2>3, <3>2, MetaWithEffect
    <3>4. AnalysisAt(s, {"getCod", "setCod"}) => AnalysisAt(s, {"getCod", "setCod"})'
      BY <1>1, <2>3 DEF AnalysisAt
    <3>5. s \in callMap' /\ AnalysisAt(s, {"getLast", "setLast"})
            => AnalysisAt(s, {"getLast", "setLast"})'
      BY <1>1, <3>1 DEF AnalysisAt
    <3> QED
      BY <1>1, <2>1, <3>3, <3>4, <3>5 DEF Arrived
  <2> QED
    BY <1>7, <2>2, <2>3 DEF SetMeta
<1> QED
  BY <1>4, <1>5, <1>6, <1>7, NoFailure DEF Step

LEMMA StepEndedBefore ==
  ASSUME HandlersInv, NothingFails, ArrivesInv, NEW t \in TaskId, Step(t),
         NEW u \in TaskId, task'[u].pc # "idle", task'[u].kind = "cod",
         task'[u].event = "call.ended", NEW s \in Session, task'[u].session = s
  PROVE  ~AnalysedNote(s)'
<1>1. /\ TypeOK /\ Active(t) /\ Moves(t)
  BY StepEffect DEF HandlersInv
<1>2. /\ Active(u) /\ task[u].session = s /\ task[u].kind = "cod"
      /\ task[u].event = "call.ended"
  BY <1>1, StillAtWork
<1>3. ~AnalysedNote(s)
  BY <1>2 DEF ArrivesInv, EndedComesBefore, NothingFails
<1>4. ASSUME AnalysedNote(s)' PROVE FALSE
  <2>1. task[t].session = s /\ task[t].event = "call.analyzed"
    BY <1>3, <1>4, NoteOrigin
  <2>2. t = u
    BY <1>1, <1>2, <2>1 DEF HandlersInv, OneHandlerPerOrder, NothingFails, InTurn, OrderOfTask
  <2> QED
    BY <1>2, <2>1, <2>2
<1> QED
  BY <1>4

LEMMA DeliverArrives ==
  ASSUME HandlersInv, NothingFails, ArrivesInv,
         NEW r \in Session, NEW e \in Event, NEW t \in TaskId, Deliver(r, e, t)
  PROVE  /\ \A s \in Session : AnalysedNote(s) => Arrived(s)'
         /\ \A u \in TaskId : Active(u)' /\ task'[u].kind = "cod" /\ task'[u].event = "call.ended"
                                => ~AnalysedNote(task'[u].session)
<1>1. /\ TypeOK /\ ~Active(t) /\ \A u \in TaskId \ {t} : task'[u] = task[u]
      /\ \A u \in TaskId : Active(u) => OrderOfTask(u) # OrderOf[r]
      /\ callMap' \subseteq callMap /\ answered' = answered /\ meta' = meta
      /\ \/ task'[t] = task[t]
         \/ task'[t].kind = KindOf(r) /\ task'[t].session = r
  BY DeliverEffect DEF HandlersInv, NothingFails, InTurn
<1>2. \A s \in Session : AnalysedNote(s) => Arrived(s)
  BY DEF ArrivesInv, AnalysisArrives, Arrived
<1>3. ASSUME NEW s \in Session, AnalysedNote(s)
      PROVE  Arrived(s)'
  <2>1. \A u \in TaskId : task[u].pc \in {"getCod", "setCod", "getLast", "setLast"} => u # t
    BY <1>1 DEF Active
  <2>2. AnalysisAt(s, {"getCod", "setCod"}) => AnalysisAt(s, {"getCod", "setCod"})'
    BY <1>1, <2>1 DEF AnalysisAt
  <2>3. AnalysisAt(s, {"getLast", "setLast"}) => AnalysisAt(s, {"getLast", "setLast"})'
    BY <1>1, <2>1 DEF AnalysisAt
  <2> QED
    BY <1>1, <1>2, <1>3, <2>2, <2>3 DEF Arrived
<1>4. KindOf(r) = "cod" => ~AnalysedNote(r)
  <2>1. ASSUME r \in callMap, AnalysedNote(r) PROVE FALSE
    <3>1. PICK u \in TaskId : Active(u) /\ task[u].session = r
      BY <1>2, <2>1 DEF Arrived, AnalysisAt, Active
    <3> QED
      BY <1>1, <3>1 DEF OrderOfTask
  <2> QED
    BY <2>1 DEF KindOf
<1>5. ASSUME NEW u \in TaskId, task'[u].pc # "idle", task'[u].kind = "cod",
             task'[u].event = "call.ended"
      PROVE  ~AnalysedNote(task'[u].session)
  <2>1. CASE task'[u] = task[u]
    BY <1>5, <2>1 DEF ArrivesInv, EndedComesBefore, Active
  <2>2. CASE task'[u] # task[u]
    BY <1>1, <1>4, <1>5, <2>2
  <2> QED
    BY <2>1, <2>2
<1> QED
  BY <1>3, <1>5 DEF Active

LEMMA ArrivesStep ==
  ASSUME OneCodCall, HandlersInv, ArrivesInv, [Next]_vars
  PROVE  ArrivesInv'
<1>1. TypeOK /\ regime' = regime
  BY NextSplits, StepEffect, DeliverEffect, QuietEffect DEF HandlersInv, Moves
<1>2. NothingFails' <=> NothingFails
  BY <1>1 DEF NothingFails, InTurn
<1>3. SUFFICES ASSUME NothingFails
               PROVE  /\ \A s \in Session : AnalysedNote(s)' => Arrived(s)'
                      /\ \A u \in TaskId, s \in Session :
                           /\ task'[u].pc # "idle" /\ task'[u].kind = "cod"
                           /\ task'[u].event = "call.ended" /\ task'[u].session = s
                           => ~AnalysedNote(s)'
  <2>1. TypeOK' /\ \A u \in TaskId : task'[u].pc # "idle" => task'[u].session \in Session
    <3>1. TypeOK'
      BY HandlersStep DEF HandlersInv
    <3> QED
      BY <3>1 DEF TypeOK, Task, Idle
  <2> QED
    BY <1>2, <2>1 DEF ArrivesInv, AnalysisArrives, EndedComesBefore, Arrived, Active, AnalysedNote
<1>4. CASE \E t \in TaskId : Step(t)
  BY <1>3, <1>4, StepArrives, StepEndedBefore
<1>5. CASE \E r \in Session, e \in Event, t \in TaskId : Deliver(r, e, t)
  <2>1. PICK r \in Session, e \in Event, t \in TaskId : Deliver(r, e, t)
    BY <1>5
  <2>2. notes' = notes
    BY <1>1, <2>1, DeliverEffect
  <2>3. \A s \in Session : AnalysedNote(s)' <=> AnalysedNote(s)
    BY <2>2 DEF AnalysedNote
  <2> QED
    BY <1>3, <2>1, <2>3, DeliverArrives DEF Active
<1>6. CASE \/ \E s \in Session : MapCall(s) \/ CallEnds(s) \/ CallAnalyzed(s)
           \/ Crash \/ UNCHANGED vars
  <2>1. /\ notes' = notes /\ meta' = meta /\ task' = task
        /\ answered \subseteq answered' /\ callMap' \cap answered \subseteq callMap
    BY <1>1, <1>3, <1>6, QuietEffect DEF NothingFails
  <2>2. \A s \in Session : AnalysedNote(s)' <=> AnalysedNote(s)
    BY <2>1 DEF AnalysedNote
  <2>3. \A s \in Session : Arrived(s) => Arrived(s)'
    BY <2>1 DEF Arrived, AnalysisAt
  <2> QED
    BY <1>3, <2>1, <2>2, <2>3 DEF ArrivesInv, AnalysisArrives, EndedComesBefore, Arrived, Active
<1> QED
  BY <1>4, <1>5, <1>6, NextSplits

LEMMA ArrivesMeansAgreement ==
  ASSUME AnalysisArrives
  PROVE  NoteAndMetafieldAgree
<1> SUFFICES ASSUME NEW s \in Session, NothingFails, AnalysedNote(s),
                    \A t \in TaskId : Active(t) => OrderOfTask(t) # OrderOf[s]
             PROVE  meta[OrderOf[s]]["telenow_cod"] = CodValueOf(s, "call.analyzed")
  BY DEF NoteAndMetafieldAgree, NothingFails, AnalysedNote
<1>1. ~AnalysisAt(s, {"getCod", "setCod"})
  BY DEF AnalysisAt, Active, OrderOfTask
<1> QED
  BY <1>1 DEF AnalysisArrives

\* Where an order has at most one COD call, and in turn and without failures: once the
\* note of the call's analysis is on the order, telenow_cod comes to say the same and
\* nothing that is delivered later or again changes it.
THEOREM MetafieldFollowsNote ==
  ASSUME OneCodCall
  PROVE  Spec => [](ArrivesInv /\ NoteAndMetafieldAgree)
<1>1. Init => ArrivesInv
  <2> SUFFICES ASSUME Init PROVE ArrivesInv
    OBVIOUS
  <2>1. \A s \in Session : ~AnalysedNote(s)
    BY WriteBackAssumption DEF Init, AnalysedNote, MerchantLine
  <2> QED
    BY <2>1, HandlersInit DEF ArrivesInv, AnalysisArrives, EndedComesBefore
<1>2. HandlersInv /\ ArrivesInv /\ [Next]_vars => ArrivesInv'
  BY ArrivesStep
<1>3. ArrivesInv => NoteAndMetafieldAgree
  BY ArrivesMeansAgreement DEF ArrivesInv
<1> QED
  BY <1>1, <1>2, <1>3, HandlersAreSound, PTL DEF Spec

\* The whole invariant of the run.
THEOREM WriteBackIsSound ==
  ASSUME RoomSuffices, OneCodCall
  PROVE  Spec => []WriteBackIInv
BY HandlersAreSound, LinesAreOfTheOrder, OutcomeBeforeDrop, MetafieldFollowsNote, PTL
   DEF WriteBackIInv, ArrivesInv
=============================================================================
