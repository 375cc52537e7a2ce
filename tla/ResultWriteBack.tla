-------------------------- MODULE ResultWriteBack --------------------------
(***************************************************************************)
(* src/webhooks/telenow.js, order results: a delivery of Telenow is          *)
(* acknowledged, then handleResult writes the outcome of the call onto its   *)
(* BigCommerce order in up to six requests (src/bigcommerce.js), and drops   *)
(* the session from callMap after call.analyzed.  Handlers are not           *)
(* serialised: a handler is one action per awaited request, and handlers of  *)
(* one session or one order interleave.                                      *)
(***************************************************************************)
EXTENDS Naturals, FiniteSets

CONSTANTS
  Session,        \* calls Telenow took for this store
  Order,          \* BigCommerce orders
  OrderOf,        \* the order a session is about
  Automation,     \* the automation that placed it: "cod", "order" or "cart"
  Analysis,       \* the words an event's analysis has in label and summary
  Room,           \* lines that fit into staff_notes (65,535 characters)
  TaskId,         \* slots for handlers in flight
  Analysed,       \* sessions whose agent has an analysis configured
  MaxDeliveries,  \* bound on deliveries
  Regimes         \* what may go wrong: one of them holds for a behaviour

Event == {"call.ended", "call.analyzed"}
Key == {"telenow_cod", "last_call"}
CodValue == {"confirmed", "cancelled", "no-response"}
None == "none"

\* "confirm", "cancel": a match of the regular expression for that decision.
Words == SUBSET {"confirm", "cancel"}

\* faults: those that may happen.  overlap: may two handlers of one order be in
\* flight together?  late: may a result overtake the answer of initiateCall?
Regime == [faults : SUBSET {"readFails", "writeFails", "crash"},
           overlap : BOOLEAN, late : BOOLEAN]

ASSUME WriteBackAssumption ==
  /\ OrderOf \in [Session -> Order]
  /\ Automation \in [Session -> {"cod", "order", "cart"}]
  /\ Analysis \in [Session -> [Event -> [label : Words, summary : Words]]]
  /\ Room \in Nat \ {0}
  /\ Analysed \subseteq Session
  /\ MaxDeliveries \in Nat
  /\ Regimes \subseteq Regime

VARIABLES
  regime,
  phase,       \* Telenow's side of a session: "calling", "ended", "analyzed"
  answered,    \* sessions whose initiateCall answer reached the app
  callMap,     \* sessions mapped to their order and automation
  task,        \* handlers in flight
  notes,       \* staff_notes of each order, as the set of its lines
  meta,        \* metafields of each order
  wrote,       \* history: what the handlers of call.analyzed got written
  deliveries   \* deliveries so far

vars == <<regime, phase, answered, callMap, task, notes, meta, wrote, deliveries>>

\* A line is the event it reports and how handleResult worded it.
Line == Session \X Event \X {"cod", "order"}

MerchantLine == <<"merchant">>

Pc == {"getNotes", "putNotes", "getCod", "setCod", "getLast", "setLast"}

Idle == [pc |-> "idle"]

\* kind is the automation handleResult knows, read is what getOrder returned,
\* found whether the metafield was listed.
Task == [pc : Pc, session : Session, event : Event, kind : {"cod", "order"},
         read : SUBSET (Line \cup {MerchantLine}), found : BOOLEAN]

TypeOK == /\ regime \in Regimes
          /\ phase \in [Session -> {"calling", "ended", "analyzed"}]
          /\ answered \subseteq Session
          /\ callMap \subseteq answered
          /\ task \in [TaskId -> {Idle} \cup Task]
          /\ notes \in [Order -> SUBSET (Line \cup {MerchantLine})]
          /\ meta \in [Order -> [Key -> CodValue \cup Event \cup {None}]]
          /\ wrote \subseteq Session \X {"note", "cod"}
          /\ deliveries \in Nat
-----------------------------------------------------------------------------
Active(t) == task[t].pc # "idle"

OrderOfTask(t) == OrderOf[task[t].session]

\* A slip: the session is taken for a COD call by its order, mapped or not.
KindOf_FromOrder(s) == Automation[s]

\* The automation comes from callMap; an identifier "order:<id>" still names
\* the order of a session that is not there, but not its automation.
KindOf(s) == IF s \in callMap THEN Automation[s]
             ELSE IF Automation[s] = "cart" THEN "cart" ELSE "order"

\* A slip: the mapping goes with whichever event comes first.
Cleanup_AnyEvent(s, e) == callMap' = callMap \ {s}

\* cleanupIfFinal
Cleanup(s, e) ==
  callMap' = IF e = "call.analyzed" THEN callMap \ {s} ELSE callMap

MetaKey(t) == IF task[t].pc \in {"getCod", "setCod"} THEN "telenow_cod"
                                                     ELSE "last_call"

\* readDisposition: the label decides, and the summary only where it says
\* neither; in both, confirming is looked for first.
ReadDisposition(a) == IF "confirm" \in a.label THEN "confirmed"
                      ELSE IF "cancel" \in a.label THEN "cancelled"
                      ELSE IF "confirm" \in a.summary THEN "confirmed"
                      ELSE IF "cancel" \in a.summary THEN "cancelled"
                      ELSE "unknown"

\* A slip: an unclear call is written as readDisposition named it.
CodValueOf_Raw(s, e) == ReadDisposition(Analysis[s][e])

CodValueOf(s, e) == LET d == ReadDisposition(Analysis[s][e]) IN
                    IF d = "unknown" THEN "no-response" ELSE d

MetaValue(t) == IF MetaKey(t) = "telenow_cod"
                  THEN CodValueOf(task[t].session, task[t].event)
                  ELSE task[t].event

\* What a write of a handler of call.analyzed adds to the history.
Record(t, what) ==
  wrote' = IF task[t].event = "call.analyzed"
             THEN wrote \cup {<<task[t].session, what>>} ELSE wrote

Goto(t, pc) == task' = [task EXCEPT ![t].pc = pc]

\* The handler ends without its cleanup: the rejection is only logged.
Abort(t) == task' = [task EXCEPT ![t] = Idle] /\ UNCHANGED callMap

\* The handler reaches its last line.
Finish(t) == /\ task' = [task EXCEPT ![t] = Idle]
             /\ Cleanup(task[t].session, task[t].event)
-----------------------------------------------------------------------------
Init == /\ regime \in Regimes
        /\ phase = [s \in Session |-> "calling"]
        /\ answered = {}
        /\ callMap = {}
        /\ task = [t \in TaskId |-> Idle]
        /\ notes = [o \in Order |-> {MerchantLine}]
        /\ meta = [o \in Order |-> [k \in Key |-> None]]
        /\ wrote = {}
        /\ deliveries = 0

\* The answer of initiateCall: mapCall.
MapCall(s) ==
  /\ s \notin answered
  /\ answered' = answered \cup {s}
  /\ callMap' = callMap \cup {s}
  /\ UNCHANGED <<regime, phase, task, notes, meta, wrote, deliveries>>

\* The conversation ends; its analysis follows, where one is configured.
CallEnds(s) ==
  /\ phase[s] = "calling"
  /\ regime.late \/ s \in answered
  /\ phase' = [phase EXCEPT ![s] = "ended"]
  /\ UNCHANGED <<regime, answered, callMap, task, notes, meta, wrote, deliveries>>

CallAnalyzed(s) ==
  /\ phase[s] = "ended"
  /\ s \in Analysed
  /\ phase' = [phase EXCEPT ![s] = "analyzed"]
  /\ UNCHANGED <<regime, answered, callMap, task, notes, meta, wrote, deliveries>>

Sent(s, e) == \/ phase[s] = "analyzed"
              \/ phase[s] = "ended" /\ e = "call.ended"

\* An authenticated delivery, the first or a repeated one: handleResult looks
\* the session up and runs to its first request; a session without an order
\* is only cleaned up.
Deliver(s, e, t) ==
  /\ deliveries < MaxDeliveries
  /\ deliveries' = deliveries + 1
  /\ Sent(s, e)
  /\ ~Active(t)
  /\ regime.overlap \/ \A u \in TaskId : Active(u) => OrderOfTask(u) # OrderOf[s]
  /\ \/ /\ KindOf(s) = "cart"
        /\ Cleanup(s, e)
        /\ UNCHANGED task
     \/ /\ KindOf(s) # "cart"
        /\ task' = [task EXCEPT ![t] = [pc |-> "getNotes", session |-> s,
                                        event |-> e, kind |-> KindOf(s),
                                        read |-> {}, found |-> FALSE]]
        /\ UNCHANGED callMap
  /\ UNCHANGED <<regime, phase, answered, notes, meta, wrote>>

\* appendOrderStaffNote, its getOrder: a failed read counts as no notes.
GetNotes(t) ==
  /\ task[t].pc = "getNotes"
  /\ \E read \in {notes[OrderOfTask(t)]} \cup
                 (IF "readFails" \in regime.faults THEN {{}} ELSE {}) :
       task' = [task EXCEPT ![t].pc = "putNotes", ![t].read = read]
  /\ UNCHANGED <<regime, phase, answered, callMap, notes, meta, wrote, deliveries>>

LineOf(t) == <<task[t].session, task[t].event, task[t].kind>>

\* A slip: the line replaces the text instead of being appended to it.
NotesWith_Replaced(t) == [notes EXCEPT ![OrderOfTask(t)] = {LineOf(t)}]

\* A line for which there is no room is cut off.
NotesWith(t) == [notes EXCEPT ![OrderOfTask(t)] =
  task[t].read \cup {l \in {LineOf(t)} : Cardinality(task[t].read) < Room}]

\* Its PUT of the whole text.
PutNotes(t) ==
  /\ task[t].pc = "putNotes"
  /\ notes' = NotesWith(t)
  /\ Goto(t, IF task[t].kind = "cod" THEN "getCod" ELSE "getLast")
  /\ IF LineOf(t) \in notes'[OrderOfTask(t)] THEN Record(t, "note")
                                            ELSE UNCHANGED wrote
  /\ UNCHANGED <<regime, phase, answered, callMap, meta, deliveries>>

\* The PUT rejects, before or after BigCommerce applied it: handleResult ends.
PutNotesFails(t) ==
  /\ "writeFails" \in regime.faults
  /\ task[t].pc = "putNotes"
  /\ notes' \in {notes, NotesWith(t)}
  /\ Abort(t)
  /\ UNCHANGED <<regime, phase, answered, meta, wrote, deliveries>>

\* setOrderMetafield, its listing: a failed read counts as "not there".
GetMeta(t) ==
  /\ task[t].pc \in {"getCod", "getLast"}
  /\ \E found \in {meta[OrderOfTask(t)][MetaKey(t)] # None} \cup
                  (IF "readFails" \in regime.faults THEN {FALSE} ELSE {}) :
       task' = [task EXCEPT ![t].found = found,
                  ![t].pc = IF @ = "getCod" THEN "setCod" ELSE "setLast"]
  /\ UNCHANGED <<regime, phase, answered, callMap, notes, meta, wrote, deliveries>>

\* BigCommerce refuses to create a metafield a second time.
Conflict(t) == ~task[t].found /\ meta[OrderOfTask(t)][MetaKey(t)] # None

MetaWith(t) == [meta EXCEPT ![OrderOfTask(t)][MetaKey(t)] = MetaValue(t)]

\* Its PUT or POST.
SetMeta(t) ==
  /\ task[t].pc \in {"setCod", "setLast"}
  /\ ~Conflict(t)
  /\ meta' = MetaWith(t)
  /\ \/ task[t].pc = "setCod" /\ Goto(t, "getLast") /\ Record(t, "cod")
        /\ UNCHANGED callMap
     \/ task[t].pc = "setLast" /\ Finish(t) /\ UNCHANGED wrote
  /\ UNCHANGED <<regime, phase, answered, notes, deliveries>>

\* It rejects: that ends the handler for telenow_cod, and is caught and logged
\* for last_call.
SetMetaFails(t) ==
  /\ task[t].pc \in {"setCod", "setLast"}
  /\ \/ Conflict(t) /\ UNCHANGED meta
     \/ "writeFails" \in regime.faults /\ ~Conflict(t) /\ meta' \in {meta, MetaWith(t)}
  /\ \/ task[t].pc = "setCod" /\ Abort(t)
     \/ task[t].pc = "setLast" /\ Finish(t)
  /\ UNCHANGED <<regime, phase, answered, notes, wrote, deliveries>>

\* The process dies: acknowledged deliveries in progress are gone, callMap is
\* read back.
Crash ==
  /\ "crash" \in regime.faults
  /\ \E t \in TaskId : Active(t)
  /\ task' = [t \in TaskId |-> Idle]
  /\ UNCHANGED <<regime, phase, answered, callMap, notes, meta, wrote, deliveries>>

Step(t) == \/ GetNotes(t) \/ PutNotes(t) \/ PutNotesFails(t)
           \/ GetMeta(t) \/ SetMeta(t) \/ SetMetaFails(t)

Next == \/ \E s \in Session : MapCall(s) \/ CallEnds(s) \/ CallAnalyzed(s)
        \/ \E s \in Session, e \in Event, t \in TaskId : Deliver(s, e, t)
        \/ \E t \in TaskId : Step(t)
        \/ Crash

Spec == Init /\ [][Next]_vars
-----------------------------------------------------------------------------
\* The session was mapped, its results were handled and its mapping is gone.
Settled(s) == /\ s \in answered /\ s \notin callMap
              /\ \A t \in TaskId :
                   Active(t) => task[t].session # s \/ task[t].kind # "cod"

\* Only call.analyzed's handler drops a mapping, and only after its note (and a
\* COD call's metafield) is on the order: while any of it is missing, the mapping
\* is there for the next delivery, whatever failed or crashed in between.  A
\* result that overtook the answer of initiateCall is the exception.
DroppedMeansWritten ==
  \A s \in answered \ callMap : Automation[s] # "cart" /\ ~regime.late =>
    /\ <<s, "note">> \in wrote
    /\ Automation[s] = "cod" => <<s, "cod">> \in wrote

\* Once a session is settled it stays so, and only another call about its order moves
\* the order's telenow_cod: whatever is delivered late, again or out of order
\* finds no mapping and is not handled as a COD result.
SettledOutcomeStands ==
  [][\A s \in Session :
       Automation[s] = "cod" /\ Settled(s) =>
         /\ Settled(s)'
         /\ \/ meta'[OrderOf[s]]["telenow_cod"] = meta[OrderOf[s]]["telenow_cod"]
            \/ \E r \in Session \ {s}, t \in TaskId :
                 Active(t) /\ task[t].session = r /\ OrderOf[r] = OrderOf[s]]_vars

\* Handlers of one order come one after the other, and what they read is there.
InTurn == ~regime.overlap /\ "readFails" \notin regime.faults

\* In turn, a staff note is never removed: each append keeps what the order had.
NotesKept ==
  [][InTurn => \A o \in Order : notes[o] \subseteq notes'[o]]_vars

\* In turn and without failures: when no handler is at work on an order, the
\* metafield says what the analysed note of its COD call says, whatever status calls
\* about the order, repeated and late deliveries wrote since.
NoteAndMetafieldAgree ==
  \A s \in Session :
    /\ InTurn /\ regime.faults = {}
    /\ <<s, "call.analyzed", "cod">> \in notes[OrderOf[s]]
    /\ \A t \in TaskId : Active(t) => OrderOfTask(t) # OrderOf[s]
    => meta[OrderOf[s]]["telenow_cod"] = CodValueOf(s, "call.analyzed")

-----------------------------------------------------------------------------
(* What makes these inductive. *)

\* In turn, a handler is alone with its order.
OneHandlerPerOrder ==
  ~regime.overlap =>
    \A t, u \in TaskId :
      Active(t) /\ Active(u) /\ OrderOfTask(t) = OrderOfTask(u) => t = u

\* Therefore what it has read of the order is what is there when it writes.
ReadIsCurrent ==
  InTurn => \A t \in TaskId :
    /\ task[t].pc = "putNotes" => task[t].read = notes[OrderOfTask(t)]
    /\ task[t].pc \in {"setCod", "setLast"} =>
         (task[t].found <=> meta[OrderOfTask(t)][MetaKey(t)] # None)

\* A handler writes telenow_cod only for a mapped COD call, and one that has not
\* found the mapping of an answered COD call will not bring it back.
HandlersKnowTheirCall ==
  /\ ~regime.late => \A s \in Session : phase[s] # "calling" => s \in answered
  /\ \A t \in TaskId : Active(t) =>
       LET w == task[t] IN
       /\ w.pc \in {"getCod", "setCod"} => w.kind = "cod"
       /\ w.kind = "cod" => Automation[w.session] = "cod" /\ w.session \in answered
       /\ Automation[w.session] = "cod" /\ w.kind = "order" /\ ~regime.late =>
            w.session \in answered \ callMap

\* The notes of an order are about its own calls.
LinesAbout(o) == {l \in Line : OrderOf[l[1]] = o} \cup {MerchantLine}

LinesOfTheOrder ==
  /\ \A o \in Order : notes[o] \subseteq LinesAbout(o)
  /\ \A t \in TaskId : Active(t) => task[t].read \subseteq LinesAbout(OrderOfTask(t))

HandlersInv == TypeOK /\ OneHandlerPerOrder /\ ReadIsCurrent /\ HandlersKnowTheirCall

\* What a handler of call.analyzed has behind it is written.
WrittenOnTheWay ==
  \A t \in TaskId : Active(t) /\ task[t].event = "call.analyzed" =>
    LET w == task[t] IN
    /\ w.pc \notin {"getNotes", "putNotes"} => <<w.session, "note">> \in wrote
    /\ w.pc \in {"getLast", "setLast"} /\ w.kind = "cod" => <<w.session, "cod">> \in wrote

NothingFails == InTurn /\ regime.faults = {}

AnalysedNote(s) == <<s, "call.analyzed", "cod">> \in notes[OrderOf[s]]

\* The handler of the analysis of a COD call is at one of these steps.
AnalysisAt(s, steps) ==
  \E t \in TaskId : /\ task[t].pc \in steps
                    /\ task[t].session = s /\ task[t].event = "call.analyzed"
                    /\ task[t].kind = "cod"

\* From the note on, the handler that wrote it is on its way to the metafield or has
\* written it, and then the mapping goes.
AnalysisArrives ==
  NothingFails => \A s \in Session : AnalysedNote(s) =>
    /\ s \in answered /\ Automation[s] = "cod"
    /\ \/ AnalysisAt(s, {"getCod", "setCod"})
       \/ /\ meta[OrderOf[s]]["telenow_cod"] = CodValueOf(s, "call.analyzed")
          /\ s \in callMap => AnalysisAt(s, {"getLast", "setLast"})

\* Therefore no handler of call.ended still has the telenow_cod of the call to write.
EndedComesBefore ==
  NothingFails => \A t \in TaskId :
    Active(t) /\ task[t].kind = "cod" /\ task[t].event = "call.ended" =>
      ~AnalysedNote(task[t].session)

WriteBackIInv == /\ HandlersInv /\ LinesOfTheOrder
                 /\ WrittenOnTheWay /\ DroppedMeansWritten
                 /\ AnalysisArrives /\ EndedComesBefore /\ NoteAndMetafieldAgree

\* staff_notes have room for a line of every result about an order.
RoomSuffices ==
  \A o \in Order : \A lines \in SUBSET LinesAbout(o) : Cardinality(lines) < Room

\* At most one call of an order asks to confirm it.
OneCodCall ==
  \A r, s \in Session :
    Automation[r] = "cod" /\ Automation[s] = "cod" /\ OrderOf[r] = OrderOf[s] => r = s
-----------------------------------------------------------------------------
\* codConfirmation.js:10: a call the customer confirmed ends as telenow_cod =
\* "confirmed" once its analysis has been handled and nothing is in progress.
ConfirmedIsConfirmed ==
  \A s \in Session :
    /\ Automation[s] = "cod" /\ s \in answered
    /\ CodValueOf(s, "call.analyzed") = "confirmed"
    /\ \E k \in {"cod", "order"} :
         <<s, "call.analyzed", k>> \in notes[OrderOf[s]]
    /\ \A t \in TaskId : ~Active(t)
    => meta[OrderOf[s]]["telenow_cod"] = "confirmed"
=============================================================================
