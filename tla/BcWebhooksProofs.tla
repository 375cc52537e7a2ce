-------------------------- MODULE BcWebhooksProofs --------------------------
(***************************************************************************)
(* Proofs about BcWebhooks: for any list of scopes, any faults and numbers   *)
(* of requests, hooks and deactivations; the types whatever overlaps, the    *)
(* rest where requests come one after the other.                             *)
(***************************************************************************)
EXTENDS BcWebhooks, SequenceTheorems, TLAPS

BcTyped == TypeOK /\ RequestsKnowTheirWork

-----------------------------------------------------------------------------
(* The list of scopes to do. *)

LEMMA ScopesToDo ==
  ASSUME NEW q \in Seq(Scope), q # <<>>, NoDuplicates(q)
  PROVE  /\ Head(q) \in Scope /\ Head(q) \in ScopesIn(q) /\ ScopesIn(q) \subseteq Scope
         /\ Tail(q) \in Seq(Scope) /\ NoDuplicates(Tail(q))
         /\ ScopesIn(Tail(q)) = ScopesIn(q) \ {Head(q)}
         /\ (Len(q) # 1 => Tail(q) # <<>>) /\ (Len(q) = 1 => ScopesIn(q) = {Head(q)})
<1>1. /\ Len(q) \in Nat /\ Len(q) >= 1 /\ q[1] = Head(q)
      /\ \A i \in 1 .. Len(q) : q[i] \in Scope
  BY EmptySeq, LenProperties, HeadTailProperties
<1>2. /\ Tail(q) \in Seq(Scope) /\ Len(Tail(q)) = Len(q) - 1
      /\ \A i \in 1 .. Len(Tail(q)) : Tail(q)[i] = q[i + 1]
  BY HeadTailProperties
<1>3. NoDuplicates(Tail(q))
  <2> SUFFICES ASSUME NEW i \in 1 .. Len(Tail(q)), NEW j \in 1 .. Len(Tail(q)),
                      Tail(q)[i] = Tail(q)[j]
               PROVE  i = j
    BY DEF NoDuplicates
  <2>1. i + 1 \in 1 .. Len(q) /\ j + 1 \in 1 .. Len(q) /\ q[i + 1] = q[j + 1]
    BY <1>1, <1>2
  <2>2. i + 1 = j + 1
    BY <2>1 DEF NoDuplicates
  <2> QED
    BY <1>1, <1>2, <2>2
<1>4. ScopesIn(Tail(q)) \subseteq ScopesIn(q) \ {Head(q)}
  <2> SUFFICES ASSUME NEW i \in 1 .. Len(Tail(q))
               PROVE  Tail(q)[i] \in ScopesIn(q) \ {Head(q)}
    BY DEF ScopesIn
  <2>1. i + 1 \in 1 .. Len(q) /\ 1 \in 1 .. Len(q) /\ i + 1 # 1 /\ Tail(q)[i] = q[i + 1]
    BY <1>1, <1>2
  <2> QED
    BY <1>1, <2>1 DEF ScopesIn, NoDuplicates
<1>5. ScopesIn(q) \ {Head(q)} \subseteq ScopesIn(Tail(q))
  <2> SUFFICES ASSUME NEW i \in 1 .. Len(q), q[i] # Head(q)
               PROVE  q[i] \in ScopesIn(Tail(q))
    BY DEF ScopesIn
  <2>1. i - 1 \in 1 .. Len(Tail(q)) /\ Tail(q)[i - 1] = q[(i - 1) + 1] /\ (i - 1) + 1 = i
    BY <1>1, <1>2
  <2> QED
    BY <2>1 DEF ScopesIn
<1>6. Head(q) \in ScopesIn(q) /\ ScopesIn(q) \subseteq Scope
  BY <1>1 DEF ScopesIn
<1>7. Len(q) # 1 => Tail(q) # <<>>
  <2>1. Tail(q) = <<>> => Len(Tail(q)) = 0
    BY <1>2, EmptySeq
  <2> QED
    BY <1>1, <1>2, <2>1
<1>8. Len(q) = 1 => ScopesIn(q) = {Head(q)}
  BY <1>1 DEF ScopesIn
<1> QED
  BY <1>1, <1>2, <1>3, <1>4, <1>5, <1>6, <1>7, <1>8

\* The loop goes on to a scope that is not yet done, or has done all.
LEMMA ScopeDoneEffect ==
  ASSUME NEW w \in Task, w.todo # <<>>, NoDuplicates(w.todo)
  PROVE  \/ ScopeDone(w) = Idle /\ ScopesIn(w.todo) = {Head(w.todo)}
         \/ /\ ScopeDone(w) \in Task /\ ScopeDone(w) # Idle
            /\ ScopeDone(w).stage = "scope" /\ ScopeDone(w).token = w.token
            /\ ScopeDone(w).listed = w.listed /\ ScopeDone(w).failed = w.failed
            /\ ScopeDone(w).todo # <<>> /\ NoDuplicates(ScopeDone(w).todo)
            /\ ScopesIn(ScopeDone(w).todo) = ScopesIn(w.todo) \ {Head(w.todo)}
<1>1. w.todo \in Seq(Scope)
  BY DEF Task
<1>2. CASE Len(w.todo) = 1
  <2>1. ScopesIn(w.todo) = {Head(w.todo)}
    BY <1>1, <1>2, ScopesToDo
  <2>2. ScopeDone(w) = Idle
    BY <1>2 DEF ScopeDone
  <2> QED
    BY <2>1, <2>2
<1>3. CASE Len(w.todo) # 1
  <2>1. /\ Tail(w.todo) \in Seq(Scope) /\ Tail(w.todo) # <<>> /\ NoDuplicates(Tail(w.todo))
        /\ ScopesIn(Tail(w.todo)) = ScopesIn(w.todo) \ {Head(w.todo)}
    BY <1>1, <1>3, ScopesToDo
  <2> DEFINE v == [w EXCEPT !.stage = "scope", !.todo = Tail(@)]
  <2>2. /\ v \in Task /\ v.stage = "scope" /\ v.token = w.token /\ v.listed = w.listed
        /\ v.failed = w.failed /\ v.todo = Tail(w.todo)
    BY <2>1 DEF Task
  <2>3. ScopeDone(w) = v
    BY <1>3 DEF ScopeDone
  <2> HIDE DEF v
  <2>4. v # Idle
    BY <2>2 DEF Idle
  <2> QED
    BY <2>1, <2>2, <2>3, <2>4
<1> QED
  BY <1>2, <1>3

-----------------------------------------------------------------------------
(* What each step does to the slots. *)

LEMMA TaskTyped ==
  ASSUME BcTyped, NEW t \in TaskId, Active(t)
  PROVE  /\ task[t] \in Task /\ task[t].token \in Nat /\ task[t].listed \subseteq Hook
         /\ task[t].todo \in Seq(Scope) /\ task[t].doomed \subseteq 1 .. MaxHooks
         /\ task[t].failed \in BOOLEAN
<1>1. task[t] \in Task
  BY DEF BcTyped, TypeOK, Active, Idle
<1> QED
  BY <1>1 DEF Task

\* A request at work on the scopes has one to do.
LEMMA WiringTyped ==
  ASSUME BcTyped, NEW t \in TaskId, task[t].stage \in Wiring
  PROVE  /\ Active(t) /\ task[t].todo # <<>> /\ NoDuplicates(task[t].todo)
         /\ Head(task[t].todo) \in Scope /\ Head(task[t].todo) \in ScopesIn(task[t].todo)
<1>1. Active(t) /\ task[t].todo # <<>> /\ NoDuplicates(task[t].todo)
  BY DEF BcTyped, RequestsKnowTheirWork, Active, Wiring
<1> QED
  BY <1>1, TaskTyped, ScopesToDo

LEMMA SlotTakes ==
  ASSUME BcTyped, NEW t \in TaskId, NEW w \in {Idle} \cup Task,
         task' = [task EXCEPT ![t] = w]
  PROVE  /\ task' \in [TaskId -> {Idle} \cup Task] /\ task'[t] = w
         /\ \A u \in TaskId \ {t} : task'[u] = task[u]
BY DEF BcTyped, TypeOK

\* What the step of a request leaves alone.
Others(t) == /\ \A u \in TaskId \ {t} : task'[u] = task[u]
             /\ task' \in [TaskId -> {Idle} \cup Task]

LEMMA BeginEffect ==
  ASSUME BcTyped, NEW t \in TaskId, NEW stage \in {"list", "listRemove"}, NEW tok \in Nat,
         Begin(t, stage, tok)
  PROVE  /\ Others(t) /\ ~Active(t) /\ (~Overlap => \A u \in TaskId : ~Active(u))
         /\ requests < MaxRequests /\ requests' = requests + 1 /\ wired' = FALSE
         /\ task'[t].stage = stage /\ task'[t].token = tok /\ task'[t].listed = {}
         /\ task'[t].todo = Scopes /\ task'[t].doomed = {} /\ task'[t].failed = FALSE
<1> DEFINE w == [stage |-> stage, token |-> tok, listed |-> {},
                 todo |-> Scopes, doomed |-> {}, failed |-> FALSE]
<1>1. /\ w \in Task /\ w.stage = stage /\ w.token = tok /\ w.listed = {}
      /\ w.todo = Scopes /\ w.doomed = {} /\ w.failed = FALSE
  BY BcWebhooksAssumption DEF Task
<1>2. task' = [task EXCEPT ![t] = w]
  BY DEF Begin
<1> HIDE DEF w
<1>3. Others(t) /\ task'[t] = w
  BY <1>1, <1>2, SlotTakes DEF Others
<1>4. ~Overlap => \A u \in TaskId : ~Active(u)
  BY BcWebhooksAssumption DEF Begin
<1> QED
  BY <1>1, <1>3, <1>4 DEF Begin

LEMMA TokenTyped ==
  ASSUME BcTyped
  PROVE  Token \in Nat /\ Token # NoToken /\ (token # NoToken => Token = token)
         /\ Token <= minted + 1
BY BcWebhooksAssumption DEF BcTyped, TypeOK, Token, NoToken

LEMMA ListEffect ==
  ASSUME BcTyped, NEW t \in TaskId, List(t)
  PROVE  /\ Others(t) /\ task[t].stage = "list" /\ task'[t].stage = "scope"
         /\ task'[t].token = task[t].token /\ task'[t].todo = task[t].todo
         /\ \/ /\ task'[t].listed = hooks /\ task'[t].failed = task[t].failed
               /\ littered' = littered
            \/ task'[t].failed = TRUE /\ littered' = TRUE
         /\ UNCHANGED <<installed, token, minted, hooks, created, wired, leftover, requests,
                        silenced>>
<1> DEFINE v == [task[t] EXCEPT !.stage = "scope", !.listed = hooks]
           w == [task[t] EXCEPT !.stage = "scope", !.failed = TRUE]
<1>1. Active(t) /\ task[t].stage = "list" /\ hooks \subseteq Hook
  BY DEF List, Active, BcTyped, TypeOK
<1>2. /\ v \in Task /\ v.stage = "scope" /\ v.token = task[t].token
      /\ v.todo = task[t].todo /\ v.listed = hooks /\ v.failed = task[t].failed
  BY <1>1, TaskTyped DEF Task
<1>3. /\ w \in Task /\ w.stage = "scope" /\ w.token = task[t].token
      /\ w.todo = task[t].todo /\ w.failed = TRUE
  BY <1>1, TaskTyped DEF Task
<1>4. \/ task' = [task EXCEPT ![t] = v] /\ littered' = littered
      \/ task' = [task EXCEPT ![t] = w] /\ littered' = TRUE
  BY DEF List
<1> HIDE DEF v, w
<1>5. CASE task' = [task EXCEPT ![t] = v] /\ littered' = littered
  <2>1. Others(t) /\ task'[t] = v
    BY <1>2, <1>5, SlotTakes DEF Others
  <2> QED
    BY <1>1, <1>2, <1>5, <2>1 DEF List
<1>6. CASE task' = [task EXCEPT ![t] = w] /\ littered' = TRUE
  <2>1. Others(t) /\ task'[t] = w
    BY <1>3, <1>6, SlotTakes DEF Others
  <2> QED
    BY <1>1, <1>3, <1>6, <2>1 DEF List
<1> QED
  BY <1>4, <1>5, <1>6

\* A scope is done: the loop goes on, or the request ends and tells whether it was wired.
GoesOn(t, failed) ==
  \/ task'[t] = Idle /\ ScopesIn(task[t].todo) = {Head(task[t].todo)}
  \/ /\ task'[t] # Idle /\ task'[t].stage = "scope" /\ task'[t].token = task[t].token
     /\ task'[t].listed = task[t].listed /\ task'[t].failed = failed
     /\ task'[t].todo # <<>> /\ NoDuplicates(task'[t].todo)
     /\ ScopesIn(task'[t].todo) = ScopesIn(task[t].todo) \ {Head(task[t].todo)}

LEMMA GoesOnEffect ==
  ASSUME BcTyped, NEW t \in TaskId, task[t].stage \in Wiring,
         task' = [task EXCEPT ![t] = ScopeDone(task[t])]
  PROVE  Others(t) /\ GoesOn(t, task[t].failed) /\ task'[t] = ScopeDone(task[t])
<1>1. task[t] \in Task /\ task[t].todo # <<>> /\ NoDuplicates(task[t].todo)
  BY TaskTyped, WiringTyped
<1>2. Others(t) /\ task'[t] = ScopeDone(task[t])
  BY <1>1, ScopeDoneEffect, SlotTakes DEF Others
<1> QED
  BY <1>1, <1>2, ScopeDoneEffect DEF GoesOn

LEMMA AlreadyWiredEffect ==
  ASSUME BcTyped, NEW t \in TaskId, AlreadyWired(t)
  PROVE  /\ Others(t) /\ task[t].stage = "scope" /\ GoesOn(t, task[t].failed)
         /\ \E m \in task[t].listed : m.scope = Head(task[t].todo) /\ m.active
         /\ wired' = (task'[t] = Idle /\ ~task[t].failed)
         /\ UNCHANGED <<installed, token, minted, hooks, created, leftover, littered,
                        requests, silenced>>
<1>1. task[t].stage = "scope" /\ task[t].stage \in Wiring
  BY DEF AlreadyWired, Wiring
<1>2. Others(t) /\ GoesOn(t, task[t].failed) /\ task'[t] = ScopeDone(task[t])
  BY <1>1, GoesOnEffect DEF AlreadyWired
<1> QED
  BY <1>1, <1>2 DEF AlreadyWired, Matches

LEMMA RewireEffect ==
  ASSUME BcTyped, NEW t \in TaskId, Rewire(t)
  PROVE  /\ Others(t) /\ task[t].stage = "scope"
         /\ task'[t].token = task[t].token /\ task'[t].todo = task[t].todo
         /\ task'[t].listed = task[t].listed /\ task'[t].failed = task[t].failed
         /\ \/ /\ task'[t].stage = "create"
               /\ \A m \in task[t].listed : m.scope # Head(task[t].todo)
            \/ /\ task'[t].stage = "delete"
               /\ \E m \in task[t].listed :
                    m.scope = Head(task[t].todo) /\ task'[t].doomed = {m.id}
         /\ UNCHANGED <<installed, token, minted, hooks, created, wired, leftover, littered,
                        requests, silenced>>
<1>1. Active(t) /\ task[t].stage = "scope"
  BY DEF Rewire, Active
<1>2. CASE /\ Matches(t, Head(task[t].todo)) = {}
           /\ task' = [task EXCEPT ![t].stage = "create"]
  <2> DEFINE w == [task[t] EXCEPT !.stage = "create"]
  <2>1. /\ w \in Task /\ w.stage = "create" /\ w.token = task[t].token
        /\ w.todo = task[t].todo /\ w.listed = task[t].listed /\ w.failed = task[t].failed
    BY <1>1, TaskTyped DEF Task
  <2>2. task' = [task EXCEPT ![t] = w]
    BY <1>2
  <2> HIDE DEF w
  <2>3. Others(t) /\ task'[t] = w
    BY <2>1, <2>2, SlotTakes DEF Others
  <2>4. \A m \in task[t].listed : m.scope # Head(task[t].todo)
    BY <1>2 DEF Matches
  <2> QED
    BY <1>1, <2>1, <2>3, <2>4 DEF Rewire
<1>3. ASSUME NEW m \in Matches(t, Head(task[t].todo)),
             task' = [task EXCEPT ![t].stage = AfterMatch(m), ![t].doomed = {m.id}]
      PROVE  /\ Others(t)
             /\ task'[t].token = task[t].token /\ task'[t].todo = task[t].todo
             /\ task'[t].listed = task[t].listed /\ task'[t].failed = task[t].failed
             /\ task'[t].stage = "delete" /\ task'[t].doomed = {m.id}
             /\ m \in task[t].listed /\ m.scope = Head(task[t].todo)
  <2>1. m \in task[t].listed /\ m.scope = Head(task[t].todo) /\ m.id \in 1 .. MaxHooks
    BY <1>1, <1>3, TaskTyped DEF Matches, Hook
  <2> DEFINE w == [task[t] EXCEPT !.stage = "delete", !.doomed = {m.id}]
  <2>2. /\ w \in Task /\ w.stage = "delete" /\ w.token = task[t].token
        /\ w.todo = task[t].todo /\ w.listed = task[t].listed /\ w.failed = task[t].failed
        /\ w.doomed = {m.id}
    BY <1>1, <2>1, TaskTyped DEF Task
  <2>3. task' = [task EXCEPT ![t] = w]
    BY <1>3 DEF AfterMatch
  <2> HIDE DEF w
  <2>4. Others(t) /\ task'[t] = w
    BY <2>2, <2>3, SlotTakes DEF Others
  <2> QED
    BY <2>1, <2>2, <2>4
<1>4. UNCHANGED <<installed, token, minted, hooks, created, wired, leftover, littered,
                  requests, silenced>>
  BY DEF Rewire
<1>5. \/ /\ Matches(t, Head(task[t].todo)) = {}
         /\ task' = [task EXCEPT ![t].stage = "create"]
      \/ \E m \in Matches(t, Head(task[t].todo)) :
           task' = [task EXCEPT ![t].stage = AfterMatch(m), ![t].doomed = {m.id}]
  BY DEF Rewire
<1> QED
  BY <1>1, <1>2, <1>3, <1>4, <1>5

\* DELETE of a hook: it is gone, or a call has failed.
LEMMA DeleteHookEffect ==
  ASSUME BcTyped, NEW id \in 1 .. MaxHooks, DeleteHook(id)
  PROVE  /\ hooks' \subseteq hooks /\ littered' \in BOOLEAN
         /\ \A h \in hooks \ hooks' : h.id = id
         /\ \/ littered' = littered /\ \A h \in hooks' : h.id # id
            \/ littered' = TRUE /\ hooks' = hooks
         /\ installed \/ hooks' = hooks
BY DEF DeleteHook, BcTyped, TypeOK

LEMMA DeleteEffect ==
  ASSUME BcTyped, NEW t \in TaskId, Delete(t)
  PROVE  /\ Others(t) /\ task[t].stage = "delete"
         /\ task'[t].stage = "create" /\ task'[t].token = task[t].token
         /\ task'[t].todo = task[t].todo /\ task'[t].listed = task[t].listed
         /\ task'[t].failed = task[t].failed
         /\ \E id \in 1 .. MaxHooks : task[t].doomed = {id} /\ DeleteHook(id)
         /\ UNCHANGED <<installed, token, minted, created, wired, leftover, requests,
                        silenced>>
<1>1. Active(t) /\ task[t].stage = "delete"
  BY DEF Delete, Active
<1>2. PICK id \in 1 .. MaxHooks : task[t].doomed = {id}
  BY <1>1 DEF BcTyped, RequestsKnowTheirWork
<1>3. DeleteHook(id)
  BY <1>2 DEF Delete
<1> DEFINE w == [task[t] EXCEPT !.stage = "create", !.doomed = {}]
<1>4. /\ w \in Task /\ w.stage = "create" /\ w.token = task[t].token
      /\ w.todo = task[t].todo /\ w.listed = task[t].listed /\ w.failed = task[t].failed
  BY <1>1, TaskTyped DEF Task
<1>5. task' = [task EXCEPT ![t] = w]
  BY DEF Delete
<1> HIDE DEF w
<1>6. Others(t) /\ task'[t] = w
  BY <1>4, <1>5, SlotTakes DEF Others
<1> QED
  BY <1>1, <1>2, <1>3, <1>4, <1>6 DEF Delete

LEMMA CreateEffect ==
  ASSUME BcTyped, NEW t \in TaskId, Create(t)
  PROVE  /\ Others(t) /\ task[t].stage = "create" /\ GoesOn(t, task[t].failed)
         /\ created' = created + 1 /\ created' \in 1 .. MaxHooks
         /\ \E h \in Hook : /\ hooks' = hooks \cup {h}
                            /\ h.id = created' /\ h.scope = Head(task[t].todo)
                            /\ h.token = task[t].token /\ h.active
         /\ wired' = (task'[t] = Idle /\ ~task[t].failed)
         /\ UNCHANGED <<installed, token, minted, leftover, littered, requests, silenced>>
<1>1. task[t].stage = "create" /\ task[t].stage \in Wiring
  BY DEF Create, Wiring
<1>2. Others(t) /\ GoesOn(t, task[t].failed) /\ task'[t] = ScopeDone(task[t])
  BY <1>1, GoesOnEffect DEF Create
<1>3. created' = created + 1 /\ created' \in 1 .. MaxHooks
  BY BcWebhooksAssumption DEF Create, BcTyped, TypeOK
<1> DEFINE h == [id |-> created + 1, scope |-> Head(task[t].todo),
                 token |-> task[t].token, active |-> TRUE]
<1>4. /\ h \in Hook /\ h.id = created' /\ h.scope = Head(task[t].todo)
      /\ h.token = task[t].token /\ h.active
  BY <1>1, <1>3, WiringTyped, TaskTyped DEF Hook
<1>5. hooks' = hooks \cup {h}
  BY DEF Create
<1> HIDE DEF h
<1> QED
  BY <1>1, <1>2, <1>3, <1>4, <1>5 DEF Create

LEMMA CreateFailsEffect ==
  ASSUME BcTyped, NEW t \in TaskId, CreateFails(t)
  PROVE  /\ Others(t) /\ task[t].stage = "create" /\ GoesOn(t, TRUE)
         /\ UNCHANGED <<installed, token, minted, hooks, created, wired, leftover, littered,
                        requests, silenced>>
<1>1. task[t].stage = "create" /\ task[t].stage \in Wiring
  BY DEF CreateFails, Wiring
<1> DEFINE w == [task[t] EXCEPT !.failed = TRUE]
<1>2. /\ w \in Task /\ w.todo = task[t].todo /\ w.token = task[t].token
      /\ w.listed = task[t].listed /\ w.failed = TRUE
      /\ w.todo # <<>> /\ NoDuplicates(w.todo)
  BY <1>1, TaskTyped, WiringTyped DEF Task
<1>3. task' = [task EXCEPT ![t] = ScopeDone(w)]
  BY DEF CreateFails
<1> HIDE DEF w
<1>4. Others(t) /\ task'[t] = ScopeDone(w)
  BY <1>2, <1>3, ScopeDoneEffect, SlotTakes DEF Others
<1>5. GoesOn(t, TRUE)
  BY <1>2, <1>4, ScopeDoneEffect DEF GoesOn
<1> QED
  BY <1>1, <1>4, <1>5 DEF CreateFails

LEMMA ListToRemoveEffect ==
  ASSUME BcTyped, NEW t \in TaskId, ListToRemove(t)
  PROVE  /\ Others(t) /\ task[t].stage = "listRemove"
         /\ \/ /\ task'[t].failed = task[t].failed /\ littered' = littered
               /\ \/ task'[t].stage = "purge" /\ hooks = {}
                  \/ task'[t].stage = "remove" /\ \A h \in hooks : h.id \in task'[t].doomed
            \/ task'[t].stage = "purge" /\ task'[t].failed = TRUE /\ littered' = TRUE
         /\ UNCHANGED <<installed, token, minted, hooks, created, wired, leftover, requests,
                        silenced>>
<1>1. Active(t) /\ task[t].stage = "listRemove"
  BY DEF ListToRemove, Active
<1>2. ToRemove \subseteq 1 .. MaxHooks /\ (ToRemove = {} => hooks = {})
      /\ \A h \in hooks : h.id \in ToRemove
  BY DEF ToRemove, BcTyped, TypeOK, Hook
<1> DEFINE v == [task[t] EXCEPT !.doomed = ToRemove,
                                !.stage = IF ToRemove = {} THEN "purge" ELSE "remove"]
           w == [task[t] EXCEPT !.stage = "purge", !.failed = TRUE]
<1>3. /\ v \in Task /\ v.doomed = ToRemove /\ v.failed = task[t].failed
      /\ v.stage = IF ToRemove = {} THEN "purge" ELSE "remove"
  BY <1>1, <1>2, TaskTyped DEF Task
<1>4. w \in Task /\ w.stage = "purge" /\ w.failed = TRUE
  BY <1>1, TaskTyped DEF Task
<1>5. \/ task' = [task EXCEPT ![t] = v] /\ littered' = littered
      \/ task' = [task EXCEPT ![t] = w] /\ littered' = TRUE
  BY DEF ListToRemove
<1> HIDE DEF v, w
<1>6. UNCHANGED <<installed, token, minted, hooks, created, wired, leftover, requests, silenced>>
  BY DEF ListToRemove
<1>7. CASE task' = [task EXCEPT ![t] = v] /\ littered' = littered
  <2>1. Others(t) /\ task'[t] = v
    BY <1>3, <1>7, SlotTakes DEF Others
  <2> QED
    BY <1>1, <1>2, <1>3, <1>6, <1>7, <2>1
<1>8. CASE task' = [task EXCEPT ![t] = w] /\ littered' = TRUE
  <2>1. Others(t) /\ task'[t] = w
    BY <1>4, <1>8, SlotTakes DEF Others
  <2> QED
    BY <1>1, <1>4, <1>6, <1>8, <2>1
<1> QED
  BY <1>5, <1>7, <1>8

LEMMA RemoveEffect ==
  ASSUME BcTyped, NEW t \in TaskId, Remove(t)
  PROVE  /\ Others(t) /\ task[t].stage = "remove"
         /\ \E id \in 1 .. MaxHooks :
              /\ DeleteHook(id) /\ id \in task[t].doomed
              /\ task'[t].doomed = task[t].doomed \ {id}
              /\ task'[t].stage = IF task[t].doomed = {id} THEN "purge" ELSE "remove"
         /\ ~task'[t].failed => ~task[t].failed /\ hooks' # hooks
         /\ UNCHANGED <<installed, token, minted, created, wired, leftover, requests,
                        silenced>>
<1>1. Active(t) /\ task[t].stage = "remove"
  BY DEF Remove, Active
<1>2. PICK id \in task[t].doomed :
        /\ DeleteHook(id)
        /\ task' = [task EXCEPT ![t].doomed = @ \ {id},
                      ![t].failed = @ \/ hooks' = hooks,
                      ![t].stage = IF task[t].doomed = {id} THEN "purge" ELSE @]
  BY DEF Remove
<1>3. id \in 1 .. MaxHooks
  BY <1>1, TaskTyped
<1> DEFINE failed == task[t].failed \/ hooks' = hooks
           stage == IF task[t].doomed = {id} THEN "purge" ELSE "remove"
           w == [task[t] EXCEPT !.doomed = @ \ {id}, !.failed = failed, !.stage = stage]
<1>4. /\ w \in Task /\ w.doomed = task[t].doomed \ {id} /\ w.failed = failed
      /\ w.stage = stage
  BY <1>1, TaskTyped DEF Task
<1>5. task' = [task EXCEPT ![t] = w]
  BY <1>1, <1>2
<1> HIDE DEF w
<1>6. Others(t) /\ task'[t] = w
  BY <1>4, <1>5, SlotTakes DEF Others
<1>7. UNCHANGED <<installed, token, minted, created, wired, leftover, requests, silenced>>
  BY DEF Remove
<1> QED
  BY <1>1, <1>2, <1>3, <1>4, <1>6, <1>7

LEMMA PurgeEffect ==
  ASSUME BcTyped, NEW t \in TaskId, Purge(t)
  PROVE  /\ Others(t) /\ task[t].stage = "purge" /\ task'[t] = Idle
         /\ ~installed' /\ token' = NoToken /\ ~wired'
         /\ installed' \in BOOLEAN /\ wired' \in BOOLEAN
         /\ leftover \subseteq leftover' /\ leftover' \subseteq leftover \cup {h.id : h \in hooks}
         /\ task[t].failed => \A h \in hooks : h.id \in leftover'
         /\ task[t].failed \in BOOLEAN
         /\ UNCHANGED <<minted, hooks, created, littered, requests, silenced>>
<1>1. Active(t) /\ task[t].stage = "purge" /\ Others(t) /\ task'[t] = Idle
  BY SlotTakes DEF Purge, Active, Others
<1>2. /\ leftover \subseteq leftover' /\ leftover' \subseteq leftover \cup {h.id : h \in hooks}
      /\ task[t].failed => \A h \in hooks : h.id \in leftover'
      /\ task[t].failed \in BOOLEAN
  <2>1. task[t].failed \in BOOLEAN
    BY <1>1, TaskTyped DEF BcTyped, TypeOK
  <2>2. leftover' = IF task[t].failed THEN leftover \cup {h.id : h \in hooks} ELSE leftover
    BY DEF Purge
  <2> QED
    BY <2>1, <2>2
<1>3. /\ installed' = FALSE /\ token' = NoToken /\ wired' = FALSE
      /\ UNCHANGED <<minted, hooks, created, littered, requests, silenced>>
  BY DEF Purge
<1> QED
  BY <1>1, <1>2, <1>3

\* A deactivated hook is the hook it was; the requests under way are told.
LEMMA SilenceEffect ==
  ASSUME BcTyped, Silence
  PROVE  /\ task' \in [TaskId -> {Idle} \cup Task] /\ wired' = FALSE
         /\ \A t \in TaskId :
              /\ ~Active(t) => task'[t] = task[t]
              /\ Active(t) => task'[t].failed = TRUE
              /\ task'[t].stage = task[t].stage
              /\ Active(t) =>
                   /\ task'[t].token = task[t].token
                   /\ task'[t].listed = task[t].listed
                   /\ task'[t].todo = task[t].todo /\ task'[t].doomed = task[t].doomed
         /\ \E h \in hooks, g \in Hook :
              /\ hooks' = (hooks \ {h}) \cup {g}
              /\ g.id = h.id /\ g.scope = h.scope /\ g.token = h.token
         /\ silenced' \in 0 .. MaxSilenced
         /\ UNCHANGED <<installed, token, minted, created, leftover, littered, requests>>
<1>1. ASSUME NEW t \in TaskId, Active(t)
      PROVE  /\ [task[t] EXCEPT !.failed = TRUE] \in Task
             /\ task'[t] = [task[t] EXCEPT !.failed = TRUE]
             /\ task'[t].failed = TRUE /\ task'[t].stage = task[t].stage
             /\ task'[t].token = task[t].token /\ task'[t].listed = task[t].listed
             /\ task'[t].todo = task[t].todo /\ task'[t].doomed = task[t].doomed
  BY <1>1, TaskTyped DEF Silence, Task
<1>2. \A t \in TaskId : ~Active(t) => task'[t] = task[t]
  BY DEF Silence
<1>3. task' \in [TaskId -> {Idle} \cup Task]
  <2>1. task' = [t \in TaskId |-> IF Active(t) THEN [task[t] EXCEPT !.failed = TRUE]
                                              ELSE task[t]]
    BY DEF Silence
  <2>2. \A t \in TaskId : (IF Active(t) THEN [task[t] EXCEPT !.failed = TRUE] ELSE task[t])
                            \in {Idle} \cup Task
    BY <1>1 DEF BcTyped, TypeOK
  <2> QED
    BY <2>1, <2>2
<1>4. PICK h \in hooks : hooks' = (hooks \ {h}) \cup {[h EXCEPT !.active = FALSE]}
  BY DEF Silence
<1> DEFINE g == [h EXCEPT !.active = FALSE]
<1>5. g \in Hook /\ g.id = h.id /\ g.scope = h.scope /\ g.token = h.token
  BY DEF BcTyped, TypeOK, Hook
<1>6. silenced' \in 0 .. MaxSilenced
  BY BcWebhooksAssumption DEF Silence, BcTyped, TypeOK
<1>7. wired' = FALSE /\ UNCHANGED <<installed, token, minted, created, leftover, littered, requests>>
  BY DEF Silence
<1> HIDE DEF g
<1>8. hooks' = (hooks \ {h}) \cup {g}
  BY <1>4 DEF g
<1> QED
  BY <1>1, <1>2, <1>3, <1>5, <1>6, <1>7, <1>8

-----------------------------------------------------------------------------
(* Types. *)

LEMMA TypedInit ==
  ASSUME Init
  PROVE  BcTyped /\ \A t \in TaskId : task[t].stage = "idle"
<1>1. \A t \in TaskId : task[t] = Idle /\ task[t].stage = "idle"
  BY DEF Init, Idle
<1>2. TypeOK
  <2>1. MaxHooks \in Nat /\ MaxRequests \in Nat /\ MaxSilenced \in Nat
    BY BcWebhooksAssumption
  <2>2. task \in [TaskId -> {Idle} \cup Task] /\ hooks \subseteq Hook
    BY DEF Init
  <2>3. /\ minted \in 0 .. MaxRequests /\ token \in 0 .. minted /\ created \in 0 .. MaxHooks
        /\ requests \in 0 .. MaxRequests /\ silenced \in 0 .. MaxSilenced
    BY <2>1 DEF Init, NoToken
  <2> QED
    BY <2>2, <2>3 DEF Init, TypeOK
<1> QED
  BY <1>1, <1>2 DEF Init, BcTyped, RequestsKnowTheirWork, Wiring

\* The slots, where only that of t has changed.
LEMMA SlotsTyped ==
  ASSUME BcTyped, NEW t \in TaskId, Others(t), minted' <= requests',
         task'[t].stage \in Wiring => task'[t].todo # <<>> /\ NoDuplicates(task'[t].todo),
         task'[t].stage = "list" => task'[t].todo = Scopes,
         task'[t].stage = "delete" => \E id \in 1 .. MaxHooks : task'[t].doomed = {id}
  PROVE  RequestsKnowTheirWork' /\ task' \in [TaskId -> {Idle} \cup Task]
<1>1. \A u \in TaskId :
        /\ task'[u].stage \in Wiring => task'[u].todo # <<>> /\ NoDuplicates(task'[u].todo)
        /\ task'[u].stage = "list" => task'[u].todo = Scopes
        /\ task'[u].stage = "delete" => \E id \in 1 .. MaxHooks : task'[u].doomed = {id}
  BY DEF Others, BcTyped, RequestsKnowTheirWork
<1> QED
  BY <1>1 DEF RequestsKnowTheirWork, Others

LEMMA TypedStep ==
  ASSUME BcTyped, [Next]_vars
  PROVE  BcTyped'
<1>a. minted <= requests
  BY DEF BcTyped, RequestsKnowTheirWork
<1>1. ASSUME NEW t \in TaskId, Install(t) PROVE BcTyped'
  <2>1. /\ Others(t) /\ task'[t].stage = "list" /\ task'[t].todo = Scopes /\ wired' = FALSE
        /\ requests < MaxRequests /\ requests' = requests + 1
    BY <1>1, TokenTyped, BeginEffect DEF Install
  <2>2. Token \in Nat /\ Token <= minted + 1 /\ token' = Token
        /\ minted' = IF Token > minted THEN Token ELSE minted
    BY <1>1, TokenTyped DEF Install
  <2>3. /\ minted \in Nat /\ requests \in 0 .. MaxRequests /\ MaxRequests \in Nat
    BY BcWebhooksAssumption DEF BcTyped, TypeOK
  <2>4. /\ minted' <= requests' /\ minted' \in 0 .. MaxRequests /\ token' \in 0 .. minted'
        /\ requests' \in 0 .. MaxRequests
    BY <1>a, <2>1, <2>2, <2>3
  <2>5. RequestsKnowTheirWork' /\ task' \in [TaskId -> {Idle} \cup Task]
    BY <2>1, <2>4, SlotsTyped, BcWebhooksAssumption
  <2> QED
    BY <1>1, <2>1, <2>4, <2>5 DEF Install, BcTyped, TypeOK
<1>2. ASSUME NEW t \in TaskId, Uninstall(t) PROVE BcTyped'
  <2>1. token \in Nat
    BY BcWebhooksAssumption DEF BcTyped, TypeOK
  <2>2. /\ Others(t) /\ task'[t].stage = "listRemove" /\ wired' = FALSE
        /\ requests < MaxRequests /\ requests' = requests + 1
    BY <1>2, <2>1, BeginEffect DEF Uninstall
  <2>3. minted' <= requests' /\ requests' \in 0 .. MaxRequests
    BY <1>2, <1>a, <2>2, BcWebhooksAssumption DEF Uninstall, BcTyped, TypeOK
  <2>4. RequestsKnowTheirWork' /\ task' \in [TaskId -> {Idle} \cup Task]
    BY <2>2, <2>3, SlotsTyped DEF Wiring
  <2> QED
    BY <1>2, <2>2, <2>3, <2>4 DEF Uninstall, BcTyped, TypeOK
<1>3. ASSUME NEW t \in TaskId, List(t) PROVE BcTyped'
  <2>1. task[t].todo # <<>> /\ NoDuplicates(task[t].todo)
    BY <1>3, ListEffect, WiringTyped DEF Wiring
  <2>2. RequestsKnowTheirWork' /\ task' \in [TaskId -> {Idle} \cup Task]
    BY <1>a, <1>3, <2>1, ListEffect, SlotsTyped
  <2> QED
    BY <1>3, <2>2, ListEffect DEF BcTyped, TypeOK
<1>4. ASSUME NEW t \in TaskId, AlreadyWired(t) PROVE BcTyped'
  <2>1. RequestsKnowTheirWork' /\ task' \in [TaskId -> {Idle} \cup Task]
    BY <1>a, <1>4, AlreadyWiredEffect, SlotsTyped DEF GoesOn, Idle, Wiring
  <2> QED
    BY <1>4, <2>1, AlreadyWiredEffect DEF BcTyped, TypeOK
<1>5. ASSUME NEW t \in TaskId, Rewire(t) PROVE BcTyped'
  <2>1. task[t].todo # <<>> /\ NoDuplicates(task[t].todo) /\ task[t].listed \subseteq Hook
    BY <1>5, RewireEffect, WiringTyped, TaskTyped DEF Wiring
  <2>2. \A m \in task[t].listed : m.id \in 1 .. MaxHooks
    BY <2>1 DEF Hook
  <2>3. RequestsKnowTheirWork' /\ task' \in [TaskId -> {Idle} \cup Task]
    BY <1>a, <1>5, <2>1, <2>2, RewireEffect, SlotsTyped
  <2> QED
    BY <1>5, <2>3, RewireEffect DEF BcTyped, TypeOK
<1>6. ASSUME NEW t \in TaskId, Delete(t) PROVE BcTyped'
  <2>1. task[t].todo # <<>> /\ NoDuplicates(task[t].todo)
    BY <1>6, DeleteEffect, WiringTyped DEF Wiring
  <2>2. RequestsKnowTheirWork' /\ task' \in [TaskId -> {Idle} \cup Task]
    BY <1>a, <1>6, <2>1, DeleteEffect, SlotsTyped
  <2>3. hooks' \subseteq hooks /\ littered' \in BOOLEAN
    BY <1>6, DeleteEffect, DeleteHookEffect
  <2> QED
    BY <1>6, <2>2, <2>3, DeleteEffect DEF BcTyped, TypeOK
<1>7. ASSUME NEW t \in TaskId, Create(t) PROVE BcTyped'
  <2>1. RequestsKnowTheirWork' /\ task' \in [TaskId -> {Idle} \cup Task]
    BY <1>a, <1>7, CreateEffect, SlotsTyped DEF GoesOn, Idle, Wiring
  <2>2. hooks' \subseteq Hook
    BY <1>7, CreateEffect DEF BcTyped, TypeOK
  <2>3. created' \in 0 .. MaxHooks
    BY <1>7, CreateEffect, BcWebhooksAssumption
  <2> QED
    BY <1>7, <2>1, <2>2, <2>3, CreateEffect DEF BcTyped, TypeOK
<1>8. ASSUME NEW t \in TaskId, CreateFails(t) PROVE BcTyped'
  <2>1. RequestsKnowTheirWork' /\ task' \in [TaskId -> {Idle} \cup Task]
    <3>1. /\ Others(t) /\ minted' <= requests'
          /\ task'[t] = Idle \/ (/\ task'[t].stage = "scope" /\ task'[t].todo # <<>>
                                 /\ NoDuplicates(task'[t].todo))
      BY <1>a, <1>8, CreateFailsEffect DEF GoesOn
    <3> QED
      BY <3>1, SlotsTyped DEF Idle, Wiring
  <2> QED
    BY <1>8, <2>1, CreateFailsEffect DEF BcTyped, TypeOK
<1>9. ASSUME NEW t \in TaskId, ListToRemove(t) PROVE BcTyped'
  <2>1. RequestsKnowTheirWork' /\ task' \in [TaskId -> {Idle} \cup Task]
    BY <1>a, <1>9, ListToRemoveEffect, SlotsTyped DEF Wiring
  <2> QED
    BY <1>9, <2>1, ListToRemoveEffect DEF BcTyped, TypeOK
<1>b. ASSUME NEW t \in TaskId, Remove(t) PROVE BcTyped'
  <2>1. RequestsKnowTheirWork' /\ task' \in [TaskId -> {Idle} \cup Task]
    BY <1>a, <1>b, RemoveEffect, SlotsTyped DEF Wiring
  <2>2. hooks' \subseteq hooks /\ littered' \in BOOLEAN
    BY <1>b, RemoveEffect, DeleteHookEffect
  <2> QED
    BY <1>b, <2>1, <2>2, RemoveEffect DEF BcTyped, TypeOK
<1>c. ASSUME NEW t \in TaskId, Purge(t) PROVE BcTyped'
  <2>1. RequestsKnowTheirWork' /\ task' \in [TaskId -> {Idle} \cup Task]
    <3>1. Others(t) /\ minted' <= requests' /\ task'[t].stage = "idle"
      BY <1>a, <1>c, PurgeEffect DEF Idle
    <3> QED
      BY <3>1, SlotsTyped DEF Wiring
  <2>2. minted \in Nat /\ leftover' \subseteq 1 .. MaxHooks
    <3>1. \A h \in hooks : h.id \in 1 .. MaxHooks
      BY DEF BcTyped, TypeOK, Hook
    <3>2. leftover' \subseteq leftover \cup {h.id : h \in hooks}
      BY <1>c, PurgeEffect
    <3>3. minted \in Nat /\ leftover \subseteq 1 .. MaxHooks
      BY BcWebhooksAssumption DEF BcTyped, TypeOK
    <3> QED
      BY <3>1, <3>2, <3>3
  <2> QED
    BY <1>c, <2>1, <2>2, PurgeEffect DEF BcTyped, TypeOK, NoToken
<1>d. ASSUME Silence PROVE BcTyped'
  <2>1. hooks' \subseteq Hook
    BY <1>d, SilenceEffect DEF BcTyped, TypeOK
  <2>2. RequestsKnowTheirWork'
    <3>1. minted' <= requests'
      BY <1>a, <1>d, SilenceEffect
    <3>2. \A t \in TaskId : /\ task'[t].stage = task[t].stage
                            /\ Active(t) => /\ task'[t].todo = task[t].todo
                                            /\ task'[t].doomed = task[t].doomed
      BY <1>d, SilenceEffect
    <3>3. \A t \in TaskId : task[t].stage \in Wiring => Active(t)
      BY DEF Active, Wiring
    <3>4. "delete" \in Wiring /\ "list" \in Wiring
      BY DEF Wiring
    <3> QED
      BY <3>1, <3>2, <3>3, <3>4 DEF BcTyped, RequestsKnowTheirWork
  <2> QED
    BY <1>d, <2>1, <2>2, SilenceEffect DEF BcTyped, TypeOK
<1>e. CASE UNCHANGED vars
  BY <1>e DEF vars, BcTyped, TypeOK, RequestsKnowTheirWork
<1> QED
  BY <1>1, <1>2, <1>3, <1>4, <1>5, <1>6, <1>7, <1>8, <1>9, <1>b, <1>c, <1>d, <1>e DEF Next

\* Whatever overlaps or fails, the state is typed, and a request that wires scopes has one
\* to do, which is not among those it has done.
THEOREM WebhooksAreTyped == Spec => []BcTyped
<1>1. Init => BcTyped
  BY TypedInit
<1>2. BcTyped /\ [Next]_vars => BcTyped'
  BY TypedStep
<1> QED
  BY <1>1, <1>2, PTL DEF Spec

-----------------------------------------------------------------------------
(* One request at a time. *)

Moves(t) == \/ Install(t) \/ List(t) \/ AlreadyWired(t) \/ Rewire(t) \/ Delete(t)
            \/ Create(t) \/ CreateFails(t) \/ Uninstall(t) \/ ListToRemove(t) \/ Remove(t)
            \/ Purge(t)

\* A step is of a slot that was free, and all others with it, or of the one in use.
LEMMA MovesAlone ==
  ASSUME BcTyped, OneAtATime, ~Overlap, NEW t \in TaskId, Moves(t)
  PROVE  /\ Others(t)
         /\ \A u \in TaskId \ {t} : ~Active(u) /\ task'[u] = task[u] /\ task'[u].stage = "idle"
         /\ wired' => task'[t] = Idle
<1>1. CASE Install(t)
  <2>1. Begin(t, "list", Token)
    BY <1>1 DEF Install
  <2>2. Others(t) /\ wired' = FALSE /\ \A u \in TaskId : ~Active(u)
    BY <2>1, TokenTyped, BeginEffect
  <2> QED
    BY <2>2 DEF Others, Active
<1>2. CASE Uninstall(t)
  <2>1. Begin(t, "listRemove", token) /\ token \in Nat
    BY <1>2, BcWebhooksAssumption DEF Uninstall, BcTyped, TypeOK
  <2>2. Others(t) /\ wired' = FALSE /\ \A u \in TaskId : ~Active(u)
    BY <2>1, BeginEffect
  <2> QED
    BY <2>2 DEF Others, Active
<1>3. CASE ~Install(t) /\ ~Uninstall(t)
  <2>1. Active(t) /\ Others(t)
    BY <1>3, ListEffect, AlreadyWiredEffect, RewireEffect, DeleteEffect, CreateEffect,
       CreateFailsEffect, ListToRemoveEffect, RemoveEffect, PurgeEffect DEF Moves, Active
  <2>2. ~wired /\ \A u \in TaskId \ {t} : ~Active(u)
    BY <2>1 DEF OneAtATime
  <2>3. wired' => task'[t] = Idle
    BY <1>3, <2>2, ListEffect, AlreadyWiredEffect, RewireEffect, DeleteEffect, CreateEffect,
       CreateFailsEffect, ListToRemoveEffect, RemoveEffect, PurgeEffect DEF Moves
  <2> QED
    BY <2>1, <2>2, <2>3 DEF Others, Active
<1> QED
  BY <1>1, <1>2, <1>3

LEMMA NextMoves ==
  ASSUME [Next]_vars
  PROVE  \/ \E t \in TaskId : Moves(t)
         \/ Silence
         \/ UNCHANGED vars
BY DEF Next, Moves

LEMMA AloneStep ==
  ASSUME BcTyped, OneAtATime, ~Overlap, [Next]_vars
  PROVE  OneAtATime'
<1>1. ASSUME NEW t \in TaskId, Moves(t) PROVE OneAtATime'
  <2>1. /\ \A u \in TaskId : task'[u].stage # "idle" => u = t
        /\ wired' => task'[t].stage = "idle"
    BY <1>1, MovesAlone DEF Idle
  <2> QED
    BY <2>1 DEF OneAtATime, Active
<1>2. CASE Silence
  <2>1. wired' = FALSE /\ \A t \in TaskId : task'[t].stage = task[t].stage
    BY <1>2, SilenceEffect
  <2> QED
    BY <2>1 DEF OneAtATime, Active
<1>3. CASE UNCHANGED vars
  BY <1>3 DEF vars, OneAtATime, Active
<1> QED
  BY <1>1, <1>2, <1>3, NextMoves

-----------------------------------------------------------------------------
(* The token of the store, of its requests and of its hooks. *)

Tokens == TokenIsCurrent /\ OnlyLeftoversAreRefused

\* A step that makes no hook and touches no entry of the store.
LEMMA TokensKept ==
  ASSUME BcTyped, OneAtATime, ~Overlap, Tokens, NEW t \in TaskId, Moves(t),
         hooks' \subseteq hooks, UNCHANGED <<installed, token, leftover, minted>>,
         task'[t].stage \in Wiring =>
           task[t].stage \in Wiring /\ task'[t].token = task[t].token
  PROVE  Tokens'
<1>1. \A u \in TaskId : task'[u].stage \in Wiring => installed /\ task'[u].token = token
  BY MovesAlone DEF Tokens, TokenIsCurrent, Wiring
<1> QED
  BY <1>1 DEF Tokens, TokenIsCurrent, OnlyLeftoversAreRefused, Verifies

LEMMA TokensStep ==
  ASSUME BcTyped, OneAtATime, ~Overlap, Tokens, Unhooks, HookIdsDiffer, [Next]_vars
  PROVE  Tokens'
<1>1. ASSUME NEW t \in TaskId, Install(t) PROVE Tokens'
  <2>1. installed' = TRUE /\ token' = Token /\ UNCHANGED <<hooks, leftover>>
    BY <1>1 DEF Install
  <2>2. task'[t].token = Token /\ \A u \in TaskId \ {t} : task'[u].stage = "idle"
    BY <1>1, TokenTyped, BeginEffect, MovesAlone DEF Install, Moves
  <2>3. Token # NoToken /\ (installed => Token = token)
    BY TokenTyped DEF Tokens, TokenIsCurrent
  <2>6. minted \in Nat /\ minted' \in Nat /\ minted <= minted' /\ Token \in Nat
    BY <1>1, TokenTyped, BcWebhooksAssumption DEF Install, BcTyped, TypeOK
  <2>7. \A h \in hooks : h.token \in Nat /\ h.token <= minted
    BY DEF BcTyped, TypeOK, Hook, Tokens, TokenIsCurrent
  <2>4. TokenIsCurrent'
    <3>1. \A h \in hooks' : h.token <= minted'
      BY <2>1, <2>6, <2>7
    <3> QED
      BY <2>1, <2>2, <2>3, <3>1 DEF TokenIsCurrent, Wiring
  <2>5. OnlyLeftoversAreRefused'
    <3>1. CASE installed
      BY <2>1, <2>3, <3>1 DEF Tokens, OnlyLeftoversAreRefused, Verifies
    <3>2. CASE ~installed
      <4>1. Token = minted + 1
        BY <3>2 DEF Tokens, TokenIsCurrent, Token
      <4>2. \A h \in hooks : h.token # Token /\ h.id \in leftover
        BY <2>6, <2>7, <3>2, <4>1 DEF Tokens, TokenIsCurrent
      <4> QED
        BY <2>1, <4>2 DEF OnlyLeftoversAreRefused, Verifies
    <3> QED
      BY <3>1, <3>2
  <2> QED
    BY <2>4, <2>5 DEF Tokens
<1>2. ASSUME NEW t \in TaskId, Uninstall(t) PROVE Tokens'
  <2>1. task'[t].stage = "listRemove" /\ hooks' = hooks /\ UNCHANGED <<installed, token, leftover, minted>>
    <3>1. token \in Nat /\ Begin(t, "listRemove", token)
      BY <1>2, BcWebhooksAssumption DEF Uninstall, BcTyped, TypeOK
    <3> QED
      BY <1>2, <3>1, BeginEffect DEF Uninstall
  <2> QED
    BY <1>2, <2>1, TokensKept DEF Moves, Wiring
<1>3. ASSUME NEW t \in TaskId, List(t) PROVE Tokens'
  BY <1>3, ListEffect, TokensKept DEF Moves, Wiring
<1>4. ASSUME NEW t \in TaskId, AlreadyWired(t) PROVE Tokens'
  BY <1>4, AlreadyWiredEffect, TokensKept DEF Moves, Wiring, GoesOn, Idle
<1>5. ASSUME NEW t \in TaskId, Rewire(t) PROVE Tokens'
  BY <1>5, RewireEffect, TokensKept DEF Moves, Wiring
<1>6. ASSUME NEW t \in TaskId, Delete(t) PROVE Tokens'
  <2>1. hooks' \subseteq hooks
    BY <1>6, DeleteEffect, DeleteHookEffect
  <2> QED
    BY <1>6, <2>1, DeleteEffect, TokensKept DEF Moves, Wiring
<1>7. ASSUME NEW t \in TaskId, Create(t) PROVE Tokens'
  <2>1. installed /\ task[t].token = token
    BY <1>7, CreateEffect DEF Tokens, TokenIsCurrent, Wiring
  <2>2. PICK h \in Hook : /\ hooks' = hooks \cup {h} /\ h.token = task[t].token
                          /\ h.id = created + 1
    BY <1>7, CreateEffect
  <2>3. UNCHANGED <<installed, token, leftover, minted>>
    BY <1>7, CreateEffect
  <2>8. h.id \notin leftover
    BY <2>2, BcWebhooksAssumption DEF HookIdsDiffer, BcTyped, TypeOK
  <2>9. token <= minted
    BY BcWebhooksAssumption DEF BcTyped, TypeOK
  <2>4. task'[t].stage \in Wiring => task'[t].token = token
    <3>1. GoesOn(t, task[t].failed)
      BY <1>7, CreateEffect
    <3>2. task'[t] = Idle \/ task'[t].token = task[t].token
      BY <3>1 DEF GoesOn
    <3> QED
      BY <2>1, <3>2 DEF Idle, Wiring
  <2>5. \A u \in TaskId \ {t} : task'[u].stage = "idle"
    BY <1>7, MovesAlone DEF Moves
  <2>6. TokenIsCurrent'
    BY <2>1, <2>2, <2>3, <2>4, <2>5, <2>9 DEF Tokens, TokenIsCurrent, Wiring
  <2>7. OnlyLeftoversAreRefused'
    BY <2>1, <2>2, <2>3, <2>8 DEF Tokens, OnlyLeftoversAreRefused, Verifies
  <2> QED
    BY <2>6, <2>7 DEF Tokens
<1>8. ASSUME NEW t \in TaskId, CreateFails(t) PROVE Tokens'
  <2>1. /\ task'[t] = Idle \/ task'[t].token = task[t].token
        /\ hooks' = hooks /\ UNCHANGED <<installed, token, leftover, minted>> /\ task[t].stage = "create"
    BY <1>8, CreateFailsEffect DEF GoesOn
  <2>2. task'[t].stage \in Wiring => task'[t].token = task[t].token
    BY <2>1 DEF Idle, Wiring
  <2> QED
    BY <1>8, <2>1, <2>2, TokensKept DEF Moves, Wiring
<1>9. ASSUME NEW t \in TaskId, ListToRemove(t) PROVE Tokens'
  BY <1>9, ListToRemoveEffect, TokensKept DEF Moves, Wiring
<1>a. ASSUME NEW t \in TaskId, Remove(t) PROVE Tokens'
  <2>1. hooks' \subseteq hooks
    BY <1>a, RemoveEffect, DeleteHookEffect
  <2> QED
    BY <1>a, <2>1, RemoveEffect, TokensKept DEF Moves, Wiring
<1>b. ASSUME NEW t \in TaskId, Purge(t) PROVE Tokens'
  <2>1. /\ ~installed' /\ token' = NoToken /\ hooks' = hooks /\ minted' = minted
        /\ task[t].failed => \A h \in hooks : h.id \in leftover'
        /\ Active(t) /\ task[t].stage = "purge" /\ task'[t].stage = "idle"
    BY <1>b, PurgeEffect DEF Idle, Active
  <2>2. \A h \in hooks' : h.id \in leftover'
    BY <2>1 DEF Unhooks
  <2>3. \A u \in TaskId : task'[u].stage = "idle"
    BY <1>b, <2>1, MovesAlone DEF Moves
  <2> QED
    BY <2>1, <2>2, <2>3 DEF Tokens, TokenIsCurrent, OnlyLeftoversAreRefused, Wiring
<1>c. CASE Silence
  <2>1. PICK h \in hooks, g \in Hook :
          hooks' = (hooks \ {h}) \cup {g} /\ g.token = h.token /\ g.id = h.id
    BY <1>c, SilenceEffect
  <2>2. UNCHANGED <<installed, token, leftover, minted>>
    BY <1>c, SilenceEffect
  <2>3. \A t \in TaskId : task'[t].stage \in Wiring =>
          task[t].stage \in Wiring /\ task'[t].token = task[t].token
    BY <1>c, SilenceEffect DEF Active, Wiring
  <2>4. TokenIsCurrent'
    BY <2>1, <2>2, <2>3 DEF Tokens, TokenIsCurrent
  <2>5. OnlyLeftoversAreRefused'
    BY <2>1, <2>2 DEF Tokens, OnlyLeftoversAreRefused, Verifies
  <2> QED
    BY <2>4, <2>5 DEF Tokens
<1>d. CASE UNCHANGED vars
  BY <1>d DEF vars, Tokens, TokenIsCurrent, OnlyLeftoversAreRefused, Verifies
<1> QED
  BY <1>1, <1>2, <1>3, <1>4, <1>5, <1>6, <1>7, <1>8, <1>9, <1>a, <1>b, <1>c, <1>d, NextMoves
     DEF Moves

-----------------------------------------------------------------------------
(* What /uninstall has on its list. *)

LEMMA UnhooksStep ==
  ASSUME BcTyped, OneAtATime, ~Overlap, Unhooks, [Next]_vars
  PROVE  Unhooks'
<1>1. ASSUME NEW t \in TaskId, Moves(t),
             task'[t].stage # "idle" /\ ~task'[t].failed =>
               /\ task'[t].stage = "remove" => \A h \in hooks' : h.id \in task'[t].doomed
               /\ task'[t].stage = "purge" => hooks' = {}
      PROVE  Unhooks'
  BY <1>1, MovesAlone DEF Unhooks, Active
<1>2. ASSUME NEW t \in TaskId, ListToRemove(t) PROVE Unhooks'
  <2>1. Moves(t) /\ hooks' = hooks
    BY <1>2, ListToRemoveEffect DEF Moves
  <2>2. ~task'[t].failed =>
          /\ task'[t].stage = "remove" => \A h \in hooks : h.id \in task'[t].doomed
          /\ task'[t].stage = "purge" => hooks = {}
    BY <1>2, ListToRemoveEffect
  <2> QED
    BY <1>1, <2>1, <2>2
<1>3. ASSUME NEW t \in TaskId, Remove(t) PROVE Unhooks'
  <2>1. Moves(t) /\ Active(t) /\ task[t].stage = "remove"
    BY <1>3, RemoveEffect DEF Moves, Active
  <2>2. PICK id \in 1 .. MaxHooks :
          /\ DeleteHook(id)
          /\ task'[t].doomed = task[t].doomed \ {id}
          /\ task'[t].stage = IF task[t].doomed = {id} THEN "purge" ELSE "remove"
    BY <1>3, RemoveEffect
  <2>3. ASSUME ~task'[t].failed
        PROVE  /\ hooks' \subseteq hooks /\ \A h \in hooks' : h.id # id
               /\ \A h \in hooks : h.id \in task[t].doomed
    BY <1>3, <2>1, <2>2, <2>3, RemoveEffect, DeleteHookEffect DEF Unhooks
  <2> QED
    BY <1>1, <2>1, <2>2, <2>3
<1>4. ASSUME NEW t \in TaskId, Moves(t), ~ListToRemove(t), ~Remove(t) PROVE Unhooks'
  <2>1. Install(t) \/ Uninstall(t) => task'[t].stage \in {"list", "listRemove"}
    <3>1. token \in Nat
      BY BcWebhooksAssumption DEF BcTyped, TypeOK
    <3> QED
      BY <3>1, TokenTyped, BeginEffect DEF Install, Uninstall
  <2>2. AlreadyWired(t) \/ Create(t) \/ CreateFails(t) =>
          task'[t] = Idle \/ task'[t].stage = "scope"
    <3>1. AlreadyWired(t) => GoesOn(t, task[t].failed)
      BY AlreadyWiredEffect
    <3>2. Create(t) => GoesOn(t, task[t].failed)
      BY CreateEffect
    <3>3. CreateFails(t) => GoesOn(t, TRUE)
      BY CreateFailsEffect
    <3> QED
      BY <3>1, <3>2, <3>3 DEF GoesOn
  <2>3. task'[t].stage \notin {"remove", "purge"}
    <3>1. /\ List(t) => task'[t].stage = "scope"
          /\ Rewire(t) => task'[t].stage \in {"create", "delete"}
          /\ Delete(t) => task'[t].stage = "create"
          /\ Purge(t) => task'[t] = Idle
      BY ListEffect, RewireEffect, DeleteEffect, PurgeEffect
    <3>2. Idle.stage = "idle"
      BY DEF Idle
    <3> QED
      BY <1>4, <2>1, <2>2, <3>1, <3>2 DEF Moves
  <2> QED
    BY <1>1, <1>4, <2>3
<1>5. CASE Silence
  BY <1>5, SilenceEffect DEF Unhooks, Active
<1>6. CASE UNCHANGED vars
  BY <1>6 DEF vars, Unhooks, Active
<1> QED
  BY <1>2, <1>3, <1>4, <1>5, <1>6, NextMoves

-----------------------------------------------------------------------------
(* The ids of the hooks. *)

\* Only POST makes a hook, with an id of its own.
LEMMA HooksStep ==
  ASSUME BcTyped, [Next]_vars, ~Silence, \A t \in TaskId : ~Create(t)
  PROVE  hooks' \subseteq hooks /\ created' = created
<1>1. ASSUME NEW t \in TaskId, Delete(t) \/ Remove(t)
      PROVE  hooks' \subseteq hooks /\ created' = created
  BY <1>1, DeleteEffect, RemoveEffect, DeleteHookEffect
<1>2. ASSUME NEW t \in TaskId, Moves(t), ~Delete(t), ~Remove(t)
      PROVE  hooks' = hooks /\ created' = created
  BY <1>2 DEF Moves, Install, Uninstall, List, AlreadyWired, Rewire, Create, CreateFails,
              ListToRemove, Purge
<1> QED
  BY <1>1, <1>2, NextMoves DEF vars

LEMMA IdsStep ==
  ASSUME BcTyped, HookIdsDiffer, [Next]_vars
  PROVE  HookIdsDiffer'
<1>1. created \in Nat /\ \A h \in hooks : h.id \in Nat
  BY BcWebhooksAssumption DEF BcTyped, TypeOK, Hook
<1>2. ASSUME NEW t \in TaskId, Create(t) PROVE HookIdsDiffer'
  <2>1. PICK h \in Hook : hooks' = hooks \cup {h} /\ h.id = created + 1
    BY <1>2, CreateEffect
  <2>2. created' = created + 1 /\ leftover' = leftover
    BY <1>2, CreateEffect
  <2>3. \A g \in hooks : g.id < h.id
    BY <1>1, <2>1 DEF HookIdsDiffer
  <2>4. \A f, g \in hooks' : f.id = g.id => f = g
    BY <1>1, <2>1, <2>3 DEF HookIdsDiffer
  <2>5. \A g \in hooks' : g.id <= created'
    BY <1>1, <2>1, <2>2, <2>3
  <2>6. \A id \in leftover : id \in Nat /\ id <= created'
    BY <1>1, <2>2, BcWebhooksAssumption DEF HookIdsDiffer, BcTyped, TypeOK
  <2> QED
    BY <2>2, <2>4, <2>5, <2>6 DEF HookIdsDiffer
<1>3. CASE Silence
  <2>1. PICK h \in hooks, g \in Hook : hooks' = (hooks \ {h}) \cup {g} /\ g.id = h.id
    BY <1>3, SilenceEffect
  <2>2. created' = created /\ leftover' = leftover
    BY <1>3, SilenceEffect
  <2> QED
    BY <2>1, <2>2 DEF HookIdsDiffer
<1>4. CASE ~Silence /\ \A t \in TaskId : ~Create(t)
  <2>1. hooks' \subseteq hooks /\ created' = created
    BY <1>4, HooksStep
  <2>2. leftover' \subseteq leftover \cup {h.id : h \in hooks}
    <3>1. ASSUME NEW t \in TaskId, Moves(t), ~Purge(t) PROVE leftover' = leftover
      BY <3>1 DEF Moves, Install, Uninstall, List, AlreadyWired, Rewire, Delete, Create,
                  CreateFails, ListToRemove, Remove
    <3>2. ASSUME NEW t \in TaskId, Purge(t)
          PROVE  leftover' \subseteq leftover \cup {h.id : h \in hooks}
      BY <3>2, PurgeEffect
    <3>3. UNCHANGED vars => leftover' = leftover
      BY DEF vars
    <3> QED
      BY <1>4, <3>1, <3>2, <3>3, NextMoves
  <2> QED
    BY <2>1, <2>2 DEF HookIdsDiffer
<1> QED
  BY <1>2, <1>3, <1>4

-----------------------------------------------------------------------------
(* No scope has two hooks. *)

Listed == ScopesAreAsListed /\ OneHookPerScope

\* A step after which no scope is being worked on.
LEMMA ListedKept ==
  ASSUME BcTyped, OneAtATime, ~Overlap, Listed, NEW t \in TaskId, Moves(t),
         hooks' \subseteq hooks, ~littered' => ~littered,
         task'[t].stage \notin {"scope", "delete", "create"}
  PROVE  Listed'
<1>1. \A u \in TaskId : task'[u].stage \notin {"scope", "delete", "create"}
  BY MovesAlone
<1> QED
  BY <1>1 DEF Listed, ScopesAreAsListed, OneHookPerScope

\* The request at work on the scopes, after its step.
LEMMA ListedOfOne ==
  ASSUME BcTyped, OneAtATime, ~Overlap, NEW t \in TaskId, Moves(t),
         task'[t] # Idle /\ ~littered' =>
           /\ \A g, h \in task'[t].listed : g.scope = h.scope => g = h
           /\ \A h \in hooks' : h.scope \in ScopesIn(task'[t].todo) =>
                \E g \in task'[t].listed : g.id = h.id /\ g.scope = h.scope
           /\ task'[t].stage = "delete" =>
                \A h \in hooks' : h.scope = Head(task'[t].todo) => h.id \in task'[t].doomed
           /\ task'[t].stage = "create" => \A h \in hooks' : h.scope # Head(task'[t].todo)
  PROVE  ScopesAreAsListed'
<1>1. \A u \in TaskId : task'[u].stage \in {"scope", "delete", "create"} =>
        u = t /\ task'[t] # Idle
  BY MovesAlone DEF Idle
<1> QED
  BY <1>1 DEF ScopesAreAsListed

\* What is known of the request at work before its step.
LEMMA ListedNow ==
  ASSUME Listed, ~littered, NEW t \in TaskId, task[t].stage \in {"scope", "delete", "create"}
  PROVE  /\ \A g, h \in task[t].listed : g.scope = h.scope => g = h
         /\ \A h \in hooks : h.scope \in ScopesIn(task[t].todo) =>
              \E g \in task[t].listed : g.id = h.id /\ g.scope = h.scope
         /\ task[t].stage = "delete" =>
              \A h \in hooks : h.scope = Head(task[t].todo) => h.id \in task[t].doomed
         /\ task[t].stage = "create" => \A h \in hooks : h.scope # Head(task[t].todo)
BY DEF Listed, ScopesAreAsListed

LEMMA ListedStep ==
  ASSUME BcTyped, OneAtATime, ~Overlap, Listed, [Next]_vars
  PROVE  Listed'
<1>1. ASSUME NEW t \in TaskId, Install(t) PROVE Listed'
  <2>1. task'[t].stage = "list"
    BY <1>1, TokenTyped, BeginEffect DEF Install
  <2>2. hooks' = hooks /\ littered' = littered
    BY <1>1 DEF Install
  <2> QED
    BY <1>1, <2>1, <2>2, ListedKept DEF Moves
<1>2. ASSUME NEW t \in TaskId, Uninstall(t) PROVE Listed'
  <2>1. token \in Nat
    BY BcWebhooksAssumption DEF BcTyped, TypeOK
  <2>2. task'[t].stage = "listRemove"
    BY <1>2, <2>1, BeginEffect DEF Uninstall
  <2>3. hooks' = hooks /\ littered' = littered
    BY <1>2 DEF Uninstall
  <2> QED
    BY <1>2, <2>2, <2>3, ListedKept DEF Moves
<1>3. ASSUME NEW t \in TaskId, List(t) PROVE Listed'
  <2>1. /\ task'[t].stage = "scope" /\ hooks' = hooks
        /\ ~littered' => ~littered /\ task'[t].listed = hooks
    <3>1. littered \in BOOLEAN
      BY DEF BcTyped, TypeOK
    <3> QED
      BY <1>3, <3>1, ListEffect
  <2>2. OneHookPerScope'
    BY <2>1 DEF Listed, OneHookPerScope
  <2>3. ~littered' => \A g, h \in task'[t].listed : g.scope = h.scope => g = h
    BY <2>1 DEF Listed, OneHookPerScope
  <2>4. ScopesAreAsListed'
    BY <1>3, <2>1, <2>3, ListedOfOne DEF Moves
  <2> QED
    BY <2>2, <2>4 DEF Listed
<1>4. ASSUME NEW t \in TaskId, AlreadyWired(t) \/ CreateFails(t) PROVE Listed'
  <2>1. /\ task[t].stage \in {"scope", "create"} /\ UNCHANGED <<hooks, littered>>
        /\ \/ task'[t] = Idle
           \/ /\ task'[t].stage = "scope" /\ task'[t].listed = task[t].listed
              /\ ScopesIn(task'[t].todo) = ScopesIn(task[t].todo) \ {Head(task[t].todo)}
    <3>1. AlreadyWired(t) => /\ task[t].stage \in {"scope", "create"}
                             /\ UNCHANGED <<hooks, littered>>
                             /\ GoesOn(t, task[t].failed)
      BY AlreadyWiredEffect
    <3>2. CreateFails(t) => /\ task[t].stage \in {"scope", "create"}
                            /\ UNCHANGED <<hooks, littered>> /\ GoesOn(t, TRUE)
      BY CreateFailsEffect
    <3> QED
      BY <1>4, <3>1, <3>2 DEF GoesOn
  <2>2. OneHookPerScope'
    BY <2>1 DEF Listed, OneHookPerScope
  <2>3. task'[t] # Idle /\ ~littered' =>
          /\ \A g, h \in task'[t].listed : g.scope = h.scope => g = h
          /\ \A h \in hooks' : h.scope \in ScopesIn(task'[t].todo) =>
               \E g \in task'[t].listed : g.id = h.id /\ g.scope = h.scope
          /\ task'[t].stage # "delete" /\ task'[t].stage # "create"
    BY <2>1, ListedNow
  <2>4. ScopesAreAsListed'
    BY <1>4, <2>3, ListedOfOne DEF Moves
  <2> QED
    BY <2>2, <2>4 DEF Listed
<1>5. ASSUME NEW t \in TaskId, Rewire(t) PROVE Listed'
  <2>1. /\ task[t].stage = "scope" /\ UNCHANGED <<hooks, littered>>
        /\ task'[t].todo = task[t].todo /\ task'[t].listed = task[t].listed
    BY <1>5, RewireEffect
  <2>2. \/ /\ task'[t].stage = "create"
           /\ \A m \in task[t].listed : m.scope # Head(task[t].todo)
        \/ /\ task'[t].stage = "delete"
           /\ \E m \in task[t].listed :
                m.scope = Head(task[t].todo) /\ task'[t].doomed = {m.id}
    BY <1>5, RewireEffect
  <2>3. Head(task[t].todo) \in ScopesIn(task[t].todo)
    BY <2>1, WiringTyped DEF Wiring
  <2>4. ASSUME ~littered
        PROVE  /\ task'[t].stage = "delete" =>
                    \A h \in hooks : h.scope = Head(task[t].todo) => h.id \in task'[t].doomed
               /\ task'[t].stage = "create" => \A h \in hooks : h.scope # Head(task[t].todo)
    <3>1. /\ \A g, h \in task[t].listed : g.scope = h.scope => g = h
          /\ \A h \in hooks : h.scope \in ScopesIn(task[t].todo) =>
               \E g \in task[t].listed : g.id = h.id /\ g.scope = h.scope
      BY <2>1, <2>4, ListedNow
    <3>2. \A h \in hooks : h.scope = Head(task[t].todo) =>
            \E g \in task[t].listed : g.id = h.id /\ g.scope = Head(task[t].todo)
      BY <2>3, <3>1
    <3> QED
      BY <2>2, <3>1, <3>2
  <2>5. OneHookPerScope'
    BY <2>1 DEF Listed, OneHookPerScope
  <2>6. ~littered' =>
          /\ \A g, h \in task'[t].listed : g.scope = h.scope => g = h
          /\ \A h \in hooks' : h.scope \in ScopesIn(task'[t].todo) =>
               \E g \in task'[t].listed : g.id = h.id /\ g.scope = h.scope
    BY <2>1, ListedNow
  <2>7. ScopesAreAsListed'
    BY <1>5, <2>1, <2>4, <2>6, ListedOfOne DEF Moves
  <2> QED
    BY <2>5, <2>7 DEF Listed
<1>6. ASSUME NEW t \in TaskId, Delete(t) PROVE Listed'
  <2>1. /\ task[t].stage = "delete" /\ task'[t].stage = "create"
        /\ task'[t].todo = task[t].todo /\ task'[t].listed = task[t].listed
    BY <1>6, DeleteEffect
  <2>2. PICK id \in 1 .. MaxHooks : task[t].doomed = {id} /\ DeleteHook(id)
    BY <1>6, DeleteEffect
  <2>3. hooks' \subseteq hooks /\ (~littered' => ~littered /\ \A h \in hooks' : h.id # id)
    BY <2>2, DeleteHookEffect
  <2>4. OneHookPerScope'
    BY <2>3 DEF Listed, OneHookPerScope
  <2>5. ~littered' =>
          /\ \A g, h \in task'[t].listed : g.scope = h.scope => g = h
          /\ \A h \in hooks' : h.scope \in ScopesIn(task'[t].todo) =>
               \E g \in task'[t].listed : g.id = h.id /\ g.scope = h.scope
          /\ \A h \in hooks' : h.scope # Head(task'[t].todo)
    BY <2>1, <2>2, <2>3, ListedNow
  <2>6. ScopesAreAsListed'
    BY <1>6, <2>1, <2>5, ListedOfOne DEF Moves
  <2> QED
    BY <2>4, <2>6 DEF Listed
<1>7. ASSUME NEW t \in TaskId, Create(t) PROVE Listed'
  <2>1. /\ task[t].stage = "create" /\ littered' = littered
        /\ \/ task'[t] = Idle
           \/ /\ task'[t].stage = "scope" /\ task'[t].listed = task[t].listed
              /\ ScopesIn(task'[t].todo) = ScopesIn(task[t].todo) \ {Head(task[t].todo)}
    <3>1. task[t].stage = "create" /\ littered' = littered /\ GoesOn(t, task[t].failed)
      BY <1>7, CreateEffect
    <3> QED
      BY <3>1 DEF GoesOn
  <2>2. PICK h \in Hook : hooks' = hooks \cup {h} /\ h.scope = Head(task[t].todo)
    BY <1>7, CreateEffect
  <2>3. ~littered => \A g \in hooks : g.scope # h.scope
    BY <2>1, <2>2, ListedNow
  <2>4. OneHookPerScope'
    BY <2>1, <2>2, <2>3 DEF Listed, OneHookPerScope
  <2>5. task'[t] # Idle /\ ~littered' =>
          /\ \A f, g \in task'[t].listed : f.scope = g.scope => f = g
          /\ \A f \in hooks' : f.scope \in ScopesIn(task'[t].todo) =>
               \E g \in task'[t].listed : g.id = f.id /\ g.scope = f.scope
          /\ task'[t].stage # "delete" /\ task'[t].stage # "create"
    BY <2>1, <2>2, ListedNow
  <2>6. ScopesAreAsListed'
    BY <1>7, <2>5, ListedOfOne DEF Moves
  <2> QED
    BY <2>4, <2>6 DEF Listed
<1>8. ASSUME NEW t \in TaskId, ListToRemove(t) PROVE Listed'
  <2>1. hooks' = hooks /\ (~littered' => ~littered)
        /\ task'[t].stage \notin {"scope", "delete", "create"}
    <3>1. littered \in BOOLEAN
      BY DEF BcTyped, TypeOK
    <3> QED
      BY <1>8, <3>1, ListToRemoveEffect
  <2> QED
    BY <1>8, <2>1, ListedKept DEF Moves
<1>9. ASSUME NEW t \in TaskId, Remove(t) PROVE Listed'
  <2>1. hooks' \subseteq hooks /\ (~littered' => ~littered)
    BY <1>9, RemoveEffect, DeleteHookEffect
  <2>2. task'[t].stage \notin {"scope", "delete", "create"}
    BY <1>9, RemoveEffect
  <2> QED
    BY <1>9, <2>1, <2>2, ListedKept DEF Moves
<1>a. ASSUME NEW t \in TaskId, Purge(t) PROVE Listed'
  BY <1>a, PurgeEffect, ListedKept DEF Moves, Idle
<1>b. CASE Silence
  <2>1. PICK h \in hooks, g \in Hook :
          hooks' = (hooks \ {h}) \cup {g} /\ g.id = h.id /\ g.scope = h.scope
    BY <1>b, SilenceEffect
  <2>2. littered' = littered
    BY <1>b, SilenceEffect
  <2>3. \A t \in TaskId : task'[t].stage \in {"scope", "delete", "create"} =>
          /\ task[t].stage = task'[t].stage
          /\ task'[t].listed = task[t].listed /\ task'[t].todo = task[t].todo
          /\ task'[t].doomed = task[t].doomed
    BY <1>b, SilenceEffect DEF Active
  <2>4. OneHookPerScope'
    BY <2>1, <2>2 DEF Listed, OneHookPerScope
  <2>5. \A f \in hooks' : \E e \in hooks : e.id = f.id /\ e.scope = f.scope
    BY <2>1
  <2>6. ScopesAreAsListed'
    <3> SUFFICES ASSUME ~littered, NEW t \in TaskId,
                        task'[t].stage \in {"scope", "delete", "create"}
                 PROVE  /\ \A f, e \in task'[t].listed : f.scope = e.scope => f = e
                        /\ \A f \in hooks' : f.scope \in ScopesIn(task'[t].todo) =>
                             \E e \in task'[t].listed : e.id = f.id /\ e.scope = f.scope
                        /\ task'[t].stage = "delete" =>
                             \A f \in hooks' : f.scope = Head(task'[t].todo) =>
                               f.id \in task'[t].doomed
                        /\ task'[t].stage = "create" =>
                             \A f \in hooks' : f.scope # Head(task'[t].todo)
      BY <2>2 DEF ScopesAreAsListed
    <3> QED
      BY <2>3, <2>5, ListedNow
  <2> QED
    BY <2>4, <2>6 DEF Listed
<1>c. CASE UNCHANGED vars
  BY <1>c DEF vars, Listed, ScopesAreAsListed, OneHookPerScope
<1> QED
  BY <1>1, <1>2, <1>3, <1>4, <1>5, <1>6, <1>7, <1>8, <1>9, <1>a, <1>b, <1>c, NextMoves
     DEF Moves

-----------------------------------------------------------------------------
(* While nothing fails, the scopes that are done are heard. *)

Heard == DoneScopesAreHeard /\ EveryScopeIsHeard

\* What is known of the request at work before its step.
LEMMA HeardNow ==
  ASSUME Heard, NEW t \in TaskId, task[t].stage \in {"scope", "delete", "create"},
         ~task[t].failed
  PROVE  /\ \A s \in Scope \ ScopesIn(task[t].todo) : \E h \in hooks : h.scope = s /\ h.active
         /\ \A m \in task[t].listed :
              /\ m.scope \in ScopesIn(task[t].todo)
              /\ task[t].stage = "scope" \/ m.scope # Head(task[t].todo)
              => m \in hooks
         /\ task[t].stage = "delete" =>
              \E m \in hooks : task[t].doomed = {m.id} /\ m.scope = Head(task[t].todo)
BY DEF Heard, DoneScopesAreHeard

\* The request at work, after its step.
LEMMA HeardOfOne ==
  ASSUME BcTyped, OneAtATime, ~Overlap, NEW t \in TaskId, Moves(t), task'[t] # Idle,
         task'[t].stage \in {"scope", "delete", "create"} /\ ~task'[t].failed =>
           /\ \A s \in Scope \ ScopesIn(task'[t].todo) :
                \E h \in hooks' : h.scope = s /\ h.active
           /\ \A m \in task'[t].listed :
                /\ m.scope \in ScopesIn(task'[t].todo)
                /\ task'[t].stage = "scope" \/ m.scope # Head(task'[t].todo)
                => m \in hooks'
           /\ task'[t].stage = "delete" =>
                \E m \in hooks' : task'[t].doomed = {m.id} /\ m.scope = Head(task'[t].todo)
  PROVE  Heard'
<1>1. ~wired' /\ \A u \in TaskId : task'[u].stage \in {"scope", "delete", "create"} => u = t
  BY MovesAlone
<1> QED
  BY <1>1 DEF Heard, DoneScopesAreHeard, EveryScopeIsHeard

\* The request has ended.
LEMMA HeardAtTheEnd ==
  ASSUME BcTyped, OneAtATime, ~Overlap, TokenIsCurrent', OnlyLeftoversAreRefused',
         NEW t \in TaskId, Moves(t), task'[t] = Idle,
         wired' => /\ installed'
                   /\ \A s \in Scope : \E h \in hooks' : h.scope = s /\ h.active
  PROVE  Heard'
<1>1. \A u \in TaskId : task'[u].stage \notin {"scope", "delete", "create"}
  BY MovesAlone DEF Idle
<1>2. DoneScopesAreHeard'
  BY <1>1 DEF DoneScopesAreHeard
<1>3. EveryScopeIsHeard'
  <2> SUFFICES ASSUME wired', NEW s \in Scope
               PROVE  \E h \in hooks' : /\ h.scope = s /\ h.active
                                        /\ Verifies(h)' \/ h.id \in leftover'
    BY DEF EveryScopeIsHeard
  <2>1. PICK h \in hooks' : h.scope = s /\ h.active
    OBVIOUS
  <2>2. Verifies(h)' \/ h.id \in leftover'
    BY <2>1 DEF OnlyLeftoversAreRefused
  <2> QED
    BY <2>1, <2>2
<1> QED
  BY <1>2, <1>3 DEF Heard

\* The loop has done the first of the scopes to do.
LEMMA HeardGoesOn ==
  ASSUME BcTyped, OneAtATime, ~Overlap, TokenIsCurrent, TokenIsCurrent', OnlyLeftoversAreRefused',
         Heard, NEW t \in TaskId, AlreadyWired(t) \/ Create(t),
         hooks \subseteq hooks',
         ~task[t].failed => \E h \in hooks' : h.scope = Head(task[t].todo) /\ h.active
  PROVE  Heard'
<1>1. /\ task[t].stage \in {"scope", "create"} /\ GoesOn(t, task[t].failed)
      /\ wired' = (task'[t] = Idle /\ ~task[t].failed) /\ installed' = installed
  BY AlreadyWiredEffect, CreateEffect
<1>2. installed /\ Moves(t)
  BY <1>1 DEF TokenIsCurrent, Wiring, Moves
<1>3. ~task[t].failed =>
        /\ \A s \in Scope \ (ScopesIn(task[t].todo) \ {Head(task[t].todo)}) :
             \E h \in hooks' : h.scope = s /\ h.active
        /\ \A m \in task[t].listed :
             m.scope \in ScopesIn(task[t].todo) \ {Head(task[t].todo)} => m \in hooks'
  BY <1>1, HeardNow
<1>4. CASE task'[t] = Idle
  <2>1. CASE ScopesIn(task[t].todo) = {Head(task[t].todo)}
    BY <1>1, <1>2, <1>3, <1>4, <2>1, HeardAtTheEnd
  <2>2. CASE ScopesIn(task[t].todo) # {Head(task[t].todo)}
    BY <1>1, <1>4, <2>2 DEF GoesOn
  <2> QED
    BY <2>1, <2>2
<1>5. CASE task'[t] # Idle
  <2>1. /\ task'[t].stage = "scope" /\ task'[t].listed = task[t].listed
        /\ task'[t].failed = task[t].failed
        /\ ScopesIn(task'[t].todo) = ScopesIn(task[t].todo) \ {Head(task[t].todo)}
    BY <1>1, <1>5 DEF GoesOn
  <2> QED
    BY <1>2, <1>3, <1>5, <2>1, HeardOfOne
<1> QED
  BY <1>4, <1>5

LEMMA HeardStep ==
  ASSUME BcTyped, OneAtATime, ~Overlap, TokenIsCurrent, TokenIsCurrent', OnlyLeftoversAreRefused',
         HookIdsDiffer, Heard, [Next]_vars
  PROVE  Heard'
<1>1. ASSUME NEW t \in TaskId, Install(t) PROVE Heard'
  <2>1. task'[t].stage = "list"
    BY <1>1, TokenTyped, BeginEffect DEF Install
  <2>2. task'[t] # Idle
    BY <2>1 DEF Idle
  <2> QED
    BY <1>1, <2>1, <2>2, HeardOfOne DEF Moves
<1>2. ASSUME NEW t \in TaskId, Uninstall(t) PROVE Heard'
  <2>1. token \in Nat
    BY BcWebhooksAssumption DEF BcTyped, TypeOK
  <2>2. task'[t].stage = "listRemove"
    BY <1>2, <2>1, BeginEffect DEF Uninstall
  <2>3. task'[t] # Idle
    BY <2>2 DEF Idle
  <2> QED
    BY <1>2, <2>2, <2>3, HeardOfOne DEF Moves
<1>3. ASSUME NEW t \in TaskId, List(t) PROVE Heard'
  <2>1. /\ task[t].stage = "list" /\ task'[t].stage = "scope"
        /\ task'[t].todo = task[t].todo /\ hooks' = hooks
        /\ ~task'[t].failed => task'[t].listed = hooks
    BY <1>3, ListEffect
  <2>2. ScopesIn(task'[t].todo) = Scope
    BY <2>1, BcWebhooksAssumption DEF BcTyped, RequestsKnowTheirWork
  <2>3. task'[t] # Idle
    BY <2>1 DEF Idle
  <2> QED
    BY <1>3, <2>1, <2>2, <2>3, HeardOfOne DEF Moves
<1>4. ASSUME NEW t \in TaskId, AlreadyWired(t) PROVE Heard'
  <2>1. /\ task[t].stage = "scope" /\ hooks' = hooks
        /\ \E m \in task[t].listed : m.scope = Head(task[t].todo) /\ m.active
    BY <1>4, AlreadyWiredEffect
  <2>2. Head(task[t].todo) \in ScopesIn(task[t].todo)
    BY <2>1, WiringTyped DEF Wiring
  <2>3. ~task[t].failed => \E h \in hooks' : h.scope = Head(task[t].todo) /\ h.active
    BY <2>1, <2>2, HeardNow
  <2> QED
    BY <1>4, <2>1, <2>3, HeardGoesOn
<1>5. ASSUME NEW t \in TaskId, Rewire(t) PROVE Heard'
  <2>1. /\ task[t].stage = "scope" /\ hooks' = hooks /\ task'[t].todo = task[t].todo
        /\ task'[t].listed = task[t].listed /\ task'[t].failed = task[t].failed
    BY <1>5, RewireEffect
  <2>2. \/ task'[t].stage = "create"
        \/ /\ task'[t].stage = "delete"
           /\ \E m \in task[t].listed :
                m.scope = Head(task[t].todo) /\ task'[t].doomed = {m.id}
    BY <1>5, RewireEffect
  <2>3. Head(task[t].todo) \in ScopesIn(task[t].todo) /\ task'[t] # Idle
    BY <2>1, <2>2, WiringTyped DEF Wiring, Idle
  <2> QED
    BY <1>5, <2>1, <2>2, <2>3, HeardNow, HeardOfOne DEF Moves
<1>6. ASSUME NEW t \in TaskId, Delete(t) PROVE Heard'
  <2>1. /\ task[t].stage = "delete" /\ task'[t].stage = "create"
        /\ task'[t].todo = task[t].todo /\ task'[t].listed = task[t].listed
        /\ task'[t].failed = task[t].failed
    BY <1>6, DeleteEffect
  <2>2. PICK id \in 1 .. MaxHooks : task[t].doomed = {id} /\ DeleteHook(id)
    BY <1>6, DeleteEffect
  <2>3. \A h \in hooks \ hooks' : h.id = id
    BY <2>2, DeleteHookEffect
  <2>4. Head(task[t].todo) \in ScopesIn(task[t].todo) /\ task'[t] # Idle
    BY <2>1, WiringTyped DEF Wiring, Idle
  <2>5. ASSUME ~task[t].failed
        PROVE  \A h \in hooks : h.scope # Head(task[t].todo) => h \in hooks'
    <3>1. PICK m \in hooks : id = m.id /\ m.scope = Head(task[t].todo)
      BY <2>1, <2>2, <2>5, HeardNow
    <3> QED
      BY <2>3, <3>1 DEF HookIdsDiffer
  <2> QED
    BY <1>6, <2>1, <2>4, <2>5, HeardNow, HeardOfOne DEF Moves
<1>7. ASSUME NEW t \in TaskId, Create(t) PROVE Heard'
  <2>1. /\ hooks \subseteq hooks'
        /\ \E h \in hooks' : h.scope = Head(task[t].todo) /\ h.active
    BY <1>7, CreateEffect
  <2> QED
    BY <1>7, <2>1, HeardGoesOn
<1>8. ASSUME NEW t \in TaskId, CreateFails(t) PROVE Heard'
  <2>1. GoesOn(t, TRUE) /\ wired' = wired /\ Active(t) /\ Moves(t)
    BY <1>8, CreateFailsEffect DEF Active, Moves
  <2>2. task'[t] # Idle => task'[t].failed = TRUE
    BY <2>1 DEF GoesOn
  <2>3. ~wired'
    BY <2>1 DEF OneAtATime
  <2> QED
    BY <2>1, <2>2, <2>3, HeardOfOne, HeardAtTheEnd
<1>9. ASSUME NEW t \in TaskId, ListToRemove(t) \/ Remove(t) PROVE Heard'
  <2>1. task'[t].stage \in {"purge", "remove"}
    BY <1>9, ListToRemoveEffect, RemoveEffect
  <2>2. task'[t] # Idle
    BY <2>1 DEF Idle
  <2> QED
    BY <1>9, <2>1, <2>2, HeardOfOne DEF Moves
<1>a. ASSUME NEW t \in TaskId, Purge(t) PROVE Heard'
  BY <1>a, PurgeEffect, HeardAtTheEnd DEF Moves
<1>b. CASE Silence
  <2>1. wired' = FALSE
    BY <1>b, SilenceEffect
  <2>2. \A t \in TaskId : task'[t].stage \in {"scope", "delete", "create"} => task'[t].failed
    BY <1>b, SilenceEffect DEF Active
  <2> QED
    BY <2>1, <2>2 DEF Heard, DoneScopesAreHeard, EveryScopeIsHeard
<1>c. CASE UNCHANGED vars
  BY <1>c DEF vars, Heard, DoneScopesAreHeard, EveryScopeIsHeard, Verifies
<1> QED
  BY <1>1, <1>2, <1>3, <1>4, <1>5, <1>6, <1>7, <1>8, <1>9, <1>a, <1>b, <1>c, NextMoves
     DEF Moves

-----------------------------------------------------------------------------
(* The properties. *)

\* One request after the other: what is known of the hooks, their tokens and the requests.
THEOREM WebhooksAreSound ==
  ASSUME ~Overlap
  PROVE  Spec => []BcIInv
<1> DEFINE Inv == /\ BcTyped /\ OneAtATime /\ Tokens /\ Unhooks /\ HookIdsDiffer
                  /\ Listed /\ Heard
<1>1. Init => Inv
  <2> SUFFICES ASSUME Init PROVE Inv
    OBVIOUS
  <2>1. /\ BcTyped /\ \A t \in TaskId : task[t].stage = "idle"
        /\ hooks = {} /\ ~installed /\ token = NoToken /\ ~wired /\ leftover = {}
    BY TypedInit DEF Init
  <2>2. OneAtATime /\ Unhooks
    BY <2>1 DEF OneAtATime, Unhooks, Active
  <2>3. Tokens /\ HookIdsDiffer
    BY <2>1 DEF Tokens, TokenIsCurrent, OnlyLeftoversAreRefused, HookIdsDiffer, Wiring
  <2>4. Listed /\ Heard
    BY <2>1 DEF Listed, ScopesAreAsListed, OneHookPerScope, Heard, DoneScopesAreHeard,
                EveryScopeIsHeard
  <2> QED
    BY <2>1, <2>2, <2>3, <2>4
<1>2. Inv /\ [Next]_vars => Inv'
  <2> SUFFICES ASSUME Inv, [Next]_vars PROVE Inv'
    OBVIOUS
  <2>1. BcTyped' /\ OneAtATime' /\ Tokens' /\ Unhooks' /\ HookIdsDiffer' /\ Listed'
    BY TypedStep, AloneStep, TokensStep, UnhooksStep, IdsStep, ListedStep
  <2>2. Heard'
    BY <2>1, HeardStep DEF Tokens
  <2> QED
    BY <2>1, <2>2
<1>3. Inv => BcIInv
  BY DEF BcTyped, Tokens, Listed, Heard, BcIInv
<1> QED
  BY <1>1, <1>2, <1>3, PTL DEF Spec

\* ensureBigCommerceWebhooks: after an /auth that met no failure every scope has an
\* active hook, and its deliveries verify unless an /uninstall failed to delete it:
\* `match && match.is_active` does not look at the token.
THEOREM AuthIsHeard ==
  ASSUME ~Overlap
  PROVE  Spec => []EveryScopeIsHeard
<1>1. BcIInv => EveryScopeIsHeard
  BY DEF BcIInv
<1> QED
  BY <1>1, WebhooksAreSound, PTL

\* authenticateDelivery of an installed store refuses the deliveries of the hooks that an
\* /uninstall failed to delete, and no others, at any moment of an /auth or /uninstall.
THEOREM RefusedAreLeftovers ==
  ASSUME ~Overlap
  PROVE  Spec => []OnlyLeftoversAreRefused
<1>1. BcIInv => OnlyLeftoversAreRefused
  BY DEF BcIInv
<1> QED
  BY <1>1, WebhooksAreSound, PTL

\* No scope has two hooks, unless one could not be listed or deleted.
THEOREM ScopesHaveOneHook ==
  ASSUME ~Overlap
  PROVE  Spec => []OneHookPerScope
<1>1. BcIInv => OneHookPerScope
  BY DEF BcIInv
<1> QED
  BY <1>1, WebhooksAreSound, PTL
=============================================================================
