------------------------- MODULE TelenowHooksProofs -------------------------
(***************************************************************************)
(* Proofs about TelenowHooks: for any stores, keys, faults and numbers of    *)
(* requests, where requests come one after the other and no two stores use   *)
(* one Telenow account.                                                      *)
(***************************************************************************)
EXTENDS TelenowHooks, TLAPS

LEMMA HookIds ==
  /\ NoHook \notin HookId /\ HookId \subseteq Nat
  /\ \A h \in HookId \cup {NoHook} : h < MaxHooks => h + 1 \in HookId
BY HooksAssumption DEF HookId, NoHook

LEMMA TaskTyped ==
  ASSUME TypeOK, NEW t \in TaskId, Active(t)
  PROVE  /\ task[t] \in Task /\ task[t].stage \in Stage /\ task[t].store \in Store
         /\ task[t].key \in ApiKey \cup {NoKey} /\ task[t].local \in HookId \cup {NoHook}
         /\ task[t].id \in HookId \cup {NoHook}
<1>1. task[t] \in Task
  BY DEF TypeOK, Active, Idle
<1> QED
  BY <1>1 DEF Task

\* A slot takes a task, or is emptied; the others stay.
LEMMA SlotTakes ==
  ASSUME TypeOK, NEW t \in TaskId, NEW w \in {Idle} \cup Task,
         task' = [task EXCEPT ![t] = w]
  PROVE  /\ task' \in [TaskId -> {Idle} \cup Task] /\ task'[t] = w
         /\ \A u \in TaskId \ {t} : task'[u] = task[u]
BY DEF TypeOK

LEMMA NewTaskTyped ==
  ASSUME NEW stage \in {"me", "bcHooks", "bcRemove"}, NEW s \in Store
  PROVE  /\ NewTask(stage, s) \in Task /\ NewTask(stage, s).stage = stage
         /\ NewTask(stage, s).store = s
BY DEF NewTask, Task, Stage

LEMMA ListingTyped ==
  ASSUME TypeOK, NEW s \in Store
  PROVE  /\ Listing(s) \in Task /\ Listing(s).stage = "list" /\ Listing(s).store = s
         /\ Listing(s).key = key[s] /\ Listing(s).local = hook[s]
<1>1. key[s] \in ApiKey \cup {NoKey} /\ hook[s] \in HookId \cup {NoHook}
  BY DEF TypeOK
<1> QED
  BY <1>1 DEF Listing, Task, Stage

HooksTyped == TypeOK /\ RequestsHaveKeys

-----------------------------------------------------------------------------
(* What each step does to the slots. *)

LEMMA KeySet ==
  ASSUME HooksTyped, NEW s \in Store, s \in installed, NEW k \in KeysOf[s], SetKey(s, k)
  PROVE  /\ key' \in [Store -> ApiKey \cup {NoKey}] /\ connected' \subseteq connected
         /\ key'[s] = k /\ \A r \in Store \ {s} : key'[r] = key[r]
         /\ \A r \in Store : key'[r] \in KeysOf[r] \cup {NoKey}
         /\ \A r \in connected' : key'[r] = key[r]
<1>1. k \in ApiKey
  BY HooksAssumption
<1> QED
  BY <1>1 DEF HooksTyped, TypeOK, RequestsHaveKeys, SetKey

LEMMA EnsureEffect ==
  ASSUME HooksTyped, NEW t \in TaskId, Ensure(t)
  PROVE  /\ Active(t) /\ task' \in [TaskId -> {Idle} \cup Task]
         /\ \/ task'[t] = Idle
            \/ /\ task'[t].stage = "list" /\ task'[t].store = task[t].store
               /\ task'[t].key = key[task[t].store] /\ task'[t].key \in ApiKey
               /\ task'[t].local = hook[task[t].store]
         /\ \A u \in TaskId \ {t} : task'[u] = task[u]
         /\ UNCHANGED <<installed, key, hook, remote, created, connected, saved,
                        littered, requests>>
<1> DEFINE s == task[t].store
<1>1. Active(t) /\ s \in Store
  BY TaskTyped DEF Ensure, Active, HooksTyped
<1>2. task' = [task EXCEPT ![t] = IF key[s] = NoKey THEN Idle ELSE Listing(s)]
  BY DEF Ensure
<1>3. /\ Listing(s) \in Task /\ Listing(s).stage = "list" /\ Listing(s).store = s
      /\ Listing(s).key = key[s] /\ Listing(s).local = hook[s]
  BY <1>1, ListingTyped DEF HooksTyped
<1> HIDE DEF s
<1>4. /\ task' \in [TaskId -> {Idle} \cup Task]
      /\ task'[t] = IF key[s] = NoKey THEN Idle ELSE Listing(s)
      /\ \A u \in TaskId \ {t} : task'[u] = task[u]
  BY <1>2, <1>3, SlotTakes DEF HooksTyped
<1>5. key[s] # NoKey => key[s] \in ApiKey
  BY <1>1 DEF HooksTyped, TypeOK
<1> QED
  BY <1>1, <1>3, <1>4, <1>5 DEF Ensure, s

LEMMA EndEffect ==
  ASSUME HooksTyped, NEW t \in TaskId, End(t)
  PROVE  /\ task' \in [TaskId -> {Idle} \cup Task] /\ task'[t] = Idle
         /\ \A u \in TaskId \ {t} : task'[u] = task[u]
BY SlotTakes DEF End, HooksTyped

\* A handler that goes on keeps what it has read.
LEMMA StageEffect ==
  ASSUME HooksTyped, NEW t \in TaskId, Active(t), NEW stage \in Stage,
         NEW id \in HookId \cup {NoHook},
         task' = [task EXCEPT ![t].stage = stage, ![t].id = id]
  PROVE  /\ task' \in [TaskId -> {Idle} \cup Task]
         /\ task'[t].stage = stage /\ task'[t].id = id
         /\ task'[t].store = task[t].store /\ task'[t].key = task[t].key
         /\ task'[t].local = task[t].local
         /\ \A u \in TaskId \ {t} : task'[u] = task[u]
<1> DEFINE w == [task[t] EXCEPT !.stage = stage, !.id = id]
<1>1. /\ w \in Task /\ w.stage = stage /\ w.id = id /\ w.store = task[t].store
      /\ w.key = task[t].key /\ w.local = task[t].local
  BY TaskTyped DEF HooksTyped, Task
<1>2. task' = [task EXCEPT ![t] = w]
  OBVIOUS
<1> HIDE DEF w
<1> QED
  BY <1>1, <1>2, SlotTakes DEF HooksTyped

\* What a store is connected by, it is connected for.
LEMMA ConnectedByEffect ==
  ASSUME TypeOK, NEW t \in TaskId, connected' = ConnectedBy(t)
  PROVE  /\ connected \subseteq connected' /\ connected' \subseteq installed
         /\ \A s \in connected' \ connected : s = task[t].store /\ task[t].key = key[s]
BY DEF ConnectedBy, TypeOK

LEMMA DeleteHookEffect ==
  ASSUME TypeOK, NEW k \in ApiKey, NEW id \in HookId, DeleteHook(k, id)
  PROVE  /\ remote' \in [ApiKey -> SUBSET HookId] /\ littered' \subseteq ApiKey
         /\ littered \subseteq littered'
         /\ \A j \in ApiKey \ {k} : remote'[j] = remote[j]
         /\ remote'[k] \subseteq remote[k] /\ remote[k] \ {id} \subseteq remote'[k]
         /\ k \notin littered' => remote'[k] = remote[k] \ {id}
BY DEF DeleteHook, TypeOK

LEMMA ListEffect ==
  ASSUME HooksTyped, NEW t \in TaskId, List(t)
  PROVE  /\ Active(t) /\ task[t].stage = "list" /\ task[t].key \in ApiKey
         /\ task' \in [TaskId -> {Idle} \cup Task]
         /\ \A u \in TaskId \ {t} : task'[u] = task[u]
         /\ \/ /\ task[t].local \in remote[task[t].key] /\ task'[t] = Idle
               /\ connected' = ConnectedBy(t) /\ littered' = littered
            \/ /\ task'[t].stage = "create" /\ connected' = connected
               /\ remote[task[t].key] # {} => task[t].key \in littered'
               /\ littered' \subseteq littered \cup {task[t].key} /\ littered \subseteq littered'
               /\ task'[t].store = task[t].store /\ task'[t].key = task[t].key
               /\ task'[t].local = task[t].local
            \/ /\ task'[t].stage = "delete" /\ connected' = connected /\ littered' = littered
               /\ task'[t].id \in remote[task[t].key] /\ task'[t].id # task[t].local
               /\ task'[t].store = task[t].store /\ task'[t].key = task[t].key
               /\ task'[t].local = task[t].local
         /\ UNCHANGED <<installed, key, hook, remote, created, saved, requests>>
<1>1. Active(t) /\ task[t].stage = "list" /\ task[t].key \in ApiKey
  BY DEF List, Active, HooksTyped, RequestsHaveKeys
<1> DEFINE r == remote[task[t].key]
<1>2. r \subseteq HookId
  BY <1>1 DEF HooksTyped, TypeOK
<1>3. PICK match \in HookId \cup {NoHook} :
        /\ match = NoHook \/ match \in r
        /\ \/ /\ match # NoHook /\ Reusable(t, match)
              /\ End(t)
              /\ connected' = ConnectedBy(t)
           \/ /\ match = NoHook \/ ~Reusable(t, match)
              /\ task' = [task EXCEPT ![t].stage = AfterList(t, match),
                                      ![t].id = match]
              /\ UNCHANGED connected
        /\ littered' = IF match = NoHook /\ r # {}
                          THEN littered \cup {task[t].key} ELSE littered
  BY <1>2 DEF List
<1>5. /\ match = NoHook /\ r # {} => task[t].key \in littered'
      /\ match # NoHook => littered' = littered
      /\ littered \subseteq littered' /\ littered' \subseteq littered \cup {task[t].key}
  BY <1>3
<1>6. UNCHANGED <<installed, key, hook, remote, created, saved, requests>>
  BY DEF List
<1> HIDE DEF r
<1>7. CASE match # NoHook /\ Reusable(t, match) /\ End(t) /\ connected' = ConnectedBy(t)
  <2>1. task[t].local \in r /\ littered' = littered
    BY <1>3, <1>5, <1>7 DEF Reusable
  <2>2. /\ task' \in [TaskId -> {Idle} \cup Task] /\ task'[t] = Idle
        /\ \A u \in TaskId \ {t} : task'[u] = task[u]
    BY <1>7, EndEffect
  <2>3. /\ task[t].local \in remote[task[t].key] /\ task'[t] = Idle
        /\ connected' = ConnectedBy(t) /\ littered' = littered
    BY <1>7, <2>1, <2>2 DEF r
  <2> QED
    BY <1>1, <1>6, <2>2, <2>3
<1>8. CASE /\ match = NoHook \/ ~Reusable(t, match)
           /\ task' = [task EXCEPT ![t].stage = AfterList(t, match), ![t].id = match]
           /\ UNCHANGED connected
  <2>1. PICK stage \in Stage : stage = AfterList(t, match)
    BY DEF AfterList, Stage
  <2> DEFINE w == [task[t] EXCEPT !.stage = stage, !.id = match]
  <2>a. /\ w \in Task /\ w.stage = stage /\ w.id = match /\ w.store = task[t].store
        /\ w.key = task[t].key /\ w.local = task[t].local
    BY <1>1, TaskTyped DEF HooksTyped, Task
  <2>b. task' = [task EXCEPT ![t] = w]
    BY <1>8, <2>1
  <2> HIDE DEF w
  <2>2. /\ task' \in [TaskId -> {Idle} \cup Task]
        /\ task'[t].stage = AfterList(t, match) /\ task'[t].id = match
        /\ task'[t].store = task[t].store /\ task'[t].key = task[t].key
        /\ task'[t].local = task[t].local
        /\ \A u \in TaskId \ {t} : task'[u] = task[u]
    BY <2>1, <2>a, <2>b, SlotTakes DEF HooksTyped
  <2> QED
    BY <1>1, <1>3, <1>5, <1>6, <1>8, <2>2 DEF AfterList, Reusable, r
<1> QED
  BY <1>3, <1>7, <1>8

LEMMA DeleteEffect ==
  ASSUME HooksTyped, NEW t \in TaskId, Delete(t)
  PROVE  /\ Active(t) /\ task[t].stage = "delete"
         /\ task[t].key \in ApiKey /\ task[t].id \in HookId
         /\ DeleteHook(task[t].key, task[t].id)
         /\ task' \in [TaskId -> {Idle} \cup Task]
         /\ task'[t].stage = "create" /\ task'[t].store = task[t].store
         /\ task'[t].key = task[t].key /\ task'[t].local = task[t].local
         /\ \A u \in TaskId \ {t} : task'[u] = task[u]
         /\ UNCHANGED <<installed, key, hook, created, connected, saved, requests>>
<1>1. Active(t) /\ task[t].stage = "delete" /\ task[t].key \in ApiKey /\ task[t].id \in HookId
  BY DEF Delete, Active, HooksTyped, RequestsHaveKeys
<1> DEFINE w == [task[t] EXCEPT !.stage = "create"]
<1>2. /\ w \in Task /\ w.stage = "create" /\ w.store = task[t].store
      /\ w.key = task[t].key /\ w.local = task[t].local
  BY <1>1, TaskTyped DEF HooksTyped, Task, Stage
<1>3. task' = [task EXCEPT ![t] = w]
  BY DEF Delete
<1> HIDE DEF w
<1> QED
  BY <1>1, <1>2, <1>3, SlotTakes DEF Delete, HooksTyped

LEMMA CreateEffect ==
  ASSUME HooksTyped, NEW t \in TaskId, Create(t)
  PROVE  /\ Active(t) /\ task[t].stage = "create" /\ task[t].key \in ApiKey
         /\ created' \in HookId
         /\ remote' = [remote EXCEPT ![task[t].key] = @ \cup {created'}]
         /\ task' \in [TaskId -> {Idle} \cup Task]
         /\ task'[t].stage = "answer" /\ task'[t].id = created'
         /\ task'[t].store = task[t].store
         /\ task'[t].key = task[t].key /\ task'[t].local = task[t].local
         /\ \A u \in TaskId \ {t} : task'[u] = task[u]
         /\ UNCHANGED <<installed, key, hook, connected, saved, littered, requests>>
<1>1. Active(t) /\ task[t].stage = "create" /\ task[t].key \in ApiKey
  BY DEF Create, Active, HooksTyped, RequestsHaveKeys
<1>2. created + 1 \in HookId
  BY HookIds DEF Create, HooksTyped, TypeOK
<1>3. "answer" \in Stage
  BY DEF Stage
<1> QED
  BY <1>1, <1>2, <1>3, StageEffect DEF Create

LEMMA RemoveEffect ==
  ASSUME HooksTyped, NEW t \in TaskId, Remove(t)
  PROVE  /\ Active(t) /\ task[t].stage = "bcRemove"
         /\ task' \in [TaskId -> {Idle} \cup Task]
         /\ task'[t].stage = "remove" /\ task'[t].store = task[t].store
         /\ task'[t].key = key[task[t].store] /\ task'[t].id = ToRemove(task[t].store)
         /\ \A u \in TaskId \ {t} : task'[u] = task[u]
         /\ UNCHANGED <<installed, key, hook, remote, created, connected, saved,
                        littered, requests>>
<1> DEFINE s == task[t].store
           w == [stage |-> "remove", store |-> s, key |-> key[s], local |-> hook[s],
                 id |-> ToRemove(s)]
<1>1. Active(t) /\ task[t].stage = "bcRemove" /\ s \in Store
  BY TaskTyped DEF Remove, Active, HooksTyped
<1>2. key[s] \in ApiKey \cup {NoKey} /\ hook[s] \in HookId \cup {NoHook}
  BY <1>1 DEF HooksTyped, TypeOK
<1>3. /\ w \in Task /\ w.stage = "remove" /\ w.store = s /\ w.key = key[s]
      /\ w.id = ToRemove(s)
  BY <1>1, <1>2 DEF Task, Stage, ToRemove
<1>4. task' = [task EXCEPT ![t] = w]
  BY DEF Remove
<1> HIDE DEF w
<1> QED
  BY <1>1, <1>3, <1>4, SlotTakes DEF Remove, HooksTyped

\* The requests that find the app: a slot is free, and without overlap all are.
LEMMA RequestEffect ==
  ASSUME HooksTyped, NEW t \in TaskId, Request(t)
  PROVE  /\ ~Active(t) /\ requests' \in 0 .. MaxRequests
         /\ ~Overlap => \A u \in TaskId : ~Active(u)
BY HooksAssumption DEF Request, HooksTyped, TypeOK

-----------------------------------------------------------------------------
(* Types. *)

LEMMA TypedInit ==
  ASSUME Init
  PROVE  HooksTyped /\ \A t \in TaskId : task[t] = Idle
<1>1. TypeOK
  BY HooksAssumption DEF Init, TypeOK
<1>2. \A t \in TaskId : task[t] = Idle /\ task[t].stage = "idle"
  BY DEF Init, Idle
<1>3. \A s \in Store : key[s] = NoKey
  BY DEF Init
<1> QED
  BY <1>1, <1>2, <1>3 DEF HooksTyped, RequestsHaveKeys

\* The slots of a state that is typed otherwise, where only slot t has changed.
LEMMA SlotsTyped ==
  ASSUME HooksTyped, NEW t \in TaskId, \A u \in TaskId \ {t} : task'[u] = task[u],
         key' \in [Store -> ApiKey \cup {NoKey}],
         \A r \in Store : key'[r] \in KeysOf[r] \cup {NoKey},
         task'[t].stage \in {"list", "delete", "create", "answer"} => task'[t].key \in ApiKey,
         task'[t].stage \in {"delete", "answer"} => task'[t].id \in HookId,
         task'[t].stage = "remove" /\ task'[t].id # NoHook => task'[t].key \in ApiKey
  PROVE  RequestsHaveKeys'
<1>1. \A u \in TaskId :
        /\ task'[u].stage \in {"list", "delete", "create", "answer"} => task'[u].key \in ApiKey
        /\ task'[u].stage \in {"delete", "answer"} => task'[u].id \in HookId
        /\ task'[u].stage = "remove" /\ task'[u].id # NoHook => task'[u].key \in ApiKey
  BY DEF HooksTyped, RequestsHaveKeys
<1> QED
  BY <1>1 DEF RequestsHaveKeys

LEMMA TypedStep ==
  ASSUME HooksTyped, [Next]_vars
  PROVE  HooksTyped'
<1> USE DEF HooksTyped
<1>a. \A r \in Store : key[r] \in KeysOf[r] \cup {NoKey}
  BY DEF RequestsHaveKeys
<1>1. ASSUME NEW t \in TaskId, NEW s \in Store, NEW k \in ApiKey, k \in KeysOf[s],
             Save(s, k, t) \/ Validate(s, k, t)
      PROVE  HooksTyped'
  <2>1. /\ key' \in [Store -> ApiKey \cup {NoKey}] /\ connected' \subseteq connected
        /\ \A r \in Store : key'[r] \in KeysOf[r] \cup {NoKey}
        /\ requests' \in 0 .. MaxRequests
    BY <1>1, KeySet, RequestEffect DEF Save, Validate
  <2>2. \/ task' = task
        \/ task' = [task EXCEPT ![t] = NewTask("me", s)]
    BY <1>1 DEF Save, Validate
  <2>3. /\ task' \in [TaskId -> {Idle} \cup Task]
        /\ \A u \in TaskId \ {t} : task'[u] = task[u]
        /\ task'[t] = task[t] \/ task'[t].stage = "me"
    BY <2>2, NewTaskTyped, SlotTakes DEF TypeOK
  <2>4. RequestsHaveKeys'
    BY <2>1, <2>3, SlotsTyped DEF RequestsHaveKeys
  <2>5. TypeOK'
    BY <1>1, <2>1, <2>3 DEF TypeOK, Save, Validate
  <2> QED
    BY <2>4, <2>5
<1>2. ASSUME NEW t \in TaskId, NEW s \in Store, Install(s, t) \/ Uninstall(s, t)
      PROVE  HooksTyped'
  <2>1. PICK stage \in {"bcHooks", "bcRemove"} : task' = [task EXCEPT ![t] = NewTask(stage, s)]
    BY <1>2 DEF Install, Uninstall
  <2>2. /\ task' \in [TaskId -> {Idle} \cup Task]
        /\ \A u \in TaskId \ {t} : task'[u] = task[u]
        /\ task'[t].stage \in {"bcHooks", "bcRemove"}
    <3>1. NewTask(stage, s) \in Task /\ NewTask(stage, s).stage = stage
      BY NewTaskTyped
    <3> QED
      BY <2>1, <3>1, SlotTakes
  <2>3. /\ key' = key /\ requests' \in 0 .. MaxRequests
        /\ installed' \subseteq Store /\ installed \subseteq installed'
        /\ UNCHANGED <<hook, remote, created, connected, saved, littered>>
    BY <1>2, RequestEffect DEF Install, Uninstall, TypeOK
  <2>4. RequestsHaveKeys'
    BY <1>a, <2>2, <2>3, SlotsTyped DEF TypeOK
  <2> QED
    BY <2>2, <2>3, <2>4 DEF TypeOK
<1>3. ASSUME NEW t \in TaskId, Ensure(t) PROVE HooksTyped'
  <2>1. RequestsHaveKeys'
    BY <1>a, <1>3, EnsureEffect, SlotsTyped DEF TypeOK, Idle
  <2> QED
    BY <1>3, <2>1, EnsureEffect DEF TypeOK
<1>4. ASSUME NEW t \in TaskId, EnsureFails(t) PROVE HooksTyped'
  <2>1. RequestsHaveKeys'
    BY <1>a, <1>4, EndEffect, SlotsTyped DEF EnsureFails, TypeOK, Idle
  <2> QED
    BY <1>4, <2>1, EndEffect DEF EnsureFails, TypeOK
<1>5. ASSUME NEW t \in TaskId, List(t) PROVE HooksTyped'
  <2>1. remote[task[t].key] \subseteq HookId
    BY <1>5, ListEffect DEF TypeOK
  <2>2. RequestsHaveKeys'
    BY <1>a, <1>5, <2>1, ListEffect, SlotsTyped DEF TypeOK, Idle
  <2>3. connected' \subseteq installed /\ littered' \subseteq ApiKey
    BY <1>5, ListEffect, ConnectedByEffect DEF TypeOK
  <2> QED
    BY <1>5, <2>2, <2>3, ListEffect DEF TypeOK
<1>6. ASSUME NEW t \in TaskId, Delete(t) PROVE HooksTyped'
  <2>1. RequestsHaveKeys'
    BY <1>a, <1>6, DeleteEffect, SlotsTyped DEF TypeOK
  <2>2. remote' \in [ApiKey -> SUBSET HookId] /\ littered' \subseteq ApiKey
    BY <1>6, DeleteEffect, DeleteHookEffect
  <2> QED
    BY <1>6, <2>1, <2>2, DeleteEffect DEF TypeOK
<1>7. ASSUME NEW t \in TaskId, Create(t) PROVE HooksTyped'
  <2>1. RequestsHaveKeys'
    BY <1>a, <1>7, CreateEffect, SlotsTyped DEF TypeOK
  <2>2. remote' \in [ApiKey -> SUBSET HookId]
    BY <1>7, CreateEffect DEF TypeOK
  <2> QED
    BY <1>7, <2>1, <2>2, CreateEffect DEF TypeOK
<1>8. ASSUME NEW t \in TaskId, SaveHook(t) PROVE HooksTyped'
  <2>1. task[t].id \in HookId
    BY <1>8 DEF SaveHook, RequestsHaveKeys
  <2>2. RequestsHaveKeys'
    BY <1>a, <1>8, EndEffect, SlotsTyped DEF SaveHook, TypeOK, Idle
  <2> QED
    BY <1>8, <2>1, <2>2, EndEffect, ConnectedByEffect DEF SaveHook, TypeOK
<1>9. ASSUME NEW t \in TaskId, Remove(t) PROVE HooksTyped'
  <2>1. task[t].store \in Store
    BY <1>9, RemoveEffect, TaskTyped
  <2>2. task'[t].id # NoHook => task'[t].key \in ApiKey
    BY <1>9, <2>1, RemoveEffect DEF ToRemove, TypeOK
  <2>3. RequestsHaveKeys'
    BY <1>a, <1>9, <2>2, RemoveEffect, SlotsTyped DEF TypeOK
  <2> QED
    BY <1>9, <2>3, RemoveEffect DEF TypeOK
<1>b. ASSUME NEW t \in TaskId, Purge(t) PROVE HooksTyped'
  <2>1. Active(t) /\ task[t].store \in Store /\ task[t].id \in HookId \cup {NoHook}
    BY <1>b, TaskTyped DEF Purge, Active
  <2>2. /\ remote' \in [ApiKey -> SUBSET HookId] /\ littered' \subseteq ApiKey
    <3>1. CASE task[t].id = NoHook
      BY <1>b, <3>1 DEF Purge, TypeOK
    <3>2. CASE task[t].id # NoHook
      BY <1>b, <2>1, <3>2, DeleteHookEffect DEF Purge, RequestsHaveKeys
    <3> QED
      BY <3>1, <3>2
  <2>3. /\ key' \in [Store -> ApiKey \cup {NoKey}] /\ hook' \in [Store -> HookId \cup {NoHook}]
        /\ \A r \in Store : key'[r] \in KeysOf[r] \cup {NoKey}
        /\ installed' \subseteq Store /\ connected' \subseteq installed' /\ saved' \subseteq Store
    BY <1>a, <1>b, <2>1 DEF Purge, TypeOK
  <2>4. RequestsHaveKeys'
    BY <1>b, <2>3, EndEffect, SlotsTyped DEF Purge, Idle
  <2> QED
    BY <1>b, <2>2, <2>3, <2>4, EndEffect DEF Purge, TypeOK
<1>c. CASE UNCHANGED vars
  BY <1>c DEF vars, TypeOK, RequestsHaveKeys
<1> QED
  BY <1>1, <1>2, <1>3, <1>4, <1>5, <1>6, <1>7, <1>8, <1>9, <1>b, <1>c DEF Next

\* Whatever overlaps or fails, the state is typed, a store's key is one of its
\* merchant's, and a request that calls Telenow has the key and the hook it needs.
THEOREM HooksAreTyped == Spec => []HooksTyped
<1>1. Init => HooksTyped
  BY TypedInit
<1>2. HooksTyped /\ [Next]_vars => HooksTyped'
  BY TypedStep
<1> QED
  BY <1>1, <1>2, PTL DEF Spec

-----------------------------------------------------------------------------
(* Requests one after the other, each store with accounts of its own. *)

AloneInv == OneAtATime /\ AsRead /\ ConnectedIsLive /\ OneHookPerAccount

\* The store whose request is at work on an account is the only one that is connected
\* by it.
LEMMA AccountsApart ==
  ASSUME SeparateAccounts, HooksTyped, AloneInv, NEW s \in Store, key[s] \in ApiKey,
         NEW r \in connected, key[r] = key[s]
  PROVE  r = s
<1>1. r \in Store /\ key[r] \in KeysOf[r] /\ key[s] \in KeysOf[s]
  BY HooksAssumption DEF HooksTyped, TypeOK, RequestsHaveKeys, AloneInv, ConnectedIsLive
<1> QED
  BY <1>1 DEF SeparateAccounts

\* After a step of a request that is alone, or the first of one, only its slot is taken.
LEMMA StillAlone ==
  ASSUME OneAtATime, NEW t \in TaskId, Active(t) \/ (\A u \in TaskId : ~Active(u)),
         \A u \in TaskId \ {t} : task'[u] = task[u]
  PROVE  OneAtATime' /\ \A u \in TaskId : task'[u].stage # "idle" => u = t
<1>1. \A u \in TaskId \ {t} : task'[u].stage = "idle"
  BY DEF OneAtATime, Active
<1> QED
  BY <1>1 DEF OneAtATime, Active

\* Then AsRead is about that slot.
LEMMA AsReadHere ==
  ASSUME NEW t \in TaskId, \A u \in TaskId : task'[u].stage # "idle" => u = t,
         task'[t].stage \in {"list", "delete", "create", "answer"} =>
           task'[t].key = key'[task'[t].store] /\ task'[t].local = hook'[task'[t].store],
         task'[t].stage = "delete" =>
           task'[t].id \in remote'[task'[t].key] /\ task'[t].id # task'[t].local,
         task'[t].stage = "create" /\ task'[t].key \notin littered' =>
           remote'[task'[t].key] = {},
         task'[t].stage = "answer" => task'[t].id \in remote'[task'[t].key],
         task'[t].stage = "remove" =>
           /\ task'[t].key = key'[task'[t].store]
           /\ task'[t].id = IF key'[task'[t].store] = NoKey THEN NoHook
                                                          ELSE hook'[task'[t].store]
  PROVE  AsRead'
BY DEF AsRead, ToRemove

LEMMA AloneInit ==
  ASSUME Init
  PROVE  AloneInv
<1>1. \A t \in TaskId : task[t].stage = "idle"
  BY TypedInit DEF Idle
<1>2. connected = {} /\ \A k \in ApiKey : remote[k] = {}
  BY DEF Init
<1> QED
  BY <1>1, <1>2 DEF AloneInv, OneAtATime, Active, AsRead, ConnectedIsLive, OneHookPerAccount

\* A merchant's request finds the app idle, and leaves the hooks alone.
LEMMA RequestKeepsAlone ==
  ASSUME ~Overlap, HooksTyped, AloneInv, NEW t \in TaskId, NEW s \in Store,
         \/ \E k \in KeysOf[s] : Save(s, k, t) \/ Validate(s, k, t)
         \/ Install(s, t) \/ Uninstall(s, t)
  PROVE  AloneInv'
<1>1. \A u \in TaskId : ~Active(u)
  BY RequestEffect DEF Save, Validate, Install, Uninstall
<1>2. UNCHANGED <<hook, remote, littered>>
  BY DEF Save, Validate, Install, Uninstall
<1>3. connected' \subseteq connected /\ \A r \in connected' : key'[r] = key[r]
  BY KeySet DEF Save, Validate, Install, Uninstall
<1>4. \/ task' = task
      \/ \E stage \in {"me", "bcHooks", "bcRemove"} :
           task' = [task EXCEPT ![t] = NewTask(stage, s)]
  BY DEF Save, Validate, Install, Uninstall
<1>5. /\ \A u \in TaskId \ {t} : task'[u] = task[u]
      /\ task'[t] = task[t] \/ task'[t].stage \in {"me", "bcHooks", "bcRemove"}
  <2>1. CASE task' = task
    BY <2>1
  <2>2. ASSUME NEW stage \in {"me", "bcHooks", "bcRemove"},
               task' = [task EXCEPT ![t] = NewTask(stage, s)]
        PROVE  /\ \A u \in TaskId \ {t} : task'[u] = task[u]
               /\ task'[t].stage \in {"me", "bcHooks", "bcRemove"}
    <3>1. NewTask(stage, s) \in Task /\ NewTask(stage, s).stage = stage
      BY NewTaskTyped
    <3> QED
      BY <2>2, <3>1, SlotTakes DEF HooksTyped
  <2> QED
    BY <1>4, <2>1, <2>2
<1>6. OneAtATime' /\ \A u \in TaskId : task'[u].stage # "idle" => u = t
  BY <1>1, <1>5, StillAlone DEF AloneInv
<1>7. AsRead'
  BY <1>1, <1>5, <1>6, AsReadHere DEF Active
<1> QED
  BY <1>2, <1>3, <1>6, <1>7 DEF AloneInv, ConnectedIsLive, OneHookPerAccount

LEMMA ListKeepsAlone ==
  ASSUME HooksTyped, AloneInv, NEW t \in TaskId, List(t)
  PROVE  AloneInv'
<1>1. /\ Active(t) /\ task[t].key \in ApiKey /\ task[t].key = key[task[t].store]
      /\ task[t].local = hook[task[t].store] /\ task[t].store \in Store
      /\ littered \subseteq littered' /\ UNCHANGED <<key, hook, remote>>
  BY ListEffect, TaskTyped DEF HooksTyped, AloneInv, AsRead
<1>2. OneAtATime' /\ \A u \in TaskId : task'[u].stage # "idle" => u = t
  BY <1>1, ListEffect, StillAlone DEF AloneInv
<1>3. AsRead'
  BY <1>1, <1>2, ListEffect, AsReadHere DEF Idle
<1>4. ConnectedIsLive'
  <2>1. CASE connected' = connected
    BY <1>1, <2>1 DEF AloneInv, ConnectedIsLive
  <2>2. CASE connected' = ConnectedBy(t) /\ task[t].local \in remote[task[t].key]
    <3>1. ASSUME NEW r \in connected' \ connected
          PROVE  key[r] # NoKey /\ hook[r] \in remote[key[r]]
      <4>1. r = task[t].store
        BY <2>2, <3>1, ConnectedByEffect DEF HooksTyped
      <4> QED
        BY <1>1, <2>2, <4>1, HooksAssumption
    <3> QED
      BY <1>1, <3>1 DEF AloneInv, ConnectedIsLive
  <2> QED
    BY <2>1, <2>2, ListEffect
<1> QED
  BY <1>1, <1>2, <1>3, <1>4 DEF AloneInv, OneHookPerAccount

LEMMA DeleteKeepsAlone ==
  ASSUME SeparateAccounts, HooksTyped, AloneInv, NEW t \in TaskId, Delete(t)
  PROVE  AloneInv'
<1> DEFINE k == task[t].key
           id == task[t].id
<1>1. /\ Active(t) /\ task[t].stage = "delete" /\ k \in ApiKey /\ id \in HookId
      /\ k = key[task[t].store] /\ task[t].local = hook[task[t].store]
      /\ task[t].store \in Store /\ id \in remote[k] /\ id # hook[task[t].store]
      /\ UNCHANGED <<key, hook, connected>>
  BY DeleteEffect, TaskTyped DEF HooksTyped, AloneInv, AsRead
<1>2. /\ littered \subseteq littered' /\ \A j \in ApiKey \ {k} : remote'[j] = remote[j]
      /\ remote'[k] \subseteq remote[k] /\ remote[k] \ {id} \subseteq remote'[k]
      /\ k \notin littered' => remote'[k] = remote[k] \ {id}
  BY <1>1, DeleteEffect, DeleteHookEffect DEF HooksTyped
<1>3. OneAtATime' /\ \A u \in TaskId : task'[u].stage # "idle" => u = t
  BY <1>1, DeleteEffect, StillAlone DEF AloneInv
<1>4. AsRead'
  <2>1. k \notin littered' => remote'[k] = {}
    BY <1>1, <1>2 DEF AloneInv, OneHookPerAccount
  <2>2. /\ task'[t].stage = "create" /\ task'[t].store = task[t].store
        /\ task'[t].key = k /\ task'[t].local = task[t].local
    BY DeleteEffect
  <2> QED
    BY <1>1, <1>3, <2>1, <2>2, AsReadHere
<1>5. ConnectedIsLive'
  <2>1. ASSUME NEW r \in connected
        PROVE  key[r] # NoKey /\ hook[r] \in remote'[key[r]]
    <3>1. key[r] # NoKey /\ hook[r] \in remote[key[r]] /\ key[r] \in ApiKey
      BY DEF HooksTyped, TypeOK, AloneInv, ConnectedIsLive
    <3>2. CASE key[r] # k
      BY <1>2, <3>1, <3>2
    <3>3. CASE key[r] = k
      <4>1. r = task[t].store
        BY <1>1, <3>3, AccountsApart
      <4> QED
        BY <1>1, <1>2, <3>1, <3>3, <4>1
    <3> QED
      BY <3>2, <3>3
  <2> QED
    BY <1>1, <2>1 DEF ConnectedIsLive
<1>6. OneHookPerAccount'
  BY <1>2 DEF AloneInv, OneHookPerAccount
<1> QED
  BY <1>3, <1>4, <1>5, <1>6 DEF AloneInv

LEMMA CreateKeepsAlone ==
  ASSUME HooksTyped, AloneInv, NEW t \in TaskId, Create(t)
  PROVE  AloneInv'
<1> DEFINE k == task[t].key
<1>1. /\ Active(t) /\ task[t].stage = "create" /\ k \in ApiKey
      /\ k = key[task[t].store] /\ task[t].local = hook[task[t].store]
      /\ k \notin littered => remote[k] = {}
      /\ UNCHANGED <<key, hook, connected, littered>>
  BY CreateEffect DEF AloneInv, AsRead
<1>2. /\ remote'[k] = remote[k] \cup {created'}
      /\ \A j \in ApiKey \ {k} : remote'[j] = remote[j]
  BY <1>1, CreateEffect DEF HooksTyped, TypeOK
<1>3. OneAtATime' /\ \A u \in TaskId : task'[u].stage # "idle" => u = t
  BY <1>1, CreateEffect, StillAlone DEF AloneInv
<1>4. AsRead'
  <2>1. /\ task'[t].stage = "answer" /\ task'[t].id = created'
        /\ task'[t].store = task[t].store
        /\ task'[t].key = k /\ task'[t].local = task[t].local
    BY CreateEffect
  <2> QED
    BY <1>1, <1>2, <1>3, <2>1, AsReadHere
<1>5. ConnectedIsLive'
  <2>1. \A r \in connected : key[r] \in ApiKey
    BY DEF HooksTyped, TypeOK, AloneInv, ConnectedIsLive
  <2> QED
    BY <1>1, <1>2, <2>1 DEF AloneInv, ConnectedIsLive
<1>6. OneHookPerAccount'
  BY <1>1, <1>2 DEF AloneInv, OneHookPerAccount
<1> QED
  BY <1>3, <1>4, <1>5, <1>6 DEF AloneInv

LEMMA SaveHookKeepsAlone ==
  ASSUME HooksTyped, AloneInv, NEW t \in TaskId, SaveHook(t)
  PROVE  AloneInv'
<1> DEFINE s == task[t].store
<1>1. /\ Active(t) /\ task[t].key \in ApiKey /\ task[t].key = key[s] /\ s \in Store
      /\ task[t].id \in remote[task[t].key]
      /\ UNCHANGED <<key, remote, littered>>
  BY TaskTyped DEF SaveHook, Active, HooksTyped, RequestsHaveKeys, AloneInv, AsRead
<1>2. task'[t] = Idle /\ \A u \in TaskId \ {t} : task'[u] = task[u]
  BY EndEffect DEF SaveHook
<1>3. OneAtATime' /\ \A u \in TaskId : task'[u].stage # "idle" => u = t
  BY <1>1, <1>2, StillAlone DEF AloneInv
<1>4. AsRead'
  BY <1>2, <1>3, AsReadHere DEF Idle
<1>5. ConnectedIsLive'
  <2>1. connected' \subseteq connected \cup {s} /\ connected' \subseteq Store
    BY ConnectedByEffect DEF SaveHook, HooksTyped, TypeOK
  <2>2. hook'[s] = task[t].id /\ \A r \in Store \ {s} : hook'[r] = hook[r]
    BY <1>1 DEF SaveHook, HooksTyped, TypeOK
  <2> QED
    BY <1>1, <2>1, <2>2, HooksAssumption DEF AloneInv, ConnectedIsLive
<1> QED
  BY <1>1, <1>3, <1>4, <1>5 DEF AloneInv, OneHookPerAccount

\* /uninstall removes the hook of the store, and of no other.
LEMMA PurgeKeepsAlone ==
  ASSUME SeparateAccounts, HooksTyped, AloneInv, NEW t \in TaskId, Purge(t)
  PROVE  /\ AloneInv'
         /\ \A s \in connected \ installed' :
              key[s] \notin littered' => remote'[key[s]] = {}
<1> DEFINE s == task[t].store
           k == task[t].key
           id == task[t].id
<1>1. /\ Active(t) /\ s \in Store /\ k = key[s] /\ id = ToRemove(s)
      /\ id \in HookId \cup {NoHook} /\ (id # NoHook => k \in ApiKey)
  BY TaskTyped DEF Purge, Active, HooksTyped, RequestsHaveKeys, AloneInv, AsRead
<1>2. task'[t] = Idle /\ \A u \in TaskId \ {t} : task'[u] = task[u]
  BY EndEffect DEF Purge
<1>3. OneAtATime' /\ \A u \in TaskId : task'[u].stage # "idle" => u = t
  BY <1>1, <1>2, StillAlone DEF AloneInv
<1>4. AsRead'
  BY <1>2, <1>3, AsReadHere DEF Idle
<1>5. /\ littered \subseteq littered' /\ \A j \in ApiKey \ {k} : remote'[j] = remote[j]
      /\ \A j \in ApiKey : remote'[j] \subseteq remote[j]
      /\ id # NoHook /\ k \notin littered' => remote'[k] = remote[k] \ {id}
  <2>1. CASE id = NoHook
    BY <2>1 DEF Purge
  <2>2. CASE id # NoHook
    BY <1>1, <2>2, DeleteHookEffect DEF Purge, HooksTyped
  <2> QED
    BY <2>1, <2>2
<1>6. /\ connected' = connected \ {s} /\ installed' = installed \ {s}
      /\ \A r \in Store \ {s} : key'[r] = key[r] /\ hook'[r] = hook[r]
      /\ connected \subseteq installed /\ installed \subseteq Store
  BY <1>1 DEF Purge, HooksTyped, TypeOK
<1>7. \A r \in connected : key[r] # NoKey /\ hook[r] \in remote[key[r]] /\ key[r] \in ApiKey
  BY DEF HooksTyped, TypeOK, AloneInv, ConnectedIsLive
<1>8. ConnectedIsLive'
  <2>1. ASSUME NEW r \in connected, r # s
        PROVE  remote'[key[r]] = remote[key[r]]
    <3>1. key[r] # k
      BY <1>1, <1>7, <2>1, AccountsApart
    <3> QED
      BY <1>5, <1>7, <3>1
  <2> QED
    BY <1>6, <1>7, <2>1 DEF ConnectedIsLive
<1>9. OneHookPerAccount'
  BY <1>5 DEF AloneInv, OneHookPerAccount
<1>a. ASSUME NEW r \in connected \ installed', key[r] \notin littered'
      PROVE  remote'[key[r]] = {}
  <2>1. r = s
    BY <1>6, <1>a
  <2>2. id = hook[s] /\ hook[s] \in remote[k] /\ k \in ApiKey /\ id # NoHook
    BY <1>1, <1>7, <2>1, HookIds DEF ToRemove, HooksTyped, TypeOK
  <2> QED
    BY <1>1, <1>5, <1>a, <2>1, <2>2 DEF AloneInv, OneHookPerAccount
<1> QED
  BY <1>3, <1>4, <1>8, <1>9, <1>a DEF AloneInv

LEMMA AloneStep ==
  ASSUME ~Overlap, SeparateAccounts, HooksTyped, AloneInv, [Next]_vars
  PROVE  AloneInv'
<1>1. ASSUME NEW t \in TaskId, Ensure(t) PROVE AloneInv'
  <2>1. /\ Active(t) /\ UNCHANGED <<key, hook, remote, connected, littered>>
        /\ \A u \in TaskId \ {t} : task'[u] = task[u]
    BY <1>1, EnsureEffect
  <2>2. OneAtATime' /\ \A u \in TaskId : task'[u].stage # "idle" => u = t
    BY <2>1, StillAlone DEF AloneInv
  <2>3. AsRead'
    BY <1>1, <2>1, <2>2, EnsureEffect, AsReadHere DEF Idle
  <2> QED
    BY <2>1, <2>2, <2>3 DEF AloneInv, ConnectedIsLive, OneHookPerAccount
<1>2. ASSUME NEW t \in TaskId, EnsureFails(t) PROVE AloneInv'
  <2>1. /\ Active(t) /\ UNCHANGED <<key, hook, remote, connected, littered>>
        /\ task'[t] = Idle /\ \A u \in TaskId \ {t} : task'[u] = task[u]
    BY <1>2, EndEffect DEF EnsureFails, Active
  <2>2. OneAtATime' /\ \A u \in TaskId : task'[u].stage # "idle" => u = t
    BY <2>1, StillAlone DEF AloneInv
  <2>3. AsRead'
    BY <2>1, <2>2, AsReadHere DEF Idle
  <2> QED
    BY <2>1, <2>2, <2>3 DEF AloneInv, ConnectedIsLive, OneHookPerAccount
<1>3. ASSUME NEW t \in TaskId, Remove(t) PROVE AloneInv'
  <2>1. /\ Active(t) /\ UNCHANGED <<key, hook, remote, connected, littered>>
        /\ \A u \in TaskId \ {t} : task'[u] = task[u]
    BY <1>3, RemoveEffect
  <2>2. OneAtATime' /\ \A u \in TaskId : task'[u].stage # "idle" => u = t
    BY <2>1, StillAlone DEF AloneInv
  <2>3. AsRead'
    BY <1>3, <2>1, <2>2, RemoveEffect, AsReadHere DEF ToRemove
  <2> QED
    BY <2>1, <2>2, <2>3 DEF AloneInv, ConnectedIsLive, OneHookPerAccount
<1>4. CASE UNCHANGED vars
  BY <1>4 DEF vars, AloneInv, OneAtATime, Active, AsRead, ToRemove, ConnectedIsLive,
              OneHookPerAccount
<1> QED
  BY <1>1, <1>2, <1>3, <1>4, RequestKeepsAlone, ListKeepsAlone, DeleteKeepsAlone,
     CreateKeepsAlone, SaveHookKeepsAlone, PurgeKeepsAlone DEF Next

\* Only Purge takes a connected store out of the installed ones.
LEMMA LeavesNothingBehind ==
  ASSUME SeparateAccounts, HooksTyped, AloneInv, [Next]_vars
  PROVE  \A s \in connected \ installed' : key[s] \notin littered' => remote'[key[s]] = {}
<1>1. CASE \E t \in TaskId : Purge(t)
  BY <1>1, PurgeKeepsAlone
<1>2. CASE ~\E t \in TaskId : Purge(t)
  <2>1. installed \subseteq installed'
    BY <1>2 DEF Next, vars, Save, Validate, Install, Uninstall, Ensure, EnsureFails, List,
                Delete, Create, SaveHook, Remove
  <2> QED
    BY <2>1 DEF HooksTyped, TypeOK
<1> QED
  BY <1>1, <1>2

\* Requests one after the other, stores with accounts of their own: whatever request
\* fails at whichever call of ensureTelenowHook, the steps that remain of it find what
\* it has read as it was, and an account has a second hook only if one failed to go.
THEOREM HooksInductive ==
  ASSUME ~Overlap, SeparateAccounts
  PROVE  Spec => []HooksIInv
<1>1. Init => AloneInv
  BY AloneInit
<1>2. HooksTyped /\ AloneInv /\ [Next]_vars => AloneInv'
  BY AloneStep
<1>3. HooksTyped /\ AloneInv => HooksIInv
  BY DEF HooksTyped, AloneInv, HooksIInv
<1> QED
  BY <1>1, <1>2, <1>3, HooksAreTyped, PTL DEF Spec

\* Then a connected store has the secret of a hook that is there: the results of its
\* calls verify in authenticateDelivery.
THEOREM SecretsAreLive ==
  ASSUME ~Overlap, SeparateAccounts
  PROVE  Spec => []LocalIsLive
<1>1. HooksIInv => LocalIsLive
  BY DEF HooksIInv, ConnectedIsLive, LocalIsLive
<1> QED
  BY <1>1, HooksInductive, PTL

\* ... and no hook beside it that is not the remains of a failure.
THEOREM AccountsHaveOneHook ==
  ASSUME ~Overlap, SeparateAccounts
  PROVE  Spec => []WiredOnce
<1>1. HooksIInv => WiredOnce
  <2> SUFFICES ASSUME HooksIInv, NEW s \in connected, key[s] \notin littered
               PROVE  remote[key[s]] = {hook[s]}
    BY DEF WiredOnce
  <2>1. key[s] \in ApiKey /\ hook[s] \in remote[key[s]]
    BY DEF HooksIInv, TypeOK, ConnectedIsLive
  <2> QED
    BY <2>1 DEF HooksIInv, OneHookPerAccount
<1> QED
  BY <1>1, HooksInductive, PTL

\* Then /uninstall leaves no hook in the account of a connected store, unless a call
\* to list or to delete it failed.
THEOREM UninstallUnsubscribes ==
  ASSUME ~Overlap, SeparateAccounts
  PROVE  Spec => NothingLeftBehind
<1>1. HooksIInv /\ [Next]_vars =>
        \A s \in connected \ installed' : key[s] \notin littered' => remote'[key[s]] = {}
  BY LeavesNothingBehind DEF HooksIInv, HooksTyped, AloneInv
<1> QED
  BY <1>1, HooksInductive, PTL DEF Spec, NothingLeftBehind
=============================================================================
