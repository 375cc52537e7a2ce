---------------------------- MODULE TelenowHooks ----------------------------
(***************************************************************************)
(* The result subscription of each store: src/webhooks/telenow.js            *)
(* (ensureTelenowHook, removeTelenowHook, authenticateDelivery) as /auth,     *)
(* /uninstall, POST /api/settings and POST /api/validate-key drive it.        *)
(*                                                                         *)
(* A hook lives at Telenow, in the account of an API key, and locally with    *)
(* its signing secret, which the id stands for.  Nothing keeps two requests   *)
(* of a store apart, and a request is one action per awaited call.            *)
(***************************************************************************)
EXTENDS Integers, FiniteSets

CONSTANTS
  Store,
  ApiKey,       \* one for each Telenow account
  KeysOf,       \* the keys the merchant of a store uses
  TaskId,       \* slots for requests in flight
  Faults,       \* "listFails", "deleteFails", "createFails": those that may happen
  Overlap,      \* may two requests be in flight together?
  MaxHooks,     \* bound on the hooks created
  MaxRequests   \* bound on the requests of merchants

NoKey == "no key"
NoHook == 0
HookId == 1 .. MaxHooks

ASSUME HooksAssumption ==
  /\ KeysOf \in [Store -> SUBSET ApiKey]
  /\ NoKey \notin ApiKey
  /\ Faults \subseteq {"listFails", "deleteFails", "createFails"}
  /\ Overlap \in BOOLEAN /\ MaxHooks \in Nat /\ MaxRequests \in Nat

VARIABLES
  installed,   \* stores with an entry in db.stores
  key,         \* telenowApiKey of a store's settings
  hook,        \* the local hook of a store
  remote,      \* hooks of an account that point at this app
  created,     \* the last hook id
  task,        \* requests in flight
  connected,   \* history: stores whose last ensureTelenowHook succeeded
  saved,       \* history: stores whose key was saved and met no failure
  littered,    \* history: accounts with a hook that a failure has left there
  requests

vars == <<installed, key, hook, remote, created, task, connected, saved,
          littered, requests>>

Idle == [stage |-> "idle"]

\* save: POST /api/settings with a new key.  install: /auth.
Stage == {"me", "bcHooks", "list", "delete", "create", "answer",
          "bcRemove", "remove"}

\* key and local are what the running function has read, id is the hook it
\* deletes or has created.
Task == [stage : Stage, store : Store, key : ApiKey \cup {NoKey},
         local : HookId \cup {NoHook}, id : HookId \cup {NoHook}]

TypeOK == /\ installed \subseteq Store
          /\ key \in [Store -> ApiKey \cup {NoKey}]
          /\ hook \in [Store -> HookId \cup {NoHook}]
          /\ remote \in [ApiKey -> SUBSET HookId]
          /\ created \in HookId \cup {NoHook}
          /\ task \in [TaskId -> {Idle} \cup Task]
          /\ connected \subseteq installed
          /\ saved \subseteq Store
          /\ littered \subseteq ApiKey
          /\ requests \in 0 .. MaxRequests
-----------------------------------------------------------------------------
Active(t) == task[t].stage # "idle"

Busy(s) == \E t \in TaskId : Active(t) /\ task[t].store = s

NewTask(stage, s) == [stage |-> stage, store |-> s, key |-> NoKey,
                      local |-> NoHook, id |-> NoHook]

\* The first lines of ensureTelenowHook: the key and the local hook of now.
Listing(s) == [stage |-> "list", store |-> s, key |-> key[s], local |-> hook[s],
               id |-> NoHook]

End(t) == task' = [task EXCEPT ![t] = Idle]

\* History: ensureTelenowHook is done for the key its store has now.
ConnectedBy(t) == connected \cup {s \in installed : /\ s = task[t].store
                                                   /\ task[t].key = key[s]}

\* A slip: any remote match is taken for the local hook.
Reusable_AnyMatch(t, match) == task[t].local # NoHook

\* The remote hook is the one whose secret the store has.
Reusable(t, match) == task[t].local = match

\* A slip: a stale match is left where it is.
AfterList_KeepsStale(t, match) == "create"

\* A slip: a match is taken for stale only if there is a local hook it differs
\* from, not if its secret never arrived.
AfterList_NeedsLocal(t, match) ==
  IF match = NoHook \/ task[t].local = NoHook THEN "create" ELSE "delete"

\* A stale match is deleted before a new hook is made.
AfterList(t, match) == IF match = NoHook THEN "create" ELSE "delete"

\* A slip: the store is purged before its hook is looked up.
ToRemove_Purged(s) == NoHook

\* What removeTelenowHook deletes at Telenow: nothing without a hook or a key.
ToRemove(s) == IF key[s] = NoKey THEN NoHook ELSE hook[s]
-----------------------------------------------------------------------------
Init == /\ installed = Store
        /\ key = [s \in Store |-> NoKey]
        /\ hook = [s \in Store |-> NoHook]
        /\ remote = [k \in ApiKey |-> {}]
        /\ created = NoHook
        /\ task = [t \in TaskId |-> Idle]
        /\ connected = {}
        /\ saved = {}
        /\ littered = {}
        /\ requests = 0

Request(t) == /\ ~Active(t)
              /\ Overlap \/ \A u \in TaskId : ~Active(u)
              /\ requests < MaxRequests
              /\ requests' = requests + 1

SetKey(s, k) == /\ key' = [key EXCEPT ![s] = k]
                /\ connected' = IF k = key[s] THEN connected ELSE connected \ {s}

\* POST /api/settings with a key: only a key that differs from the stored one
\* leads to me() and ensureTelenowHook().
Save(s, k, t) ==
  /\ Request(t)
  /\ s \in installed
  /\ SetKey(s, k)
  /\ task' = IF k = key[s] THEN task ELSE [task EXCEPT ![t] = NewTask("me", s)]
  /\ saved' = saved \cup {s}
  /\ UNCHANGED <<installed, hook, remote, created, littered>>

\* POST /api/validate-key stores the key it validates, and no more.
Validate(s, k, t) ==
  /\ Request(t)
  /\ s \in installed
  /\ SetKey(s, k)
  /\ saved' = IF k = key[s] THEN saved ELSE saved \ {s}
  /\ UNCHANGED <<installed, hook, remote, created, task, littered>>

\* /auth, the first time or again.
Install(s, t) ==
  /\ Request(t)
  /\ installed' = installed \cup {s}
  /\ task' = [task EXCEPT ![t] = NewTask("bcHooks", s)]
  /\ UNCHANGED <<key, hook, remote, created, connected, saved, littered>>

\* me() answers, or the BigCommerce webhooks are registered: on with
\* ensureTelenowHook, which is for a store with a key.
Ensure(t) ==
  LET s == task[t].store IN
  /\ task[t].stage \in {"me", "bcHooks"}
  /\ task' = [task EXCEPT ![t] = IF key[s] = NoKey THEN Idle ELSE Listing(s)]
  /\ UNCHANGED <<installed, key, hook, remote, created, connected, saved,
                 littered, requests>>

\* me() or, later, the creation fails: the key stays saved, and that is all.
EnsureFails(t) ==
  /\ "createFails" \in Faults
  /\ task[t].stage \in {"me", "create", "answer"}
  /\ End(t)
  /\ saved' = saved \ {task[t].store}
  /\ UNCHANGED <<installed, key, hook, remote, created, connected, littered, requests>>

\* listHooks answers; a failure counts as an account without a hook of ours.
List(t) ==
  /\ task[t].stage = "list"
  /\ \E match \in
       IF remote[task[t].key] = {} THEN {NoHook}
       ELSE remote[task[t].key] \cup
            (IF "listFails" \in Faults THEN {NoHook} ELSE {}) :
       /\ \/ /\ match # NoHook /\ Reusable(t, match)
             /\ End(t)
             /\ connected' = ConnectedBy(t)
          \/ /\ match = NoHook \/ ~Reusable(t, match)
             /\ task' = [task EXCEPT ![t].stage = AfterList(t, match),
                                     ![t].id = match]
             /\ UNCHANGED connected
       /\ littered' = IF match = NoHook /\ remote[task[t].key] # {}
                         THEN littered \cup {task[t].key} ELSE littered
  /\ UNCHANGED <<installed, key, hook, remote, created, saved, requests>>

\* DELETE of a hook of an account: it goes, or the request fails and it stays.
DeleteHook(k, id) ==
  \/ /\ remote' = [remote EXCEPT ![k] = @ \ {id}]
     /\ UNCHANGED littered
  \/ /\ "deleteFails" \in Faults
     /\ littered' = littered \cup {k}
     /\ UNCHANGED remote

\* The stale hook is deleted, or stays.
Delete(t) ==
  /\ task[t].stage = "delete"
  /\ DeleteHook(task[t].key, task[t].id)
  /\ task' = [task EXCEPT ![t].stage = "create"]
  /\ UNCHANGED <<installed, key, hook, created, connected, saved, requests>>

\* Telenow creates the hook.
Create(t) ==
  /\ task[t].stage = "create"
  /\ created < MaxHooks
  /\ created' = created + 1
  /\ remote' = [remote EXCEPT ![task[t].key] = @ \cup {created + 1}]
  /\ task' = [task EXCEPT ![t].stage = "answer", ![t].id = created + 1]
  /\ UNCHANGED <<installed, key, hook, connected, saved, littered, requests>>

\* Its answer brings the secret: saveHook.
SaveHook(t) ==
  /\ task[t].stage = "answer"
  /\ hook' = [hook EXCEPT ![task[t].store] = task[t].id]
  /\ connected' = ConnectedBy(t)
  /\ End(t)
  /\ UNCHANGED <<installed, key, remote, created, saved, littered, requests>>

\* /uninstall: first the BigCommerce webhooks.
Uninstall(s, t) ==
  /\ Request(t)
  /\ s \in installed
  /\ task' = [task EXCEPT ![t] = NewTask("bcRemove", s)]
  /\ UNCHANGED <<installed, key, hook, remote, created, connected, saved,
                 littered>>

\* removeTelenowHook reads the hook and the key.
Remove(t) ==
  LET s == task[t].store IN
  /\ task[t].stage = "bcRemove"
  /\ task' = [task EXCEPT ![t] = [stage |-> "remove", store |-> s,
                key |-> key[s], local |-> hook[s], id |-> ToRemove(s)]]
  /\ UNCHANGED <<installed, key, hook, remote, created, connected, saved,
                 littered, requests>>

\* The hook is deleted at Telenow, or stays; then it goes here, and deleteStore
\* purges the store.
Purge(t) ==
  LET s == task[t].store IN
  /\ task[t].stage = "remove"
  /\ IF task[t].id = NoHook THEN UNCHANGED <<remote, littered>>
                           ELSE DeleteHook(task[t].key, task[t].id)
  /\ installed' = installed \ {s}
  /\ key' = [key EXCEPT ![s] = NoKey]
  /\ hook' = [hook EXCEPT ![s] = NoHook]
  /\ connected' = connected \ {s}
  /\ saved' = saved \ {s}
  /\ End(t)
  /\ UNCHANGED <<created, requests>>

Next == \/ \E t \in TaskId : \/ \E s \in Store, k \in ApiKey :
                                  k \in KeysOf[s] /\ (Save(s, k, t) \/ Validate(s, k, t))
                             \/ \E s \in Store : Install(s, t) \/ Uninstall(s, t)
                             \/ Ensure(t) \/ EnsureFails(t) \/ List(t)
                             \/ Delete(t) \/ Create(t) \/ SaveHook(t)
                             \/ Remove(t) \/ Purge(t)

Spec == Init /\ [][Next]_vars
-----------------------------------------------------------------------------
\* authenticateDelivery for a result of store s that hook h signed: the store it
\* is handled for.  The caller's own secret is tried first, then every store's.
HandledFor(s, h) == IF hook[s] = h THEN {s}
                    ELSE {r \in installed : hook[r] = h}

\* telenow.js:45: a store whose subscription succeeded has the secret of a hook
\* that exists in the account of its key, whatever failed before: the results of
\* its calls verify.
LocalIsLive ==
  \A s \in connected : ~Busy(s) => hook[s] \in remote[key[s]]

\* telenow.js:45: exactly one subscription, the one whose secret is here: no
\* result comes twice, and none comes with a signature nobody knows.  Only a hook
\* that could not be listed or deleted ever stands beside it.
WiredOnce ==
  \A s \in connected : ~Busy(s) /\ key[s] \notin littered =>
    remote[key[s]] = {hook[s]}

\* README.md:109: /uninstall removes the store's subscription: a connected store
\* that goes leaves no hook in its account, unless it could not be deleted.
NothingLeftBehind ==
  [][\A s \in connected \ installed' :
       key[s] \notin littered' => remote'[key[s]] = {}]_vars

-----------------------------------------------------------------------------
(* What makes these inductive. *)

\* A merchant saves keys of his own; a request that calls Telenow has a key, and
\* the hook it is about to delete or to store is one.
RequestsHaveKeys ==
  /\ \A s \in Store : key[s] \in KeysOf[s] \cup {NoKey}
  /\ \A t \in TaskId :
       /\ task[t].stage \in {"list", "delete", "create", "answer"} => task[t].key \in ApiKey
       /\ task[t].stage \in {"delete", "answer"} => task[t].id \in HookId
       /\ task[t].stage = "remove" /\ task[t].id # NoHook => task[t].key \in ApiKey

OneAtATime == \A t, u \in TaskId : Active(t) /\ Active(u) => t = u

\* A request alone works on what it has read: the key and the hook of its store, the
\* hook it deletes or has created, and an account it has emptied before it creates.
AsRead ==
  \A t \in TaskId :
    LET w == task[t] IN
    /\ w.stage \in {"list", "delete", "create", "answer"} =>
         w.key = key[w.store] /\ w.local = hook[w.store]
    /\ w.stage = "delete" => w.id \in remote[w.key] /\ w.id # w.local
    /\ w.stage = "create" /\ w.key \notin littered => remote[w.key] = {}
    /\ w.stage = "answer" => w.id \in remote[w.key]
    /\ w.stage = "remove" => w.key = key[w.store] /\ w.id = ToRemove(w.store)

\* A connected store has a live hook, also while a request about it is under way.
ConnectedIsLive ==
  \A s \in connected : key[s] # NoKey /\ hook[s] \in remote[key[s]]

\* A second hook in an account is there because of a failure.
OneHookPerAccount ==
  \A k \in ApiKey \ littered : \A i, j \in remote[k] : i = j

HooksIInv == /\ TypeOK /\ RequestsHaveKeys
             /\ OneAtATime /\ AsRead /\ ConnectedIsLive /\ OneHookPerAccount

\* Each store has Telenow accounts of its own.
SeparateAccounts ==
  \A r, s \in Store : r # s => KeysOf[r] \cap KeysOf[s] = {}
-----------------------------------------------------------------------------
\* README.md:110: saving a new key (re)subscribes the Telenow webhook.
SavedIsSubscribed ==
  \A s \in saved : ~Busy(s) => hook[s] \in remote[key[s]]

\* telenow.js:166: a result is never handled for another store than the one that
\* placed the call.
ResultsStayHome ==
  \A s \in installed : ~Busy(s) /\ key[s] # NoKey =>
    \A h \in remote[key[s]] : HandledFor(s, h) \subseteq {s}

\* telenow.js:99: a subscription is removed on uninstall and on a change of key:
\* when nothing is under way, only the account of the current key has one.
OldKeyIsUnsubscribed ==
  \A s \in connected : ~Busy(s) =>
    \A k \in KeysOf[s] \ {key[s]} : remote[k] = {}
=============================================================================
