----------------------------- MODULE BcWebhooks -----------------------------
(***************************************************************************)
(* The BigCommerce webhooks of one store: src/webhooks/bigcommerce.js        *)
(* (ensureBigCommerceWebhooks, removeBigCommerceWebhooks, the token test of   *)
(* authenticateDelivery) as /auth and /uninstall of src/auth.js drive them.   *)
(*                                                                         *)
(* BigCommerce echoes the token a hook was created with, and the app knows   *)
(* one token per store.  A request is one action per awaited call.           *)
(***************************************************************************)
EXTENDS Integers, Sequences

CONSTANTS
  Scope,        \* the members of WEBHOOK_SCOPES
  Scopes,       \* WEBHOOK_SCOPES, in their order
  TaskId,       \* slots for /auth and /uninstall in flight
  Faults,       \* "listFails", "deleteFails", "createFails": those that may happen
  Overlap,      \* may two requests be in flight together?
  MaxHooks,     \* bound on the hooks created
  MaxRequests,  \* bound on installs and uninstalls
  MaxSilenced   \* bound on the hooks BigCommerce deactivates

\* The scopes of a list of them; each is in it once.
ScopesIn(q) == {q[i] : i \in 1 .. Len(q)}
NoDuplicates(q) == \A i, j \in 1 .. Len(q) : q[i] = q[j] => i = j

ASSUME BcWebhooksAssumption ==
  /\ Scopes \in Seq(Scope) /\ Scopes # <<>>
  /\ ScopesIn(Scopes) = Scope /\ NoDuplicates(Scopes)
  /\ Faults \subseteq {"listFails", "deleteFails", "createFails"}
  /\ Overlap \in BOOLEAN
  /\ MaxHooks \in Nat /\ MaxRequests \in Nat /\ MaxSilenced \in Nat

VARIABLES
  installed,  \* the store has an entry in db.stores
  token,      \* its webhookToken
  minted,     \* the last token made
  hooks,      \* the hooks at BigCommerce that point at this app
  created,    \* the last hook id
  task,       \* requests in flight
  wired,      \* history: the last request is an /auth that met no failure, and
              \* no hook has been deactivated since it began
  leftover,   \* history: the hooks that an /uninstall with a failed call left behind
  littered,   \* history: a hook could not be listed or deleted
  requests, silenced

vars == <<installed, token, minted, hooks, created, task, wired, leftover, littered,
          requests, silenced>>

NoToken == 0

Hook == [id : 1 .. MaxHooks, scope : Scope, token : Nat, active : BOOLEAN]

Idle == [stage |-> "idle"]

\* token and listed are what the running function has read, todo the scopes it
\* still has to ensure, doomed the hooks it still has to delete; failed says that
\* a call of this request has failed.
Task == [stage : {"list", "scope", "delete", "create", "listRemove", "remove",
                  "purge"},
         token : Nat, listed : SUBSET Hook, todo : Seq(Scope),
         doomed : SUBSET (1 .. MaxHooks), failed : BOOLEAN]

TypeOK == /\ installed \in BOOLEAN
          /\ minted \in 0 .. MaxRequests /\ token \in 0 .. minted
          /\ created \in 0 .. MaxHooks /\ hooks \subseteq Hook
          /\ task \in [TaskId -> {Idle} \cup Task]
          /\ wired \in BOOLEAN /\ leftover \subseteq 1 .. MaxHooks
          /\ littered \in BOOLEAN
          /\ requests \in 0 .. MaxRequests /\ silenced \in 0 .. MaxSilenced
-----------------------------------------------------------------------------
Active(t) == task[t].stage # "idle"

\* adminRequest rejects: a fault of the network, or a store without a token.
Fails(fault) == fault \in Faults \/ ~installed

\* A slip: a second install makes a new token.
Token_Fresh == minted + 1

\* saveStore: the token a store has is kept, a new store gets one.
Token == IF token = NoToken THEN minted + 1 ELSE token

\* The listed hooks that `find` may come upon for a scope.
Matches(t, s) == {h \in task[t].listed : h.scope = s}

\* A slip: the deactivated hook stays beside the new one.
AfterMatch_KeepsStale(m) == "create"

\* A deactivated hook is deleted before another is made for its scope.
AfterMatch(m) == "delete"

\* A slip: positions in the listing, counted from 0, are taken for ids.
ToRemove_Positions == {h.id - 1 : h \in hooks}

\* removeBigCommerceWebhooks deletes every hook that points at this app.
ToRemove == {h.id : h \in hooks}

\* A slip: the loop ends with the first scope it had to create a hook for.
ScopeDone_Stops(w) == Idle

\* The loop goes on to the next scope, or ends.
ScopeDone(w) == IF Len(w.todo) = 1 THEN Idle
                ELSE [w EXCEPT !.stage = "scope", !.todo = Tail(@)]
-----------------------------------------------------------------------------
Init == /\ installed = FALSE
        /\ token = NoToken /\ minted = 0
        /\ hooks = {} /\ created = 0
        /\ task = [t \in TaskId |-> Idle]
        /\ wired = FALSE /\ leftover = {} /\ littered = FALSE
        /\ requests = 0 /\ silenced = 0

\* The store's owner installs or uninstalls; what runs from now on starts afresh.
Begin(t, stage, tok) ==
  /\ ~Active(t)
  /\ Overlap \/ \A u \in TaskId : ~Active(u)
  /\ requests < MaxRequests
  /\ requests' = requests + 1
  /\ wired' = FALSE
  /\ task' = [task EXCEPT ![t] = [stage |-> stage, token |-> tok, listed |-> {},
                                  todo |-> Scopes, doomed |-> {}, failed |-> FALSE]]

\* /auth, the first time or again: saveStore, and ensureBigCommerceWebhooks up to
\* its first call with the token of now.
Install(t) ==
  /\ Begin(t, "list", Token)
  /\ installed' = TRUE
  /\ token' = Token
  /\ minted' = IF Token > minted THEN Token ELSE minted
  /\ UNCHANGED <<hooks, created, leftover, littered, silenced>>

\* listBcHooks answers; a failure counts as a store without hooks of ours.
List(t) ==
  /\ task[t].stage = "list"
  /\ \/ /\ installed
        /\ task' = [task EXCEPT ![t].stage = "scope", ![t].listed = hooks]
        /\ UNCHANGED littered
     \/ /\ Fails("listFails")
        /\ task' = [task EXCEPT ![t].stage = "scope", ![t].failed = TRUE]
        /\ littered' = TRUE
  /\ UNCHANGED <<installed, token, minted, hooks, created, wired, leftover, requests,
                 silenced>>

\* A scope whose hook is active is done, whatever token that hook carries.
AlreadyWired(t) ==
  /\ task[t].stage = "scope"
  /\ \E m \in Matches(t, Head(task[t].todo)) : m.active
  /\ task' = [task EXCEPT ![t] = ScopeDone(@)]
  /\ wired' = (ScopeDone(task[t]) = Idle /\ ~task[t].failed)
  /\ UNCHANGED <<installed, token, minted, hooks, created, leftover, littered,
                 requests, silenced>>

\* Another scope is given a new hook, after its deactivated one is deleted.
Rewire(t) ==
  /\ task[t].stage = "scope"
  /\ LET matches == Matches(t, Head(task[t].todo)) IN
     \/ /\ matches = {}
        /\ task' = [task EXCEPT ![t].stage = "create"]
     \/ \E m \in matches :
          /\ ~m.active
          /\ task' = [task EXCEPT ![t].stage = AfterMatch(m), ![t].doomed = {m.id}]
  /\ UNCHANGED <<installed, token, minted, hooks, created, wired, leftover, littered,
                 requests, silenced>>

\* DELETE of a hook: it goes, or the call fails and it stays.  The code goes on in the
\* same way after both, so the first is also a DELETE whose answer is lost.
DeleteHook(id) ==
  \/ /\ installed
     /\ hooks' = {h \in hooks : h.id # id}
     /\ UNCHANGED littered
  \/ /\ Fails("deleteFails")
     /\ littered' = TRUE
     /\ UNCHANGED hooks

Delete(t) ==
  /\ task[t].stage = "delete"
  /\ \A id \in task[t].doomed : DeleteHook(id)
  /\ task' = [task EXCEPT ![t].stage = "create", ![t].doomed = {}]
  /\ UNCHANGED <<installed, token, minted, created, wired, leftover, requests,
                 silenced>>

\* POST of a hook with the token that was read when the function began; also one whose
\* answer is lost, after which the loop goes on as after any other.
Create(t) ==
  /\ task[t].stage = "create"
  /\ installed
  /\ created < MaxHooks
  /\ created' = created + 1
  /\ hooks' = hooks \cup {[id |-> created + 1, scope |-> Head(task[t].todo),
                           token |-> task[t].token, active |-> TRUE]}
  /\ task' = [task EXCEPT ![t] = ScopeDone(@)]
  /\ wired' = (ScopeDone(task[t]) = Idle /\ ~task[t].failed)
  /\ UNCHANGED <<installed, token, minted, leftover, littered, requests, silenced>>

\* It is refused, or never arrives: the scope stays without a hook, and the loop goes on.
CreateFails(t) ==
  /\ task[t].stage = "create"
  /\ Fails("createFails")
  /\ task' = [task EXCEPT ![t] = ScopeDone([@ EXCEPT !.failed = TRUE])]
  /\ UNCHANGED <<installed, token, minted, hooks, created, wired, leftover, littered,
                 requests, silenced>>

\* /uninstall.
Uninstall(t) ==
  /\ Begin(t, "listRemove", token)
  /\ UNCHANGED <<installed, token, minted, hooks, created, leftover, littered,
                 silenced>>

\* Its listing; when it fails no hook is deleted.
ListToRemove(t) ==
  /\ task[t].stage = "listRemove"
  /\ \/ /\ installed
        /\ task' = [task EXCEPT ![t].doomed = ToRemove,
                      ![t].stage = IF ToRemove = {} THEN "purge" ELSE "remove"]
        /\ UNCHANGED littered
     \/ /\ Fails("listFails")
        /\ task' = [task EXCEPT ![t].stage = "purge", ![t].failed = TRUE]
        /\ littered' = TRUE
  /\ UNCHANGED <<installed, token, minted, hooks, created, wired, leftover, requests,
                 silenced>>

\* One hook after the other, each of which may stay.
Remove(t) ==
  /\ task[t].stage = "remove"
  /\ \E id \in task[t].doomed :
       /\ DeleteHook(id)
       /\ task' = [task EXCEPT ![t].doomed = @ \ {id},
                     ![t].failed = @ \/ hooks' = hooks,
                     ![t].stage = IF task[t].doomed = {id} THEN "purge" ELSE @]
  /\ UNCHANGED <<installed, token, minted, created, wired, leftover, requests,
                 silenced>>

\* After removeTelenowHook: deleteStore.
Purge(t) ==
  /\ task[t].stage = "purge"
  /\ installed' = FALSE
  /\ token' = NoToken
  /\ wired' = FALSE
  /\ leftover' = IF task[t].failed THEN leftover \cup {h.id : h \in hooks} ELSE leftover
  /\ task' = [task EXCEPT ![t] = Idle]
  /\ UNCHANGED <<minted, hooks, created, littered, requests, silenced>>

\* BigCommerce deactivates a hook whose deliveries go unanswered.
Silence ==
  /\ silenced < MaxSilenced
  /\ silenced' = silenced + 1
  /\ \E h \in hooks : /\ h.active
                      /\ hooks' = (hooks \ {h}) \cup {[h EXCEPT !.active = FALSE]}
  /\ wired' = FALSE
  /\ task' = [t \in TaskId |-> IF Active(t) THEN [task[t] EXCEPT !.failed = TRUE]
                                            ELSE task[t]]
  /\ UNCHANGED <<installed, token, minted, created, leftover, littered, requests>>

Next == \/ \E t \in TaskId : \/ Install(t) \/ List(t) \/ AlreadyWired(t) \/ Rewire(t)
                             \/ Delete(t) \/ Create(t) \/ CreateFails(t)
                             \/ Uninstall(t) \/ ListToRemove(t) \/ Remove(t)
                             \/ Purge(t)
        \/ Silence

Spec == Init /\ [][Next]_vars
-----------------------------------------------------------------------------
\* authenticateDelivery lets a delivery of a hook pass.
Verifies(h) == installed /\ h.token = token

\* webhooks/bigcommerce.js:65: after an /auth that met no failure every scope has
\* an active hook, however often the app was installed and uninstalled and whatever
\* had failed before it.  Its deliveries verify, unless it is a hook that an
\* /uninstall failed to delete: /auth takes that one for wired, and the scope stays
\* unheard.
EveryScopeIsHeard ==
  wired => \A s \in Scope : \E h \in hooks :
             h.scope = s /\ h.active /\ (Verifies(h) \/ h.id \in leftover)

\* The deliveries an installed store refuses are exactly those of the hooks that an
\* /uninstall failed to delete.  All others carry the token the store has, at every
\* moment, in the middle of an /auth or an /uninstall too.
OnlyLeftoversAreRefused ==
  installed => \A h \in hooks : Verifies(h) <=> h.id \notin leftover

\* webhooks/bigcommerce.js:65: no scope has two hooks, so no event comes twice,
\* unless a hook could not be listed or deleted.
OneHookPerScope ==
  ~littered => \A g, h \in hooks : g.scope = h.scope => g = h

-----------------------------------------------------------------------------
(* What makes these inductive. *)

Wiring == {"list", "scope", "delete", "create"}

\* A token is made by a request; /auth begins with all scopes, has one to go on with, and
\* deletes one hook before it creates another.
RequestsKnowTheirWork ==
  /\ minted <= requests
  /\ \A t \in TaskId :
       /\ task[t].stage \in Wiring => task[t].todo # <<>> /\ NoDuplicates(task[t].todo)
       /\ task[t].stage = "list" => task[t].todo = Scopes
       /\ task[t].stage = "delete" => \E id \in 1 .. MaxHooks : task[t].doomed = {id}

OneAtATime == /\ \A t, u \in TaskId : Active(t) /\ Active(u) => t = u
              /\ wired => \A t \in TaskId : ~Active(t)

\* The token a request has read is still the store's, a store that is gone has none and
\* only hooks that could not be deleted, and the next token will be a new one.
TokenIsCurrent ==
  /\ installed <=> token # NoToken
  /\ ~installed => \A h \in hooks : h.id \in leftover
  /\ \A h \in hooks : h.token <= minted
  /\ \A t \in TaskId : task[t].stage \in Wiring => installed /\ task[t].token = token

\* /uninstall has every hook on its list, unless a call failed.
Unhooks == \A t \in TaskId : Active(t) /\ ~task[t].failed =>
  /\ task[t].stage = "remove" => \A h \in hooks : h.id \in task[t].doomed
  /\ task[t].stage = "purge" => hooks = {}

HookIdsDiffer == /\ \A g, h \in hooks : g.id = h.id => g = h
                 /\ \A h \in hooks : h.id <= created
                 /\ \A id \in leftover : id <= created

\* A hook of a scope that is still to do is the listed one, and it is gone when another
\* is made.
ScopesAreAsListed ==
  ~littered => \A t \in TaskId : task[t].stage \in {"scope", "delete", "create"} =>
    LET w == task[t] IN
    /\ \A g, h \in w.listed : g.scope = h.scope => g = h
    /\ \A h \in hooks : h.scope \in ScopesIn(w.todo) =>
         \E g \in w.listed : g.id = h.id /\ g.scope = h.scope
    /\ w.stage = "delete" => \A h \in hooks : h.scope = Head(w.todo) => h.id \in w.doomed
    /\ w.stage = "create" => \A h \in hooks : h.scope # Head(w.todo)

\* While nothing fails, what is listed of the scopes to do is there, and each scope that
\* is done has an active hook.
DoneScopesAreHeard ==
  \A t \in TaskId : task[t].stage \in {"scope", "delete", "create"} /\ ~task[t].failed =>
    LET w == task[t] IN
    /\ \A s \in Scope \ ScopesIn(w.todo) : \E h \in hooks : h.scope = s /\ h.active
    /\ \A m \in w.listed : /\ m.scope \in ScopesIn(w.todo)
                           /\ w.stage = "scope" \/ m.scope # Head(w.todo)
                           => m \in hooks
    /\ w.stage = "delete" => \E m \in hooks : w.doomed = {m.id} /\ m.scope = Head(w.todo)

BcIInv == /\ TypeOK /\ RequestsKnowTheirWork
          /\ OneAtATime /\ TokenIsCurrent /\ Unhooks
          /\ OnlyLeftoversAreRefused
          /\ HookIdsDiffer /\ ScopesAreAsListed /\ OneHookPerScope
          /\ DoneScopesAreHeard /\ EveryScopeIsHeard
-----------------------------------------------------------------------------
\* webhooks/bigcommerce.js:65 without the exception: mismatched hooks are recreated, so
\* that also a hook an /uninstall has left gives way to one whose deliveries verify.
EnsuredHooksVerify ==
  wired => \A s \in Scope : \E h \in hooks : h.scope = s /\ h.active /\ Verifies(h)
=============================================================================
