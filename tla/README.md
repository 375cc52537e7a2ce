# A formal model of the BigCommerce voice app

TLA+ modules, TLC configurations and TLAPS proofs for the app under `src/`: a Node
server that BigCommerce stores install, and that lets a Telenow voice agent call
their customers about orders, abandoned carts, cash-on-delivery confirmations, new
leads and lapsed purchases.  Paths below are relative to `src/src/` unless they begin
with `src/`; "README" with a line number is the app's own `src/README.md`.

The app is one Node process.  It keeps its state in one JavaScript object that is
written to `store.json` after every change, and it is concurrent in the way Node is:
code between two `await`s is atomic, everything else interleaves.  Every model
follows that rule: an action is the code from one `await` to the next.

## 1. The system

| Part | State it keeps | Operations | Hard behaviour | What makes it correct |
|---|---|---|---|---|
| Quiet hours (`util/quietHours.js`) | none; a window of a merchant's settings | `isQuietNow`, `nextWindowEnd` | windows over midnight, equal ends, malformed texts, the end minute | the two functions agree; no minute lost or claimed twice |
| Attempt marks (`store.js:199-240`) | `attempts[key]`, a time | `markAttempt`, `clearAttempt`, pruning | expiry at the boundary; `clearAttempt` asks for no owner | a mark is cleared only by the run that took it |
| Call placement (`automations/_base.js`) | timers, requests in flight, `callMap` | `placeCall`, the timer's callback, `fire` | redeliveries at the same time, delay, settings changed meanwhile, a lost answer, a restart | at most one call per key and TTL; a failure never blocks the key |
| Dispatch and the order, COD and cart automations (`webhooks/bigcommerce.js:180-277`, `automations/*.js`) | none of their own | `dispatch`, hydration, `isCodOrder`, identifiers, `shouldStillCall` | events repeated, late and swapped; the order is read after the event is acknowledged; a cart that goes away while its timer runs | every event leads to the attempts it should, none twice; nobody is called about a cart that is gone |
| Lead callback (`automations/leadCallback.js`, `store.js:290-364`) | lead rows, `leadSeq`, the customers' marks | insert, patch, prune | the row is patched by the answer and by the result, in any order, while it may be pruned | one row and one callback per window; a row tells what became of its call |
| Win-back (`automations/winBack.js`, `server.js:200-217`) | `callMap` entries by customer | `runWinBackSweep` on an interval | sweeps overlap, a call that fails ends the sweep | once per `winBackDays`; sweeps end; nobody starves |
| Results (`webhooks/telenow.js:144-364`) | `callMap` | `handleTelenowWebhook`, `handleResult`, `cleanupIfFinal` | acknowledged before it is handled; repeated, late and reordered deliveries; read-modify-write of notes | a dropped mapping means a written outcome; notes and metafields agree |
| Telenow subscription (`webhooks/telenow.js:36-142`) | the local hook and its secret | `ensureTelenowHook`, `removeTelenowHook` | listing, deleting and creating may each fail; the key changes | the secret here belongs to a hook there; exactly one hook |
| BigCommerce webhooks (`webhooks/bigcommerce.js:36-178`) | hook ids and a shared token per store | ensure, remove, authenticate | the token must outlive a partial failure | an active hook carries the token the store has |
| Install, load, uninstall (`auth.js`) | the store's entry | `/auth`, `/load`, `/uninstall` | run beside everything above | nothing is left after `/uninstall` |
| Settings (`settings.js`, `server.js:85-190`, `public/app.html`) | one record per store; what each open page shows | `getSettings`, `updateSettings`, the two routes that write, load, edit and save of a page | pages saving what they loaded long ago; settings of older versions; a key shown only as a hint | a save changes what was edited and nothing else |
| Phone numbers (`util/phone.js`) | none | `toE164`, `extractPhone` | trunk zeros, country codes, national numbers that begin like one | one customer, one number |
| Store file (`store.js`) | all of the above | `load`, `persist`, `migrate`, `deleteStore` | a write that fails is only logged | the file is a state that was once in memory |
| Admin API, Telenow API, sessions, server | connections; nothing else | requests, those to Telenow with a timeout of 20 s | timeouts hide answers | |

How they interact.  BigCommerce delivers an event to `webhooks/bigcommerce.js`, which
acknowledges it, reads the order or cart, and calls an automation.  The automation
calls `placeCall`, which marks the key, may set a timer, asks Telenow for the call and
stores the session in `callMap`.  Telenow later delivers `call.ended` and
`call.analyzed` to `webhooks/telenow.js`, which looks the session up in `callMap` and
writes to the order (staff note, metafields) or to the lead row.  A merchant's page
saves settings, which may (re)create the Telenow subscription.  A timer starts
win-back sweeps.  The marks, `callMap`, the settings and the hooks are shared by all
of these through the one in-memory object, with no lock besides Node's event loop.

The hazards this gives rise to are listed, each at its line, in `PROJECT.json`.

## 2. The modules

| Module | Models | Extended or used by |
|---|---|---|
| `QuietHours` | `util/quietHours.js` as pure operators | `PlaceCall`, `PureFunctions` |
| `Phone` | `util/phone.js` as pure operators | `PureFunctions` |
| `PureFunctions` | what the two of them promise, about windows and numbers that come up in any order | `MCPureFunctions`, `PlaceCallProofs` |
| `Attempts` | the dedupe marks of `store.js` | `PlaceCall` (EXTENDS); `LeadCallback`, `WinBack` (INSTANCE, a mark per customer) |
| `PlaceCall` | `placeCall` for one store, with everything that happens around it | `EventDispatch`, `MCPlaceCall`, `PlaceCallProofs` |
| `CallWindow` | what `placeCall` promises, without its mechanism | `PlaceCall` (INSTANCE, `Promise`) |
| `EventDispatch` | the way from a BigCommerce event to `placeCall`, composed with `PlaceCall` | `MCEventDispatch`, `EventDispatchProofs` |
| `ResultWriteBack` | `handleResult` for results about orders | `MCResultWriteBack`, `ResultWriteBackProofs` |
| `LeadCallback` | leads, from `store/customer/created` to the result | `MCLeadCallback`, `LeadProofs` |
| `WinBack` | the sweeps and what they call | `MCWinBack`, `WinBackProofs` |
| `TelenowHooks` | result subscriptions, key changes, install, uninstall | `MCTelenowHooks`, `TelenowHooksProofs` |
| `BcWebhooks` | the BigCommerce webhooks as `/auth` and `/uninstall` create and remove them | `MCBcWebhooks`, `BcWebhooksProofs` |
| `Settings` | the settings of a store and the pages that show and save them | `MCSettings`, `SettingsProofs` |
| `PlaceCallProofs` (`PureFunctions` too), `EventDispatchProofs`, `ResultWriteBackProofs`, `LeadProofs`, `WinBackProofs`, `TelenowHooksProofs`, `BcWebhooksProofs`, `SettingsProofs` | theorems and their proofs | |

An operator whose name ends in `_Something` and whose comment begins "A slip" is not
part of a model: it is the definition after it with a plausible mistake in it.
`PROJECT.json` ("mutants") pairs each property with one of them, and putting the slip
in place of the definition makes TLC report that property as violated.

### QuietHours
An `"HH:MM"` text is a pair of numbers.  A pair out of range stands for every text
`parseHHMM` turns into `null`, the ones the regular expression rejects included.  The
length of hour and day are constants, since nothing depends on 24 and 60.  The
minute of the day, which the code gets from `Intl.DateTimeFormat`, is an input.

### Phone
A written number is its digits, whether it begins with "+", and whether its first two
digits stand together at its beginning (only then does the code take "00" for a
prefix); everything else the code drops, so the model never has it.  `ToE164` is the
order of the code's cases: "+", "00", leading zeros off, the guard against a second
country code, the country code in front, the check of the length.  `ExtractPhone` is
the search through an order's or customer's places.

### Attempts
`markAttempt` tests and sets in one synchronous stretch and drops expired entries on
the way (`Live`, `Marked`); `clearAttempt` deletes the entry, whoever asks
(`Cleared`).

### PlaceCall
A *job* is one run of `placeCall` that got past its guards, with a stage for each
`await` or timer it can be at: `timer`, `precheck`, `dialing` (Telenow has not taken
the call), `accepted` (it has, and its answer is on the way).  The split of one HTTP
request into `Accept` and its answer is what lets the answer get lost.

| Action | Code |
|---|---|
| `StartJob` | `placeCall` from its call to its first await: enabled, key, agent, quiet hours, `markAttempt`, then `setTimeout` or the request |
| `TimerFires` | the `setTimeout` callback: settings and quiet hours again, then `shouldStillCall` or the request; not allowed: `clearAttempt` |
| `PrecheckEnds` | `shouldStillCall` answers; "no" (and an exception) keeps the mark |
| `Accept` | Telenow takes the call |
| `DialOk` | `initiateCall` resolves: `mapCall`, unless the answer names no session (`_base.js:89`) |
| `DialFails`, `AnswerLost` | it rejects, without or with a call having been taken: `clearAttempt` |
| `SaveSettings`, `Install`, `Uninstall` | `updateSettings`, `saveStore`, `deleteStore` |
| `Crash` | the process dies and reads the file: timers and requests are gone, marks are what `persist` last wrote |
| `Tick` | time; it never passes the moment by which a due timer fires or a request is over |

`db` is the object in memory and `disk` the last version `persist()` got written,
which differ only under the fault `writeLost` (`store.js:86-93` logs and goes on).
A skip by a guard changes nothing and is a stutter.  `excused` collects the keys a
fault has made unreliable: their customer may be called again, and the properties say
which faults those are instead of hiding them.

### CallWindow
The abstract specification of call placement.  An attempt opens a window of `TTL` for
its key (`trying`); in it the customer is called once (`called`), or not at all
(`kept`: the precheck said no, the process died), or the attempt fails and the key is
free again.  A fault that takes a key's record away ends the promise for it (`off`).
`PlaceCall` implements it: `WindowOf` computes a key's window from its mark, its jobs
and the calls that were taken, and `KeepsPromise` says that every step of `PlaceCall`
is a step of `CallWindow` or none.

### EventDispatch
`EventDispatch` EXTENDS `PlaceCall` and adds the shop (orders, carts), the events that
wait at BigCommerce and the app's handlers.  Its steps either leave `PlaceCall`'s
variables alone or are steps of `PlaceCall`.

| Action | Code |
|---|---|
| `Checkout`, `OrderWithoutCart`, `ChangeStatus`, `EditCart` | customers and merchant, outside; each leaves an event in `outbox` |
| `Receive` | the receiver: acknowledge, dispatch; an event whose acknowledgement is lost stays in `outbox` and comes again |
| `ReadOrder`, `Hydrated`, `HydrationFails` | `getOrder` reads the order at BigCommerce, as it is then; its answer queues the handlers (`runHandler`); it rejects |
| `RunOrderHandler` | `handleOrderConfirmation`, `handleCodConfirmation`, `handleOrderStatusUpdate`: `isCodOrder`, the minimum order value, identifier, `placeCall` |
| `RunCartHandler`, `GetCart`, `GetPhone` | `handleAbandonedCart` between its awaits |
| `Elsewhere` | a step of `PlaceCall`; the precheck says yes only of a cart it found items in |
| `DispatchCrash`, `DispatchTick` | `Crash` and `Tick`, with the requests of dispatch |

The handlers `dispatch` queues run as microtasks: while `ready` holds one, nothing
else of the process runs.  `tried` collects the keys `placeCall` was asked for, `lost`
the orders a failed request or a crash has cost an acknowledged event.  A request for a
cart is read at BigCommerce at some time between its start and its answer, so that what
it says may be over when it arrives (`SeenFilled`); `closedAt` is the time a cart was last
emptied or ordered.

### ResultWriteBack
A *task* is one `handleResult`, at one of its six requests: read the order, write the
notes, then for a COD call list and write `telenow_cod`, then list and write
`telenow_last_call`.  A session's automation is known only while `callMap` has it; an
identifier `order:<id>` still names the order, which is why a COD result without a
mapping is handled as a result of another kind.  `ReadDisposition` has the order of
the code's four searches; a text is the set of the two expressions it matches.  Notes
are the set of lines an order has; a handler carries the set it read, and its line is
cut when there is no `Room`.  A behaviour has one of several *regimes*: which requests
may fail, whether two handlers of an order may be in flight together, whether a result
may overtake the answer of `initiateCall`.  The properties name the regimes the code
can keep them in; section 5 has what happens in the others.  BigCommerce's refusal to create a metafield
twice is external (section 6).

### LeadCallback
`Deliver` is `handleLeadCallback` up to its first await, including `placeCall`'s
guards and the first status of the row.  `placeCall`'s own key holds the row id and
never blocks, so only the customer's mark is modelled.  `late` tells calls that
`placeCall` scheduled from those the handler awaits: nobody waits for the former, and
their failure reaches no row.  An answer may leave out the session, and the row then
names none.  `Result` patches the row that `callMap` or, without an
entry, the identifier names, at any time after the call was taken and any number of
times.  What settings and clock make of the automation may change between any two
steps, so each reading of it is any of three modes.  `Reinstall` is `/uninstall`
(`deleteStore`) with the `/auth` after it: rows and marks go, `leadSeq` starts again,
timers and requests in flight go on.  What they then do to the rows with the same ids
is in the history variables `released` and `foreign`.

### WinBack
A *sweep* awaits the customers, then each customer's last order, then the call;
a *placement* is `placeCall` for a customer.  Two records stop a second call: the mark
(`TTL`) and the `winback:` entry in `callMap` (`winBackDays`).  `mode` is what
`placeCall`'s guards make of settings and clock; `days` is `winBackDays`, which a save
may change between two sweeps and under one, and which a sweep reads when it begins.

### TelenowHooks
One action per awaited request of `/auth`, `/uninstall`, `POST /api/settings` and
`POST /api/validate-key`, for several stores, each with its Telenow account or
sharing one.  A hook is a number that stands for its id and for its secret.
`connected` holds the stores whose last `ensureTelenowHook` succeeded for the key they
still have; `littered` the accounts where a failed request has left a hook.

### BcWebhooks
One action per awaited call of `/auth` (list, then for each scope delete and create)
and of `/uninstall` (list, delete one after the other, purge).  A hook carries the
token it was created with; `saveStore` makes a token for a new store and keeps the one
a store has.  `Silence` is BigCommerce deactivating a hook.  Three history variables
say when the promise is due: `wired` (the last request is an `/auth` without a
failure), `leftover` (the hooks that an `/uninstall` with a failed call has left
behind) and `littered` (a listing or a deletion has failed).  A create or a delete whose
answer is lost needs no action of its own: the code goes on in the same way after the
answer and after its loss.

### Settings
`raw` is the stored object, as an earlier version may have left it; `GetSettings` fills
in the defaults, `UpdateSettings` merges a patch automation by automation, `Sanitize`
is the route's filter with its coercions.  Objects are functions from their keys, so
that `{...x, ...y}` is `Spread(x, y)` and a missing field stays missing.  A page is what it
has loaded (`shown`), what is in its fields (`form`, `days`, `typed`), the fields the
merchant has touched, and what its save carries; it goes through `Load`, `Edit`,
`Send`, `Handle` (the route, without an await) and `Answer`.  `ValidateKey` and
`PostFilters` write beside it.

## 3. What TLC checks

Deadlock checking is off because the bounds stop every system: nothing is left to do
when the clock, the calls, the requests or the length of a number have reached their
bound.

| Run | Instance and bounds | What it shows |
|---|---|---|
| `pure_functions` | day of 3 x 3 minutes, all windows with texts one beyond each range; all numbers of up to six digits out of 0, 1, 2, country code 12, national numbers of four digits | `nextWindowEnd` is the first minute that is not quiet; a window and its swap share out the day; all ways to write a number agree |
| `place_call_faults` | one cart, requests that take a unit of time, TTL 5, clock to 8, two jobs, two disturbances; lost answers, answers without a session, lost writes, crashes, uninstall and reinstall under jobs | the inductive invariant of the proof; the promise `CallWindow` is kept; a mark has a cause; no call earlier than the delay; every job ends |
| `order_events` | a COD order of two statuses and a cart of one customer, three changes, two deliveries, TTL 2, a crash or a change of settings, failing requests | every order gets the attempts it is due; once per key and TTL; nobody is called about a cart that has gone |
| `write_back` | two calls about one order and a cart call, three deliveries, two handlers, three regimes: in turn with results before the answer; in turn with failing writes and crashes; overlapping with every fault | the inductive invariant of the proof; no note is lost; metafield and note agree; a mapping is dropped only after the outcome was written; a settled outcome stands |
| `lead_callback` | a customer with a phone and one without, three rows of which two fit, two calls, two installations; lost answers, answers without a session, crashes, a reinstall | the inductive invariant of the proof; one row and one callback per window; a row tells what became of its call; pruned and purged rows stay gone; "queued" passes |
| `win_back` | one customer, two overlapping sweeps, delays 0 and 1, TTL 4, `winBackDays` 4 or 5 with one change of it or of the other settings, clock to 7, two calls, every fault | the inductive invariant of the proof; once per window for placed calls, once per day for all, unless an answer was lost; a record has a cause |
| `win_back_live` | two customers, one sweep at a time, orders and settings that change | sweeps end; no lapsed customer stays due for ever |
| `telenow_hooks` | two stores, three accounts, five requests, each of which may fail | the inductive invariant of the proof; the secret here is of a hook there; one hook; nothing changes or remains without a failure |
| `bc_webhooks` | one store with two scopes, four installs and uninstalls one after the other, six hooks, two deactivations, any call may fail | the inductive invariant of the proof: after an `/auth` without a failure each scope has an active hook, and only hooks that an `/uninstall` failed to delete are refused; no scope has two |
| `settings` | two pages, two automations, stored settings of three ages, four requests, two edits | a save changes what was edited; no page takes filters away; the hint never becomes the key |
| `outcome_overwritten` | one COD call, its two deliveries handled at once | violation, see section 5 |
| `hooks_validate` | a key that is validated and then saved | violation, see section 5 |

### The bounds, and why they are enough
Time is counted in units that stand for whatever makes the order of TTL, delay,
latency and window matter: TTLs of 2 to 5 with delays of 0 to 2 have a delay of none,
some and nearly all of a TTL, and the clock lets a mark expire while a second attempt
is under way.  Two jobs (tasks, handlers, sweeps, pages) suffice for every race of a
pair; keys do not interact except through pruning in `markAttempt`.  One or two
disturbances allow each and, in `place_call_faults`, each pair (save and crash,
uninstall and reinstall).  Three changes of the shop are an order, its next status and
the one after, or a cart filled and emptied under its timer; two deliveries are two
events of one order, or one repeated, on top of the ones that never arrive.  Three
deliveries of results are both events of a call and one repeated, or one of another
call.  Three rows with room for two prune one under its call; a second installation
gives two of the ids out again.  Five requests are connect, change, uninstall, install,
connect; four of `bc_webhooks` are install, uninstall, install, install, each over what
the one before has left; four of `settings` let two pages load, and both save.  Numbers
of six digits hold country code and national number, and the national ones include
those that begin with the country code.  Slots are symmetric and TLC uses it, except
in runs with liveness, where `Deliver` of `LeadCallback` takes the first free one.

`MaxCalls`, `MaxTime`, `MaxDisturbances`, `MaxDeliveries`, `MaxRows`, `MaxInstalls`,
`MaxHooks`, `MaxRequests`, `MaxEdits`, `MaxOrders`, `MaxChanges`, `MaxSilenced` and
`MaxLength` are guards of the actions they bound and appear nowhere else but in types.
`Room` and `MaxLeads` are limits of the program, made small; `Room` stands for the
65535 characters of `bigcommerce.js:303`, and with 14 an order takes a line of every
result there can be; section 5 has what a smaller one does.  In `StartJob`, `Deliver`
and `StartSweep` the clock's bound keeps a job from beginning that could not end in it,
so that the bound never counts as a failure to finish.

### Fairness
* Requests settle: weak fairness of the steps of a job, task or placement.  A request
  to Telenow ends by its answer or after 20 s (`telenow.js:39-72`); one to BigCommerce
  has no limit of the app's own (`bigcommerce.js`), but Node's `fetch` gives up on a
  silent connection.  Nothing says how it ends.
* Timers fire: Node runs a callback whose time has come.
* The clock goes on: strong fairness of `Tick`, which is disabled while something due
  has not happened yet.
* In `win_back_live` `setInterval` starts sweeps again and again, and a call Telenow
  does not always refuse is taken in the end (strong fairness of `Accept`): without
  that, a customer may be refused for ever and no program could help.

Merchants, customers, crashes and deliveries have no fairness; therefore what should
become of events and results is stated as safety (`EventsAreTried`,
`DroppedMeansWritten`): when nothing is outstanding, it has happened.

## 4. What is proved

TLAPS checks the following for every value of the constants, from the assumptions
named in the modules (`ClockAssumption`, `PhoneAssumption`, `TTLAssumption`,
`PlaceCallAssumption`, `DispatchAssumption`, `WriteBackAssumption`, `LeadAssumption`,
`WinBackAssumption`, `HooksAssumption`, `BcWebhooksAssumption`, `SettingsAssumption`).
Most only give the constants their types.  Two say more: `BcWebhooksAssumption` has the list of scopes without a repetition, as
`WEBHOOK_SCOPES` is (`webhooks/bigcommerce.js:45-51`), and `SettingsAssumption` has in the
settings of earlier versions what their sanitizer let through: any automations and
fields may be missing, and what is there is a value the app stores (`Stored`).  What a theorem needs beyond that is
in its statement.

| Theorem | Statement |
|---|---|
| `PlaceCallProofs!SwappedWindow` | a usable window and its swap share out the day |
| `PlaceCallProofs!WindowEndIsFirstFreeMinute` | in quiet hours `nextWindowEnd` is 1 to `Day` minutes away, not quiet, and every minute before it is |
| `PlaceCallProofs!EveryWritingIsOneNumber` | each writing of a national number of the usual length normalizes to the country code and the number |
| `PlaceCallProofs!WindowEndIsExact`, `WindowsShareTheDay`, `WritingsAgree` | therefore `InputSpec => []P` for the three properties of `PureFunctions` |
| `PlaceCallProofs!TypeCorrect` | `Spec => []TypeOK` |
| `PlaceCallProofs!Inductive` | `ShortDelays => (Spec => []IInv)` |
| `PlaceCallProofs!AtMostOneCallPerWindow` | `ShortDelays => (Spec => []OneCallPerWindow)` |
| `PlaceCallProofs!MarksAreOwned` | under the same assumption, a job in flight holds its mark and is alone with its key |
| `PlaceCallProofs!EveryMarkHasCause` | `Spec => []MarkHasCause`, for all delays |
| `PlaceCallProofs!CallsWaitTheirDelay` | `DelaysFit => (Spec => []WaitsTheDelay)` |
| `PlaceCallProofs!PlaceCallKeepsPromise` | under the same assumption, `Spec => KeepsPromise`: `PlaceCall` implements `CallWindow` |
| `EventDispatchProofs!DispatchImplementsPlaceCall` | `DispatchSpec => Spec`: the composition uses `placeCall` only as `PlaceCall` allows |
| `EventDispatchProofs!EventsCallOncePerWindow`, `EventsOwnTheirMarks` | therefore `OneCallPerWindow`, and the ownership of marks, under any events |
| `EventDispatchProofs!DispatchInductive` | `DispatchSpec => []DispatchIInv` |
| `EventDispatchProofs!EveryEventIsTried` | `DispatchSpec => []EventsAreTried` |
| `EventDispatchProofs!CartCallsAreFresh` | `DispatchSpec => CartCallIsFresh`, for every latency and delay |
| `ResultWriteBackProofs!HandlersAreSound` | `Spec => []HandlersInv`, in every regime |
| `ResultWriteBackProofs!NotesAreKept`, `SettledStands` | `Spec => NotesKept`, `Spec => SettledOutcomeStands` |
| `ResultWriteBackProofs!OutcomeBeforeDrop` | under `RoomSuffices`, `Spec => []DroppedMeansWritten` |
| `ResultWriteBackProofs!MetafieldFollowsNote` | under `OneCodCall`, `Spec => []NoteAndMetafieldAgree` |
| `ResultWriteBackProofs!WriteBackIsSound` | under both, `Spec => []WriteBackIInv` |
| `LeadProofs!LeadInductive` | `QuickRequests => (Spec => []LeadIInv)` |
| `LeadProofs!RowsOncePerWindow`, `CallbacksOncePerWindow` | therefore `OneRowPerWindow` and `OneCallbackPerWindow` |
| `LeadProofs!RowsTellTheirCalls` | therefore `RowTellsOfItsCall` |
| `LeadProofs!PrunedRowsStayGone` | under the same assumption, `Spec => PrunedStaysGone` |
| `WinBackProofs!MarksAndRecordsInStep` | `ShortDelays => (Spec => []WinBackIInv)`, where `ShortDelays` is delay + 2 x latency < TTL |
| `WinBackProofs!NoSecondWinBack`, `WinBackMarksADayApart` | therefore, under `ShortDelays` and for customers no answer about whom was lost, `OneWinBackPerWindow` and `OneCallPerDay` |
| `WinBackProofs!EveryRecordHasCause` | therefore, under `ShortDelays`, `RecordHasCause` |
| `TelenowHooksProofs!HooksAreTyped` | `Spec => []HooksTyped`, overlaps included |
| `TelenowHooksProofs!HooksInductive` | `~Overlap`, `SeparateAccounts`: `Spec => []HooksIInv` |
| `TelenowHooksProofs!SecretsAreLive`, `AccountsHaveOneHook` | therefore `LocalIsLive` and `WiredOnce` |
| `TelenowHooksProofs!UninstallUnsubscribes` | under the same assumptions, `Spec => NothingLeftBehind` |
| `BcWebhooksProofs!WebhooksAreTyped` | `Spec => []BcTyped`, overlaps included |
| `BcWebhooksProofs!WebhooksAreSound` | `~Overlap`: `Spec => []BcIInv` |
| `BcWebhooksProofs!AuthIsHeard` | therefore `EveryScopeIsHeard`: after an `/auth` without a failure each scope has an active hook, which verifies unless an `/uninstall` failed to delete it |
| `BcWebhooksProofs!RefusedAreLeftovers` | therefore `OnlyLeftoversAreRefused`: those hooks are refused and no others |
| `BcWebhooksProofs!ScopesHaveOneHook` | therefore `OneHookPerScope` |
| `SettingsProofs!SettingsInductive`, `SettingsAreTyped` | `Spec => []SettingsIInv`, therefore `[]TypeOK` |
| `SettingsProofs!SavesChangeOnlyEdits` | `Spec => SaveChangesOnlyEdits` |
| `SettingsProofs!FiltersAreKept` | `Spec => PagesKeepFilters` |

The argument for calls.  "No two calls for a key within a TTL" is not inductive: the
state might hold a job about to dial and a call that was just taken for the same key.
What excludes it is the mark, and `clearAttempt` does not say whose mark it deletes.
So the proof has to show that whoever clears a mark is the run that took it, and `IInv`
adds to the type invariant:

* `JobEndsBeforeItsMark`: a job is over before its mark expires.  It follows from the
  assumption `ShortDelays` (delay + 3 x latency < TTL: the timer, the precheck and the
  request each take at most a latency) and from `Tick`, and it is where that
  assumption is used;
* `JobHoldsItsMark`: therefore no one else can have taken the mark, and the key still
  holds the one the job took;
* `OneJobPerKey`: therefore a second job of the key cannot begin;
* `CallKeepsItsMark`: the mark of a call stays until it expires, since the only job
  that could clear it has ended successfully;
* `PendingIsFresh`: a job that has not reached Telenow comes a TTL after every
  earlier call of its key, and this becomes `OneCallPerWindow` when it gets there.

There is one lemma per kind of action that can disturb a conjunct (`StartJobStep`,
`TimerFiresStep`, `AcceptStep`, `TickStep`, ...) and lemmas for the two ways marks
change (`MarksUntouched`, `MarkReleased`).  `ShortDelays` cannot be dropped: with a
delay of a TTL or more TLC finds two calls in a window (section 5).

`MarkHasCause` needs none of this: it asks for a cause only of marks that are there, so
that a mark cleared by the wrong run does not matter.  What it needs is that a job
whose call was taken leaves the call behind when it ends (`AcceptedHasCall`), and one
that is refused by the precheck, or cut off, an entry in `blocked`.  `WaitsTheDelay`
follows from what a job carries (`JobsWait`), under the assumption that `setTimeout`
can hold every delay (`DelaysFit`); it fires a longer one at once (section 5).

The refinement of `CallWindow` rests on the same invariant.  A job that has not reached
Telenow holds its mark (`JobHoldsItsMark`), so its key's window is `trying` since the
job's own mark, and is alone (`OneJobPerKey`), so that the end of the job ends the
attempt; its mark is younger than every call of the key (`PendingIsFresh`), so that the
window has had no call and `Accept` is `Place`.  A crash that loses no write is `Keep`
for all the keys being tried.  `JobEndsBeforeItsMark` is what lets `Tick` be a `Tick`
of `CallWindow`, where an attempt is over before its window is.

The argument for events.  `EventsAreTried` speaks of orders about which nothing is
outstanding, so it says nothing of the states on the way.  `NothingForgotten` does:
what an order is due has been tried, or the event that will lead to the attempt is
still in `outbox`, in a slot or among the handlers (`CreationAhead`, `UpdateAhead`).
The point is the announcement of a status: a slot that holds an older status is no use
for it, so `UpdateAhead` asks for the status the order has *now*, and that is kept
because a change of status leaves a new event.  `EventsFollowOrders` is what makes the
status an answer of `getOrder` carries a status.  The proof has a lemma per action, for
types first (`...Sound`) and for `NothingForgotten` then.

The argument for carts.  `GetCart` and the precheck say that a cart had items at some
time since they were started, and every request is over within a latency
(`RequestsAreTimely`); therefore each adds at most one latency to how long ago the cart
may have been closed (`CartsWereFilled`), and so do the request for the phone number,
when no delay follows, and the call itself.  After a delay the count starts anew, since
a job of this automation leaves its timer only through the precheck (`DialingJob`).  A
cart that is closed in the meantime is closed later than anything that is in flight
began (`CartsKeep`).  The run `order_events` has latency 0, where nobody is called about
a cart that was closed before the instant of the call; the theorem has the bound of three
latencies for any.

The argument for leads.  What happened to a customer outlives its witnesses: a row may
be pruned while its call goes on, a callback may be over while its row stays.
`Handlings` collects what rows, callbacks in flight and calls of this installation say
of the events that were handled, and the invariant is about those: the customer's mark
stands for a TTL after a handling unless a failed placement gave it back
(`HandlingHoldsMark`), therefore two handlings of a customer are a TTL apart
(`HandlingsApart`), and a request in flight is younger than its mark
(`RequestsAreQuick`, from the assumption `QuickRequests`, latency < TTL).  Most steps
only take handlings away (`FewerHandlings`).  `Deliver` adds the newest, and no other
of its customer holds a live mark.  A failed placement deletes the customer's mark
without asking whose it is (`clearAttempt`): all handlings of the customer before its
own have expired by then, and none can have come after it.  The exception is a request
from before a reinstall, which takes the mark of whoever holds it now, and `released`
says so.  A reinstall leaves no handling (`InstallsArePast`).

What a row tells is harder, since three messages patch it and none of them asks what
the others have written.  The witnesses help again: all of them that have one row id
are one handling (`HandlingsAreOne`), so that the customer of the call a row names is
the row's own.  That the row names a call of its own at all goes back to the answer on
its way (`AnswersKnowTheirCalls`) or to the result, and `foreign` holds the rows for
which the answer was that of an earlier installation (`RowsNameTheirCalls`).  And a row
whose call was taken cannot stay "queued": the handler that will write it is at work, or
has written it (`RowsFollowTheirCalls`), unless a crash (`cut`) or a lost answer
(`released`) took it away.  Calls that were only scheduled are left out, because nothing
ever tells their rows (`leadCallback.js:98-101`).

The argument for sweeps.  A sweep reads the records of `callMap` before `placeCall`
and writes one after it, with a request to Telenow in between, so that the record alone
stops nobody while a call is being placed.  The mark does, and it does so to the end:
the theorems assume `ShortDelays`, delay + 2 x latency < TTL, and `PlacementHoldsMark`
keeps, for each stage, what is left of that (`Slack`).  Nothing in the code sees to it:
`server.js:170` sets no upper bound and the page offers a week (`app.html:191`), so that
the theorems are about the merchants who choose less than a day.  `winBackDays` may change
at any time, and the window that counts is the one the later sweep has read.  A sweep that passes both tests
therefore finds no placement of its customer in flight (`PlacementBlocks`), every call
with a live record or mark excluded (`IdleIsOnRecord`, `CallIsOver`), and its own
placement starts fresh (`PendingIsFresh`).  A call goes from there onto the record
(`CallGoesOnRecord`) unless its answer is lost, which `unseen` remembers.
`SweepsInHand` ties a sweep to the placement it awaits, so that the answer moves that
sweep on and no other.

The argument for results.  A handler writes what it has read before, so everything
depends on who else writes in between.  `OneHandlerPerOrder` says who: nobody, in the
regimes that have no overlap; therefore what it has read is still there
(`ReadIsCurrent`), and `NotesKept` is a consequence.  `DroppedMeansWritten` needs no such
order: a handler that reaches the cleanup has its writes behind it
(`WrittenOnTheWay`), in every regime.  It does need `RoomSuffices`, staff notes with room
for a line of each result: without it the new line itself is cut (section 5).
`NoteAndMetafieldAgree` is the long one.  Once the note of an analysis is on the order,
the handler that wrote it is before its metafield, or the metafield says what it should
and nobody left would change it (`AnalysisArrives`): not a handler of `call.ended`, which
comes before the note (`EndedComesBefore`), not a result that did not find the mapping,
since it is handled as another kind (`HandlersKnowTheirCall`), and not another call, by
the assumption `OneCodCall`.  That one is what the mark of `placeCall` gives an order for
a TTL, as `OneCallPerWindow` states; two COD calls about one order would share its
metafield, whose value is then that of the later one.  `SettledOutcomeStands` says what
remains without it, and is proved without it.

The argument for the Telenow subscription.  Under `~Overlap` one request is at work at a
time, and under `SeparateAccounts` no two stores have an account in common; section 5 has
what happens without either.  Then what a request has read of its store stays true
(`AsRead`), the account is empty when `ensureTelenowHook` creates the new hook unless a
call to list or to delete has failed (`littered`), and what a store remembers changes only when the hook
it names is there (`ConnectedIsLive`).  That holds at each step of a request and after
each failure, so `LocalIsLive`, which looks at stores with no request, follows.

The argument for the BigCommerce webhooks, again one request after the other.  `/auth`
works down the list of scopes, so the invariant is about a list half done: of the scopes
that are done each has an active hook, of those to come the hooks are as they were listed
(`DoneScopesAreHeard`, `ScopesAreAsListed`), and at `Create` the one hook of the scope is
gone.  A hook that `Silence` deactivates behind the list counts as a failure of the
request under way.  That a hook carries the store's token goes through
`/uninstall`: a hook it leaves behind is in `leftover`, because a call has failed
(`Unhooks`, `TokenIsCurrent`), and the token of the next installation is new.  The hooks
in `leftover` are therefore exactly the ones an installed store refuses, and `/auth` may
take one of them for wired, since it looks only at `is_active` (section 5).

The argument for settings.  A field passes from the store through `GetSettings` to the
page, and back through `Collect`, `Sanitize` and `UpdateSettings`; `Untouched` follows a
field nobody touched on that way, as far as the page's request.  Each of the operators
has a lemma that says, field by field, what it returns of an object that may lack any of
them (`GetSettingsIs`, `UpdateIs`, `SanitizedIs`, `CollectIs`), and `SaveIs` composes
them: of a form's field the store gets what was sent, coerced, and of filters what it
had.  Coercion changes nothing of an untouched field, because what the store holds is
already coerced (`Stored`, `Complete`); that is why the delay that is not negative and
the days that are not zero belong to the invariant.

Only model-checked, since they are beyond the prover: the liveness properties
(`EveryJobEnds`, `QueuedIsPassing`, `EverySweepEnds`, `EveryLapsedIsCalled`).

## 5. Where the code and its documentation disagree

Two disagreements have a run of their own:

* `outcome_overwritten`: `automations/codConfirmation.js:10` says that a confirmed
  call ends as `telenow_cod = "confirmed"`.  The handlers of `call.ended` (whose
  disposition is "no-response" when it carries no analysis) and of `call.analyzed`
  are not serialised; the first may write last, or create the metafield first so that
  the second's creation is refused.
* `hooks_validate`: README:110 says that saving a new key subscribes the webhook.
  `POST /api/validate-key` stores the key it validates; saving it afterwards is not a
  change any more (`server.js:116`), and no subscription is made.

The models reproduce the following ones too.  Each property is defined in the module
named (most are not part of a run), and TLC reports it violated with the constants of
the component's run, changed as the third column says.

| Property | What is said | Violated with |
|---|---|---|
| `PlaceCall!NeverTwoCallsInAWindow` | README:153, webhook redeliveries don't double-call | `Faults = {"answerLost"}`: the mark is cleared although Telenow took the call |
| `PlaceCall!OneCallPerWindow` | `abandonedCart.js:12-13`, one call per cart and window | `CfgChoices <- LongCfgChoices`, `TTL = 3`: a delay of the TTL or more outlives the mark.  The page offers a week for every automation (`app.html:191`) and `server.js:170` sets no bound |
| `PlaceCall!WaitsTheDelay` | README:33, the configured delay | `CfgChoices <- LongestCfgChoices`, `TimeoutMax = 4`: `setTimeout` fires after 1 ms beyond 2^31 - 1 ms |
| `PlaceCall!UninstalledStoreHoldsNothing` | README:155, uninstalling purges everything | `Faults = {"uninstall"}`: the answer of a call in flight maps its session afterwards |
| `PlaceCall!DialsOnlyWhenAllowed` | `_base.js:113`, README:154, re-checked at fire time | no change: settings may change while the precheck is awaited |
| `EventDispatch!OnlyTheseStatuses(S)` | `orderUpdates.js:51-52`, README:45, `filters.statuses` restricts which statuses call | any `S` without one of the statuses: no code reads that filter |
| `EventDispatch!ManualIsTried` | README:129, a manual method on an unpaid order is COD | `Payment <- Manual`: the order is read after it was paid or shipped |
| `ResultWriteBack!NotesKept` without `InTurn` | `bigcommerce.js:296`, notes are appended | an overlap, or `"readFails"`: read, then write of the whole text |
| `ResultWriteBack!ConfirmedIsConfirmed` | README:119 | regime `Faultless`: a result handled before the answer mapped its session |
| `ResultWriteBack!DroppedMeansWritten` without `~regime.late` | `webhooks/telenow.js:325-327`, the mapping goes after the last event | regime `Faultless`: the mapping comes while a handler that never knew it is at work, whose cleanup drops it |
| `ResultWriteBack!DroppedMeansWritten` | `bigcommerce.js:296` | `Room = 1`: the notes are cut at their end, where the new line is |
| `LeadCallback!CompletedStands` | `leadCallback.js:12-14`, the result marks the lead completed | no change: the answer comes after the result and sets "placed" |
| `LeadCallback!RowsAreOfTheirCalls` | README:155, `store.js:141`, uninstalling purges everything | no change: an answer or result of a call from before a reinstall patches the row that has its id now |
| `WinBack!EveryLapsedIsCalled` | `winBack.js:4-5`, the sweep calls the lapsed customers | `Listed <- BobFirst`, `Refused = {bob}`: the refused call ends every sweep |
| `WinBack!OneWinBackInAllCases` | `winBack.js:70`, once per window | `Delays = {1}`, `Faults = {}`: a scheduled call makes no `winback:` entry, and only the mark keeps the next sweeps away |
| `BcWebhooks!EnsuredHooksVerify` | `webhooks/bigcommerce.js:65-67`, mismatched hooks are recreated | no change: a hook that `/uninstall` could not delete keeps the old token, the new store makes another, and an active hook is not looked at again |
| `BcWebhooks!OneHookPerScope` | `webhooks/bigcommerce.js:65-66`, idempotent | `Overlap = TRUE` with two tasks: both list before either creates |
| `TelenowHooks!LocalIsLive` | `webhooks/telenow.js:45-46` | `Overlap = TRUE` with two tasks: each deletes the other's hook as stale |
| `TelenowHooks!ResultsStayHome` | `webhooks/telenow.js:166-167` | `KeysOf <- SharedKey`: two stores of one account share its hook |
| `TelenowHooks!OldKeyIsUnsubscribed` | `webhooks/telenow.js:99` | `KeysOf <- TwoKeys`, one store: a change of key leaves the old account's hook |
| `Settings!StalePagesOverwriteNothing` | what two merchants expect | no change: a page sends every field it shows |
| `Settings!TypedKeyIsKept` | what a merchant expects | no change: the answer of a save clears the field for the key, whatever is in it by then (`app.html:363`) |
| `MCPureFunctions!ShortNumbersAgree` | `phone.js:65-66`, no double prefix | no change: the guard asks for ten national digits, and several of the countries have numbers of nine |

Smaller ones, met while reading.  `webhooks/telenow.js:327-328` speaks of a collection
of `callMap` entries whose `call.analyzed` never comes; the code has none.
`phone.js:59` says that a single leading zero is dropped; the code drops all of them,
and a zero after a written country code ("+44 (0)20 ...") stays.  A label such as "not
confirmed" contains "confirm" and reads as confirmed (`webhooks/telenow.js:342`).
`server.js:168` coerces an automation that is sent without `enabled` to one that is
disabled, so a client of the API has to send whole automations, as the page does.  The
hint of a key of twelve characters or less has no ellipsis (`settings.js:154`), which
is what the page knows a hint by.  `POST /api/validate-key` stores the key as it is sent
(`server.js:136`), `POST /api/settings` without the blanks around it (`server.js:157`).  An event whose order could not be read is not
handled again: it has been acknowledged.  A status an order returns to within the TTL
is not announced a second time, since its identifier is the same.

## 6. Assumptions about what is outside

* BigCommerce refuses a second metafield of the same namespace and key with an error,
  and applies or does not apply a PUT whose answer is lost.
* BigCommerce takes a second hook of the same scope and destination, sends with each
  delivery the headers its hook was created with, and may deactivate a hook.
* BigCommerce sends an event for each new order, change of status and change of a
  cart, in any order, again while it is not acknowledged.
* Telenow takes a call or refuses it; a taken call may ring even if the answer is
  lost.  `call.analyzed` comes only for agents with an analysis, never before the end
  of the call, but the two deliveries may arrive in any order and more than once.
* A request takes at most `Latency`, and a due timer fires within it.
* A crash loses memory, never a file that was written (`persist` renames it into
  place).
* `EventDispatch`: the store stays installed, and orders cost the same all the time.
* `LeadCallback`: a result of an earlier installation's call may arrive, since the
  store may have subscribed with the same account again.
* `WinBack`: every customer has a phone, all customers fit on the first page, and a
  customer has one placement in flight.  The last is so under `ShortDelays`, the hypothesis
  of the module's theorems; of longer delays, with which the code places a second call
  beside a pending one, `WinBack` says nothing.  What they do to marks is in `PlaceCall`
  (section 5).

## 7. What is not modelled

| Part | Why |
|---|---|
| `session.js`, the JWTs and the code exchange of `auth.js` | cryptography and strings, no state that changes |
| `migrate` and a file that does not parse, in `store.js` | run once at the start, before anything else |
| `redactCustomerLeads`, `listLeads` in `store.js` | nothing calls the first; the second only reads |
| the variables of a call, texts of notes | wording |
| the rest of `bigcommerce.js`, `telenow.js`, `server.js` | HTTP, routing, static files |
| the table of leads and the layout of `public/app.html` | display |
| `src/scripts`, `src/test` | tools |

Hazards that no property of a run catches, because the code is exposed to them and a
property that holds has to leave them out:

* calls: a lost answer (`_base.js:103`), a delay that `setTimeout` cannot hold
  (`_base.js:112`), settings that change while the precheck is awaited (`_base.js:128`);
* results: notes that are read before another handler writes them or cannot be read
  (`bigcommerce.js:301`), notes that are full (`bigcommerce.js:303`), a result before the
  answer of a lead's call (`leadCallback.js:96`);
* hooks: overlapping subscriptions (`webhooks/telenow.js:94`) and installs
  (`webhooks/bigcommerce.js:77`), two stores of one account (`webhooks/telenow.js:163`), a
  hook that `/uninstall` could not delete (`webhooks/bigcommerce.js:86`);
* settings: the cleared key field (`app.html:363`).

Section 5 names the property that states each, and with which constants it fails.  Three more
are what the code means to do, or promises nothing about: an acknowledged event whose request
fails is not tried again (`webhooks/bigcommerce.js:213`), the row of a scheduled lead call
stays "skipped" (`leadCallback.js:99`), and quiet hours put a customer on record without a
call (`winBack.js:96`).

## 8. Plan

Order of work: what calls customers first, then what records the outcome, then what
keeps the app connected.  The modules of section 2 are written.  `CallWindow` is the
abstract specification of what matters most; `EventDispatch` composes the way to it.

Left for the model: results about leads and orders through one `callMap` with
`TelenowHooks`' lookup of the store, as a composition; paging of customers in
`WinBack`.

Left for the proofs: nothing of what the runs check but liveness.
