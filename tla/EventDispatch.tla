--------------------------- MODULE EventDispatch ---------------------------
(***************************************************************************)
(* From a BigCommerce event to placeCall, for one store: dispatch of         *)
(* src/webhooks/bigcommerce.js and the handlers for orders and carts in      *)
(* src/automations, composed with PlaceCall.  An event is acknowledged, then *)
(* dispatched: the order it names is read from the Admin API, and the        *)
(* handlers run as microtasks, before anything else in the process.          *)
(***************************************************************************)
EXTENDS PlaceCall

CONSTANTS
  Order, Cart,     \* what the store's events name
  Status,          \* order statuses
  FirstStatus,     \* the status a new order has
  Unpaid,          \* the statuses isCodOrder takes for not captured
  Slug,            \* the form a status has in an identifier
  Payment,         \* of an order: "cod", "manual" or "online"
  BelowMinimum,    \* orders cheaper than the COD filter minOrderValue
  Reachable,       \* orders and carts on which extractPhone finds a number
  SlotId,          \* slots for requests of dispatch and of the cart handler
  MaxDeliveries,   \* bound on the deliveries of BigCommerce
  MaxChanges       \* bound on what customers and the merchant do to the shop

ConfirmKey(o) == <<"orderConfirmation", o>>
CodKey(o) == <<"codConfirmation", o>>
CartKey(c) == <<"abandonedCart", c>>

\* order:<id>:<slug of the status>
UpdateKey(o, status) == <<"orderUpdates", o, Slug[status]>>

NoOrder == "none"

ASSUME DispatchAssumption ==
  /\ NoOrder \notin Status
  /\ FirstStatus \in Status /\ Unpaid \subseteq Status
  /\ Payment \in [Order -> {"cod", "manual", "online"}]
  /\ BelowMinimum \subseteq Order
  /\ Reachable \subseteq Order \cup Cart
  /\ Prechecked = {"abandonedCart"}
  /\ Key = {ConfirmKey(o) : o \in Order} \cup {CodKey(o) : o \in Order}
             \cup {UpdateKey(o, st) : o \in Order, st \in Status}
             \cup {CartKey(c) : c \in Cart}
  /\ \A k \in Key : AutomationOf[k] = k[1]
  /\ MaxDeliveries \in Nat /\ MaxChanges \in Nat

VARIABLES
  order,       \* BigCommerce: the status of an order
  cart,        \* BigCommerce: "none", "filled", "empty" or "gone"
  outbox,      \* BigCommerce: events not acknowledged yet
  slot,        \* requests of dispatch and of the cart handler in flight
  ready,       \* handlers queued by runHandler
  closedAt,    \* history: when a cart was last emptied or went away
  tried,       \* history: keys placeCall was called with
  lost,        \* history: orders an acknowledged event of which came to nothing
  deliveries, changes

eventVars == <<order, cart, outbox, slot, ready, closedAt, tried, lost,
               deliveries, changes>>

allVars == <<vars, eventVars>>

Free == [at |-> "free"]

AboutOrder == [scope : {"order/created", "order/statusUpdated"}, id : Order]
AboutCart == [scope : {"cart"}, id : Cart]
Event == AboutOrder \cup AboutCart

\* "getOrder": the request is on its way; "order": its answer is.
Slot == [at : {"getOrder"}, event : AboutOrder, due : Nat]
          \cup [at : {"order"}, event : AboutOrder, due : Nat, status : Status]
          \cup [at : {"getCart", "getPhone"}, event : AboutCart, due : Nat]

Handler == [run : {"confirm", "cod", "update"}, id : Order, status : Status]
             \cup [run : {"cart"}, id : Cart]

DispatchTypeOK ==
  /\ TypeOK
  /\ order \in [Order -> Status \cup {NoOrder}]
  /\ cart \in [Cart -> {"none", "filled", "empty", "gone"}]
  /\ outbox \subseteq Event
  /\ slot \in [SlotId -> {Free} \cup Slot]
  /\ ready \in Seq(Handler)
  /\ closedAt \in [Cart -> Nat \cup {NoMark}]
  /\ tried \subseteq Key
  /\ lost \subseteq Order
  /\ deliveries \in Nat /\ changes \in Nat
-----------------------------------------------------------------------------
Busy(s) == slot[s].at # "free"

OrderEvent(e) == e.scope # "cart"

Created(o) == [scope |-> "order/created", id |-> o]
Updated(o) == [scope |-> "order/statusUpdated", id |-> o]

\* isCodOrder: by its method, or a manual one that is not captured yet.
IsCod(o, status) == \/ Payment[o] = "cod"
                    \/ Payment[o] = "manual" /\ status \in Unpaid

\* A slip: only the first of the two automations of a new order runs.
HandlersOf_FirstOnly(e, status) ==
  <<[run |-> IF e.scope = "order/created" THEN "confirm" ELSE "update",
     id |-> e.id, status |-> status]>>

\* The handlers dispatch hands to runHandler for an event about an order.
HandlersOf(e, status) ==
  [i \in 1 .. (IF e.scope = "order/created" THEN 2 ELSE 1) |->
     [run    |-> IF e.scope = "order/statusUpdated" THEN "update"
                 ELSE IF i = 1 THEN "confirm" ELSE "cod",
      id     |-> e.id,
      status |-> status]]

KeyOf(h) == IF h.run = "confirm" THEN ConfirmKey(h.id)
            ELSE IF h.run = "cod" THEN CodKey(h.id)
            ELSE UpdateKey(h.id, h.status)

\* placeCall with this key: it starts, or one of its guards refuses.
TryKey(k) ==
  /\ tried' = tried \cup {k}
  /\ \/ /\ k[2] \in Reachable
        /\ \E j \in JobId : StartJob(k, j)
     \/ /\ \/ k[2] \notin Reachable
           \/ ~MayCall(db.cfg[AutomationOf[k]])
           \/ Live(db.attempts[k], now)
        /\ UNCHANGED vars

\* Events that a crash or a failed request takes along.
LosesOrders(S) == lost' = lost \cup {slot[s].event.id :
                                       s \in {t \in S : OrderEvent(slot[t].event)}}
-----------------------------------------------------------------------------
DispatchInit ==
  /\ Init
  /\ order = [o \in Order |-> NoOrder]
  /\ cart = [c \in Cart |-> "none"]
  /\ outbox = {}
  /\ slot = [s \in SlotId |-> Free]
  /\ ready = <<>>
  /\ closedAt = [c \in Cart |-> NoMark]
  /\ tried = {}
  /\ lost = {}
  /\ deliveries = 0
  /\ changes = 0

(* The shop.  An event of a kind that is waiting already is one delivery to   *)
(* come; Receive may leave it there, so the second one is among the repeats.  *)

Change == /\ changes < MaxChanges
          /\ changes' = changes + 1
          /\ UNCHANGED <<vars, slot, ready, tried, lost, deliveries>>

PlaceOrder(o) ==
  /\ Change
  /\ order[o] = NoOrder
  /\ order' = [order EXCEPT ![o] = FirstStatus]
  /\ outbox' = outbox \cup {Created(o)}

\* A customer orders, from a cart or without one.
Checkout(c, o) ==
  /\ PlaceOrder(o)
  /\ cart[c] = "filled"
  /\ cart' = [cart EXCEPT ![c] = "gone"]
  /\ closedAt' = [closedAt EXCEPT ![c] = now]

OrderWithoutCart(o) == PlaceOrder(o) /\ UNCHANGED <<cart, closedAt>>

ChangeStatus(o, status) ==
  /\ Change
  /\ order[o] \notin {NoOrder, status}
  /\ order' = [order EXCEPT ![o] = status]
  /\ outbox' = outbox \cup {Updated(o)}
  /\ UNCHANGED <<cart, closedAt>>

EditCart(c, content) ==
  /\ Change
  /\ cart[c] # "gone"
  /\ cart[c] = "none" => content = "filled"
  /\ cart' = [cart EXCEPT ![c] = content]
  /\ closedAt' = IF content = "empty" /\ cart[c] = "filled"
                   THEN [closedAt EXCEPT ![c] = now] ELSE closedAt
  /\ outbox' = outbox \cup {[scope |-> "cart", id |-> c]}
  /\ UNCHANGED order
-----------------------------------------------------------------------------
(* The app.  Everything but RunHandler waits until the microtasks are done.   *)

\* The receiver acknowledges and dispatches.  The acknowledgement may be lost.
Receive(e, s) ==
  /\ ready = <<>>
  /\ deliveries < MaxDeliveries
  /\ db.installed
  /\ e \in outbox
  /\ ~Busy(s)
  /\ deliveries' = deliveries + 1
  /\ outbox' \in {outbox, outbox \ {e}}
  /\ IF OrderEvent(e)
       THEN /\ slot' = [slot EXCEPT ![s] =
                 [at |-> "getOrder", event |-> e, due |-> now]]
            /\ UNCHANGED ready
       ELSE /\ ready' = Append(ready, [run |-> "cart", id |-> e.id])
            /\ UNCHANGED slot
  /\ UNCHANGED <<vars, order, cart, closedAt, tried, lost, changes>>

\* BigCommerce answers getOrder with the order as it is now.
ReadOrder(s) ==
  /\ slot[s].at = "getOrder"
  /\ slot' = [slot EXCEPT ![s] =
       [at |-> "order", event |-> slot[s].event, due |-> slot[s].due,
        status |-> order[slot[s].event.id]]]
  /\ UNCHANGED <<vars, order, cart, outbox, ready, closedAt, tried, lost,
                 deliveries, changes>>

\* The answer arrives: runHandler for each automation of the event.
Hydrated(s) ==
  /\ ready = <<>>
  /\ slot[s].at = "order"
  /\ ready' = HandlersOf(slot[s].event, slot[s].status)
  /\ slot' = [slot EXCEPT ![s] = Free]
  /\ UNCHANGED <<vars, order, cart, outbox, closedAt, tried, lost, deliveries,
                 changes>>

\* It does not: dispatch's rejection is logged, the event is not seen again.
HydrationFails(s) ==
  /\ ready = <<>>
  /\ slot[s].at \in {"getOrder", "order"}
  /\ slot' = [slot EXCEPT ![s] = Free]
  /\ LosesOrders({s})
  /\ UNCHANGED <<vars, order, cart, outbox, ready, closedAt, tried, deliveries,
                 changes>>

\* A handler of an order event, up to its first await.
RunOrderHandler ==
  /\ ready # <<>>
  /\ ready' = Tail(ready)
  /\ LET h == Head(ready) IN
     /\ h.run # "cart"
     /\ IF h.run = "cod" /\ (~IsCod(h.id, h.status) \/ h.id \in BelowMinimum)
          THEN UNCHANGED <<vars, tried>>
          ELSE TryKey(KeyOf(h))
  /\ UNCHANGED <<order, cart, outbox, slot, closedAt, lost, deliveries, changes>>

\* handleAbandonedCart up to its first await: disabled, or getCart.
RunCartHandler(s) ==
  /\ ready # <<>>
  /\ ready' = Tail(ready)
  /\ LET h == Head(ready) IN
     /\ h.run = "cart"
     /\ \/ /\ ~db.cfg["abandonedCart"].enabled
           /\ UNCHANGED slot
        \/ /\ db.cfg["abandonedCart"].enabled
           /\ ~Busy(s)
           /\ slot' = [slot EXCEPT ![s] =
                [at |-> "getCart", event |-> [scope |-> "cart", id |-> h.id],
                 due |-> now]]
  /\ UNCHANGED <<vars, order, cart, outbox, closedAt, tried, lost, deliveries,
                 changes>>

\* A request for the cart finds items in it: BigCommerce reads the cart at some time
\* between the request, at `since`, and its answer, and it may be closed by then.
SeenFilled(c, since) == cart[c] = "filled" \/ since <= closedAt[c]

\* getCart answers; an error counts as a cart that is gone.
GetCart(s) ==
  /\ ready = <<>>
  /\ slot[s].at = "getCart"
  /\ \/ /\ SeenFilled(slot[s].event.id, slot[s].due)
        /\ slot' = [slot EXCEPT ![s].at = "getPhone", ![s].due = now]
     \/ slot' = [slot EXCEPT ![s] = Free]
  /\ UNCHANGED <<vars, order, cart, outbox, ready, closedAt, tried, lost,
                 deliveries, changes>>

\* cartPhone answers, or has no number; then placeCall.
GetPhone(s) ==
  /\ ready = <<>>
  /\ slot[s].at = "getPhone"
  /\ slot' = [slot EXCEPT ![s] = Free]
  /\ \/ TryKey(CartKey(slot[s].event.id))
     \/ UNCHANGED <<vars, tried>>
  /\ UNCHANGED <<order, cart, outbox, ready, closedAt, lost, deliveries, changes>>
-----------------------------------------------------------------------------
(* placeCall and its surroundings, as PlaceCall has them. *)

\* A slip: the precheck is content with a cart that was there before.
StillAbandoned_Always(c, since) == TRUE

\* The cart is there and has items.  A failed request counts as "no".
StillAbandoned(c, since) == SeenFilled(c, since)

ResolveJob(j) ==
  /\ Resolve(j)
  /\ job[j].stage = "precheck" /\ job'[j].stage = "dialing" =>
       StillAbandoned(job[j].key[2], job[j].due)

\* The rest of the process, between two turns of its event loop; the store stays
\* installed.
Elsewhere ==
  /\ ready = <<>>
  /\ \/ \E j \in JobId : ResolveJob(j)
     \/ \E a \in Automation : SaveSettings(a)
  /\ UNCHANGED eventVars

\* Requests settle within Latency.
DispatchTick ==
  /\ ready = <<>>
  /\ Tick
  /\ \A s \in SlotId : Busy(s) => now < slot[s].due + Latency
  /\ UNCHANGED eventVars

DispatchCrash ==
  /\ Crash
  /\ slot' = [s \in SlotId |-> Free]
  /\ ready' = <<>>
  /\ lost' = lost \cup {slot[s].event.id :
                 s \in {t \in SlotId : Busy(t) /\ OrderEvent(slot[t].event)}}
               \cup {ready[i].id : i \in {n \in DOMAIN ready :
                                            ready[n].run # "cart"}}
  /\ UNCHANGED <<order, cart, outbox, closedAt, tried, deliveries, changes>>

DispatchNext ==
  \/ \E c \in Cart, o \in Order : Checkout(c, o)
  \/ \E o \in Order : OrderWithoutCart(o)
  \/ \E o \in Order, status \in Status : ChangeStatus(o, status)
  \/ \E c \in Cart, content \in {"filled", "empty"} : EditCart(c, content)
  \/ \E e \in outbox, s \in SlotId : Receive(e, s)
  \/ \E s \in SlotId : \/ ReadOrder(s) \/ Hydrated(s) \/ HydrationFails(s)
                       \/ RunCartHandler(s) \/ GetCart(s) \/ GetPhone(s)
  \/ RunOrderHandler
  \/ Elsewhere \/ DispatchTick \/ DispatchCrash

DispatchSpec == DispatchInit /\ [][DispatchNext]_allVars
-----------------------------------------------------------------------------
\* Something about the order is still to be handled.
Outstanding(o) ==
  \/ \E e \in outbox : OrderEvent(e) /\ e.id = o
  \/ \E s \in SlotId : Busy(s) /\ OrderEvent(slot[s].event) /\ slot[s].event.id = o
  \/ \E i \in DOMAIN ready : ready[i].run # "cart" /\ ready[i].id = o

\* Whatever order its events come in, however often, and whatever the order had
\* become when each was read: when nothing is outstanding and no request about it
\* failed, placeCall was asked to confirm the order, to confirm the payment
\* of a COD order, and to announce the status the order has now.
EventsAreTried ==
  \A o \in Order :
    order[o] # NoOrder /\ ~Outstanding(o) /\ o \notin lost =>
      /\ ConfirmKey(o) \in tried
      /\ Payment[o] = "cod" /\ o \notin BelowMinimum => CodKey(o) \in tried
      /\ order[o] # FirstStatus => UpdateKey(o, order[o]) \in tried

\* What makes EventsAreTried inductive: the event that will lead to the attempt
\* is still on its way, and will find the status the order has now.
CreationAhead(o, run) ==
  \/ Created(o) \in outbox
  \/ \E s \in SlotId : Busy(s) /\ slot[s].event = Created(o)
  \/ \E i \in DOMAIN ready : ready[i].run = run /\ ready[i].id = o

UpdateAhead(o) ==
  \/ Updated(o) \in outbox
  \/ \E s \in SlotId : /\ Busy(s) /\ slot[s].event = Updated(o)
                       /\ slot[s].at = "order" => slot[s].status = order[o]
  \/ \E i \in DOMAIN ready :
       ready[i] = [run |-> "update", id |-> o, status |-> order[o]]

Remembered(o) ==
  /\ ConfirmKey(o) \in tried \/ CreationAhead(o, "confirm")
  /\ Payment[o] = "cod" /\ o \notin BelowMinimum =>
       CodKey(o) \in tried \/ CreationAhead(o, "cod")
  /\ order[o] # FirstStatus => UpdateKey(o, order[o]) \in tried \/ UpdateAhead(o)

NothingForgotten ==
  \A o \in Order : order[o] # NoOrder /\ o \notin lost => Remembered(o)

\* Every event about an order comes after the order.
EventsFollowOrders ==
  /\ \A e \in outbox : OrderEvent(e) => order[e.id] # NoOrder
  /\ \A s \in SlotId : slot[s].at = "getOrder" =>
       order[slot[s].event.id] # NoOrder

\* What is in flight is due and not overdue.
RequestsAreTimely ==
  /\ \A s \in SlotId : Busy(s) => slot[s].due <= now /\ now <= slot[s].due + Latency
  /\ \A j \in JobId : Active(j) =>
       /\ now <= job[j].due + Latency
       /\ job[j].stage \in {"precheck", "dialing"} => job[j].due <= now

\* `at` is no later than `late` after the cart was last filled.
FilledUntil(c, at, late) == cart[c] = "filled" \/ at <= closedAt[c] + late

\* The handler goes on, and a call is asked for, only about a cart that a request
\* has just found filled.
CartsWereFilled ==
  /\ \A s \in SlotId : slot[s].at = "getPhone" =>
       FilledUntil(slot[s].event.id, slot[s].due, Latency)
  /\ \A j \in JobId : job[j].stage = "dialing" /\ job[j].key[1] = "abandonedCart" =>
       FilledUntil(job[j].key[2], job[j].due, 2 * Latency)

EventsIInv == DispatchTypeOK /\ EventsFollowOrders /\ NothingForgotten

DispatchIInv == EventsIInv /\ RequestsAreTimely /\ CartsWereFilled

\* Nobody is called about a cart that was emptied or ordered longer ago than the
\* requests from the last look at it to the call take (the look, the phone and the
\* call): neither after the delay nor after a late delivery.
CartCallIsFresh ==
  [][\A n \in DOMAIN calls' \ DOMAIN calls :
       calls'[n].key[1] = "abandonedCart" =>
         FilledUntil(calls'[n].key[2], now, 3 * Latency)]_allVars
-----------------------------------------------------------------------------
(* What the documentation says beyond this. *)

\* orderUpdates.js:51-52: filters.statuses restricts which statuses call.
OnlyTheseStatuses(S) ==
  \A n \in DOMAIN calls :
    calls[n].key[1] = "orderUpdates" =>
      calls[n].key[3] \in {Slug[st] : st \in S}

\* README.md:129: a manual method on an unpaid order counts as COD.
ManualIsTried ==
  \A o \in Order :
    /\ order[o] # NoOrder /\ ~Outstanding(o) /\ o \notin lost
    /\ Payment[o] = "manual" /\ FirstStatus \in Unpaid /\ o \notin BelowMinimum
    => CodKey(o) \in tried
=============================================================================
