------------------------ MODULE EventDispatchProofs ------------------------
(***************************************************************************)
(* EventDispatch implements PlaceCall, for any orders, carts, settings and  *)
(* bounds: what is proved of placeCall holds of the calls that events cause.*)
(***************************************************************************)
EXTENDS EventDispatch, PlaceCallProofs

LEMMA EmbeddedStartIsNext ==
  ASSUME NEW k \in Key, NEW j \in JobId, StartJob(k, j)
  PROVE  Next
BY DEF Next

LEMMA TryKeyStep ==
  ASSUME NEW k \in Key, TryKey(k)
  PROVE  [Next]_vars
BY EmbeddedStartIsNext DEF TryKey

LEMMA KeysAreKeys ==
  /\ \A o \in Order : ConfirmKey(o) \in Key /\ CodKey(o) \in Key
  /\ \A o \in Order, st \in Status : UpdateKey(o, st) \in Key
  /\ \A c \in Cart : CartKey(c) \in Key
BY DispatchAssumption

LEMMA KeyOfIsKey ==
  ASSUME NEW h \in Handler, h.run # "cart"
  PROVE  KeyOf(h) \in Key
BY KeysAreKeys DEF KeyOf, Handler

LEMMA HeadIsHandler ==
  ASSUME DispatchTypeOK, ready # <<>>
  PROVE  Head(ready) \in Handler /\ Tail(ready) \in Seq(Handler)
BY DEF DispatchTypeOK

LEMMA HandlersType ==
  ASSUME NEW e \in Event, OrderEvent(e), NEW st \in Status
  PROVE  HandlersOf(e, st) \in Seq(Handler)
<1>1. e.id \in Order
  BY DEF Event, AboutOrder, AboutCart, OrderEvent
<1> DEFINE n == IF e.scope = "order/created" THEN 2 ELSE 1
           f == HandlersOf(e, st)
<1>2. n \in Nat /\ f = [i \in 1 .. n |-> f[i]]
  BY DEF HandlersOf
<1>3. \A i \in 1 .. n : f[i] \in Handler
  BY <1>1 DEF HandlersOf, Handler
<1> QED
  <2> HIDE DEF n, f
  <2>1. f \in Seq(Handler)
    BY <1>2, <1>3
  <2> QED BY <2>1 DEF f

LEMMA BusySlot ==
  ASSUME DispatchTypeOK, NEW s \in SlotId, Busy(s)
  PROVE  /\ slot[s] \in Slot
         /\ slot[s].due \in Nat
         /\ slot[s].at \in {"getOrder", "order"} =>
              slot[s].event \in AboutOrder /\ OrderEvent(slot[s].event)
         /\ slot[s].at = "order" => slot[s].status \in Status
         /\ slot[s].at \in {"getCart", "getPhone"} =>
              slot[s].event \in AboutCart /\ ~OrderEvent(slot[s].event)
BY DEF DispatchTypeOK, Busy, Free, Slot, AboutOrder, AboutCart, OrderEvent

LEMMA SlotUpdate ==
  ASSUME DispatchTypeOK, NEW s \in SlotId, NEW v \in {Free} \cup Slot
  PROVE  /\ [slot EXCEPT ![s] = v] \in [SlotId -> {Free} \cup Slot]
         /\ [slot EXCEPT ![s] = v][s] = v
         /\ \A t \in SlotId \ {s} : [slot EXCEPT ![s] = v][t] = slot[t]
BY DEF DispatchTypeOK

LEMMA FreeSlot == \A s \in SlotId : slot[s] = Free => ~Busy(s)
BY DEF Busy, Free

-----------------------------------------------------------------------------
(* Types, and that every event comes after its order. *)

Sound == DispatchTypeOK /\ EventsFollowOrders

LEMMA DispatchInitSound == DispatchInit => Sound
<1> SUFFICES ASSUME DispatchInit PROVE Sound
  OBVIOUS
<1>1. TypeOK
  BY InitType DEF DispatchInit
<1>2. DispatchTypeOK
  BY <1>1 DEF DispatchInit, DispatchTypeOK
<1>3. EventsFollowOrders
  BY DEF DispatchInit, EventsFollowOrders, Free
<1> QED BY <1>2, <1>3 DEF Sound

LEMMA TryKeyType ==
  ASSUME DispatchTypeOK, NEW k \in Key, TryKey(k)
  PROVE  TypeOK' /\ tried' \subseteq Key
<1>1. [Next]_vars
  BY TryKeyStep
<1>2. TypeOK'
  BY <1>1, NextType DEF DispatchTypeOK
<1> QED BY <1>2 DEF TryKey, DispatchTypeOK

LEMMA CreatedIsEvent ==
  \A o \in Order : /\ Created(o) \in AboutOrder /\ OrderEvent(Created(o))
                   /\ Created(o).id = o
                   /\ Updated(o) \in AboutOrder /\ OrderEvent(Updated(o))
                   /\ Updated(o).id = o
BY DEF Created, Updated, AboutOrder, OrderEvent

\* An order gets a status, and an event says so.
OrderGets(o, st, e) ==
  /\ UNCHANGED <<vars, slot, ready, tried, lost, deliveries>>
  /\ changes' \in Nat
  /\ order' = [order EXCEPT ![o] = st]
  /\ outbox' = outbox \cup {e}
  /\ cart' \in [Cart -> {"none", "filled", "empty", "gone"}]
  /\ closedAt' \in [Cart -> Nat \cup {NoMark}]

LEMMA OrderGetsSound ==
  ASSUME Sound, NEW o \in Order, NEW st \in Status,
         NEW e \in {Created(o), Updated(o)}, OrderGets(o, st, e)
  PROVE  Sound'
<1> USE DispatchAssumption, CreatedIsEvent DEF OrderGets
<1>1. DispatchTypeOK'
  <2>1. TypeOK'
    BY DEF Sound, DispatchTypeOK, TypeOK, vars
  <2>2. order' \in [Order -> Status \cup {NoOrder}] /\ outbox' \subseteq Event
    BY DEF Sound, DispatchTypeOK, Event
  <2> QED BY <2>1, <2>2 DEF Sound, DispatchTypeOK
<1>2. EventsFollowOrders'
  BY DEF Sound, EventsFollowOrders, DispatchTypeOK
<1> QED BY <1>1, <1>2 DEF Sound

LEMMA EditCartSound ==
  ASSUME Sound, NEW c \in Cart, NEW content \in {"filled", "empty"},
         EditCart(c, content)
  PROVE  Sound'
<1>1. [scope |-> "cart", id |-> c] \in Event
  BY DEF Event, AboutCart
<1>2. now \in Nat
  BY DEF Sound, DispatchTypeOK, TypeOK
<1>3. closedAt' \in [Cart -> Nat \cup {NoMark}]
  BY <1>2 DEF EditCart, Sound, DispatchTypeOK
<1>4. DispatchTypeOK'
  BY <1>1, <1>3 DEF Sound, DispatchTypeOK, TypeOK, vars, EditCart, Change
<1>5. EventsFollowOrders'
  BY DEF Sound, EventsFollowOrders, EditCart, Change, OrderEvent
<1> QED BY <1>4, <1>5 DEF Sound

LEMMA OrderActions ==
  ASSUME Sound
  PROVE  /\ \A c \in Cart, o \in Order :
              Checkout(c, o) => OrderGets(o, FirstStatus, Created(o))
         /\ \A o \in Order :
              OrderWithoutCart(o) => OrderGets(o, FirstStatus, Created(o))
         /\ \A o \in Order, st \in Status :
              ChangeStatus(o, st) => OrderGets(o, st, Updated(o))
<1>1. now \in Nat /\ changes + 1 \in Nat
  BY DEF Sound, DispatchTypeOK, TypeOK
<1>2. /\ cart \in [Cart -> {"none", "filled", "empty", "gone"}]
      /\ closedAt \in [Cart -> Nat \cup {NoMark}]
  BY DEF Sound, DispatchTypeOK
<1> QED BY <1>1, <1>2 DEF Checkout, OrderWithoutCart, PlaceOrder, ChangeStatus,
                         Change, OrderGets

LEMMA ShopSound ==
  ASSUME Sound
  PROVE  /\ \A c \in Cart, o \in Order : Checkout(c, o) => Sound'
         /\ \A o \in Order : OrderWithoutCart(o) => Sound'
         /\ \A o \in Order, st \in Status : ChangeStatus(o, st) => Sound'
<1>1. \A o \in Order, st \in Status :
        OrderGets(o, st, Created(o)) \/ OrderGets(o, st, Updated(o)) => Sound'
  BY OrderGetsSound
<1> QED BY <1>1, OrderActions, DispatchAssumption

\* The app's own steps change one slot or the queue, or what PlaceCall has.
LEMMA SlotStep ==
  ASSUME Sound, NEW s \in SlotId, NEW v \in {Free} \cup Slot,
         v.at = "getOrder" => order[v.event.id] # NoOrder,
         slot' = [slot EXCEPT ![s] = v], UNCHANGED order,
         outbox' \subseteq outbox, ready' \in Seq(Handler),
         UNCHANGED <<cart, closedAt, changes>>,
         tried' \subseteq Key, lost' \subseteq Order, deliveries' \in Nat, TypeOK'
  PROVE  Sound'
<1>1. /\ slot' \in [SlotId -> {Free} \cup Slot]
      /\ slot'[s] = v
      /\ \A t \in SlotId \ {s} : slot'[t] = slot[t]
  BY SlotUpdate DEF Sound
<1>2. DispatchTypeOK'
  BY <1>1 DEF Sound, DispatchTypeOK
<1>3. EventsFollowOrders'
  BY <1>1 DEF Sound, EventsFollowOrders
<1> QED BY <1>2, <1>3 DEF Sound

LEMMA SameTypes ==
  ASSUME Sound, UNCHANGED vars
  PROVE  TypeOK' /\ now \in Nat
BY DEF Sound, DispatchTypeOK, TypeOK, vars

LEMMA ReceiveSound ==
  ASSUME Sound, NEW e \in outbox, NEW s \in SlotId, Receive(e, s)
  PROVE  Sound'
<1>0. TypeOK' /\ now \in Nat /\ tried \subseteq Key /\ lost \subseteq Order
      /\ deliveries' \in Nat /\ outbox' \subseteq outbox /\ e \in Event
  BY SameTypes DEF Receive, Sound, DispatchTypeOK
<1>1. CASE OrderEvent(e)
  <2> DEFINE v == [at |-> "getOrder", event |-> e, due |-> now]
  <2>1. e \in AboutOrder /\ order[e.id] # NoOrder
    BY <1>0, <1>1 DEF Event, AboutOrder, AboutCart, OrderEvent, Sound,
                      EventsFollowOrders
  <2>2. v \in Slot
    BY <1>0, <2>1 DEF Slot
  <2>3. slot' = [slot EXCEPT ![s] = v] /\ ready' = ready
        /\ UNCHANGED <<order, cart, closedAt, tried, lost, changes>>
    BY <1>1 DEF Receive
  <2>4. ready' \in Seq(Handler)
    BY <2>3 DEF Sound, DispatchTypeOK
  <2> QED BY <1>0, <2>1, <2>2, <2>3, <2>4, SlotStep
<1>2. CASE ~OrderEvent(e)
  <2>1. e.id \in Cart
    BY <1>0, <1>2 DEF Event, AboutOrder, AboutCart, OrderEvent
  <2>2. ready' = Append(ready, [run |-> "cart", id |-> e.id]) /\ slot' = slot
        /\ UNCHANGED <<order, cart, closedAt, tried, lost, changes>>
    BY <1>2 DEF Receive
  <2>3. [run |-> "cart", id |-> e.id] \in Handler
    BY <2>1 DEF Handler
  <2>4. ready' \in Seq(Handler)
    BY <2>2, <2>3 DEF Sound, DispatchTypeOK
  <2>5. DispatchTypeOK'
    BY <1>0, <2>2, <2>4 DEF Sound, DispatchTypeOK
  <2>6. EventsFollowOrders'
    BY <1>0, <2>2 DEF Sound, EventsFollowOrders
  <2> QED BY <2>5, <2>6 DEF Sound
<1> QED BY <1>1, <1>2

LEMMA ReadOrderSound ==
  ASSUME Sound, NEW s \in SlotId, ReadOrder(s)
  PROVE  Sound'
<1> DEFINE v == [at |-> "order", event |-> slot[s].event, due |-> slot[s].due,
                 status |-> order[slot[s].event.id]]
<1>1. /\ slot[s].event \in AboutOrder /\ slot[s].due \in Nat
      /\ order[slot[s].event.id] \in Status
  <2>1. Busy(s)
    BY DEF ReadOrder, Busy
  <2>2. slot[s].event \in AboutOrder /\ slot[s].due \in Nat
    BY <2>1, BusySlot DEF ReadOrder, Sound
  <2>3. slot[s].event.id \in Order
    BY <2>2 DEF AboutOrder
  <2> QED BY <2>2, <2>3 DEF ReadOrder, Sound, EventsFollowOrders, DispatchTypeOK
<1>2. v \in Slot
  BY <1>1 DEF Slot
<1>3. /\ TypeOK' /\ tried \subseteq Key /\ lost \subseteq Order
      /\ deliveries \in Nat /\ ready \in Seq(Handler)
  BY SameTypes DEF ReadOrder, Sound, DispatchTypeOK
<1>4. slot' = [slot EXCEPT ![s] = v]
      /\ UNCHANGED <<order, cart, outbox, ready, closedAt, tried, lost,
                     deliveries, changes>>
  BY DEF ReadOrder
<1>5. v.at # "getOrder"
  OBVIOUS
<1> QED
  <2> HIDE DEF v
  <2> QED BY <1>2, <1>3, <1>4, <1>5, SlotStep

LEMMA HydratedSound ==
  ASSUME Sound, NEW s \in SlotId, Hydrated(s)
  PROVE  Sound'
<1>1. slot[s].event \in AboutOrder /\ slot[s].status \in Status
      /\ OrderEvent(slot[s].event)
  BY BusySlot DEF Hydrated, Busy, Sound
<1>2. ready' \in Seq(Handler)
  BY <1>1, HandlersType DEF Hydrated, Event
<1>3. /\ TypeOK' /\ tried \subseteq Key /\ lost \subseteq Order
      /\ deliveries \in Nat /\ Free.at # "getOrder"
  BY SameTypes DEF Hydrated, Sound, DispatchTypeOK, Free
<1>4. slot' = [slot EXCEPT ![s] = Free]
      /\ UNCHANGED <<order, cart, outbox, closedAt, tried, lost, deliveries,
                     changes>>
  BY DEF Hydrated
<1> QED BY <1>2, <1>3, <1>4, SlotStep

LEMMA HydrationFailsSound ==
  ASSUME Sound, NEW s \in SlotId, HydrationFails(s)
  PROVE  Sound'
<1>1. slot[s].event \in AboutOrder /\ OrderEvent(slot[s].event)
  BY BusySlot DEF HydrationFails, Busy, Sound
<1>2. lost' = lost \cup {slot[s].event.id}
  BY <1>1 DEF HydrationFails, LosesOrders
<1>3. lost' \subseteq Order
  BY <1>1, <1>2 DEF Sound, DispatchTypeOK, AboutOrder
<1>4. /\ TypeOK' /\ tried \subseteq Key /\ ready \in Seq(Handler)
      /\ deliveries \in Nat /\ Free.at # "getOrder"
  BY SameTypes DEF HydrationFails, Sound, DispatchTypeOK, Free
<1>5. slot' = [slot EXCEPT ![s] = Free]
      /\ UNCHANGED <<order, cart, outbox, ready, closedAt, tried, deliveries,
                     changes>>
  BY DEF HydrationFails
<1> QED BY <1>3, <1>4, <1>5, SlotStep

LEMMA OrderHandlerEffect ==
  ASSUME Sound, RunOrderHandler
  PROVE  \/ UNCHANGED <<vars, tried>>
         \/ \E k \in Key : TryKey(k)
<1>1. Head(ready) \in Handler
  BY HeadIsHandler DEF RunOrderHandler, Sound
<1>2. KeyOf(Head(ready)) \in Key
  BY <1>1, KeyOfIsKey DEF RunOrderHandler
<1> QED BY <1>2 DEF RunOrderHandler

LEMMA RunOrderHandlerSound ==
  ASSUME Sound, RunOrderHandler
  PROVE  Sound'
<1>1. TypeOK' /\ tried' \subseteq Key
  <2>1. CASE UNCHANGED <<vars, tried>>
    BY <2>1, SameTypes DEF Sound, DispatchTypeOK
  <2>2. ASSUME NEW k \in Key, TryKey(k) PROVE TypeOK' /\ tried' \subseteq Key
    BY <2>2, TryKeyType DEF Sound
  <2> QED BY <2>1, <2>2, OrderHandlerEffect
<1>2. ready' \in Seq(Handler)
  BY HeadIsHandler DEF RunOrderHandler, Sound
<1>3. DispatchTypeOK'
  BY <1>1, <1>2 DEF RunOrderHandler, Sound, DispatchTypeOK
<1>4. EventsFollowOrders'
  BY DEF RunOrderHandler, Sound, EventsFollowOrders
<1> QED BY <1>3, <1>4 DEF Sound

LEMMA RunCartHandlerSound ==
  ASSUME Sound, NEW s \in SlotId, RunCartHandler(s)
  PROVE  Sound'
<1> DEFINE v == [at |-> "getCart",
                 event |-> [scope |-> "cart", id |-> Head(ready).id],
                 due |-> now]
<1>1. Head(ready) \in Handler /\ ready' \in Seq(Handler)
  BY HeadIsHandler DEF RunCartHandler, Sound
<1>2. /\ TypeOK' /\ now \in Nat /\ tried' \subseteq Key /\ lost' \subseteq Order
      /\ deliveries' \in Nat
      /\ UNCHANGED <<order, cart, outbox, closedAt, changes>>
  BY SameTypes DEF RunCartHandler, Sound, DispatchTypeOK
<1>3. Head(ready).id \in Cart
  BY <1>1 DEF RunCartHandler, Handler
<1>4. v \in Slot /\ v.at # "getOrder"
  BY <1>2, <1>3 DEF Slot, AboutCart
<1>5. CASE UNCHANGED slot
  <2>1. DispatchTypeOK'
    BY <1>1, <1>2, <1>5 DEF Sound, DispatchTypeOK
  <2>2. EventsFollowOrders'
    BY <1>2, <1>5 DEF Sound, EventsFollowOrders
  <2> QED BY <2>1, <2>2 DEF Sound
<1>6. CASE slot' = [slot EXCEPT ![s] = v]
  <2> HIDE DEF v
  <2> QED BY <1>1, <1>2, <1>4, <1>6, SlotStep
<1> QED BY <1>5, <1>6 DEF RunCartHandler

LEMMA GetCartSound ==
  ASSUME Sound, NEW s \in SlotId, GetCart(s)
  PROVE  Sound'
<1> DEFINE v == [slot[s] EXCEPT !.at = "getPhone", !.due = now]
<1>1. /\ slot[s] \in [at : {"getCart", "getPhone"}, event : AboutCart, due : Nat]
      /\ slot \in [SlotId -> {Free} \cup Slot]
  <2>1. Busy(s)
    BY DEF GetCart, Busy
  <2> QED BY <2>1, BusySlot DEF GetCart, Slot, Sound, DispatchTypeOK
<1>2. /\ TypeOK' /\ now \in Nat /\ tried \subseteq Key /\ lost \subseteq Order
      /\ deliveries \in Nat /\ ready \in Seq(Handler) /\ Free.at # "getOrder"
      /\ UNCHANGED <<order, cart, outbox, ready, closedAt, tried, lost,
                     deliveries, changes>>
  BY SameTypes DEF GetCart, Sound, DispatchTypeOK, Free
<1>3. v \in Slot /\ v.at # "getOrder"
  BY <1>1, <1>2 DEF Slot
<1>4. \/ slot' = [slot EXCEPT ![s] = v]
      \/ slot' = [slot EXCEPT ![s] = Free]
  BY <1>1 DEF GetCart
<1> QED
  <2> HIDE DEF v
  <2> QED BY <1>2, <1>3, <1>4, SlotStep

LEMMA PhoneKey ==
  ASSUME Sound, NEW s \in SlotId, GetPhone(s)
  PROVE  CartKey(slot[s].event.id) \in Key
<1>1. slot[s].event \in AboutCart
  BY BusySlot DEF GetPhone, Busy, Sound
<1> QED BY <1>1, KeysAreKeys DEF AboutCart

LEMMA GetPhoneSound ==
  ASSUME Sound, NEW s \in SlotId, GetPhone(s)
  PROVE  Sound'
<1>1. TypeOK' /\ tried' \subseteq Key
  <2>1. CASE UNCHANGED <<vars, tried>>
    BY <2>1, SameTypes DEF Sound, DispatchTypeOK
  <2>2. CASE TryKey(CartKey(slot[s].event.id))
    BY <2>2, PhoneKey, TryKeyType DEF Sound
  <2> QED BY <2>1, <2>2 DEF GetPhone
<1>2. /\ slot' = [slot EXCEPT ![s] = Free]
      /\ UNCHANGED <<order, cart, outbox, ready, closedAt, lost, deliveries,
                     changes>>
      /\ lost \subseteq Order /\ deliveries \in Nat /\ ready \in Seq(Handler)
      /\ Free.at # "getOrder"
  BY DEF GetPhone, Sound, DispatchTypeOK, Free
<1> QED BY <1>1, <1>2, SlotStep

LEMMA ElsewhereIsNext ==
  /\ Elsewhere => [Next]_vars
  /\ DispatchTick => [Next]_vars
  /\ DispatchCrash => [Next]_vars
BY DEF Elsewhere, DispatchTick, DispatchCrash, ResolveJob, Next

LEMMA ElsewhereSound ==
  ASSUME Sound, Elsewhere \/ DispatchTick
  PROVE  Sound'
<1>1. TypeOK'
  BY ElsewhereIsNext, NextType DEF Sound, DispatchTypeOK
<1>2. UNCHANGED eventVars
  BY DEF Elsewhere, DispatchTick
<1>3. DispatchTypeOK'
  BY <1>1, <1>2 DEF eventVars, Sound, DispatchTypeOK
<1>4. EventsFollowOrders'
  BY <1>2 DEF eventVars, Sound, EventsFollowOrders
<1> QED BY <1>3, <1>4 DEF Sound

LEMMA CrashSound ==
  ASSUME Sound, DispatchCrash
  PROVE  Sound'
<1>1. TypeOK'
  BY ElsewhereIsNext, NextType DEF Sound, DispatchTypeOK
<1>2. lost' \subseteq Order
  <2>1. \A s \in SlotId : Busy(s) /\ OrderEvent(slot[s].event) =>
          slot[s].event.id \in Order
    BY BusySlot DEF Sound, Slot, AboutOrder
  <2>2. \A i \in DOMAIN ready : ready[i].run # "cart" => ready[i].id \in Order
    BY DEF Sound, DispatchTypeOK, Handler
  <2> QED BY <2>1, <2>2 DEF DispatchCrash, Sound, DispatchTypeOK
<1>3. ready' \in Seq(Handler) /\ slot' \in [SlotId -> {Free} \cup Slot]
  BY DEF DispatchCrash
<1>4. DispatchTypeOK'
  BY <1>1, <1>2, <1>3 DEF DispatchCrash, Sound, DispatchTypeOK
<1>5. EventsFollowOrders'
  BY DEF DispatchCrash, Sound, EventsFollowOrders, Free
<1> QED BY <1>4, <1>5 DEF Sound

LEMMA DispatchNextSound == Sound /\ [DispatchNext]_allVars => Sound'
<1> SUFFICES ASSUME Sound, [DispatchNext]_allVars PROVE Sound'
  OBVIOUS
<1>1. CASE UNCHANGED allVars
  <2>1. TypeOK'
    BY <1>1, SameTypes DEF allVars
  <2>2. DispatchTypeOK' /\ EventsFollowOrders'
    BY <1>1, <2>1 DEF allVars, eventVars, Sound, DispatchTypeOK,
                     EventsFollowOrders
  <2> QED BY <2>2 DEF Sound
<1> QED BY <1>1, ShopSound, EditCartSound, ReceiveSound, ReadOrderSound,
           HydratedSound, HydrationFailsSound, RunOrderHandlerSound,
           RunCartHandlerSound, GetCartSound, GetPhoneSound, ElsewhereSound,
           CrashSound DEF DispatchNext

-----------------------------------------------------------------------------
(* The composition is placeCall, called by its handlers. *)

LEMMA DispatchStepIsPlaceCallStep ==
  Sound /\ [DispatchNext]_allVars => [Next]_vars
<1> SUFFICES ASSUME Sound, [DispatchNext]_allVars PROVE [Next]_vars
  OBVIOUS
<1>1. CASE RunOrderHandler
  BY <1>1, OrderHandlerEffect, TryKeyStep DEF vars
<1>2. ASSUME NEW s \in SlotId, GetPhone(s) PROVE [Next]_vars
  BY <1>2, PhoneKey, TryKeyStep DEF GetPhone, vars
<1>3. CASE Elsewhere \/ DispatchTick \/ DispatchCrash
  BY <1>3, ElsewhereIsNext
<1>4. CASE \/ \E c \in Cart, o \in Order : Checkout(c, o)
           \/ \E o \in Order : OrderWithoutCart(o)
           \/ \E o \in Order, status \in Status : ChangeStatus(o, status)
           \/ \E c \in Cart, content \in {"filled", "empty"} :
                EditCart(c, content)
  BY <1>4 DEF Checkout, OrderWithoutCart, PlaceOrder, ChangeStatus, EditCart,
              Change
<1>5. CASE \/ \E e \in outbox, s \in SlotId : Receive(e, s)
           \/ \E s \in SlotId : \/ ReadOrder(s) \/ Hydrated(s)
                                \/ HydrationFails(s) \/ RunCartHandler(s)
                                \/ GetCart(s)
  BY <1>5 DEF Receive, ReadOrder, Hydrated, HydrationFails, RunCartHandler,
              GetCart
<1>6. CASE UNCHANGED allVars
  BY <1>6 DEF allVars
<1> QED BY <1>1, <1>2, <1>3, <1>4, <1>5, <1>6 DEF DispatchNext

LEMMA DispatchSound == DispatchSpec => []Sound
BY DispatchInitSound, DispatchNextSound, PTL DEF DispatchSpec

\* The receiver, the handlers and placeCall together do to the store and the
\* calls nothing that placeCall alone would not.
THEOREM DispatchImplementsPlaceCall == DispatchSpec => Spec
<1>1. DispatchInit => Init
  BY DEF DispatchInit
<1> QED BY <1>1, DispatchSound, DispatchStepIsPlaceCallStep, PTL
        DEF DispatchSpec, Spec

\* So whatever events arrive, in whatever order and however often, a customer is
\* called at most once for a cart, an order or a status within the TTL.
THEOREM EventsCallOncePerWindow ==
  ASSUME ShortDelays
  PROVE  DispatchSpec => []OneCallPerWindow
BY DispatchImplementsPlaceCall, AtMostOneCallPerWindow

\* ... and no event's handler clears or replaces the mark of another's.
THEOREM EventsOwnTheirMarks ==
  ASSUME ShortDelays
  PROVE  DispatchSpec => []JobHoldsItsMark
<1>1. JobHoldsItsMark /\ OneJobPerKey => JobHoldsItsMark
  OBVIOUS
<1> QED BY <1>1, DispatchImplementsPlaceCall, MarksAreOwned, PTL

-----------------------------------------------------------------------------
(* No event about an order is forgotten, unless a request or the process      *)
(* fails.                                                                     *)

\* A step that leaves the order alone and passes on what is ahead.
LEMMA PassedOn ==
  ASSUME NothingForgotten, NEW o \in Order,
         order[o] # NoOrder, o \notin lost, order'[o] = order[o],
         tried \subseteq tried',
         CreationAhead(o, "confirm") =>
           ConfirmKey(o) \in tried' \/ CreationAhead(o, "confirm")',
         Payment[o] = "cod" /\ o \notin BelowMinimum /\ CreationAhead(o, "cod") =>
           CodKey(o) \in tried' \/ CreationAhead(o, "cod")',
         UpdateAhead(o) => UpdateKey(o, order[o]) \in tried' \/ UpdateAhead(o)'
  PROVE  Remembered(o)'
<1>1. Remembered(o)
  BY DEF NothingForgotten
<1>2. UpdateKey(o, order'[o]) = UpdateKey(o, order[o])
  OBVIOUS
<1> QED BY <1>1, <1>2 DEF Remembered

\* Nothing is taken from the outbox, the slots and the queue.
LEMMA OnlyMore ==
  ASSUME NEW o \in Order, outbox \subseteq outbox', UNCHANGED <<slot, ready>>,
         order'[o] = order[o]
  PROVE  /\ CreationAhead(o, "confirm") => CreationAhead(o, "confirm")'
         /\ CreationAhead(o, "cod") => CreationAhead(o, "cod")'
         /\ UpdateAhead(o) => UpdateAhead(o)'
BY DEF CreationAhead, UpdateAhead, Busy

LEMMA InitRemembers == DispatchInit => NothingForgotten
BY DEF DispatchInit, NothingForgotten

LEMMA PlaceOrderRemembers ==
  ASSUME Sound, NothingForgotten, NEW n \in Order, PlaceOrder(n),
         NEW o \in Order, order'[o] # NoOrder, o \notin lost'
  PROVE  Remembered(o)'
<1>1. /\ outbox' = outbox \cup {Created(n)} /\ lost' = lost
      /\ order' = [order EXCEPT ![n] = FirstStatus]
      /\ UNCHANGED <<slot, ready>> /\ tried' = tried
  BY DEF PlaceOrder, Change
<1>2. CASE o = n
  <2>1. order'[o] = FirstStatus
    BY <1>1, <1>2 DEF Sound, DispatchTypeOK
  <2>2. Created(o) \in outbox'
    BY <1>1, <1>2
  <2> QED BY <2>1, <2>2 DEF Remembered, CreationAhead
<1>3. CASE o # n
  <2>1. order'[o] = order[o]
    BY <1>1, <1>3 DEF Sound, DispatchTypeOK
  <2> QED BY <1>1, <2>1, OnlyMore, PassedOn
<1> QED BY <1>2, <1>3

LEMMA ChangeStatusRemembers ==
  ASSUME Sound, NothingForgotten, NEW n \in Order, NEW st \in Status,
         ChangeStatus(n, st), NEW o \in Order, order'[o] # NoOrder, o \notin lost'
  PROVE  Remembered(o)'
<1>1. /\ outbox' = outbox \cup {Updated(n)} /\ lost' = lost
      /\ order' = [order EXCEPT ![n] = st]
      /\ UNCHANGED <<slot, ready>> /\ tried' = tried /\ order[n] # NoOrder
  BY DEF ChangeStatus, Change
<1>2. CASE o = n
  <2>1. Remembered(o)
    BY <1>1, <1>2 DEF NothingForgotten
  <2>2. /\ CreationAhead(o, "confirm") => CreationAhead(o, "confirm")'
        /\ CreationAhead(o, "cod") => CreationAhead(o, "cod")'
    BY <1>1 DEF CreationAhead, Busy
  <2>3. UpdateAhead(o)'
    BY <1>1, <1>2 DEF UpdateAhead
  <2> QED BY <1>1, <2>1, <2>2, <2>3 DEF Remembered
<1>3. CASE o # n
  <2>1. order'[o] = order[o]
    BY <1>1, <1>3 DEF Sound, DispatchTypeOK
  <2> QED BY <1>1, <2>1, OnlyMore, PassedOn
<1> QED BY <1>2, <1>3

LEMMA QuietStepRemembers ==
  ASSUME NothingForgotten, UNCHANGED <<order, slot, ready, tried, lost>>,
         outbox \subseteq outbox',
         NEW o \in Order, order'[o] # NoOrder, o \notin lost'
  PROVE  Remembered(o)'
BY OnlyMore, PassedOn

LEMMA ReceiveRemembers ==
  ASSUME Sound, NothingForgotten, NEW e \in outbox, NEW s \in SlotId,
         Receive(e, s), NEW o \in Order, order'[o] # NoOrder, o \notin lost'
  PROVE  Remembered(o)'
<1>1. /\ UNCHANGED <<order, tried, lost>> /\ ~Busy(s) /\ ready = <<>>
      /\ outbox \ {e} \subseteq outbox'
  BY DEF Receive
<1>2. CASE OrderEvent(e)
  <2> DEFINE v == [at |-> "getOrder", event |-> e, due |-> now]
  <2>1. /\ slot' = [slot EXCEPT ![s] = v] /\ ready' = ready
        /\ slot \in [SlotId -> {Free} \cup Slot]
    BY <1>2 DEF Receive, Sound, DispatchTypeOK
  <2>2. /\ slot'[s] = v
        /\ \A t \in SlotId : Busy(t) => slot'[t] = slot[t]
    BY <1>1, <2>1
  <2>3. v.at = "getOrder" /\ v.event = e
    OBVIOUS
  <2> HIDE DEF v
  <2>4. /\ Busy(s)' /\ slot'[s].event = e /\ slot'[s].at = "getOrder"
        /\ \A t \in SlotId : Busy(t) => Busy(t)'
    BY <2>2, <2>3 DEF Busy
  <2>5. /\ CreationAhead(o, "confirm") => CreationAhead(o, "confirm")'
        /\ CreationAhead(o, "cod") => CreationAhead(o, "cod")'
    BY <1>1, <2>1, <2>2, <2>4 DEF CreationAhead
  <2>6. UpdateAhead(o) => UpdateAhead(o)'
    BY <1>1, <2>1, <2>2, <2>4 DEF UpdateAhead
  <2> QED BY <1>1, <2>5, <2>6, PassedOn
<1>3. CASE ~OrderEvent(e)
  <2>1. slot' = slot /\ e # Created(o) /\ e # Updated(o)
    BY <1>3, CreatedIsEvent DEF Receive
  <2>2. /\ CreationAhead(o, "confirm") => CreationAhead(o, "confirm")'
        /\ CreationAhead(o, "cod") => CreationAhead(o, "cod")'
        /\ UpdateAhead(o) => UpdateAhead(o)'
    BY <1>1, <2>1 DEF CreationAhead, UpdateAhead, Busy
  <2> QED BY <1>1, <2>2, PassedOn
<1> QED BY <1>2, <1>3

LEMMA ReadOrderRemembers ==
  ASSUME Sound, NothingForgotten, NEW s \in SlotId, ReadOrder(s),
         NEW o \in Order, order'[o] # NoOrder, o \notin lost'
  PROVE  Remembered(o)'
<1>1. /\ UNCHANGED <<order, outbox, ready, tried, lost>>
      /\ slot \in [SlotId -> {Free} \cup Slot]
  BY DEF ReadOrder, Sound, DispatchTypeOK
<1>2. /\ Busy(s)' /\ slot'[s].event = slot[s].event
      /\ slot'[s].status = order[slot[s].event.id]
      /\ \A t \in SlotId \ {s} : slot'[t] = slot[t]
  BY <1>1 DEF ReadOrder, Busy
<1>3. \A t \in SlotId : Busy(t) => Busy(t)' /\ slot'[t].event = slot[t].event
  BY <1>2 DEF Busy
<1>4. /\ CreationAhead(o, "confirm") => CreationAhead(o, "confirm")'
      /\ CreationAhead(o, "cod") => CreationAhead(o, "cod")'
  BY <1>1, <1>3 DEF CreationAhead
<1>5. UpdateAhead(o) => UpdateAhead(o)'
  <2>1. slot[s].event = Updated(o) => slot'[s].status = order'[o]
    BY <1>1, <1>2, CreatedIsEvent
  <2> QED BY <1>1, <1>2, <1>3, <2>1 DEF UpdateAhead
<1> QED BY <1>1, <1>4, <1>5, PassedOn

LEMMA HydratedRemembers ==
  ASSUME Sound, NothingForgotten, NEW s \in SlotId, Hydrated(s),
         NEW o \in Order, order'[o] # NoOrder, o \notin lost'
  PROVE  Remembered(o)'
<1> DEFINE e == slot[s].event
           st == slot[s].status
<1>1. /\ UNCHANGED <<order, outbox, tried, lost>> /\ ready = <<>>
      /\ ready' = HandlersOf(e, st) /\ slot[s].at = "order"
  BY DEF Hydrated
<1>2. \A t \in SlotId \ {s} : slot'[t] = slot[t]
  BY DEF Hydrated, Sound, DispatchTypeOK
<1>3. CASE e = Created(o)
  <2>1. /\ ready'[1] = [run |-> "confirm", id |-> o, status |-> st]
        /\ ready'[2] = [run |-> "cod", id |-> o, status |-> st]
        /\ DOMAIN ready' = 1 .. 2
    BY <1>1, <1>3 DEF HandlersOf, Created
  <2>2. CreationAhead(o, "confirm")' /\ CreationAhead(o, "cod")'
    BY <2>1 DEF CreationAhead
  <2>3. UpdateAhead(o) => UpdateAhead(o)'
    <3>1. e # Updated(o)
      BY <1>3 DEF Created, Updated
    <3> QED BY <1>1, <1>2, <3>1 DEF UpdateAhead, Busy
  <2> QED BY <1>1, <2>2, <2>3, PassedOn
<1>4. CASE e = Updated(o)
  <2>1. /\ ready'[1] = [run |-> "update", id |-> o, status |-> st]
        /\ DOMAIN ready' = 1 .. 1
    BY <1>1, <1>4 DEF HandlersOf, Updated
  <2>2. UpdateAhead(o) => UpdateAhead(o)'
    BY <1>1, <1>2, <2>1 DEF UpdateAhead, Busy
  <2>3. e # Created(o)
    BY <1>4 DEF Created, Updated
  <2>4. /\ CreationAhead(o, "confirm") => CreationAhead(o, "confirm")'
        /\ CreationAhead(o, "cod") => CreationAhead(o, "cod")'
    BY <1>1, <1>2, <2>3 DEF CreationAhead, Busy
  <2> QED BY <1>1, <2>2, <2>4, PassedOn
<1>5. CASE e # Created(o) /\ e # Updated(o)
  <2>1. /\ CreationAhead(o, "confirm") => CreationAhead(o, "confirm")'
        /\ CreationAhead(o, "cod") => CreationAhead(o, "cod")'
        /\ UpdateAhead(o) => UpdateAhead(o)'
    BY <1>1, <1>2, <1>5 DEF CreationAhead, UpdateAhead, Busy
  <2> QED BY <1>1, <2>1, PassedOn
<1> QED BY <1>3, <1>4, <1>5

\* A slot that holds no event about the order may change.
LEMMA OtherSlot ==
  ASSUME NothingForgotten, UNCHANGED <<order, outbox, ready>>,
         tried \subseteq tried', lost \subseteq lost', NEW s \in SlotId,
         \A t \in SlotId \ {s} : slot'[t] = slot[t],
         NEW o \in Order, order'[o] # NoOrder, o \notin lost',
         Busy(s) => slot[s].event \notin {Created(o), Updated(o)}
  PROVE  Remembered(o)'
<1>1. /\ CreationAhead(o, "confirm") => CreationAhead(o, "confirm")'
      /\ CreationAhead(o, "cod") => CreationAhead(o, "cod")'
  BY DEF CreationAhead, Busy
<1>2. UpdateAhead(o) => UpdateAhead(o)'
  BY DEF UpdateAhead, Busy
<1> QED BY <1>1, <1>2, PassedOn

LEMMA HydrationFailsRemembers ==
  ASSUME Sound, NothingForgotten, NEW s \in SlotId, HydrationFails(s),
         NEW o \in Order, order'[o] # NoOrder, o \notin lost'
  PROVE  Remembered(o)'
<1>1. slot[s].event \in AboutOrder /\ OrderEvent(slot[s].event)
  BY BusySlot DEF HydrationFails, Busy, Sound
<1>2. lost' = lost \cup {slot[s].event.id}
  BY <1>1 DEF HydrationFails, LosesOrders
<1>3. slot[s].event \notin {Created(o), Updated(o)}
  BY <1>2, CreatedIsEvent
<1>4. /\ UNCHANGED <<order, outbox, ready, tried>>
      /\ \A t \in SlotId \ {s} : slot'[t] = slot[t]
  BY DEF HydrationFails, Sound, DispatchTypeOK
<1> QED BY <1>2, <1>3, <1>4, OtherSlot

LEMMA CartSlotRemembers ==
  ASSUME Sound, NothingForgotten, NEW s \in SlotId, GetCart(s) \/ GetPhone(s),
         NEW o \in Order, order'[o] # NoOrder, o \notin lost'
  PROVE  Remembered(o)'
<1>1. ~OrderEvent(slot[s].event)
  BY BusySlot DEF GetCart, GetPhone, Busy, Sound
<1>2. slot[s].event \notin {Created(o), Updated(o)}
  BY <1>1, CreatedIsEvent
<1>3. tried \subseteq tried'
  BY DEF GetCart, GetPhone, TryKey
<1>4. /\ UNCHANGED <<order, outbox, ready, lost>>
      /\ \A t \in SlotId \ {s} : slot'[t] = slot[t]
  BY DEF GetCart, GetPhone, Sound, DispatchTypeOK
<1> QED BY <1>2, <1>3, <1>4, OtherSlot

\* What waits in the queue is its first handler or still waits after that.
LEMMA TailWaits ==
  ASSUME DispatchTypeOK, ready # <<>>, NEW i \in DOMAIN ready
  PROVE  \/ ready[i] = Head(ready)
         \/ \E n \in DOMAIN Tail(ready) : Tail(ready)[n] = ready[i]
<1>1. /\ ready \in Seq(Handler) /\ Len(ready) \in Nat /\ i \in 1 .. Len(ready)
      /\ DOMAIN Tail(ready) = 1 .. (Len(ready) - 1)
  BY DEF DispatchTypeOK
<1>2. CASE i = 1
  BY <1>1, <1>2
<1>3. CASE i # 1
  <2>1. i - 1 \in DOMAIN Tail(ready) /\ Tail(ready)[i - 1] = ready[i]
    BY <1>1, <1>3
  <2> QED BY <2>1
<1> QED BY <1>2, <1>3

LEMMA RunOrderHandlerRemembers ==
  ASSUME Sound, NothingForgotten, RunOrderHandler,
         NEW o \in Order, order'[o] # NoOrder, o \notin lost'
  PROVE  Remembered(o)'
<1> DEFINE h == Head(ready)
<1>1. /\ UNCHANGED <<order, outbox, slot, lost>> /\ ready # <<>>
      /\ ready' = Tail(ready) /\ h \in Handler
  BY HeadIsHandler DEF RunOrderHandler, Sound
<1>2. tried \subseteq tried'
  BY DEF RunOrderHandler, TryKey
<1>3. h.run = "confirm" => ConfirmKey(h.id) \in tried'
  BY DEF RunOrderHandler, TryKey, KeyOf
<1>4. h.run = "update" => UpdateKey(h.id, h.status) \in tried'
  BY DEF RunOrderHandler, TryKey, KeyOf
<1>5. h.run = "cod" /\ Payment[h.id] = "cod" /\ h.id \notin BelowMinimum =>
        CodKey(h.id) \in tried'
  BY DEF RunOrderHandler, TryKey, KeyOf, IsCod
<1>6. \A i \in DOMAIN ready :
        \/ ready[i] = h
        \/ \E n \in DOMAIN ready' : ready'[n] = ready[i]
  BY <1>1, TailWaits DEF Sound
<1> HIDE DEF h
<1>7. CreationAhead(o, "confirm") =>
        ConfirmKey(o) \in tried' \/ CreationAhead(o, "confirm")'
  BY <1>1, <1>3, <1>6 DEF CreationAhead, Busy
<1>8. Payment[o] = "cod" /\ o \notin BelowMinimum /\ CreationAhead(o, "cod") =>
        CodKey(o) \in tried' \/ CreationAhead(o, "cod")'
  BY <1>1, <1>5, <1>6 DEF CreationAhead, Busy
<1>9. UpdateAhead(o) => UpdateKey(o, order[o]) \in tried' \/ UpdateAhead(o)'
  BY <1>1, <1>4, <1>6 DEF UpdateAhead, Busy
<1> QED BY <1>1, <1>2, <1>7, <1>8, <1>9, PassedOn

LEMMA RunCartHandlerRemembers ==
  ASSUME Sound, NothingForgotten, NEW s \in SlotId, RunCartHandler(s),
         NEW o \in Order, order'[o] # NoOrder, o \notin lost'
  PROVE  Remembered(o)'
<1>1. /\ UNCHANGED <<order, outbox, tried, lost>> /\ ready # <<>>
      /\ ready' = Tail(ready) /\ Head(ready).run = "cart"
      /\ \A t \in SlotId : Busy(t) => slot'[t] = slot[t]
  BY DEF RunCartHandler, Sound, DispatchTypeOK
<1>2. \A i \in DOMAIN ready :
        ready[i].run # "cart" => \E n \in DOMAIN ready' : ready'[n] = ready[i]
  BY <1>1, TailWaits DEF Sound
<1>3. \A t \in SlotId : Busy(t) => Busy(t)'
  BY <1>1 DEF Busy
<1>4. /\ CreationAhead(o, "confirm") => CreationAhead(o, "confirm")'
      /\ CreationAhead(o, "cod") => CreationAhead(o, "cod")'
  BY <1>1, <1>2, <1>3 DEF CreationAhead
<1>5. UpdateAhead(o) => UpdateAhead(o)'
  BY <1>1, <1>2, <1>3 DEF UpdateAhead
<1> QED BY <1>1, <1>4, <1>5, PassedOn

LEMMA CrashRemembers ==
  ASSUME Sound, NothingForgotten, DispatchCrash,
         NEW o \in Order, order'[o] # NoOrder, o \notin lost'
  PROVE  Remembered(o)'
<1>1. UNCHANGED <<order, outbox, tried>> /\ o \notin lost
  BY DEF DispatchCrash
<1>2. \A s \in SlotId : Busy(s) =>
        slot[s].event # Created(o) /\ slot[s].event # Updated(o)
  BY CreatedIsEvent DEF DispatchCrash
<1>3. \A i \in DOMAIN ready : ready[i].run # "cart" => ready[i].id # o
  BY DEF DispatchCrash
<1>4. /\ CreationAhead(o, "confirm") => CreationAhead(o, "confirm")'
      /\ CreationAhead(o, "cod") => CreationAhead(o, "cod")'
  BY <1>1, <1>2, <1>3 DEF CreationAhead
<1>5. UpdateAhead(o) => UpdateAhead(o)'
  BY <1>1, <1>2, <1>3 DEF UpdateAhead
<1> QED BY <1>1, <1>4, <1>5, PassedOn

LEMMA NextRemembers ==
  Sound /\ NothingForgotten /\ [DispatchNext]_allVars => NothingForgotten'
<1> SUFFICES ASSUME Sound, NothingForgotten, [DispatchNext]_allVars,
                    NEW o \in Order, order'[o] # NoOrder, o \notin lost'
             PROVE  Remembered(o)'
  BY DEF NothingForgotten
<1>1. CASE \/ \E c \in Cart, n \in Order : Checkout(c, n)
           \/ \E n \in Order : OrderWithoutCart(n)
  BY <1>1, PlaceOrderRemembers DEF Checkout, OrderWithoutCart
<1>2. CASE \E n \in Order, st \in Status : ChangeStatus(n, st)
  BY <1>2, ChangeStatusRemembers
<1>3. CASE \/ \E c \in Cart, content \in {"filled", "empty"} :
                EditCart(c, content)
           \/ Elsewhere \/ DispatchTick \/ UNCHANGED allVars
  <2>1. /\ UNCHANGED <<order, slot, ready, tried, lost>>
        /\ outbox \subseteq outbox'
    BY <1>3 DEF EditCart, Change, Elsewhere, DispatchTick, allVars, eventVars
  <2> QED BY <2>1, QuietStepRemembers
<1> QED BY <1>1, <1>2, <1>3, ReceiveRemembers, ReadOrderRemembers,
           HydratedRemembers, HydrationFailsRemembers, CartSlotRemembers,
           RunOrderHandlerRemembers, RunCartHandlerRemembers, CrashRemembers
        DEF DispatchNext

-----------------------------------------------------------------------------
(* A cart is called about only shortly after it was filled.                   *)

LEMMA CartKeys ==
  \A k \in Key : k[1] = "abandonedCart" =>
    k[2] \in Cart /\ AutomationOf[k] \in Prechecked
BY DispatchAssumption DEF ConfirmKey, CodKey, UpdateKey, CartKey

LEMMA DueType ==
  ASSUME Sound
  PROVE  /\ now \in Nat /\ Latency \in Nat
         /\ \A c \in Cart : closedAt[c] \in Int
         /\ \A j \in JobId : Active(j) => job[j] \in Job /\ job[j].due \in Nat
BY PlaceCallAssumption, NoMarkNotTime
   DEF Sound, DispatchTypeOK, TypeOK, Active, Idle, Job

\* When a run of placeCall is due.
JobIsTimely(j) ==
  Active(j) => /\ now <= job[j].due + Latency
               /\ job[j].stage \in {"precheck", "dialing"} => job[j].due <= now

SlotIsTimely(s) == Busy(s) => slot[s].due <= now /\ now <= slot[s].due + Latency

LEMMA TimelyParts ==
  RequestsAreTimely <=> /\ \A s \in SlotId : SlotIsTimely(s)
                        /\ \A j \in JobId : JobIsTimely(j)
BY DEF RequestsAreTimely, SlotIsTimely, JobIsTimely

LEMMA StartedJob ==
  ASSUME Sound, NEW k \in Key, NEW i \in JobId, StartJob(k, i), NEW j \in JobId
  PROVE  \/ job'[j] = job[j]
         \/ /\ job'[j].key = k
            /\ job'[j].due \in Nat /\ now <= job'[j].due
            /\ job'[j].stage \in {"timer", "dialing"}
            /\ job'[j].stage = "dialing" => job'[j].due = now
<1> DEFINE d == db.cfg[AutomationOf[k]].delay
           stage == IF d > 0 THEN "timer" ELSE "dialing"
           new == [stage |-> stage, key |-> k, markedAt |-> now, wait |-> d,
                   due |-> now + TimerDelay(d), session |-> 0]
<1>1. job \in [JobId -> {Idle} \cup Job] /\ now \in Nat
  BY DEF Sound, DispatchTypeOK, TypeOK
<1>2. d \in Nat
  BY PlaceCallAssumption DEF Sound, DispatchTypeOK, TypeOK, Db, Cfg
<1>3. job' = [job EXCEPT ![i] = new]
  BY DEF StartJob
<1>4. TimerDelay(d) \in Nat /\ (d = 0 => TimerDelay(d) = 0)
  BY <1>2 DEF TimerDelay
<1>5. /\ new.key = k /\ new.due = now + TimerDelay(d) /\ new.stage = stage
      /\ stage \in {"timer", "dialing"} /\ (stage = "dialing" => d = 0)
  BY <1>2
<1> HIDE DEF new, stage, d
<1>6. CASE j = i
  <2>1. job'[j] = new
    BY <1>1, <1>3, <1>6
  <2> QED BY <2>1, <1>1, <1>4, <1>5
<1>7. CASE j # i
  BY <1>1, <1>3, <1>7
<1> QED BY <1>6, <1>7

\* A job goes on with the same key, and what it waits for next starts now.
LEMMA ResolvedJob ==
  ASSUME Sound, NEW i \in JobId, Resolve(i), NEW j \in JobId
  PROVE  \/ job'[j] = job[j]
         \/ job'[j] = Idle
         \/ /\ Active(j) /\ job'[j].key = job[j].key
            /\ job'[j].stage \in {"precheck", "dialing"} /\ job'[j].due = now
            /\ job'[j].stage = "dialing" =>
                 \/ job[j].stage = "precheck"
                 \/ AutomationOf[job[j].key] \notin Prechecked
         \/ /\ job[j].stage = "dialing" /\ job'[j].stage = "accepted"
            /\ job'[j].key = job[j].key /\ job'[j].due = job[j].due
<1>1. job \in [JobId -> {Idle} \cup Job]
  BY DEF Sound, DispatchTypeOK, TypeOK
<1>2. CASE j # i
  BY <1>1, <1>2 DEF Resolve, TimerFires, PrecheckEnds, Accept, DialOk, DialFails,
                    AnswerLost, Release, Dial
<1>3. CASE j = i
  <2>1. CASE TimerFires(i)
    <3>1. Active(i) /\ job[i] \in Job
      BY <2>1, <1>1 DEF TimerFires, Active, Idle
    <3> QED BY <2>1, <3>1, <1>1, <1>3 DEF TimerFires, Release, Dial, Job
  <2>2. CASE PrecheckEnds(i)
    <3>1. Active(i) /\ job[i] \in Job
      BY <2>2, <1>1 DEF PrecheckEnds, Active, Idle
    <3> QED BY <2>2, <3>1, <1>1, <1>3 DEF PrecheckEnds, Dial, Job
  <2>3. CASE Accept(i)
    <3>1. job[i] \in Job
      BY <2>3, <1>1 DEF Accept, Idle
    <3> QED BY <2>3, <3>1, <1>1, <1>3 DEF Accept, Job
  <2>4. CASE DialOk(i) \/ DialFails(i) \/ AnswerLost(i)
    BY <2>4, <1>1, <1>3 DEF DialOk, DialFails, AnswerLost, Release
  <2> QED BY <2>1, <2>2, <2>3, <2>4 DEF Resolve
<1> QED BY <1>2, <1>3

LEMMA JobsStayTimely ==
  ASSUME Sound, RequestsAreTimely, [Next]_vars, NEW j \in JobId
  PROVE  JobIsTimely(j)'
<1>1. now \in Nat /\ Latency \in Nat /\ JobIsTimely(j)
  BY DueType, TimelyParts
<1>2. CASE job'[j] = job[j] /\ now' = now
  BY <1>1, <1>2 DEF JobIsTimely, Active
<1>3. CASE job'[j] = Idle
  BY <1>3 DEF JobIsTimely, Active, Idle
<1>4. ASSUME NEW k \in Key, NEW i \in JobId, StartJob(k, i) PROVE JobIsTimely(j)'
  <2>1. now' = now
    BY <1>4 DEF StartJob
  <2>2. CASE job'[j] # job[j]
    BY <1>1, <1>4, <2>1, <2>2, StartedJob DEF JobIsTimely, Active
  <2> QED BY <1>2, <2>1, <2>2
<1>5. ASSUME NEW i \in JobId, Resolve(i) PROVE JobIsTimely(j)'
  <2>1. now' = now
    BY <1>5 DEF Resolve, TimerFires, PrecheckEnds, Accept, DialOk, DialFails,
                AnswerLost
  <2>2. CASE job'[j].due = now /\ job'[j] # job[j]
    BY <1>1, <2>1, <2>2 DEF JobIsTimely, Active
  <2>3. CASE /\ job[j].stage = "dialing" /\ job'[j].stage = "accepted"
             /\ job'[j].due = job[j].due
    BY <1>1, <2>1, <2>3 DEF JobIsTimely, Active
  <2> QED BY <1>2, <1>3, <1>5, <2>1, <2>2, <2>3, ResolvedJob
<1>6. CASE Tick
  <2>1. Active(j) => job[j].due \in Nat /\ now < job[j].due + Latency
    BY <1>6, DueType DEF Tick
  <2>2. now' = now + 1 /\ job' = job
    BY <1>6 DEF Tick
  <2> QED BY <1>1, <2>1, <2>2 DEF JobIsTimely, Active
<1>7. CASE \/ \E a \in Automation : SaveSettings(a)
           \/ Uninstall \/ Install \/ UNCHANGED vars
  <2>1. (\E a \in Automation : SaveSettings(a)) => UNCHANGED <<now, job>>
    BY Zenon DEF SaveSettings
  <2>2. Uninstall \/ Install \/ UNCHANGED vars => UNCHANGED <<now, job>>
    BY Zenon DEF Uninstall, Install, vars
  <2> QED BY <1>2, <1>7, <2>1, <2>2
<1>8. CASE Crash
  BY <1>3, <1>8 DEF Crash
<1> QED BY <1>4, <1>5, <1>6, <1>7, <1>8 DEF Next

LEMMA TimeStands ==
  /\ \A i \in JobId : Resolve(i) => now' = now
  /\ \A k \in Key : TryKey(k) => now' = now
  /\ \A a \in Automation : SaveSettings(a) => now' = now
<1>1. \A i \in JobId : Resolve(i) => now' = now
  BY Zenon DEF Resolve, TimerFires, PrecheckEnds, Accept, DialOk, DialFails,
               AnswerLost
<1>2. \A k \in Key, i \in JobId : StartJob(k, i) => now' = now
  BY Zenon DEF StartJob
<1>3. \A k \in Key : TryKey(k) => now' = now
  BY <1>2 DEF TryKey, vars
<1>4. \A a \in Automation : SaveSettings(a) => now' = now
  BY Zenon DEF SaveSettings
<1> QED BY <1>1, <1>3, <1>4

LEMMA SlotsStayTimely ==
  ASSUME Sound, RequestsAreTimely, [DispatchNext]_allVars, NEW s \in SlotId
  PROVE  SlotIsTimely(s)'
<1>1. /\ now \in Nat /\ Latency \in Nat /\ SlotIsTimely(s)
      /\ slot \in [SlotId -> {Free} \cup Slot]
  BY DueType, TimelyParts DEF Sound, DispatchTypeOK
<1>2. CASE slot'[s] = slot[s] /\ now' = now
  BY <1>1, <1>2 DEF SlotIsTimely, Busy
<1>3. CASE slot'[s] = Free
  BY <1>3 DEF SlotIsTimely, Busy, Free
<1>4. CASE slot'[s].due = now /\ now' = now
  BY <1>1, <1>4 DEF SlotIsTimely, Busy
<1>5. ASSUME NEW t \in SlotId,
             \/ \E e \in outbox : Receive(e, t)
             \/ RunCartHandler(t) \/ GetCart(t)
      PROVE  SlotIsTimely(s)'
  <2>1. now' = now
    BY <1>5 DEF Receive, RunCartHandler, GetCart, vars
  <2>2. s # t => slot'[s] = slot[s]
    BY <1>1, <1>5 DEF Receive, RunCartHandler, GetCart
  <2>3. GetCart(t) => slot[t] \in Slot /\ slot[t].at = "getCart"
    BY <1>1 DEF GetCart, Free
  <2>4. s = t /\ GetCart(t) => slot'[s] = Free \/ slot'[s].due = now
    BY <1>1, <2>3 DEF GetCart, Slot
  <2>5. s = t /\ RunCartHandler(t) => slot'[s] = slot[s] \/ slot'[s].due = now
    BY <1>1 DEF RunCartHandler
  <2>6. \A e \in outbox :
          s = t /\ Receive(e, t) => slot'[s] = slot[s] \/ slot'[s].due = now
    BY <1>1 DEF Receive
  <2> QED BY <1>2, <1>3, <1>4, <1>5, <2>1, <2>2, <2>4, <2>5, <2>6
<1>6. ASSUME NEW t \in SlotId, ReadOrder(t) PROVE SlotIsTimely(s)'
  <2>1. now' = now /\ Busy(t)
    BY <1>6 DEF ReadOrder, vars, Busy
  <2>2. slot'[t].due = slot[t].due
    BY <1>1, <1>6 DEF ReadOrder
  <2>3. s # t => slot'[s] = slot[s]
    BY <1>1, <1>6 DEF ReadOrder
  <2> QED BY <1>1, <1>2, <2>1, <2>2, <2>3 DEF SlotIsTimely
<1>7. ASSUME NEW t \in SlotId, Hydrated(t) \/ HydrationFails(t) \/ GetPhone(t)
      PROVE  SlotIsTimely(s)'
  <2>1. now' = now
    BY <1>7, TimeStands, PhoneKey DEF Hydrated, HydrationFails, GetPhone, vars
  <2>2. slot'[s] = slot[s] \/ slot'[s] = Free
    BY <1>1, <1>7 DEF Hydrated, HydrationFails, GetPhone
  <2> QED BY <1>2, <1>3, <2>1, <2>2
<1>8. CASE DispatchTick
  <2>1. now' = now + 1 /\ slot' = slot
    BY <1>8 DEF DispatchTick, Tick, eventVars
  <2>2. Busy(s) => slot[s].due \in Nat /\ now < slot[s].due + Latency
    BY <1>8, BusySlot DEF DispatchTick, Sound
  <2> QED BY <1>1, <2>1, <2>2 DEF SlotIsTimely, Busy
<1>9. CASE DispatchCrash
  BY <1>3, <1>9 DEF DispatchCrash
<1>10. CASE Elsewhere \/ RunOrderHandler \/ UNCHANGED allVars
  <2>1. now' = now
    BY <1>10, TimeStands, OrderHandlerEffect
       DEF Elsewhere, ResolveJob, allVars, vars
  <2>2. slot' = slot
    BY <1>10 DEF Elsewhere, RunOrderHandler, allVars, eventVars
  <2> QED BY <1>2, <2>1, <2>2
<1>11. CASE \/ \E c \in Cart, o \in Order : Checkout(c, o)
            \/ \E o \in Order : OrderWithoutCart(o)
            \/ \E o \in Order, st \in Status : ChangeStatus(o, st)
            \/ \E c \in Cart, content \in {"filled", "empty"} :
                 EditCart(c, content)
  BY <1>2, <1>11 DEF Checkout, OrderWithoutCart, PlaceOrder, ChangeStatus,
                     EditCart, Change, vars
<1> QED BY <1>5, <1>6, <1>7, <1>8, <1>9, <1>10, <1>11 DEF DispatchNext

\* A cart that was filled at some time, or after it, stays one.
LEMMA CartsKeep ==
  ASSUME Sound, [DispatchNext]_allVars,
         NEW c \in Cart, NEW at \in Nat, NEW late \in Nat, at <= now,
         FilledUntil(c, at, late)
  PROVE  FilledUntil(c, at, late)'
<1>1. /\ now \in Nat /\ closedAt[c] \in Int
      /\ cart \in [Cart -> {"none", "filled", "empty", "gone"}]
      /\ closedAt \in [Cart -> Nat \cup {NoMark}]
  BY DueType DEF Sound, DispatchTypeOK
<1>2. CASE cart'[c] = cart[c] /\ closedAt'[c] = closedAt[c]
  BY <1>2 DEF FilledUntil
<1>3. CASE cart'[c] = "filled" \/ closedAt'[c] = now
  BY <1>1, <1>3 DEF FilledUntil
<1>4. ASSUME NEW d \in Cart, NEW o \in Order, Checkout(d, o)
      PROVE  FilledUntil(c, at, late)'
  BY <1>1, <1>2, <1>3, <1>4 DEF Checkout
<1>5. ASSUME NEW d \in Cart, NEW content \in {"filled", "empty"},
             EditCart(d, content)
      PROVE  FilledUntil(c, at, late)'
  <2>1. c # d => cart'[c] = cart[c] /\ closedAt'[c] = closedAt[c]
    BY <1>1, <1>5 DEF EditCart
  <2>2. c = d => cart'[c] = content /\ (content = "empty" => cart[c] # "none")
    BY <1>1, <1>5 DEF EditCart
  <2>3. c = d /\ content = "empty" =>
          closedAt'[c] = IF cart[c] = "filled" THEN now ELSE closedAt[c]
    BY <1>1, <1>5 DEF EditCart
  <2> QED BY <1>1, <1>2, <1>3, <2>1, <2>2, <2>3 DEF FilledUntil
<1>6. CASE \/ \E o \in Order : OrderWithoutCart(o)
           \/ \E o \in Order, st \in Status : ChangeStatus(o, st)
           \/ \E e \in outbox, s \in SlotId : Receive(e, s)
           \/ \E s \in SlotId : \/ ReadOrder(s) \/ Hydrated(s)
                                \/ HydrationFails(s) \/ RunCartHandler(s)
                                \/ GetCart(s) \/ GetPhone(s)
           \/ RunOrderHandler \/ Elsewhere \/ DispatchTick \/ DispatchCrash
           \/ UNCHANGED allVars
  <2>1. UNCHANGED <<cart, closedAt>>
    BY <1>6, Zenon DEF OrderWithoutCart, ChangeStatus, Receive, ReadOrder, Hydrated,
                HydrationFails, RunCartHandler, GetCart, GetPhone,
                RunOrderHandler, Elsewhere, DispatchTick, DispatchCrash,
                allVars, eventVars
  <2> QED BY <1>2, <2>1
<1> QED BY <1>4, <1>5, <1>6 DEF DispatchNext

\* What a request has just found, within the latency of that request.
LEMMA SeenIsFilled ==
  ASSUME Sound, NEW c \in Cart, NEW since \in Nat, SeenFilled(c, since),
         now <= since + Latency
  PROVE  FilledUntil(c, now, Latency)
BY DueType DEF SeenFilled, FilledUntil

LEMMA SlotsWereFilled ==
  ASSUME Sound, RequestsAreTimely, CartsWereFilled, [DispatchNext]_allVars,
         NEW s \in SlotId, slot'[s].at = "getPhone"
  PROVE  FilledUntil(slot[s].event.id, slot[s].due, Latency)'
<1>1. /\ now \in Nat /\ Latency \in Nat
      /\ slot \in [SlotId -> {Free} \cup Slot]
  BY DueType DEF Sound, DispatchTypeOK
<1>2. CASE slot'[s] = slot[s]
  <2>1. /\ FilledUntil(slot[s].event.id, slot[s].due, Latency)
        /\ slot[s].due \in Nat /\ slot[s].due <= now
        /\ slot[s].event.id \in Cart
    BY <1>2, BusySlot DEF CartsWereFilled, RequestsAreTimely, Busy, Sound,
                          AboutCart
  <2>2. \A c \in Cart, at \in Nat :
          at <= now /\ FilledUntil(c, at, Latency) =>
            cart'[c] = "filled" \/ at <= closedAt'[c] + Latency
    BY <1>1, CartsKeep DEF FilledUntil
  <2> QED BY <1>2, <2>1, <2>2 DEF FilledUntil
<1>3. CASE GetCart(s)
  <2>1. Busy(s) /\ UNCHANGED <<cart, closedAt>>
    BY <1>3 DEF GetCart, Busy
  <2>2. /\ slot[s] \in Slot /\ slot[s].due \in Nat
        /\ slot[s].event.id \in Cart
        /\ now <= slot[s].due + Latency
    BY <1>3, <2>1, BusySlot DEF GetCart, Sound, RequestsAreTimely, AboutCart
  <2>3. /\ SeenFilled(slot[s].event.id, slot[s].due)
        /\ slot'[s].event = slot[s].event /\ slot'[s].due = now
    BY <1>1, <1>3, <2>2 DEF GetCart, Free, Slot
  <2>4. FilledUntil(slot[s].event.id, now, Latency)
    BY <2>2, <2>3, SeenIsFilled
  <2> QED BY <2>1, <2>3, <2>4 DEF FilledUntil
<1>4. CASE slot'[s] # slot[s] /\ ~GetCart(s)
  <2>1. \A t \in SlotId : ReadOrder(t) => s = t \/ slot'[s] = slot[s]
    BY <1>1 DEF ReadOrder
  <2>2. \A t \in SlotId : ReadOrder(t) => slot'[t].at = "order"
    BY <1>1 DEF ReadOrder
  <2>3. \A t \in SlotId :
          Hydrated(t) \/ HydrationFails(t) \/ GetPhone(t) =>
            slot'[s] = slot[s] \/ slot'[s].at = "free"
    BY <1>1 DEF Hydrated, HydrationFails, GetPhone, Free
  <2>4. \A t \in SlotId :
          RunCartHandler(t) => slot'[s] = slot[s] \/ slot'[s].at = "getCart"
    BY <1>1 DEF RunCartHandler
  <2>5. \A e \in outbox, t \in SlotId :
          Receive(e, t) => slot'[s] = slot[s] \/ slot'[s].at = "getOrder"
    BY <1>1 DEF Receive
  <2>6. \A t \in SlotId : GetCart(t) => s = t \/ slot'[s] = slot[s]
    BY <1>1 DEF GetCart
  <2>7. DispatchCrash => slot'[s].at = "free"
    BY DEF DispatchCrash, Free
  <2>8. \/ \E c \in Cart, o \in Order : Checkout(c, o)
        \/ \E o \in Order : OrderWithoutCart(o)
        \/ \E o \in Order, st \in Status : ChangeStatus(o, st)
        \/ \E c \in Cart, content \in {"filled", "empty"} : EditCart(c, content)
        \/ RunOrderHandler \/ Elsewhere \/ DispatchTick \/ UNCHANGED allVars
        => slot' = slot
    BY Zenon DEF Checkout, OrderWithoutCart, PlaceOrder, ChangeStatus, EditCart,
           Change, RunOrderHandler, Elsewhere, DispatchTick, allVars, eventVars
  <2> QED BY <1>4, <2>1, <2>2, <2>3, <2>4, <2>5, <2>6, <2>7, <2>8
          DEF DispatchNext
<1> QED BY <1>2, <1>3, <1>4

\* The key of an order's handler is no cart's.
LEMMA OrderKeys ==
  ASSUME NEW h \in Handler, h.run # "cart"
  PROVE  KeyOf(h)[1] # "abandonedCart"
BY DEF KeyOf, ConfirmKey, CodKey, UpdateKey

\* A call about a cart is asked for, or going to be, after one more look at it.
LEMMA DialingJob ==
  ASSUME Sound, [DispatchNext]_allVars, NEW j \in JobId,
         job'[j].stage = "dialing", job'[j].key[1] = "abandonedCart"
  PROVE  \/ job'[j] = job[j]
         \/ /\ job'[j].due = now
            /\ UNCHANGED <<cart, closedAt>>
            /\ \/ /\ job[j].stage = "precheck" /\ job'[j].key = job[j].key
                  /\ SeenFilled(job[j].key[2], job[j].due)
               \/ \E s \in SlotId : /\ slot[s].at = "getPhone"
                                    /\ job'[j].key = CartKey(slot[s].event.id)
<1>1. ASSUME NEW k \in Key, TryKey(k)
      PROVE  job'[j] = job[j] \/ (job'[j].key = k /\ job'[j].due = now)
  <2>1. CASE UNCHANGED vars
    BY <2>1 DEF vars
  <2>2. ASSUME NEW i \in JobId, StartJob(k, i)
        PROVE  job'[j] = job[j] \/ (job'[j].key = k /\ job'[j].due = now)
    BY <2>2, StartedJob
  <2> QED BY <1>1, <2>1, <2>2 DEF TryKey
<1>2. CASE RunOrderHandler
  <2> DEFINE h == Head(ready)
  <2>1. h \in Handler /\ h.run # "cart"
    BY <1>2, HeadIsHandler DEF RunOrderHandler, Sound
  <2>2. KeyOf(h) \in Key /\ KeyOf(h)[1] # "abandonedCart"
    BY <2>1, KeyOfIsKey, OrderKeys
  <2>3. UNCHANGED vars \/ TryKey(KeyOf(h))
    BY <1>2 DEF RunOrderHandler
  <2> HIDE DEF h
  <2> QED BY <1>1, <2>2, <2>3 DEF vars
<1>3. ASSUME NEW s \in SlotId, GetPhone(s)
      PROVE  \/ job'[j] = job[j]
             \/ /\ job'[j].due = now /\ UNCHANGED <<cart, closedAt>>
                /\ slot[s].at = "getPhone"
                /\ job'[j].key = CartKey(slot[s].event.id)
  BY <1>1, <1>3, PhoneKey DEF GetPhone, vars
<1>4. ASSUME NEW i \in JobId, ResolveJob(i)
      PROVE  \/ job'[j] = job[j]
             \/ /\ job'[j].due = now
                /\ job[j].stage = "precheck" /\ job'[j].key = job[j].key
                /\ SeenFilled(job[j].key[2], job[j].due)
  <2>1. CASE job'[j] # job[j]
    <3>1. Active(j) => job[j].key \in Key
      BY DueType DEF Job
    <3>2. /\ Active(j) /\ job'[j].key = job[j].key /\ job'[j].due = now
          /\ \/ job[j].stage = "precheck"
             \/ AutomationOf[job[j].key] \notin Prechecked
      BY <1>4, <2>1, ResolvedJob DEF ResolveJob, Idle
    <3>3. job[j].stage = "precheck"
      BY <3>1, <3>2, CartKeys
    <3>4. i = j
      BY <1>4, <2>1 DEF ResolveJob, Resolve, TimerFires, PrecheckEnds, Accept,
                        DialOk, DialFails, AnswerLost, Release, Dial,
                        Sound, DispatchTypeOK, TypeOK
    <3> QED BY <1>4, <3>2, <3>3, <3>4 DEF ResolveJob, StillAbandoned
  <2> QED BY <2>1
<1>5. CASE Elsewhere
  <2>1. UNCHANGED <<cart, closedAt>>
    BY <1>5 DEF Elsewhere, eventVars
  <2>2. \A a \in Automation : SaveSettings(a) => job' = job
    BY Zenon DEF SaveSettings
  <2> QED BY <1>4, <1>5, <2>1, <2>2 DEF Elsewhere
<1>6. CASE DispatchTick
  BY <1>6 DEF DispatchTick, Tick
<1>7. DispatchCrash => job'[j] = Idle
  BY DEF DispatchCrash, Crash
<1>8. CASE \/ \E c \in Cart, o \in Order : Checkout(c, o)
           \/ \E o \in Order : OrderWithoutCart(o)
           \/ \E o \in Order, st \in Status : ChangeStatus(o, st)
           \/ \E c \in Cart, content \in {"filled", "empty"} :
                EditCart(c, content)
           \/ \E e \in outbox, s \in SlotId : Receive(e, s)
           \/ \E s \in SlotId : \/ ReadOrder(s) \/ Hydrated(s)
                                \/ HydrationFails(s) \/ RunCartHandler(s)
                                \/ GetCart(s)
           \/ UNCHANGED allVars
  <2>1. UNCHANGED vars
    BY <1>8, Zenon DEF Checkout, OrderWithoutCart, PlaceOrder, ChangeStatus,
                       EditCart, Change, Receive, ReadOrder, Hydrated,
                       HydrationFails, RunCartHandler, GetCart, allVars
  <2> QED BY <2>1 DEF vars
<1> QED BY <1>2, <1>3, <1>5, <1>6, <1>7, <1>8 DEF DispatchNext, Idle

LEMMA CallsWereFilled ==
  ASSUME Sound, RequestsAreTimely, CartsWereFilled, [DispatchNext]_allVars,
         NEW j \in JobId, job'[j].stage = "dialing",
         job'[j].key[1] = "abandonedCart"
  PROVE  FilledUntil(job[j].key[2], job[j].due, 2 * Latency)'
<1>1. now \in Nat /\ Latency \in Nat /\ 2 * Latency \in Nat
  BY DueType
<1>2. Active(j) => job[j].key \in Key /\ job[j].due \in Nat
  BY DueType DEF Job
<1>3. CASE job'[j] = job[j]
  <2>1. /\ FilledUntil(job[j].key[2], job[j].due, 2 * Latency)
        /\ job[j].due \in Nat /\ job[j].due <= now
        /\ job[j].key[2] \in Cart
    BY <1>2, <1>3, CartKeys DEF CartsWereFilled, RequestsAreTimely, Active
  <2>2. \A c \in Cart, at \in Nat :
          at <= now /\ FilledUntil(c, at, 2 * Latency) =>
            cart'[c] = "filled" \/ at <= closedAt'[c] + 2 * Latency
    BY <1>1, CartsKeep DEF FilledUntil
  <2> QED BY <1>3, <2>1, <2>2 DEF FilledUntil
<1>4. CASE /\ job'[j].due = now /\ UNCHANGED <<cart, closedAt>>
           /\ job[j].stage = "precheck" /\ job'[j].key = job[j].key
           /\ SeenFilled(job[j].key[2], job[j].due)
  <2>1. job[j].key[2] \in Cart /\ closedAt[job[j].key[2]] \in Int
    BY <1>2, <1>4, CartKeys, DueType DEF Active
  <2>2. now <= job[j].due + Latency /\ job[j].due \in Nat
    BY <1>2, <1>4 DEF RequestsAreTimely, Active
  <2>3. FilledUntil(job[j].key[2], now, Latency)
    BY <1>4, <2>1, <2>2, SeenIsFilled
  <2> QED BY <1>1, <1>4, <2>1, <2>3 DEF FilledUntil
<1>5. ASSUME NEW s \in SlotId, slot[s].at = "getPhone",
             job'[j].key = CartKey(slot[s].event.id),
             job'[j].due = now, UNCHANGED <<cart, closedAt>>
      PROVE  FilledUntil(job[j].key[2], job[j].due, 2 * Latency)'
  <2>1. /\ slot[s].event.id \in Cart /\ slot[s].due \in Nat
        /\ now <= slot[s].due + Latency
        /\ FilledUntil(slot[s].event.id, slot[s].due, Latency)
    BY <1>5, BusySlot DEF Busy, Sound, AboutCart, RequestsAreTimely,
                          CartsWereFilled
  <2>2. closedAt[slot[s].event.id] \in Int
    BY <2>1, DueType
  <2>3. FilledUntil(slot[s].event.id, now, 2 * Latency)
    BY <1>1, <2>1, <2>2 DEF FilledUntil
  <2>4. job'[j].key[2] = slot[s].event.id
    BY <1>5 DEF CartKey
  <2> QED BY <1>5, <2>3, <2>4 DEF FilledUntil
<1> QED BY <1>3, <1>4, <1>5, DialingJob

LEMMA InitIsTimely == DispatchInit => RequestsAreTimely /\ CartsWereFilled
BY DEF DispatchInit, Init, RequestsAreTimely, CartsWereFilled, Busy, Active,
       Free, Idle

LEMMA NextIsTimely ==
  Sound /\ RequestsAreTimely /\ CartsWereFilled /\ [DispatchNext]_allVars
    => RequestsAreTimely' /\ CartsWereFilled'
<1> SUFFICES ASSUME Sound, RequestsAreTimely, CartsWereFilled,
                    [DispatchNext]_allVars
             PROVE  RequestsAreTimely' /\ CartsWereFilled'
  OBVIOUS
<1>1. RequestsAreTimely'
  <2>1. \A s \in SlotId : SlotIsTimely(s)'
    BY SlotsStayTimely
  <2>2. [Next]_vars
    BY DispatchStepIsPlaceCallStep
  <2>3. \A j \in JobId : JobIsTimely(j)'
    BY <2>2, JobsStayTimely
  <2> QED BY <2>1, <2>3
          DEF RequestsAreTimely, SlotIsTimely, JobIsTimely, Busy, Active
<1>2. CartsWereFilled'
  BY SlotsWereFilled, CallsWereFilled DEF CartsWereFilled
<1> QED BY <1>1, <1>2

\* The inductive invariant of the composition: the events' part and the carts'.
THEOREM DispatchInductive == DispatchSpec => []DispatchIInv
<1>1. Sound /\ NothingForgotten => EventsIInv
  BY DEF Sound, EventsIInv
<1>2. EventsIInv /\ RequestsAreTimely /\ CartsWereFilled => DispatchIInv
  BY DEF DispatchIInv
<1> QED BY <1>1, <1>2, DispatchInitSound, DispatchNextSound, InitRemembers,
           NextRemembers, InitIsTimely, NextIsTimely, PTL DEF DispatchSpec

\* A call is new in a step only because Telenow takes the call of a job.
LEMMA NewCall ==
  ASSUME Sound, [DispatchNext]_allVars, NEW n \in DOMAIN calls' \ DOMAIN calls
  PROVE  \E j \in JobId : /\ job[j].stage = "dialing"
                          /\ calls'[n].key = job[j].key
<1>1. calls \in Seq(Call)
  BY DEF Sound, DispatchTypeOK, TypeOK
<1>2. calls' # calls
  OBVIOUS
<1>3. PICK j \in JobId : Accept(j)
  <2>1. [Next]_vars
    BY DispatchStepIsPlaceCallStep
  <2>2. \/ \E k \in Key, j \in JobId : StartJob(k, j)
        \/ \E j \in JobId : \/ TimerFires(j) \/ PrecheckEnds(j) \/ DialOk(j)
                            \/ DialFails(j) \/ AnswerLost(j)
        \/ \E a \in Automation : SaveSettings(a)
        \/ Tick \/ Uninstall \/ Install \/ Crash
        => calls' = calls
    BY Zenon DEF StartJob, TimerFires, PrecheckEnds, DialOk, DialFails,
                 AnswerLost, SaveSettings, Tick, Uninstall, Install, Crash
  <2> QED BY <1>2, <2>1, <2>2 DEF Next, Resolve, vars
<1> DEFINE new == [key      |-> job[j].key,  markedAt |-> job[j].markedAt,
                   wait     |-> job[j].wait, at       |-> now]
<1>4. calls' = Append(calls, new) /\ job[j].stage = "dialing"
  BY <1>3 DEF Accept
<1>5. new.key = job[j].key
  OBVIOUS
<1> HIDE DEF new
<1>6. calls'[n] = new
  BY <1>1, <1>4
<1> QED BY <1>4, <1>5, <1>6

\* Whatever is late (events, requests, timers), a customer is called about a cart
\* only while it has items, or within three latencies of its end: those of the last
\* look at it, of the customer's phone and of the call.
THEOREM CartCallsAreFresh == DispatchSpec => CartCallIsFresh
<1>1. ASSUME DispatchIInv, [DispatchNext]_allVars,
             NEW n \in DOMAIN calls' \ DOMAIN calls,
             calls'[n].key[1] = "abandonedCart"
      PROVE  FilledUntil(calls'[n].key[2], now, 3 * Latency)
  <2>1. Sound
    BY <1>1 DEF DispatchIInv, EventsIInv, Sound
  <2>2. PICK j \in JobId : job[j].stage = "dialing" /\ calls'[n].key = job[j].key
    BY <1>1, <2>1, NewCall
  <2>3. /\ now \in Nat /\ Latency \in Nat
        /\ job[j].due \in Nat /\ now <= job[j].due + Latency
        /\ job[j].key[2] \in Cart
    BY <1>1, <2>1, <2>2, DueType, CartKeys
       DEF DispatchIInv, RequestsAreTimely, Active, Job
  <2>4. FilledUntil(job[j].key[2], job[j].due, 2 * Latency)
    BY <1>1, <2>2 DEF DispatchIInv, CartsWereFilled
  <2>5. closedAt[job[j].key[2]] \in Int
    BY <2>1, <2>3, DueType
  <2>6. FilledUntil(job[j].key[2], now, 3 * Latency)
    BY <2>3, <2>4, <2>5 DEF FilledUntil
  <2> QED BY <2>2, <2>6
<1>2. DispatchIInv /\ [DispatchNext]_allVars =>
        [\A n \in DOMAIN calls' \ DOMAIN calls :
           calls'[n].key[1] = "abandonedCart" =>
             FilledUntil(calls'[n].key[2], now, 3 * Latency)]_allVars
  BY <1>1
<1> QED BY <1>2, DispatchInductive, PTL DEF DispatchSpec, CartCallIsFresh

\* Once nothing about an order is outstanding, and unless a request or the process
\* failed, its confirmations and its present status have been handed to
\* placeCall, in whatever order the events came and the answers returned.
THEOREM EveryEventIsTried == DispatchSpec => []EventsAreTried
<1>1. ASSUME DispatchIInv, NEW o \in Order,
             order[o] # NoOrder, ~Outstanding(o), o \notin lost
      PROVE  /\ ConfirmKey(o) \in tried
             /\ Payment[o] = "cod" /\ o \notin BelowMinimum => CodKey(o) \in tried
             /\ order[o] # FirstStatus => UpdateKey(o, order[o]) \in tried
  <2>1. Remembered(o)
    BY <1>1 DEF DispatchIInv, EventsIInv, NothingForgotten
  <2>2. ~CreationAhead(o, "confirm") /\ ~CreationAhead(o, "cod")
    BY <1>1, CreatedIsEvent DEF Outstanding, CreationAhead
  <2>3. ~UpdateAhead(o)
    BY <1>1, CreatedIsEvent DEF Outstanding, UpdateAhead
  <2> QED BY <2>1, <2>2, <2>3 DEF Remembered
<1>2. DispatchIInv => EventsAreTried
  BY <1>1 DEF EventsAreTried
<1> QED BY <1>2, DispatchInductive, PTL
=============================================================================
