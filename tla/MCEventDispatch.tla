-------------------------- MODULE MCEventDispatch --------------------------
(***************************************************************************)
(* An instance of EventDispatch: a COD order and a cart of one customer,    *)
(* two statuses, and automations that call at once, later, or not at all.   *)
(***************************************************************************)
EXTENDS EventDispatch, TLC

CONSTANTS o1, c1, j1, j2, s1, s2

MCAutomation == {"orderConfirmation", "codConfirmation", "orderUpdates",
                 "abandonedCart"}
CartOnly == {"abandonedCart"}
MCSlug == "Pending" :> "pending" @@ "Shipped" :> "shipped"
MCKey == {ConfirmKey(o1), CodKey(o1), UpdateKey(o1, "Pending"),
          UpdateKey(o1, "Shipped"), CartKey(c1)}
MCAutomationOf == [k \in MCKey |-> k[1]]
CashOnDelivery == o1 :> "cod"
Manual == o1 :> "manual"

Never == [enabled |-> FALSE, start |-> <<0, 0>>, end |-> <<0, 0>>]

Config(d) == [enabled |-> TRUE, agent |-> TRUE, delay |-> d, quietHours |-> Never]

MCDefaultCfg == [enabled |-> FALSE, agent |-> FALSE, delay |-> 0,
                 quietHours |-> Never]

MCCfgChoices == {MCDefaultCfg, Config(0), Config(1)}

\* Orders are called at once and carts after a delay, until settings are saved.
MCInit == /\ DispatchInit
          /\ db.cfg = [a \in MCAutomation |-> Config(IF a \in CartOnly THEN 1 ELSE 0)]

MCSpec == MCInit /\ [][DispatchNext]_allVars

Slots == Permutations({j1, j2}) \cup Permutations({s1, s2})
=============================================================================
