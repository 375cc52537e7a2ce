--------------------------- MODULE MCTelenowHooks ---------------------------
(***************************************************************************)
(* Instances of TelenowHooks: two stores with accounts of their own, a store *)
(* whose merchant has two accounts, and two stores of one merchant.          *)
(***************************************************************************)
EXTENDS TelenowHooks, TLC

CONSTANTS shop1, shop2, key1, key2, key3, t1, t2

OwnKeys == shop1 :> {key1, key2} @@ shop2 :> {key3}
OneKey == shop1 :> {key1} @@ shop2 :> {key3}
TwoKeys == shop1 :> {key1, key2}
SharedKey == shop1 :> {key1} @@ shop2 :> {key1}

=============================================================================
