---------------------------- MODULE MCBcWebhooks ----------------------------
(***************************************************************************)
(* Instances of BcWebhooks: a store with two scopes.                        *)
(***************************************************************************)
EXTENDS BcWebhooks, TLC

CONSTANTS orders, carts, t1, t2

TwoScopes == <<orders, carts>>
=============================================================================
