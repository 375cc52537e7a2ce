---------------------------- MODULE MCPlaceCall ----------------------------
(***************************************************************************)
(* A small instance of PlaceCall: a cart (its calls are prechecked),         *)
(* configurations that differ in one point from the usual one, and a day of *)
(* four minutes of which the quiet window takes one or two.                 *)
(***************************************************************************)
EXTENDS PlaceCall, TLC

CONSTANTS cart1, abandonedCart, j1, j2

CartOnly == {abandonedCart}
CartKeyOnly == cart1 :> abandonedCart

\* A day of two hours of two minutes; a window that wraps midnight.
Never == [enabled |-> FALSE, start |-> <<1, 1>>, end |-> <<0, 1>>]
Night == [enabled |-> TRUE, start |-> <<1, 1>>, end |-> <<0, 1>>]

Config(d, w) == [enabled |-> TRUE, agent |-> TRUE, delay |-> d, quietHours |-> w]

MCDefaultCfg == [enabled |-> FALSE, agent |-> FALSE, delay |-> 0,
                 quietHours |-> Never]

\* A delay or none, with and without a quiet window; delays near the TTL and
\* beyond the longest that setTimeout knows.
FewCfgChoices == {MCDefaultCfg, Config(0, Never), Config(1, Night)}
LongCfgChoices == {MCDefaultCfg, Config(0, Never), Config(3, Night)}
LongestCfgChoices == {MCDefaultCfg, Config(5, Never)}
=============================================================================
