--------------------------- MODULE MCLeadCallback ---------------------------
(***************************************************************************)
(* Instances of LeadCallback: a customer with a phone and one without, a    *)
(* dashboard of two rows.                                                   *)
(***************************************************************************)
EXTENDS LeadCallback, TLC

CONSTANTS phoned, silent, t1, t2

Tasks == Permutations({t1, t2})
=============================================================================
