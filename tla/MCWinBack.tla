----------------------------- MODULE MCWinBack -----------------------------
(***************************************************************************)
(* Instances of WinBack: a page of one customer for two sweeps, or of two    *)
(* customers for one, one of whom Telenow refuses to call.                  *)
(***************************************************************************)
EXTENDS WinBack, TLC

CONSTANTS ann, bob, s1, s2

AnnFirst == <<ann, bob>>
AnnAlone == <<ann>>
BobFirst == <<bob, ann>>

\* All of them lapsed before the first sweep, whatever winBackDays is.
LongAgo == [c \in Customer |-> -6]

Sweeps == Permutations({s1, s2})
=============================================================================
