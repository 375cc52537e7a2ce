------------------------- MODULE MCResultWriteBack -------------------------
(***************************************************************************)
(* Instances of ResultWriteBack: a COD call and a status call about one     *)
(* order, and a cart call.  The customer of the COD call confirms; the      *)
(* delivery of call.ended carries no analysis yet.                          *)
(***************************************************************************)
EXTENDS ResultWriteBack, TLC

CONSTANTS codCall, statusCall, cartCall, o1, o2, t1, t2

MCOrderOf == codCall :> o1 @@ statusCall :> o1 @@ cartCall :> o2
MCAutomation == codCall :> "cod" @@ statusCall :> "order" @@ cartCall :> "cart"

Heard(label, summary) ==
  [e \in Event |-> IF e = "call.analyzed"
                     THEN [label |-> label, summary |-> summary]
                     ELSE [label |-> {}, summary |-> {}]]

\* A customer who confirms, though the summary speaks of cancelling; two whose
\* calls decide nothing.
MCAnalysis == codCall :> Heard({"confirm"}, {"cancel"})
              @@ statusCall :> Heard({}, {"cancel"}) @@ cartCall :> Heard({}, {})

Faultless == [faults |-> {}, overlap |-> FALSE, late |-> TRUE]
Overlapping == [faults |-> {}, overlap |-> TRUE, late |-> FALSE]
Failing == [faults |-> {"writeFails", "crash"}, overlap |-> FALSE, late |-> FALSE]
Everything == [faults |-> {"readFails", "writeFails", "crash"}, overlap |-> TRUE,
               late |-> FALSE]

AllRegimes == {Faultless, Failing, Everything}
OverlapOnly == {Overlapping}

CodOnly(f) == codCall :> f[codCall]
CodOrderOf == CodOnly(MCOrderOf)
CodAutomation == CodOnly(MCAutomation)
CodAnalysis == CodOnly(MCAnalysis)

Tasks == Permutations({t1, t2})
=============================================================================
