---------------------------- MODULE MCSettings ----------------------------
(* Two pages of one store, over settings of three ages. *)
EXTENDS Settings, TLC

CONSTANTS t1, t2

MCDefaultDelay == [a \in Automation |-> IF a = "codConfirmation" THEN 1 ELSE 0]

\* Nothing yet; a version with one automation fewer and no filters; everything.
MCOldSettings ==
  {<<>>,
   [key |-> "k1",
    automations |-> [a \in {"codConfirmation"} |->
      [enabled |-> TRUE, agentId |-> "uuid",
       quietHours |-> [enabled |-> FALSE, window |-> "own"]]]],
   [key |-> "k1", winBackDays |-> 30,
    automations |-> [a \in Automation |->
      [enabled |-> TRUE, agentId |-> "uuid", delayMinutes |-> 0,
       quietHours |-> [enabled |-> TRUE, window |-> "own"],
       filters |-> "own"]]]}

\* Also a negative number, which the field lets through.
MCDelay == {-1, 0, 1}

Tabs == Permutations({t1, t2})
=============================================================================
