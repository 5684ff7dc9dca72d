----------------------------- MODULE MCProtection -----------------------------
(***************************************************************************)
(* Instances of Protection for TLC: two shields, one of them the 14 day    *)
(* one where a run is about it.                                            *)
(***************************************************************************)
EXTENDS Protection

CONSTANT Short

MCList(attack, scout, list) ==
  [enabled |-> TRUE, shield_on_incoming_attack |-> attack,
   shield_on_incoming_scout |-> scout, shield_priority |-> list]

MCSettings ==
  {MCList(TRUE, TRUE, <<Short, SHIELD_14D>>),
   MCList(TRUE, FALSE, <<SHIELD_14D, Short>>),
   [MCList(TRUE, TRUE, <<Short>>) EXCEPT !.enabled = FALSE]}

MCAlerts == {MCList(TRUE, TRUE, <<Short>>)}

MCBag == [s \in Shields |-> 1]
MCDuration == [s \in Shields |-> IF s = Short THEN 1 ELSE 2]
MCForever == [s \in Shields |-> 10]

MCNone == {0}
MCMaybe == {0, 3}
===============================================================================
