---------------------------- MODULE MCBlackMarket ----------------------------
(***************************************************************************)
(* Instances of BlackMarket for TLC.                                       *)
(***************************************************************************)
EXTENDS BlackMarket

CONSTANT Wood

MCSlots == {0, 1}
MCThreeSlots == {0, 1, 2}

Offer(k, n) == [kind |-> k, count |-> n]

\* Which kinds may be spent is up to the run.
MCOffers == {Offer(Food, 1), Offer(Wood, 1)}

MCNoReserve == [k \in Kinds |-> 0]
MCReserve == [k \in Kinds |-> 1]
MCFoodOnly == [k \in Kinds |-> IF k = Food THEN 1 ELSE 0]
MCOneEach == [k \in Kinds |-> 1]
MCStock == [k \in Kinds |-> 2]
==============================================================================
