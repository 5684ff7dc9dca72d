------------------------- MODULE MCResourceTransfer -------------------------
(***************************************************************************)
(* Instances of ResourceTransfer for TLC.                                  *)
(***************************************************************************)
EXTENDS ResourceTransfer, TLC

CONSTANTS p1, p2, none

MCPlayers == {p1, p2}
MCKinds == {"food"}
MCAsks == {0, 2, 3}
MCStock == [k \in MCKinds |-> 5]
MCNoReserve == [k \in MCKinds |-> 0]

Symmetry == Permutations(MCPlayers)
=============================================================================
