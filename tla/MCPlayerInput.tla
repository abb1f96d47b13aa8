--------------------------- MODULE MCPlayerInput ---------------------------
(***************************************************************************)
(* Four objects for PlayerInput: a unit and a building of each side.       *)
(***************************************************************************)
EXTENDS PlayerInput

BothUnits == {1, 2}
OwnOnes == {1, 3}
FirstOne == {1}

=============================================================================
