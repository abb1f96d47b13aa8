---------------------------- MODULE MCMovement2D ----------------------------
(***************************************************************************)
(* A small field for Movement2D: two units, one of them faster.            *)
(***************************************************************************)
EXTENDS Movement2D

At(a, b) == [x |-> a, y |-> b]

TwoHomes == <<At(0, 0), At(9, 1)>>
TwoSpeeds == <<3, 2>>
TwoBoxes == <<At(3, 2), At(1, 4)>>

(* Cells of the terminal, in which neither unit is a cell and a half large.  *)
Cells == At(4, 2)

(* A point on the way, a distant one, and one beyond the map's border.       *)
Clicks == {At(0, 9), At(9, 1), At(-4, 3)}

(* The clock set back by the length of a short frame.                        *)
BackOne == -1

=============================================================================
