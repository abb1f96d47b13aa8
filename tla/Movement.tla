------------------------------ MODULE Movement ------------------------------
(***************************************************************************)
(* The arithmetic of UnitAction::Move and Object::checkMinDistance on one  *)
(* axis.  Coordinates are integers: the floats of the code scaled to a     *)
(* grid.  All objects lie on one horizontal line, so the vertical axis of  *)
(* the code is always at its destination (starty = desty = newy) and a     *)
(* movement is finished exactly when its horizontal axis is.               *)
(***************************************************************************)
EXTENDS Integers

Distance(x, y) == IF x <= y THEN y - x ELSE x - y

(* Object::checkMinDistance: the objects are circles, `reach' is the sum of *)
(* both radii and of the distance asked for.                                *)
Within(x, y, reach) == Distance(x, y) <= reach

(* (int) applied to a float coordinate: truncation towards zero.            *)
Pixel(x, size) == IF x >= 0 THEN x \div size ELSE -((-x) \div size)

(* Move::calculateSpeed: the axis is finished when the whole way (from the  *)
(* start point) and the rest of the way (from the current position) have    *)
(* opposite signs or one of them is zero.                                   *)
Heading(start, dest, x) ==
  CASE (dest - start) * (dest - x) <= 0 -> 0
    [] (dest - start) * (dest - x) > 0 /\ dest < x -> -1
    [] OTHER -> 1

Stride(start, dest, x, speed, delta) == Heading(start, dest, x) * speed * delta

(* The arrival test of Move::process, against the start point of the move.  *)
Arrives(start, dest, newx) ==
  \/ start >= dest /\ newx <= dest
  \/ start <= dest /\ newx >= dest

=============================================================================
