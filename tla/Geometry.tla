------------------------------ MODULE Geometry ------------------------------
(***************************************************************************)
(* Rectangles on the map: Coordinate::normalizeTopLeftCoordinate and        *)
(* Object::insideRect, by which a selection and a click find their objects, *)
(* the cells of the terminal that show an object, and the row of images that *)
(* shows its angle.  Coordinates are grid points, `size' of them to a pixel; *)
(* rectangles are in whole pixels.                                           *)
(***************************************************************************)
EXTENDS Movement

(* normalizeTopLeftCoordinate compares whole pixels; corners that are out of *)
(* order come back truncated, the others as they were.                       *)
Normalized(a, b, size) ==
  IF Pixel(a, size) > Pixel(b, size)
  THEN <<Pixel(b, size) * size, Pixel(a, size) * size>>
  ELSE <<a, b>>

(* Mutant: only an edge of the object, never a point between, is looked for. *)
EdgeInside(lo, hi, objLo, objHi) ==
  \/ lo <= objLo /\ objLo <= hi
  \/ lo <= objHi /\ objHi <= hi

(* One axis of insideRect: the object lies within the rectangle, or one of   *)
(* the rectangle's edges lies within the object.                             *)
Overlaps(lo, hi, objLo, objHi) ==
  \/ lo <= objLo /\ objHi <= hi
  \/ objLo <= lo /\ lo <= objHi
  \/ objLo <= hi /\ hi <= objHi

(* One axis of Object::insideRect(Coordinate, Coordinate): corners a and b,   *)
(* an object with its centre at c that is w pixels wide; / truncates.        *)
Spans(a, b, c, w, size) ==
  LET ab == Normalized(a, b, size)
  IN  Overlaps(Pixel(ab[1], size), Pixel(ab[2], size),
               Pixel(c, size) - w \div 2, Pixel(c, size) + w \div 2)

InsideRect(p, q, centre, box, size) ==
  /\ Spans(p.x, q.x, centre.x, box.x, size)
  /\ Spans(p.y, q.y, centre.y, box.y, size)

(* roundf(n / cell): to the nearest whole number, halves away from zero.     *)
Rounded(n, cell) ==
  IF n >= 0 THEN (2 * n + cell) \div (2 * cell)
  ELSE -((cell - 2 * n) \div (2 * cell))

(* Mutant: the image starts at the object's centre.                          *)
ShownFromCentre(c, w, cell) ==
  Rounded(c, cell) .. Rounded(c, cell) + Rounded(w, cell) - 1

(* GameUI_ncurses::drawObject, on one axis: the cells of the terminal that    *)
(* show an object with its centre at pixel c that is w pixels wide, whose    *)
(* image fills the size it is drawn in.                                      *)
Shown(c, w, cell) ==
  LET first == Rounded(c - w \div 2, cell)
  IN  first .. first + Rounded(w, cell) - 1

(* The pixels that Enter picks with the cursor in cell k.                    *)
FirstOfCell(k, cell) == k * cell
LastOfCell(k, cell) == k * cell + (cell - 1)

(* Coordinate::calculateAngle of the way (dx, dy), which goes right and down *)
(* the screen, in parts of a quarter turn from "right" counterclockwise:     *)
(* exact along the axes; for others any angle of their quarter, both ends    *)
(* included, as floats may be rounded there.                                 *)
Angles(dx, dy, quarter) ==
  IF dx >= 0 /\ dy = 0 THEN {0}
  ELSE {a \in 0 .. 4 * quarter :
          /\ dx >= 0 => a <= quarter \/ a >= 3 * quarter
          /\ dx <= 0 => quarter <= a /\ a <= 3 * quarter
          /\ dy >= 0 => a >= 2 * quarter
          /\ dy <= 0 => a <= 2 * quarter}

(* Mutant: the error of the flip is not corrected.                           *)
Uncorrected(angle, quarter) == ((5 * quarter - angle) * 17) \div (2 * quarter)

(* convertAngleToDirection.                                                  *)
Direction(angle, quarter) ==
  LET flipped == 4 * quarter - (angle - quarter)
      angle2  == IF flipped > 4 * quarter THEN flipped - 4 * quarter
                 ELSE flipped
  IN  (angle2 * 17) \div (2 * quarter)

(* The row of images calculate_unit_framenum takes: 34, the full turn, is 0. *)
Row(angle, quarter) ==
  IF Direction(angle, quarter) = 34 THEN 0 ELSE Direction(angle, quarter)

=============================================================================
