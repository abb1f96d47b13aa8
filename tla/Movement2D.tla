----------------------------- MODULE Movement2D -----------------------------
(***************************************************************************)
(* UnitAction::Move in the plane: initAction, calculateSpeed and process of *)
(* several units that go to points or after each other, one turn per unit   *)
(* and frame, with a clock that may be set back.  Coordinates are grid      *)
(* points, PixelSize of them to a pixel; a component of a diagonal step is  *)
(* truncated to the grid where the code rounds it to a float.               *)
(***************************************************************************)
EXTENDS Geometry

CONSTANTS
  NUnits,       \* how many units there are, in the order of the object list
  Home,         \* where each unit stands at first
  Speed,        \* getNetMovingSpeed of each unit
  Box,          \* width and height of each unit, in pixels
  Cell,         \* width and height of a cell of the terminal, in pixels (10, 20)
  Quarter,      \* angles told apart in a quarter of a turn
  Reach,        \* the distance at which a pursuer stops (radii included)
  Points,       \* the points the user clicks on
  PixelSize,    \* grid points per pixel
  Deltas,       \* lengths of a frame
  SetBack,      \* the length of a frame in which the clock is set back
  MaxSetBacks,  \* bound: how often that happens
  MaxMoves      \* bound: moves begun

Units == 1 .. NUnits
Place == [x: Int, y: Int]

ASSUME PlacesAssumption ==
  /\ NUnits \in Nat \ {0}
  /\ Home \in [Units -> Place] /\ Points \subseteq Place
  /\ Box \in [Units -> [x: Nat, y: Nat]]
ASSUME ScaleAssumption ==
  /\ Speed \in [Units -> Nat] /\ Reach \in Nat /\ PixelSize \in Nat \ {0}
  /\ Quarter \in Nat \ {0}
(* The cells are even; no object of an odd size is as large as some cells    *)
(* and a half.                                                               *)
ASSUME CellAssumption ==
  /\ Cell \in [x: Nat \ {0}, y: Nat \ {0}]
  /\ Cell.x % 2 = 0 /\ Cell.y % 2 = 0
  /\ \A u \in Units :
       /\ Box[u].x % 2 = 1 => (2 * Box[u].x + Cell.x) % (2 * Cell.x) # 0
       /\ Box[u].y % 2 = 1 => (2 * Box[u].y + Cell.y) % (2 * Cell.y) # 0
ASSUME FramesAssumption ==
  /\ Deltas \subseteq Nat /\ SetBack \in Int /\ SetBack <= 0
  /\ MaxSetBacks \in Nat /\ MaxMoves \in Nat

VARIABLES
  pos,       \* position of every unit
  move,      \* its Move action
  turn,      \* the unit whose processFrame runs, or 0 between two frames
  delta,     \* m_deltat
  setBacks,  \* for MaxSetBacks
  moves      \* for MaxMoves

vars == <<pos, move, turn, delta, setBacks, moves>>

(* The target is a unit or, for a coordinate, 0.                             *)
NoTarget == 0
Idle == [active |-> FALSE, target |-> NoTarget, start |-> [x |-> 0, y |-> 0],
         dest |-> [x |-> 0, y |-> 0]]

SamePixel(p, q) ==
  /\ Pixel(p.x, PixelSize) = Pixel(q.x, PixelSize)
  /\ Pixel(p.y, PixelSize) = Pixel(q.y, PixelSize)

Square(n) == n * n
SquaredDistance(p, q) == Square(q.x - p.x) + Square(q.y - p.y)

(* Object::checkMinDistance.                                                 *)
Reaches(p, q) == SquaredDistance(p, q) <= Square(Reach)

(* What initAction sets the angle of a unit that goes to a point to.         *)
Facing(m) == Angles(m.dest.x - m.start.x, m.dest.y - m.start.y, Quarter)

-----------------------------------------------------------------------------
(* Move::calculateSpeed.                                                     *)

(* Mutant: both components have the full speed.                              *)
FullPart(l, d, square) == l

(* l * d / sqrt(square), truncated towards zero, for 0 <= d, d^2 <= square   *)
(* and 0 < square.                                                           *)
Part(l, d, square) ==
  LET whole == Square(l) * Square(d)
      most  == CHOOSE c \in 0 .. Distance(0, l) :
                 Square(c) * square <= whole /\ whole < Square(c + 1) * square
  IN  IF l < 0 THEN -most ELSE most

(* The step of a unit at p whose speed allows the way l in this frame: along *)
(* the line to the destination, or along one axis when the other is done.    *)
Step(m, p, l) ==
  LET hx == Heading(m.start.x, m.dest.x, p.x)
      hy == Heading(m.start.y, m.dest.y, p.y)
      square == SquaredDistance(p, m.dest)
  IN  IF hx = 0 \/ hy = 0
      THEN [x |-> hx * l, y |-> hy * l]
      ELSE [x |-> hx * Part(l, Distance(p.x, m.dest.x), square),
            y |-> hy * Part(l, Distance(p.y, m.dest.y), square)]

-----------------------------------------------------------------------------
Init ==
  /\ pos = Home /\ move = [u \in Units |-> Idle]
  /\ turn = 0 /\ delta = 0 /\ setBacks = 0 /\ moves = 0

(* The next frame, with the length of the last iteration.                    *)
Tick ==
  /\ turn = 0
  /\ turn' = 1
  /\ delta' \in Deltas
  /\ UNCHANGED <<pos, move, setBacks, moves>>

TickBack ==
  /\ turn = 0 /\ setBacks < MaxSetBacks
  /\ turn' = 1
  /\ delta' = SetBack
  /\ setBacks' = setBacks + 1
  /\ UNCHANGED <<pos, move, moves>>

(* Mutant: the loop runs one past the last unit.                             *)
OneTooMany == turn' = IF turn \in Units THEN turn + 1 ELSE 0

NextTurn == turn' = IF turn + 1 \in Units THEN turn + 1 ELSE 0

(* Move::Move and Move::initAction, for an order that is processed in the    *)
(* unit's turn; the Move replaces one that is still on its way.              *)
Begin(target, dest) ==
  /\ turn \in Units /\ moves < MaxMoves
  /\ target # turn /\ Speed[turn] # 0 /\ ~SamePixel(pos[turn], dest)
  /\ move' = [move EXCEPT ![turn] =
       [active |-> TRUE, target |-> target, start |-> pos[turn],
        dest |-> dest]]
  /\ moves' = moves + 1
  /\ UNCHANGED <<pos, turn, delta, setBacks>>

GoTo == \E p \in Points : Begin(NoTarget, p)
Follow == \E u \in Units : Begin(u, pos[u])

(* Move::process: a pursuer that has reached its target stops, without a     *)
(* step.                                                                     *)
Catch ==
  /\ turn \in Units /\ move[turn].active /\ move[turn].target # NoTarget
  /\ Reaches(pos[turn], pos[move[turn].target])
  /\ move' = [move EXCEPT ![turn] = Idle]
  /\ NextTurn
  /\ UNCHANGED <<pos, delta, setBacks, moves>>

(* Mutant: the test of arrival compares the positions.                       *)
OnTheSpot(start, dest, new) == new = dest

(* Mutant: an axis along which there was no way to go never arrives.         *)
StrictlyArrives(start, dest, new) ==
  \/ start > dest /\ new <= dest
  \/ start < dest /\ new >= dest

(* The test of Move::process, on one axis: at the destination or beyond it.  *)
Finishes(start, dest, new) == Arrives(start, dest, new)

Walk ==
  /\ turn \in Units /\ move[turn].active
  /\ move[turn].target # NoTarget =>
       ~Reaches(pos[turn], pos[move[turn].target])
  /\ LET chase == move[turn].target # NoTarget
         m     == [move[turn] EXCEPT !.dest =
                     IF chase THEN pos[move[turn].target] ELSE @]
         p     == pos[turn]
         step  == Step(m, p, Speed[turn] * delta)
         atX   == Finishes(m.start.x, m.dest.x, p.x + step.x)
         atY   == Finishes(m.start.y, m.dest.y, p.y + step.y)
     IN  /\ pos' = [pos EXCEPT ![turn] =
              [x |-> IF atX THEN m.dest.x ELSE p.x + step.x,
               y |-> IF atY THEN m.dest.y ELSE p.y + step.y]]
         /\ move' = [move EXCEPT ![turn] = IF atX /\ atY THEN Idle ELSE m]
  /\ NextTurn
  /\ UNCHANGED <<delta, setBacks, moves>>

Rest ==
  /\ turn \in Units /\ ~move[turn].active
  /\ NextTurn
  /\ UNCHANGED <<pos, move, delta, setBacks, moves>>

Frame == Tick \/ Catch \/ Walk \/ Rest
Next == Frame \/ TickBack \/ GoTo \/ Follow

(* The loop goes on; nobody need click, and the clock need not be set back.  *)
Spec == Init /\ [][Next]_vars /\ WF_vars(Frame)

-----------------------------------------------------------------------------
(* Correctness.                                                              *)

Moving == [active: BOOLEAN, target: Units \cup {NoTarget},
           start: Place, dest: Place]

(* The values the variables can take.                                        *)
TypeOK ==
  /\ pos \in [Units -> Place] /\ move \in [Units -> Moving]
  /\ turn \in Units \cup {0} /\ delta \in Int
  /\ setBacks \in Nat /\ moves \in Nat

(* A unit that goes to a point never passes it, on either axis, however long *)
(* the frames are and whether or not the clock was set back under way.       *)
NeverPast ==
  \A u \in Units :
    LET m == move[u]
    IN  m.active /\ m.target = NoTarget =>
          /\ (m.dest.x - m.start.x) * (m.dest.x - pos[u].x) >= 0
          /\ (m.dest.y - m.start.y) * (m.dest.y - pos[u].y) >= 0

(* The way u may go in the current frame.                                    *)
WithinSpeed(u) ==
  SquaredDistance(pos[u], pos'[u]) <= Square(Speed[u] * delta)

(* On its way to a point a unit is never faster than its speed, neither on   *)
(* the diagonal nor when one axis is finished before the other nor at the    *)
(* end.                                                                      *)
StraightIsInTime ==
  [][\A u \in Units : move[u].target = NoTarget => WithinSpeed(u)]_vars

(* There are 34 rows of images, each for a direction, clockwise from "up";   *)
(* any other "cannot happen".  The row shows what goes right or left, up or  *)
(* down as looking there, to within an image on the axes.                    *)
Shows(row, dx, dy) ==
  /\ row \in 0 .. 33
  /\ dx > 0 => row <= 17
  /\ dx < 0 => row = 0 \/ row >= 17
  /\ dy > 0 => 8 <= row /\ row <= 25
  /\ dy < 0 => row <= 8 \/ row >= 25

(* On its way to a point a unit's image looks where the unit really goes, in *)
(* every frame, the last one included, unless the clock was set back.        *)
LooksAhead ==
  [][\A u \in Units :
       move[u].active /\ move[u].target = NoTarget /\ delta >= 0 =>
         \A a \in Facing(move[u]) :
           Shows(Row(a, Quarter),
                 pos'[u].x - pos[u].x, pos'[u].y - pos[u].y)]_vars

(* Object.h, on getNetMovingSpeed: "Calculates total moving speed of the     *)
(* object": no unit, a pursuer included, is faster.                          *)
SpeedLimit == [][\A u \in Units : WithinSpeed(u)]_vars

(* Every Move comes to an end once nobody clicks any more, the one after a   *)
(* unit that moved meanwhile included.                                       *)
MovesEnd == \A u \in Units : move[u].active ~> ~move[u].active

(* Wherever the units are, the rectangle between two corners picks exactly   *)
(* those whose box has a pixel in it, from whichever corner it was drawn.    *)
Between(a, b, n) == (a <= n /\ n <= b) \/ (b <= n /\ n <= a)

SharesPixel(a, b, c, w) ==
  \E n \in Pixel(c, PixelSize) - w \div 2 .. Pixel(c, PixelSize) + w \div 2 :
    Between(Pixel(a, PixelSize), Pixel(b, PixelSize), n)

PicksWhatItCovers ==
  \A u \in Units, p, q \in Points :
    InsideRect(p, q, pos[u], Box[u], PixelSize)
      <=> /\ SharesPixel(p.x, q.x, pos[u].x, Box[u].x)
          /\ SharesPixel(p.y, q.y, pos[u].y, Box[u].y)

(* GameUI_ncurses draws an object in cells it rounds to, and Enter picks with *)
(* the pixels of a cell: with the cursor on any cell that shows an object    *)
(* Enter picks that object, wherever it has moved to.                        *)
CellStart(i, j) ==
  [x |-> FirstOfCell(i, Cell.x) * PixelSize,
   y |-> FirstOfCell(j, Cell.y) * PixelSize]
CellEnd(i, j) ==
  [x |-> LastOfCell(i, Cell.x) * PixelSize,
   y |-> LastOfCell(j, Cell.y) * PixelSize]

PicksWhatIsDrawn ==
  \A u \in Units :
    \A i \in Shown(Pixel(pos[u].x, PixelSize), Box[u].x, Cell.x),
       j \in Shown(Pixel(pos[u].y, PixelSize), Box[u].y, Cell.y) :
      InsideRect(CellStart(i, j), CellEnd(i, j), pos[u], Box[u], PixelSize)

=============================================================================
