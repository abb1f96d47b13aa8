------------------------------ MODULE Viewport ------------------------------
(***************************************************************************)
(* The part of the map that GameUI_SDL shows: processFrame, which moves it  *)
(* with the arrow keys and at the edges of the screen and maps the pointer  *)
(* to the map, and the draws of Game::run in between.  One axis; the other  *)
(* one has a position of its own and the same code.  Positions on the map   *)
(* are grid points, PixelSize of them to a pixel; on the screen pixels.     *)
(***************************************************************************)
EXTENDS Geometry

CONSTANTS
  View,         \* extent of the screen (640, 480)
  Border,       \* greatest position of the view, in pixels (640, 480)
  KeyStep,      \* pixels an arrow key moves it (10)
  Margin,       \* pixels of the edge where the pointer scrolls (5)
  Rate,         \* grid points scrolled per unit of time (200 pixels a second)
  PixelSize,    \* grid points per pixel
  Spots,        \* where on the screen the pointer may be
  Deltas,       \* lengths of a frame
  SetBack,      \* the length of a frame in which the clock is set back
  MaxSetBacks,  \* bound: how often that happens
  MaxEvents,    \* events handled in one frame (1000)
  Far           \* bound: where the distance below stops counting

ASSUME ScreenAssumption ==
  /\ View \in Nat /\ Border \in Nat /\ KeyStep \in Nat /\ Margin \in Nat
  /\ Rate \in Nat /\ PixelSize \in Nat \ {0} /\ Far \in Nat
  /\ Spots \subseteq 0 .. View - 1 /\ 0 \in Spots
ASSUME TimeAssumption ==
  /\ Deltas \subseteq Nat /\ SetBack \in Int /\ SetBack <= 0
  /\ MaxSetBacks \in Nat /\ MaxEvents \in Nat \ {0}

VARIABLES
  pc,         \* what runs next: "events", "draw" or "wait"
  left,       \* m_gamescr_left_pos (m_gamescr_top_pos)
  mouse,      \* m_mouse_pos, on the screen
  mark,       \* m_mouse_pos_in_gamescr, the point the player is given
  events,     \* events handled in this frame
  delta,      \* m_deltat
  setBacks,   \* for MaxSetBacks
  shown,      \* history: the position of the view when it was last drawn
  sinceDrawn  \* history: how far the user has moved it since then

view == <<left, shown, sinceDrawn>>
pointer == <<mouse, mark>>
clock == <<delta, setBacks>>
vars == <<pc, events, view, pointer, clock>>

Edge == Border * PixelSize

(* The pixel of the map under a spot of the screen.                          *)
OnMap(s) == Pixel(left + s * PixelSize, PixelSize)

(* The distances moved add up, no further than to Far.                       *)
Plus(distance, n) ==
  LET sum == distance + Distance(0, n) IN IF sum > Far THEN Far ELSE sum

-----------------------------------------------------------------------------
Init ==
  /\ pc = "events" /\ events = 0 /\ delta \in Deltas /\ setBacks = 0
  /\ left = 0 /\ shown = 0 /\ sinceDrawn = 0
  /\ mouse = 0 /\ mark = 0

(* Mutant: one event more than the frame's share.                            *)
OneEventMore ==
  /\ pc = "events" /\ events <= MaxEvents
  /\ events' = events + 1
  /\ UNCHANGED <<pc, clock>>

(* One turn of the loop of processFrame.                                     *)
Event ==
  /\ pc = "events" /\ events < MaxEvents
  /\ events' = events + 1
  /\ UNCHANGED <<pc, clock>>

(* SDL_KEYDOWN with an arrow key; the borders are not looked at.             *)
ArrowKey ==
  /\ Event
  /\ \E way \in {-1, 1} : left' = left + way * KeyStep * PixelSize
  /\ sinceDrawn' = Plus(sinceDrawn, KeyStep * PixelSize)
  /\ UNCHANGED <<shown, pointer>>

(* What every event of the mouse at s does.                                  *)
AimAt(s) ==
  /\ Event
  /\ mark' = OnMap(s)
  /\ UNCHANGED view

(* SDL_MOUSEMOTION.                                                          *)
Motion == \E s \in Spots : AimAt(s) /\ mouse' = s

(* SDL_MOUSEBUTTONDOWN and SDL_MOUSEBUTTONUP; what they select and order is  *)
(* in PlayerInput.                                                           *)
Button == \E s \in Spots : AimAt(s) /\ UNCHANGED mouse

AtEdge(s) == IF s < Margin THEN -1 ELSE IF s > View - Margin THEN 1 ELSE 0

(* Mutant: the view jumps to the other side.                                 *)
Wrapped(p) == IF p < 0 \/ p > Edge THEN 0 ELSE p

(* Mutant: the left border is not looked at.                                 *)
Unbounded(p) == IF p > Edge THEN Edge ELSE p

(* Mutant: the right border is that of the map.                              *)
PastTheMap(p) ==
  LET end == Edge + View * PixelSize
  IN  IF p < 0 THEN 0 ELSE IF p > end THEN end ELSE p

(* Mutant: the position is kept in whole pixels.                             *)
InPixels(p) ==
  IF p < 0 THEN 0
  ELSE IF p > Edge THEN Edge ELSE Pixel(p, PixelSize) * PixelSize

Bounded(p) == IF p < 0 THEN 0 ELSE IF p > Edge THEN Edge ELSE p

(* After the last event, or when the frame's share of them is used up: the   *)
(* pointer at an edge moves the view, which is put back within the borders.  *)
Scroll ==
  LET way == AtEdge(mouse) * Rate * delta
  IN  /\ pc = "events"
      /\ pc' = "draw"
      /\ left' = Bounded(left + way)
      /\ sinceDrawn' = Plus(sinceDrawn, way)
      /\ UNCHANGED <<events, shown, pointer, clock>>

(* Game::run draws, or it is not yet time to.                                *)
Draw ==
  /\ pc = "draw"
  /\ pc' = "wait"
  /\ shown' = left /\ sinceDrawn' = 0
  /\ UNCHANGED <<left, events, pointer, clock>>

SkipDraw ==
  /\ pc = "draw"
  /\ pc' = "wait"
  /\ UNCHANGED <<events, view, pointer, clock>>

(* The end of the iteration, after which the objects have their frame.       *)
Wait ==
  /\ pc = "wait"
  /\ pc' = "events" /\ events' = 0
  /\ UNCHANGED <<view, pointer>>

Tick == Wait /\ delta' \in Deltas /\ UNCHANGED setBacks

TickBack ==
  /\ Wait /\ setBacks < MaxSetBacks
  /\ delta' = SetBack /\ setBacks' = setBacks + 1

Loop == Scroll \/ Draw \/ SkipDraw \/ Tick
Next == Loop \/ TickBack \/ ArrowKey \/ Motion \/ Button

(* The loop goes on; the user need not do anything.                          *)
Spec == Init /\ [][Next]_vars /\ WF_vars(Loop)

-----------------------------------------------------------------------------
(* Correctness.                                                              *)

(* The values the variables can take.                                        *)
TypeOK ==
  /\ pc \in {"events", "draw", "wait"} /\ events \in 0 .. MaxEvents
  /\ left \in Int /\ shown \in Int /\ sinceDrawn \in Nat
  /\ mouse \in Spots /\ mark \in Int
  /\ delta \in Int /\ setBacks \in Nat

(* However far keys and edges have moved the view, a clock set back included, *)
(* the screen shows nothing but the map.                                     *)
ShowsTheMap == 0 <= shown /\ shown <= Edge

(* A click happens where the user sees it, but for what the user has moved   *)
(* the view since the screen was drawn, in this frame or in others that were *)
(* not drawn: putting the view back within the borders adds nothing to it.   *)
ClicksWhereItLooks ==
  \A s \in Spots :
    sinceDrawn < Far =>
      Distance(OnMap(s) * PixelSize, shown + s * PixelSize)
        < sinceDrawn + PixelSize

(* Arrow keys move the view past the borders until the end of the frame:     *)
(* the points that reach the game are off the map by no more than the other  *)
(* events of one frame, and the excess never adds up over frames.            *)
MarkNearTheMap ==
  LET excess == KeyStep * (MaxEvents - 1)
  IN  -excess <= mark /\ mark < Border + View + excess

(* A pointer that rests at an edge gets the view to the border, however short *)
(* the frames are, if no arrow key interferes.                               *)
RestsAtEdge(way) == <>[](AtEdge(mouse) = way) /\ <>[][~ArrowKey]_vars

EdgeIsReached ==
  /\ RestsAtEdge(1) => <>[](left = Edge)
  /\ RestsAtEdge(-1) => <>[](left = 0)

=============================================================================
