--------------------------- MODULE ViewportProofs ---------------------------
(***************************************************************************)
(* Theorems about Viewport: for a screen, a map and steps of any size,      *)
(* frames of any length and clocks set back by any time.                    *)
(***************************************************************************)
EXTENDS Viewport, TLAPS

USE ScreenAssumption, TimeAssumption

-----------------------------------------------------------------------------
(* Whole numbers.                                                           *)

LEMMA TimesGrows ==
  ASSUME NEW m \in Int, NEW n \in Int, NEW k \in Nat, m <= n
  PROVE  m * k <= n * k /\ m * k \in Int /\ n * k \in Int
OBVIOUS

LEMMA DivBounds ==
  ASSUME NEW n \in Nat, NEW k \in Nat \ {0}
  PROVE  /\ n \div k \in Nat
         /\ (n \div k) * k <= n /\ n < (n \div k) * k + k
OBVIOUS

(* Truncation moves a coordinate by less than a pixel.                      *)
LEMMA PixelNear ==
  ASSUME NEW n \in Int
  PROVE  /\ Pixel(n, PixelSize) \in Int /\ Pixel(n, PixelSize) * PixelSize \in Int
         /\ n >= 0 => /\ Pixel(n, PixelSize) * PixelSize <= n
                      /\ n < Pixel(n, PixelSize) * PixelSize + PixelSize
         /\ n < 0 => /\ n <= Pixel(n, PixelSize) * PixelSize
                     /\ Pixel(n, PixelSize) * PixelSize - PixelSize < n
<1>1. CASE n >= 0
  <2>1. /\ n \div PixelSize \in Nat
        /\ (n \div PixelSize) * PixelSize <= n
        /\ n < (n \div PixelSize) * PixelSize + PixelSize
    BY <1>1, DivBounds
  <2>2. Pixel(n, PixelSize) = n \div PixelSize
    BY <1>1 DEF Pixel
  <2>. QED
    BY <1>1, <2>1, <2>2
<1>2. CASE n < 0
  <2>. DEFINE q == (-n) \div PixelSize
  <2>1. q \in Nat /\ q * PixelSize <= -n /\ -n < q * PixelSize + PixelSize
    BY <1>2, DivBounds
  <2>2. Pixel(n, PixelSize) = -q
    BY <1>2 DEF Pixel
  <2>. HIDE DEF q
  <2>3. (-q) * PixelSize = -(q * PixelSize) /\ q * PixelSize \in Int
    BY <2>1
  <2>. QED
    BY <1>2, <2>1, <2>2, <2>3
<1>. QED
  BY <1>1, <1>2

(* It moves none out of a range of whole pixels.                            *)
LEMMA PixelBetween ==
  ASSUME NEW n \in Int, NEW lo \in Int, NEW hi \in Int,
         lo * PixelSize <= n, n <= hi * PixelSize
  PROVE  lo <= Pixel(n, PixelSize) /\ Pixel(n, PixelSize) <= hi
<1>. DEFINE p == Pixel(n, PixelSize)
<1>1. /\ p \in Int /\ p * PixelSize \in Int
      /\ p * PixelSize - PixelSize < n /\ n < p * PixelSize + PixelSize
      /\ n >= 0 => p * PixelSize <= n
      /\ n < 0 => n <= p * PixelSize
  BY PixelNear
<1>. HIDE DEF p
<1>2. /\ (p - 1) * PixelSize = p * PixelSize - PixelSize
      /\ (p + 1) * PixelSize = p * PixelSize + PixelSize
  BY <1>1
<1>3. lo <= p
  <2>. SUFFICES ASSUME p + 1 <= lo PROVE FALSE
    BY <1>1
  <2>1. (p + 1) * PixelSize <= lo * PixelSize /\ lo * PixelSize \in Int
    BY <1>1, TimesGrows
  <2>. QED
    BY <1>1, <1>2, <2>1
<1>4. p <= hi
  <2>. SUFFICES ASSUME hi <= p - 1 PROVE FALSE
    BY <1>1
  <2>1. hi * PixelSize <= (p - 1) * PixelSize /\ hi * PixelSize \in Int
    BY <1>1, TimesGrows
  <2>. QED
    BY <1>1, <1>2, <2>1
<1>. QED
  BY <1>3, <1>4 DEF p

-----------------------------------------------------------------------------
(* The inductive invariant.  Within a frame the view may be past the borders *)
(* by as much as its arrow keys can do, after it never; and it is no farther *)
(* from where it was drawn than the user has moved it.                      *)

Excess(n) == (KeyStep * n) * PixelSize

WithinReach ==
  /\ -Excess(events) <= left /\ left <= Edge + Excess(events)
  /\ pc # "events" => 0 <= left /\ left <= Edge

NearShown == sinceDrawn < Far => Distance(left, shown) <= sinceDrawn

ViewInv == TypeOK /\ WithinReach /\ ShowsTheMap /\ NearShown /\ MarkNearTheMap

LEMMA Numbers ==
  /\ Edge \in Nat
  /\ \A n \in Nat : /\ Excess(n) \in Nat
                    /\ Excess(n + 1) = Excess(n) + KeyStep * PixelSize
  /\ Excess(0) = 0 /\ KeyStep * PixelSize \in Nat
<1>1. ASSUME NEW n \in Nat
      PROVE  /\ Excess(n) \in Nat
             /\ Excess(n + 1) = Excess(n) + KeyStep * PixelSize
  <2>1. KeyStep * (n + 1) = KeyStep * n + KeyStep /\ KeyStep * n \in Nat
    OBVIOUS
  <2>2. (KeyStep * n + KeyStep) * PixelSize
          = (KeyStep * n) * PixelSize + KeyStep * PixelSize
    BY <2>1
  <2>. QED
    BY <2>1, <2>2 DEF Excess
<1>2. Edge \in Nat /\ Excess(0) = 0 /\ KeyStep * PixelSize \in Nat
  BY DEF Edge, Excess
<1>. QED
  BY <1>1, <1>2

(* The distances moved are added up as long as they count.                  *)
LEMMA PlusCounts ==
  ASSUME NEW d \in Nat, NEW n \in Int
  PROVE  /\ Plus(d, n) \in Nat
         /\ Plus(d, n) < Far => d < Far /\ n <= Plus(d, n) - d
                                /\ -n <= Plus(d, n) - d
BY DEF Plus, Distance

LEMMA ViewInit == Init => ViewInv
<1>. SUFFICES ASSUME Init PROVE ViewInv
  OBVIOUS
<1>1. TypeOK
  BY DEF Init, TypeOK
<1>2. WithinReach /\ ShowsTheMap
  BY Numbers DEF Init, WithinReach, ShowsTheMap
<1>3. NearShown
  BY DEF Init, NearShown, Distance
<1>4. MarkNearTheMap
  <2>1. KeyStep * (MaxEvents - 1) \in Nat /\ View >= 1
    OBVIOUS
  <2>. QED
    BY <2>1 DEF Init, MarkNearTheMap
<1>. QED
  BY <1>1, <1>2, <1>3, <1>4 DEF ViewInv

LEMMA ArrowKeyStep ==
  ASSUME ViewInv, ArrowKey
  PROVE  ViewInv'
<1>. USE DEF ViewInv
<1>1. PICK way \in {-1, 1} : left' = left + way * KeyStep * PixelSize
  BY DEF ArrowKey
<1>2. left' = left + KeyStep * PixelSize \/ left' = left - KeyStep * PixelSize
  <2>1. CASE way = 1
    BY <1>1, <2>1
  <2>2. CASE way = -1
    <3>1. way * KeyStep * PixelSize = -(KeyStep * PixelSize)
      BY <2>2
    <3>. QED
      BY <1>1, <3>1, Numbers DEF TypeOK
  <2>. QED
    BY <2>1, <2>2
<1>3. /\ pc = "events" /\ pc' = pc /\ events < MaxEvents /\ events' = events + 1
      /\ UNCHANGED <<delta, setBacks, shown, mouse, mark>>
      /\ sinceDrawn' = Plus(sinceDrawn, KeyStep * PixelSize)
  BY DEF ArrowKey, Event, clock, pointer
<1>. DEFINE step == KeyStep * PixelSize
<1>4. step \in Nat
  BY Numbers
<1>5. TypeOK'
  <2>1. sinceDrawn' \in Nat
    BY <1>3, <1>4, PlusCounts DEF TypeOK
  <2>2. left' \in Int
    <3>1. left' = left + step \/ left' = left - step
      BY <1>2
    <3>. HIDE DEF step
    <3>. QED
      BY <1>4, <3>1 DEF TypeOK
  <2>3. events' \in 0 .. MaxEvents
    BY <1>3 DEF TypeOK
  <2>. QED
    BY <1>3, <2>1, <2>2, <2>3 DEF TypeOK
<1>6. WithinReach'
  <2>1. /\ Excess(events) \in Nat /\ Edge \in Nat
        /\ Excess(events + 1) = Excess(events) + step
    BY Numbers DEF TypeOK
  <2>. HIDE DEF step
  <2>. QED
    BY <1>2, <1>3, <1>4, <2>1 DEF TypeOK, WithinReach, step
<1>7. NearShown'
  <2>1. /\ sinceDrawn' \in Nat
        /\ sinceDrawn' < Far => sinceDrawn < Far /\ step <= sinceDrawn' - sinceDrawn
    BY <1>3, <1>4, PlusCounts DEF TypeOK
  <2>2. left' = left + step \/ left' = left - step
    BY <1>2
  <2>. HIDE DEF step
  <2>. QED
    BY <1>3, <1>4, <2>1, <2>2 DEF TypeOK, NearShown, Distance
<1>8. ShowsTheMap' /\ MarkNearTheMap'
  BY <1>3 DEF ShowsTheMap, MarkNearTheMap
<1>. QED
  BY <1>5, <1>6, <1>7, <1>8

LEMMA AimStep ==
  ASSUME ViewInv, NEW s \in Spots, AimAt(s), mouse' \in Spots
  PROVE  ViewInv'
<1>. USE DEF ViewInv
<1>1. /\ pc = "events" /\ pc' = pc /\ events < MaxEvents /\ events' = events + 1
      /\ UNCHANGED <<delta, setBacks, left, shown, sinceDrawn>>
      /\ mark' = Pixel(left + s * PixelSize, PixelSize)
  BY DEF AimAt, Event, clock, view, OnMap
<1>2. s \in Int /\ 0 <= s /\ s <= View - 1 /\ left + s * PixelSize \in Int
  BY DEF TypeOK
<1>3. TypeOK'
  BY <1>1, <1>2, PixelNear DEF TypeOK
<1>4. WithinReach'
  <2>1. events \in Nat /\ left \in Int /\ Edge \in Nat
    BY Numbers DEF TypeOK
  <2>2. /\ Excess(events) \in Nat /\ KeyStep * PixelSize \in Nat
        /\ Excess(events + 1) = Excess(events) + KeyStep * PixelSize
    BY <2>1, Numbers
  <2>3. -Excess(events) <= left /\ left <= Edge + Excess(events)
    BY DEF WithinReach
  <2>4. -Excess(events + 1) <= left /\ left <= Edge + Excess(events + 1)
    BY <2>1, <2>2, <2>3
  <2>. QED
    BY <1>1, <2>4 DEF WithinReach, Edge, Excess
<1>5. ShowsTheMap' /\ NearShown'
  BY <1>1 DEF ShowsTheMap, NearShown
<1>6. MarkNearTheMap'
  <2>. DEFINE most == KeyStep * (MaxEvents - 1)
              lo == -most
              hi == Border + (View - 1) + most
  <2>1. most \in Nat /\ KeyStep * events \in Nat /\ KeyStep * events <= most
    <3>1. events \in Nat /\ events <= MaxEvents - 1
      BY <1>1 DEF TypeOK
    <3>2. events * KeyStep <= (MaxEvents - 1) * KeyStep
      BY <3>1, TimesGrows
    <3>3. /\ events * KeyStep = KeyStep * events
          /\ (MaxEvents - 1) * KeyStep = KeyStep * (MaxEvents - 1)
          /\ KeyStep * events \in Nat /\ KeyStep * (MaxEvents - 1) \in Nat
      BY <3>1
    <3>. QED
      BY <3>2, <3>3
  <2>. HIDE DEF most
  <2>2. Excess(events) <= most * PixelSize /\ most * PixelSize \in Int
        /\ Excess(events) \in Int
    BY <2>1, TimesGrows DEF Excess
  <2>3. s * PixelSize <= (View - 1) * PixelSize /\ 0 <= s * PixelSize
        /\ s * PixelSize \in Int /\ (View - 1) * PixelSize \in Int
    BY <1>2, TimesGrows
  <2>4. /\ lo \in Int /\ hi \in Int
        /\ lo * PixelSize = -(most * PixelSize)
        /\ hi * PixelSize = Edge + (View - 1) * PixelSize + most * PixelSize
    BY <2>1 DEF Edge
  <2>. HIDE DEF lo, hi
  <2>8. -Excess(events) <= left /\ left <= Edge + Excess(events)
        /\ left \in Int /\ Edge \in Int
    BY Numbers DEF WithinReach, TypeOK
  <2>5. lo * PixelSize <= left + s * PixelSize
    <3>. DEFINE a == lo * PixelSize
                b == s * PixelSize
                c == most * PixelSize
    <3>1. a = -c /\ 0 <= b /\ b \in Int /\ c \in Int /\ Excess(events) <= c
          /\ Excess(events) \in Int
      BY <2>2, <2>3, <2>4
    <3>. HIDE DEF a, b, c
    <3>2. a <= left + b
      BY <2>8, <3>1
    <3>. QED
      BY <3>2 DEF a, b
  <2>6. left + s * PixelSize <= hi * PixelSize
    <3>. DEFINE a == hi * PixelSize
                b == s * PixelSize
                c == most * PixelSize
                d == (View - 1) * PixelSize
    <3>1. /\ a = Edge + d + c /\ b <= d /\ b \in Int /\ c \in Int /\ d \in Int
          /\ Excess(events) <= c /\ Excess(events) \in Int
      BY <2>2, <2>3, <2>4
    <3>. HIDE DEF a, b, c, d
    <3>2. left + b <= a
      BY <2>8, <3>1
    <3>. QED
      BY <3>2 DEF a, b
  <2>7. lo <= mark' /\ mark' <= hi
    BY <1>1, <1>2, <2>4, <2>5, <2>6, PixelBetween
  <2>. QED
    BY <1>3, <2>1, <2>7 DEF MarkNearTheMap, TypeOK, most, lo, hi
<1>. QED
  BY <1>3, <1>4, <1>5, <1>6

(* A way of |w| takes a point no farther than that from another one.        *)
LEMMA Farther ==
  \A p, seen, w, d, e \in Int :
    Distance(p, seen) <= d /\ w <= e - d /\ -w <= e - d
      => Distance(p + w, seen) <= e
BY DEF Distance

LEMMA Nearer ==
  \A p, seen, d \in Int :
    0 <= seen /\ seen <= Edge /\ Distance(p, seen) <= d
      => Distance(Bounded(p), seen) <= d
BY Numbers DEF Distance, Bounded

(* Putting the view back within the borders brings it no farther from where *)
(* it was drawn, which is within them.                                      *)
LEMMA ScrollStep ==
  ASSUME ViewInv, Scroll
  PROVE  ViewInv'
<1>. USE DEF ViewInv
<1>. DEFINE way == AtEdge(mouse) * Rate * delta
<1>1. /\ pc' = "draw" /\ left' = Bounded(left + way)
      /\ sinceDrawn' = Plus(sinceDrawn, way)
      /\ UNCHANGED <<events, shown, mouse, mark, delta, setBacks>>
  BY DEF Scroll, pointer, clock
<1>2. way \in Int
  <2>1. AtEdge(mouse) \in {-1, 0, 1}
    BY DEF AtEdge
  <2>. QED
    BY <2>1 DEF TypeOK
<1>. HIDE DEF way
<1>3. /\ left' \in Int /\ 0 <= left' /\ left' <= Edge
      /\ left' = left + way \/ (left + way < 0 /\ left' = 0)
                            \/ (left + way > Edge /\ left' = Edge)
  BY <1>1, <1>2, Numbers DEF Bounded, TypeOK
<1>4. /\ sinceDrawn' \in Nat
      /\ sinceDrawn' < Far =>
           /\ sinceDrawn < Far
           /\ way <= sinceDrawn' - sinceDrawn /\ -way <= sinceDrawn' - sinceDrawn
  BY <1>1, <1>2, PlusCounts DEF TypeOK
<1>5. TypeOK'
  BY <1>1, <1>3, <1>4 DEF TypeOK
<1>6. WithinReach'
  <2>1. Excess(events) \in Nat /\ Edge \in Nat
    BY Numbers DEF TypeOK
  <2>2. -Excess(events) <= left' /\ left' <= Edge + Excess(events)
    BY <1>3, <2>1
  <2>. QED
    BY <1>1, <1>3, <2>2 DEF WithinReach, Edge, Excess
<1>7. NearShown'
  <2>. SUFFICES ASSUME sinceDrawn' < Far
                PROVE  Distance(left', shown) <= sinceDrawn'
    BY <1>1 DEF NearShown
  <2>1. /\ left \in Int /\ shown \in Int /\ sinceDrawn \in Int
        /\ 0 <= shown /\ shown <= Edge /\ left + way \in Int
    BY <1>2 DEF TypeOK, ShowsTheMap
  <2>2. /\ sinceDrawn' \in Int /\ Distance(left, shown) <= sinceDrawn
        /\ way <= sinceDrawn' - sinceDrawn /\ -way <= sinceDrawn' - sinceDrawn
    BY <1>4 DEF NearShown
  <2>3. Distance(left + way, shown) <= sinceDrawn'
    BY <1>2, <2>1, <2>2, Farther
  <2>. QED
    BY <1>1, <2>1, <2>2, <2>3, Nearer
<1>8. ShowsTheMap' /\ MarkNearTheMap'
  BY <1>1 DEF ShowsTheMap, MarkNearTheMap
<1>. QED
  BY <1>5, <1>6, <1>7, <1>8

LEMMA LoopStep ==
  ASSUME ViewInv, Draw \/ SkipDraw \/ Tick \/ TickBack
  PROVE  ViewInv'
<1>. USE DEF ViewInv
<1>1. CASE Draw
  <2>1. /\ pc = "draw" /\ pc' = "wait" /\ shown' = left /\ sinceDrawn' = 0
        /\ UNCHANGED <<left, events, mouse, mark, delta, setBacks>>
    BY <1>1 DEF Draw, pointer, clock
  <2>2. TypeOK' /\ WithinReach' /\ ShowsTheMap' /\ MarkNearTheMap'
    BY <2>1 DEF TypeOK, WithinReach, ShowsTheMap, MarkNearTheMap
  <2>3. NearShown'
    BY <2>1 DEF NearShown, Distance, TypeOK
  <2>. QED
    BY <2>2, <2>3
<1>2. CASE SkipDraw
  <2>1. /\ pc = "draw" /\ pc' = "wait"
        /\ UNCHANGED <<left, shown, sinceDrawn, events, mouse, mark, delta, setBacks>>
    BY <1>2 DEF SkipDraw, pointer, clock, view
  <2>. QED
    BY <2>1 DEF TypeOK, WithinReach, ShowsTheMap, MarkNearTheMap, NearShown
<1>3. CASE Tick \/ TickBack
  <2>1. /\ pc = "wait" /\ pc' = "events" /\ events' = 0
        /\ UNCHANGED <<left, shown, sinceDrawn, mouse, mark>>
        /\ delta' \in Int /\ setBacks' \in Nat
    <3>1. CASE Tick
      BY <3>1 DEF Tick, Wait, pointer, view, TypeOK
    <3>2. CASE TickBack
      BY <3>2 DEF TickBack, Wait, pointer, view, TypeOK
    <3>. QED
      BY <1>3, <3>1, <3>2
  <2>2. TypeOK' /\ ShowsTheMap' /\ MarkNearTheMap' /\ NearShown'
    BY <2>1 DEF TypeOK, ShowsTheMap, MarkNearTheMap, NearShown
  <2>3. WithinReach'
    <3>1. Excess(0) \in Nat /\ Edge \in Nat
      BY Numbers
    <3>2. 0 <= left /\ left <= Edge /\ left \in Int
      BY <2>1 DEF WithinReach, TypeOK
    <3>3. -Excess(0) <= left /\ left <= Edge + Excess(0)
      BY <3>1, <3>2
    <3>. QED
      BY <2>1, <3>2, <3>3 DEF WithinReach, Edge, Excess
  <2>. QED
    BY <2>2, <2>3
<1>. QED
  BY <1>1, <1>2, <1>3

LEMMA ViewNext == ViewInv /\ [Next]_vars => ViewInv'
<1>. SUFFICES ASSUME ViewInv, [Next]_vars PROVE ViewInv'
  OBVIOUS
<1>1. CASE ArrowKey
  BY <1>1, ArrowKeyStep
<1>2. CASE Motion
  BY <1>2, AimStep DEF Motion
<1>3. CASE Button
  BY <1>3, AimStep DEF Button, ViewInv, TypeOK
<1>4. CASE Scroll
  BY <1>4, ScrollStep
<1>5. CASE Draw \/ SkipDraw \/ Tick \/ TickBack
  BY <1>5, LoopStep
<1>6. CASE UNCHANGED vars
  BY <1>6 DEF vars, view, pointer, clock, ViewInv, TypeOK, WithinReach,
    ShowsTheMap, NearShown, MarkNearTheMap
<1>. QED
  BY <1>1, <1>2, <1>3, <1>4, <1>5, <1>6 DEF Next, Loop

LEMMA ViewInvariant == Spec => []ViewInv
BY ViewInit, ViewNext, PTL DEF Spec

(* What is on the screen under a spot and what processFrame takes it for.   *)
LEMMA ClicksNear == ViewInv => ClicksWhereItLooks
<1>. SUFFICES ASSUME ViewInv, NEW s \in Spots, sinceDrawn < Far
              PROVE  Distance(OnMap(s) * PixelSize, shown + s * PixelSize)
                       < sinceDrawn + PixelSize
  BY DEF ClicksWhereItLooks
<1>. DEFINE there == left + s * PixelSize
            it == OnMap(s) * PixelSize
<1>1. /\ s * PixelSize \in Int /\ left \in Int /\ shown \in Int
      /\ sinceDrawn \in Nat
  BY DEF ViewInv, TypeOK
<1>2. /\ it \in Int /\ there \in Int
      /\ it - there < PixelSize /\ there - it < PixelSize
  BY <1>1, PixelNear DEF OnMap
<1>3. left - shown <= sinceDrawn /\ shown - left <= sinceDrawn
  BY <1>1 DEF ViewInv, NearShown, Distance
<1>. HIDE DEF it
<1>4. Distance(it, shown + s * PixelSize) < sinceDrawn + PixelSize
  BY <1>1, <1>2, <1>3 DEF Distance
<1>. QED
  BY <1>4 DEF it

-----------------------------------------------------------------------------

(* The variables of the view keep their types, on screens and maps of any   *)
(* size.                                                                    *)
THEOREM ViewTypeCorrect == Spec => []TypeOK
BY ViewInvariant, PTL DEF ViewInv

(* However far keys, edges and a clock that is set back have moved the view, *)
(* what draw shows is on the map.                                           *)
THEOREM MapFillsTheScreen == Spec => []ShowsTheMap
BY ViewInvariant, PTL DEF ViewInv

(* The user hits what is seen, but for what the user has moved since then.   *)
THEOREM AimIsTrue == Spec => []ClicksWhereItLooks
BY ViewInvariant, ClicksNear, PTL

(* The arrow keys of one frame are all that can bring a click off the map.   *)
THEOREM ClicksStayNear == Spec => []MarkNearTheMap
BY ViewInvariant, PTL DEF ViewInv

=============================================================================
