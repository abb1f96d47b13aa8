-------------------------- MODULE Movement2DProofs --------------------------
(***************************************************************************)
(* Theorems about Movement2D: for any number of units, any speeds, boxes    *)
(* and points, frames of any length and clocks set back by any time.        *)
(***************************************************************************)
EXTENDS Movement2D, WellFoundedInduction, TLAPS

-----------------------------------------------------------------------------
(* Whole numbers.                                                           *)

LEMMA SquareNat == \A n \in Int : Square(n) \in Nat /\ Square(-n) = Square(n)
<1>. SUFFICES ASSUME NEW n \in Int PROVE n * n \in Nat /\ (-n) * (-n) = n * n
  BY DEF Square
<1>1. n * n >= 0
  OBVIOUS
<1>. QED
  BY <1>1

LEMMA SquareGrows ==
  ASSUME NEW m \in Nat, NEW n \in Nat, m <= n
  PROVE  Square(m) <= Square(n)
<1>1. m * m <= m * n
  OBVIOUS
<1>2. m * n <= n * n
  OBVIOUS
<1>. QED
  BY <1>1, <1>2 DEF Square

LEMMA TimesGrows ==
  ASSUME NEW m \in Int, NEW n \in Int, NEW k \in Nat, m <= n
  PROVE  m * k <= n * k
OBVIOUS

LEMMA Cancel ==
  ASSUME NEW m \in Int, NEW n \in Int, NEW k \in Nat \ {0}, m * k <= n * k
  PROVE  m <= n
<1>. SUFFICES ASSUME n + 1 <= m PROVE FALSE
  OBVIOUS
<1>1. (n + 1) * k <= m * k
  BY TimesGrows
<1>2. (n + 1) * k = n * k + k
  OBVIOUS
<1>. QED
  BY <1>1, <1>2

LEMMA SameSign ==
  ASSUME NEW m \in Int, NEW n \in Int
  PROVE  /\ m * n > 0 <=> (m > 0 /\ n > 0) \/ (m < 0 /\ n < 0)
         /\ m * n = 0 <=> m = 0 \/ n = 0
OBVIOUS

LEMMA DivTimes ==
  ASSUME NEW n \in Nat, NEW k \in Nat \ {0}
  PROVE  (n * k) \div k = n
OBVIOUS

LEMMA DistanceNat ==
  \A m, n \in Int : /\ Distance(m, n) \in Nat
                    /\ Square(Distance(m, n)) = Square(n - m)
<1>. SUFFICES ASSUME NEW m \in Int, NEW n \in Int
              PROVE  /\ Distance(m, n) \in Nat
                     /\ Square(Distance(m, n)) = Square(n - m)
  OBVIOUS
<1>1. Distance(m, n) = n - m \/ Distance(m, n) = -(n - m)
  BY DEF Distance
<1>2. Distance(m, n) \in Nat
  BY DEF Distance
<1>. QED
  BY <1>1, <1>2, SquareNat

(* A nonempty set of natural numbers has a least element.                   *)
LEMMA LeastElement ==
  ASSUME NEW S \in SUBSET Nat, S # {}
  PROVE  \E m \in S : \A n \in S : m <= n
<1>. DEFINE Below == {mn \in Nat \X Nat : mn[1] < mn[2]}
<1>1. IsWellFoundedOn(Below, Nat)
  BY NatLessThanWellFounded DEF OpToRel
<1>. HIDE DEF Below
<1>2. PICK m \in S : \A n \in S : <<n, m>> \notin Below
  BY <1>1, WFMin
<1>3. ASSUME NEW n \in S PROVE m <= n
  <2>1. <<n, m>> \in Nat \X Nat /\ <<n, m>>[1] = n /\ <<n, m>>[2] = m
    OBVIOUS
  <2>2. n < m => <<n, m>> \in Below
    BY <2>1 DEF Below
  <2>. QED
    BY <1>2, <2>2, n \in Nat, m \in Nat
<1>. QED
  BY <1>3

-----------------------------------------------------------------------------
(* Rectangles.                                                              *)

LEMMA PixelInt ==
  \A n \in Int, size \in Nat \ {0} : Pixel(n, size) \in Int
BY DEF Pixel

LEMMA PixelOfCorner ==
  ASSUME NEW n \in Int, NEW size \in Nat \ {0}
  PROVE  n * size \in Int /\ Pixel(n * size, size) = n
<1>1. CASE n >= 0
  <2>1. n * size >= 0 /\ (n * size) \div size = n
    BY <1>1, DivTimes
  <2>. QED
    BY <2>1 DEF Pixel
<1>2. CASE n < 0
  <2>1. -n \in Nat /\ -(n * size) = (-n) * size
    BY <1>2
  <2>2. ((-n) * size) \div size = -n
    BY <2>1, DivTimes
  <2>3. n * size < 0
    BY <1>2
  <2>. QED
    BY <2>1, <2>2, <2>3 DEF Pixel
<1>. QED
  BY <1>1, <1>2

(* Two ranges overlap when one lies within the other or an edge of the one   *)
(* lies within the other: nothing else can happen, and that much must.       *)
LEMMA OverlapsExactly ==
  ASSUME NEW lo \in Int, NEW hi \in Int, lo <= hi,
         NEW objLo \in Int, NEW objHi \in Int, objLo <= objHi
  PROVE  Overlaps(lo, hi, objLo, objHi)
           <=> \E n \in objLo .. objHi : lo <= n /\ n <= hi
<1>1. ASSUME Overlaps(lo, hi, objLo, objHi)
      PROVE  \E n \in objLo .. objHi : lo <= n /\ n <= hi
  <2>1. CASE lo <= objLo /\ objHi <= hi
    <3>1. objLo \in objLo .. objHi /\ lo <= objLo /\ objLo <= hi
      BY <2>1
    <3>. QED
      BY <3>1
  <2>2. CASE objLo <= lo /\ lo <= objHi
    <3>1. lo \in objLo .. objHi /\ lo <= lo /\ lo <= hi
      BY <2>2
    <3>. QED
      BY <3>1
  <2>3. CASE objLo <= hi /\ hi <= objHi
    <3>1. hi \in objLo .. objHi /\ lo <= hi /\ hi <= hi
      BY <2>3
    <3>. QED
      BY <3>1
  <2>. QED
    BY <1>1, <2>1, <2>2, <2>3 DEF Overlaps
<1>2. ASSUME NEW n \in objLo .. objHi, lo <= n, n <= hi
      PROVE  Overlaps(lo, hi, objLo, objHi)
  BY <1>2 DEF Overlaps
<1>. QED
  BY <1>1, <1>2

LEMMA SpansExactly ==
  ASSUME NEW a \in Int, NEW b \in Int, NEW c \in Int, NEW w \in Nat,
         PixelSize \in Nat \ {0}
  PROVE  Spans(a, b, c, w, PixelSize) <=> SharesPixel(a, b, c, w)
<1>. DEFINE A == Pixel(a, PixelSize)
            B == Pixel(b, PixelSize)
            lo == Pixel(c, PixelSize) - w \div 2
            hi == Pixel(c, PixelSize) + w \div 2
<1>1. A \in Int /\ B \in Int /\ Pixel(c, PixelSize) \in Int
  BY PixelInt
<1>2. lo \in Int /\ hi \in Int /\ lo <= hi
  <2>1. w \div 2 \in Nat
    OBVIOUS
  <2>. QED
    BY <1>1, <2>1
<1>5. SharesPixel(a, b, c, w) <=> \E n \in lo .. hi : Between(A, B, n)
  BY DEF SharesPixel
<1>3. CASE A > B
  <2>1. Normalized(a, b, PixelSize) = <<B * PixelSize, A * PixelSize>>
    BY <1>3 DEF Normalized
  <2>2. Pixel(B * PixelSize, PixelSize) = B /\ Pixel(A * PixelSize, PixelSize) = A
    BY <1>1, PixelOfCorner
  <2>. HIDE DEF A, B
  <2>3. Spans(a, b, c, w, PixelSize) <=> Overlaps(B, A, lo, hi)
    BY <2>1, <2>2 DEF Spans
  <2>. HIDE DEF lo, hi
  <2>4. Overlaps(B, A, lo, hi) <=> \E n \in lo .. hi : B <= n /\ n <= A
    <3>1. /\ A \in Int /\ B \in Int /\ B <= A
          /\ lo \in Int /\ hi \in Int /\ lo <= hi
      BY <1>1, <1>2, <1>3
    <3>. QED
      BY <3>1, OverlapsExactly
  <2>5. \A n \in lo .. hi : Between(A, B, n) <=> B <= n /\ n <= A
    BY <1>1, <1>2, <1>3 DEF Between
  <2>. QED
    BY <1>5, <2>3, <2>4, <2>5
<1>4. CASE ~(A > B)
  <2>1. Normalized(a, b, PixelSize) = <<a, b>>
    BY <1>4 DEF Normalized
  <2>2. Spans(a, b, c, w, PixelSize) <=> Overlaps(A, B, lo, hi)
    BY <2>1 DEF Spans
  <2>. HIDE DEF A, B, lo, hi
  <2>3. Overlaps(A, B, lo, hi) <=> \E n \in lo .. hi : A <= n /\ n <= B
    <3>1. /\ A \in Int /\ B \in Int /\ A <= B
          /\ lo \in Int /\ hi \in Int /\ lo <= hi
      BY <1>1, <1>2, <1>4
    <3>. QED
      BY <3>1, OverlapsExactly
  <2>4. \A n \in lo .. hi : Between(A, B, n) <=> A <= n /\ n <= B
    BY <1>1, <1>2, <1>4 DEF Between
  <2>. QED
    BY <1>5, <2>2, <2>3, <2>4
<1>. QED
  BY <1>3, <1>4

(* What findObjectByRect finds is what a rectangle of the screen covers.    *)
LEMMA CoverExact == TypeOK => PicksWhatItCovers
<1>. SUFFICES ASSUME TypeOK, NEW u \in Units, NEW p \in Points, NEW q \in Points
              PROVE  InsideRect(p, q, pos[u], Box[u], PixelSize)
                       <=> /\ SharesPixel(p.x, q.x, pos[u].x, Box[u].x)
                           /\ SharesPixel(p.y, q.y, pos[u].y, Box[u].y)
  BY DEF PicksWhatItCovers
<1>1. /\ p.x \in Int /\ p.y \in Int /\ q.x \in Int /\ q.y \in Int
      /\ Box[u].x \in Nat /\ Box[u].y \in Nat
  <2>1. p \in Place /\ q \in Place /\ Box[u] \in [x: Nat, y: Nat]
    BY PlacesAssumption
  <2>. QED
    BY <2>1 DEF Place
<1>2. pos[u].x \in Int /\ pos[u].y \in Int
  BY DEF TypeOK, Place
<1>3. Spans(p.x, q.x, pos[u].x, Box[u].x, PixelSize)
        <=> SharesPixel(p.x, q.x, pos[u].x, Box[u].x)
  BY <1>1, <1>2, ScaleAssumption, SpansExactly
<1>4. Spans(p.y, q.y, pos[u].y, Box[u].y, PixelSize)
        <=> SharesPixel(p.y, q.y, pos[u].y, Box[u].y)
  BY <1>1, <1>2, ScaleAssumption, SpansExactly
<1>. QED
  BY <1>3, <1>4 DEF InsideRect

-----------------------------------------------------------------------------
(* Cells of the terminal.                                                   *)

LEMMA DivBounds ==
  ASSUME NEW n \in Nat, NEW k \in Nat \ {0}
  PROVE  /\ n \div k \in Nat
         /\ n = k * (n \div k) + (n % k) /\ (n % k) \in 0 .. k - 1
OBVIOUS

(* roundf is off by half a cell at most. *)
LEMMA RoundedNear ==
  ASSUME NEW n \in Int, NEW cell \in Nat \ {0}
  PROVE  /\ Rounded(n, cell) \in Int
         /\ 2 * (cell * Rounded(n, cell)) <= 2 * n + cell
         /\ 2 * (cell * Rounded(n, cell)) >= 2 * n - cell
         /\ n \in Nat =>
              /\ Rounded(n, cell) \in Nat
              /\ (2 * n + cell) % (2 * cell) # 0 =>
                   2 * (cell * Rounded(n, cell)) < 2 * n + cell
<1>1. CASE n >= 0
  <2>. DEFINE q == (2 * n + cell) \div (2 * cell)
              r == (2 * n + cell) % (2 * cell)
  <2>1. q \in Nat /\ 2 * n + cell = (2 * cell) * q + r /\ r \in 0 .. 2 * cell - 1
    <3>1. 2 * n + cell \in Nat /\ 2 * cell \in Nat \ {0}
      BY <1>1
    <3>. QED
      BY <3>1, DivBounds
  <2>2. Rounded(n, cell) = q
    BY <1>1 DEF Rounded
  <2>4. r = (2 * n + cell) % (2 * cell)
    OBVIOUS
  <2>. HIDE DEF q, r
  <2>3. (2 * cell) * q = 2 * (cell * q) /\ cell * q \in Int
    BY <2>1
  <2>. QED
    BY <1>1, <2>1, <2>2, <2>3, <2>4
<1>2. CASE n < 0
  <2>. DEFINE q == (cell - 2 * n) \div (2 * cell)
              r == (cell - 2 * n) % (2 * cell)
  <2>1. q \in Nat /\ cell - 2 * n = (2 * cell) * q + r /\ r \in 0 .. 2 * cell - 1
    <3>1. cell - 2 * n \in Nat /\ 2 * cell \in Nat \ {0}
      BY <1>2
    <3>. QED
      BY <3>1, DivBounds
  <2>2. Rounded(n, cell) = -q
    BY <1>2 DEF Rounded
  <2>. HIDE DEF q, r
  <2>3. (2 * cell) * q = 2 * (cell * q) /\ cell * (-q) = -(cell * q) /\ cell * q \in Int
    BY <2>1
  <2>. QED
    BY <1>2, <2>1, <2>2, <2>3
<1>. QED
  BY <1>1, <1>2

LEMMA RoundedNat ==
  \A n \in Nat, cell \in Nat \ {0} :
    /\ Rounded(n, cell) \in Nat
    /\ 2 * (cell * Rounded(n, cell)) <= 2 * n + cell
    /\ (2 * n + cell) % (2 * cell) # 0 =>
         2 * (cell * Rounded(n, cell)) < 2 * n + cell
<1>. TAKE n \in Nat, cell \in Nat \ {0}
<1>1. n \in Int
  OBVIOUS
<1>. QED
  BY <1>1, RoundedNear, Zenon

(* A cell that shows an object shares a pixel with it.                       *)
LEMMA CellTouches ==
  ASSUME NEW c \in Int, NEW w \in Nat, NEW cell \in Nat \ {0}, cell % 2 = 0,
         w % 2 = 1 => (2 * w + cell) % (2 * cell) # 0,
         NEW k \in Shown(c, w, cell)
  PROVE  /\ k \in Int
         /\ \E n \in c - w \div 2 .. c + w \div 2 :
              FirstOfCell(k, cell) <= n /\ n <= LastOfCell(k, cell)
<1>. DEFINE half == w \div 2
            first == Rounded(c - half, cell)
            many == Rounded(w, cell)
<1>1. half \in Nat /\ (w = 2 * half \/ (w = 2 * half + 1 /\ w % 2 = 1))
  OBVIOUS
<1>2. k \in first .. first + many - 1
  BY DEF Shown, half, first, many
<1>3. \E h \in Nat : cell = 2 * h
  <2>. WITNESS cell \div 2 \in Nat
  <2>. QED
    OBVIOUS
<1>. HIDE DEF half, first, many
<1>4. first \in Int /\ 2 * (cell * first) <= 2 * (c - half) + cell
      /\ 2 * (cell * first) >= 2 * (c - half) - cell
  <2>1. c - half \in Int
    BY <1>1
  <2>2. /\ Rounded(c - half, cell) \in Int
        /\ 2 * (cell * Rounded(c - half, cell)) <= 2 * (c - half) + cell
        /\ 2 * (cell * Rounded(c - half, cell)) >= 2 * (c - half) - cell
    BY <2>1, RoundedNear
  <2>. QED
    BY <2>2 DEF first
<1>5. /\ many \in Nat /\ 2 * (cell * many) <= 2 * w + cell
      /\ w % 2 = 1 => 2 * (cell * many) < 2 * w + cell
  <2>1. /\ Rounded(w, cell) \in Nat
        /\ 2 * (cell * Rounded(w, cell)) <= 2 * w + cell
        /\ (2 * w + cell) % (2 * cell) # 0 =>
             2 * (cell * Rounded(w, cell)) < 2 * w + cell
    BY RoundedNat, Zenon
  <2>. QED
    BY <2>1 DEF many
<1>6. k \in Int /\ first <= k /\ k <= first + (many - 1)
  BY <1>2, <1>4, <1>5
<1>7. k * cell >= cell * first
  BY <1>4, <1>6
<1>8. k * cell <= cell * first + cell * many - cell
  <2>1. k * cell <= (first + (many - 1)) * cell
    BY <1>4, <1>5, <1>6
  <2>2. (first + (many - 1)) * cell = cell * first + cell * many - cell
    BY <1>4, <1>5
  <2>. QED
    BY <2>1, <2>2
<1>9. k * cell \in Int /\ cell * first \in Int /\ cell * many \in Int
  BY <1>4, <1>5, <1>6
<1>10. FirstOfCell(k, cell) <= c + half
  <2>1. 2 * (k * cell) <= 2 * (c - half) + 2 * w
    BY <1>1, <1>4, <1>5, <1>8, <1>9
  <2>2. CASE w = 2 * half
    BY <1>1, <1>9, <2>1, <2>2 DEF FirstOfCell
  <2>3. CASE w = 2 * half + 1 /\ w % 2 = 1
    <3>1. 2 * (k * cell) < 2 * (c - half) + 2 * w
      BY <1>1, <1>4, <1>5, <1>8, <1>9, <2>3
    <3>. QED
      BY <1>1, <1>9, <2>3, <3>1 DEF FirstOfCell
  <2>. QED
    BY <1>1, <2>2, <2>3
<1>11. LastOfCell(k, cell) >= c - half
  <2>1. PICK h \in Nat : cell = 2 * h
    BY <1>3
  <2>2. h >= 1
    BY <2>1
  <2>3. 2 * (k * cell) >= 2 * (c - half) - cell
    BY <1>1, <1>4, <1>7, <1>9
  <2>4. k * cell >= c - half - h
    BY <1>1, <1>9, <2>1, <2>3
  <2>. QED
    BY <1>1, <1>9, <2>1, <2>2, <2>4 DEF LastOfCell
<1>12. FirstOfCell(k, cell) \in Int /\ LastOfCell(k, cell) \in Int
       /\ FirstOfCell(k, cell) <= LastOfCell(k, cell)
  BY <1>9 DEF FirstOfCell, LastOfCell
<1>13. \E n \in c - half .. c + half :
         FirstOfCell(k, cell) <= n /\ n <= LastOfCell(k, cell)
  <2>1. CASE FirstOfCell(k, cell) >= c - half
    <3>1. FirstOfCell(k, cell) \in c - half .. c + half
      BY <1>1, <1>10, <1>12, <2>1
    <3>. QED
      BY <1>12, <3>1
  <2>2. CASE FirstOfCell(k, cell) < c - half
    <3>1. c - half \in c - half .. c + half
      BY <1>1
    <3>2. FirstOfCell(k, cell) <= c - half
      BY <1>1, <1>12, <2>2
    <3>. QED
      BY <1>11, <3>1, <3>2
  <2>. QED
    BY <1>1, <1>12, <2>1, <2>2
<1>. QED
  BY <1>6, <1>13 DEF half

(* One axis of InsideRect for such a cell.                                   *)
LEMMA CellSpans ==
  ASSUME NEW c \in Int, NEW w \in Nat, NEW cell \in Nat \ {0}, cell % 2 = 0,
         w % 2 = 1 => (2 * w + cell) % (2 * cell) # 0,
         NEW k \in Shown(Pixel(c, PixelSize), w, cell)
  PROVE  Spans(FirstOfCell(k, cell) * PixelSize, LastOfCell(k, cell) * PixelSize,
               c, w, PixelSize)
<1>. DEFINE a == FirstOfCell(k, cell)
            b == LastOfCell(k, cell)
<1>1. Pixel(c, PixelSize) \in Int
  BY PixelInt, ScaleAssumption
<1>2. /\ k \in Int
      /\ \E n \in Pixel(c, PixelSize) - w \div 2 .. Pixel(c, PixelSize) + w \div 2 :
           a <= n /\ n <= b
  BY <1>1, CellTouches, Zenon
<1>3. a \in Int /\ b \in Int
  BY <1>2 DEF FirstOfCell, LastOfCell
<1>. HIDE DEF a, b
<1>4. /\ a * PixelSize \in Int /\ Pixel(a * PixelSize, PixelSize) = a
      /\ b * PixelSize \in Int /\ Pixel(b * PixelSize, PixelSize) = b
  BY <1>3, PixelOfCorner, ScaleAssumption
<1>5. SharesPixel(a * PixelSize, b * PixelSize, c, w)
  BY <1>2, <1>4 DEF SharesPixel, Between
<1>6. Spans(a * PixelSize, b * PixelSize, c, w, PixelSize)
  BY <1>4, <1>5, SpansExactly, ScaleAssumption
<1>. QED
  BY <1>6 DEF a, b

(* What a cell shows, Enter picks there.                                    *)
LEMMA DrawnIsPicked == TypeOK => PicksWhatIsDrawn
<1>. SUFFICES ASSUME TypeOK, NEW u \in Units,
                     NEW i \in Shown(Pixel(pos[u].x, PixelSize), Box[u].x, Cell.x),
                     NEW j \in Shown(Pixel(pos[u].y, PixelSize), Box[u].y, Cell.y)
              PROVE  InsideRect(CellStart(i, j), CellEnd(i, j), pos[u], Box[u],
                                PixelSize)
  BY DEF PicksWhatIsDrawn
<1>1. /\ Box[u].x \in Nat /\ Box[u].y \in Nat
      /\ pos[u].x \in Int /\ pos[u].y \in Int
  <2>1. Box[u] \in [x: Nat, y: Nat]
    BY PlacesAssumption
  <2>. QED
    BY <2>1 DEF TypeOK, Place
<1>2. /\ Cell.x \in Nat \ {0} /\ Cell.y \in Nat \ {0}
      /\ Cell.x % 2 = 0 /\ Cell.y % 2 = 0
  BY CellAssumption
<1>3. Spans(FirstOfCell(i, Cell.x) * PixelSize, LastOfCell(i, Cell.x) * PixelSize,
            pos[u].x, Box[u].x, PixelSize)
  <2>1. Box[u].x % 2 = 1 => (2 * Box[u].x + Cell.x) % (2 * Cell.x) # 0
    BY CellAssumption
  <2>. QED
    BY <1>1, <1>2, <2>1, CellSpans, Zenon
<1>4. Spans(FirstOfCell(j, Cell.y) * PixelSize, LastOfCell(j, Cell.y) * PixelSize,
            pos[u].y, Box[u].y, PixelSize)
  <2>1. Box[u].y % 2 = 1 => (2 * Box[u].y + Cell.y) % (2 * Cell.y) # 0
    BY CellAssumption
  <2>. QED
    BY <1>1, <1>2, <2>1, CellSpans, Zenon
<1>. QED
  BY <1>3, <1>4 DEF InsideRect, CellStart, CellEnd

-----------------------------------------------------------------------------
(* One step.                                                                *)

LEMMA HeadingType ==
  \A s, d, x \in Int :
    /\ Heading(s, d, x) \in {-1, 0, 1}
    /\ Heading(s, d, x) = 0 <=> (d - s) * (d - x) <= 0
    /\ Heading(s, d, x) = 1 => d > x /\ d > s
    /\ Heading(s, d, x) = -1 => d < x /\ d < s
<1>. SUFFICES ASSUME NEW s \in Int, NEW d \in Int, NEW x \in Int
              PROVE  /\ Heading(s, d, x) \in {-1, 0, 1}
                     /\ Heading(s, d, x) = 0 <=> (d - s) * (d - x) <= 0
                     /\ Heading(s, d, x) = 1 => d > x /\ d > s
                     /\ Heading(s, d, x) = -1 => d < x /\ d < s
  OBVIOUS
<1>. DEFINE product == (d - s) * (d - x)
<1>1. product \in Int
  OBVIOUS
<1>2. product > 0 <=> \/ d - s > 0 /\ d - x > 0
                      \/ d - s < 0 /\ d - x < 0
  BY SameSign
<1>. HIDE DEF product
<1>3. Heading(s, d, x) = CASE product <= 0 -> 0
                           [] product > 0 /\ d < x -> -1
                           [] OTHER -> 1
  BY DEF Heading, product
<1>4. product <= 0 <=> ~(product > 0)
  BY <1>1
<1>5. CASE product <= 0
  BY <1>1, <1>3, <1>4, <1>5 DEF product
<1>6. CASE product > 0 /\ d < x
  BY <1>1, <1>2, <1>3, <1>6 DEF product
<1>7. CASE product > 0 /\ ~(d < x)
  BY <1>1, <1>2, <1>3, <1>7 DEF product
<1>. QED
  BY <1>1, <1>5, <1>6, <1>7

(* The part of the way that one axis gets is a root, rounded down.          *)
LEMMA PartProperties ==
  ASSUME NEW l \in Int, NEW d \in Nat, NEW square \in Nat \ {0},
         Square(d) <= square
  PROVE  /\ Part(l, d, square) \in Int
         /\ Square(Part(l, d, square)) * square <= Square(l) * Square(d)
         /\ l >= 0 => Part(l, d, square) >= 0
<1>. DEFINE whole == Square(l) * Square(d)
            way == Distance(0, l)
            Most(c) == /\ Square(c) * square <= whole
                       /\ whole < Square(c + 1) * square
            Above == {c \in Nat : whole < Square(c + 1) * square}
<1>1. /\ Square(l) \in Nat /\ Square(d) \in Nat /\ way \in Nat
      /\ Square(way) = Square(l)
  <2>1. l - 0 = l /\ 0 \in Int
    OBVIOUS
  <2>2. way \in Nat /\ Square(way) = Square(l - 0)
    BY <2>1, DistanceNat
  <2>3. Square(l) \in Nat /\ Square(d) \in Nat
    BY SquareNat
  <2>. QED
    BY <2>1, <2>2, <2>3
<1>2. whole \in Nat /\ whole <= Square(way) * square
  <2>1. Square(d) * Square(l) <= square * Square(l)
    BY <1>1, TimesGrows
  <2>. QED
    BY <1>1, <2>1
<1>3. way \in Above
  <2>1. Square(way) + 1 <= Square(way + 1) /\ Square(way + 1) \in Nat
    BY <1>1 DEF Square
  <2>2. (Square(way) + 1) * square <= Square(way + 1) * square
    BY <1>1, <2>1, TimesGrows
  <2>3. (Square(way) + 1) * square = Square(way) * square + square
    BY <1>1
  <2>4. Square(way) * square \in Nat /\ Square(way + 1) * square \in Nat
    BY <1>1, <2>1
  <2>. HIDE DEF whole
  <2>. QED
    BY <1>1, <1>2, <2>2, <2>3, <2>4
<1>4. PICK c \in Above : \A a \in Above : c <= a
  <2>. HIDE DEF Above
  <2>1. Above \in SUBSET Nat
    BY DEF Above
  <2>. QED
    BY <1>3, <2>1, LeastElement
<1>5. c \in 0 .. way
  BY <1>1, <1>3, <1>4
<1>6. Most(c)
  <2>1. CASE c = 0
    <3>1. Square(c) * square = 0
      BY <2>1 DEF Square
    <3>. QED
      BY <1>2, <1>4, <3>1
  <2>2. CASE c # 0
    <3>1. c - 1 \in Nat /\ (c - 1) + 1 = c /\ ~(c <= c - 1)
      BY <2>2, <1>5
    <3>2. c - 1 \notin Above
      BY <1>4, <3>1
    <3>3. ~(whole < Square(c) * square)
      BY <3>1, <3>2
    <3>4. Square(c) * square \in Nat
      BY <1>5, SquareNat
    <3>. HIDE DEF whole
    <3>. QED
      BY <1>2, <1>4, <3>3, <3>4
  <2>. QED
    BY <2>1, <2>2
<1>. DEFINE most == CHOOSE n \in 0 .. way : Most(n)
<1>7. most \in 0 .. way /\ Most(most)
  <2>. HIDE DEF Most, way
  <2>. QED
    BY <1>5, <1>6
<1>8. Part(l, d, square) = IF l < 0 THEN -most ELSE most
  BY DEF Part
<1>9. most \in Nat /\ Square(-most) = Square(most)
  BY <1>1, <1>7, SquareNat
<1>10. Square(most) * square <= whole
  BY <1>7
<1>. HIDE DEF most, whole
<1>. QED
  BY <1>8, <1>9, <1>10 DEF whole

(* A step that is not against the heading.                                  *)
Along(heading, step) ==
  (heading = 1 => step >= 0) /\ (heading = -1 => step <= 0)

LEMMA StepProperties ==
  ASSUME NEW m, m.start \in Place, m.dest \in Place, NEW p \in Place,
         NEW l \in Int
  PROVE  /\ Step(m, p, l).x \in Int /\ Step(m, p, l).y \in Int
         /\ Heading(m.start.x, m.dest.x, p.x) = 0 => Step(m, p, l).x = 0
         /\ Heading(m.start.y, m.dest.y, p.y) = 0 => Step(m, p, l).y = 0
         /\ Square(Step(m, p, l).x) + Square(Step(m, p, l).y) <= Square(l)
         /\ l >= 0 =>
              /\ Along(Heading(m.start.x, m.dest.x, p.x), Step(m, p, l).x)
              /\ Along(Heading(m.start.y, m.dest.y, p.y), Step(m, p, l).y)
<1>. DEFINE hx == Heading(m.start.x, m.dest.x, p.x)
            hy == Heading(m.start.y, m.dest.y, p.y)
            dx == Distance(p.x, m.dest.x)
            dy == Distance(p.y, m.dest.y)
            square == SquaredDistance(p, m.dest)
            a == Part(l, dx, square)
            b == Part(l, dy, square)
<1>1. /\ m.start.x \in Int /\ m.start.y \in Int /\ m.dest.x \in Int
      /\ m.dest.y \in Int /\ p.x \in Int /\ p.y \in Int
  BY DEF Place
<1>2. /\ hx \in {-1, 0, 1} /\ (hx = 1 => m.dest.x > p.x)
      /\ (hx = -1 => m.dest.x < p.x)
      /\ hy \in {-1, 0, 1}
  BY <1>1, HeadingType
<1>3. Square(l) \in Nat /\ Square(0) = 0
  BY SquareNat DEF Square
<1>4. CASE hx = 0 \/ hy = 0
  <2>1. Step(m, p, l) = [x |-> hx * l, y |-> hy * l]
    BY <1>4 DEF Step
  <2>. HIDE DEF hx, hy
  <2>2. \A h \in {-1, 0, 1} : h * l \in Int /\ Square(h * l) \in {Square(l), 0}
                               /\ (h = 0 => h * l = 0)
                               /\ (l >= 0 => Along(h, h * l))
    <3>1. (-1) * l = -l /\ 0 * l = 0 /\ 1 * l = l
      OBVIOUS
    <3>. QED
      BY <1>3, <3>1, SquareNat DEF Along
  <2>3. /\ hx * l \in Int /\ hy * l \in Int
        /\ Square(hx * l) \in {Square(l), 0} /\ Square(hy * l) \in {Square(l), 0}
        /\ hx = 0 => hx * l = 0
        /\ hy = 0 => hy * l = 0
        /\ l >= 0 => Along(hx, hx * l) /\ Along(hy, hy * l)
    BY <1>2, <2>2
  <2>4. Square(hx * l) + Square(hy * l) <= Square(l)
    BY <1>3, <1>4, <2>3
  <2>5. Step(m, p, l).x = hx * l /\ Step(m, p, l).y = hy * l
    BY <2>1
  <2>. QED
    BY <2>3, <2>4, <2>5 DEF hx, hy
<1>5. CASE hx # 0 /\ hy # 0
  <2>1. /\ Step(m, p, l).x = hx * a /\ Step(m, p, l).y = hy * b
    BY <1>5 DEF Step
  <2>2. /\ dx \in Nat /\ dy \in Nat /\ Square(dx) \in Nat /\ Square(dy) \in Nat
        /\ square = Square(dx) + Square(dy)
    <3>1. /\ dx \in Nat /\ Square(dx) = Square(m.dest.x - p.x)
          /\ dy \in Nat /\ Square(dy) = Square(m.dest.y - p.y)
      BY <1>1, DistanceNat
    <3>2. square = Square(m.dest.x - p.x) + Square(m.dest.y - p.y)
      BY DEF SquaredDistance
    <3>. HIDE DEF dx, dy, square
    <3>. QED
      BY <3>1, <3>2, SquareNat
  <2>3. square \in Nat \ {0}
    <3>1. dx # 0
      BY <1>1, <1>2, <1>5 DEF Distance
    <3>. HIDE DEF dx, dy, square
    <3>2. Square(dx) > 0
      BY <2>2, <3>1 DEF Square
    <3>. QED
      BY <2>2, <3>2
  <2>. HIDE DEF hx, hy, dx, dy, square
  <2>4. /\ a \in Int /\ Square(a) * square <= Square(l) * Square(dx)
        /\ l >= 0 => a >= 0
    <3>1. Square(dx) <= square
      BY <2>2
    <3>. QED
      BY <2>2, <2>3, <3>1, PartProperties
  <2>5. /\ b \in Int /\ Square(b) * square <= Square(l) * Square(dy)
        /\ l >= 0 => b >= 0
    <3>1. Square(dy) <= square
      BY <2>2
    <3>. QED
      BY <2>2, <2>3, <3>1, PartProperties
  <2>. HIDE DEF a, b
  <2>6. Square(a) + Square(b) <= Square(l)
    <3>1. Square(a) \in Nat /\ Square(b) \in Nat
      BY <2>4, <2>5, SquareNat
    <3>2. (Square(a) + Square(b)) * square = Square(a) * square + Square(b) * square
      BY <2>3, <3>1
    <3>3. Square(l) * square = Square(l) * Square(dx) + Square(l) * Square(dy)
      BY <1>3, <2>2
    <3>4. /\ Square(a) * square \in Nat /\ Square(b) * square \in Nat
          /\ Square(l) * Square(dx) \in Nat /\ Square(l) * Square(dy) \in Nat
      BY <1>3, <2>2, <2>3, <3>1
    <3>5. (Square(a) + Square(b)) * square <= Square(l) * square
      BY <2>4, <2>5, <3>2, <3>3, <3>4
    <3>6. Square(a) + Square(b) \in Int /\ Square(l) \in Int
      BY <1>3, <3>1
    <3>. QED
      BY <2>3, <3>5, <3>6, Cancel
  <2>7. \A h \in {-1, 1}, n \in Int :
          /\ h * n \in Int /\ Square(h * n) = Square(n)
          /\ n >= 0 => Along(h, h * n)
    <3>1. \A n \in Int : (-1) * n = -n /\ 1 * n = n
      OBVIOUS
    <3>. QED
      BY <3>1, SquareNat DEF Along
  <2>8. /\ hx * a \in Int /\ Square(hx * a) = Square(a)
        /\ hy * b \in Int /\ Square(hy * b) = Square(b)
        /\ l >= 0 => Along(hx, hx * a) /\ Along(hy, hy * b)
    BY <1>2, <1>5, <2>4, <2>5, <2>7
  <2>. QED
    BY <1>5, <2>1, <2>6, <2>8 DEF hx, hy
<1>. QED
  BY <1>4, <1>5

(* Between the start and the destination, and there if they are the same.   *)
OnTheWay(s, d, x) == (d - s) * (d - x) >= 0 /\ (s = d => x = d)

LEMMA Landing ==
  ASSUME NEW s \in Int, NEW d \in Int, NEW x \in Int, NEW step \in Int,
         Heading(s, d, x) = 0 => step = 0, OnTheWay(s, d, x),
         NEW new, new = IF Finishes(s, d, x + step) THEN d ELSE x + step
  PROVE  OnTheWay(s, d, new) /\ Square(new - x) <= Square(step)
<1>1. /\ Heading(s, d, x) \in {-1, 0, 1}
      /\ Heading(s, d, x) = 0 <=> (d - s) * (d - x) <= 0
      /\ Heading(s, d, x) = 1 => d > x /\ d > s
      /\ Heading(s, d, x) = -1 => d < x /\ d < s
  BY HeadingType
<1>2. CASE Heading(s, d, x) = 0
  <2>1. (d - s) * (d - x) = 0
    BY <1>1, <1>2 DEF OnTheWay
  <2>2. d - s = 0 \/ d - x = 0
    BY <2>1, SameSign
  <2>3. x = d
    BY <2>2 DEF OnTheWay
  <2>4. new = d /\ step = 0
    BY <1>2, <2>3
  <2>5. (d - s) * (d - d) = 0
    OBVIOUS
  <2>6. new - x = 0
    BY <2>3, <2>4
  <2>. QED
    BY <2>4, <2>5, <2>6 DEF OnTheWay, Square
<1>3. CASE Heading(s, d, x) = 1
  <2>1. d > x /\ d > s
    BY <1>1, <1>3
  <2>2. CASE x + step >= d
    <3>1. new = d
      BY <2>1, <2>2 DEF Finishes, Arrives
    <3>2. d - x \in Nat /\ step \in Nat /\ d - x <= step
      BY <2>1, <2>2
    <3>3. Square(d - x) <= Square(step)
      BY <3>2, SquareGrows
    <3>4. (d - s) * (d - d) = 0
      OBVIOUS
    <3>. QED
      BY <3>1, <3>3, <3>4 DEF OnTheWay
  <2>3. CASE ~(x + step >= d)
    <3>1. new = x + step /\ new < d /\ new \in Int /\ new - x = step
      BY <2>1, <2>3 DEF Finishes, Arrives
    <3>2. (d - s) * (d - new) > 0
      BY <2>1, <3>1, SameSign
    <3>3. Square(new - x) <= Square(step)
      BY <3>1, SquareNat
    <3>4. (d - s) * (d - new) \in Int
      BY <3>1
    <3>. QED
      BY <2>1, <3>2, <3>3, <3>4 DEF OnTheWay
  <2>. QED
    BY <2>2, <2>3
<1>4. CASE Heading(s, d, x) = -1
  <2>1. d < x /\ d < s
    BY <1>1, <1>4
  <2>2. CASE x + step <= d
    <3>1. new = d
      BY <2>1, <2>2 DEF Finishes, Arrives
    <3>2. /\ -(d - x) \in Nat /\ -step \in Nat /\ -(d - x) <= -step
          /\ d - x \in Int
      BY <2>1, <2>2
    <3>3. Square(-(d - x)) <= Square(-step)
      BY <3>2, SquareGrows
    <3>4. Square(d - x) <= Square(step)
      BY <3>2, <3>3, SquareNat
    <3>5. (d - s) * (d - d) = 0
      OBVIOUS
    <3>. QED
      BY <3>1, <3>4, <3>5 DEF OnTheWay
  <2>3. CASE ~(x + step <= d)
    <3>1. new = x + step /\ new > d /\ new \in Int /\ new - x = step
      BY <2>1, <2>3 DEF Finishes, Arrives
    <3>2. (d - s) * (d - new) > 0
      BY <2>1, <3>1, SameSign
    <3>3. Square(new - x) <= Square(step)
      BY <3>1, SquareNat
    <3>4. (d - s) * (d - new) \in Int
      BY <3>1
    <3>. QED
      BY <2>1, <3>2, <3>3, <3>4 DEF OnTheWay
  <2>. QED
    BY <2>2, <2>3
<1>. QED
  BY <1>1, <1>2, <1>3, <1>4

(* The sign of a unit's way on an axis.                                     *)
SameWay(s, d, x, new) == (new > x => d > s) /\ (new < x => d < s)

LEMMA LandingAhead ==
  ASSUME NEW s \in Int, NEW d \in Int, NEW x \in Int, NEW step \in Int,
         Heading(s, d, x) = 0 => step = 0, OnTheWay(s, d, x),
         Along(Heading(s, d, x), step),
         NEW new, new = IF Finishes(s, d, x + step) THEN d ELSE x + step
  PROVE  SameWay(s, d, x, new)
<1>1. /\ Heading(s, d, x) \in {-1, 0, 1}
      /\ Heading(s, d, x) = 0 <=> (d - s) * (d - x) <= 0
      /\ Heading(s, d, x) = 1 => d > x /\ d > s
      /\ Heading(s, d, x) = -1 => d < x /\ d < s
  BY HeadingType
<1>2. CASE Heading(s, d, x) = 0
  <2>1. (d - s) * (d - x) = 0
    BY <1>1, <1>2 DEF OnTheWay
  <2>2. d - s = 0 \/ d - x = 0
    BY <2>1, SameSign
  <2>3. x = d /\ step = 0
    BY <1>2, <2>2 DEF OnTheWay
  <2>. QED
    BY <2>3 DEF SameWay
<1>3. CASE Heading(s, d, x) = 1
  <2>1. d > x /\ d > s /\ step >= 0
    BY <1>1, <1>3 DEF Along
  <2>. QED
    BY <2>1 DEF SameWay
<1>4. CASE Heading(s, d, x) = -1
  <2>1. d < x /\ d < s /\ step <= 0
    BY <1>1, <1>4 DEF Along
  <2>. QED
    BY <2>1 DEF SameWay
<1>. QED
  BY <1>1, <1>2, <1>3, <1>4

-----------------------------------------------------------------------------
(* The rows of images.                                                      *)

LEMMA DirectionBounds ==
  ASSUME NEW q \in Nat \ {0}, NEW n \in 0 .. 4 * q, NEW row,
         row = (n * 17) \div (2 * q)
  PROVE  /\ row \in 0 .. 34
         /\ n = 4 * q => row = 34
         /\ n <= q => row <= 8
         /\ n >= q => row >= 8
         /\ n <= 2 * q => row <= 17
         /\ n >= 2 * q => row >= 17
         /\ n <= 3 * q => row <= 25
         /\ n >= 3 * q => row >= 25
<1>1. PICK r \in 0 .. 2 * q - 1 : row \in Nat /\ n * 17 = (2 * q) * row + r
  BY DivBounds, n * 17 \in Nat, 2 * q \in Nat \ {0}
<1>. DEFINE x == row * q
<1>2. x \in Nat /\ n * 17 = 2 * x + r
  BY <1>1
<1>3. \A k \in Nat :
        /\ row >= k => x >= k * q
        /\ row <= k => x <= k * q
  BY <1>1, TimesGrows
<1>4. /\ row >= 35 => x >= 35 * q
      /\ row <= 33 => x <= 33 * q
      /\ row >= 9 => x >= 9 * q
      /\ row <= 7 => x <= 7 * q
      /\ row >= 18 => x >= 18 * q
      /\ row <= 16 => x <= 16 * q
      /\ row >= 26 => x >= 26 * q
      /\ row <= 24 => x <= 24 * q
  BY <1>3
<1>. HIDE DEF x
<1>. QED
  BY <1>1, <1>2, <1>4

LEMMA RowShows ==
  ASSUME NEW q \in Nat \ {0}, NEW dx \in Int, NEW dy \in Int,
         NEW a \in Angles(dx, dy, q)
  PROVE  Shows(Row(a, q), dx, dy)
<1>. DEFINE n == IF a < q THEN q - a ELSE 5 * q - a
            row == (n * 17) \div (2 * q)
<1>1. /\ a \in 0 .. 4 * q
      /\ dx > 0 => a <= q \/ a >= 3 * q
      /\ dx < 0 => q <= a /\ a <= 3 * q
      /\ dy > 0 => a >= 2 * q
      /\ dy < 0 => a <= 2 * q
  BY DEF Angles
<1>2. n \in 0 .. 4 * q
  BY <1>1
<1>3. Direction(a, q) = row
  <2>1. /\ 4 * q - (a - q) = 5 * q - a
        /\ 5 * q - a > 4 * q <=> a < q
        /\ (5 * q - a) - 4 * q = q - a
    BY <1>1
  <2>. QED
    BY <1>1, <2>1 DEF Direction
<1>4. Row(a, q) = IF row = 34 THEN 0 ELSE row
  BY <1>3 DEF Row
<1>. HIDE DEF row
<1>5. /\ row \in 0 .. 34
      /\ n = 4 * q => row = 34
      /\ n <= q => row <= 8
      /\ n >= q => row >= 8
      /\ n <= 2 * q => row <= 17
      /\ n >= 2 * q => row >= 17
      /\ n <= 3 * q => row <= 25
      /\ n >= 3 * q => row >= 25
  BY <1>2, DirectionBounds DEF row
<1>6. dx > 0 => Row(a, q) <= 17
  BY <1>1, <1>4, <1>5
<1>7. dx < 0 => Row(a, q) = 0 \/ Row(a, q) >= 17
  BY <1>1, <1>4, <1>5
<1>8. dy > 0 => 8 <= Row(a, q) /\ Row(a, q) <= 25
  BY <1>1, <1>4, <1>5
<1>9. dy < 0 => Row(a, q) <= 8 \/ Row(a, q) >= 25
  BY <1>1, <1>4, <1>5
<1>. QED
  BY <1>4, <1>5, <1>6, <1>7, <1>8, <1>9 DEF Shows

-----------------------------------------------------------------------------
(* The invariant: types, and units on their way to a point between where     *)
(* they started and that point.  A unit whose way has no extent on one axis  *)
(* must stay there, or NeverPast would not keep it from leaving the line.    *)
UnitOnTheWay(m, p) ==
  m.active /\ m.target = NoTarget =>
    /\ OnTheWay(m.start.x, m.dest.x, p.x)
    /\ OnTheWay(m.start.y, m.dest.y, p.y)

AllOnTheWay == \A u \in Units : UnitOnTheWay(move[u], pos[u])

LEMMA IdleType == Idle \in Moving /\ ~Idle.active /\ Idle.target = NoTarget
BY DEF Idle, Moving, Place, NoTarget

LEMMA InitInvariant == Init => TypeOK /\ AllOnTheWay
<1>1. Init => TypeOK
  BY PlacesAssumption, IdleType DEF Init, TypeOK
<1>2. Init => AllOnTheWay
  BY IdleType DEF Init, AllOnTheWay, UnitOnTheWay
<1>. QED
  BY <1>1, <1>2

LEMMA NextTurnType == ASSUME TypeOK, NextTurn PROVE turn' \in Units \cup {0}
BY DEF NextTurn

LEMMA StartsThere == \A n, d \in Int : OnTheWay(n, d, n)
<1>. SUFFICES ASSUME NEW n \in Int, NEW d \in Int PROVE OnTheWay(n, d, n)
  OBVIOUS
<1>1. (d - n) * (d - n) >= 0
  BY SquareNat, d - n \in Int DEF Square
<1>. QED
  BY <1>1 DEF OnTheWay

LEMMA BeginStep ==
  ASSUME TypeOK, AllOnTheWay, NEW target \in Units \cup {NoTarget},
         NEW dest \in Place, Begin(target, dest)
  PROVE  TypeOK' /\ AllOnTheWay'
<1>. DEFINE m == [active |-> TRUE, target |-> target, start |-> pos[turn],
                  dest |-> dest]
<1>1. /\ turn \in Units /\ move' = [move EXCEPT ![turn] = m]
      /\ UNCHANGED <<pos, turn, delta, setBacks>> /\ moves' = moves + 1
  BY DEF Begin
<1>2. /\ pos[turn] \in Place /\ m \in Moving
  BY <1>1 DEF TypeOK, Moving
<1>3. /\ m.start.x = pos[turn].x /\ m.start.y = pos[turn].y
      /\ m.dest = dest
      /\ pos[turn].x \in Int /\ pos[turn].y \in Int
      /\ dest.x \in Int /\ dest.y \in Int
  BY <1>2 DEF Place
<1>4. UnitOnTheWay(m, pos[turn])
  <2>. HIDE DEF m
  <2>. QED
    BY <1>3, StartsThere DEF UnitOnTheWay
<1>. HIDE DEF m
<1>5. TypeOK'
  BY <1>1, <1>2 DEF TypeOK
<1>6. AllOnTheWay'
  <2>1. SUFFICES ASSUME NEW u \in Units PROVE UnitOnTheWay(move'[u], pos[u])
    BY <1>1 DEF AllOnTheWay
  <2>2. move'[u] = IF u = turn THEN m ELSE move[u]
    BY <1>1 DEF TypeOK
  <2>. QED
    BY <1>4, <2>2 DEF AllOnTheWay
<1>. QED
  BY <1>5, <1>6

LEMMA CatchStep ==
  ASSUME TypeOK, AllOnTheWay, Catch PROVE TypeOK' /\ AllOnTheWay'
<1>1. /\ move' = [move EXCEPT ![turn] = Idle] /\ turn \in Units
      /\ UNCHANGED <<pos, delta, setBacks, moves>>
  BY DEF Catch
<1>2. turn' \in Units \cup {0}
  BY NextTurnType DEF Catch
<1>3. TypeOK'
  BY <1>1, <1>2, IdleType DEF TypeOK
<1>4. AllOnTheWay'
  <2>1. SUFFICES ASSUME NEW u \in Units PROVE UnitOnTheWay(move'[u], pos[u])
    BY <1>1 DEF AllOnTheWay
  <2>2. move'[u] = IF u = turn THEN Idle ELSE move[u]
    BY <1>1 DEF TypeOK
  <2>. QED
    BY <2>2, IdleType DEF AllOnTheWay, UnitOnTheWay
<1>. QED
  BY <1>3, <1>4

(* A step of Move::process; on the way to a point also within the speed.    *)
(* Where u goes is where its Move leads.                                    *)
GoesAhead(u) ==
  /\ SameWay(move[u].start.x, move[u].dest.x, pos[u].x, pos'[u].x)
  /\ SameWay(move[u].start.y, move[u].dest.y, pos[u].y, pos'[u].y)

LEMMA WalkStep ==
  ASSUME TypeOK, AllOnTheWay, Walk
  PROVE  /\ TypeOK' /\ AllOnTheWay'
         /\ move[turn].target = NoTarget => WithinSpeed(turn)
         /\ move[turn].target = NoTarget /\ delta >= 0 => GoesAhead(turn)
<1>. DEFINE chase == move[turn].target # NoTarget
            m == [move[turn] EXCEPT !.dest = IF chase THEN pos[move[turn].target]
                                             ELSE @]
            p == pos[turn]
            l == Speed[turn] * delta
            step == Step(m, p, l)
            atX == Finishes(m.start.x, m.dest.x, p.x + step.x)
            atY == Finishes(m.start.y, m.dest.y, p.y + step.y)
            newX == IF atX THEN m.dest.x ELSE p.x + step.x
            newY == IF atY THEN m.dest.y ELSE p.y + step.y
            new == [x |-> newX, y |-> newY]
            then == IF atX /\ atY THEN Idle ELSE m
<1>1. /\ turn \in Units /\ move[turn].active
      /\ pos' = [pos EXCEPT ![turn] = new]
      /\ move' = [move EXCEPT ![turn] = then]
      /\ UNCHANGED <<delta, setBacks, moves>>
  BY DEF Walk
<1>2. /\ move[turn] \in Moving /\ p \in Place /\ l \in Int
      /\ delta >= 0 => l >= 0
      /\ chase => pos[move[turn].target] \in Place
  <2>1. /\ move[turn] \in Moving /\ p \in Place
        /\ move[turn].target \in Units \cup {NoTarget}
    BY <1>1 DEF TypeOK, Moving
  <2>2. l \in Int /\ (delta >= 0 => l >= 0)
    <3>1. turn \in Units
      BY <1>1
    <3>2. Speed[turn] \in Nat /\ delta \in Int
      BY <3>1, ScaleAssumption DEF TypeOK
    <3>. QED
      BY <3>2
  <2>3. chase => pos[move[turn].target] \in Place
    BY <2>1 DEF TypeOK
  <2>. HIDE DEF p, l, chase
  <2>. QED
    BY <2>1, <2>2, <2>3
<1>3. /\ m \in Moving /\ m.start = move[turn].start
      /\ m.target = move[turn].target /\ m.active = move[turn].active
      /\ ~chase => m.dest = move[turn].dest
  BY <1>2 DEF Moving
<1>4. m.start \in Place /\ m.dest \in Place
  BY <1>3 DEF Moving
<1>. HIDE DEF m, p, l
<1>5. /\ step.x \in Int /\ step.y \in Int
      /\ Heading(m.start.x, m.dest.x, p.x) = 0 => step.x = 0
      /\ Heading(m.start.y, m.dest.y, p.y) = 0 => step.y = 0
      /\ Square(step.x) + Square(step.y) <= Square(l)
      /\ l >= 0 => /\ Along(Heading(m.start.x, m.dest.x, p.x), step.x)
                   /\ Along(Heading(m.start.y, m.dest.y, p.y), step.y)
  BY <1>2, <1>4, StepProperties
<1>. HIDE DEF step
<1>6. /\ m.start.x \in Int /\ m.start.y \in Int /\ m.dest.x \in Int
      /\ m.dest.y \in Int /\ p.x \in Int /\ p.y \in Int
  BY <1>2, <1>4 DEF Place
<1>7. newX \in Int /\ newY \in Int
  BY <1>5, <1>6
<1>8. new \in Place /\ new.x = newX /\ new.y = newY
  BY <1>7 DEF Place
<1>9. then \in Moving
  BY <1>3, IdleType
<1>10. TypeOK'
  <2>1. turn' \in Units \cup {0}
    BY NextTurnType DEF Walk
  <2>. HIDE DEF new, then
  <2>2. pos' \in [Units -> Place] /\ move' \in [Units -> Moving]
    BY <1>1, <1>8, <1>9 DEF TypeOK
  <2>. QED
    BY <1>1, <2>1, <2>2 DEF TypeOK
<1>11. ASSUME ~chase
       PROVE  /\ OnTheWay(m.start.x, m.dest.x, newX)
              /\ OnTheWay(m.start.y, m.dest.y, newY)
              /\ Square(newX - p.x) <= Square(step.x)
              /\ Square(newY - p.y) <= Square(step.y)
  <2>1. /\ OnTheWay(m.start.x, m.dest.x, p.x)
        /\ OnTheWay(m.start.y, m.dest.y, p.y)
    BY <1>1, <1>3, <1>11 DEF AllOnTheWay, UnitOnTheWay, p
  <2>2. /\ OnTheWay(m.start.x, m.dest.x, newX)
        /\ Square(newX - p.x) <= Square(step.x)
    BY <1>5, <1>6, <2>1, Landing
  <2>3. /\ OnTheWay(m.start.y, m.dest.y, newY)
        /\ Square(newY - p.y) <= Square(step.y)
    BY <1>5, <1>6, <2>1, Landing
  <2>. QED
    BY <2>2, <2>3
<1>12. AllOnTheWay'
  <2>1. SUFFICES ASSUME NEW u \in Units
                 PROVE  UnitOnTheWay(move'[u], pos'[u])
    BY DEF AllOnTheWay
  <2>2. CASE u # turn
    <3>1. move'[u] = move[u] /\ pos'[u] = pos[u]
      BY <1>1, <2>2 DEF TypeOK
    <3>. QED
      BY <3>1 DEF AllOnTheWay
  <2>3. CASE u = turn
    <3>1. move'[u] = then /\ pos'[u] = new
      BY <1>1, <2>3 DEF TypeOK
    <3>2. CASE atX /\ atY
      BY <3>1, <3>2, IdleType DEF UnitOnTheWay
    <3>3. CASE ~(atX /\ atY)
      <4>1. then = m
        BY <3>3
      <4>2. m.target = NoTarget => ~chase
        BY <1>3
      <4>. HIDE DEF newX, newY, then, new, chase
      <4>. QED
        BY <1>8, <1>11, <3>1, <4>1, <4>2 DEF UnitOnTheWay
    <3>. QED
      BY <3>2, <3>3
  <2>. QED
    BY <2>2, <2>3
<1>13. ASSUME ~chase PROVE WithinSpeed(turn)
  <2>. HIDE DEF newX, newY, chase
  <2>1. pos'[turn] = new
    BY <1>1 DEF TypeOK
  <2>2. SquaredDistance(p, new) = Square(newX - p.x) + Square(newY - p.y)
    BY <1>8 DEF SquaredDistance
  <2>3. /\ Square(newX - p.x) \in Nat /\ Square(newY - p.y) \in Nat
        /\ Square(step.x) \in Nat /\ Square(step.y) \in Nat
        /\ Square(l) \in Nat
    BY <1>2, <1>5, <1>6, <1>7, SquareNat
  <2>4. Square(newX - p.x) + Square(newY - p.y) <= Square(l)
    BY <1>5, <1>11, <1>13, <2>3
  <2>. HIDE DEF new
  <2>. QED
    BY <2>1, <2>2, <2>4 DEF WithinSpeed, p, l
<1>14. ASSUME ~chase, delta >= 0 PROVE GoesAhead(turn)
  <2>1. /\ OnTheWay(m.start.x, m.dest.x, p.x)
        /\ OnTheWay(m.start.y, m.dest.y, p.y)
    BY <1>1, <1>3, <1>14 DEF AllOnTheWay, UnitOnTheWay, p
  <2>2. SameWay(m.start.x, m.dest.x, p.x, newX)
    BY <1>2, <1>5, <1>6, <1>14, <2>1, LandingAhead
  <2>3. SameWay(m.start.y, m.dest.y, p.y, newY)
    BY <1>2, <1>5, <1>6, <1>14, <2>1, LandingAhead
  <2>4. /\ pos'[turn].x = newX /\ pos'[turn].y = newY
        /\ m.start = move[turn].start /\ m.dest = move[turn].dest
    BY <1>1, <1>3, <1>8, <1>14 DEF TypeOK
  <2>. QED
    BY <2>2, <2>3, <2>4 DEF GoesAhead, p
<1>. QED
  BY <1>10, <1>12, <1>13, <1>14

LEMMA StaysWithinSpeed ==
  ASSUME TypeOK, NEW u \in Units, pos'[u] = pos[u]
  PROVE  WithinSpeed(u) /\ GoesAhead(u)
<1>1. pos[u].x \in Int /\ pos[u].y \in Int /\ Speed[u] * delta \in Int
  BY ScaleAssumption DEF TypeOK, Place
<1>2. SquaredDistance(pos[u], pos'[u]) = 0
  BY <1>1 DEF SquaredDistance, Square
<1>3. GoesAhead(u)
  BY <1>1 DEF GoesAhead, SameWay
<1>. QED
  BY <1>1, <1>2, <1>3, SquareNat DEF WithinSpeed

LEMMA FieldStep ==
  ASSUME TypeOK, AllOnTheWay, [Next]_vars
  PROVE  /\ TypeOK' /\ AllOnTheWay'
         /\ \A u \in Units : move[u].target = NoTarget =>
              WithinSpeed(u) /\ (delta >= 0 => GoesAhead(u))
<1>1. ASSUME NEW target \in Units \cup {NoTarget}, NEW dest \in Place,
             Begin(target, dest)
      PROVE  TypeOK' /\ AllOnTheWay' /\ pos' = pos
  BY <1>1, BeginStep DEF Begin
<1>2. CASE GoTo \/ Follow
  <2>1. \E target \in Units \cup {NoTarget}, dest \in Place : Begin(target, dest)
    BY <1>2, PlacesAssumption DEF GoTo, Follow, TypeOK
  <2>. QED
    BY <1>1, <2>1, StaysWithinSpeed
<1>3. CASE Catch
  <2>1. pos' = pos
    BY <1>3 DEF Catch
  <2>. QED
    BY <1>3, <2>1, CatchStep, StaysWithinSpeed
<1>4. CASE Walk
  <2>1. \A u \in Units \ {turn} : pos'[u] = pos[u]
    BY <1>4 DEF Walk, TypeOK
  <2>2. ASSUME NEW u \in Units, move[u].target = NoTarget
        PROVE  WithinSpeed(u) /\ (delta >= 0 => GoesAhead(u))
    BY <1>4, <2>1, <2>2, WalkStep, StaysWithinSpeed
  <2>. QED
    BY <1>4, <2>2, WalkStep
<1>5. CASE Tick \/ TickBack \/ Rest \/ UNCHANGED vars
  <2>1. pos' = pos /\ move' = move
    BY <1>5 DEF Tick, TickBack, Rest, vars
  <2>2. /\ delta' \in Int /\ setBacks' \in Nat /\ moves' \in Nat
    <3>1. CASE Tick
      BY <3>1, FramesAssumption DEF Tick, TypeOK
    <3>2. CASE TickBack
      BY <3>2, FramesAssumption DEF TickBack, TypeOK
    <3>3. CASE Rest \/ UNCHANGED vars
      BY <3>3 DEF Rest, vars, TypeOK
    <3>. QED
      BY <1>5, <3>1, <3>2, <3>3
  <2>3. turn' \in Units \cup {0}
    <3>1. CASE Rest
      BY <3>1, NextTurnType DEF Rest
    <3>2. CASE Tick \/ TickBack
      <4>1. turn' = 1
        BY <3>2 DEF Tick, TickBack
      <4>2. 1 \in Units
        BY PlacesAssumption DEF Units
      <4>. QED
        BY <4>1, <4>2
    <3>3. CASE UNCHANGED vars
      BY <3>3 DEF vars, TypeOK
    <3>. QED
      BY <1>5, <3>1, <3>2, <3>3
  <2>4. TypeOK'
    BY <2>1, <2>2, <2>3 DEF TypeOK
  <2>5. AllOnTheWay'
    BY <2>1 DEF AllOnTheWay
  <2>. QED
    BY <2>1, <2>4, <2>5, StaysWithinSpeed
<1>. QED
  BY <1>2, <1>3, <1>4, <1>5 DEF Next, Frame

LEMMA FieldInvariant == Spec => [](TypeOK /\ AllOnTheWay)
<1>1. TypeOK /\ AllOnTheWay /\ [Next]_vars => (TypeOK /\ AllOnTheWay)'
  BY FieldStep
<1>. QED
  BY <1>1, InitInvariant, PTL DEF Spec

(* The values the variables take, truncated roots included.                 *)
THEOREM FieldTypeCorrect == Spec => []TypeOK
BY FieldInvariant, PTL

(* Move::process, its test against the start point: no frame is too long     *)
(* and no clock set back too far for a unit to pass the point it goes to.    *)
THEOREM UnitsStopThere == Spec => []NeverPast
<1>1. AllOnTheWay => NeverPast
  BY DEF AllOnTheWay, UnitOnTheWay, OnTheWay, NeverPast
<1>. QED
  BY <1>1, FieldInvariant, PTL

(* Move::calculateSpeed: on the way to a point the two components of a step  *)
(* never add up to more than the speed allows.                               *)
THEOREM StraightWaysInTime == Spec => StraightIsInTime
<1>1. TypeOK /\ AllOnTheWay /\ [Next]_vars
        => [\A u \in Units : move[u].target = NoTarget => WithinSpeed(u)]_vars
  BY FieldStep
<1>. QED
  BY <1>1, FieldInvariant, PTL DEF Spec, StraightIsInTime

(* Coordinate::calculateAngle, convertAngleToDirection and Move::process      *)
(* agree: the image of a unit that goes to a point looks where the unit goes, *)
(* whatever the angle is rounded to, and its row always exists.              *)
THEOREM UnitsLookAhead == Spec => LooksAhead
<1>1. ASSUME TypeOK, AllOnTheWay, [Next]_vars, NEW u \in Units,
             move[u].active, move[u].target = NoTarget, delta >= 0,
             NEW a \in Facing(move[u])
      PROVE  Shows(Row(a, Quarter),
                   pos'[u].x - pos[u].x, pos'[u].y - pos[u].y)
  <2>. DEFINE dx == move[u].dest.x - move[u].start.x
              dy == move[u].dest.y - move[u].start.y
  <2>1. GoesAhead(u) /\ TypeOK'
    BY <1>1, FieldStep
  <2>2. /\ pos[u] \in Place /\ pos'[u] \in Place
        /\ move[u].start \in Place /\ move[u].dest \in Place
    BY <1>1, <2>1 DEF TypeOK, Moving
  <2>3. /\ pos[u].x \in Int /\ pos'[u].x \in Int
        /\ pos[u].y \in Int /\ pos'[u].y \in Int
        /\ move[u].start.x \in Int /\ move[u].dest.x \in Int
        /\ move[u].start.y \in Int /\ move[u].dest.y \in Int
    BY <2>2 DEF Place
  <2>4. Shows(Row(a, Quarter), dx, dy)
    BY <1>1, <2>3, RowShows, ScaleAssumption DEF Facing
  <2>5. /\ pos'[u].x - pos[u].x > 0 => dx > 0
        /\ pos'[u].x - pos[u].x < 0 => dx < 0
        /\ pos'[u].y - pos[u].y > 0 => dy > 0
        /\ pos'[u].y - pos[u].y < 0 => dy < 0
    BY <2>1, <2>3 DEF GoesAhead, SameWay
  <2>. HIDE DEF dx, dy
  <2>. QED
    BY <2>4, <2>5 DEF Shows
<1>2. TypeOK /\ AllOnTheWay /\ [Next]_vars
        => [\A u \in Units :
              move[u].active /\ move[u].target = NoTarget /\ delta >= 0 =>
                \A a \in Facing(move[u]) :
                  Shows(Row(a, Quarter),
                        pos'[u].x - pos[u].x, pos'[u].y - pos[u].y)]_vars
  BY <1>1
<1>. QED
  BY <1>2, FieldInvariant, PTL DEF Spec, LooksAhead

(* Object::insideRect and normalizeTopLeftCoordinate: a rectangle picks what *)
(* it covers, from whichever corner it was drawn and of whatever size.       *)
THEOREM RectanglesExact == Spec => []PicksWhatItCovers
BY FieldInvariant, CoverExact, PTL

(* GameUI_ncurses::drawObject rounds, processFrame multiplies: Enter on any   *)
(* cell that shows an object picks it, wherever it is.                       *)
THEOREM TerminalIsExact == Spec => []PicksWhatIsDrawn
BY FieldInvariant, DrawnIsPicked, PTL

=============================================================================
