---------------------------- MODULE RosterProofs ----------------------------
(***************************************************************************)
(* The accounts of a roster are exact: what is added when an object is     *)
(* enlisted and taken away when it is discharged always amounts to the sum *)
(* over the objects in the game.                                           *)
(***************************************************************************)
EXTENDS Roster, FiniteSetTheorems, TLAPS

-----------------------------------------------------------------------------
(* Sums over finite sets.  Nothing is known of the order in which the fold  *)
(* takes the elements but that each is in the set.                          *)

SomeOf(s) == CHOOSE x \in s : TRUE

(* What the recursive function inside the fold satisfies, on the sets of at *)
(* most n elements.                                                         *)
Smaller(S, n) == {s \in SUBSET S : Cardinality(s) <= n}

SumEquation(g, f, D) ==
  g = [s \in D |-> IF s = {} THEN 0 ELSE f[SomeOf(s)] + g[s \ {SomeOf(s)}]]

LEMMA SomeOfIsMember ==
  ASSUME NEW s, s # {}
  PROVE  SomeOf(s) \in s
BY DEF SomeOf

LEMMA LeastNumber ==
  ASSUME NEW T \in SUBSET Nat, T # {}
  PROVE  \E n \in T : \A m \in T : n <= m
<1>. DEFINE Below == {ss \in Nat \X Nat : ss[1] < ss[2]}
<1>1. IsWellFoundedOn(Below, Nat)
  BY NatLessThanWellFounded DEF OpToRel
<1>. HIDE DEF Below
<1>2. PICK n \in T : \A m \in T : ~(<<m, n>> \in Below)
  BY <1>1, WFMin
<1>3. ASSUME NEW m \in T PROVE n <= m
  <2>1. m < n => <<m, n>> \in Below
    BY DEF Below
  <2>. QED
    BY <1>2, <2>1
<1>. QED
  BY <1>3

LEMMA NaturalsFromZero ==
  ASSUME NEW T \in SUBSET Nat, 0 \in T, \A n \in T : n + 1 \in T
  PROVE  T = Nat
<1>1. ASSUME Nat \ T # {} PROVE FALSE
  <2>1. PICK n \in Nat \ T : \A m \in Nat \ T : n <= m
    BY <1>1, LeastNumber
  <2>2. n # 0 /\ n - 1 \in Nat /\ n - 1 < n
    BY <2>1
  <2>3. n - 1 \in T
    BY <2>1, <2>2
  <2>. QED
    BY <2>1, <2>2, <2>3
<1>. QED
  BY <1>1

(* The function the fold chooses exists.                                    *)
LEMMA SumExists ==
  ASSUME NEW S, IsFiniteSet(S), NEW f
  PROVE  \E g : SumEquation(g, f, SUBSET S)
<1>. DEFINE T == {n \in Nat : \E g : SumEquation(g, f, Smaller(S, n))}
<1>1. \A s \in SUBSET S : IsFiniteSet(s) /\ Cardinality(s) \in Nat
  BY FS_Subset, FS_CardinalityType
<1>2. \A s \in SUBSET S : s # {} =>
        /\ s \ {SomeOf(s)} \in SUBSET S
        /\ Cardinality(s \ {SomeOf(s)}) = Cardinality(s) - 1
  BY <1>1, SomeOfIsMember, FS_RemoveElement
<1>3. 0 \in T
  <2>. DEFINE g == [s \in Smaller(S, 0) |-> 0]
  <2>1. \A s \in Smaller(S, 0) : s = {}
    BY <1>1, FS_EmptySet DEF Smaller
  <2>2. SumEquation(g, f, Smaller(S, 0))
    BY <2>1 DEF SumEquation
  <2>. QED
    BY <2>2
<1>4. ASSUME NEW n \in T PROVE n + 1 \in T
  <2>1. PICK g : SumEquation(g, f, Smaller(S, n))
    OBVIOUS
  <2>. DEFINE Step(s) == IF s = {} THEN 0
                         ELSE f[SomeOf(s)] + g[s \ {SomeOf(s)}]
              h == [s \in Smaller(S, n + 1) |-> Step(s)]
  <2>2. ASSUME NEW s \in Smaller(S, n + 1), s # {}
        PROVE  s \ {SomeOf(s)} \in Smaller(S, n)
    BY <1>1, <1>2, <2>2 DEF Smaller
  <2>3. \A s \in Smaller(S, n) : s \in Smaller(S, n + 1) /\ g[s] = Step(s)
    <3>1. n \in Nat
      OBVIOUS
    <3>2. \A s \in Smaller(S, n) : s \in Smaller(S, n + 1)
      BY <1>1, <3>1 DEF Smaller
    <3>3. \A s \in Smaller(S, n) : g[s] = Step(s)
      BY <2>1 DEF SumEquation
    <3>. QED
      BY <3>2, <3>3
  <2>4. \A s \in Smaller(S, n) : h[s] = g[s]
    BY <2>3
  <2>5. \A s \in Smaller(S, n + 1) :
          Step(s) = IF s = {} THEN 0
                    ELSE f[SomeOf(s)] + h[s \ {SomeOf(s)}]
    BY <2>2, <2>4
  <2>6. SumEquation(h, f, Smaller(S, n + 1))
    BY <2>5 DEF SumEquation
  <2>. QED
    BY <2>6
<1>5. T = Nat
  BY <1>3, <1>4, NaturalsFromZero
<1>6. SUBSET S = Smaller(S, Cardinality(S))
  BY FS_Subset, FS_CardinalityType DEF Smaller
<1>7. Cardinality(S) \in T
  BY <1>1, <1>5
<1>. QED
  BY <1>6, <1>7

(* Two such functions agree wherever both are defined.                      *)
LEMMA SumUnique ==
  ASSUME NEW S, NEW T, NEW f, NEW g, NEW h, IsFiniteSet(S), T \subseteq S,
         SumEquation(g, f, SUBSET S), SumEquation(h, f, SUBSET T)
  PROVE  g[T] = h[T]
<1>. DEFINE Odd == {s \in SUBSET T : g[s] # h[s]}
            Sizes == {Cardinality(s) : s \in Odd}
<1>1. \A s \in SUBSET T : IsFiniteSet(s) /\ Cardinality(s) \in Nat
  BY FS_Subset, FS_CardinalityType
<1>2. ASSUME Odd # {} PROVE FALSE
  <2>1. Sizes \in SUBSET Nat /\ Sizes # {}
    BY <1>1, <1>2
  <2>2. PICK n \in Sizes : \A m \in Sizes : n <= m
    BY <2>1, LeastNumber
  <2>3. PICK s \in Odd : Cardinality(s) = n
    OBVIOUS
  <2>4. g[{}] = 0 /\ h[{}] = 0
    BY DEF SumEquation
  <2>5. s # {}
    BY <2>3, <2>4
  <2>. DEFINE r == s \ {SomeOf(s)}
  <2>6. r \in SUBSET T /\ Cardinality(r) = Cardinality(s) - 1
    BY <1>1, <2>5, SomeOfIsMember, FS_RemoveElement
  <2>7. g[r] = h[r]
    BY <1>1, <2>2, <2>3, <2>6
  <2>8. g[s] = f[SomeOf(s)] + g[r] /\ h[s] = f[SomeOf(s)] + h[r]
    BY <2>5 DEF SumEquation
  <2>. QED
    BY <2>3, <2>7, <2>8
<1>. QED
  BY <1>2

LEMMA SumIsFold ==
  ASSUME NEW S, IsFiniteSet(S), NEW f
  PROVE  \E g : SumEquation(g, f, SUBSET S) /\ SumFunctionOnSet(f, S) = g[S]
<1>. DEFINE g == CHOOSE g : SumEquation(g, f, SUBSET S)
<1>1. SumEquation(g, f, SUBSET S)
  BY SumExists
<1>2. SumFunctionOnSet(f, S) = g[S]
  BY DEF SumFunctionOnSet, FoldFunctionOnSet, MapThenFoldSet, SumEquation, SomeOf
<1>. QED
  BY <1>1, <1>2

(* The sum satisfies the equation.                                          *)
LEMMA SumDefined ==
  ASSUME NEW S, IsFiniteSet(S), NEW f
  PROVE  /\ SumFunctionOnSet(f, {}) = 0
         /\ S # {} => SumFunctionOnSet(f, S)
                        = f[SomeOf(S)] + SumFunctionOnSet(f, S \ {SomeOf(S)})
<1>1. SumFunctionOnSet(f, {}) = 0
  <2>1. PICK g : SumEquation(g, f, SUBSET {}) /\ SumFunctionOnSet(f, {}) = g[{}]
    BY SumIsFold, FS_EmptySet
  <2>. QED
    BY <2>1 DEF SumEquation
<1>2. ASSUME S # {}
      PROVE  SumFunctionOnSet(f, S)
               = f[SomeOf(S)] + SumFunctionOnSet(f, S \ {SomeOf(S)})
  <2>. DEFINE R == S \ {SomeOf(S)}
  <2>1. R \in SUBSET S /\ IsFiniteSet(R)
    BY FS_Subset
  <2>2. PICK g : SumEquation(g, f, SUBSET S) /\ SumFunctionOnSet(f, S) = g[S]
    BY SumIsFold
  <2>3. PICK h : SumEquation(h, f, SUBSET R) /\ SumFunctionOnSet(f, R) = h[R]
    BY <2>1, SumIsFold
  <2>. HIDE DEF R
  <2>4. g[R] = h[R]
    <3>1. R \in SUBSET S /\ SumEquation(g, f, SUBSET S)
      BY <2>1, <2>2
    <3>2. SumEquation(h, f, SUBSET R)
      BY <2>3
    <3>. QED
      BY <3>1, <3>2, SumUnique
  <2>5. g[S] = f[SomeOf(S)] + g[R]
    BY <1>2, <2>2 DEF SumEquation, R
  <2>. QED
    BY <2>2, <2>3, <2>4, <2>5 DEF R
<1>. QED
  BY <1>1, <1>2

(* Sums of integers are integers, and any one element can be taken out.     *)
LEMMA SumTakesOut ==
  ASSUME NEW S, IsFiniteSet(S), NEW f, \A x \in S : f[x] \in Int
  PROVE  /\ SumFunctionOnSet(f, S) \in Int
         /\ \A x \in S : SumFunctionOnSet(f, S)
                            = f[x] + SumFunctionOnSet(f, S \ {x})
<1>. DEFINE Sound(s) ==
              /\ SumFunctionOnSet(f, s) \in Int
              /\ \A x \in s : SumFunctionOnSet(f, s)
                                 = f[x] + SumFunctionOnSet(f, s \ {x})
            Odd == {s \in SUBSET S : ~Sound(s)}
            Sizes == {Cardinality(s) : s \in Odd}
<1>1. \A s \in SUBSET S : IsFiniteSet(s) /\ Cardinality(s) \in Nat
  BY FS_Subset, FS_CardinalityType
<1>2. ASSUME Odd # {} PROVE FALSE
  <2>1. Sizes \in SUBSET Nat /\ Sizes # {}
    BY <1>1, <1>2
  <2>2. PICK n \in Sizes : \A m \in Sizes : n <= m
    BY <2>1, LeastNumber
  <2>3. PICK s \in Odd : Cardinality(s) = n
    OBVIOUS
  <2>4. s \in SUBSET S /\ ~Sound(s)
    OBVIOUS
  <2>. HIDE DEF Sound
  <2>5. ASSUME NEW r \in SUBSET s, r # s
        PROVE  r \in SUBSET S /\ Sound(r)
    <3>1. r \in SUBSET S
      BY <2>4
    <3>2. Cardinality(r) < Cardinality(s)
      BY <1>1, <2>4, <2>5, <3>1, FS_Subset
    <3>. QED
      BY <1>1, <2>2, <2>3, <3>1, <3>2
  <2>6. SumFunctionOnSet(f, {}) = 0
    BY SumDefined, FS_EmptySet
  <2>7. s # {}
    <3>1. Sound({})
      BY <2>6 DEF Sound
    <3>. QED
      BY <2>4, <3>1
  <2>. DEFINE c == SomeOf(s)
  <2>8. c \in s /\ f[c] \in Int
    BY <2>4, <2>7, SomeOfIsMember
  <2>. HIDE DEF c
  <2>9. SumFunctionOnSet(f, s) = f[c] + SumFunctionOnSet(f, s \ {c})
    BY <1>1, <2>4, <2>7, SumDefined DEF c
  <2>10. SumFunctionOnSet(f, s) \in Int
    BY <2>5, <2>8, <2>9 DEF Sound
  <2>11. ASSUME NEW x \in s
         PROVE  SumFunctionOnSet(f, s) = f[x] + SumFunctionOnSet(f, s \ {x})
    <3>1. CASE x = c
      BY <2>9, <3>1
    <3>2. CASE x # c
      <4>. DEFINE r == (s \ {x}) \ {c}
      <4>1. r = (s \ {c}) \ {x} /\ c \in s \ {x} /\ x \in s \ {c}
        BY <2>8, <3>2
      <4>2. SumFunctionOnSet(f, s \ {x}) = f[c] + SumFunctionOnSet(f, r)
        BY <2>5, <4>1 DEF Sound
      <4>3. SumFunctionOnSet(f, s \ {c}) = f[x] + SumFunctionOnSet(f, r)
        BY <2>5, <2>8, <4>1 DEF Sound
      <4>4. SumFunctionOnSet(f, r) \in Int
        BY <2>5, <4>1 DEF Sound
      <4>. QED
        BY <2>4, <2>8, <2>9, <4>2, <4>3, <4>4
    <3>. QED
      BY <3>1, <3>2
  <2>. QED
    BY <2>4, <2>10, <2>11 DEF Sound
<1>. QED
  BY <1>2

(* A sum depends on the function within the set only.                       *)
LEMMA SumSame ==
  ASSUME NEW S, IsFiniteSet(S), NEW f, NEW g, \A x \in S : f[x] = g[x]
  PROVE  SumFunctionOnSet(f, S) = SumFunctionOnSet(g, S)
<1>1. PICK i : SumEquation(i, f, SUBSET S) /\ SumFunctionOnSet(f, S) = i[S]
  BY SumIsFold
<1>2. PICK j : SumEquation(j, g, SUBSET S) /\ SumFunctionOnSet(g, S) = j[S]
  BY SumIsFold
<1>3. \A s \in SUBSET S : s # {} => f[SomeOf(s)] = g[SomeOf(s)]
  BY SomeOfIsMember
<1>4. SumEquation(i, g, SUBSET S)
  BY <1>1, <1>3 DEF SumEquation
<1>5. i[S] = j[S]
  <2>1. SumEquation(j, g, SUBSET S)
    BY <1>2
  <2>. QED
    BY <1>4, <2>1, SumUnique
<1>. QED
  BY <1>1, <1>2, <1>5

LEMMA SumAdds ==
  ASSUME NEW S, IsFiniteSet(S), NEW x, x \notin S,
         NEW f, \A y \in S \cup {x} : f[y] \in Int
  PROVE  SumFunctionOnSet(f, S \cup {x}) = SumFunctionOnSet(f, S) + f[x]
<1>1. IsFiniteSet(S \cup {x}) /\ (S \cup {x}) \ {x} = S
  BY FS_AddElement
<1>2. SumFunctionOnSet(f, S \cup {x}) = f[x] + SumFunctionOnSet(f, S)
  BY <1>1, SumTakesOut
<1>3. SumFunctionOnSet(f, S) \in Int
  BY SumTakesOut
<1>. QED
  BY <1>2, <1>3

-----------------------------------------------------------------------------
(* The accounts.                                                            *)

RosterTypeOK ==
  /\ enlisted \in Nat
  /\ post \in [DOMAIN post -> Post] /\ DOMAIN post \subseteq 1 .. enlisted
  /\ supplies \in [Players -> [Races -> Counter]]

Accounts == RosterTypeOK /\ LedgerExact

LEMMA HeldIsFinite ==
  ASSUME RosterTypeOK, NEW p, NEW r
  PROVE  /\ IsFiniteSet(DOMAIN post) /\ IsFiniteSet(Held(p, r))
         /\ Held(p, r) \subseteq DOMAIN post
<1>1. IsFiniteSet(1 .. enlisted)
  BY FS_Interval DEF RosterTypeOK
<1>2. IsFiniteSet(DOMAIN post)
  BY <1>1, FS_Subset DEF RosterTypeOK
<1>3. Held(p, r) \subseteq DOMAIN post
  BY DEF Held
<1>. QED
  BY <1>2, <1>3, FS_Subset

(* What an object counts for.                                               *)
LEMMA ShareType ==
  ASSUME RosterTypeOK, NEW o \in DOMAIN post
  PROVE  /\ post[o].proto \in Proto /\ post[o].owner \in Players
         /\ Attr[post[o].proto].race \in Races
         /\ Provided[o] = Attr[post[o].proto].provided /\ Provided[o] \in Int
         /\ Required[o] = Attr[post[o].proto].required /\ Required[o] \in Int
<1>1. post[o] \in Post
  BY DEF RosterTypeOK
<1>. QED
  BY <1>1, SuppliesAssumption DEF Post, Provided, Required

LEMMA LedgerTypes ==
  ASSUME NEW l \in [Players -> [Races -> Counter]], NEW p \in Players,
         NEW pr \in Proto
  PROVE  /\ Attach(l, p, pr) \in [Players -> [Races -> Counter]]
         /\ Detach(l, p, pr) \in [Players -> [Races -> Counter]]
<1>1. l[p] \in [Races -> Counter] /\ Attr[pr].race \in Races
  BY SuppliesAssumption
<1>2. l[p][Attr[pr].race] \in Counter
  BY <1>1
<1>. QED
  BY <1>1, <1>2, SuppliesAssumption DEF Attach, Detach, Counter

(* One counter after an object has been attached or detached.               *)
LEMMA OneCounter ==
  ASSUME NEW l \in [Players -> [Races -> Counter]], NEW p \in Players,
         NEW pr \in Proto, NEW q \in Players, NEW r \in Races
  PROVE  /\ l[q][r].cur \in Int /\ l[q][r].use \in Int
         /\ q = p /\ r = Attr[pr].race =>
              /\ Attach(l, p, pr)[q][r].cur = l[q][r].cur + Attr[pr].provided
              /\ Attach(l, p, pr)[q][r].use = l[q][r].use + Attr[pr].required
              /\ Detach(l, p, pr)[q][r].cur = l[q][r].cur - Attr[pr].provided
              /\ Detach(l, p, pr)[q][r].use = l[q][r].use - Attr[pr].required
         /\ ~(q = p /\ r = Attr[pr].race) =>
              /\ Attach(l, p, pr)[q][r] = l[q][r]
              /\ Detach(l, p, pr)[q][r] = l[q][r]
<1>1. l[q] \in [Races -> Counter] /\ l[p] \in [Races -> Counter]
  OBVIOUS
<1>2. l[q][r] \in Counter
  BY <1>1
<1>. QED
  BY <1>1, <1>2 DEF Attach, Detach, Counter

LEMMA EnlistType ==
  ASSUME RosterTypeOK, NEW pr \in Proto, NEW p \in Players, Enlist(pr, p)
  PROVE  /\ RosterTypeOK'
         /\ enlisted + 1 \notin DOMAIN post
         /\ DOMAIN post' = DOMAIN post \cup {enlisted + 1}
         /\ \A o \in DOMAIN post : post'[o] = post[o]
         /\ post'[enlisted + 1] = [proto |-> pr, owner |-> p]
<1>1. enlisted \in Nat /\ DOMAIN post \subseteq 1 .. enlisted
  BY DEF RosterTypeOK
<1>2. enlisted + 1 \notin DOMAIN post
  BY <1>1
<1>3. /\ DOMAIN post' = DOMAIN post \cup {enlisted + 1}
      /\ \A o \in DOMAIN post : post'[o] = post[o]
      /\ post'[enlisted + 1] = [proto |-> pr, owner |-> p]
  BY <1>2 DEF Enlist
<1>4. post' \in [DOMAIN post' -> Post]
  BY <1>3 DEF RosterTypeOK, Enlist, Post
<1>5. enlisted' \in Nat /\ DOMAIN post' \subseteq 1 .. enlisted'
  BY <1>1, <1>3 DEF Enlist
<1>6. supplies' \in [Players -> [Races -> Counter]]
  BY LedgerTypes DEF Enlist, RosterTypeOK
<1>. QED
  BY <1>2, <1>3, <1>4, <1>5, <1>6 DEF RosterTypeOK

LEMMA DischargeType ==
  ASSUME RosterTypeOK, NEW o \in DOMAIN post, Discharge(o)
  PROVE  /\ RosterTypeOK'
         /\ DOMAIN post' = DOMAIN post \ {o}
         /\ \A x \in DOMAIN post \ {o} : post'[x] = post[x]
<1>1. /\ DOMAIN post' = DOMAIN post \ {o}
      /\ \A x \in DOMAIN post \ {o} : post'[x] = post[x]
  BY DEF Discharge
<1>2. post' \in [DOMAIN post' -> Post]
  BY <1>1 DEF RosterTypeOK, Discharge
<1>3. supplies' \in [Players -> [Races -> Counter]]
  BY LedgerTypes, ShareType DEF Discharge, RosterTypeOK
<1>. QED
  BY <1>1, <1>2, <1>3 DEF RosterTypeOK, Discharge

(* The sums of a player who gets, or loses, nothing.                        *)
LEMMA SameShare ==
  ASSUME RosterTypeOK, RosterTypeOK', NEW p, NEW r, Held(p, r)' = Held(p, r),
         \A o \in Held(p, r) : post'[o] = post[o]
  PROVE  /\ SumFunctionOnSet(Provided', Held(p, r)')
              = SumFunctionOnSet(Provided, Held(p, r))
         /\ SumFunctionOnSet(Required', Held(p, r)')
              = SumFunctionOnSet(Required, Held(p, r))
<1>1. IsFiniteSet(Held(p, r)) /\ Held(p, r) \subseteq DOMAIN post
  BY HeldIsFinite
<1>2. Held(p, r) \subseteq DOMAIN post'
  BY DEF Held
<1>3. \A o \in Held(p, r) : Provided'[o] = Provided[o] /\ Required'[o] = Required[o]
  BY <1>1, <1>2 DEF Provided, Required
<1>. QED
  BY <1>1, <1>3, SumSame

LEMMA EnlistKeepsAccounts ==
  ASSUME Accounts, NEW pr \in Proto, NEW p \in Players, Enlist(pr, p)
  PROVE  Accounts'
<1>. DEFINE n == enlisted + 1
<1>1. RosterTypeOK
  BY DEF Accounts
<1>2. /\ RosterTypeOK' /\ n \notin DOMAIN post
      /\ DOMAIN post' = DOMAIN post \cup {n}
      /\ \A o \in DOMAIN post : post'[o] = post[o]
      /\ post'[n] = [proto |-> pr, owner |-> p]
  BY <1>1, EnlistType
<1>. HIDE DEF n
<1>3. ASSUME NEW q \in Players, NEW r \in Races
      PROVE  /\ supplies'[q][r].cur = SumFunctionOnSet(Provided', Held(q, r)')
             /\ supplies'[q][r].use = SumFunctionOnSet(Required', Held(q, r)')
  <2>1. /\ supplies[q][r].cur = SumFunctionOnSet(Provided, Held(q, r))
        /\ supplies[q][r].use = SumFunctionOnSet(Required, Held(q, r))
    BY DEF Accounts, LedgerExact
  <2>2. supplies' = Attach(supplies, p, pr)
    BY DEF Enlist
  <2>3. supplies \in [Players -> [Races -> Counter]]
    BY <1>1 DEF RosterTypeOK
  <2>4. IsFiniteSet(Held(q, r)) /\ Held(q, r) \subseteq DOMAIN post
    BY <1>1, HeldIsFinite
  <2>5. CASE q = p /\ r = Attr[pr].race
    <3>1. Held(q, r)' = Held(q, r) \cup {n}
      BY <1>2, <2>5 DEF Held
    <3>2. \A o \in Held(q, r) : /\ Provided'[o] = Provided[o]
                                /\ Required'[o] = Required[o]
      BY <1>2, <2>4 DEF Provided, Required
    <3>3. /\ \A o \in Held(q, r)' : Provided'[o] \in Int /\ Required'[o] \in Int
          /\ Provided'[n] = Attr[pr].provided /\ Required'[n] = Attr[pr].required
      <4>1. n \in DOMAIN post'
        BY <1>2
      <4>2. Held(q, r)' \subseteq DOMAIN post'
        BY DEF Held
      <4>3. \A o \in DOMAIN post' : post'[o] \in Post
        BY <1>2 DEF RosterTypeOK
      <4>4. \A o \in DOMAIN post' :
              /\ Provided'[o] = Attr[post'[o].proto].provided
              /\ Required'[o] = Attr[post'[o].proto].required
        BY DEF Provided, Required
      <4>. QED
        BY <1>2, <4>1, <4>2, <4>3, <4>4, SuppliesAssumption DEF Post
    <3>4. /\ SumFunctionOnSet(Provided', Held(q, r)')
               = SumFunctionOnSet(Provided', Held(q, r)) + Attr[pr].provided
          /\ SumFunctionOnSet(Required', Held(q, r)')
               = SumFunctionOnSet(Required', Held(q, r)) + Attr[pr].required
      <4>1. n \notin Held(q, r) /\ IsFiniteSet(Held(q, r))
        BY <1>2, <2>4
      <4>2. /\ \A y \in Held(q, r) \cup {n} : Provided'[y] \in Int
            /\ \A y \in Held(q, r) \cup {n} : Required'[y] \in Int
        BY <3>1, <3>3
      <4>3. SumFunctionOnSet(Provided', Held(q, r) \cup {n})
              = SumFunctionOnSet(Provided', Held(q, r)) + Provided'[n]
        BY <4>1, <4>2, SumAdds
      <4>4. SumFunctionOnSet(Required', Held(q, r) \cup {n})
              = SumFunctionOnSet(Required', Held(q, r)) + Required'[n]
        BY <4>1, <4>2, SumAdds
      <4>. QED
        BY <3>1, <3>3, <4>3, <4>4
    <3>5. /\ SumFunctionOnSet(Provided', Held(q, r))
               = SumFunctionOnSet(Provided, Held(q, r))
          /\ SumFunctionOnSet(Required', Held(q, r))
               = SumFunctionOnSet(Required, Held(q, r))
      BY <2>4, <3>2, SumSame
    <3>. QED
      BY <2>1, <2>2, <2>3, <2>5, <3>4, <3>5, OneCounter
  <2>6. CASE ~(q = p /\ r = Attr[pr].race)
    <3>1. Held(q, r)' = Held(q, r)
      BY <1>2, <2>6 DEF Held
    <3>2. \A o \in Held(q, r) : post'[o] = post[o]
      BY <1>2, <2>4
    <3>3. supplies'[q][r] = supplies[q][r]
      BY <2>2, <2>3, <2>6, OneCounter
    <3>. QED
      BY <1>1, <1>2, <2>1, <3>1, <3>2, <3>3, SameShare
  <2>. QED
    BY <2>5, <2>6
<1>. QED
  BY <1>2, <1>3 DEF Accounts, LedgerExact

LEMMA DischargeKeepsAccounts ==
  ASSUME Accounts, NEW o \in DOMAIN post, Discharge(o)
  PROVE  Accounts'
<1>. DEFINE p == post[o].owner
            pr == post[o].proto
<1>1. RosterTypeOK
  BY DEF Accounts
<1>2. /\ RosterTypeOK' /\ DOMAIN post' = DOMAIN post \ {o}
      /\ \A x \in DOMAIN post \ {o} : post'[x] = post[x]
  BY <1>1, DischargeType
<1>3. p \in Players /\ pr \in Proto
  BY <1>1, ShareType
<1>4. ASSUME NEW q \in Players, NEW r \in Races
      PROVE  /\ supplies'[q][r].cur = SumFunctionOnSet(Provided', Held(q, r)')
             /\ supplies'[q][r].use = SumFunctionOnSet(Required', Held(q, r)')
  <2>1. /\ supplies[q][r].cur = SumFunctionOnSet(Provided, Held(q, r))
        /\ supplies[q][r].use = SumFunctionOnSet(Required, Held(q, r))
    BY DEF Accounts, LedgerExact
  <2>2. supplies' = Detach(supplies, p, pr)
    BY DEF Discharge
  <2>3. supplies \in [Players -> [Races -> Counter]]
    BY <1>1 DEF RosterTypeOK
  <2>4. IsFiniteSet(Held(q, r)) /\ Held(q, r) \subseteq DOMAIN post
    BY <1>1, HeldIsFinite
  <2>5. CASE q = p /\ r = Attr[pr].race
    <3>. DEFINE rest == Held(q, r) \ {o}
    <3>1. Held(q, r)' = rest /\ o \in Held(q, r)
      BY <1>2, <2>5 DEF Held
    <3>2. IsFiniteSet(rest) /\ rest \subseteq Held(q, r)
      BY <2>4, FS_Subset
    <3>3. \A x \in rest : Provided'[x] = Provided[x] /\ Required'[x] = Required[x]
      BY <1>2, <2>4 DEF Provided, Required
    <3>4. /\ \A x \in Held(q, r) : Provided[x] \in Int /\ Required[x] \in Int
          /\ Provided[o] = Attr[pr].provided /\ Required[o] = Attr[pr].required
      BY <1>1, <2>4, ShareType
    <3>. HIDE DEF rest
    <3>5. /\ SumFunctionOnSet(Provided', rest) = SumFunctionOnSet(Provided, rest)
          /\ SumFunctionOnSet(Required', rest) = SumFunctionOnSet(Required, rest)
      BY <3>2, <3>3, SumSame
    <3>6. /\ SumFunctionOnSet(Provided, Held(q, r))
               = Provided[o] + SumFunctionOnSet(Provided, rest)
          /\ SumFunctionOnSet(Required, Held(q, r))
               = Required[o] + SumFunctionOnSet(Required, rest)
      BY <2>4, <3>1, <3>4, SumTakesOut DEF rest
    <3>7. /\ SumFunctionOnSet(Provided, rest) \in Int
          /\ SumFunctionOnSet(Required, rest) \in Int
      BY <3>2, <3>4, SumTakesOut
    <3>8. Attr[pr].provided \in Int /\ Attr[pr].required \in Int
      BY <1>3, SuppliesAssumption
    <3>9. /\ supplies'[q][r].cur = supplies[q][r].cur - Attr[pr].provided
          /\ supplies'[q][r].use = supplies[q][r].use - Attr[pr].required
      BY <1>3, <2>2, <2>3, <2>5, OneCounter
    <3>. QED
      BY <2>1, <3>1, <3>4, <3>5, <3>6, <3>7, <3>8, <3>9
  <2>6. CASE ~(q = p /\ r = Attr[pr].race)
    <3>1. Held(q, r)' = Held(q, r)
      BY <1>2, <2>6 DEF Held
    <3>2. \A x \in Held(q, r) : post'[x] = post[x]
      BY <1>2, <2>4, <2>6 DEF Held
    <3>3. supplies'[q][r] = supplies[q][r]
      BY <1>3, <2>2, <2>3, <2>6, OneCounter
    <3>. QED
      BY <1>1, <1>2, <2>1, <3>1, <3>2, <3>3, SameShare
  <2>. QED
    BY <2>5, <2>6
<1>. QED
  BY <1>2, <1>4 DEF Accounts, LedgerExact

LEMMA AccountsOpen == RosterInit => Accounts
<1>. SUFFICES ASSUME RosterInit PROVE Accounts
  OBVIOUS
<1>1. post = <<>> /\ enlisted = 0 /\ supplies = NoSupplies /\ DOMAIN post = {}
  BY DEF RosterInit
<1>2. RosterTypeOK
  BY <1>1 DEF RosterTypeOK, NoSupplies, Counter
<1>3. \A p, r : Held(p, r) = {}
  BY <1>1 DEF Held
<1>4. LedgerExact
  BY <1>1, <1>3, SumDefined, FS_EmptySet DEF LedgerExact, NoSupplies
<1>. QED
  BY <1>2, <1>4 DEF Accounts

LEMMA AccountsStep == Accounts /\ [RosterNext]_rosterVars => Accounts'
<1>. SUFFICES ASSUME Accounts, [RosterNext]_rosterVars PROVE Accounts'
  OBVIOUS
<1>1. CASE UNCHANGED rosterVars
  <2>1. enlisted' = enlisted /\ post' = post /\ supplies' = supplies
    BY <1>1 DEF rosterVars
  <2>2. /\ Provided' = Provided /\ Required' = Required
        /\ \A p, r : Held(p, r)' = Held(p, r)
    BY <2>1 DEF Provided, Required, Held
  <2>3. LedgerExact'
    BY <2>1, <2>2 DEF Accounts, LedgerExact
  <2>4. RosterTypeOK'
    BY <2>1 DEF Accounts, RosterTypeOK
  <2>. QED
    BY <2>3, <2>4 DEF Accounts
<1>. QED
  BY <1>1, EnlistKeepsAccounts, DischargeKeepsAccounts DEF RosterNext

(* Whoever implements the roster keeps exact accounts: counters that are    *)
(* adjusted by one object's share at a time never drift from the sums they  *)
(* stand for.                                                               *)
THEOREM RosterKeepsAccounts == RosterSpec => []LedgerExact
<1>1. Accounts => LedgerExact
  BY DEF Accounts
<1>. QED
  BY <1>1, AccountsOpen, AccountsStep, PTL DEF RosterSpec

=============================================================================
