----------------------------- MODULE GameProofs -----------------------------
(***************************************************************************)
(* Theorems about Game for every value of its constants.                   *)
(***************************************************************************)
EXTENDS Game, SequenceTheorems, WellFoundedInduction, TLAPS

(* A function on an interval from 1 is a sequence.                          *)
LEMMA FunctionIsSeq ==
  ASSUME NEW S, NEW n \in Nat, NEW f \in [1 .. n -> S]
  PROVE  f \in Seq(S)
OBVIOUS

(* A nonempty set of natural numbers has its minimum in it.                 *)
LEMMA MinIsMember ==
  ASSUME NEW S \in SUBSET Nat, S # {}
  PROVE  Min(S) \in S /\ \A x \in S : Min(S) <= x
<1>. DEFINE Below == {ss \in Nat \X Nat : ss[1] < ss[2]}
<1>1. IsWellFoundedOn(Below, Nat)
  BY NatLessThanWellFounded DEF OpToRel
<1>. HIDE DEF Below
<1>2. PICK m \in S : \A x \in S : ~(<<x, m>> \in Below)
  BY <1>1, WFMin
<1>3. ASSUME NEW x \in S PROVE m <= x
  <2>1. <<x, m>> \in Nat \X Nat /\ <<x, m>>[1] = x /\ <<x, m>>[2] = m
    OBVIOUS
  <2>2. x < m => <<x, m>> \in Below
    BY <2>1 DEF Below
  <2>. QED
    BY <1>2, <2>2, x \in Nat, m \in Nat
<1>. QED
  BY <1>3 DEF Min

(* Changing one object, or adding one, keeps the objects well linked.       *)
LEMMA UpdateObject ==
  ASSUME NEW s, Population(s), NEW i, NEW r,
         i \in DOMAIN s => Linked(r, DOMAIN s)
  PROVE  Population([s EXCEPT ![i] = r]) /\ DOMAIN [s EXCEPT ![i] = r] = DOMAIN s
<1>1. CASE i \in DOMAIN s
  <2>1. s \in Seq(ObjectType) /\ r \in ObjectType /\ i \in 1 .. Len(s)
    BY <1>1 DEF Population, Linked
  <2>2. [s EXCEPT ![i] = r] \in Seq(ObjectType)
    BY <2>1, ExceptSeq
  <2>. QED
    BY <1>1, <2>1, <2>2 DEF Population
<1>2. CASE i \notin DOMAIN s
  <2>1. [s EXCEPT ![i] = r] = s
    BY <1>2 DEF Population
  <2>. QED
    BY <2>1
<1>. QED
  BY <1>1, <1>2

LEMMA AddObject ==
  ASSUME NEW s, Population(s), NEW r, Linked(r, DOMAIN s)
  PROVE  /\ Population(Append(s, r))
         /\ DOMAIN Append(s, r) = DOMAIN s \union {Len(s) + 1}
<1>1. s \in Seq(ObjectType) /\ r \in ObjectType /\ DOMAIN s = 1 .. Len(s)
       /\ Len(s) \in Nat
  BY DEF Population, Linked
<1>2. Append(s, r) \in Seq(ObjectType)
  BY <1>1, AppendProperties
<1>3. DOMAIN Append(s, r) = DOMAIN s \union {Len(s) + 1}
  BY <1>1, <1>2, AppendProperties, LenProperties
<1>4. \A o \in DOMAIN s : Linked(Append(s, r)[o], DOMAIN Append(s, r))
  BY <1>1, <1>3, AppendProperties DEF Population, Linked
<1>5. Linked(Append(s, r)[Len(s) + 1], DOMAIN Append(s, r))
  BY <1>1, <1>3, AppendProperties DEF Linked
<1>. QED
  BY <1>2, <1>3, <1>4, <1>5 DEF Population

(* SequencesExt's RemoveFirst removes one occurrence; where no element      *)
(* occurs twice, it removes the element.                                    *)
LEMMA RemoveFirstProperties ==
  ASSUME NEW S, NEW s \in Seq(S), NEW e
  PROVE  /\ RemoveFirst(s, e) \in Seq(S)
         /\ IsInjective(s) => /\ IsInjective(RemoveFirst(s, e))
                              /\ ToSet(RemoveFirst(s, e)) = ToSet(s) \ {e}
<1>1. CASE ~ \E i \in 1 .. Len(s) : s[i] = e
  BY <1>1 DEF RemoveFirst, ToSet
<1>2. CASE \E i \in 1 .. Len(s) : s[i] = e
  <2>. DEFINE I == {i \in 1 .. Len(s) : s[i] = e}
              n == Min(I)
              left == SubSeq(s, 1, n - 1)
              right == SubSeq(s, n + 1, Len(s))
              t == left \o right
  <2>1. I # {} /\ I \in SUBSET Nat
    BY <1>2
  <2>2. RemoveFirst(s, e) = t
    BY <1>2, <2>1 DEF RemoveFirst, RemoveAt, SelectInSeq
  <2>3. n \in 1 .. Len(s) /\ s[n] = e
    BY <2>1, MinIsMember
  <2>. HIDE DEF n
  <2>4. /\ left \in Seq(S) /\ Len(left) = n - 1
        /\ \A i \in 1 .. n - 1 : left[i] = s[i]
    BY <2>3, SubSeqProperties, Len(s) \in Nat, \A i \in 1 .. Len(s) : s[i] \in S
  <2>5. /\ right \in Seq(S) /\ Len(right) = Len(s) - n
        /\ \A i \in 1 .. Len(s) - n : right[i] = s[n + i]
    BY <2>3, SubSeqProperties, Len(s) \in Nat, \A i \in 1 .. Len(s) : s[i] \in S
  <2>. HIDE DEF left, right
  <2>6. /\ t \in Seq(S) /\ Len(t) = Len(s) - 1
        /\ \A i \in 1 .. Len(s) - 1 : t[i] = IF i < n THEN s[i] ELSE s[i + 1]
    <3>1. /\ t \in Seq(S) /\ Len(t) = Len(left) + Len(right)
          /\ \A i \in 1 .. Len(left) + Len(right) :
               t[i] = IF i <= Len(left) THEN left[i] ELSE right[i - Len(left)]
      BY <2>4, <2>5, ConcatProperties
    <3>. QED
      BY <2>3, <2>4, <2>5, <3>1, Len(s) \in Nat
  <2>. HIDE DEF t
  <2>7. ASSUME IsInjective(s) PROVE IsInjective(t)
    <3>. DEFINE Old(i) == IF i < n THEN i ELSE i + 1
    <3>1. DOMAIN t = 1 .. Len(s) - 1 /\ DOMAIN s = 1 .. Len(s) /\ Len(s) \in Nat
      BY <2>6
    <3>2. \A i \in DOMAIN t : Old(i) \in DOMAIN s /\ t[i] = s[Old(i)]
      BY <2>3, <2>6, <3>1
    <3>3. \A i, j \in DOMAIN t : Old(i) = Old(j) => i = j
      BY <2>3, <3>1
    <3>. HIDE DEF Old
    <3>. QED
      BY <2>7, <3>2, <3>3 DEF IsInjective
  <2>8. ASSUME IsInjective(s) PROVE ToSet(t) = ToSet(s) \ {e}
    <3>1. ASSUME NEW i \in DOMAIN t PROVE t[i] \in ToSet(s) \ {e}
      BY <2>3, <2>6, <2>8, Len(s) \in Nat DEF IsInjective, ToSet
    <3>2. ASSUME NEW j \in DOMAIN s, s[j] # e PROVE s[j] \in ToSet(t)
      <4>1. CASE j < n
        BY <2>3, <2>6, <4>1, Len(s) \in Nat DEF ToSet
      <4>2. CASE j > n
        <5>1. j - 1 \in DOMAIN t /\ t[j - 1] = s[j]
          BY <2>3, <2>6, <4>2, Len(s) \in Nat
        <5>. QED
          BY <5>1 DEF ToSet
      <4>. QED
        BY <2>3, <3>2, <4>1, <4>2, Len(s) \in Nat
    <3>. QED
      BY <3>1, <3>2 DEF ToSet
  <2>. QED
    BY <2>2, <2>6, <2>7, <2>8
<1>. QED
  BY <1>1, <1>2

-----------------------------------------------------------------------------
(* Types of the operators.                                                  *)

Ledger == [Players -> [Races -> Counter]]

LEMMA AttrType_of ==
  ASSUME NEW pr \in Proto
  PROVE  Attr[pr] \in AttrType
BY AttrAssumption

LEMMA LedgerType ==
  ASSUME NEW l \in Ledger, NEW p \in Players, NEW pr \in Proto
  PROVE  Attach(l, p, pr) \in Ledger /\ Detach(l, p, pr) \in Ledger
<1>1. /\ Attr[pr].race \in Races /\ Attr[pr].provided \in Int
      /\ Attr[pr].required \in Int
  BY AttrType_of DEF AttrType
<1>. QED
  BY <1>1 DEF Attach, Detach, Ledger, Counter

LEMMA CreationType ==
  ASSUME supplies \in Ledger, NEW p \in Players, NEW pr \in Proto
  PROVE  SuppliesAfterCreation(pr, p) \in Ledger
BY LedgerType, NeutralAssumption DEF SuppliesAfterCreation, ChangeOwner

LEMMA FreshType ==
  ASSUME NEW pr \in Proto, NEW p \in Players, NEW x \in Int, NEW names
  PROVE  Linked(Fresh(pr, p, x), names)
<1>1. Attr[pr].maxHP \in Int
  BY AttrType_of DEF AttrType
<1>2. <<>> \in Seq(Job)
  OBVIOUS
<1>. QED
  BY <1>1, <1>2 DEF Linked, Fresh, ObjectType, OrderType, MoveType, AttackType,
                    NoOrder, NoMove, NoAttack, NoTarget, Target

LEMMA NodeType ==
  ASSUME NEW D, objs \in Seq(D), NEW i
  PROVE  NodeAt(i) \in D \union {End}
BY DEF NodeAt

LEMMA InitType == Init => TypeOK
<1>. SUFFICES ASSUME Init PROVE TypeOK
  OBVIOUS
<1>1. Population(obj)
  <2>1. obj \in Seq(ObjectType) /\ DOMAIN obj = {}
    BY DEF Init
  <2>. QED
    BY <2>1 DEF Population
<1>2. supplies \in Ledger
  BY DEF Init, NoSupplies, Ledger, Counter
<1>3. objs \in Seq(DOMAIN obj) /\ delta \in Int
  BY ClockAssumption DEF Init
<1>. QED
  BY <1>1, <1>2, <1>3 DEF Init, TypeOK, ControlOK, Ledger, Processing

(* Nothing ordered, nothing done.                                           *)
LEMMA NothingType ==
  /\ NoOrder \in OrderType /\ NoOrder.target.type = "None"
  /\ NoMove \in MoveType /\ NoMove.target.type = "None"
  /\ NoAttack \in AttackType /\ NoAttack.target.type = "None"
  /\ NoMove.active = FALSE /\ NoAttack.active = FALSE
BY DEF OrderType, MoveType, AttackType, NoOrder, NoMove, NoAttack, NoTarget,
       Target

LEMMA CursorObject ==
  ASSUME TypeOK, cursor # End
  PROVE  /\ cursor \in DOMAIN obj /\ self \in ObjectType
         /\ Linked(self, DOMAIN obj)
BY DEF TypeOK, ControlOK, Population, Linked, self

(* A handler that changes nothing but the object at the cursor.             *)
LEMMA ChangeAtCursor ==
  ASSUME TypeOK, cursor # End, NEW r, Linked(r, DOMAIN obj),
         obj' = [obj EXCEPT ![cursor] = r],
         pc' \in {"order", "move", "attack", "produce", "advance"},
         UNCHANGED <<lists, supplies, cursor, processed, clock, input>>
  PROVE  TypeOK'
<1>1. Population(obj') /\ DOMAIN obj' = DOMAIN obj
  BY UpdateObject DEF TypeOK
<1>. QED
  BY <1>1 DEF TypeOK, ControlOK, lists, clock, input, Processing

LEMMA CoordinateType ==
  ASSUME Population(obj), NEW t \in Target,
         t.type = "Object" => t.obj \in DOMAIN obj
  PROVE  AsCoordinate(t) \in Int
BY DEF AsCoordinate, Target, Population, Linked, ObjectType

LEMMA StartedMoveType ==
  ASSUME Population(obj), NEW o \in DOMAIN obj, NEW t \in Target,
         t.type = "Object" => t.obj \in DOMAIN obj, NEW d \in Int
  PROVE  /\ StartedMove(o, t, d) \in MoveType
         /\ StartedMove(o, t, d).target = t
<1>1. obj[o].pos \in Int /\ AsCoordinate(t) \in Int
  BY CoordinateType DEF Population, Linked, ObjectType
<1>. QED
  BY <1>1 DEF StartedMove, MoveType

LEMMA AttributeType ==
  ASSUME Population(obj), NEW o \in DOMAIN obj
  PROVE  AttrOf(o) \in AttrType
BY AttrType_of DEF AttrOf, Population, Linked, ObjectType

LEMMA FinishOrderType == ASSUME TypeOK, cursor # End, FinishOrder PROVE TypeOK'
<1>. DEFINE r == [self EXCEPT !.order = NoOrder, !.move = NoMove,
                              !.attack = NoAttack]
<1>1. Linked(r, DOMAIN obj)
  BY CursorObject, NothingType DEF Linked, ObjectType
<1>2. obj' = [obj EXCEPT ![cursor] = r]
  BY DEF FinishOrder, self
<1>. QED
  BY <1>1, <1>2, ChangeAtCursor DEF FinishOrder

LEMMA ContinueType ==
  ASSUME TypeOK, cursor # End, NEW r, Linked(r, DOMAIN obj), ContinueWith(r)
  PROVE  TypeOK'
BY ChangeAtCursor DEF ContinueWith

(* The two ways an order goes on with a new action.                         *)
LEMMA MoveStartedType ==
  ASSUME TypeOK, cursor # End, NEW d \in Int, NEW n \in {0, 1, 2, 100}
  PROVE  Linked([self EXCEPT !.move = StartedMove(cursor, self.order.target, d),
                             !.order.step = n], DOMAIN obj)
<1>1. /\ self.order.target \in Target
      /\ self.order.target.type = "Object" => self.order.target.obj \in DOMAIN obj
  BY CursorObject DEF Linked, ObjectType, OrderType
<1>2. /\ StartedMove(cursor, self.order.target, d) \in MoveType
      /\ StartedMove(cursor, self.order.target, d).target = self.order.target
  BY <1>1, CursorObject, StartedMoveType DEF TypeOK
<1>. QED
  BY <1>1, <1>2, CursorObject DEF Linked, ObjectType, OrderType

LEMMA AttackStartedType ==
  ASSUME TypeOK, cursor # End, NEW a \in Int,
         self.order.target.type = "Object"
  PROVE  Linked([self EXCEPT !.attack = StartedAttack(self.order.target, a),
                             !.order.step = 1], DOMAIN obj)
<1>1. /\ self.order.target \in Target
      /\ self.order.target.obj \in DOMAIN obj
  BY CursorObject DEF Linked, ObjectType, OrderType
<1>2. /\ StartedAttack(self.order.target, a) \in AttackType
      /\ StartedAttack(self.order.target, a).target = self.order.target
  BY <1>1 DEF StartedAttack, AttackType
<1>. QED
  BY <1>1, <1>2, CursorObject DEF Linked, ObjectType, OrderType

-----------------------------------------------------------------------------
(* Every step keeps the types: one lemma per group of actions.              *)

LEMMA CreateType ==
  ASSUME TypeOK, NEW s, Population(s), DOMAIN s = DOMAIN obj, Len(s) = Len(obj),
         NEW r, Linked(r, DOMAIN obj), NEW p \in Players, NEW pr \in Proto,
         obj' = Append(s, r), AddToList(Len(obj) + 1),
         supplies' = SuppliesAfterCreation(pr, p),
         pc' \in {"setup", "advance"}, Processing' => Processing,
         UNCHANGED <<cursor, processed, clock, input>>
  PROVE  TypeOK'
<1>1. Population(obj') /\ DOMAIN obj' = DOMAIN obj \union {Len(obj) + 1}
  BY AddObject
<1>2. objs' \in Seq(DOMAIN obj')
  BY <1>1, SeqMonotonic, AppendProperties DEF TypeOK, ControlOK, AddToList
<1>3. supplies' \in Ledger
  BY CreationType DEF TypeOK, ControlOK, Ledger
<1>. QED
  BY <1>1, <1>2, <1>3
     DEF TypeOK, ControlOK, Ledger, clock, input, Processing, AddToList

LEMMA PlaceType == ASSUME TypeOK, Place PROVE TypeOK'
<1>. DEFINE s == Scenario[Len(obj) + 1]
            r == [Fresh(s.proto, s.owner, s.at) EXCEPT !.order = s.order]
<1>1. Len(obj) \in Nat /\ DOMAIN obj = 1 .. Len(obj)
  BY DEF TypeOK, Population
<1>2. Len(obj) + 1 \in DOMAIN Scenario
  BY <1>1, ScenarioAssumption DEF Place
<1>3. /\ s \in Placement
      /\ s.order.target.type = "Object" => s.order.target.obj \in DOMAIN obj
  BY <1>1, <1>2, ScenarioAssumption
<1>. HIDE DEF s
<1>4. /\ s.proto \in Proto /\ s.owner \in Players /\ s.at \in Int
      /\ s.order \in OrderType
  BY <1>3 DEF Placement
<1>5. Linked(r, DOMAIN obj)
  <2>1. Linked(Fresh(s.proto, s.owner, s.at), DOMAIN obj)
    BY <1>4, FreshType
  <2>. QED
    BY <1>3, <1>4, <2>1 DEF Linked, ObjectType
<1>6. /\ obj' = Append(obj, r) /\ AddToList(Len(obj) + 1)
      /\ supplies' = SuppliesAfterCreation(s.proto, s.owner)
      /\ pc' = "setup" /\ pc = "setup"
      /\ UNCHANGED <<cursor, processed, clock, input>>
  BY DEF Place, s
<1>7. Processing' => Processing
  BY <1>6 DEF Processing
<1>. HIDE DEF r
<1>. QED
  BY <1>4, <1>5, <1>6, <1>7, CreateType DEF TypeOK

LEMMA LoopType ==
  ASSUME TypeOK,
         StartLoop \/ StartFrame \/ FinishFrame \/ SkipProcessed
           \/ BeginObject \/ Restart \/ Proceed
  PROVE  TypeOK'
<1>1. /\ First \in DOMAIN obj \union {End}
      /\ Successor(cursor) \in DOMAIN obj \union {End}
  BY NodeType DEF TypeOK, ControlOK, First, Successor
<1>2. obj' = obj
  BY DEF StartLoop, StartFrame, FinishFrame, SkipProcessed, BeginObject,
         Restart, Proceed
<1>3. Processing => cursor \in DOMAIN obj
  BY DEF TypeOK, ControlOK, End
<1>4. CASE StartLoop
  BY <1>2, <1>4 DEF StartLoop, TypeOK, ControlOK, Processing, lists, clock, input
<1>5. CASE StartFrame
  BY <1>1, <1>2, <1>5 DEF StartFrame, TypeOK, ControlOK, Processing, clock, input
<1>6. CASE FinishFrame
  BY <1>2, <1>6 DEF FinishFrame, TypeOK, ControlOK, Processing, lists, clock, input
<1>7. CASE SkipProcessed
  BY <1>1, <1>2, <1>7
     DEF SkipProcessed, TypeOK, ControlOK, Processing, lists, clock, input
<1>8. CASE BeginObject
  BY <1>2, <1>8 DEF BeginObject, TypeOK, ControlOK, Processing, lists, clock, input
<1>9. CASE Restart
  BY <1>1, <1>2, <1>9 DEF Restart, TypeOK, ControlOK, Processing, clock, input
<1>10. CASE Proceed
  <2>1. Processing /\ pc' = "object"
    BY <1>10 DEF Proceed, Processing
  <2>. QED
    BY <1>1, <1>2, <1>3, <1>10, <2>1
       DEF Proceed, TypeOK, ControlOK, Processing, lists, clock, input
<1>. QED
  BY <1>4, <1>5, <1>6, <1>7, <1>8, <1>9, <1>10

LEMMA AgedType ==
  ASSUME NEW r, NEW names, Linked(r, names), NEW d \in Int
  PROVE  Linked(Aged(r, d), names)
<1>. DEFINE q == [i \in DOMAIN r.queue |-> Older(r.queue[i], d)]
            a == IF r.attack.active THEN r.attack.age + d ELSE r.attack.age
<1>1. r \in ObjectType /\ r.queue \in Seq(Job) /\ r.attack \in AttackType
  BY DEF Linked, ObjectType
<1>2. a \in Int
  BY <1>1 DEF AttackType
<1>3. q \in Seq(Job)
  <2>1. \A j \in Job : Older(j, d) \in Job
    BY DEF Job, Older
  <2>2. DOMAIN r.queue = 1 .. Len(r.queue) /\ Len(r.queue) \in Nat
    BY <1>1, LenProperties
  <2>3. \A i \in DOMAIN r.queue : r.queue[i] \in Job
    BY <1>1
  <2>4. q \in [1 .. Len(r.queue) -> Job]
    BY <2>1, <2>2, <2>3
  <2>. QED
    BY <2>2, <2>4, FunctionIsSeq
<1>4. Aged(r, d) = IF r.removed THEN r ELSE [r EXCEPT !.attack.age = a, !.queue = q]
  BY <1>1 DEF Aged, ObjectType, AttackType
<1>. HIDE DEF q, a
<1>5. Linked([r EXCEPT !.attack.age = a, !.queue = q], names)
  <2>. DEFINE k == [r.attack EXCEPT !.age = a]
  <2>1. /\ k \in AttackType /\ k.target = r.attack.target
        /\ k.active = r.attack.active
    BY <1>1, <1>2 DEF AttackType
  <2>2. [r EXCEPT !.attack.age = a, !.queue = q]
          = [r EXCEPT !.attack = k, !.queue = q]
    BY <1>1 DEF ObjectType
  <2>. HIDE DEF k
  <2>. QED
    BY <1>1, <1>3, <2>1, <2>2 DEF Linked, ObjectType
<1>. QED
  BY <1>4, <1>5

LEMMA TickType == ASSUME TypeOK, Tick PROVE TypeOK'
<1>1. delta' \in Int
  BY ClockAssumption DEF Tick
<1>2. /\ obj \in Seq(ObjectType) /\ DOMAIN obj = 1 .. Len(obj)
      /\ Len(obj) \in Nat
  BY LenProperties DEF TypeOK, Population
<1>3. obj' = [o \in 1 .. Len(obj) |-> Aged(obj[o], delta')]
  BY <1>2 DEF Tick
<1>4. \A o \in 1 .. Len(obj) : Linked(Aged(obj[o], delta'), DOMAIN obj)
  BY <1>1, <1>2, AgedType DEF TypeOK, Population
<1>5. obj' \in [1 .. Len(obj) -> ObjectType]
  BY <1>3, <1>4 DEF Linked
<1>6. Population(obj') /\ DOMAIN obj' = DOMAIN obj
  BY <1>2, <1>3, <1>4, <1>5, FunctionIsSeq DEF Population
<1>. QED
  BY <1>1, <1>6 DEF Tick, TypeOK, ControlOK, Processing, lists, input

LEMMA MoveOrderType == ASSUME TypeOK, MoveOrder PROVE TypeOK'
<1>1. cursor # End
  BY DEF TypeOK, ControlOK, Processing, MoveOrder
<1>2. Linked(self, DOMAIN obj)
  BY <1>1, CursorObject
<1>3. Linked([self EXCEPT !.move = StartedMove(cursor, self.order.target, 0),
                          !.order.step = 1], DOMAIN obj)
  <2>1. 0 \in Int /\ 1 \in {0, 1, 2, 100}
    OBVIOUS
  <2>. QED
    BY Zenon, <1>1, <2>1, MoveStartedType
<1>. QED
  BY <1>1, <1>2, <1>3, ContinueType, FinishOrderType DEF MoveOrder

LEMMA AttackOrderType ==
  ASSUME TypeOK,
         AttackOrderStart \/ AttackOrderGo \/ AttackOrderArrive
           \/ AttackOrderAttack \/ AttackOrderFollow
  PROVE  TypeOK'
<1>1. cursor # End
  BY DEF TypeOK, ControlOK, Processing, AttackStep, AttackOrderStart,
         AttackOrderGo, AttackOrderArrive, AttackOrderAttack, AttackOrderFollow
<1>2. Linked(self, DOMAIN obj)
  BY <1>1, CursorObject
<1>3. \A n \in {0, 2, 100} : Linked([self EXCEPT !.order.step = n], DOMAIN obj)
  BY <1>2 DEF Linked, ObjectType, OrderType
<1>4. CASE AttackOrderStart
  <2>1. InitialAges \subseteq Int
    BY ClockAssumption DEF InitialAges
  <2>2. \A a \in Int :
          Linked([self EXCEPT !.attack = StartedAttack(self.order.target, a),
                              !.order.step = 1], DOMAIN obj)
    BY <1>1, <1>4, AttackStartedType DEF AttackOrderStart
  <2>. QED
    BY <1>1, <1>4, <2>1, <2>2, ContinueType, FinishOrderType DEF AttackOrderStart
<1>5. CASE AttackOrderGo
  <2>1. Linked([self EXCEPT !.move =
          StartedMove(cursor, self.order.target, AutomaticallyAttack)], DOMAIN obj)
    <3>. DEFINE m == StartedMove(cursor, self.order.target, AutomaticallyAttack)
    <3>1. /\ self.order.target \in Target
          /\ self.order.target.type = "Object"
               => self.order.target.obj \in DOMAIN obj
      BY <1>2 DEF Linked, ObjectType, OrderType
    <3>2. m \in MoveType /\ m.target = self.order.target
      BY <1>1, <3>1, CursorObject, StartedMoveType DEF TypeOK, AutomaticallyAttack
    <3>. HIDE DEF m
    <3>3. Linked([self EXCEPT !.move = m], DOMAIN obj)
      BY <1>2, <3>1, <3>2 DEF Linked, ObjectType
    <3>. QED
      BY <3>3 DEF m
  <2>. QED
    BY <1>1, <1>3, <1>5, <2>1, ContinueType DEF AttackOrderGo
<1>6. CASE AttackOrderArrive
  BY <1>1, <1>2, <1>6, ContinueType, FinishOrderType DEF AttackOrderArrive
<1>7. CASE AttackOrderAttack
  <2>1. AttrOf(cursor).range \in Int
    BY <1>1, CursorObject, AttributeType DEF AttrType, TypeOK
  <2>2. Linked([self EXCEPT
          !.move = StartedMove(cursor, self.order.target, AttrOf(cursor).range),
          !.order.step = 2], DOMAIN obj)
    BY <1>1, <2>1, MoveStartedType
  <2>. QED
    BY <1>1, <1>2, <1>7, <2>2, ContinueType, FinishOrderType DEF AttackOrderAttack
<1>8. CASE AttackOrderFollow
  BY <1>1, <1>2, <1>3, <1>8, ContinueType, FinishOrderType DEF AttackOrderFollow
<1>. QED
  BY <1>4, <1>5, <1>6, <1>7, <1>8

LEMMA SkipActionType ==
  ASSUME TypeOK, NoOrderToProcess \/ NoMoveAction \/ NoAttackAction
  PROVE  TypeOK'
<1>. SUFFICES ASSUME obj' = obj, Processing,
                     UNCHANGED <<lists, supplies, cursor, processed, clock, input>>,
                     pc' \in {"produce", "attack"}
              PROVE  TypeOK'
  BY DEF NoOrderToProcess, NoMoveAction, NoAttackAction, Processing
<1>. QED
  BY DEF TypeOK, ControlOK, lists, clock, input, Processing

LEMMA MoveActionType == ASSUME TypeOK, MoveAction PROVE TypeOK'
<1>. DEFINE m == self.move
            dest == IF m.target.type = "Object" THEN AsCoordinate(m.target)
                    ELSE m.dest
            newx == self.pos + Stride(m.start, dest, self.pos,
                                      AttrOf(cursor).speed, delta)
<1>1. cursor # End /\ delta \in Int
  BY DEF TypeOK, ControlOK, Processing, MoveAction
<1>2. Linked(self, DOMAIN obj) /\ self \in ObjectType
  BY <1>1, CursorObject
<1>3. m \in MoveType /\ m.target \in Target /\ dest \in Int /\ self.pos \in Int
  BY <1>2, CoordinateType DEF TypeOK, Linked, ObjectType, MoveType
<1>4. newx \in Int
  <2>1. AttrOf(cursor).speed \in Int
    BY <1>1, CursorObject, AttributeType DEF AttrType, TypeOK
  <2>2. Heading(m.start, dest, self.pos) \in {-1, 0, 1}
    BY DEF Heading
  <2>. QED
    BY <1>1, <1>3, <2>1, <2>2 DEF Stride
<1>5. /\ NoMove \in MoveType /\ NoMove.target.type = "None"
      /\ [m EXCEPT !.dest = dest] \in MoveType
      /\ [m EXCEPT !.dest = dest].target = m.target
  BY <1>3, NothingType DEF MoveType
<1>6. \E x \in {self.pos, dest, newx}, k \in {NoMove, [m EXCEPT !.dest = dest]} :
        Moved(self, x, k)
  BY Zenon DEF MoveAction
<1>. HIDE DEF newx, dest
<1>7. PICK x \in Int, k \in {NoMove, [m EXCEPT !.dest = dest]} : Moved(self, x, k)
  BY <1>3, <1>4, <1>6
<1>8. Linked([self EXCEPT !.pos = x, !.move = k], DOMAIN obj)
  BY <1>2, <1>5 DEF Linked, ObjectType
<1>. QED
  BY <1>1, <1>7, <1>8, ChangeAtCursor DEF Moved

LEMMA WoundsType ==
  ASSUME TypeOK, NEW t \in DOMAIN obj, NEW n \in Int, cursor # End
  PROVE  obj[t].hp - n * NetDamage(cursor, t) \in Int
<1>1. AttrOf(cursor).damage \in Int /\ AttrOf(t).armor \in Int
  BY CursorObject, AttributeType DEF AttrType, TypeOK
<1>2. obj[t].hp \in Int
  BY DEF TypeOK, Population, Linked, ObjectType
<1>. QED
  BY <1>1, <1>2 DEF NetDamage

LEMMA AttacksType ==
  ASSUME TypeOK, cursor # End
  PROVE  Attacks(cursor) \in Int
<1>1. AttrOf(cursor).period \in Nat \ {0}
  BY CursorObject, AttributeType DEF AttrType, TypeOK
<1>2. obj[cursor].attack.age \in Int
  BY CursorObject DEF ObjectType, AttackType, self
<1>. QED
  BY <1>1, <1>2 DEF Attacks

LEMMA AttackTarget ==
  ASSUME TypeOK, AttackAction
  PROVE  /\ cursor # End /\ self.attack.active
         /\ self.attack.target.obj \in DOMAIN obj
<1>1. cursor # End /\ self.attack.active
  BY DEF TypeOK, ControlOK, Processing, AttackAction
<1>. QED
  BY <1>1, CursorObject DEF Linked

(* The three ways an Attack action changes the objects: each is a change of *)
(* the target followed by one of the attacker.                              *)
LEMMA StruckType ==
  ASSUME TypeOK, cursor # End, NEW t \in DOMAIN obj, NEW h \in Int,
         NEW b \in BOOLEAN, NEW k \in AttackType,
         k = NoAttack \/ (k.target = self.attack.target
                           /\ k.active = self.attack.active),
         NEW s, s = [obj EXCEPT ![t] = [@ EXCEPT !.hp = h, !.removed = b]],
         obj' = [s EXCEPT ![cursor] = [@ EXCEPT !.attack = k]]
  PROVE  Population(obj') /\ DOMAIN obj' = DOMAIN obj
<1>1. Linked([obj[t] EXCEPT !.hp = h, !.removed = b], DOMAIN obj)
  <2>1. Linked(obj[t], DOMAIN obj)
    BY DEF TypeOK, Population
  <2>. QED
    BY <2>1 DEF Linked, ObjectType
<1>2. Population(s) /\ DOMAIN s = DOMAIN obj
  BY <1>1, UpdateObject DEF TypeOK
<1>3. /\ cursor \in DOMAIN s /\ Linked(s[cursor], DOMAIN s)
      /\ s[cursor].attack = self.attack
  <2>1. cursor \in DOMAIN obj /\ self \in ObjectType
    BY CursorObject
  <2>2. s[cursor].attack = self.attack
    BY <2>1 DEF self, ObjectType
  <2>. QED
    BY <1>2, <2>1, <2>2 DEF Population
<1>4. Linked([s[cursor] EXCEPT !.attack = k], DOMAIN s)
  BY <1>3, NothingType DEF Linked, ObjectType
<1>. QED
  BY <1>2, <1>3, <1>4, UpdateObject

LEMMA AttackActionType == ASSUME TypeOK, AttackAction PROVE TypeOK'
<1>. DEFINE t == self.attack.target.obj
<1>1. cursor # End /\ t \in DOMAIN obj /\ Processing /\ pc' = "produce"
  BY AttackTarget DEF AttackAction, Processing
<1>2. /\ cursor \in DOMAIN obj /\ self \in ObjectType /\ Linked(self, DOMAIN obj)
      /\ self.attack \in AttackType
  BY <1>1, CursorObject DEF ObjectType
<1>3. UNCHANGED <<cursor, processed, clock, input>>
  BY DEF AttackAction
<1>4. EndAttack \/ Wait \/ Wound(t)
        \/ (KillingHits(cursor, t) # {} /\ Kill(t))
  BY Zenon DEF AttackAction
<1>5. CASE EndAttack
  <2>1. Linked([self EXCEPT !.attack = NoAttack], DOMAIN obj)
    BY <1>2, NothingType DEF Linked, ObjectType
  <2>2. Population(obj') /\ DOMAIN obj' = DOMAIN obj
    BY <1>1, <1>5, <2>1, UpdateObject DEF EndAttack, TypeOK, self
  <2>. QED
    BY <1>1, <1>3, <1>5, <2>2
       DEF EndAttack, TypeOK, ControlOK, lists, clock, input, Processing
<1>6. CASE Wait
  BY <1>1, <1>3, <1>6
     DEF Wait, TypeOK, ControlOK, lists, clock, input, Processing
<1>7. CASE Wound(t)
  <2>. DEFINE h == obj[t].hp - Attacks(cursor) * NetDamage(cursor, t)
              k == [self.attack EXCEPT !.age = 0]
              s == [obj EXCEPT ![t] = [@ EXCEPT !.hp = h, !.removed = obj[t].removed]]
  <2>1. h \in Int
    BY <1>1, AttacksType, WoundsType
  <2>2. /\ k \in AttackType /\ k.target = self.attack.target
        /\ k.active = self.attack.active
    BY <1>2 DEF AttackType
  <2>3. obj[t] \in ObjectType
    BY <1>1 DEF TypeOK, Population
  <2>4. obj' = [s EXCEPT ![cursor] = [@ EXCEPT !.attack = k]]
    BY <1>1, <1>2, <1>7, <2>3 DEF Wound, self, ObjectType
  <2>. HIDE DEF h, k
  <2>5. Population(obj') /\ DOMAIN obj' = DOMAIN obj
    BY <1>1, <2>1, <2>2, <2>3, <2>4, StruckType DEF ObjectType
  <2>. QED
    BY <1>1, <1>3, <1>7, <2>5
       DEF Wound, TypeOK, ControlOK, lists, clock, input, Processing
<1>8. CASE KillingHits(cursor, t) # {} /\ Kill(t)
  <2>. DEFINE h == obj[t].hp - Min(KillingHits(cursor, t)) * NetDamage(cursor, t)
              s == [obj EXCEPT ![t] = [@ EXCEPT !.hp = h, !.removed = TRUE]]
  <2>1. h \in Int
    <3>1. KillingHits(cursor, t) \in SUBSET Nat
      BY <1>1, AttacksType DEF KillingHits
    <3>2. Min(KillingHits(cursor, t)) \in Int
      BY <1>8, <3>1, MinIsMember
    <3>. QED
      BY <1>1, <3>2, WoundsType
  <2>2. obj[t] \in ObjectType
    BY <1>1 DEF TypeOK, Population
  <2>3. obj' = [s EXCEPT ![cursor] = [@ EXCEPT !.attack = NoAttack]]
    BY <1>1, <1>2, <1>8, <2>2 DEF Kill, self, ObjectType
  <2>. HIDE DEF h
  <2>4. Population(obj') /\ DOMAIN obj' = DOMAIN obj
    BY <1>1, <2>1, <2>3, StruckType, NothingType
  <2>5. objs' \in Seq(DOMAIN obj) /\ invalidated' = TRUE
    BY <1>8, RemoveFirstProperties DEF Kill, RemoveFromList, TypeOK, ControlOK
  <2>6. supplies' \in Ledger
    <3>1. obj[t].owner \in Players /\ obj[t].proto \in Proto
      BY <2>2 DEF ObjectType
    <3>. QED
      BY <1>8, <3>1, LedgerType
         DEF Kill, SuppliesAfterCleanup, TypeOK, ControlOK, Ledger
  <2>. QED
    BY <1>1, <1>3, <2>4, <2>5, <2>6
       DEF TypeOK, ControlOK, Ledger, clock, input, Processing
<1>. QED
  BY <1>4, <1>5, <1>6, <1>7, <1>8

LEMMA ProductionType ==
  ASSUME TypeOK, NoProduction \/ Working \/ Produce
  PROVE  TypeOK'
<1>1. cursor # End /\ Processing
  BY DEF TypeOK, ControlOK, Processing, NoProduction, Working, Produce
<1>2. Linked(self, DOMAIN obj) /\ self \in ObjectType /\ self.queue \in Seq(Job)
  BY <1>1, CursorObject DEF ObjectType
<1>3. CASE NoProduction
  <2>1. Linked([self EXCEPT !.secondary = FALSE], DOMAIN obj)
    BY <1>2 DEF Linked, ObjectType
  <2>. QED
    BY <1>1, <1>3, <2>1, ChangeAtCursor DEF NoProduction, self
<1>4. CASE Working
  <2>. DEFINE job == [what |-> Head(self.queue).what, started |-> TRUE,
                      age |-> JobAge(Head(self.queue))]
              q == <<job>> \o Tail(self.queue)
  <2>1. Head(self.queue) \in Job /\ Tail(self.queue) \in Seq(Job)
    BY <1>2, <1>4, HeadTailProperties DEF Working
  <2>2. job \in Job
    BY <2>1 DEF Job, JobAge
  <2>. HIDE DEF job
  <2>3. q \in Seq(Job)
    BY <2>1, <2>2, ConcatProperties
  <2>4. obj' = [obj EXCEPT ![cursor] = [self EXCEPT !.secondary = FALSE, !.queue = q]]
    BY <1>4 DEF Working, job
  <2>. HIDE DEF q
  <2>5. Linked([self EXCEPT !.secondary = FALSE, !.queue = q], DOMAIN obj)
    BY <1>2, <2>3 DEF Linked, ObjectType
  <2>. QED
    BY <1>1, <1>4, <2>4, <2>5, ChangeAtCursor DEF Working
<1>5. CASE Produce
  <2>. DEFINE pr == Head(self.queue).what
              q == Tail(self.queue)
              s == [obj EXCEPT ![cursor] = [self EXCEPT !.secondary = FALSE,
                                                        !.queue = q]]
  <2>1. pr \in Proto /\ q \in Seq(Job)
    <3>1. Head(self.queue) \in Job /\ q \in Seq(Job)
      BY <1>2, <1>5, HeadTailProperties DEF Produce
    <3>2. pr \in Proto
      BY <3>1 DEF Job
    <3>. QED
      BY <3>1, <3>2
  <2>2. Linked([self EXCEPT !.secondary = FALSE, !.queue = q], DOMAIN obj)
    BY <1>2, <2>1 DEF Linked, ObjectType
  <2>3. Population(s) /\ DOMAIN s = DOMAIN obj /\ Len(s) = Len(obj)
    <3>1. Population(s) /\ DOMAIN s = DOMAIN obj
      BY <2>2, UpdateObject DEF TypeOK
    <3>2. Len(s) \in Nat /\ Len(obj) \in Nat /\ DOMAIN s = 1 .. Len(s)
          /\ DOMAIN obj = 1 .. Len(obj)
      BY <3>1, LenProperties DEF Population, TypeOK
    <3>. QED
      BY <3>1, <3>2
  <2>4. self.owner \in Players /\ self.pos \in Int
    BY <1>2 DEF ObjectType
  <2>5. Linked(Fresh(pr, self.owner, self.pos), DOMAIN obj)
    BY <2>1, <2>4, FreshType
  <2>6. /\ obj' = Append(s, Fresh(pr, self.owner, self.pos))
        /\ supplies' = SuppliesAfterCreation(pr, self.owner)
        /\ AddToList(Len(obj) + 1) /\ pc' = "advance"
        /\ UNCHANGED <<cursor, processed, clock, input>>
    BY <1>5 DEF Produce
  <2>. HIDE DEF s, pr
  <2>. QED
    BY <1>1, <2>1, <2>3, <2>4, <2>5, <2>6, CreateType
<1>. QED
  BY <1>3, <1>4, <1>5

(* What the user may aim at exists.                                         *)
LEMMA AimType ==
  ASSUME TypeOK, NEW x \in Points
  PROVE  /\ TargetAt(x) \in Target /\ ToCoordinate(x) \in Target
         /\ TargetAt(x).type = "Object" => TargetAt(x).obj \in DOMAIN obj
         /\ ToCoordinate(x).type = "Coordinate"
<1>1. ObjectAt(x) \in DOMAIN obj \union {End}
  BY NodeType DEF ObjectAt, TypeOK, ControlOK
<1>2. DOMAIN obj \subseteq Nat
  BY DEF TypeOK, Population
<1>3. x \in Int
  BY PointsAssumption
<1>. QED
  BY <1>1, <1>2, <1>3 DEF TargetAt, ToCoordinate, ToObject, Target

LEMMA DoOrderType ==
  ASSUME TypeOK, NEW o \in DOMAIN obj, NEW order \in OrderType,
         order.target.type = "Object" => order.target.obj \in DOMAIN obj,
         DoOrder(o, order)
  PROVE  TypeOK'
<1>. DEFINE r == [obj[o] EXCEPT !.order = order, !.move = NoMove,
                                !.attack = NoAttack]
<1>1. Linked(obj[o], DOMAIN obj)
  BY DEF TypeOK, Population
<1>2. Linked(r, DOMAIN obj)
  BY <1>1, NothingType DEF Linked, ObjectType
<1>3. Population(obj') /\ DOMAIN obj' = DOMAIN obj
  BY <1>2, UpdateObject DEF DoOrder, TypeOK
<1>. QED
  BY <1>3 DEF DoOrder, TypeOK, ControlOK, lists, clock, Processing

LEMMA UserType == ASSUME TypeOK, User PROVE TypeOK'
<1>1. ASSUME NEW o \in DOMAIN obj, NEW x \in Points, IssueMoveToPoint(o, x)
      PROVE  TypeOK'
  <2>1. /\ NewOrder("Move", ToCoordinate(x)) \in OrderType
        /\ NewOrder("Move", ToCoordinate(x)).target.type # "Object"
    BY AimType DEF NewOrder, OrderType
  <2>. QED
    BY <1>1, <2>1, DoOrderType DEF IssueMoveToPoint
<1>2. ASSUME NEW o \in DOMAIN obj, NEW x \in Points,
             NEW kind \in {"Move", "Attack"}, IssueTargeted(o, kind, x)
      PROVE  TypeOK'
  <2>1. /\ NewOrder(kind, TargetAt(x)) \in OrderType
        /\ NewOrder(kind, TargetAt(x)).target = TargetAt(x)
    BY AimType DEF NewOrder, OrderType
  <2>. QED
    BY <1>2, <2>1, AimType, DoOrderType DEF IssueTargeted
<1>3. ASSUME NEW o \in DOMAIN obj, IssueProduce(o)
      PROVE  TypeOK'
  <2>. DEFINE job == [what |-> obj[o].proto, started |-> FALSE, age |-> 0]
              q == Append(obj[o].queue, job)
  <2>1. Linked(obj[o], DOMAIN obj) /\ obj[o] \in ObjectType
    BY DEF TypeOK, Population, Linked
  <2>2. job \in Job
    BY <2>1 DEF ObjectType, Job
  <2>. HIDE DEF job
  <2>3. q \in Seq(Job)
    BY <2>1, <2>2, AppendProperties DEF ObjectType
  <2>4. obj' = [obj EXCEPT ![o] = [obj[o] EXCEPT !.secondary = TRUE, !.queue = q]]
    BY <1>3 DEF IssueProduce, job
  <2>. HIDE DEF q
  <2>5. Linked([obj[o] EXCEPT !.secondary = TRUE, !.queue = q], DOMAIN obj)
    BY <2>1, <2>3 DEF Linked, ObjectType
  <2>6. Population(obj') /\ DOMAIN obj' = DOMAIN obj
    BY <2>4, <2>5, UpdateObject DEF TypeOK
  <2>. QED
    BY <1>3, <2>6 DEF IssueProduce, TypeOK, ControlOK, lists, clock, Processing
<1>4. CASE Quit
  BY <1>4 DEF Quit, TypeOK, ControlOK, lists, clock, Processing
<1>. QED
  BY <1>1, <1>2, <1>3, <1>4 DEF User

LEMMA ShutdownType ==
  ASSUME TypeOK, LeaveLoop \/ CleanupObject \/ ClearList
  PROVE  TypeOK'
<1>1. /\ First \in DOMAIN obj \union {End}
      /\ Successor(cursor) \in DOMAIN obj \union {End}
  BY NodeType DEF TypeOK, ControlOK, First, Successor
<1>2. CASE LeaveLoop
  BY <1>1, <1>2
     DEF LeaveLoop, TypeOK, ControlOK, Processing, lists, clock, input
<1>3. CASE CleanupObject
  <2>1. cursor # End /\ Linked(self, DOMAIN obj) /\ self \in ObjectType
    BY <1>3, CursorObject DEF CleanupObject
  <2>2. Linked([self EXCEPT !.removed = TRUE], DOMAIN obj)
    BY <2>1 DEF Linked, ObjectType
  <2>3. Population(obj') /\ DOMAIN obj' = DOMAIN obj
    BY <1>3, <2>2, UpdateObject DEF CleanupObject, TypeOK, self
  <2>4. supplies' \in Ledger
    <3>1. obj[cursor].owner \in Players /\ obj[cursor].proto \in Proto
      BY <2>1 DEF ObjectType, self
    <3>. QED
      BY <1>3, <3>1, LedgerType
         DEF CleanupObject, SuppliesAfterCleanup, TypeOK, ControlOK, Ledger
  <2>. QED
    BY <1>1, <1>3, <2>3, <2>4
       DEF CleanupObject, TypeOK, ControlOK, Ledger, Processing, lists, clock, input
<1>4. CASE ClearList
  <2>1. objs' \in Seq(DOMAIN obj)
    BY <1>4 DEF ClearList
  <2>. QED
    BY <1>4, <2>1 DEF ClearList, TypeOK, ControlOK, Processing, clock, input
<1>. QED
  BY <1>2, <1>3, <1>4

LEMMA TypeStep == TypeOK /\ [Next]_vars => TypeOK'
<1>. SUFFICES ASSUME TypeOK, [Next]_vars PROVE TypeOK'
  OBVIOUS
<1>1. CASE Loop
  BY <1>1, PlaceType, LoopType, TickType DEF Loop
<1>2. CASE Orders
  BY <1>2, SkipActionType, MoveOrderType, AttackOrderType DEF Orders
<1>3. CASE Actions
  BY <1>3, SkipActionType, MoveActionType, AttackActionType DEF Actions
<1>4. CASE Production
  BY <1>4, ProductionType DEF Production
<1>5. CASE Shutdown
  BY <1>5, ShutdownType DEF Shutdown
<1>6. CASE User
  BY <1>6, UserType
<1>7. CASE UNCHANGED vars
  BY <1>7 DEF vars, lists, clock, input, TypeOK, ControlOK, Processing
<1>. QED
  BY <1>1, <1>2, <1>3, <1>4, <1>5, <1>6, <1>7 DEF Next, Engine, Terminated

(* Whatever the constants, the data keep their shape and no pointer of the  *)
(* list, the loops, the orders or the actions is null or dangling.          *)
THEOREM TypeCorrect == Spec => []TypeOK
BY InitType, TypeStep, PTL DEF Spec

=============================================================================
