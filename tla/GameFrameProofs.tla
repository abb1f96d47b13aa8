-------------------------- MODULE GameFrameProofs --------------------------
(***************************************************************************)
(* What happens in a frame: the objects' actions belong to their orders    *)
(* and none of them fights on without hit points; the walk over the object *)
(* list reaches everyone, no object has more turns than it should, no job  *)
(* is lost or done twice, and every step brings the end of the frame       *)
(* nearer.                                                                 *)
(***************************************************************************)
EXTENDS GameTurns, GameListProofs, FiniteSetTheorems, WellFoundedInduction

-----------------------------------------------------------------------------
(* The conduct of the objects.                                              *)

(* ActionsFollowOrder, for one object.                                      *)
Follows(o, r) ==
  /\ r.move.active =>
       /\ ~IsSelf(o, r.move.target)
       /\ r.move.target = r.order.target
       /\ \/ r.order.kind = "Move" /\ r.order.step = 1
          \/ /\ r.order.kind = "Attack"
             /\ r.order.target.type = "Object" => r.order.step = 2
  /\ r.attack.active =>
       /\ ~IsSelf(o, r.attack.target)
       /\ r.attack.target = r.order.target
       /\ r.order.kind = "Attack" /\ r.order.step = 1
  /\ ~(r.move.active /\ r.attack.active)

(* InGameMeansAlive, for one object.                                        *)
Healthy(r) ==
  ~r.removed /\ Attr[r.proto].maxHP > 0 /\ ~Attr[r.proto].invincible
    => r.hp > 0

Conduct == ActionsFollowOrder /\ InGameMeansAlive

LEMMA OneByOne ==
  /\ ActionsFollowOrder <=> \A o \in DOMAIN obj : Follows(o, obj[o])
  /\ InGameMeansAlive <=> (~ShuttingDown => \A o \in DOMAIN obj : Healthy(obj[o]))
BY DEF ActionsFollowOrder, Follows, InGameMeansAlive, Healthy, Live, AttrOf

LEMMA OneByOneNext ==
  /\ ActionsFollowOrder' <=> \A o \in DOMAIN obj' : Follows(o, obj'[o])
  /\ InGameMeansAlive' <=> (~ShuttingDown' => \A o \in DOMAIN obj' : Healthy(obj'[o]))
BY DEF ActionsFollowOrder, Follows, InGameMeansAlive, Healthy, Live, AttrOf, IsSelf

(* A handler that changes one object only.                                  *)
LEMMA OneObject ==
  ASSUME Conduct, NEW o \in DOMAIN obj, NEW r, obj' = [obj EXCEPT ![o] = r],
         Follows(o, r), ~ShuttingDown' => ~ShuttingDown /\ Healthy(r)
  PROVE  Conduct'
<1>1. /\ DOMAIN obj' = DOMAIN obj /\ obj'[o] = r
      /\ \A x \in DOMAIN obj \ {o} : obj'[x] = obj[x]
  OBVIOUS
<1>. QED
  BY <1>1, OneByOne, OneByOneNext DEF Conduct

(* The parts of an object its conduct depends on, when some are replaced.   *)
LEMMA SameBody ==
  ASSUME NEW o, NEW r, NEW s, Healthy(r),
         s.proto = r.proto, s.hp = r.hp, s.removed = r.removed
  PROVE  Healthy(s)
BY DEF Healthy

LEMMA SameDuty ==
  ASSUME NEW o, NEW r, NEW s, Follows(o, r),
         s.order = r.order, s.move = r.move,
         s.attack.active = r.attack.active, s.attack.target = r.attack.target
  PROVE  Follows(o, s)
BY DEF Follows

LEMMA NothingToDo ==
  ASSUME NEW o, NEW r, ~r.move.active, ~r.attack.active
  PROVE  Follows(o, r)
BY DEF Follows

LEMMA AtCursor ==
  ASSUME TypeOK, Conduct, cursor # End
  PROVE  /\ cursor \in DOMAIN obj /\ self = obj[cursor] /\ self \in ObjectType
         /\ Linked(self, DOMAIN obj) /\ Follows(cursor, self)
         /\ ~ShuttingDown => Healthy(self)
BY CursorObject, OneByOne DEF Conduct, self

-----------------------------------------------------------------------------
(* Orders start the actions that belong to them.                            *)

LEMMA OrderConduct ==
  ASSUME TypeOK, Conduct,
         MoveOrder \/ AttackOrderStart \/ AttackOrderGo \/ AttackOrderArrive
           \/ AttackOrderAttack \/ AttackOrderFollow
  PROVE  Conduct'
<1>1. pc = "order" /\ ~ShuttingDown /\ cursor # End
  BY DEF MoveOrder, AttackStep, AttackOrderStart, AttackOrderGo,
         AttackOrderArrive, AttackOrderAttack, AttackOrderFollow, ShuttingDown,
         TypeOK, ControlOK, Processing
<1>2. /\ cursor \in DOMAIN obj /\ self = obj[cursor] /\ self \in ObjectType
      /\ self.order \in OrderType /\ Linked(self, DOMAIN obj)
      /\ Follows(cursor, self) /\ Healthy(self)
  BY <1>1, AtCursor DEF ObjectType
<1>. DEFINE target == self.order.target
<1>3. ASSUME FinishOrder PROVE Conduct'
  <2>. DEFINE r == [self EXCEPT !.order = NoOrder, !.move = NoMove,
                                !.attack = NoAttack]
  <2>1. /\ ~r.move.active /\ ~r.attack.active
        /\ r.proto = self.proto /\ r.hp = self.hp /\ r.removed = self.removed
    BY <1>2, NothingType DEF ObjectType
  <2>2. obj' = [obj EXCEPT ![cursor] = r]
    BY <1>3, <1>2 DEF FinishOrder
  <2>. HIDE DEF r
  <2>3. Follows(cursor, r) /\ Healthy(r)
    BY <1>2, <2>1, SameBody, NothingToDo
  <2>. QED
    BY <1>1, <1>2, <2>2, <2>3, OneObject
<1>4. ASSUME NEW r, ContinueWith(r), Follows(cursor, r), r.proto = self.proto,
             r.hp = self.hp, r.removed = self.removed
      PROVE  Conduct'
  <2>1. obj' = [obj EXCEPT ![cursor] = r]
    BY <1>4 DEF ContinueWith
  <2>2. Healthy(r)
    BY <1>2, <1>4, SameBody
  <2>. QED
    BY <1>1, <1>2, <1>4, <2>1, <2>2, OneObject
<1>5. ASSUME ContinueWith(self) PROVE Conduct'
  BY <1>2, <1>4, <1>5
<1>6. ASSUME NEW n, ContinueWith([self EXCEPT !.order.step = n]),
             ~self.attack.active, self.move.active => target.type # "Object",
             self.order.kind = "Attack"
      PROVE  Conduct'
  <2>. DEFINE r == [self EXCEPT !.order.step = n]
  <2>1. /\ r.order.target = target /\ r.order.kind = "Attack"
        /\ r.move = self.move /\ r.attack = self.attack
        /\ r.proto = self.proto /\ r.hp = self.hp /\ r.removed = self.removed
    BY <1>2, <1>6 DEF ObjectType, OrderType
  <2>2. ContinueWith(r)
    BY <1>6
  <2>. HIDE DEF r
  <2>3. Follows(cursor, r)
    BY <1>2, <1>6, <2>1 DEF Follows
  <2>. QED
    BY <1>4, <2>1, <2>2, <2>3
<1>7. ASSUME NEW d, NEW n, ~IsSelf(cursor, target), ~self.attack.active,
             ContinueWith([self EXCEPT !.move = StartedMove(cursor, target, d),
                                       !.order.step = n]),
             \/ self.order.kind = "Move" /\ n = 1
             \/ self.order.kind = "Attack" /\ (target.type = "Object" => n = 2)
      PROVE  Conduct'
  <2>. DEFINE m == StartedMove(cursor, target, d)
              r == [self EXCEPT !.move = m, !.order.step = n]
  <2>1. m.target = target
    BY DEF StartedMove
  <2>. HIDE DEF m
  <2>2. /\ r.order.target = target /\ r.order.kind = self.order.kind
        /\ r.order.step = n /\ r.move = m /\ r.attack = self.attack
        /\ r.proto = self.proto /\ r.hp = self.hp /\ r.removed = self.removed
    BY <1>2 DEF ObjectType, OrderType
  <2>3. ContinueWith(r)
    BY <1>7 DEF m
  <2>. HIDE DEF r
  <2>4. Follows(cursor, r)
    BY <1>7, <2>1, <2>2 DEF Follows
  <2>. QED
    BY <1>4, <2>2, <2>3, <2>4
<1>8. CASE MoveOrder
  <2>1. ~self.attack.active
    BY <1>2, <1>8 DEF MoveOrder, Follows
  <2>2. \/ FinishOrder \/ ContinueWith(self)
        \/ /\ CanStartMove(cursor, target)
           /\ ContinueWith([self EXCEPT !.move = StartedMove(cursor, target, 0),
                                        !.order.step = 1])
    BY <1>8 DEF MoveOrder
  <2>3. self.order.kind = "Move"
    BY <1>8 DEF MoveOrder
  <2>. QED
    BY <1>3, <1>5, <1>7, <2>1, <2>2, <2>3 DEF CanStartMove
<1>9. CASE AttackOrderStart
  <2>1. self.order.kind = "Attack" /\ self.order.step = 0 /\ target.type = "Object"
    BY <1>9 DEF AttackOrderStart, AttackStep
  <2>2. ~self.move.active
    BY <1>2, <2>1 DEF Follows
  <2>3. ASSUME NEW age, ~IsSelf(cursor, target),
               ContinueWith([self EXCEPT !.attack = StartedAttack(target, age),
                                         !.order.step = 1])
        PROVE  Conduct'
    <3>. DEFINE a == StartedAttack(target, age)
                r == [self EXCEPT !.attack = a, !.order.step = 1]
    <3>1. a.target = target
      BY DEF StartedAttack
    <3>. HIDE DEF a
    <3>2. /\ r.order.target = target /\ r.order.kind = "Attack"
          /\ r.order.step = 1 /\ r.move = self.move /\ r.attack = a
          /\ r.proto = self.proto /\ r.hp = self.hp /\ r.removed = self.removed
      BY <1>2, <2>1 DEF ObjectType, OrderType
    <3>3. ContinueWith(r)
      BY <2>3 DEF a
    <3>. HIDE DEF r
    <3>4. Follows(cursor, r)
      BY <2>2, <2>3, <3>1, <3>2 DEF Follows
    <3>. QED
      BY <1>4, <3>2, <3>3, <3>4
  <2>. QED
    BY <1>3, <1>9, <2>3 DEF AttackOrderStart, CanStartAttack
<1>10. CASE AttackOrderGo
  <2>1. self.order.kind = "Attack" /\ self.order.step = 0 /\ target.type # "Object"
    BY <1>10 DEF AttackOrderGo, AttackStep
  <2>2. ~self.attack.active
    BY <1>2, <2>1 DEF Follows
  <2>3. ASSUME CanStartMove(cursor, target),
               ContinueWith([self EXCEPT !.move =
                 StartedMove(cursor, target, AutomaticallyAttack)])
        PROVE  Conduct'
    <3>. DEFINE m == StartedMove(cursor, target, AutomaticallyAttack)
                r == [self EXCEPT !.move = m]
    <3>1. m.target = target
      BY DEF StartedMove
    <3>2. ContinueWith(r) /\ ~IsSelf(cursor, target)
      BY <2>3 DEF CanStartMove
    <3>. HIDE DEF m
    <3>3. /\ r.order = self.order /\ r.move = m /\ r.attack = self.attack
          /\ r.proto = self.proto /\ r.hp = self.hp /\ r.removed = self.removed
      BY <1>2 DEF ObjectType
    <3>. HIDE DEF r
    <3>4. Follows(cursor, r)
      BY <2>1, <2>2, <3>1, <3>2, <3>3 DEF Follows
    <3>. QED
      BY <1>4, <3>2, <3>3, <3>4
  <2>. QED
    BY <1>6, <1>10, <2>1, <2>2, <2>3 DEF AttackOrderGo
<1>11. CASE AttackOrderArrive
  BY <1>3, <1>5, <1>11 DEF AttackOrderArrive
<1>12. CASE AttackOrderAttack
  <2>1. self.order.kind = "Attack"
    BY <1>12 DEF AttackOrderAttack, AttackStep
  <2>. QED
    BY <1>3, <1>5, <1>7, <1>12, <2>1 DEF AttackOrderAttack, CanStartMove
<1>13. CASE AttackOrderFollow
  <2>1. self.order.kind = "Attack" /\ ~self.attack.active
    BY <1>2, <1>13 DEF AttackOrderFollow, AttackStep, Follows
  <2>. QED
    BY <1>3, <1>5, <1>6, <1>13, <2>1 DEF AttackOrderFollow
<1>. QED
  BY <1>8, <1>9, <1>10, <1>11, <1>12, <1>13

-----------------------------------------------------------------------------
(* Everything else.                                                         *)

LEMMA PlaceConduct == ASSUME TypeOK, Conduct, Place PROVE Conduct'
<1>. DEFINE s == Scenario[Len(obj) + 1]
            f == Fresh(s.proto, s.owner, s.at)
            r == [f EXCEPT !.order = s.order]
<1>1. /\ obj \in Seq(ObjectType) /\ obj' = Append(obj, r)
      /\ ~ShuttingDown /\ DOMAIN obj = 1 .. Len(obj) /\ Len(obj) \in Nat
  BY LenProperties DEF Place, TypeOK, Population, ShuttingDown
<1>2. /\ ~r.move.active /\ ~r.attack.active /\ r.proto = s.proto
      /\ r.hp = Attr[s.proto].maxHP
  BY DEF Fresh, NoMove, NoAttack
<1>3. r \in ObjectType
  <2>1. s \in Placement
    BY <1>1, LenProperties, ScenarioAssumption DEF Place
  <2>2. s.proto \in Proto /\ s.owner \in Players /\ s.at \in Int /\ s.order \in OrderType
    BY <2>1 DEF Placement
  <2>. HIDE DEF s
  <2>3. f \in ObjectType
    BY <2>2, FreshType DEF Linked
  <2>. QED
    BY <2>2, <2>3 DEF ObjectType
<1>. HIDE DEF r, s
<1>4. \A n : Follows(n, r)
  BY <1>2, NothingToDo
<1>5. Healthy(r)
  BY <1>2 DEF Healthy
<1>6. /\ DOMAIN obj' = DOMAIN obj \union {Len(obj) + 1} /\ obj'[Len(obj) + 1] = r
      /\ \A o \in DOMAIN obj : obj'[o] = obj[o]
  BY <1>1, <1>3, AppendProperties, LenProperties
<1>. QED
  BY <1>1, <1>4, <1>5, <1>6, OneByOne, OneByOneNext DEF Conduct

(* Steps that leave the objects as they are.                                *)
LEMMA SameConduct ==
  ASSUME Conduct, obj' = obj, ~ShuttingDown' => ~ShuttingDown
  PROVE  Conduct'
BY OneByOne, OneByOneNext DEF Conduct

LEMMA AgedDuty ==
  ASSUME NEW r \in ObjectType, NEW d
  PROVE  /\ Aged(r, d).order = r.order /\ Aged(r, d).move = r.move
         /\ Aged(r, d).proto = r.proto
<1>. DEFINE a == IF r.attack.active THEN r.attack.age + d ELSE r.attack.age
            q == [i \in DOMAIN r.queue |-> Older(r.queue[i], d)]
            k == [r.attack EXCEPT !.age = a]
            s == [r EXCEPT !.attack = k, !.queue = q]
<1>1. Aged(r, d) = IF r.removed THEN r ELSE s
  BY DEF Aged, ObjectType, AttackType
<1>. HIDE DEF q, a, k
<1>2. s.order = r.order /\ s.move = r.move /\ s.proto = r.proto
  BY DEF ObjectType
<1>. HIDE DEF s
<1>. QED
  BY <1>1, <1>2

LEMMA TickConduct == ASSUME TypeOK, Conduct, Tick PROVE Conduct'
<1>1. /\ DOMAIN obj' = DOMAIN obj /\ ~ShuttingDown
      /\ \A o \in DOMAIN obj : obj'[o] = Aged(obj[o], delta')
  BY DEF Tick, ShuttingDown
<1>2. ASSUME NEW o \in DOMAIN obj PROVE Follows(o, obj'[o]) /\ Healthy(obj'[o])
  <2>1. obj[o] \in ObjectType /\ Follows(o, obj[o]) /\ Healthy(obj[o])
    BY <1>1, OneByOne DEF TypeOK, Population, Conduct
  <2>. DEFINE s == Aged(obj[o], delta')
  <2>2. /\ s.order = obj[o].order /\ s.move = obj[o].move
        /\ s.proto = obj[o].proto /\ s.hp = obj[o].hp
        /\ s.removed = obj[o].removed
        /\ s.attack.active = obj[o].attack.active
        /\ s.attack.target = obj[o].attack.target
    BY <2>1, AgedKeeps, AgedDuty
  <2>. HIDE DEF s
  <2>3. Follows(o, s) /\ Healthy(s)
    BY <2>1, <2>2, SameDuty, SameBody
  <2>. QED
    BY <1>1, <2>3 DEF s
<1>. QED
  BY <1>1, <1>2, OneByOneNext DEF Conduct

LEMMA MoveConduct == ASSUME TypeOK, Conduct, MoveAction PROVE Conduct'
<1>1. ~ShuttingDown /\ cursor # End /\ self.move.active
  BY DEF MoveAction, ShuttingDown, TypeOK, ControlOK, Processing
<1>2. /\ cursor \in DOMAIN obj /\ self = obj[cursor] /\ self \in ObjectType
      /\ self.move \in MoveType /\ Follows(cursor, self) /\ Healthy(self)
  BY <1>1, AtCursor DEF ObjectType
<1>3. PICK x, d, m : Moved(self, x, m) /\ (m = NoMove \/ m = [self.move EXCEPT !.dest = d])
  BY Zenon DEF MoveAction
<1>. DEFINE r == [self EXCEPT !.pos = x, !.move = m]
<1>4. obj' = [obj EXCEPT ![cursor] = r]
  BY <1>3 DEF Moved
<1>5. \/ ~m.active
      \/ m.active = self.move.active /\ m.target = self.move.target
  BY <1>2, <1>3 DEF MoveType, NoMove
<1>6. /\ r.order = self.order /\ r.move = m /\ r.attack = self.attack
      /\ r.proto = self.proto /\ r.hp = self.hp /\ r.removed = self.removed
  BY <1>2 DEF ObjectType
<1>. HIDE DEF r
<1>7. Healthy(r)
  BY <1>2, <1>6, SameBody
<1>8. Follows(cursor, r)
  BY <1>1, <1>2, <1>5, <1>6 DEF Follows
<1>. QED
  BY <1>1, <1>2, <1>4, <1>7, <1>8, OneObject

(* A hit that leaves the target in the game leaves it hit points: had it    *)
(* not, one of the hits would have been a killing one.                      *)
LEMMA WoundLeavesAlive ==
  ASSUME TypeOK, cursor # End, NEW t \in DOMAIN obj,
         Attacks(cursor) > 0, KillingHits(cursor, t) = {}
  PROVE  obj[t].hp - Attacks(cursor) * NetDamage(cursor, t) > 0
<1>. DEFINE n == Attacks(cursor)
            h == obj[t].hp - n * NetDamage(cursor, t)
<1>1. n \in Int /\ h \in Int
  BY AttacksType, WoundsType
<1>2. n \in 1 .. n
  BY <1>1
<1>3. ~(h <= 0)
  BY <1>2 DEF KillingHits
<1>. HIDE DEF h
<1>4. h > 0
  BY <1>1, <1>3
<1>. QED
  BY <1>4 DEF h

LEMMA AttackConduct == ASSUME TypeOK, Conduct, AttackAction PROVE Conduct'
<1>. DEFINE t == self.attack.target.obj
<1>1. /\ ~ShuttingDown /\ cursor # End /\ self.attack.active
      /\ t \in DOMAIN obj
  BY AttackTarget DEF AttackAction, ShuttingDown
<1>2. /\ cursor \in DOMAIN obj /\ self = obj[cursor] /\ self \in ObjectType
      /\ self.attack \in AttackType /\ Follows(cursor, self) /\ Healthy(self)
  BY <1>1, AtCursor DEF ObjectType
<1>3. /\ obj[t] \in ObjectType /\ Follows(t, obj[t]) /\ Healthy(obj[t])
  BY <1>1, OneByOne DEF Conduct, TypeOK, Population
<1>4. \/ EndAttack \/ Wait
      \/ Attacks(cursor) > 0 /\ KillingHits(cursor, t) = {} /\ Wound(t)
      \/ Kill(t)
  BY Zenon DEF AttackAction
<1>5. ASSUME NEW r, NEW k, NEW h, NEW b,
             r = [obj[t] EXCEPT !.hp = h, !.removed = b],
             k.active => k.active = self.attack.active
                           /\ k.target = self.attack.target,
             Healthy(r),
             obj' = [[obj EXCEPT ![t] = r] EXCEPT ![cursor] = [@ EXCEPT !.attack = k]]
      PROVE  Conduct'
  <2>. DEFINE mid == [obj EXCEPT ![t] = r]
              c == [mid[cursor] EXCEPT !.attack = k]
  <2>1. /\ DOMAIN mid = DOMAIN obj /\ mid[t] = r
        /\ \A o \in DOMAIN obj \ {t} : mid[o] = obj[o]
    BY <1>1
  <2>2. /\ r.order = obj[t].order /\ r.move = obj[t].move
        /\ r.attack = obj[t].attack
        /\ \A a : [r EXCEPT !.attack = a] = [r EXCEPT !.attack = a]
    BY <1>3, <1>5 DEF ObjectType
  <2>3. /\ DOMAIN obj' = DOMAIN obj /\ obj'[cursor] = c
        /\ \A o \in DOMAIN obj \ {cursor} : obj'[o] = mid[o]
    BY <1>2, <1>5, <2>1
  <2>. HIDE DEF mid
  <2>4. /\ Follows(t, r)
        /\ \A o \in DOMAIN obj : Follows(o, mid[o]) /\ Healthy(mid[o])
    <3>1. Follows(t, r)
      BY <1>3, <2>2, SameDuty
    <3>. QED
      BY <1>1, <1>5, <2>1, <3>1, OneByOne DEF Conduct
  <2>5. /\ c.order = mid[cursor].order /\ c.move = mid[cursor].move
        /\ c.attack = k /\ c.proto = mid[cursor].proto
        /\ c.hp = mid[cursor].hp /\ c.removed = mid[cursor].removed
        /\ mid[cursor].attack = self.attack
    <3>1. /\ mid[cursor] = obj[cursor] \/ mid[cursor] = [obj[cursor] EXCEPT !.hp = h, !.removed = b]
      BY <1>2, <1>5, <2>1
    <3>. QED
      BY <1>2, <3>1 DEF ObjectType
  <2>. HIDE DEF c
  <2>6. Healthy(c)
    BY <1>2, <2>4, <2>5, SameBody
  <2>7. Follows(cursor, c)
    <3>1. Follows(cursor, mid[cursor]) /\ mid[cursor].attack.active
      BY <1>1, <1>2, <2>4, <2>5
    <3>2. c.attack.active => c.attack.target = mid[cursor].attack.target
      BY Zenon, <1>5, <2>5
    <3>3. c.order = mid[cursor].order /\ c.move = mid[cursor].move
      BY <2>5
    <3>. QED
      BY Zenon, <3>1, <3>2, <3>3 DEF Follows
  <2>. QED
    BY <1>1, <2>3, <2>4, <2>6, <2>7, OneByOneNext DEF Conduct
<1>6. CASE EndAttack
  <2>. DEFINE r == [self EXCEPT !.attack = NoAttack]
  <2>1. obj' = [obj EXCEPT ![cursor] = r]
    BY <1>2, <1>6 DEF EndAttack
  <2>2. /\ r.order = self.order /\ r.move = self.move /\ ~r.attack.active
        /\ r.proto = self.proto /\ r.hp = self.hp /\ r.removed = self.removed
    BY <1>2, NothingType DEF ObjectType
  <2>. HIDE DEF r
  <2>3. Healthy(r)
    BY <1>2, <2>2, SameBody
  <2>4. Follows(cursor, r)
    BY <1>2, <2>2 DEF Follows
  <2>. QED
    BY <1>1, <1>2, <2>1, <2>3, <2>4, OneObject
<1>7. CASE Wait
  BY <1>1, <1>7, SameConduct DEF Wait
<1>8. CASE Attacks(cursor) > 0 /\ KillingHits(cursor, t) = {} /\ Wound(t)
  <2>. DEFINE h == obj[t].hp - Attacks(cursor) * NetDamage(cursor, t)
              k == [self.attack EXCEPT !.age = 0]
              r == [obj[t] EXCEPT !.hp = h, !.removed = obj[t].removed]
  <2>1. h > 0
    BY <1>1, <1>8, WoundLeavesAlive
  <2>2. k.active = self.attack.active /\ k.target = self.attack.target
    BY <1>2 DEF AttackType
  <2>3. obj' = [[obj EXCEPT ![t] = r] EXCEPT ![cursor] = [@ EXCEPT !.attack = k]]
    <3>1. obj' = [obj EXCEPT ![t].hp = h, ![cursor].attack.age = 0]
      BY <1>8 DEF Wound
    <3>2. r = [obj[t] EXCEPT !.hp = h]
      BY <1>3 DEF ObjectType
    <3>. HIDE DEF h, r
    <3>3. obj' = [[obj EXCEPT ![t] = r] EXCEPT ![cursor].attack.age = 0]
      BY <3>1, <3>2
    <3>4. k = [[obj EXCEPT ![t] = r][cursor].attack EXCEPT !.age = 0]
      <4>1. r.attack = obj[t].attack
        BY <1>3, <3>2 DEF ObjectType
      <4>2. [obj EXCEPT ![t] = r][cursor].attack = self.attack
        BY <1>1, <1>2, <4>1
      <4>. QED
        BY <4>2
    <3>. HIDE DEF k
    <3>. QED
      BY <3>3, <3>4
  <2>. HIDE DEF h, k
  <2>4. r.hp = h
    BY <1>3 DEF ObjectType
  <2>5. r = [obj[t] EXCEPT !.hp = h, !.removed = obj[t].removed]
    OBVIOUS
  <2>. HIDE DEF r
  <2>6. Healthy(r)
    BY <2>1, <2>4 DEF Healthy
  <2>. QED
    BY <1>5, <2>2, <2>3, <2>5, <2>6
<1>9. CASE Kill(t)
  <2>. DEFINE h == obj[t].hp - Min(KillingHits(cursor, t)) * NetDamage(cursor, t)
              r == [obj[t] EXCEPT !.hp = h, !.removed = TRUE]
  <2>1. obj' = [[obj EXCEPT ![t] = r] EXCEPT ![cursor] = [@ EXCEPT !.attack = NoAttack]]
    BY <1>1, <1>2, <1>3, <1>9 DEF Kill, ObjectType
  <2>. HIDE DEF h
  <2>2. r.removed /\ r = [obj[t] EXCEPT !.hp = h, !.removed = TRUE]
    BY <1>3 DEF ObjectType
  <2>. HIDE DEF r
  <2>3. Healthy(r)
    BY <2>2 DEF Healthy
  <2>. QED
    BY <1>5, <2>1, <2>2, <2>3, NothingType
<1>. QED
  BY <1>4, <1>6, <1>7, <1>8, <1>9

LEMMA ProductionConduct ==
  ASSUME TypeOK, Conduct, NoProduction \/ Working \/ Produce
  PROVE  Conduct'
<1>1. ~ShuttingDown /\ cursor # End /\ ~ShuttingDown'
  BY DEF NoProduction, Working, Produce, ShuttingDown, TypeOK, ControlOK, Processing
<1>2. /\ cursor \in DOMAIN obj /\ self = obj[cursor] /\ self \in ObjectType
      /\ Follows(cursor, self) /\ Healthy(self)
  BY <1>1, AtCursor
<1>3. ASSUME NEW q, NEW r, r = [self EXCEPT !.secondary = FALSE, !.queue = q]
      PROVE  Follows(cursor, r) /\ Healthy(r)
  <2>1. /\ r.order = self.order /\ r.move = self.move /\ r.attack = self.attack
        /\ r.proto = self.proto /\ r.hp = self.hp /\ r.removed = self.removed
    BY <1>2, <1>3 DEF ObjectType
  <2>. QED
    BY <1>2, <2>1, SameDuty, SameBody
<1>4. ASSUME NEW q, obj' = [obj EXCEPT ![cursor] =
                             [self EXCEPT !.secondary = FALSE, !.queue = q]]
      PROVE  Conduct'
  <2>. DEFINE r == [self EXCEPT !.secondary = FALSE, !.queue = q]
  <2>1. obj' = [obj EXCEPT ![cursor] = r] /\ Follows(cursor, r) /\ Healthy(r)
    BY <1>3, <1>4
  <2>. HIDE DEF r
  <2>. QED
    BY <1>1, <1>2, <2>1, OneObject
<1>5. CASE NoProduction
  <2>1. obj' = [obj EXCEPT ![cursor] = [self EXCEPT !.secondary = FALSE,
                                                    !.queue = self.queue]]
    BY <1>2, <1>5 DEF NoProduction, ObjectType
  <2>. QED
    BY <1>4, <2>1
<1>6. CASE Working
  BY <1>4, <1>6 DEF Working
<1>7. CASE Produce
  <2>. DEFINE pr == Head(self.queue).what
              q == Tail(self.queue)
              k == [self EXCEPT !.secondary = FALSE, !.queue = q]
              s == [obj EXCEPT ![cursor] = k]
              f == Fresh(pr, self.owner, self.pos)
  <2>1. /\ pr \in Proto /\ q \in Seq(Job) /\ self.owner \in Players
        /\ self.pos \in Int
    <3>1. self.queue \in Seq(Job) /\ self.queue # <<>>
      BY <1>2, <1>7 DEF ObjectType, Produce
    <3>2. Head(self.queue) \in Job /\ q \in Seq(Job)
      BY <3>1, HeadTailProperties
    <3>. QED
      BY <1>2, <3>2 DEF Job, ObjectType
  <2>2. obj' = Append(s, f)
    BY <1>7 DEF Produce
  <2>3. Follows(cursor, k) /\ Healthy(k)
    BY <1>3
  <2>. HIDE DEF pr, q
  <2>4. k \in ObjectType
    BY <1>2, <2>1 DEF ObjectType
  <2>. HIDE DEF k
  <2>5. /\ s \in Seq(ObjectType) /\ Len(s) \in Nat /\ DOMAIN s = DOMAIN obj
        /\ DOMAIN s = 1 .. Len(s)
        /\ s[cursor] = k /\ \A o \in DOMAIN obj \ {cursor} : s[o] = obj[o]
    <3>1. obj \in Seq(ObjectType) /\ DOMAIN obj = 1 .. Len(obj)
      BY LenProperties DEF TypeOK, Population
    <3>2. s \in Seq(ObjectType) /\ Len(s) = Len(obj)
      BY <1>2, <2>4, <3>1, ExceptSeq
    <3>. QED
      BY <1>2, <3>1, <3>2, LenProperties
  <2>. HIDE DEF s
  <2>6. f \in ObjectType /\ \A n : Follows(n, f) /\ Healthy(f)
    <3>1. f \in ObjectType
      BY <2>1, FreshType DEF Linked
    <3>2. /\ ~f.move.active /\ ~f.attack.active /\ f.proto = pr
          /\ f.hp = Attr[pr].maxHP
      BY DEF Fresh, NoMove, NoAttack
    <3>. HIDE DEF f
    <3>. QED
      BY <3>1, <3>2, NothingToDo DEF Healthy
  <2>. HIDE DEF f
  <2>7. /\ DOMAIN obj' = DOMAIN obj \union {Len(s) + 1} /\ obj'[Len(s) + 1] = f
        /\ \A o \in DOMAIN obj : obj'[o] = s[o]
    BY <2>2, <2>5, <2>6, AppendProperties, LenProperties
  <2>. QED
    BY <1>1, <2>3, <2>5, <2>6, <2>7, OneByOne, OneByOneNext DEF Conduct
<1>. QED
  BY <1>5, <1>6, <1>7

LEMMA UserConduct == ASSUME TypeOK, Conduct, User PROVE Conduct'
<1>1. ~ShuttingDown
  BY DEF User, IssueMoveToPoint, IssueTargeted, DoOrder, IssueProduce, Quit,
         ShuttingDown
<1>2. ASSUME NEW o \in DOMAIN obj
      PROVE  obj[o] \in ObjectType /\ Follows(o, obj[o]) /\ Healthy(obj[o])
  BY <1>1, OneByOne DEF Conduct, TypeOK, Population
<1>3. ASSUME NEW o \in DOMAIN obj, NEW order, DoOrder(o, order) PROVE Conduct'
  <2>. DEFINE r == [obj[o] EXCEPT !.order = order, !.move = NoMove,
                                  !.attack = NoAttack]
  <2>1. /\ ~r.move.active /\ ~r.attack.active /\ r.proto = obj[o].proto
        /\ r.hp = obj[o].hp /\ r.removed = obj[o].removed
    BY <1>2, NothingType DEF ObjectType
  <2>2. obj' = [obj EXCEPT ![o] = r]
    BY <1>3 DEF DoOrder
  <2>. HIDE DEF r
  <2>3. Follows(o, r) /\ Healthy(r)
    BY <1>2, <2>1, SameBody, NothingToDo
  <2>. QED
    BY <1>1, <2>2, <2>3, OneObject
<1>4. ASSUME NEW o \in DOMAIN obj, IssueProduce(o) PROVE Conduct'
  <2>1. PICK q : obj' = [obj EXCEPT ![o] =
                          [obj[o] EXCEPT !.secondary = TRUE, !.queue = q]]
    BY <1>4 DEF IssueProduce
  <2>. DEFINE r == [obj[o] EXCEPT !.secondary = TRUE, !.queue = q]
  <2>2. /\ r.order = obj[o].order /\ r.move = obj[o].move
        /\ r.attack = obj[o].attack /\ r.proto = obj[o].proto
        /\ r.hp = obj[o].hp /\ r.removed = obj[o].removed
    BY <1>2 DEF ObjectType
  <2>3. obj' = [obj EXCEPT ![o] = r]
    BY <2>1
  <2>. HIDE DEF r
  <2>4. Follows(o, r) /\ Healthy(r)
    BY <1>2, <2>2, SameDuty, SameBody
  <2>. QED
    BY <1>1, <2>3, <2>4, OneObject
<1>5. CASE Quit
  BY <1>1, <1>5, SameConduct DEF Quit
<1>. QED
  BY <1>3, <1>4, <1>5 DEF User, IssueMoveToPoint, IssueTargeted

LEMMA ShutdownConduct ==
  ASSUME TypeOK, Conduct, LeaveLoop \/ CleanupObject \/ ClearList
  PROVE  Conduct'
<1>1. ShuttingDown'
  BY DEF LeaveLoop, CleanupObject, ClearList, ShuttingDown
<1>2. CASE CleanupObject
  <2>. DEFINE r == [self EXCEPT !.removed = TRUE]
  <2>1. /\ cursor \in DOMAIN obj /\ self = obj[cursor] /\ self \in ObjectType
        /\ Follows(cursor, self)
    BY <1>2, AtCursor DEF CleanupObject
  <2>2. obj' = [obj EXCEPT ![cursor] = r]
    BY <1>2, <2>1 DEF CleanupObject
  <2>3. r.order = self.order /\ r.move = self.move /\ r.attack = self.attack
    BY <2>1 DEF ObjectType
  <2>. HIDE DEF r
  <2>4. Follows(cursor, r)
    BY <2>1, <2>3, SameDuty
  <2>. QED
    BY <1>1, <2>1, <2>2, <2>4, OneObject
<1>. QED
  BY <1>1, <1>2, SameConduct DEF LeaveLoop, ClearList

LEMMA ConductStep == TypeOK /\ Conduct /\ [Next]_vars => Conduct'
<1>. SUFFICES ASSUME TypeOK, Conduct, [Next]_vars PROVE Conduct'
  OBVIOUS
<1>1. CASE Loop
  BY <1>1, PlaceConduct, TickConduct, SameConduct
     DEF Loop, StartLoop, StartFrame, FinishFrame, SkipProcessed, BeginObject,
         Restart, Proceed, ShuttingDown
<1>2. CASE Orders
  BY <1>2, OrderConduct, SameConduct DEF Orders, NoOrderToProcess, ShuttingDown
<1>3. CASE Actions
  BY <1>3, MoveConduct, AttackConduct, SameConduct
     DEF Actions, NoMoveAction, NoAttackAction, ShuttingDown
<1>4. CASE Production
  BY <1>4, ProductionConduct DEF Production
<1>5. CASE Shutdown
  BY <1>5, ShutdownConduct DEF Shutdown
<1>6. CASE User
  BY <1>6, UserConduct
<1>7. CASE UNCHANGED vars
  BY <1>7, SameConduct DEF vars, ShuttingDown
<1>. QED
  BY <1>1, <1>2, <1>3, <1>4, <1>5, <1>6, <1>7 DEF Next, Engine, Terminated

LEMMA ConductHolds == Spec => [](TypeOK /\ Conduct)
<1>1. Init => TypeOK /\ Conduct
  <2>1. Init => Conduct
    BY OneByOne DEF Init, Conduct
  <2>. QED
    BY <2>1, InitType
<1>2. TypeOK /\ Conduct /\ [Next]_vars => TypeOK' /\ Conduct'
  BY TypeStep, ConductStep
<1>. QED
  BY <1>1, <1>2, PTL DEF Spec

(* However orders are given, finished and broken off, an object only acts   *)
(* on the order it has.                                                     *)
THEOREM ActionsBelongToOrders == Spec => []ActionsFollowOrder
<1>1. Conduct => ActionsFollowOrder
  BY DEF Conduct
<1>. QED
  BY <1>1, ConductHolds, PTL

(* No object goes on without hit points, however many hits a long frame     *)
(* makes up for.                                                            *)
THEOREM NobodySurvivesZero == Spec => []InGameMeansAlive
<1>1. Conduct => InGameMeansAlive
  BY DEF Conduct
<1>. QED
  BY <1>1, ConductHolds, PTL

-----------------------------------------------------------------------------
(* The walk over the object list.                                           *)

(* As long as the list has not changed since the loop started over, every   *)
(* object before the cursor has been processed.                             *)
Behind ==
  \E k \in 1 .. Len(objs) + 1 :
    NodeAt(k) = cursor /\ \A i \in 1 .. k - 1 : objs[i] \in processed

FrameInv ==
  /\ pc = "object" => ~invalidated
  /\ Processing => cursor \notin processed
  /\ InFrame /\ ~invalidated => Behind

-----------------------------------------------------------------------------
(* The moves of the cursor.                                                 *)

LEMMA AtFirst ==
  ASSUME TypeOK, objs' = objs, cursor' = First
  PROVE  Behind'
<1>1. Len(objs) \in Nat
  BY DEF TypeOK, ControlOK
<1>2. 1 \in 1 .. Len(objs') + 1 /\ NodeAt(1)' = cursor'
  BY <1>1 DEF First, NodeAt
<1>3. \A i \in 1 .. 1 - 1 : objs'[i] \in processed'
  BY <1>1
<1>. QED
  BY <1>2, <1>3 DEF Behind

LEMMA AtSuccessor ==
  ASSUME TypeOK, ListInv, Behind, cursor # End, objs' = objs,
         cursor' = Successor(cursor), processed' = processed \union {cursor}
  PROVE  Behind'
<1>1. PICK k \in 1 .. Len(objs) + 1 :
        NodeAt(k) = cursor /\ \A i \in 1 .. k - 1 : objs[i] \in processed
  BY DEF Behind
<1>2. Len(objs) \in Nat /\ DOMAIN objs = 1 .. Len(objs)
  BY DEF TypeOK, ControlOK
<1>3. k \in DOMAIN objs /\ objs[k] = cursor
  BY <1>1 DEF NodeAt
<1>4. (CHOOSE i \in DOMAIN objs : objs[i] = cursor) = k
  BY <1>3 DEF ListInv, ListIsRoster, IsInjective
<1>5. cursor' = NodeAt(k + 1)
  BY <1>4 DEF Successor
<1>6. k + 1 \in 1 .. Len(objs) + 1 /\ NodeAt(k + 1)' = NodeAt(k + 1)
  BY <1>2, <1>3 DEF NodeAt
<1>7. \A i \in 1 .. (k + 1) - 1 : objs[i] \in processed'
  <2>1. \A i \in 1 .. (k + 1) - 1 : i \in 1 .. k - 1 \/ i = k
    BY <1>2, <1>3
  <2>. QED
    BY <1>1, <1>3, <2>1
<1>. QED
  BY <1>5, <1>6, <1>7 DEF Behind

LEMMA SameBehind ==
  ASSUME Behind, objs' = objs, cursor' = cursor, processed' = processed
  PROVE  Behind'
BY DEF Behind, NodeAt

(* What the handlers of an object leave as it is.                           *)
Busy ==
  /\ Processing /\ Processing' /\ cursor' = cursor /\ processed' = processed
  /\ \/ objs' = objs /\ invalidated' = invalidated
     \/ objs' # objs /\ invalidated'

LEMMA HandlersAreBusy ==
  ASSUME TypeOK, ListInv, Orders \/ Actions \/ Production
  PROVE  Busy
<1>1. /\ Processing /\ Processing' /\ cursor' = cursor /\ processed' = processed
  BY DEF Orders, NoOrderToProcess, MoveOrder, AttackStep, AttackOrderStart,
         AttackOrderGo, AttackOrderArrive, AttackOrderAttack,
         AttackOrderFollow, ContinueWith, FinishOrder, Actions, NoMoveAction,
         MoveAction, Moved, NoAttackAction, AttackAction, Production,
         NoProduction, Working, Produce, Processing
<1>2. objs \in Seq(DOMAIN obj)
  BY DEF TypeOK, ControlOK
<1>3. CASE objs' = objs /\ invalidated' = invalidated
  BY <1>1, <1>3 DEF Busy
<1>4. ASSUME AddToList(Len(obj) + 1) PROVE Busy
  <2>1. objs' # objs
    <3>1. Len(objs') = Len(objs) + 1 /\ Len(objs) \in Nat
      <4>. DEFINE S == DOMAIN obj \union {Len(obj) + 1}
      <4>1. objs \in Seq(S) /\ Len(obj) + 1 \in S
        BY <1>2, SeqMonotonic
      <4>. HIDE DEF S
      <4>. QED
        BY <1>4, <4>1, AppendProperties, LenProperties DEF AddToList
    <3>. QED
      BY <3>1
  <2>. QED
    BY <1>1, <1>4, <2>1 DEF Busy, AddToList
<1>5. ASSUME NEW t, InList(t), RemoveFromList(t) PROVE Busy
  <2>1. ToSet(objs') = ToSet(objs) \ {t}
    BY <1>2, <1>5, RemoveFirstProperties DEF RemoveFromList, ListInv, ListIsRoster
  <2>2. objs' # objs
    BY <1>5, <2>1 DEF InList
  <2>. QED
    BY <1>1, <1>5, <2>2 DEF Busy, RemoveFromList
<1>6. CASE Orders
  BY <1>3, <1>6
     DEF Orders, NoOrderToProcess, MoveOrder, AttackStep, AttackOrderStart,
         AttackOrderGo, AttackOrderArrive, AttackOrderAttack,
         AttackOrderFollow, ContinueWith, FinishOrder, lists
<1>7. CASE NoMoveAction \/ MoveAction \/ NoAttackAction
  BY <1>3, <1>7 DEF NoMoveAction, MoveAction, Moved, NoAttackAction, lists
<1>8. CASE AttackAction
  <2>. DEFINE t == self.attack.target.obj
  <2>1. EndAttack \/ Wait \/ Wound(t) \/ (CanAttack(cursor, t) /\ Kill(t))
    BY Zenon, <1>8 DEF AttackAction
  <2>2. t \in DOMAIN obj
    BY <1>8, AttackTarget
  <2>3. CanAttack(cursor, t) => InList(t)
    BY <1>1, <2>2, CursorInGame
       DEF CanAttack, ListInv, ListIsRoster, Live, InList
  <2>. QED
    BY <1>3, <1>5, <2>1, <2>3 DEF EndAttack, Wait, Wound, Kill, lists
<1>9. CASE Production
  BY <1>3, <1>4, <1>9 DEF Production, NoProduction, Working, Produce, lists
<1>. QED
  BY <1>6, <1>7, <1>8, <1>9 DEF Actions

LEMMA BusyFrame ==
  ASSUME FrameInv, Busy PROVE FrameInv'
<1>1. pc' # "object" /\ Processing /\ Processing'
  BY DEF Busy, Processing
<1>2. CASE invalidated'
  BY <1>1, <1>2 DEF Busy, FrameInv
<1>3. CASE ~invalidated'
  <2>1. ~invalidated /\ objs' = objs
    BY <1>3 DEF Busy
  <2>2. Behind'
    BY <1>1, <2>1, SameBehind DEF Busy, FrameInv, InFrame
  <2>. QED
    BY <1>1, <2>2 DEF Busy, FrameInv
<1>. QED
  BY <1>2, <1>3

LEMMA FrameStep == TypeOK /\ ListInv /\ FrameInv /\ [Next]_vars => FrameInv'
<1>. SUFFICES ASSUME TypeOK, ListInv, FrameInv, [Next]_vars PROVE FrameInv'
  OBVIOUS
<1>1. ASSUME ~InFrame' PROVE FrameInv'
  BY <1>1 DEF FrameInv, InFrame
<1>2. CASE Place \/ StartLoop \/ FinishFrame \/ Tick
  BY <1>1, <1>2 DEF Place, StartLoop, FinishFrame, Tick, InFrame, Processing
<1>3. CASE StartFrame \/ Restart
  <2>1. Behind' /\ pc' = "object" /\ invalidated' = FALSE
    BY <1>3, AtFirst DEF StartFrame, Restart
  <2>. QED
    BY <2>1 DEF FrameInv, Processing
<1>4. CASE SkipProcessed
  <2>1. /\ pc = "object" /\ pc' = "object" /\ ~invalidated /\ ~invalidated'
        /\ cursor # End /\ objs' = objs /\ cursor' = Successor(cursor)
        /\ processed' = processed \union {cursor}
    BY <1>4 DEF SkipProcessed, FrameInv, lists
  <2>2. Behind'
    BY <2>1, AtSuccessor DEF FrameInv, InFrame
  <2>. QED
    BY <2>1, <2>2 DEF FrameInv, Processing
<1>5. CASE BeginObject
  <2>1. /\ pc = "object" /\ pc' = "order" /\ objs' = objs /\ cursor' = cursor
        /\ processed' = processed /\ cursor \notin processed
        /\ ~invalidated
    BY <1>5 DEF BeginObject, FrameInv, lists
  <2>2. Behind'
    BY <2>1, SameBehind DEF FrameInv, InFrame
  <2>. QED
    BY <2>1, <2>2 DEF FrameInv
<1>6. CASE Proceed
  <2>1. /\ Processing /\ pc' = "object" /\ ~invalidated /\ ~invalidated'
        /\ cursor # End /\ objs' = objs /\ cursor' = Successor(cursor)
        /\ processed' = processed \union {cursor}
    BY <1>6 DEF Proceed, Processing, TypeOK, ControlOK, lists
  <2>2. Behind'
    BY <2>1, AtSuccessor DEF FrameInv, InFrame
  <2>. QED
    BY <2>1, <2>2 DEF FrameInv, Processing
<1>7. CASE Orders \/ Actions \/ Production
  BY <1>7, HandlersAreBusy, BusyFrame
<1>8. CASE Shutdown
  BY <1>1, <1>8 DEF Shutdown, LeaveLoop, CleanupObject, ClearList, InFrame,
                    Processing
<1>9. CASE User
  BY <1>1, <1>9 DEF User, IssueMoveToPoint, IssueTargeted, DoOrder,
                    IssueProduce, Quit, InFrame, Processing
<1>10. CASE UNCHANGED vars
  <2>1. /\ pc' = pc /\ objs' = objs /\ cursor' = cursor
        /\ processed' = processed /\ invalidated' = invalidated
    BY <1>10 DEF vars, lists
  <2>. QED
    BY <2>1, SameBehind DEF FrameInv, InFrame, Processing
<1>. QED
  BY <1>2, <1>3, <1>4, <1>5, <1>6, <1>7, <1>8, <1>9, <1>10
     DEF Next, Engine, Loop, Terminated

LEMMA FrameInit == Init => FrameInv
BY DEF Init, FrameInv, InFrame, Processing

(* At the end of the list every object of it is behind the cursor.          *)
LEMMA AllBehind ==
  ASSUME TypeOK, FrameInv, pc = "object", cursor = End
  PROVE  ToSet(objs) \subseteq processed
<1>1. Behind
  BY DEF FrameInv, InFrame
<1>2. PICK k \in 1 .. Len(objs) + 1 :
        NodeAt(k) = End /\ \A i \in 1 .. k - 1 : objs[i] \in processed
  BY <1>1 DEF Behind
<1>3. /\ Len(objs) \in Nat /\ DOMAIN objs = 1 .. Len(objs)
      /\ \A i \in DOMAIN objs : objs[i] \in DOMAIN obj
      /\ End \notin DOMAIN obj
  BY DEF TypeOK, ControlOK, Population, End
<1>4. k = Len(objs) + 1
  BY <1>2, <1>3 DEF NodeAt
<1>5. \A i \in DOMAIN objs : objs[i] \in processed
  BY <1>2, <1>3, <1>4
<1>. QED
  BY <1>5 DEF ToSet

(* Whatever a frame creates and removes on the way, when it is over every   *)
(* object of the list has been processed.                                   *)
THEOREM NobodyIsForgotten == Spec => []FrameCoversList
<1>1. Init => TypeOK /\ ListInv /\ FrameInv
  BY InitType, ListInit, FrameInit
<1>2. TypeOK /\ ListInv /\ FrameInv /\ [Next]_vars
        => TypeOK' /\ ListInv' /\ FrameInv'
  BY TypeStep, ListStep, FrameStep
<1>3. TypeOK /\ FrameInv => FrameCoversList
  BY AllBehind DEF FrameCoversList
<1>. QED
  BY <1>1, <1>2, <1>3, PTL DEF Spec

-----------------------------------------------------------------------------
(* The turns of an object: one for being reached, one for every time it had *)
(* changed the list and was left out of the processed ones for that.        *)

Credit(o) ==
  IF o \in processed \/ (Processing /\ o = cursor /\ ~invalidated) THEN 1 ELSE 0

TurnsInv ==
  /\ turns \in [DOMAIN obj -> Nat] /\ changes \in [DOMAIN obj -> Nat]
  /\ InFrame =>
       /\ \A o \in processed : turns[o] >= 1
       /\ Processing => turns[cursor] >= 1
       /\ \A o \in DOMAIN obj : turns[o] <= changes[o] + Credit(o)

LEMMA CountedType ==
  ASSUME NEW count, count \in [DOMAIN obj -> Nat], NEW happens
  PROVE  Counted(count, happens) \in [DOMAIN obj' -> Nat]
BY DEF Counted

LEMMA TurnsStep ==
  TypeOK /\ ListInv /\ FrameInv /\ TypeOK' /\ TurnsInv
    /\ [TurnsNext]_turnsVars => TurnsInv'
<1>. SUFFICES ASSUME TypeOK, ListInv, FrameInv, TypeOK', TurnsInv,
                     [TurnsNext]_turnsVars
              PROVE  TurnsInv'
  OBVIOUS
<1>1. CASE UNCHANGED turnsVars
  <2>1. /\ obj' = obj /\ turns' = turns /\ changes' = changes /\ pc' = pc
        /\ processed' = processed /\ cursor' = cursor
        /\ invalidated' = invalidated
    BY <1>1 DEF turnsVars, vars, lists
  <2>. QED
    BY <2>1 DEF TurnsInv, InFrame, Processing, Credit
<1>. SUFFICES ASSUME TurnsNext PROVE TurnsInv'
  BY <1>1
<1>. DEFINE turn == pc = "object" /\ pc' = "order"
            change == Processing /\ objs' # objs
<1>2. /\ Next /\ turns' = Counted(turns, turn) /\ changes' = Counted(changes, change)
      /\ turns \in [DOMAIN obj -> Nat] /\ changes \in [DOMAIN obj -> Nat]
  BY DEF TurnsNext, TurnsInv
<1>3. turns' \in [DOMAIN obj' -> Nat] /\ changes' \in [DOMAIN obj' -> Nat]
  BY <1>2, CountedType
<1>. HIDE DEF turn, change
<1>4. ASSUME pc # "loop", NEW o \in DOMAIN obj'
      PROVE  /\ turns'[o] = IF o \notin DOMAIN obj THEN 0
                            ELSE turns[o] + (IF turn /\ o = cursor THEN 1 ELSE 0)
             /\ changes'[o] = IF o \notin DOMAIN obj THEN 0
                              ELSE changes[o] + (IF change /\ o = cursor THEN 1 ELSE 0)
  BY <1>2, <1>4 DEF Counted
<1>5. /\ processed \subseteq DOMAIN obj /\ processed' \subseteq DOMAIN obj'
      /\ Processing => cursor \in DOMAIN obj
      /\ Processing' => cursor' \in DOMAIN obj'
  BY DEF TypeOK, ControlOK, End
<1>6. ASSUME ~InFrame' PROVE TurnsInv'
  BY <1>3, <1>6 DEF TurnsInv
<1>7. CASE StartFrame
  <2>1. /\ processed' = {} /\ ~Processing' /\ pc = "loop"
    BY <1>7 DEF StartFrame, Processing
  <2>2. \A o \in DOMAIN obj' : turns'[o] = 0 /\ changes'[o] = 0
    BY <1>2, <2>1 DEF Counted
  <2>3. \A o \in DOMAIN obj' : turns'[o] <= changes'[o] + Credit(o)'
    BY <2>1, <2>2 DEF Credit
  <2>. QED
    BY <1>3, <2>1, <2>3 DEF TurnsInv
<1>8. CASE SkipProcessed
  <2>1. /\ pc = "object" /\ pc' = "object" /\ obj' = obj
        /\ processed' = processed /\ ~Processing /\ ~Processing'
    BY <1>8 DEF SkipProcessed, Processing
  <2>2. \A o \in DOMAIN obj : turns'[o] = turns[o] /\ changes'[o] = changes[o]
    BY <1>2, <1>4, <2>1 DEF turn, change
  <2>3. /\ \A o \in processed : turns[o] >= 1
        /\ \A o \in DOMAIN obj : turns[o] <= changes[o] + Credit(o)
    BY <2>1 DEF TurnsInv, InFrame
  <2>4. \A o \in DOMAIN obj : Credit(o)' = Credit(o)
    BY <2>1 DEF Credit
  <2>. QED
    BY <1>3, <1>5, <2>1, <2>2, <2>3, <2>4 DEF TurnsInv
<1>9. CASE BeginObject
  <2>1. /\ pc = "object" /\ pc' = "order" /\ obj' = obj /\ cursor' = cursor
        /\ processed' = processed /\ ~Processing /\ Processing'
        /\ cursor \notin processed /\ ~invalidated' /\ cursor \in DOMAIN obj
    BY <1>9 DEF BeginObject, Processing, FrameInv, lists, TypeOK, ControlOK
  <2>2. \A o \in DOMAIN obj :
          /\ turns'[o] = turns[o] + (IF o = cursor THEN 1 ELSE 0)
          /\ changes'[o] = changes[o]
    BY <1>2, <1>4, <2>1 DEF turn, change
  <2>3. /\ \A o \in processed : turns[o] >= 1
        /\ \A o \in DOMAIN obj : turns[o] <= changes[o] + Credit(o)
    BY <2>1 DEF TurnsInv, InFrame
  <2>4. \A o \in DOMAIN obj : Credit(o)' = Credit(o) + (IF o = cursor THEN 1 ELSE 0)
    BY <2>1 DEF Credit
  <2>5. \A o \in DOMAIN obj : Credit(o) \in Nat
    BY DEF Credit
  <2>6. \A o \in DOMAIN obj : turns[o] \in Nat /\ changes[o] \in Nat
    BY <1>2
  <2>7. \A o \in processed : turns'[o] >= 1
    BY <1>5, <2>1, <2>2, <2>3, <2>6
  <2>8. turns'[cursor'] >= 1
    BY <2>1, <2>2, <2>6
  <2>9. \A o \in DOMAIN obj : turns'[o] <= changes'[o] + Credit(o)'
    BY <2>2, <2>3, <2>4, <2>5, <2>6
  <2>. QED
    BY <1>3, <2>1, <2>7, <2>8, <2>9 DEF TurnsInv
<1>10. CASE Restart
  <2>1. /\ pc # "object" /\ pc # "loop" /\ obj' = obj /\ objs' = objs
        /\ processed' = processed /\ Processing /\ ~Processing' /\ invalidated
    BY <1>10 DEF Restart, Processing
  <2>2. \A o \in DOMAIN obj : turns'[o] = turns[o] /\ changes'[o] = changes[o]
    BY <1>2, <1>4, <2>1 DEF turn, change
  <2>3. /\ \A o \in processed : turns[o] >= 1
        /\ \A o \in DOMAIN obj : turns[o] <= changes[o] + Credit(o)
    BY <2>1 DEF TurnsInv, InFrame
  <2>4. \A o \in DOMAIN obj : Credit(o)' = Credit(o)
    BY <2>1 DEF Credit
  <2>. QED
    BY <1>3, <1>5, <2>1, <2>2, <2>3, <2>4 DEF TurnsInv
<1>11. CASE Proceed
  <2>1. /\ pc # "object" /\ pc # "loop" /\ obj' = obj /\ objs' = objs
        /\ processed' = processed \union {cursor} /\ Processing /\ ~Processing'
        /\ ~invalidated
    BY <1>11 DEF Proceed, Processing, lists
  <2>2. \A o \in DOMAIN obj : turns'[o] = turns[o] /\ changes'[o] = changes[o]
    BY <1>2, <1>4, <2>1 DEF turn, change
  <2>3. /\ \A o \in processed : turns[o] >= 1
        /\ turns[cursor] >= 1
        /\ \A o \in DOMAIN obj : turns[o] <= changes[o] + Credit(o)
    BY <2>1 DEF TurnsInv, InFrame
  <2>4. \A o \in DOMAIN obj : Credit(o)' = Credit(o)
    BY <2>1 DEF Credit
  <2>. QED
    BY <1>3, <1>5, <2>1, <2>2, <2>3, <2>4 DEF TurnsInv
<1>12. CASE Orders \/ Actions \/ Production
  <2>1. Busy
    BY <1>12, HandlersAreBusy
  <2>2. /\ pc # "object" /\ pc # "loop" /\ Processing /\ Processing'
        /\ cursor' = cursor /\ processed' = processed /\ cursor \in DOMAIN obj
        /\ cursor \in DOMAIN obj'
    BY <1>5, <2>1 DEF Busy, Processing
  <2>3. /\ \A o \in processed : turns[o] >= 1
        /\ turns[cursor] >= 1
        /\ \A o \in DOMAIN obj : turns[o] <= changes[o] + Credit(o)
    BY <2>2 DEF TurnsInv, InFrame
  <2>4. ASSUME NEW o \in DOMAIN obj'
        PROVE  /\ o \in DOMAIN obj => turns'[o] = turns[o]
               /\ turns'[o] <= changes'[o] + Credit(o)'
    <3>1. CASE o \notin DOMAIN obj
      <4>1. turns'[o] = 0 /\ changes'[o] = 0
        BY <1>4, <2>2, <3>1
      <4>2. Credit(o)' \in {0, 1}
        BY DEF Credit
      <4>. QED
        BY <3>1, <4>1, <4>2
    <3>2. CASE o \in DOMAIN obj /\ o # cursor
      <4>1. turns'[o] = turns[o] /\ changes'[o] = changes[o]
        BY <1>2, <1>4, <2>2, <3>2
      <4>2. Credit(o)' = Credit(o)
        BY <2>2, <3>2 DEF Credit
      <4>. QED
        BY <2>3, <3>2, <4>1, <4>2
    <3>3. CASE o = cursor
      <4>1. turns'[o] = turns[o]
        BY <1>2, <1>4, <2>2, <3>3 DEF turn
      <4>2. turns[o] <= changes[o] + Credit(o) /\ cursor \notin processed
        BY <2>2, <2>3, <3>3 DEF FrameInv
      <4>3. turns[o] \in Nat /\ changes[o] \in Nat
        BY <1>2, <2>2, <3>3
      <4>4. CASE objs' = objs /\ invalidated' = invalidated
        <5>1. changes'[o] = changes[o]
          BY <1>2, <1>4, <2>2, <3>3, <4>4 DEF change
        <5>2. Credit(o)' = Credit(o)
          BY <2>2, <4>4 DEF Credit
        <5>. QED
          BY <4>1, <4>2, <5>1, <5>2
      <4>5. CASE objs' # objs /\ invalidated'
        <5>1. changes'[o] = changes[o] + 1
          BY <1>4, <2>2, <3>3, <4>5 DEF change
        <5>2. Credit(o)' = 0 /\ Credit(o) \in {0, 1}
          BY <2>2, <3>3, <4>2, <4>5 DEF Credit
        <5>. QED
          BY <4>1, <4>2, <4>3, <5>1, <5>2
      <4>. QED
        BY <2>1, <4>4, <4>5 DEF Busy
    <3>. QED
      BY <3>1, <3>2, <3>3
  <2>5. /\ \A o \in processed' : turns'[o] >= 1
        /\ turns'[cursor'] >= 1
    BY <1>5, <2>2, <2>3, <2>4
  <2>. QED
    BY <1>3, <2>4, <2>5 DEF TurnsInv
<1>13. CASE \/ Place \/ StartLoop \/ FinishFrame \/ Tick \/ Shutdown
            \/ User \/ Terminated
  BY <1>6, <1>13
     DEF Place, StartLoop, FinishFrame, Tick, Shutdown, LeaveLoop,
         CleanupObject, ClearList, User, IssueMoveToPoint, IssueTargeted,
         DoOrder, IssueProduce, Quit, Terminated, vars, InFrame, Processing
<1>. QED
  BY <1>2, <1>7, <1>8, <1>9, <1>10, <1>11, <1>12, <1>13 DEF Next, Engine, Loop

LEMMA TurnsAreJustified ==
  ASSUME TypeOK, FrameInv, TurnsInv PROVE TurnsJustified
<1>. SUFFICES ASSUME pc = "object", cursor = End, NEW i \in DOMAIN objs
              PROVE  1 <= turns[objs[i]] /\ turns[objs[i]] <= 1 + changes[objs[i]]
  BY DEF TurnsJustified
<1>1. objs[i] \in processed /\ objs[i] \in DOMAIN obj
  <2>1. ToSet(objs) \subseteq processed /\ processed \subseteq DOMAIN obj
    BY AllBehind DEF TypeOK, ControlOK
  <2>. QED
    BY <2>1 DEF ToSet
<1>2. /\ turns[objs[i]] >= 1 /\ Credit(objs[i]) = 1
      /\ turns[objs[i]] <= changes[objs[i]] + Credit(objs[i])
      /\ turns[objs[i]] \in Nat /\ changes[objs[i]] \in Nat
  BY <1>1 DEF TurnsInv, InFrame, Credit
<1>. QED
  BY <1>2

(* Everyone has a turn in each frame, and only what an object does to the   *)
(* list itself can give it another.                                         *)
THEOREM NoTurnsWithoutReason == TurnsSpec => []TurnsJustified
<1>. DEFINE Inv == TypeOK /\ ListInv /\ FrameInv /\ TurnsInv
<1>1. TurnsInit => Inv
  <2>. SUFFICES ASSUME TurnsInit PROVE Inv
    OBVIOUS
  <2>1. TypeOK /\ ListInv /\ FrameInv
    BY InitType, ListInit, FrameInit DEF TurnsInit
  <2>2. obj = <<>> /\ turns = <<>> /\ changes = <<>> /\ ~InFrame
    BY DEF TurnsInit, Init, InFrame, Processing
  <2>3. turns \in [DOMAIN obj -> Nat] /\ changes \in [DOMAIN obj -> Nat]
    BY <2>2
  <2>. QED
    BY <2>1, <2>2, <2>3 DEF TurnsInv
<1>2. Inv /\ [TurnsNext]_turnsVars => Inv'
  <2>1. TurnsNext \/ UNCHANGED turnsVars => [Next]_vars
    BY DEF TurnsNext, turnsVars
  <2>. QED
    BY <2>1, TypeStep, ListStep, FrameStep, TurnsStep
<1>3. Inv => TurnsJustified
  BY TurnsAreJustified
<1>. HIDE DEF Inv
<1>. QED
  BY <1>1, <1>2, <1>3, PTL DEF TurnsSpec

-----------------------------------------------------------------------------
(* The production queues.                                                   *)

JobsIn(s) == UNION {{o} \X DOMAIN s[o].queue : o \in DOMAIN s}

LEMMA TheJobs ==
  /\ Jobs = JobsIn(obj) /\ Jobs' = JobsIn(obj')
  /\ \A s, x : x \in JobsIn(s)
       <=> \E o \in DOMAIN s : \E i \in DOMAIN s[o].queue : x = <<o, i>>
BY DEF Jobs, JobsIn

LEMMA ObjectShape ==
  ASSUME TypeOK PROVE \A o \in DOMAIN obj : obj[o] \in ObjectType
BY DEF TypeOK, Population

(* Finitely many objects with finitely many jobs each.                      *)
LEMMA JobsAreFinite == TypeOK => IsFiniteSet(Jobs)
<1>. SUFFICES ASSUME TypeOK PROVE IsFiniteSet(Jobs)
  OBVIOUS
<1>. DEFINE queue(o) == {o} \X DOMAIN obj[o].queue
            queues == {queue(o) : o \in DOMAIN obj}
            f == [o \in DOMAIN obj |-> queue(o)]
<1>1. IsFiniteSet(DOMAIN obj)
  <2>1. DOMAIN obj = 1 .. Len(obj) /\ Len(obj) \in Nat
    BY LenProperties DEF TypeOK, Population
  <2>. QED
    BY <2>1, FS_Interval
<1>2. ASSUME NEW o \in DOMAIN obj PROVE IsFiniteSet(queue(o))
  <2>1. obj[o].queue \in Seq(Job)
    BY ObjectShape DEF ObjectType
  <2>2. DOMAIN obj[o].queue = 1 .. Len(obj[o].queue) /\ Len(obj[o].queue) \in Nat
    BY <2>1, LenProperties
  <2>3. IsFiniteSet(DOMAIN obj[o].queue)
    BY <2>2, FS_Interval
  <2>4. IsFiniteSet({o})
    BY FS_Singleton
  <2>. QED
    BY <2>3, <2>4, FS_Product
<1>. HIDE DEF queue
<1>3. f \in Surjection(DOMAIN obj, queues)
  BY DEF Surjection
<1>4. IsFiniteSet(queues)
  BY <1>1, <1>3, FS_Surjection
<1>5. Jobs = UNION queues
  BY DEF Jobs, queue
<1>. QED
  BY <1>2, <1>4, <1>5, FS_UNION

(* A step that neither creates an object nor lengthens or shortens a queue. *)
SameJobs ==
  /\ DOMAIN obj' = DOMAIN obj /\ Len(obj') = Len(obj)
  /\ \A o \in DOMAIN obj : DOMAIN obj'[o].queue = DOMAIN obj[o].queue

LEMMA SameJobsRemain == SameJobs => Jobs' = Jobs
BY DEF SameJobs, Jobs

LEMMA NoJobs == ASSUME obj' = obj PROVE SameJobs
BY DEF SameJobs

LEMMA OneQueue ==
  ASSUME TypeOK, NEW o \in DOMAIN obj, NEW r, obj' = [obj EXCEPT ![o] = r],
         DOMAIN r.queue = DOMAIN obj[o].queue
  PROVE  SameJobs
<1>1. /\ DOMAIN obj' = DOMAIN obj /\ obj'[o] = r
      /\ \A x \in DOMAIN obj \ {o} : obj'[x] = obj[x]
  OBVIOUS
<1>2. Len(obj') = Len(obj)
  BY DEF TypeOK, Population
<1>. QED
  BY <1>1, <1>2 DEF SameJobs

LEMMA TickJobs == ASSUME TypeOK, Tick PROVE SameJobs
<1>1. /\ DOMAIN obj' = DOMAIN obj
      /\ \A o \in DOMAIN obj : obj'[o] = Aged(obj[o], delta')
  BY DEF Tick
<1>2. Len(obj') = Len(obj)
  BY <1>1, TickType, LenProperties DEF TypeOK, Population
<1>3. ASSUME NEW r \in ObjectType
      PROVE  DOMAIN Aged(r, delta').queue = DOMAIN r.queue
  <2>. DEFINE a == IF r.attack.active THEN r.attack.age + delta' ELSE r.attack.age
              q == [i \in DOMAIN r.queue |-> Older(r.queue[i], delta')]
              k == [r.attack EXCEPT !.age = a]
              s == [r EXCEPT !.attack = k, !.queue = q]
  <2>1. Aged(r, delta') = IF r.removed THEN r ELSE s
    BY DEF Aged, ObjectType, AttackType
  <2>2. DOMAIN q = DOMAIN r.queue
    OBVIOUS
  <2>. HIDE DEF a, q, k
  <2>3. s.queue = q
    BY DEF ObjectType
  <2>. HIDE DEF s
  <2>. QED
    BY <2>1, <2>2, <2>3
<1>4. \A o \in DOMAIN obj : obj[o] \in ObjectType
  BY DEF TypeOK, Population
<1>. QED
  BY <1>1, <1>2, <1>3, <1>4 DEF SameJobs

LEMMA OrderJobs == ASSUME TypeOK, Orders PROVE SameJobs
<1>1. pc = "order" /\ cursor # End
  BY DEF Orders, NoOrderToProcess, MoveOrder, AttackStep, AttackOrderStart,
         AttackOrderGo, AttackOrderArrive, AttackOrderAttack,
         AttackOrderFollow, TypeOK, ControlOK, Processing
<1>2. cursor \in DOMAIN obj /\ self = obj[cursor] /\ self \in ObjectType
  BY <1>1, CursorObject DEF self
<1>3. ASSUME NEW m, NEW a, NEW n, NEW r,
             r \in {self, [self EXCEPT !.move = m], [self EXCEPT !.order.step = n],
                    [self EXCEPT !.move = m, !.order.step = n],
                    [self EXCEPT !.attack = a, !.order.step = n]},
             ContinueWith(r)
      PROVE  SameJobs
  <2>1. r.queue = self.queue
    BY <1>2, <1>3 DEF ObjectType
  <2>. QED
    BY <1>2, <1>3, <2>1, OneQueue DEF ContinueWith
<1>4. ASSUME FinishOrder PROVE SameJobs
  <2>. DEFINE r == [self EXCEPT !.order = NoOrder, !.move = NoMove,
                                !.attack = NoAttack]
  <2>1. r.queue = self.queue
    BY <1>2 DEF ObjectType
  <2>2. obj' = [obj EXCEPT ![cursor] = r]
    BY <1>2, <1>4 DEF FinishOrder
  <2>. HIDE DEF r
  <2>. QED
    BY <1>2, <2>1, <2>2, OneQueue
<1>5. CASE NoOrderToProcess
  BY <1>5, NoJobs DEF NoOrderToProcess
<1>6. CASE MoveOrder
  BY <1>3, <1>4, <1>6 DEF MoveOrder
<1>7. CASE AttackOrderStart
  BY <1>3, <1>4, <1>7 DEF AttackOrderStart
<1>8. CASE AttackOrderGo
  BY <1>3, <1>8 DEF AttackOrderGo
<1>9. CASE AttackOrderArrive
  BY <1>3, <1>4, <1>9 DEF AttackOrderArrive
<1>10. CASE AttackOrderAttack
  BY <1>3, <1>4, <1>10 DEF AttackOrderAttack
<1>11. CASE AttackOrderFollow
  BY <1>3, <1>4, <1>11 DEF AttackOrderFollow
<1>. QED
  BY <1>5, <1>6, <1>7, <1>8, <1>9, <1>10, <1>11 DEF Orders

LEMMA ActionJobs == ASSUME TypeOK, Actions PROVE SameJobs
<1>1. CASE NoMoveAction \/ NoAttackAction
  BY <1>1, NoJobs DEF NoMoveAction, NoAttackAction
<1>2. cursor # End /\ Processing
  BY DEF Actions, NoMoveAction, MoveAction, NoAttackAction, AttackAction,
         TypeOK, ControlOK, Processing
<1>3. cursor \in DOMAIN obj /\ self = obj[cursor] /\ self \in ObjectType
  BY <1>2, CursorObject DEF self
<1>4. CASE MoveAction
  <2>1. PICK x, m : Moved(self, x, m)
    BY Zenon, <1>4 DEF MoveAction
  <2>. DEFINE r == [self EXCEPT !.pos = x, !.move = m]
  <2>2. obj' = [obj EXCEPT ![cursor] = r]
    BY <2>1 DEF Moved
  <2>3. r.queue = self.queue
    BY <1>3 DEF ObjectType
  <2>. HIDE DEF r
  <2>. QED
    BY <1>3, <2>2, <2>3, OneQueue
<1>5. CASE AttackAction
  <2>. DEFINE t == self.attack.target.obj
  <2>1. EndAttack \/ Wait \/ Wound(t) \/ Kill(t)
    BY Zenon, <1>5 DEF AttackAction
  <2>2. t \in DOMAIN obj /\ obj[t] \in ObjectType
    BY <1>5, AttackTarget DEF TypeOK, Population
  <2>3. CASE EndAttack
    <3>. DEFINE r == [self EXCEPT !.attack = NoAttack]
    <3>1. obj' = [obj EXCEPT ![cursor] = r]
      BY <1>3, <2>3 DEF EndAttack
    <3>2. r.queue = self.queue
      BY <1>3 DEF ObjectType
    <3>. HIDE DEF r
    <3>. QED
      BY <1>3, <3>1, <3>2, OneQueue
  <2>4. CASE Wait
    BY <2>4, NoJobs DEF Wait
  <2>5. ASSUME NEW h, NEW b, NEW k,
               obj' = [[obj EXCEPT ![t] = [obj[t] EXCEPT !.hp = h, !.removed = b]]
                         EXCEPT ![cursor] = [@ EXCEPT !.attack = k]]
        PROVE  SameJobs
    <3>. DEFINE r == [obj[t] EXCEPT !.hp = h, !.removed = b]
                mid == [obj EXCEPT ![t] = r]
                c == [mid[cursor] EXCEPT !.attack = k]
    <3>1. r.queue = obj[t].queue
      BY <2>2 DEF ObjectType
    <3>2. /\ DOMAIN mid = DOMAIN obj /\ mid[t] = r
          /\ \A o \in DOMAIN obj \ {t} : mid[o] = obj[o]
      BY <2>2
    <3>3. /\ DOMAIN obj' = DOMAIN obj /\ obj'[cursor] = c
          /\ \A o \in DOMAIN obj \ {cursor} : obj'[o] = mid[o]
      BY <1>3, <2>5, <3>2
    <3>4. c.queue = mid[cursor].queue
      <4>1. mid[cursor] = r \/ mid[cursor] = self
        BY <1>3, <3>2
      <4>. QED
        BY <1>3, <2>2, <4>1 DEF ObjectType
    <3>. HIDE DEF mid, r, c
    <3>5. Len(obj') = Len(obj)
      <4>1. obj \in Seq(ObjectType) /\ DOMAIN obj = 1 .. Len(obj) /\ Len(obj) \in Nat
        BY LenProperties DEF TypeOK, Population
      <4>2. DOMAIN obj' = 1 .. Len(obj)
        BY <3>3, <4>1
      <4>3. obj' \in Seq(ObjectType)
        BY <1>5, AttackActionType DEF TypeOK, Population
      <4>. QED
        BY <4>1, <4>2, <4>3, LenProperties
    <3>. QED
      BY <2>2, <3>1, <3>2, <3>3, <3>4, <3>5 DEF SameJobs
  <2>6. CASE Wound(t)
    <3>. DEFINE h == obj[t].hp - Attacks(cursor) * NetDamage(cursor, t)
                k == [self.attack EXCEPT !.age = 0]
    <3>1. obj' = [[obj EXCEPT ![t] = [obj[t] EXCEPT !.hp = h, !.removed = obj[t].removed]]
                    EXCEPT ![cursor] = [@ EXCEPT !.attack = k]]
      BY <1>3, <2>2, <2>6 DEF Wound, ObjectType
    <3>. HIDE DEF h, k
    <3>. QED
      BY Zenon, <2>5, <3>1
  <2>7. CASE Kill(t)
    <3>. DEFINE h == obj[t].hp - Min(KillingHits(cursor, t)) * NetDamage(cursor, t)
    <3>1. obj' = [[obj EXCEPT ![t] = [obj[t] EXCEPT !.hp = h, !.removed = TRUE]]
                    EXCEPT ![cursor] = [@ EXCEPT !.attack = NoAttack]]
      BY <1>3, <2>2, <2>7 DEF Kill, ObjectType
    <3>. HIDE DEF h
    <3>. QED
      BY Zenon, <2>5, <3>1
  <2>. QED
    BY <2>1, <2>3, <2>4, <2>6, <2>7
<1>. QED
  BY <1>1, <1>4, <1>5 DEF Actions

(* Looking at the first job of the queue leaves the queue as long as it is. *)
LEMMA WorkingJobs == ASSUME TypeOK, NoProduction \/ Working PROVE SameJobs
<1>1. cursor # End
  BY DEF NoProduction, Working, TypeOK, ControlOK, Processing
<1>2. /\ cursor \in DOMAIN obj /\ self = obj[cursor] /\ self \in ObjectType
      /\ self.queue \in Seq(Job)
  BY <1>1, CursorObject DEF self, ObjectType
<1>3. CASE NoProduction
  <2>. DEFINE r == [self EXCEPT !.secondary = FALSE]
  <2>1. obj' = [obj EXCEPT ![cursor] = r]
    BY <1>2, <1>3 DEF NoProduction
  <2>2. r.queue = self.queue
    BY <1>2 DEF ObjectType
  <2>. HIDE DEF r
  <2>. QED
    BY <1>2, <2>1, <2>2, OneQueue
<1>4. CASE Working
  <2>. DEFINE job == Head(self.queue)
              now == [what |-> job.what, started |-> TRUE, age |-> JobAge(job)]
              q == <<now>> \o Tail(self.queue)
              r == [self EXCEPT !.secondary = FALSE, !.queue = q]
  <2>1. obj' = [obj EXCEPT ![cursor] = r] /\ self.queue # <<>>
    BY <1>4 DEF Working
  <2>2. DOMAIN q = DOMAIN self.queue
    <3>. HIDE DEF now
    <3>. DEFINE t == Tail(self.queue)
    <3>1. t \in Seq(Job) /\ Len(t) = Len(self.queue) - 1 /\ Len(self.queue) \in Nat
      BY <1>2, <2>1, HeadTailProperties, LenProperties
    <3>2. <<now>> \in Seq(Job \union {now}) /\ t \in Seq(Job \union {now})
      BY <3>1, SeqMonotonic
    <3>. HIDE DEF t
    <3>3. Len(<<now>> \o t) = 1 + Len(t) /\ <<now>> \o t \in Seq(Job \union {now})
      BY <3>2, ConcatProperties
    <3>. QED
      BY <1>2, <3>1, <3>3, LenProperties DEF t
  <2>. HIDE DEF q
  <2>3. r.queue = q
    BY <1>2 DEF ObjectType
  <2>. HIDE DEF r
  <2>. QED
    BY <1>2, <2>1, <2>2, <2>3, OneQueue
<1>. QED
  BY <1>3, <1>4

(* A new object has nothing to do yet.                                      *)
LEMMA NewcomerJobs ==
  ASSUME NEW s \in Seq(ObjectType), NEW r \in ObjectType, r.queue = <<>>,
         obj' = Append(s, r)
  PROVE  Jobs' = JobsIn(s) /\ Len(obj') = Len(s) + 1
<1>. DEFINE n == Len(s) + 1
<1>1. /\ DOMAIN s = 1 .. Len(s) /\ Len(s) \in Nat
      /\ DOMAIN obj' = 1 .. n /\ Len(obj') = n /\ obj'[n] = r
      /\ \A o \in 1 .. Len(s) : obj'[o] = s[o]
  BY AppendProperties, LenProperties
<1>2. DOMAIN obj' = DOMAIN s \union {n}
  BY <1>1
<1>3. DOMAIN r.queue = {}
  OBVIOUS
<1>. HIDE DEF n
<1>4. \A o \in DOMAIN s : obj'[o] = s[o] /\ o \in DOMAIN obj'
  BY <1>1, <1>2
<1>5. ASSUME NEW x \in JobsIn(obj') PROVE x \in JobsIn(s)
  <2>1. PICK o \in DOMAIN obj' : \E i \in DOMAIN obj'[o].queue : x = <<o, i>>
    BY <1>5 DEF JobsIn
  <2>2. o # n
    BY <1>1, <1>3, <2>1
  <2>. QED
    BY <1>2, <1>4, <2>1, <2>2, TheJobs
<1>6. ASSUME NEW x \in JobsIn(s) PROVE x \in JobsIn(obj')
  <2>1. PICK o \in DOMAIN s : \E i \in DOMAIN s[o].queue : x = <<o, i>>
    BY TheJobs
  <2>. QED
    BY <1>4, <2>1, TheJobs
<1>7. JobsIn(obj') = JobsIn(s)
  BY <1>5, <1>6
<1>. QED
  BY <1>1, <1>7, TheJobs DEF n

(* One object's queue grows at its end, or shrinks.                         *)
LEMMA QueueGrows ==
  ASSUME TypeOK, NEW o \in DOMAIN obj, NEW r, NEW n \in Nat,
         DOMAIN obj[o].queue = 1 .. n
  PROVE  LET s == [obj EXCEPT ![o] = r]
         IN  /\ DOMAIN r.queue = 1 .. n + 1
                  => /\ JobsIn(s) = Jobs \union {<<o, n + 1>>}
                     /\ <<o, n + 1>> \notin Jobs
             /\ n > 0 /\ DOMAIN r.queue = 1 .. n - 1
                  => /\ JobsIn(s) = Jobs \ {<<o, n>>}
                     /\ <<o, n>> \in Jobs
<1>. DEFINE s == [obj EXCEPT ![o] = r]
<1>1. /\ DOMAIN s = DOMAIN obj /\ s[o] = r
      /\ \A x \in DOMAIN obj \ {o} : s[x] = obj[x]
  OBVIOUS
<1>. HIDE DEF s
<1>2. ASSUME DOMAIN r.queue = 1 .. n + 1
      PROVE  JobsIn(s) = Jobs \union {<<o, n + 1>>} /\ <<o, n + 1>> \notin Jobs
  <2>1. DOMAIN r.queue = DOMAIN obj[o].queue \union {n + 1}
        /\ n + 1 \notin DOMAIN obj[o].queue
    BY <1>2
  <2>2. \A x : x \in JobsIn(s) <=> x \in Jobs \/ x = <<o, n + 1>>
    BY <1>1, <2>1, TheJobs
  <2>3. <<o, n + 1>> \notin Jobs
    BY <2>1, TheJobs
  <2>. QED
    BY <2>2, <2>3
<1>3. ASSUME n > 0, DOMAIN r.queue = 1 .. n - 1
      PROVE  JobsIn(s) = Jobs \ {<<o, n>>} /\ <<o, n>> \in Jobs
  <2>1. DOMAIN obj[o].queue = DOMAIN r.queue \union {n} /\ n \notin DOMAIN r.queue
    BY <1>3
  <2>2. \A x : x \in JobsIn(s) <=> x \in Jobs /\ x # <<o, n>>
    BY <1>1, <2>1, TheJobs
  <2>3. <<o, n>> \in Jobs
    BY <2>1, TheJobs
  <2>. QED
    BY <2>2, <2>3
<1>. QED
  BY <1>2, <1>3 DEF s

(* The user's order adds one job, a delivery takes one out.                 *)
LEMMA JobQueued ==
  ASSUME TypeOK, NEW o \in DOMAIN obj, IssueProduce(o)
  PROVE  /\ Cardinality(Jobs') = Cardinality(Jobs) + 1 /\ nJobs' = nJobs + 1
         /\ Len(obj') = Len(obj) /\ pc' = pc
<1>. DEFINE new == [what |-> obj[o].proto, started |-> FALSE, age |-> 0]
            q == Append(obj[o].queue, new)
            r == [obj[o] EXCEPT !.secondary = TRUE, !.queue = q]
            n == Len(obj[o].queue)
<1>1. obj[o] \in ObjectType /\ obj[o].queue \in Seq(Job)
  BY ObjectShape DEF ObjectType
<1>2. new \in Job
  BY <1>1 DEF Job, ObjectType
<1>3. obj' = [obj EXCEPT ![o] = r]
  BY DEF IssueProduce
<1>. HIDE DEF new
<1>4. n \in Nat /\ DOMAIN obj[o].queue = 1 .. n /\ DOMAIN q = 1 .. n + 1
  BY <1>1, <1>2, AppendProperties, LenProperties
<1>. HIDE DEF q
<1>5. r.queue = q
  BY <1>1 DEF ObjectType
<1>. HIDE DEF r, n
<1>. DEFINE s == [obj EXCEPT ![o] = r]
<1>6. Jobs' = Jobs \union {<<o, n + 1>>} /\ <<o, n + 1>> \notin Jobs
  <2>1. JobsIn(s) = Jobs \union {<<o, n + 1>>} /\ <<o, n + 1>> \notin Jobs
    BY <1>4, <1>5, QueueGrows
  <2>. QED
    BY <1>3, <2>1, TheJobs
<1>7. Cardinality(Jobs') = Cardinality(Jobs) + 1
  BY <1>6, JobsAreFinite, FS_AddElement
<1>8. Len(obj') = Len(obj)
  BY <1>3 DEF TypeOK, Population
<1>. QED
  BY <1>7, <1>8 DEF IssueProduce

LEMMA JobDelivered ==
  ASSUME TypeOK, Produce
  PROVE  /\ Cardinality(Jobs') = Cardinality(Jobs) - 1
         /\ Len(obj') = Len(obj) + 1
<1>. DEFINE pr == Head(self.queue).what
            q == Tail(self.queue)
            k == [self EXCEPT !.secondary = FALSE, !.queue = q]
            s == [obj EXCEPT ![cursor] = k]
            f == Fresh(pr, self.owner, self.pos)
            n == Len(self.queue)
<1>1. cursor # End
  BY DEF Produce, TypeOK, ControlOK, Processing
<1>2. /\ cursor \in DOMAIN obj /\ self = obj[cursor] /\ self \in ObjectType
      /\ self.queue \in Seq(Job) /\ self.queue # <<>>
  BY <1>1, CursorObject DEF self, ObjectType, Produce
<1>3. /\ n \in Nat /\ n > 0 /\ DOMAIN self.queue = 1 .. n
      /\ q \in Seq(Job) /\ DOMAIN q = 1 .. n - 1 /\ pr \in Proto
  <2>1. Head(self.queue) \in Job /\ q \in Seq(Job) /\ Len(q) = n - 1
    BY <1>2, HeadTailProperties
  <2>2. n \in Nat /\ n # 0 /\ DOMAIN self.queue = 1 .. n /\ DOMAIN q = 1 .. n - 1
    BY <1>2, <2>1, LenProperties, EmptySeq
  <2>. QED
    BY <2>1, <2>2 DEF Job
<1>4. obj' = Append(s, f)
  BY DEF Produce
<1>. HIDE DEF q, pr, n
<1>5. k \in ObjectType /\ k.queue = q
  BY <1>2, <1>3 DEF ObjectType
<1>. HIDE DEF k
<1>6. s \in Seq(ObjectType) /\ Len(s) = Len(obj)
  <2>1. obj \in Seq(ObjectType) /\ DOMAIN obj = 1 .. Len(obj)
    BY LenProperties DEF TypeOK, Population
  <2>. QED
    BY <1>2, <1>5, <2>1, ExceptSeq
<1>7. f \in ObjectType /\ f.queue = <<>>
  <2>1. self.owner \in Players /\ self.pos \in Int
    BY <1>2 DEF ObjectType
  <2>. QED
    BY <1>3, <2>1, FreshType DEF Linked, Fresh
<1>8. JobsIn(s) = Jobs \ {<<cursor, n>>} /\ <<cursor, n>> \in Jobs
  BY <1>2, <1>3, <1>5, QueueGrows
<1>. HIDE DEF s, f
<1>9. Jobs' = Jobs \ {<<cursor, n>>} /\ Len(obj') = Len(obj) + 1
  BY <1>4, <1>6, <1>7, <1>8, NewcomerJobs
<1>. QED
  BY <1>8, <1>9, JobsAreFinite, FS_RemoveElement

(* Before the loop begins nothing is queued and nothing has been asked for; *)
(* from then on the account of ProductionConserved is exact.                *)
ProductionInv ==
  /\ pc = "setup" => Jobs = {} /\ nJobs = 0
  /\ ProductionConserved

LEMMA SameProduction ==
  ASSUME ProductionInv, SameJobs, nJobs' = nJobs, pc' = "setup" => pc = "setup",
         pc = "setup" /\ pc' # "setup" => Len(obj) = Len(Scenario)
  PROVE  ProductionInv'
<1>1. Jobs' = Jobs /\ Len(obj') = Len(obj)
  BY SameJobsRemain DEF SameJobs
<1>2. CASE pc' = "setup"
  BY <1>1, <1>2 DEF ProductionInv, ProductionConserved
<1>3. CASE pc = "setup" /\ pc' # "setup"
  <2>1. Cardinality(Jobs') = 0 /\ nJobs' = 0
    BY <1>1, <1>3, FS_EmptySet DEF ProductionInv
  <2>. QED
    BY <1>1, <1>3, <2>1 DEF ProductionConserved, ProductionInv
<1>4. CASE pc # "setup"
  BY <1>1, <1>4 DEF ProductionInv, ProductionConserved
<1>. QED
  BY <1>2, <1>3, <1>4

LEMMA ShutdownJobs == ASSUME TypeOK, Shutdown PROVE SameJobs
<1>1. CASE LeaveLoop \/ ClearList
  BY <1>1, NoJobs DEF LeaveLoop, ClearList
<1>2. CASE CleanupObject
  <2>. DEFINE r == [obj[cursor] EXCEPT !.removed = TRUE]
  <2>1. cursor \in DOMAIN obj /\ obj[cursor] \in ObjectType
    BY <1>2, ObjectShape DEF CleanupObject, TypeOK, ControlOK
  <2>2. obj' = [obj EXCEPT ![cursor] = r]
    BY <1>2, <2>1 DEF CleanupObject
  <2>3. r.queue = obj[cursor].queue
    BY <2>1 DEF ObjectType
  <2>. HIDE DEF r
  <2>. QED
    BY <2>1, <2>2, <2>3, OneQueue
<1>. QED
  BY <1>1, <1>2 DEF Shutdown

LEMMA PlaceJobs == ASSUME TypeOK, Place PROVE Jobs' = Jobs
<1>. DEFINE s == Scenario[Len(obj) + 1]
            f == Fresh(s.proto, s.owner, s.at)
            r == [f EXCEPT !.order = s.order]
<1>1. /\ Len(obj) + 1 \in DOMAIN Scenario /\ obj \in Seq(ObjectType)
  BY LenProperties, ScenarioAssumption DEF Place, TypeOK, Population
<1>2. s \in Placement
  BY <1>1, ScenarioAssumption
<1>3. obj' = Append(obj, r)
  BY DEF Place
<1>. HIDE DEF s
<1>4. /\ s.proto \in Proto /\ s.owner \in Players /\ s.at \in Int
      /\ s.order \in OrderType
  BY <1>2 DEF Placement
<1>5. f \in ObjectType /\ f.queue = <<>>
  BY <1>4, FreshType DEF Linked, Fresh
<1>6. r \in ObjectType /\ r.queue = <<>>
  BY <1>4, <1>5 DEF ObjectType
<1>. HIDE DEF r
<1>. QED
  BY <1>1, <1>3, <1>6, NewcomerJobs, TheJobs

LEMMA ProductionStep == TypeOK /\ ProductionInv /\ [Next]_vars => ProductionInv'
<1>. SUFFICES ASSUME TypeOK, ProductionInv, [Next]_vars PROVE ProductionInv'
  OBVIOUS
<1>1. CASE Place
  <2>1. pc' = "setup" /\ pc = "setup" /\ nJobs' = nJobs
    BY <1>1 DEF Place, input
  <2>. QED
    BY <1>1, <2>1, PlaceJobs DEF ProductionInv, ProductionConserved
<1>2. CASE \/ StartLoop \/ StartFrame \/ FinishFrame \/ SkipProcessed
           \/ BeginObject \/ Restart \/ Proceed \/ Quit \/ UNCHANGED vars
  <2>1. /\ obj' = obj /\ nJobs' = nJobs
        /\ pc' = "setup" => pc = "setup"
        /\ pc = "setup" /\ pc' # "setup" => Len(obj) = Len(Scenario)
    BY <1>2 DEF StartLoop, StartFrame, FinishFrame, SkipProcessed, BeginObject,
                Restart, Proceed, Quit, vars, input
  <2>. QED
    BY <2>1, NoJobs, SameProduction
<1>3. CASE \/ Tick \/ Orders \/ Actions \/ NoProduction \/ Working \/ Shutdown
  <2>1. SameJobs
    BY <1>3, TickJobs, OrderJobs, ActionJobs, WorkingJobs, ShutdownJobs
  <2>2. nJobs' = nJobs /\ pc # "setup" /\ pc' # "setup"
    BY <1>3
       DEF Tick, Orders, NoOrderToProcess, MoveOrder, AttackStep,
           AttackOrderStart, AttackOrderGo, AttackOrderArrive,
           AttackOrderAttack, AttackOrderFollow, ContinueWith, FinishOrder,
           Actions, NoMoveAction, MoveAction, Moved, NoAttackAction,
           AttackAction, NoProduction, Working, Shutdown, LeaveLoop,
           CleanupObject, ClearList, input
  <2>. QED
    BY <2>1, <2>2, SameProduction
<1>4. CASE Produce
  <2>1. pc # "setup" /\ pc' # "setup" /\ nJobs' = nJobs
    BY <1>4 DEF Produce, input
  <2>2. Len(obj) \in Nat /\ Cardinality(Jobs) \in Nat /\ Len(Scenario) \in Nat
    BY JobsAreFinite, FS_CardinalityType, LenProperties, ScenarioAssumption
       DEF TypeOK, Population
  <2>. QED
    BY <1>4, <2>1, <2>2, JobDelivered DEF ProductionInv, ProductionConserved
<1>5. ASSUME NEW o \in DOMAIN obj, NEW order, DoOrder(o, order) PROVE ProductionInv'
  <2>. DEFINE r == [obj[o] EXCEPT !.order = order, !.move = NoMove,
                                  !.attack = NoAttack]
  <2>1. r.queue = obj[o].queue
    BY ObjectShape DEF ObjectType
  <2>2. obj' = [obj EXCEPT ![o] = r] /\ nJobs' = nJobs /\ pc = "ui" /\ pc' = "ui"
    BY <1>5 DEF DoOrder
  <2>. HIDE DEF r
  <2>. QED
    BY <2>1, <2>2, OneQueue, SameProduction
<1>6. ASSUME NEW o \in DOMAIN obj, IssueProduce(o) PROVE ProductionInv'
  <2>1. pc = "ui"
    BY <1>6 DEF IssueProduce
  <2>2. /\ Len(obj) \in Nat /\ Cardinality(Jobs) \in Nat /\ Len(Scenario) \in Nat
        /\ nJobs \in Nat
    BY JobsAreFinite, FS_CardinalityType, LenProperties, ScenarioAssumption
       DEF TypeOK, Population, ControlOK
  <2>. QED
    BY <1>6, <2>1, <2>2, JobQueued DEF ProductionInv, ProductionConserved
<1>7. CASE User
  BY <1>2, <1>5, <1>6, <1>7 DEF User, IssueMoveToPoint, IssueTargeted
<1>. QED
  BY <1>1, <1>2, <1>3, <1>4, <1>7 DEF Next, Engine, Loop, Production, Terminated

(* Every job the user asks for is in a queue or has become an object, never *)
(* both and never neither.                                                  *)
THEOREM NoJobIsLost == Spec => []ProductionConserved
<1>1. Init => ProductionInv
  <2>. SUFFICES ASSUME Init PROVE ProductionInv
    OBVIOUS
  <2>1. obj = <<>> /\ pc = "setup" /\ nJobs = 0
    BY DEF Init
  <2>2. Jobs = {}
    BY <2>1 DEF Jobs
  <2>. QED
    BY <2>1, <2>2 DEF ProductionInv, ProductionConserved
<1>2. ProductionInv => ProductionConserved
  BY DEF ProductionInv
<1>. QED
  BY <1>1, <1>2, InitType, TypeStep, ProductionStep, PTL DEF Spec

-----------------------------------------------------------------------------
(* Why a frame comes to its end, although the walk starts over.             *)

LEMMA FewerWithout ==
  ASSUME NEW S, IsFiniteSet(S), NEW x \in S, NEW T \in SUBSET (S \ {x})
  PROVE  Cardinality(T) < Cardinality(S)
<1>1. IsFiniteSet(S \ {x}) /\ Cardinality(S \ {x}) = Cardinality(S) - 1
  BY FS_RemoveElement
<1>2. IsFiniteSet(T) /\ Cardinality(T) <= Cardinality(S \ {x})
  BY <1>1, FS_Subset
<1>3. Cardinality(T) \in Nat /\ Cardinality(S) \in Nat
  BY <1>2, FS_CardinalityType
<1>. QED
  BY <1>1, <1>2, <1>3

LEMMA OneMoreAtMost ==
  ASSUME NEW S, IsFiniteSet(S), NEW x, NEW T \in SUBSET (S \union {x})
  PROVE  Cardinality(T) <= Cardinality(S) + 1
<1>1. /\ IsFiniteSet(S \union {x})
      /\ Cardinality(S \union {x}) =
           IF x \in S THEN Cardinality(S) ELSE Cardinality(S) + 1
  BY FS_AddElement
<1>2. IsFiniteSet(T) /\ Cardinality(T) <= Cardinality(S \union {x})
  BY <1>1, FS_Subset
<1>3. /\ Cardinality(T) \in Nat /\ Cardinality(S) \in Nat
      /\ Cardinality(S \union {x}) \in Nat
  BY <1>1, <1>2, FS_CardinalityType
<1>. QED
  BY <1>1, <1>2, <1>3

LEMMA FiniteWork ==
  ASSUME TypeOK
  PROVE  /\ IsFiniteSet(Live) /\ IsFiniteSet(Jobs)
         /\ IsFiniteSet(ToSet(objs) \ processed) /\ IsFiniteSet(Ahead)
<1>1. /\ DOMAIN obj = 1 .. Len(obj) /\ Len(obj) \in Nat
      /\ DOMAIN objs = 1 .. Len(objs) /\ Len(objs) \in Nat
      /\ \A i \in DOMAIN objs : objs[i] \in DOMAIN obj
  BY LenProperties DEF TypeOK, Population, ControlOK
<1>2. IsFiniteSet(DOMAIN obj) /\ IsFiniteSet(DOMAIN objs)
  BY <1>1, FS_Interval
<1>3. /\ Live \in SUBSET DOMAIN obj /\ ToSet(objs) \ processed \in SUBSET DOMAIN obj
      /\ Ahead \in SUBSET DOMAIN objs
  BY <1>1 DEF Live, ToSet, Ahead
<1>4. IsFiniteSet(Live) /\ IsFiniteSet(ToSet(objs) \ processed)
  BY <1>2, <1>3, FS_Subset
<1>5. IsFiniteSet(Ahead)
  BY <1>2, <1>3, FS_Subset
<1>. QED
  BY <1>4, <1>5, JobsAreFinite

(* The five parts of the measure are natural numbers.                       *)
LEMMA LeftToDoType ==
  ASSUME TypeOK
  PROVE  /\ Cardinality(Live) \in Nat /\ Cardinality(Jobs) \in Nat
         /\ Cardinality(ToSet(objs) \ processed) \in Nat
         /\ Cardinality(Ahead) \in Nat /\ HandlersAhead \in Nat
         /\ LeftToDo \in [1 .. 5 -> Nat]
<1>1. /\ Cardinality(Live) \in Nat /\ Cardinality(Jobs) \in Nat
      /\ Cardinality(ToSet(objs) \ processed) \in Nat
      /\ Cardinality(Ahead) \in Nat
  BY FiniteWork, FS_CardinalityType
<1>2. HandlersAhead \in Nat
  BY DEF HandlersAhead
<1>3. LeftToDo \in [1 .. 5 -> Nat]
  BY <1>1, <1>2 DEF LeftToDo
<1>. QED
  BY <1>1, <1>2, <1>3

(* The first part that changes decides.                                     *)
LEMMA FirstPartDecides ==
  ASSUME NEW a, NEW b,
         \/ a[1] < b[1]
         \/ a[1] = b[1] /\ a[2] < b[2]
         \/ a[1] = b[1] /\ a[2] = b[2] /\ a[3] < b[3]
         \/ a[1] = b[1] /\ a[2] = b[2] /\ a[3] = b[3] /\ a[4] < b[4]
         \/ /\ a[1] = b[1] /\ a[2] = b[2] /\ a[3] = b[3] /\ a[4] = b[4]
            /\ a[5] < b[5]
  PROVE  Less(a, b)
<1>1. ASSUME NEW j \in 1 .. 5, a[j] < b[j], \A i \in 1 .. (j - 1) : a[i] = b[i]
      PROVE  Less(a, b)
  BY <1>1 DEF Less
<1>2. CASE a[1] < b[1]
  BY <1>1, <1>2
<1>3. CASE a[1] = b[1] /\ a[2] < b[2]
  <2>1. \A i \in 1 .. 1 : a[i] = b[i]
    BY <1>3
  <2>. QED
    BY <1>1, <1>3, <2>1
<1>4. CASE a[1] = b[1] /\ a[2] = b[2] /\ a[3] < b[3]
  <2>1. \A i \in 1 .. 2 : a[i] = b[i]
    BY <1>4
  <2>. QED
    BY <1>1, <1>4, <2>1
<1>5. CASE a[1] = b[1] /\ a[2] = b[2] /\ a[3] = b[3] /\ a[4] < b[4]
  <2>1. \A i \in 1 .. 3 : a[i] = b[i]
    BY <1>5
  <2>. QED
    BY <1>1, <1>5, <2>1
<1>6. CASE /\ a[1] = b[1] /\ a[2] = b[2] /\ a[3] = b[3] /\ a[4] = b[4]
           /\ a[5] < b[5]
  <2>1. \A i \in 1 .. 4 : a[i] = b[i]
    BY <1>6
  <2>. QED
    BY <1>1, <1>6, <2>1
<1>. QED
  BY <1>2, <1>3, <1>4, <1>5, <1>6

LEMMA PartsOfLeftToDo ==
  /\ LeftToDo[1] = Cardinality(Live) + 2 * Cardinality(Jobs)
  /\ LeftToDo[2] = (IF invalidated THEN 1 ELSE 0)
  /\ LeftToDo[3] = Cardinality(ToSet(objs) \ processed)
  /\ LeftToDo[4] = Cardinality(Ahead)
  /\ LeftToDo[5] = HandlersAhead
  /\ LeftToDo'[1] = Cardinality(Live') + 2 * Cardinality(Jobs')
  /\ LeftToDo'[2] = (IF invalidated' THEN 1 ELSE 0)
  /\ LeftToDo'[3] = Cardinality(ToSet(objs') \ processed')
  /\ LeftToDo'[4] = Cardinality(Ahead')
  /\ LeftToDo'[5] = HandlersAhead'
BY DEF LeftToDo

(* The list names those in the game, so nobody leaves while it is the same. *)
LEMMA SameLive ==
  ASSUME ListInv, ListInv', InFrame, InFrame', objs' = objs
  PROVE  Live' = Live
<1>1. ~ShuttingDown /\ ~ShuttingDown'
  BY DEF InFrame, Processing, ShuttingDown
<1>. QED
  BY <1>1 DEF ListInv, ListIsRoster

(* A handler that leaves the list alone hands over to a later one.          *)
LEMMA HandlerAdvances ==
  ASSUME ListInv, ListInv', InFrame, InFrame', SameJobs,
         objs' = objs, invalidated' = invalidated, cursor' = cursor,
         processed' = processed, HandlersAhead' < HandlersAhead
  PROVE  Less(LeftToDo', LeftToDo)
<1>1. Live' = Live /\ Jobs' = Jobs
  BY SameLive, SameJobsRemain
<1>2. Ahead' = Ahead
  BY DEF Ahead
<1>. QED
  BY <1>1, <1>2, PartsOfLeftToDo, FirstPartDecides

(* A kill takes one object, and what may happen because of it, away.        *)
LEMMA KillAdvances ==
  ASSUME TypeOK, TypeOK', ListInv, ListInv', InFrame, InFrame', SameJobs,
         NEW t \in Live, RemoveFromList(t)
  PROVE  Less(LeftToDo', LeftToDo)
<1>1. ~ShuttingDown /\ ~ShuttingDown'
  BY DEF InFrame, Processing, ShuttingDown
<1>2. ToSet(objs') = ToSet(objs) \ {t}
  BY RemoveFirstProperties
     DEF RemoveFromList, TypeOK, ControlOK, ListInv, ListIsRoster
<1>3. Live' = Live \ {t}
  BY <1>1, <1>2 DEF ListInv, ListIsRoster
<1>4. Cardinality(Live') = Cardinality(Live) - 1
  BY <1>3, FiniteWork, FS_RemoveElement
<1>5. Jobs' = Jobs
  BY SameJobsRemain
<1>. QED
  BY <1>4, <1>5, LeftToDoType, PartsOfLeftToDo, FirstPartDecides

(* A delivery adds an object, but a job can be delivered only once.         *)
LEMMA DeliveryAdvances ==
  ASSUME TypeOK, TypeOK', RemovedStay, Produce
  PROVE  Less(LeftToDo', LeftToDo)
<1>. DEFINE n == Len(obj) + 1
<1>1. /\ DOMAIN obj = 1 .. Len(obj) /\ Len(obj) \in Nat
      /\ DOMAIN obj' = 1 .. Len(obj')
  BY LenProperties DEF TypeOK, Population
<1>2. DOMAIN obj' = DOMAIN obj \union {n}
  BY <1>1, JobDelivered
<1>. HIDE DEF n
<1>3. Live' \in SUBSET (Live \union {n})
  BY <1>2 DEF Live, RemovedStay
<1>4. Cardinality(Live') <= Cardinality(Live) + 1
  BY <1>3, FiniteWork, OneMoreAtMost
<1>5. /\ Cardinality(Live') \in Nat /\ Cardinality(Live) \in Nat
      /\ Cardinality(Jobs) \in Nat
  <2>1. IsFiniteSet(Live \union {n})
    BY FiniteWork, FS_AddElement
  <2>2. IsFiniteSet(Live')
    BY <1>3, <2>1, FS_Subset
  <2>. QED
    BY <2>2, LeftToDoType, FS_CardinalityType
<1>6. Cardinality(Jobs') = Cardinality(Jobs) - 1
  BY JobDelivered
<1>7. Cardinality(Live') + 2 * Cardinality(Jobs')
        < Cardinality(Live) + 2 * Cardinality(Jobs)
  BY <1>4, <1>5, <1>6
<1>. QED
  BY <1>7, PartsOfLeftToDo, FirstPartDecides

(* The cursor goes on by one node.                                          *)
LEMMA WalkAdvances ==
  ASSUME TypeOK, TypeOK', ListInv, cursor # End, InList(cursor),
         objs' = objs, cursor' = Successor(cursor)
  PROVE  Cardinality(Ahead') < Cardinality(Ahead)
<1>1. /\ DOMAIN objs = 1 .. Len(objs) /\ Len(objs) \in Nat
      /\ \A i \in DOMAIN objs : objs[i] # End
  BY LenProperties DEF TypeOK, ControlOK, Population, End
<1>2. PICK p \in DOMAIN objs : objs[p] = cursor
  BY DEF InList, ToSet
<1>3. \A i, j \in DOMAIN objs : objs[i] = objs[j] => i = j
  BY DEF ListInv, ListIsRoster, IsInjective
<1>4. cursor' = NodeAt(p + 1)
  <2>1. (CHOOSE i \in DOMAIN objs : objs[i] = cursor) = p
    BY <1>2, <1>3
  <2>. QED
    BY <2>1 DEF Successor
<1>5. ASSUME NEW i \in Ahead' PROVE i \in Ahead \ {p}
  <2>1. i \in DOMAIN objs /\ \E k \in 1 .. i : objs[k] = cursor'
    BY <1>5 DEF Ahead
  <2>2. PICK k \in 1 .. i : objs[k] = NodeAt(p + 1)
    BY <1>4, <2>1
  <2>3. k \in DOMAIN objs
    BY <1>1, <2>1
  <2>4. p + 1 \in DOMAIN objs /\ objs[k] = objs[p + 1]
    BY <1>1, <2>2, <2>3 DEF NodeAt
  <2>5. k = p + 1
    BY <1>3, <2>3, <2>4
  <2>6. p \in 1 .. i /\ i # p
    BY <1>1, <1>2, <2>1, <2>5
  <2>. QED
    BY <1>2, <2>1, <2>6 DEF Ahead
<1>6. p \in Ahead
  BY <1>1, <1>2 DEF Ahead
<1>7. Ahead' \in SUBSET (Ahead \ {p})
  BY <1>5
<1>. QED
  BY <1>6, <1>7, FiniteWork, FewerWithout

LEMMA SkipAdvances ==
  ASSUME TypeOK, TypeOK', ListInv, ListInv', SkipProcessed
  PROVE  Less(LeftToDo', LeftToDo)
<1>1. /\ InFrame /\ InFrame' /\ obj' = obj /\ objs' = objs
      /\ invalidated' = invalidated /\ cursor # End
      /\ processed' = processed /\ cursor' = Successor(cursor)
      /\ InList(cursor)
  BY DEF SkipProcessed, InFrame, lists, ListInv, CursorStaysValid
<1>2. Live' = Live /\ Jobs' = Jobs
  BY <1>1, NoJobs, SameLive, SameJobsRemain
<1>3. Cardinality(Ahead') < Cardinality(Ahead)
  BY <1>1, WalkAdvances
<1>. QED
  BY <1>1, <1>2, <1>3, PartsOfLeftToDo, FirstPartDecides

LEMMA ProceedAdvances ==
  ASSUME TypeOK, TypeOK', ListInv, ListInv', FrameInv, Proceed
  PROVE  Less(LeftToDo', LeftToDo)
<1>1. /\ Processing /\ InFrame /\ InFrame' /\ obj' = obj /\ objs' = objs
      /\ invalidated' = invalidated /\ processed' = processed \union {cursor}
  BY DEF Proceed, InFrame, Processing, lists
<1>2. Live' = Live /\ Jobs' = Jobs
  BY <1>1, NoJobs, SameLive, SameJobsRemain
<1>3. cursor \in ToSet(objs) \ processed
  BY <1>1, CursorInGame DEF FrameInv, InList
<1>4. ToSet(objs') \ processed' \in SUBSET ((ToSet(objs) \ processed) \ {cursor})
  BY <1>1
<1>5. Cardinality(ToSet(objs') \ processed') < Cardinality(ToSet(objs) \ processed)
  BY <1>3, <1>4, FiniteWork, FewerWithout
<1>. QED
  BY <1>1, <1>2, <1>5, PartsOfLeftToDo, FirstPartDecides

LEMMA RestartAdvances ==
  ASSUME ListInv, ListInv', Restart
  PROVE  Less(LeftToDo', LeftToDo)
<1>1. /\ InFrame /\ InFrame' /\ obj' = obj /\ objs' = objs
      /\ invalidated /\ ~invalidated'
  BY DEF Restart, InFrame, Processing
<1>2. Live' = Live /\ Jobs' = Jobs
  BY <1>1, NoJobs, SameLive, SameJobsRemain
<1>. QED
  BY <1>1, <1>2, PartsOfLeftToDo, FirstPartDecides

LEMMA AttackAdvances ==
  ASSUME TypeOK, TypeOK', ListInv, ListInv', AttackAction
  PROVE  Less(LeftToDo', LeftToDo)
<1>. DEFINE t == self.attack.target.obj
<1>1. /\ InFrame /\ InFrame' /\ Processing /\ SameJobs /\ cursor' = cursor
      /\ processed' = processed /\ HandlersAhead' < HandlersAhead
  BY ActionJobs DEF AttackAction, InFrame, Processing, HandlersAhead, Actions
<1>2. \/ EndAttack \/ Wait \/ Wound(t)
      \/ CanAttack(cursor, t) /\ Kill(t)
  BY Zenon DEF AttackAction
<1>3. CASE EndAttack \/ Wait \/ Wound(t)
  <2>1. objs' = objs /\ invalidated' = invalidated
    BY <1>3 DEF EndAttack, Wait, Wound, lists
  <2>. QED
    BY <1>1, <2>1, HandlerAdvances
<1>4. CASE CanAttack(cursor, t) /\ Kill(t)
  <2>1. t \in Live
    BY <1>4, AttackTarget DEF CanAttack, Live
  <2>. QED
    BY <1>1, <1>4, <2>1, KillAdvances DEF Kill
<1>. QED
  BY <1>2, <1>3, <1>4

LEMMA AdvanceStep ==
  TypeOK /\ TypeOK' /\ ListInv /\ ListInv' /\ FrameInv /\ Next => FrameAdvances
<1>. SUFFICES ASSUME TypeOK, TypeOK', ListInv, ListInv', FrameInv, Next,
                     InFrame, InFrame'
              PROVE  Less(LeftToDo', LeftToDo)
  BY DEF FrameAdvances
<1>1. CASE \/ Place \/ StartLoop \/ StartFrame \/ FinishFrame \/ Tick
           \/ Shutdown \/ User \/ Terminated
  BY <1>1 DEF Place, StartLoop, StartFrame, FinishFrame, Tick, Shutdown,
              LeaveLoop, CleanupObject, ClearList, User, IssueMoveToPoint,
              IssueTargeted, DoOrder, IssueProduce, Quit, Terminated, InFrame,
              Processing
<1>2. CASE \/ BeginObject \/ Orders \/ NoMoveAction \/ MoveAction
           \/ NoAttackAction \/ NoProduction \/ Working
  <2>1. SameJobs
    BY <1>2, NoJobs, OrderJobs, ActionJobs, WorkingJobs DEF BeginObject, Actions
  <2>2. /\ objs' = objs /\ invalidated' = invalidated /\ cursor' = cursor
        /\ processed' = processed
    BY <1>2
       DEF BeginObject, Orders, NoOrderToProcess, MoveOrder, AttackStep,
           AttackOrderStart, AttackOrderGo, AttackOrderArrive,
           AttackOrderAttack, AttackOrderFollow, ContinueWith, FinishOrder,
           NoMoveAction, MoveAction, Moved, NoAttackAction, NoProduction,
           Working, lists
  <2>3. \/ pc = "object" /\ pc' = "order"
        \/ pc = "order" /\ pc' \in {"move", "produce"}
        \/ pc = "move" /\ pc' = "attack"
        \/ pc = "attack" /\ pc' = "produce"
        \/ pc = "produce" /\ pc' = "advance"
    BY <1>2
       DEF BeginObject, Orders, NoOrderToProcess, MoveOrder, AttackStep,
           AttackOrderStart, AttackOrderGo, AttackOrderArrive,
           AttackOrderAttack, AttackOrderFollow, ContinueWith, FinishOrder,
           NoMoveAction, MoveAction, Moved, NoAttackAction, NoProduction,
           Working
  <2>4. HandlersAhead' < HandlersAhead
    BY <2>3 DEF HandlersAhead
  <2>. QED
    BY <2>1, <2>2, <2>4, HandlerAdvances
<1>3. CASE Produce
  BY <1>3, ProductionList, DeliveryAdvances
<1>. QED
  BY <1>1, <1>2, <1>3, SkipAdvances, RestartAdvances, ProceedAdvances,
     AttackAdvances DEF Next, Engine, Loop, Actions, Production

(* Every step of a frame that does not end it lowers the measure, whatever  *)
(* the handlers create or kill and however often the walk starts over.      *)
THEOREM FramesShrink == Spec => FrameShrinks
<1>1. Init => TypeOK /\ ListInv /\ FrameInv
  BY InitType, ListInit, FrameInit
<1>2. TypeOK /\ ListInv /\ FrameInv /\ [Next]_vars
        => TypeOK' /\ ListInv' /\ FrameInv' /\ [FrameAdvances]_vars
  BY TypeStep, ListStep, FrameStep, AdvanceStep
<1>. QED
  BY <1>1, <1>2, PTL DEF Spec, FrameShrinks

(* Such a measure cannot fall for ever: a frame has finitely many steps.    *)
THEOREM NothingShrinksForEver ==
  ASSUME NEW r \in [Nat -> [1 .. 5 -> Nat]]
  PROVE  \E n \in Nat : ~Less(r[n + 1], r[n])
<1>. DEFINE R == LexProductOrdering(OpToRel(<, Nat), Nat, 5)
<1>1. IsWellFoundedOn(R, [1 .. 5 -> Nat])
  BY NatLessThanWellFounded, WFLexProductOrdering
<1>2. PICK n \in Nat : <<r[n + 1], r[n]>> \notin R
  BY <1>1 DEF IsWellFoundedOn
<1>3. Less(r[n + 1], r[n]) => <<r[n + 1], r[n]>> \in R
  <2>. SUFFICES ASSUME Less(r[n + 1], r[n]) PROVE <<r[n + 1], r[n]>> \in R
    OBVIOUS
  <2>1. r[n + 1] \in [1 .. 5 -> Nat] /\ r[n] \in [1 .. 5 -> Nat]
    OBVIOUS
  <2>2. PICK j \in 1 .. 5 : /\ r[n + 1][j] < r[n][j]
                            /\ \A i \in 1 .. (j - 1) : r[n + 1][i] = r[n][i]
    BY DEF Less
  <2>3. <<r[n + 1][j], r[n][j]>> \in OpToRel(<, Nat)
    BY <2>1, <2>2 DEF OpToRel
  <2>. QED
    BY <2>1, <2>2, <2>3 DEF LexProductOrdering
<1>. QED
  BY <1>2, <1>3

=============================================================================
