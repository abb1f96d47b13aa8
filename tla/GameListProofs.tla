--------------------------- MODULE GameListProofs ---------------------------
(***************************************************************************)
(* The object list of the game, the loop that walks it while objects are   *)
(* created and removed, the objects that have been removed, and the roster *)
(* the game implements.                                                    *)
(***************************************************************************)
EXTENDS GameProofs

(* Why a kill never takes away the list node the loop is at.                *)
NobodyAttacksItself ==
  \A o \in DOMAIN obj :
    obj[o].attack.active => ~IsSelf(o, obj[o].attack.target)

ListInv == ListIsRoster /\ CursorStaysValid /\ NobodyAttacksItself

-----------------------------------------------------------------------------
(* Lemmas about the list and its cursor.                                    *)

LEMMA NodeInList ==
  ASSUME NEW i
  PROVE  NodeAt(i) # End => InList(NodeAt(i))
BY DEF NodeAt, InList, ToSet

(* The object being processed is in the game.                               *)
LEMMA CursorInGame ==
  ASSUME TypeOK, ListInv, Processing
  PROVE  /\ cursor # End /\ cursor \in DOMAIN obj
         /\ InList(cursor) /\ ~obj[cursor].removed /\ ~ShuttingDown
<1>1. cursor # End /\ InList(cursor) /\ ~ShuttingDown
  BY DEF TypeOK, ControlOK, ListInv, CursorStaysValid, Processing, ShuttingDown
<1>2. cursor \in Live
  BY <1>1 DEF ListInv, ListIsRoster, InList
<1>. QED
  BY <1>1, <1>2 DEF Live

(* Steps that leave the list and the objects' presence as they are.         *)
LEMMA SameList ==
  ASSUME ListInv, DOMAIN obj' = DOMAIN obj, objs' = objs,
         \A o \in DOMAIN obj : obj'[o].removed = obj[o].removed,
         ~ShuttingDown' => ~ShuttingDown,
         CursorStaysValid', NobodyAttacksItself'
  PROVE  ListInv'
<1>1. Live' = Live
  BY DEF Live
<1>. QED
  BY <1>1 DEF ListInv, ListIsRoster

(* A handler that changes nothing but the object being processed.           *)
LEMMA OnCursor ==
  ASSUME TypeOK, ListInv, Processing, Processing', NEW r,
         obj' = [obj EXCEPT ![cursor] = r], ~r.removed,
         r.attack.active => ~IsSelf(cursor, r.attack.target),
         objs' = objs, cursor' = cursor
  PROVE  ListInv' /\ RemovedStay
<1>1. /\ cursor \in DOMAIN obj /\ InList(cursor) /\ ~obj[cursor].removed
      /\ ~ShuttingDown /\ cursor \in Live /\ ToSet(objs) = Live
  BY CursorInGame DEF Live, ListInv, ListIsRoster
<1>2. DOMAIN obj' = DOMAIN obj /\ \A o \in DOMAIN obj \ {cursor} : obj'[o] = obj[o]
  OBVIOUS
<1>3. obj'[cursor] = r
  BY <1>1
<1>4. Live' = Live
  BY <1>1, <1>2, <1>3 DEF Live
<1>5. NobodyAttacksItself'
  BY <1>2, <1>3 DEF NobodyAttacksItself, IsSelf, ListInv
<1>6. CursorStaysValid'
  BY <1>1 DEF CursorStaysValid, InList
<1>7. ListIsRoster'
  BY <1>1, <1>4 DEF ListInv, ListIsRoster
<1>8. RemovedStay
  BY <1>1, <1>2 DEF RemovedStay, InList
<1>. QED
  BY <1>5, <1>6, <1>7, <1>8 DEF ListInv

LEMMA ContinueList ==
  ASSUME TypeOK, ListInv, pc = "order", NEW r, ContinueWith(r),
         r.removed = self.removed,
         r.attack = self.attack \/ ~IsSelf(cursor, r.attack.target)
  PROVE  ListInv' /\ RemovedStay
<1>1. Processing /\ Processing'
  BY DEF Processing, ContinueWith
<1>2. ~r.removed
  BY <1>1, CursorInGame DEF self
<1>3. r.attack.active => ~IsSelf(cursor, r.attack.target)
  BY <1>1, CursorInGame DEF ListInv, NobodyAttacksItself, self
<1>. QED
  BY <1>1, <1>2, <1>3, OnCursor DEF ContinueWith, lists

LEMMA FinishList ==
  ASSUME TypeOK, ListInv, pc = "order", FinishOrder
  PROVE  ListInv' /\ RemovedStay
<1>. DEFINE r == [self EXCEPT !.order = NoOrder, !.move = NoMove,
                              !.attack = NoAttack]
<1>1. Processing /\ Processing'
  BY DEF Processing, FinishOrder
<1>2. self \in ObjectType /\ ~self.removed
  BY <1>1, CursorInGame, CursorObject DEF self
<1>3. ~r.removed /\ ~r.attack.active
  BY <1>2, NothingType DEF ObjectType
<1>4. obj' = [obj EXCEPT ![cursor] = r]
  BY DEF FinishOrder, self
<1>. HIDE DEF r
<1>. QED
  BY <1>1, <1>3, <1>4, OnCursor DEF FinishOrder, lists

(* An object is added to the game under a name of its own.                  *)
LEMMA CreateList ==
  ASSUME TypeOK, ListInv, ~ShuttingDown, ~ShuttingDown',
         NEW s \in Seq(ObjectType), DOMAIN s = DOMAIN obj, Len(s) = Len(obj),
         \A o \in DOMAIN obj :
           /\ s[o].removed = obj[o].removed /\ s[o].hp = obj[o].hp
           /\ s[o].pos = obj[o].pos /\ s[o].attack = obj[o].attack,
         NEW r \in ObjectType, ~r.removed, ~r.attack.active,
         obj' = Append(s, r), AddToList(Len(obj) + 1),
         cursor' = cursor, Processing' \/ pc' = "setup", Processing' => Processing
  PROVE  ListInv' /\ RemovedStay
<1>. DEFINE n == Len(obj) + 1
<1>1. /\ Len(obj) \in Nat /\ DOMAIN obj = 1 .. Len(obj) /\ n \notin DOMAIN obj
      /\ objs \in Seq(DOMAIN obj)
  BY LenProperties DEF TypeOK, Population, ControlOK
<1>2. /\ DOMAIN obj' = DOMAIN obj \union {n} /\ obj'[n] = r
      /\ \A o \in DOMAIN obj : obj'[o] = s[o]
  BY <1>1, AppendProperties
<1>. HIDE DEF n
<1>3. /\ Len(objs) \in Nat /\ DOMAIN objs = 1 .. Len(objs)
      /\ DOMAIN objs' = 1 .. (Len(objs) + 1) /\ objs'[Len(objs) + 1] = n
      /\ \A i \in DOMAIN objs : objs'[i] = objs[i] /\ objs[i] \in DOMAIN obj
  <2>1. objs \in Seq(DOMAIN obj \union {n})
    BY <1>1, SeqMonotonic
  <2>2. objs' = Append(objs, n)
    BY DEF AddToList, n
  <2>. QED
    BY <1>1, <2>1, <2>2, AppendProperties, LenProperties
<1>4. ToSet(objs') = ToSet(objs) \union {n}
  <2>1. DOMAIN objs' = DOMAIN objs \union {Len(objs) + 1}
    BY <1>3
  <2>2. ToSet(objs) = {objs[i] : i \in DOMAIN objs}
    BY DEF ToSet
  <2>3. ToSet(objs') = {objs'[i] : i \in DOMAIN objs'}
    BY DEF ToSet
  <2>. QED
    BY <1>3, <2>1, <2>2, <2>3
<1>5. IsInjective(objs')
  <2>1. IsInjective(objs)
    BY DEF ListInv, ListIsRoster
  <2>2. \A i, j \in DOMAIN objs : objs[i] = objs[j] => i = j
    BY <2>1 DEF IsInjective
  <2>3. \A i \in DOMAIN objs : objs'[i] # n
    BY <1>1, <1>3
  <2>4. DOMAIN objs' = DOMAIN objs \union {Len(objs) + 1}
    BY <1>3
  <2>. QED
    BY <1>3, <2>2, <2>3, <2>4 DEF IsInjective
<1>6. Live' = Live \union {n}
  BY <1>1, <1>2 DEF Live
<1>7. ListIsRoster'
  BY <1>4, <1>5, <1>6 DEF ListInv, ListIsRoster
<1>8. CursorStaysValid'
  <2>1. Processing' => InList(cursor)
    BY DEF ListInv, CursorStaysValid
  <2>2. InList(cursor) => InList(cursor)'
    BY <1>4 DEF InList
  <2>3. pc' \notin {"object", "cleanup"}
    BY DEF Processing
  <2>. QED
    BY <2>1, <2>2, <2>3 DEF CursorStaysValid
<1>9. NobodyAttacksItself'
  BY <1>2 DEF NobodyAttacksItself, ListInv, IsSelf
<1>10. RemovedStay
  BY <1>1, <1>2, <1>4 DEF RemovedStay, InList
<1>. QED
  BY <1>7, <1>8, <1>9, <1>10 DEF ListInv

-----------------------------------------------------------------------------
(* Every step keeps the list intact and leaves removed objects alone.       *)

LEMMA PlaceList ==
  ASSUME TypeOK, ListInv, Place PROVE ListInv' /\ RemovedStay
<1>. DEFINE s == Scenario[Len(obj) + 1]
            f == Fresh(s.proto, s.owner, s.at)
            r == [f EXCEPT !.order = s.order]
<1>1. /\ Len(obj) + 1 \in DOMAIN Scenario /\ obj \in Seq(ObjectType)
  BY LenProperties, ScenarioAssumption DEF Place, TypeOK, Population
<1>2. s \in Placement
  BY <1>1, ScenarioAssumption
<1>3. /\ obj' = Append(obj, r) /\ AddToList(Len(obj) + 1)
      /\ pc = "setup" /\ pc' = "setup" /\ cursor' = cursor
  BY DEF Place
<1>. HIDE DEF s
<1>4. f \in ObjectType /\ ~f.removed /\ ~f.attack.active
  <2>1. s.proto \in Proto /\ s.owner \in Players /\ s.at \in Int
    BY <1>2 DEF Placement
  <2>2. Linked(f, {})
    BY <2>1, FreshType
  <2>. QED
    BY <2>2 DEF Linked, Fresh, NoAttack
<1>5. r \in ObjectType /\ ~r.removed /\ ~r.attack.active
  BY <1>2, <1>4 DEF ObjectType, Placement
<1>6. ~ShuttingDown /\ ~ShuttingDown' /\ ~Processing'
  BY <1>3 DEF ShuttingDown, Processing
<1>. HIDE DEF r
<1>. QED
  BY <1>1, <1>3, <1>5, <1>6, CreateList

LEMMA LoopList ==
  ASSUME TypeOK, ListInv,
         StartLoop \/ StartFrame \/ FinishFrame \/ SkipProcessed
           \/ BeginObject \/ Restart \/ Proceed
  PROVE  ListInv' /\ RemovedStay
<1>1. obj' = obj /\ objs' = objs
  BY DEF StartLoop, StartFrame, FinishFrame, SkipProcessed, BeginObject,
         Restart, Proceed, lists
<1>2. /\ First # End => InList(First)
      /\ Successor(cursor) # End => InList(Successor(cursor))
  BY NodeInList DEF First, Successor
<1>3. /\ pc' \in {"loop", "object", "ui", "order"} /\ ~ShuttingDown
      /\ pc' = "object" => cursor' = First \/ cursor' = Successor(cursor)
      /\ pc' = "order" => cursor' = cursor /\ pc = "object" /\ cursor # End
  BY DEF StartLoop, StartFrame, FinishFrame, SkipProcessed, BeginObject,
         Restart, Proceed, ShuttingDown
<1>4. CursorStaysValid'
  <2>1. CASE pc' = "object"
    <3>1. cursor' # End => InList(cursor')
      BY <1>2, <1>3, <2>1
    <3>. QED
      BY <1>1, <2>1, <3>1 DEF CursorStaysValid, Processing, InList
  <2>2. CASE pc' = "order"
    <3>1. InList(cursor')
      BY <1>3, <2>2 DEF ListInv, CursorStaysValid
    <3>. QED
      BY <1>1, <3>1 DEF CursorStaysValid, InList
  <2>. QED
    BY <1>3, <2>1, <2>2 DEF CursorStaysValid, Processing
<1>5. NobodyAttacksItself'
  BY <1>1 DEF ListInv, NobodyAttacksItself, IsSelf
<1>6. RemovedStay
  BY <1>1 DEF RemovedStay, InList
<1>. QED
  BY <1>1, <1>3, <1>4, <1>5, <1>6, SameList

LEMMA AgedKeeps ==
  ASSUME NEW r \in ObjectType, NEW d
  PROVE  /\ Aged(r, d).removed = r.removed /\ Aged(r, d).hp = r.hp
         /\ Aged(r, d).pos = r.pos
         /\ Aged(r, d).attack.active = r.attack.active
         /\ Aged(r, d).attack.target = r.attack.target
<1>. DEFINE q == [i \in DOMAIN r.queue |-> Older(r.queue[i], d)]
            a == IF r.attack.active THEN r.attack.age + d ELSE r.attack.age
            k == [r.attack EXCEPT !.age = a]
            s == [r EXCEPT !.attack = k, !.queue = q]
<1>1. r.attack \in AttackType
  BY DEF ObjectType
<1>2. Aged(r, d) = IF r.removed THEN r ELSE s
  BY <1>1 DEF Aged, ObjectType
<1>. HIDE DEF q, a
<1>3. k.active = r.attack.active /\ k.target = r.attack.target
  BY <1>1 DEF AttackType
<1>. HIDE DEF k
<1>4. s.removed = r.removed /\ s.hp = r.hp /\ s.pos = r.pos /\ s.attack = k
  BY DEF ObjectType
<1>. HIDE DEF s
<1>. QED
  BY <1>2, <1>3, <1>4

LEMMA TickList ==
  ASSUME TypeOK, ListInv, Tick PROVE ListInv' /\ RemovedStay
<1>1. /\ DOMAIN obj' = DOMAIN obj
      /\ \A o \in DOMAIN obj : obj'[o] = Aged(obj[o], delta')
  BY DEF Tick
<1>2. ASSUME NEW o \in DOMAIN obj
      PROVE  /\ obj'[o].removed = obj[o].removed /\ obj'[o].hp = obj[o].hp
             /\ obj'[o].pos = obj[o].pos
             /\ obj'[o].attack.active = obj[o].attack.active
             /\ obj'[o].attack.target = obj[o].attack.target
  <2>1. obj[o] \in ObjectType
    BY DEF TypeOK, Population
  <2>. QED
    BY <1>1, <2>1, AgedKeeps
<1>3. CursorStaysValid'
  BY DEF Tick, CursorStaysValid, Processing
<1>4. NobodyAttacksItself'
  BY <1>1, <1>2 DEF ListInv, NobodyAttacksItself, IsSelf
<1>5. ~ShuttingDown /\ objs' = objs
  BY DEF Tick, ShuttingDown, lists
<1>6. RemovedStay
  BY <1>2, <1>5 DEF RemovedStay, InList
<1>. QED
  BY <1>1, <1>2, <1>3, <1>4, <1>5, <1>6, SameList

LEMMA OrderList ==
  ASSUME TypeOK, ListInv,
         MoveOrder \/ AttackOrderStart \/ AttackOrderGo \/ AttackOrderArrive
           \/ AttackOrderAttack \/ AttackOrderFollow
  PROVE  ListInv' /\ RemovedStay
<1>1. pc = "order" /\ self \in ObjectType
  <2>1. pc = "order"
    BY DEF MoveOrder, AttackStep, AttackOrderStart, AttackOrderGo,
           AttackOrderArrive, AttackOrderAttack, AttackOrderFollow
  <2>. QED
    BY <2>1, CursorObject, CursorInGame DEF Processing
<1>2. ASSUME FinishOrder PROVE ListInv' /\ RemovedStay
  BY <1>1, <1>2, FinishList
<1>3. ASSUME NEW m, NEW n, NEW r,
             r \in {self, [self EXCEPT !.move = m], [self EXCEPT !.order.step = n],
                    [self EXCEPT !.move = m, !.order.step = n]},
             ContinueWith(r)
      PROVE  ListInv' /\ RemovedStay
  <2>1. r.removed = self.removed /\ r.attack = self.attack
    BY <1>1, <1>3 DEF ObjectType
  <2>. QED
    BY <1>1, <1>3, <2>1, ContinueList
<1>4. ASSUME NEW a, ~IsSelf(cursor, self.order.target),
             ContinueWith([self EXCEPT
               !.attack = StartedAttack(self.order.target, a), !.order.step = 1])
      PROVE  ListInv' /\ RemovedStay
  <2>. DEFINE r == [self EXCEPT !.attack = StartedAttack(self.order.target, a),
                                !.order.step = 1]
  <2>1. /\ r.removed = self.removed
        /\ r.attack = StartedAttack(self.order.target, a)
    BY <1>1 DEF ObjectType
  <2>2. r.attack.target = self.order.target
    BY <2>1 DEF StartedAttack
  <2>. HIDE DEF r
  <2>3. ContinueWith(r)
    BY <1>4 DEF r
  <2>. QED
    BY <1>1, <1>4, <2>1, <2>2, <2>3, ContinueList
<1>5. CASE MoveOrder
  BY <1>2, <1>3, <1>5 DEF MoveOrder
<1>6. CASE AttackOrderStart
  BY <1>2, <1>4, <1>6 DEF AttackOrderStart, CanStartAttack
<1>7. CASE AttackOrderGo
  BY <1>3, <1>7 DEF AttackOrderGo
<1>8. CASE AttackOrderArrive
  BY <1>2, <1>3, <1>8 DEF AttackOrderArrive
<1>9. CASE AttackOrderAttack
  BY <1>2, <1>3, <1>9 DEF AttackOrderAttack
<1>10. CASE AttackOrderFollow
  BY <1>2, <1>3, <1>10 DEF AttackOrderFollow
<1>. QED
  BY <1>5, <1>6, <1>7, <1>8, <1>9, <1>10

LEMMA SkipList ==
  ASSUME TypeOK, ListInv, NoOrderToProcess \/ NoMoveAction \/ NoAttackAction
  PROVE  ListInv' /\ RemovedStay
<1>1. /\ obj' = obj /\ objs' = objs /\ cursor' = cursor
      /\ Processing /\ Processing' /\ ~ShuttingDown
  BY DEF NoOrderToProcess, NoMoveAction, NoAttackAction, lists, Processing,
         ShuttingDown
<1>2. CursorStaysValid' /\ NobodyAttacksItself' /\ RemovedStay
  BY <1>1 DEF CursorStaysValid, NobodyAttacksItself, RemovedStay, ListInv,
              InList, IsSelf
<1>. QED
  BY <1>1, <1>2, SameList

LEMMA MoveList ==
  ASSUME TypeOK, ListInv, MoveAction PROVE ListInv' /\ RemovedStay
<1>1. Processing /\ Processing' /\ objs' = objs /\ cursor' = cursor
  BY DEF MoveAction, Moved, Processing, lists
<1>2. /\ self \in ObjectType /\ ~self.removed
      /\ self.attack.active => ~IsSelf(cursor, self.attack.target)
  BY <1>1, CursorInGame, CursorObject DEF self, ListInv, NobodyAttacksItself
<1>3. \E x, m : Moved(self, x, m)
  BY Zenon DEF MoveAction
<1>4. PICK x, m : obj' = [obj EXCEPT ![cursor] = [self EXCEPT !.pos = x, !.move = m]]
  BY <1>3 DEF Moved
<1>. DEFINE r == [self EXCEPT !.pos = x, !.move = m]
<1>5. ~r.removed /\ r.attack = self.attack
  BY <1>2 DEF ObjectType
<1>6. obj' = [obj EXCEPT ![cursor] = r]
  BY <1>4
<1>. HIDE DEF r
<1>. QED
  BY <1>1, <1>2, <1>5, <1>6, OnCursor

(* A hit changes the target's hit points and the attacker's Attack action;  *)
(* a kill takes the target, which is not the attacker, off the list.        *)
LEMMA AttackList ==
  ASSUME TypeOK, ListInv, AttackAction PROVE ListInv' /\ RemovedStay
<1>. DEFINE t == self.attack.target.obj
<1>1. /\ Processing /\ Processing' /\ cursor' = cursor
      /\ pc' = "produce" /\ ~ShuttingDown /\ ~ShuttingDown'
  BY DEF AttackAction, Processing, ShuttingDown
<1>2. /\ cursor \in DOMAIN obj /\ self = obj[cursor] /\ self \in ObjectType
      /\ self.attack \in AttackType /\ self.attack.active /\ ~self.removed
      /\ t \in DOMAIN obj /\ t # cursor /\ InList(cursor)
  <2>1. self.attack.active /\ t \in DOMAIN obj /\ self \in ObjectType
        /\ Linked(self, DOMAIN obj)
    BY AttackTarget, CursorObject
  <2>2. self.attack.target.type = "Object"
    BY <2>1 DEF Linked
  <2>3. ~IsSelf(cursor, self.attack.target)
    BY <1>1, <2>1, CursorInGame DEF ListInv, NobodyAttacksItself, self
  <2>. QED
    BY <1>1, <2>1, <2>2, <2>3, CursorInGame DEF IsSelf, self, ObjectType
<1>3. \/ EndAttack \/ Wait
      \/ CanAttack(cursor, t) /\ Wound(t)
      \/ CanAttack(cursor, t) /\ Kill(t)
  BY Zenon DEF AttackAction
<1>4. CASE EndAttack
  <2>. DEFINE r == [self EXCEPT !.attack = NoAttack]
  <2>1. obj' = [obj EXCEPT ![cursor] = r] /\ objs' = objs
    BY <1>4 DEF EndAttack, self, lists
  <2>2. ~r.removed /\ ~r.attack.active
    BY <1>2, NothingType DEF ObjectType
  <2>. HIDE DEF r
  <2>. QED
    BY <1>1, <2>1, <2>2, OnCursor
<1>5. CASE Wait
  <2>1. obj' = obj /\ objs' = objs
    BY <1>5 DEF Wait, lists
  <2>2. CursorStaysValid' /\ NobodyAttacksItself' /\ RemovedStay
    BY <1>1, <1>2, <2>1
       DEF CursorStaysValid, NobodyAttacksItself, RemovedStay, ListInv, InList,
           IsSelf
  <2>. QED
    BY <1>1, <2>1, <2>2, SameList
<1>6. CASE CanAttack(cursor, t) /\ Wound(t)
  <2>. DEFINE h == obj[t].hp - Attacks(cursor) * NetDamage(cursor, t)
              k == [self.attack EXCEPT !.age = 0]
  <2>1. obj[t] \in ObjectType /\ ~obj[t].removed
    BY <1>2, <1>6 DEF TypeOK, Population, CanAttack
  <2>2. /\ DOMAIN obj' = DOMAIN obj
        /\ obj'[t] = [obj[t] EXCEPT !.hp = h]
        /\ obj'[cursor] = [self EXCEPT !.attack = k]
        /\ \A o \in DOMAIN obj \ {t, cursor} : obj'[o] = obj[o]
    BY <1>2, <1>6 DEF Wound
  <2>. HIDE DEF h
  <2>3. k.target = self.attack.target
    BY <1>2 DEF AttackType
  <2>. HIDE DEF k
  <2>4. /\ obj'[t].removed = obj[t].removed /\ obj'[t].attack = obj[t].attack
        /\ obj'[cursor].removed = obj[cursor].removed
        /\ obj'[cursor].attack = k
    BY <1>2, <2>1, <2>2 DEF ObjectType
  <2>5. objs' = objs
    BY <1>6 DEF Wound, lists
  <2>6. \A o \in DOMAIN obj : obj'[o].removed = obj[o].removed
    BY <2>2, <2>4
  <2>7. NobodyAttacksItself'
    <3>1. \A o \in DOMAIN obj :
            obj[o].attack.active => ~IsSelf(o, obj[o].attack.target)
      BY DEF ListInv, NobodyAttacksItself
    <3>2. obj'[t].attack.active => ~IsSelf(t, obj'[t].attack.target)
      BY Zenon, <1>2, <2>4, <3>1
    <3>3. obj'[cursor].attack.active => ~IsSelf(cursor, obj'[cursor].attack.target)
      BY <1>2, <2>3, <2>4 DEF IsSelf
    <3>4. \A o \in DOMAIN obj \ {t, cursor} :
            obj'[o].attack.active => ~IsSelf(o, obj'[o].attack.target)
      BY Zenon, <2>2, <3>1
    <3>. QED
      BY <2>2, <3>2, <3>3, <3>4 DEF NobodyAttacksItself, IsSelf
  <2>8. RemovedStay
    BY <1>2, <2>1, <2>2, <2>5 DEF RemovedStay, InList
  <2>9. CursorStaysValid'
    BY <1>1, <1>2, <2>5 DEF CursorStaysValid, InList
  <2>. QED
    BY <1>1, <2>2, <2>5, <2>6, <2>7, <2>8, <2>9, SameList
<1>7. CASE CanAttack(cursor, t) /\ Kill(t)
  <2>. DEFINE h == obj[t].hp - Min(KillingHits(cursor, t)) * NetDamage(cursor, t)
  <2>1. obj[t] \in ObjectType /\ ~obj[t].removed
    BY <1>2, <1>7 DEF TypeOK, Population, CanAttack
  <2>2. /\ DOMAIN obj' = DOMAIN obj
        /\ obj'[t] = [obj[t] EXCEPT !.hp = h, !.removed = TRUE]
        /\ obj'[cursor] = [self EXCEPT !.attack = NoAttack]
        /\ \A o \in DOMAIN obj \ {t, cursor} : obj'[o] = obj[o]
    BY <1>2, <1>7, <2>1 DEF Kill, ObjectType
  <2>. HIDE DEF h
  <2>3. /\ obj'[t].removed /\ obj'[t].attack = obj[t].attack
        /\ ~obj'[cursor].removed /\ ~obj'[cursor].attack.active
    BY <1>2, <2>1, <2>2, NothingType DEF ObjectType
  <2>4. Live' = Live \ {t}
    BY <1>2, <2>2, <2>3 DEF Live
  <2>5. IsInjective(objs') /\ ToSet(objs') = ToSet(objs) \ {t}
    BY <1>7, RemoveFirstProperties
       DEF Kill, RemoveFromList, TypeOK, ControlOK, ListInv, ListIsRoster
  <2>6. ListIsRoster'
    BY <1>1, <2>4, <2>5 DEF ListInv, ListIsRoster
  <2>7. CursorStaysValid'
    BY <1>1, <1>2, <2>5 DEF CursorStaysValid, InList
  <2>8. NobodyAttacksItself'
    <3>1. \A o \in DOMAIN obj :
            obj[o].attack.active => ~IsSelf(o, obj[o].attack.target)
      BY DEF ListInv, NobodyAttacksItself
    <3>2. obj'[t].attack.active => ~IsSelf(t, obj'[t].attack.target)
      BY Zenon, <1>2, <2>3, <3>1
    <3>3. obj'[cursor].attack.active => ~IsSelf(cursor, obj'[cursor].attack.target)
      BY <2>3
    <3>4. \A o \in DOMAIN obj \ {t, cursor} :
            obj'[o].attack.active => ~IsSelf(o, obj'[o].attack.target)
      BY Zenon, <2>2, <3>1
    <3>. QED
      BY <2>2, <3>2, <3>3, <3>4 DEF NobodyAttacksItself, IsSelf
  <2>9. RemovedStay
    BY <1>2, <2>1, <2>2, <2>5 DEF RemovedStay, InList
  <2>. QED
    BY <2>6, <2>7, <2>8, <2>9 DEF ListInv
<1>. QED
  BY <1>3, <1>4, <1>5, <1>6, <1>7

LEMMA ProductionList ==
  ASSUME TypeOK, ListInv, NoProduction \/ Working \/ Produce
  PROVE  ListInv' /\ RemovedStay
<1>1. /\ Processing /\ Processing' /\ cursor' = cursor
      /\ ~ShuttingDown /\ ~ShuttingDown' /\ pc' = "advance"
  BY DEF NoProduction, Working, Produce, Processing, ShuttingDown
<1>2. /\ cursor \in DOMAIN obj /\ self = obj[cursor] /\ self \in ObjectType
      /\ self.queue \in Seq(Job) /\ ~self.removed
      /\ self.attack.active => ~IsSelf(cursor, self.attack.target)
  BY <1>1, CursorInGame, CursorObject
     DEF self, ListInv, NobodyAttacksItself, ObjectType
<1>3. ASSUME NEW q, objs' = objs,
             obj' = [obj EXCEPT ![cursor] =
                      [self EXCEPT !.secondary = FALSE, !.queue = q]]
      PROVE  ListInv' /\ RemovedStay
  <2>. DEFINE r == [self EXCEPT !.secondary = FALSE, !.queue = q]
  <2>1. ~r.removed /\ r.attack = self.attack
    BY <1>2 DEF ObjectType
  <2>2. obj' = [obj EXCEPT ![cursor] = r]
    BY <1>3
  <2>. HIDE DEF r
  <2>. QED
    BY <1>1, <1>2, <1>3, <2>1, <2>2, OnCursor
<1>4. CASE NoProduction
  <2>1. obj' = [obj EXCEPT ![cursor] = [self EXCEPT !.secondary = FALSE,
                                                    !.queue = self.queue]]
    BY <1>2, <1>4 DEF NoProduction, ObjectType
  <2>. QED
    BY <1>3, <1>4, <2>1 DEF NoProduction, lists
<1>5. CASE Working
  BY <1>3, <1>5 DEF Working, lists
<1>6. CASE Produce
  <2>. DEFINE pr == Head(self.queue).what
              q == Tail(self.queue)
              k == [self EXCEPT !.secondary = FALSE, !.queue = q]
              s == [obj EXCEPT ![cursor] = k]
              f == Fresh(pr, self.owner, self.pos)
  <2>1. pr \in Proto /\ q \in Seq(Job)
    <3>1. Head(self.queue) \in Job /\ q \in Seq(Job)
      BY <1>2, <1>6, HeadTailProperties DEF Produce
    <3>. QED
      BY <3>1 DEF Job
  <2>2. obj' = Append(s, f) /\ AddToList(Len(obj) + 1)
    BY <1>6 DEF Produce
  <2>. HIDE DEF pr, q
  <2>3. /\ k \in ObjectType /\ k.removed = self.removed /\ k.hp = self.hp
        /\ k.pos = self.pos /\ k.attack = self.attack
    BY <1>2, <2>1 DEF ObjectType
  <2>. HIDE DEF k
  <2>4. /\ s \in Seq(ObjectType) /\ DOMAIN s = DOMAIN obj /\ Len(s) = Len(obj)
        /\ \A o \in DOMAIN obj :
             /\ s[o].removed = obj[o].removed /\ s[o].hp = obj[o].hp
             /\ s[o].pos = obj[o].pos /\ s[o].attack = obj[o].attack
    <3>1. obj \in Seq(ObjectType) /\ DOMAIN obj = 1 .. Len(obj)
      BY LenProperties DEF TypeOK, Population
    <3>2. /\ s \in Seq(ObjectType) /\ Len(s) = Len(obj)
          /\ \A o \in 1 .. Len(obj) : s[o] = IF o = cursor THEN k ELSE obj[o]
      BY <1>2, <2>3, <3>1, ExceptSeq
    <3>. QED
      BY <1>2, <2>3, <3>1, <3>2
  <2>. HIDE DEF s
  <2>5. f \in ObjectType /\ ~f.removed /\ ~f.attack.active
    <3>1. self.owner \in Players /\ self.pos \in Int
      BY <1>2 DEF ObjectType
    <3>2. Linked(f, {})
      BY <2>1, <3>1, FreshType
    <3>. QED
      BY <3>2 DEF Linked, Fresh, NoAttack
  <2>. HIDE DEF f
  <2>. QED
    BY <1>1, <2>2, <2>4, <2>5, CreateList
<1>. QED
  BY <1>4, <1>5, <1>6

(* Between two frames the user changes orders and queues only.              *)
LEMMA UserList ==
  ASSUME TypeOK, ListInv, User PROVE ListInv' /\ RemovedStay
<1>1. ASSUME NEW o \in DOMAIN obj, NEW r, obj' = [obj EXCEPT ![o] = r],
             objs' = objs, pc = "ui", pc' = "ui",
             /\ r.removed = obj[o].removed /\ r.hp = obj[o].hp
             /\ r.pos = obj[o].pos,
             r.attack = obj[o].attack \/ ~r.attack.active
      PROVE  ListInv' /\ RemovedStay
  <2>1. /\ DOMAIN obj' = DOMAIN obj /\ obj'[o] = r
        /\ \A x \in DOMAIN obj \ {o} : obj'[x] = obj[x]
    BY <1>1
  <2>2. /\ \A x \in DOMAIN obj : obj'[x].removed = obj[x].removed
        /\ NobodyAttacksItself'
    BY <1>1, <2>1 DEF ListInv, NobodyAttacksItself, IsSelf
  <2>3. CursorStaysValid' /\ ~ShuttingDown
    BY <1>1 DEF CursorStaysValid, Processing, ShuttingDown
  <2>4. RemovedStay
    BY <1>1, <2>1 DEF RemovedStay, InList
  <2>. QED
    BY <1>1, <2>1, <2>2, <2>3, <2>4, SameList
<1>2. ASSUME NEW o \in DOMAIN obj, NEW order, DoOrder(o, order)
      PROVE  ListInv' /\ RemovedStay
  <2>. DEFINE r == [obj[o] EXCEPT !.order = order, !.move = NoMove,
                                  !.attack = NoAttack]
  <2>1. obj[o] \in ObjectType
    BY DEF TypeOK, Population
  <2>2. /\ r.removed = obj[o].removed /\ r.hp = obj[o].hp
        /\ r.pos = obj[o].pos /\ ~r.attack.active
    BY <2>1, NothingType DEF ObjectType
  <2>3. obj' = [obj EXCEPT ![o] = r]
    BY <1>2 DEF DoOrder
  <2>. HIDE DEF r
  <2>. QED
    BY <1>1, <1>2, <2>2, <2>3 DEF DoOrder, lists
<1>3. ASSUME NEW o \in DOMAIN obj, IssueProduce(o)
      PROVE  ListInv' /\ RemovedStay
  <2>1. obj[o] \in ObjectType
    BY DEF TypeOK, Population
  <2>2. PICK q : obj' = [obj EXCEPT ![o] =
                          [obj[o] EXCEPT !.secondary = TRUE, !.queue = q]]
    BY <1>3 DEF IssueProduce
  <2>. DEFINE r == [obj[o] EXCEPT !.secondary = TRUE, !.queue = q]
  <2>3. /\ r.removed = obj[o].removed /\ r.hp = obj[o].hp
        /\ r.pos = obj[o].pos /\ r.attack = obj[o].attack
    BY <2>1 DEF ObjectType
  <2>4. obj' = [obj EXCEPT ![o] = r]
    BY <2>2
  <2>. HIDE DEF r
  <2>. QED
    BY <1>1, <1>3, <2>3, <2>4 DEF IssueProduce, lists
<1>4. CASE Quit
  <2>1. obj' = obj /\ objs' = objs /\ pc = "ui" /\ pc' = "ui"
    BY <1>4 DEF Quit, lists
  <2>2. CursorStaysValid' /\ ~ShuttingDown
    BY <2>1 DEF CursorStaysValid, Processing, ShuttingDown
  <2>3. NobodyAttacksItself' /\ RemovedStay
    BY <2>1 DEF ListInv, NobodyAttacksItself, IsSelf, RemovedStay, InList
  <2>. QED
    BY <2>1, <2>2, <2>3, SameList
<1>. QED
  BY <1>2, <1>3, <1>4 DEF User, IssueMoveToPoint, IssueTargeted

LEMMA ShutdownList ==
  ASSUME TypeOK, ListInv, LeaveLoop \/ CleanupObject \/ ClearList
  PROVE  ListInv' /\ RemovedStay
<1>1. /\ First # End => InList(First)
      /\ Successor(cursor) # End => InList(Successor(cursor))
  BY NodeInList DEF First, Successor
<1>2. CASE LeaveLoop
  <2>1. obj' = obj /\ objs' = objs /\ ~ShuttingDown /\ cursor' = First
    BY <1>2 DEF LeaveLoop, lists, ShuttingDown
  <2>2. CursorStaysValid'
    BY <1>1, <1>2, <2>1 DEF LeaveLoop, CursorStaysValid, Processing, InList
  <2>3. NobodyAttacksItself' /\ RemovedStay
    BY <2>1 DEF ListInv, NobodyAttacksItself, IsSelf, RemovedStay, InList
  <2>. QED
    BY <2>1, <2>2, <2>3, SameList
<1>3. CASE CleanupObject
  <2>. DEFINE r == [self EXCEPT !.removed = TRUE]
  <2>1. /\ cursor \in DOMAIN obj /\ self = obj[cursor] /\ self \in ObjectType
        /\ objs' = objs /\ ShuttingDown' /\ cursor' = Successor(cursor)
        /\ obj' = [obj EXCEPT ![cursor] = r] /\ pc' = "cleanup"
    BY <1>3, CursorObject DEF CleanupObject, self, lists, ShuttingDown
  <2>2. /\ r.removed /\ r.hp = self.hp /\ r.pos = self.pos
        /\ r.attack = self.attack
    BY <2>1 DEF ObjectType
  <2>. HIDE DEF r
  <2>3. /\ DOMAIN obj' = DOMAIN obj /\ obj'[cursor] = r
        /\ \A x \in DOMAIN obj \ {cursor} : obj'[x] = obj[x]
    BY <2>1
  <2>4. ListIsRoster'
    BY <2>1 DEF ListInv, ListIsRoster
  <2>5. CursorStaysValid'
    BY <1>1, <2>1 DEF CursorStaysValid, Processing, InList
  <2>6. NobodyAttacksItself'
    BY <2>1, <2>2, <2>3 DEF ListInv, NobodyAttacksItself, IsSelf
  <2>7. RemovedStay
    BY <2>1, <2>2, <2>3 DEF RemovedStay, InList
  <2>. QED
    BY <2>4, <2>5, <2>6, <2>7 DEF ListInv
<1>4. CASE ClearList
  <2>1. obj' = obj /\ objs' = <<>> /\ pc' = "exited"
    BY <1>4 DEF ClearList
  <2>2. ToSet(objs') = {} /\ IsInjective(objs')
    BY <2>1 DEF ToSet, IsInjective
  <2>3. ListIsRoster' /\ CursorStaysValid'
    BY <2>1, <2>2 DEF ListIsRoster, ShuttingDown, CursorStaysValid, Processing
  <2>4. NobodyAttacksItself' /\ RemovedStay
    BY <2>1, <2>2 DEF ListInv, NobodyAttacksItself, IsSelf, RemovedStay
  <2>. QED
    BY <2>3, <2>4 DEF ListInv
<1>. QED
  BY <1>2, <1>3, <1>4

LEMMA ListInit == Init => ListInv
<1>. SUFFICES ASSUME Init PROVE ListInv
  OBVIOUS
<1>1. obj = <<>> /\ objs = <<>> /\ pc = "setup"
  BY DEF Init
<1>2. DOMAIN obj = {} /\ ToSet(objs) = {} /\ IsInjective(objs)
  BY <1>1 DEF ToSet, IsInjective
<1>. QED
  BY <1>1, <1>2 DEF ListInv, ListIsRoster, Live, CursorStaysValid, Processing,
                    NobodyAttacksItself

LEMMA ListStep == TypeOK /\ ListInv /\ [Next]_vars => ListInv' /\ [RemovedStay]_vars
<1>. SUFFICES ASSUME TypeOK, ListInv, [Next]_vars
              PROVE  ListInv' /\ (RemovedStay \/ UNCHANGED vars)
  OBVIOUS
<1>1. CASE Loop
  BY <1>1, PlaceList, LoopList, TickList DEF Loop
<1>2. CASE Orders
  BY <1>2, SkipList, OrderList DEF Orders
<1>3. CASE Actions
  BY <1>3, SkipList, MoveList, AttackList DEF Actions
<1>4. CASE Production
  BY <1>4, ProductionList DEF Production
<1>5. CASE Shutdown
  BY <1>5, ShutdownList DEF Shutdown
<1>6. CASE User
  BY <1>6, UserList
<1>7. CASE UNCHANGED vars
  <2>1. obj' = obj /\ objs' = objs /\ pc' = pc /\ cursor' = cursor
    BY <1>7 DEF vars, lists
  <2>2. CursorStaysValid' /\ NobodyAttacksItself'
    BY <2>1 DEF CursorStaysValid, NobodyAttacksItself, ListInv, Processing,
                InList, IsSelf
  <2>. QED
    BY <1>7, <2>1, <2>2, SameList DEF ShuttingDown
<1>. QED
  BY <1>1, <1>2, <1>3, <1>4, <1>5, <1>6, <1>7 DEF Next, Engine, Terminated

-----------------------------------------------------------------------------

LEMMA ListInvHolds == Spec => [](TypeOK /\ ListInv)
<1>1. Init => TypeOK /\ ListInv
  BY InitType, ListInit
<1>2. TypeOK /\ ListInv /\ [Next]_vars => TypeOK' /\ ListInv'
  BY TypeStep, ListStep
<1>. QED
  BY <1>1, <1>2, PTL DEF Spec

(* However objects are created and killed while processObjects walks the    *)
(* list, nobody is listed twice and, until the program shuts down, the list *)
(* holds exactly the objects that have not been cleaned up.                 *)
THEOREM ListIntact == Spec => []ListIsRoster
<1>1. ListInv => ListIsRoster
  BY DEF ListInv
<1>. QED
  BY <1>1, ListInvHolds, PTL

(* The list node processObjects refers to is never removed under it.        *)
THEOREM CursorIntact == Spec => []CursorStaysValid
<1>1. ListInv => CursorStaysValid
  BY DEF ListInv
<1>. QED
  BY <1>1, ListInvHolds, PTL

(* A removed object is never hit, moved, revived or listed again.           *)
THEOREM RemovedForGood == Spec => RemovedIsFinal
<1>1. TypeOK /\ ListInv /\ [Next]_vars => [RemovedStay]_vars
  BY ListStep
<1>. QED
  BY <1>1, ListInvHolds, PTL DEF Spec, RemovedIsFinal

-----------------------------------------------------------------------------
(* The game as a roster: creating an object enlists it, a kill or the       *)
(* shutdown discharges it, and nothing else touches prototypes, owners or   *)
(* supplies.                                                                *)

Posted == [o \in Live |-> [proto |-> obj[o].proto, owner |-> obj[o].owner]]

SamePosts ==
  /\ Len(obj') = Len(obj) /\ DOMAIN obj' = DOMAIN obj /\ supplies' = supplies
  /\ \A o \in DOMAIN obj :
       /\ obj'[o].removed = obj[o].removed /\ obj'[o].proto = obj[o].proto
       /\ obj'[o].owner = obj[o].owner

LEMMA SamePostsStutter == SamePosts => UNCHANGED TheRoster!rosterVars
<1>. SUFFICES ASSUME SamePosts PROVE UNCHANGED TheRoster!rosterVars
  OBVIOUS
<1>1. Live' = Live
  BY DEF SamePosts, Live
<1>2. Posted' = Posted
  BY <1>1 DEF SamePosts, Posted, Live
<1>. QED
  BY <1>2 DEF SamePosts, Posted, TheRoster!rosterVars

LEMMA OnePost ==
  ASSUME TypeOK, NEW o \in DOMAIN obj, NEW r, obj' = [obj EXCEPT ![o] = r],
         r.removed = obj[o].removed, r.proto = obj[o].proto,
         r.owner = obj[o].owner, supplies' = supplies
  PROVE  SamePosts
<1>1. /\ DOMAIN obj' = DOMAIN obj /\ obj'[o] = r
      /\ \A x \in DOMAIN obj \ {o} : obj'[x] = obj[x]
  OBVIOUS
<1>2. Len(obj') = Len(obj)
  BY DEF TypeOK, Population
<1>. QED
  BY <1>1, <1>2 DEF SamePosts

LEMMA NoPost ==
  ASSUME obj' = obj, supplies' = supplies PROVE SamePosts
BY DEF SamePosts

(* Attaching a new object to the neutral player first comes to the same.    *)
LEMMA CreationAttaches ==
  ASSUME supplies \in Ledger, NEW p \in Players, NEW pr \in Proto
  PROVE  SuppliesAfterCreation(pr, p) = Attach(supplies, p, pr)
<1>. DEFINE r == Attr[pr].race
            give == Attr[pr].provided
            take == Attr[pr].required
            one == Attach(supplies, Neutral, pr)
            two == Detach(one, Neutral, pr)
<1>1. r \in Races /\ give \in Int /\ take \in Int
  BY AttrType_of DEF AttrType
<1>. HIDE DEF r, give, take
<1>2. /\ one = [supplies EXCEPT ![Neutral][r] =
                 [cur |-> @.cur + give, use |-> @.use + take]]
      /\ two = [one EXCEPT ![Neutral][r] =
                 [cur |-> @.cur - give, use |-> @.use - take]]
  BY DEF Attach, Detach, r, give, take
<1>3. one \in Ledger /\ two \in Ledger
  BY LedgerType, NeutralAssumption
<1>4. two[Neutral][r] = supplies[Neutral][r]
  <2>1. supplies[Neutral][r] \in Counter
    BY <1>1, NeutralAssumption DEF Ledger
  <2>. DEFINE c == supplies[Neutral][r]
  <2>2. one[Neutral][r] = [cur |-> c.cur + give, use |-> c.use + take]
    BY <1>1, <1>2, NeutralAssumption DEF Ledger
  <2>3. two[Neutral][r] = [cur |-> (c.cur + give) - give,
                           use |-> (c.use + take) - take]
    BY <1>1, <1>2, <1>3, <2>2, NeutralAssumption DEF Ledger
  <2>4. c.cur \in Int /\ c.use \in Int /\ c = [cur |-> c.cur, use |-> c.use]
    BY <2>1 DEF Counter
  <2>. HIDE DEF c
  <2>5. (c.cur + give) - give = c.cur /\ (c.use + take) - take = c.use
    BY <1>1, <2>4
  <2>. QED
    BY <2>3, <2>4, <2>5 DEF c
<1>5. \A q \in Players, s \in Races : two[q][s] = supplies[q][s]
  <2>. HIDE DEF one, two
  <2>1. ASSUME NEW q \in Players, NEW s \in Races, q # Neutral \/ s # r
        PROVE  two[q][s] = supplies[q][s]
    <3>1. one[q][s] = supplies[q][s]
      BY <1>1, <1>2, <2>1, NeutralAssumption DEF Ledger
    <3>2. two[q][s] = one[q][s]
      BY <1>1, <1>2, <1>3, <2>1, NeutralAssumption DEF Ledger
    <3>. QED
      BY <3>1, <3>2
  <2>. QED
    BY <1>4, <2>1
<1>6. two = supplies
  <2>. HIDE DEF two
  <2>1. \A q \in Players : two[q] = supplies[q]
    BY <1>3, <1>5 DEF Ledger
  <2>. QED
    BY <1>3, <2>1 DEF Ledger
<1>. QED
  BY <1>6 DEF SuppliesAfterCreation, ChangeOwner

LEMMA EnlistsOne ==
  ASSUME TypeOK, NEW s \in Seq(ObjectType), DOMAIN s = DOMAIN obj,
         Len(s) = Len(obj),
         \A o \in DOMAIN obj :
           /\ s[o].removed = obj[o].removed /\ s[o].proto = obj[o].proto
           /\ s[o].owner = obj[o].owner,
         NEW pr \in Proto, NEW p \in Players, NEW r \in ObjectType,
         r.proto = pr, r.owner = p, ~r.removed, obj' = Append(s, r),
         supplies' = SuppliesAfterCreation(pr, p)
  PROVE  TheRoster!RosterNext
<1>. DEFINE n == Len(obj) + 1
<1>1. Len(obj) \in Nat /\ DOMAIN obj = 1 .. Len(obj) /\ n \notin DOMAIN obj
  BY LenProperties DEF TypeOK, Population
<1>2. /\ DOMAIN obj' = DOMAIN obj \union {n} /\ obj'[n] = r /\ Len(obj') = n
      /\ \A o \in DOMAIN obj : obj'[o] = s[o]
  BY <1>1, AppendProperties, LenProperties
<1>3. Live' = Live \union {n} /\ n \notin Live
  BY <1>1, <1>2 DEF Live
<1>. HIDE DEF n
<1>4. Posted' = [o \in DOMAIN Posted \union {n} |->
                   IF o \in DOMAIN Posted THEN Posted[o]
                   ELSE [proto |-> pr, owner |-> p]]
  <2>1. DOMAIN Posted = Live
    BY DEF Posted
  <2>2. \A o \in Live : /\ obj'[o].proto = obj[o].proto
                        /\ obj'[o].owner = obj[o].owner
    BY <1>2 DEF Live
  <2>3. Posted' = [o \in Live \union {n} |->
                     [proto |-> obj'[o].proto, owner |-> obj'[o].owner]]
    BY <1>3 DEF Posted
  <2>. QED
    BY <1>2, <1>3, <2>1, <2>2, <2>3 DEF Posted
<1>5. supplies' = Attach(supplies, p, pr)
  BY CreationAttaches DEF TypeOK, ControlOK, Ledger
<1>6. TheRoster!Enlist(pr, p)
  BY <1>2, <1>4, <1>5 DEF TheRoster!Enlist, TheRoster!Attach, Attach, Posted, n
<1>. QED
  BY <1>6 DEF TheRoster!RosterNext

LEMMA DischargesOne ==
  ASSUME TypeOK, NEW t \in Live, Len(obj') = Len(obj), DOMAIN obj' = DOMAIN obj,
         obj'[t].removed,
         \A o \in DOMAIN obj \ {t} :
           /\ obj'[o].removed = obj[o].removed /\ obj'[o].proto = obj[o].proto
           /\ obj'[o].owner = obj[o].owner,
         supplies' = Detach(supplies, obj[t].owner, obj[t].proto)
  PROVE  TheRoster!RosterNext
<1>1. Live' = Live \ {t}
  BY DEF Live
<1>2. Posted' = [o \in DOMAIN Posted \ {t} |-> Posted[o]]
  <2>1. \A o \in Live \ {t} : /\ obj'[o].proto = obj[o].proto
                              /\ obj'[o].owner = obj[o].owner
    BY DEF Live
  <2>2. Posted' = [o \in Live \ {t} |->
                     [proto |-> obj'[o].proto, owner |-> obj'[o].owner]]
    BY <1>1 DEF Posted
  <2>. QED
    BY <2>1, <2>2 DEF Posted
<1>3. t \in DOMAIN Posted /\ Posted[t].owner = obj[t].owner
      /\ Posted[t].proto = obj[t].proto
  BY DEF Posted
<1>4. TheRoster!Discharge(t)
  BY <1>2, <1>3 DEF TheRoster!Discharge, TheRoster!Detach, Detach, Posted
<1>. QED
  BY <1>3, <1>4 DEF TheRoster!RosterNext, Posted

LEMMA PlaceEnlists ==
  ASSUME TypeOK, Place PROVE TheRoster!RosterNext
<1>. DEFINE s == Scenario[Len(obj) + 1]
            f == Fresh(s.proto, s.owner, s.at)
            r == [f EXCEPT !.order = s.order]
<1>1. /\ Len(obj) + 1 \in DOMAIN Scenario /\ obj \in Seq(ObjectType)
  BY LenProperties, ScenarioAssumption DEF Place, TypeOK, Population
<1>2. s \in Placement
  BY <1>1, ScenarioAssumption
<1>3. obj' = Append(obj, r) /\ supplies' = SuppliesAfterCreation(s.proto, s.owner)
  BY DEF Place
<1>. HIDE DEF s
<1>6. /\ s.proto \in Proto /\ s.owner \in Players /\ s.at \in Int
      /\ s.order \in OrderType
  BY <1>2 DEF Placement
<1>4. f \in ObjectType /\ ~f.removed /\ f.proto = s.proto /\ f.owner = s.owner
  BY <1>6, FreshType DEF Linked, Fresh
<1>5. r \in ObjectType /\ ~r.removed /\ r.proto = s.proto /\ r.owner = s.owner
  BY <1>4, <1>6 DEF ObjectType
<1>. HIDE DEF r
<1>. QED
  BY <1>1, <1>3, <1>5, <1>6, EnlistsOne

LEMMA TickPosts == ASSUME TypeOK, Tick PROVE SamePosts
<1>1. /\ DOMAIN obj' = DOMAIN obj /\ supplies' = supplies
      /\ \A o \in DOMAIN obj : obj'[o] = Aged(obj[o], delta')
  BY DEF Tick
<1>2. Len(obj') = Len(obj)
  BY <1>1, TickType, LenProperties DEF TypeOK, Population
<1>3. ASSUME NEW o \in DOMAIN obj
      PROVE  /\ obj'[o].removed = obj[o].removed
             /\ obj'[o].proto = obj[o].proto /\ obj'[o].owner = obj[o].owner
  <2>1. obj[o] \in ObjectType
    BY DEF TypeOK, Population
  <2>. DEFINE r == obj[o]
              a == IF r.attack.active THEN r.attack.age + delta' ELSE r.attack.age
              q == [i \in DOMAIN r.queue |-> Older(r.queue[i], delta')]
              k == [r.attack EXCEPT !.age = a]
              s == [r EXCEPT !.attack = k, !.queue = q]
  <2>2. Aged(r, delta') = IF r.removed THEN r ELSE s
    BY <2>1 DEF Aged, ObjectType, AttackType
  <2>. HIDE DEF a, q, k
  <2>3. s.removed = r.removed /\ s.proto = r.proto /\ s.owner = r.owner
    BY <2>1 DEF ObjectType
  <2>. HIDE DEF s
  <2>. QED
    BY <1>1, <2>2, <2>3
<1>. QED
  BY <1>1, <1>2, <1>3 DEF SamePosts

LEMMA OrderPosts ==
  ASSUME TypeOK, Orders PROVE SamePosts
<1>1. pc = "order" /\ cursor # End
  BY DEF Orders, NoOrderToProcess, MoveOrder, AttackStep, AttackOrderStart,
         AttackOrderGo, AttackOrderArrive, AttackOrderAttack,
         AttackOrderFollow, TypeOK, ControlOK, Processing
<1>2. cursor \in DOMAIN obj /\ self = obj[cursor] /\ self \in ObjectType
  BY <1>1, CursorObject DEF self
<1>3. ASSUME NEW m, NEW a, NEW n, NEW order, NEW r,
             r \in {self, [self EXCEPT !.move = m], [self EXCEPT !.order.step = n],
                    [self EXCEPT !.move = m, !.order.step = n],
                    [self EXCEPT !.attack = a, !.order.step = n]},
             ContinueWith(r)
      PROVE  SamePosts
  <2>1. /\ r.removed = self.removed /\ r.proto = self.proto
        /\ r.owner = self.owner
    BY <1>2, <1>3 DEF ObjectType
  <2>. QED
    BY <1>2, <1>3, <2>1, OnePost DEF ContinueWith
<1>4. ASSUME FinishOrder PROVE SamePosts
  <2>. DEFINE r == [self EXCEPT !.order = NoOrder, !.move = NoMove,
                                !.attack = NoAttack]
  <2>1. /\ r.removed = self.removed /\ r.proto = self.proto
        /\ r.owner = self.owner
    BY <1>2 DEF ObjectType
  <2>2. obj' = [obj EXCEPT ![cursor] = r] /\ supplies' = supplies
    BY <1>2, <1>4 DEF FinishOrder
  <2>. HIDE DEF r
  <2>. QED
    BY <1>2, <2>1, <2>2, OnePost
<1>5. CASE NoOrderToProcess
  BY <1>5, NoPost DEF NoOrderToProcess
<1>6. CASE MoveOrder
  BY <1>3, <1>4, <1>6 DEF MoveOrder
<1>7. CASE AttackOrderStart
  BY <1>3, <1>4, <1>7 DEF AttackOrderStart
<1>8. CASE AttackOrderGo
  BY <1>3, <1>8 DEF AttackOrderGo
<1>9. CASE AttackOrderArrive
  BY <1>3, <1>4, <1>9 DEF AttackOrderArrive
<1>10. CASE AttackOrderAttack
  BY <1>3, <1>4, <1>10 DEF AttackOrderAttack
<1>11. CASE AttackOrderFollow
  BY <1>3, <1>4, <1>11 DEF AttackOrderFollow
<1>. QED
  BY <1>5, <1>6, <1>7, <1>8, <1>9, <1>10, <1>11 DEF Orders

LEMMA ActionPosts ==
  ASSUME TypeOK, ListInv, Actions PROVE SamePosts \/ TheRoster!RosterNext
<1>1. CASE NoMoveAction \/ NoAttackAction
  BY <1>1, NoPost DEF NoMoveAction, NoAttackAction
<1>2. cursor # End /\ Processing
  BY DEF Actions, NoMoveAction, MoveAction, NoAttackAction, AttackAction,
         TypeOK, ControlOK, Processing
<1>3. cursor \in DOMAIN obj /\ self = obj[cursor] /\ self \in ObjectType
  BY <1>2, CursorObject DEF self
<1>4. CASE MoveAction
  <2>1. PICK x, m : Moved(self, x, m)
    BY Zenon, <1>4 DEF MoveAction
  <2>. DEFINE r == [self EXCEPT !.pos = x, !.move = m]
  <2>2. obj' = [obj EXCEPT ![cursor] = r] /\ supplies' = supplies
    BY <2>1 DEF Moved
  <2>3. r.removed = self.removed /\ r.proto = self.proto /\ r.owner = self.owner
    BY <1>3 DEF ObjectType
  <2>. HIDE DEF r
  <2>. QED
    BY <1>3, <2>2, <2>3, OnePost
<1>5. CASE AttackAction
  <2>. DEFINE t == self.attack.target.obj
  <2>1. \/ EndAttack \/ Wait \/ Wound(t)
        \/ CanAttack(cursor, t) /\ Kill(t)
    BY Zenon, <1>5 DEF AttackAction
  <2>2. t \in DOMAIN obj /\ obj[t] \in ObjectType
    BY <1>5, AttackTarget DEF TypeOK, Population
  <2>3. CASE EndAttack
    <3>. DEFINE r == [self EXCEPT !.attack = NoAttack]
    <3>1. obj' = [obj EXCEPT ![cursor] = r] /\ supplies' = supplies
      BY <1>3, <2>3 DEF EndAttack
    <3>2. r.removed = self.removed /\ r.proto = self.proto /\ r.owner = self.owner
      BY <1>3 DEF ObjectType
    <3>. HIDE DEF r
    <3>. QED
      BY <1>3, <3>1, <3>2, OnePost
  <2>4. CASE Wait
    BY <2>4, NoPost DEF Wait
  <2>5. ASSUME NEW h, NEW b, NEW k,
               obj' = [[obj EXCEPT ![t] = [obj[t] EXCEPT !.hp = h, !.removed = b]]
                         EXCEPT ![cursor] = [@ EXCEPT !.attack = k]]
        PROVE  /\ DOMAIN obj' = DOMAIN obj /\ Len(obj') = Len(obj)
               /\ obj'[t].removed = b
               /\ \A o \in DOMAIN obj :
                    /\ o # t => obj'[o].removed = obj[o].removed
                    /\ obj'[o].proto = obj[o].proto
                    /\ obj'[o].owner = obj[o].owner
    <3>. DEFINE r == [obj[t] EXCEPT !.hp = h, !.removed = b]
                mid == [obj EXCEPT ![t] = r]
                c == [mid[cursor] EXCEPT !.attack = k]
    <3>1. r.removed = b /\ r.proto = obj[t].proto /\ r.owner = obj[t].owner
      BY <2>2 DEF ObjectType
    <3>2. /\ DOMAIN mid = DOMAIN obj /\ mid[t] = r
          /\ \A o \in DOMAIN obj \ {t} : mid[o] = obj[o]
      BY <2>2
    <3>3. /\ DOMAIN obj' = DOMAIN obj /\ obj'[cursor] = c
          /\ \A o \in DOMAIN obj \ {cursor} : obj'[o] = mid[o]
      BY <1>3, <2>5, <3>2
    <3>4. /\ c.removed = mid[cursor].removed /\ c.proto = mid[cursor].proto
          /\ c.owner = mid[cursor].owner
      <4>1. mid[cursor] = r \/ mid[cursor] = self
        BY <1>3, <3>2
      <4>. QED
        BY <1>3, <2>2, <4>1 DEF ObjectType
    <3>. HIDE DEF mid, r, c
    <3>5. Len(obj') = Len(obj)
      <4>1. obj \in Seq(ObjectType) /\ DOMAIN obj = 1 .. Len(obj) /\ Len(obj) \in Nat
        BY LenProperties DEF TypeOK, Population
      <4>2. DOMAIN obj' = 1 .. Len(obj)
        BY <3>3, <4>1
      <4>3. obj' \in Seq(ObjectType)
        BY <1>5, AttackActionType DEF TypeOK, Population
      <4>. QED
        BY <4>1, <4>2, <4>3, LenProperties
    <3>. QED
      BY <2>2, <3>1, <3>2, <3>3, <3>4, <3>5
  <2>6. CASE Wound(t)
    <3>. DEFINE h == obj[t].hp - Attacks(cursor) * NetDamage(cursor, t)
                k == [self.attack EXCEPT !.age = 0]
    <3>1. obj' = [[obj EXCEPT ![t] = [obj[t] EXCEPT !.hp = h, !.removed = obj[t].removed]]
                    EXCEPT ![cursor] = [@ EXCEPT !.attack = k]]
      BY <1>3, <2>2, <2>6 DEF Wound, ObjectType
    <3>. HIDE DEF h, k
    <3>2. supplies' = supplies
      BY <2>6 DEF Wound
    <3>3. /\ DOMAIN obj' = DOMAIN obj /\ Len(obj') = Len(obj)
          /\ obj'[t].removed = obj[t].removed
          /\ \A o \in DOMAIN obj :
               /\ o # t => obj'[o].removed = obj[o].removed
               /\ obj'[o].proto = obj[o].proto /\ obj'[o].owner = obj[o].owner
      BY Zenon, <2>5, <3>1
    <3>. QED
      BY <3>2, <3>3 DEF SamePosts
  <2>7. CASE CanAttack(cursor, t) /\ Kill(t)
    <3>. DEFINE h == obj[t].hp - Min(KillingHits(cursor, t)) * NetDamage(cursor, t)
    <3>1. obj' = [[obj EXCEPT ![t] = [obj[t] EXCEPT !.hp = h, !.removed = TRUE]]
                    EXCEPT ![cursor] = [@ EXCEPT !.attack = NoAttack]]
      BY <1>3, <2>2, <2>7 DEF Kill, ObjectType
    <3>. HIDE DEF h
    <3>2. t \in Live /\ supplies' = Detach(supplies, obj[t].owner, obj[t].proto)
      BY <2>2, <2>7 DEF CanAttack, Live, Kill, SuppliesAfterCleanup
    <3>3. /\ DOMAIN obj' = DOMAIN obj /\ Len(obj') = Len(obj) /\ obj'[t].removed
          /\ \A o \in DOMAIN obj \ {t} :
               /\ obj'[o].removed = obj[o].removed
               /\ obj'[o].proto = obj[o].proto /\ obj'[o].owner = obj[o].owner
      BY <2>5, <3>1
    <3>. QED
      BY <3>2, <3>3, DischargesOne
  <2>. QED
    BY <2>1, <2>3, <2>4, <2>6, <2>7
<1>. QED
  BY <1>1, <1>4, <1>5 DEF Actions

LEMMA ProductionPosts ==
  ASSUME TypeOK, Production PROVE SamePosts \/ TheRoster!RosterNext
<1>1. cursor # End
  BY DEF Production, NoProduction, Working, Produce, TypeOK, ControlOK, Processing
<1>2. cursor \in DOMAIN obj /\ self = obj[cursor] /\ self \in ObjectType
  BY <1>1, CursorObject DEF self
<1>3. ASSUME NEW q, obj' = [obj EXCEPT ![cursor] =
                             [self EXCEPT !.secondary = FALSE, !.queue = q]],
             supplies' = supplies
      PROVE  SamePosts
  <2>. DEFINE r == [self EXCEPT !.secondary = FALSE, !.queue = q]
  <2>1. r.removed = self.removed /\ r.proto = self.proto /\ r.owner = self.owner
    BY <1>2 DEF ObjectType
  <2>2. obj' = [obj EXCEPT ![cursor] = r]
    BY <1>3
  <2>. HIDE DEF r
  <2>. QED
    BY <1>2, <1>3, <2>1, <2>2, OnePost
<1>4. CASE NoProduction
  <2>1. obj' = [obj EXCEPT ![cursor] = [self EXCEPT !.secondary = FALSE,
                                                    !.queue = self.queue]]
    BY <1>2, <1>4 DEF NoProduction, ObjectType
  <2>. QED
    BY <1>3, <1>4, <2>1 DEF NoProduction
<1>5. CASE Working
  BY <1>3, <1>5 DEF Working
<1>6. CASE Produce
  <2>. DEFINE pr == Head(self.queue).what
              q == Tail(self.queue)
              k == [self EXCEPT !.secondary = FALSE, !.queue = q]
              s == [obj EXCEPT ![cursor] = k]
              f == Fresh(pr, self.owner, self.pos)
  <2>1. /\ pr \in Proto /\ q \in Seq(Job) /\ self.owner \in Players
        /\ self.pos \in Int
    <3>1. self.queue \in Seq(Job) /\ self.queue # <<>>
      BY <1>2, <1>6 DEF ObjectType, Produce
    <3>2. Head(self.queue) \in Job /\ q \in Seq(Job)
      BY <3>1, HeadTailProperties
    <3>. QED
      BY <1>2, <3>2 DEF Job, ObjectType
  <2>2. obj' = Append(s, f) /\ supplies' = SuppliesAfterCreation(pr, self.owner)
    BY <1>6 DEF Produce
  <2>. HIDE DEF pr, q
  <2>3. /\ k \in ObjectType /\ k.removed = self.removed
        /\ k.proto = self.proto /\ k.owner = self.owner
    BY <1>2, <2>1 DEF ObjectType
  <2>. HIDE DEF k
  <2>4. /\ s \in Seq(ObjectType) /\ DOMAIN s = DOMAIN obj /\ Len(s) = Len(obj)
        /\ \A o \in DOMAIN obj :
             /\ s[o].removed = obj[o].removed /\ s[o].proto = obj[o].proto
             /\ s[o].owner = obj[o].owner
    <3>1. obj \in Seq(ObjectType) /\ DOMAIN obj = 1 .. Len(obj)
      BY LenProperties DEF TypeOK, Population
    <3>2. s \in Seq(ObjectType) /\ Len(s) = Len(obj)
      BY <1>2, <2>3, <3>1, ExceptSeq
    <3>. QED
      BY <1>2, <2>3, <3>1, <3>2, LenProperties
  <2>. HIDE DEF s
  <2>5. f \in ObjectType /\ ~f.removed /\ f.proto = pr /\ f.owner = self.owner
    BY <2>1, FreshType DEF Linked, Fresh
  <2>. HIDE DEF f
  <2>. QED
    BY <2>1, <2>2, <2>4, <2>5, EnlistsOne
<1>. QED
  BY <1>4, <1>5, <1>6 DEF Production

LEMMA UserPosts == ASSUME TypeOK, User PROVE SamePosts
<1>1. \A o \in DOMAIN obj : obj[o] \in ObjectType
  BY DEF TypeOK, Population
<1>2. ASSUME NEW o \in DOMAIN obj, NEW order, DoOrder(o, order) PROVE SamePosts
  <2>. DEFINE r == [obj[o] EXCEPT !.order = order, !.move = NoMove,
                                  !.attack = NoAttack]
  <2>1. /\ r.removed = obj[o].removed /\ r.proto = obj[o].proto
        /\ r.owner = obj[o].owner
    BY <1>1 DEF ObjectType
  <2>2. obj' = [obj EXCEPT ![o] = r] /\ supplies' = supplies
    BY <1>2 DEF DoOrder
  <2>. HIDE DEF r
  <2>. QED
    BY <2>1, <2>2, OnePost
<1>3. ASSUME NEW o \in DOMAIN obj, IssueProduce(o) PROVE SamePosts
  <2>1. PICK q : obj' = [obj EXCEPT ![o] =
                          [obj[o] EXCEPT !.secondary = TRUE, !.queue = q]]
    BY <1>3 DEF IssueProduce
  <2>. DEFINE r == [obj[o] EXCEPT !.secondary = TRUE, !.queue = q]
  <2>2. /\ r.removed = obj[o].removed /\ r.proto = obj[o].proto
        /\ r.owner = obj[o].owner
    BY <1>1 DEF ObjectType
  <2>3. obj' = [obj EXCEPT ![o] = r] /\ supplies' = supplies
    BY <1>3, <2>1 DEF IssueProduce
  <2>. HIDE DEF r
  <2>. QED
    BY <2>2, <2>3, OnePost
<1>4. CASE Quit
  BY <1>4, NoPost DEF Quit
<1>. QED
  BY <1>2, <1>3, <1>4 DEF User, IssueMoveToPoint, IssueTargeted

LEMMA ShutdownPosts ==
  ASSUME TypeOK, Shutdown PROVE SamePosts \/ TheRoster!RosterNext
<1>1. CASE LeaveLoop \/ ClearList
  BY <1>1, NoPost DEF LeaveLoop, ClearList
<1>2. CASE CleanupObject
  <2>. DEFINE r == [self EXCEPT !.removed = TRUE]
  <2>1. cursor \in DOMAIN obj /\ self = obj[cursor] /\ self \in ObjectType
    BY <1>2, CursorObject DEF CleanupObject, self
  <2>2. obj' = [obj EXCEPT ![cursor] = r]
    BY <1>2, <2>1 DEF CleanupObject
  <2>3. r.removed /\ r.proto = self.proto /\ r.owner = self.owner
    BY <2>1 DEF ObjectType
  <2>. HIDE DEF r
  <2>4. CASE self.removed
    <3>1. supplies' = supplies
      BY <1>2, <2>1, <2>4 DEF CleanupObject, SuppliesAfterCleanup
    <3>2. r.removed = self.removed
      BY <2>1, <2>3, <2>4 DEF ObjectType, r
    <3>. QED
      BY <2>1, <2>2, <2>3, <3>1, <3>2, OnePost
  <2>5. CASE ~self.removed
    <3>1. /\ cursor \in Live
          /\ supplies' = Detach(supplies, self.owner, self.proto)
      BY <1>2, <2>1, <2>5 DEF CleanupObject, SuppliesAfterCleanup, Live
    <3>2. /\ DOMAIN obj' = DOMAIN obj /\ Len(obj') = Len(obj)
          /\ obj'[cursor] = r
          /\ \A o \in DOMAIN obj \ {cursor} : obj'[o] = obj[o]
      BY <2>1, <2>2 DEF TypeOK, Population
    <3>. QED
      BY <2>1, <2>3, <3>1, <3>2, DischargesOne
  <2>. QED
    BY <2>4, <2>5
<1>. QED
  BY <1>1, <1>2 DEF Shutdown

LEMMA RosterStep ==
  TypeOK /\ ListInv /\ [Next]_vars => [TheRoster!RosterNext]_TheRoster!rosterVars
<1>. SUFFICES ASSUME TypeOK, ListInv, [Next]_vars
              PROVE  SamePosts \/ TheRoster!RosterNext
  BY SamePostsStutter
<1>1. CASE Loop
  BY <1>1, PlaceEnlists, TickPosts, NoPost
     DEF Loop, StartLoop, StartFrame, FinishFrame, SkipProcessed, BeginObject,
         Restart, Proceed
<1>2. CASE UNCHANGED vars
  BY <1>2, NoPost DEF vars
<1>. QED
  BY <1>1, <1>2, OrderPosts, ActionPosts, ProductionPosts, ShutdownPosts,
     UserPosts DEF Next, Engine, Terminated

LEMMA RosterBegins == Init => TheRoster!RosterInit
<1>. SUFFICES ASSUME Init PROVE TheRoster!RosterInit
  OBVIOUS
<1>1. obj = <<>> /\ supplies = NoSupplies
  BY DEF Init
<1>2. Live = {} /\ Len(obj) = 0
  BY <1>1 DEF Live
<1>3. Posted = <<>>
  BY <1>2 DEF Posted
<1>. QED
  BY <1>1, <1>2, <1>3 DEF TheRoster!RosterInit, Posted, NoSupplies,
                          TheRoster!NoSupplies

(* The game implements the roster: whatever happens in its loop, objects    *)
(* enter it once with their share of the supplies and leave it once with    *)
(* the same share.                                                          *)
THEOREM GameKeepsRoster == Spec => ImplementsRoster
<1>1. TypeOK /\ ListInv /\ [Next]_vars
        => [TheRoster!RosterNext]_TheRoster!rosterVars
  BY RosterStep
<1>. QED
  BY <1>1, RosterBegins, ListInvHolds, PTL
     DEF Spec, ImplementsRoster, TheRoster!RosterSpec

-----------------------------------------------------------------------------
(* What is proved of every roster holds of the game.                        *)

Books ==
  INSTANCE RosterProofs WITH
    enlisted <- Len(obj),
    post <- [o \in Live |-> [proto |-> obj[o].proto, owner |-> obj[o].owner]]

BooksInOrder == Books!Accounts

LEMMA BooksOpen == TheRoster!RosterInit => Books!RosterInit
BY DEF TheRoster!RosterInit, Books!RosterInit, TheRoster!NoSupplies,
       Books!NoSupplies

LEMMA BooksStep ==
  [TheRoster!RosterNext]_TheRoster!rosterVars => [Books!RosterNext]_Books!rosterVars
<1>1. ASSUME NEW pr, NEW p, TheRoster!Enlist(pr, p) PROVE Books!Enlist(pr, p)
  BY <1>1, Zenon DEF TheRoster!Enlist, Books!Enlist, TheRoster!Attach, Books!Attach
<1>2. ASSUME NEW o, TheRoster!Discharge(o) PROVE Books!Discharge(o)
  BY <1>2, Zenon DEF TheRoster!Discharge, Books!Discharge, TheRoster!Detach,
                     Books!Detach
<1>3. TheRoster!RosterNext => Books!RosterNext
  BY <1>1, <1>2, Zenon DEF TheRoster!RosterNext, Books!RosterNext
<1>4. UNCHANGED TheRoster!rosterVars => UNCHANGED Books!rosterVars
  BY Zenon DEF TheRoster!rosterVars, Books!rosterVars
<1>. QED
  BY <1>3, <1>4

LEMMA BooksLedger == BooksInOrder => SuppliesExact
<1>1. TheRoster!Provided = Books!Provided /\ TheRoster!Required = Books!Required
  BY Zenon DEF TheRoster!Provided, Books!Provided, TheRoster!Required, Books!Required
<1>2. \A p, r : TheRoster!Held(p, r) = Books!Held(p, r)
  BY Zenon DEF TheRoster!Held, Books!Held
<1>3. \A f, S : TheRoster!SumFunctionOnSet(f, S) = Books!SumFunctionOnSet(f, S)
  BY Zenon DEF TheRoster!SumFunctionOnSet, Books!SumFunctionOnSet,
               TheRoster!FoldFunctionOnSet, Books!FoldFunctionOnSet,
               TheRoster!MapThenFoldSet, Books!MapThenFoldSet
<1>. QED
  BY <1>1, <1>2, <1>3 DEF BooksInOrder, Books!Accounts, SuppliesExact,
                          TheRoster!LedgerExact, Books!LedgerExact

LEMMA GameKeepsBooks == ImplementsRoster => []BooksInOrder
<1>1. TheRoster!RosterInit => BooksInOrder
  BY BooksOpen, Books!AccountsOpen, SuppliesAssumption DEF BooksInOrder
<1>2. BooksInOrder /\ [TheRoster!RosterNext]_TheRoster!rosterVars => BooksInOrder'
  BY BooksStep, Books!AccountsStep, SuppliesAssumption DEF BooksInOrder
<1>. QED
  BY <1>1, <1>2, PTL DEF ImplementsRoster, TheRoster!RosterSpec

(* At every moment of the game, also in the middle of a frame and of the    *)
(* shutdown, the supply counters of every player and race are the sums over *)
(* the objects the player has in the game.                                  *)
THEOREM SuppliesNeverDrift == Spec => []SuppliesExact
BY GameKeepsRoster, GameKeepsBooks, BooksLedger, PTL

=============================================================================
