-------------------------------- MODULE Game --------------------------------
(***************************************************************************)
(* The game loop of JucheCraft and the objects it processes: Game::run,    *)
(* Game::processObjects, Object::processFrame with the orders and actions  *)
(* it drives, the production queue, creation and removal of objects, and   *)
(* the orders the user interface issues between two frames.                *)
(*                                                                         *)
(* The program is single-threaded.  The handlers run one after the other   *)
(* under the control variable pc; what is nondeterministic is the user,    *)
(* the clock and the uninitialised clock value of the first frame.         *)
(*                                                                         *)
(* An object is named by the position of its creation: obj[o] is the       *)
(* o-th object created.  std::shared_ptr keeps removed objects alive as    *)
(* long as an order or a selection refers to them, so obj keeps them too.  *)
(***************************************************************************)
EXTENDS Movement, Supplies, SequencesExt

CONSTANTS
  Neutral,     \* Player::NeutralPlayer
  Scenario,    \* the objects Game::test_tmp1 places, in order
  Deltas,      \* the lengths of a frame: end_time - start_time
  StaleAges,   \* what m_cached_elapsed_time, not yet set, can amount to
  Points,      \* the map coordinates the user clicks on
  PixelSize,   \* grid points per integral coordinate
  BuildTime,   \* ProductionInfo::m_time as the user interface sets it
  MaxOrders,   \* bound: orders the user issues
  MaxJobs      \* bound: production jobs the user issues

AttrType ==
  [race: Races, invincible: BOOLEAN, maxHP: Int, provided: Int, required: Int,
   armor: Int, damage: Int, speed: Int, period: Nat \ {0}, range: Int,
   radius: Int]

(* The value of MovementFlags::AutomaticallyAttack.                         *)
AutomaticallyAttack == 1

(* The end() iterator of the object list and a null ObjectPtr.              *)
End == 0

-----------------------------------------------------------------------------
(* Targets, orders, actions, production jobs, objects.                      *)

Target == [type: {"None", "Coordinate", "Object"}, coord: Int, obj: Nat]
NoTarget == [type |-> "None", coord |-> 0, obj |-> 0]
ToCoordinate(x) == [type |-> "Coordinate", coord |-> x, obj |-> 0]
ToObject(o) == [type |-> "Object", coord |-> 0, obj |-> o]

(* step is m_state.step; 100 waits for the move towards a coordinate.       *)
OrderType == [kind: {"None", "Move", "Attack"}, target: Target,
              step: {0, 1, 2, 100}]
NoOrder == [kind |-> "None", target |-> NoTarget, step |-> 0]
NewOrder(kind, target) == [kind |-> kind, target |-> target, step |-> 0]

(* Entries of m_actions; active = FALSE is an absent entry.                 *)
MoveType == [active: BOOLEAN, target: Target, minDist: Int, start: Int,
             dest: Int]
NoMove == [active |-> FALSE, target |-> NoTarget, minDist |-> 0,
           start |-> 0, dest |-> 0]

(* age is the cached clock minus m_last_attack_time.                        *)
AttackType == [active: BOOLEAN, target: Target, age: Int]
NoAttack == [active |-> FALSE, target |-> NoTarget, age |-> 0]

(* age is the cached clock minus started_time, once started.                *)
Job == [what: Proto, started: BOOLEAN, age: Int]

ObjectType ==
  [proto: Proto, owner: Players, hp: Int, pos: Int, removed: BOOLEAN,
   order: OrderType, move: MoveType, attack: AttackType,
   secondary: BOOLEAN, queue: Seq(Job)]

Placement == [proto: Proto, owner: Players, at: Int, order: OrderType]

ASSUME AttrAssumption == Attr \in [Proto -> AttrType]
ASSUME NeutralAssumption == Neutral \in Players
ASSUME ScenarioAssumption ==
  /\ Scenario \in Seq(Placement)
  /\ \A i \in DOMAIN Scenario :
       Scenario[i].order.target.type = "Object"
         => Scenario[i].order.target.obj \in 1 .. (i - 1)
ASSUME ClockAssumption == Deltas \subseteq Int /\ StaleAges \subseteq Int
ASSUME PointsAssumption == Points \subseteq Int
ASSUME PixelAssumption == PixelSize \in Nat \ {0}
ASSUME BoundsAssumption ==
  BuildTime \in Nat /\ MaxOrders \in Nat /\ MaxJobs \in Nat

VARIABLES
  obj,          \* the objects created so far
  objs,         \* m_objects: the list of the objects in the game
  invalidated,  \* m_iterator_invalidated of that list
  supplies,     \* the supply counters of the players
  pc,           \* the handler that runs next
  cursor,       \* the list node the iterator of the running loop is at
  processed,    \* processed_objs of Game::processObjects
  delta,        \* m_deltat
  clockSet,     \* m_cached_elapsed_time has been assigned
  ended,        \* m_is_game_ended
  nOrders,      \* orders issued by the user, for MaxOrders
  nJobs         \* jobs issued by the user, for MaxJobs

lists == <<objs, invalidated>>
clock == <<delta, clockSet>>
input == <<ended, nOrders, nJobs>>
vars == <<obj, lists, supplies, pc, cursor, processed, clock, input>>

InList(o) == o \in ToSet(objs)
AttrOf(o) == Attr[obj[o].proto]

NodeAt(i) == IF i \in DOMAIN objs THEN objs[i] ELSE End
First == NodeAt(1)
Successor(o) ==
  NodeAt((CHOOSE i \in DOMAIN objs : objs[i] = o) + 1)

-----------------------------------------------------------------------------
(* Creation and removal of objects.                                         *)

(* The object Object::Object, clone and Object::init make, after the caller *)
(* has changed its owner and set its position.                              *)
Fresh(pr, p, x) ==
  [proto |-> pr, owner |-> p, hp |-> Attr[pr].maxHP, pos |-> x,
   removed |-> FALSE, order |-> NoOrder, move |-> NoMove,
   attack |-> NoAttack, secondary |-> FALSE, queue |-> <<>>]

(* Mutant: changeOwner forgets to detach the object from the old owner.     *)
KeepsOldOwner(pr, p) == Attach(Attach(supplies, Neutral, pr), p, pr)

(* Game::newObject attaches the object to the neutral player, changeOwner   *)
(* then hands it over.                                                      *)
SuppliesAfterCreation(pr, p) ==
  ChangeOwner(Attach(supplies, Neutral, pr), Neutral, p, pr)

(* ObjectList::addObject.                                                   *)
AddToList(o) == objs' = Append(objs, o) /\ invalidated' = TRUE

(* Mutant: the list keeps the object.                                       *)
RemovesNothing(o) == objs' = objs /\ invalidated' = TRUE

(* ObjectList::removeObject.                                                *)
RemoveFromList(o) == objs' = RemoveFirst(objs, o) /\ invalidated' = TRUE

(* Mutant: cleanup does not detach the object.                              *)
ForgetsToDetach(o) == supplies

(* Object::cleanup: the second call does nothing.                           *)
SuppliesAfterCleanup(o) ==
  IF obj[o].removed THEN supplies
  ELSE Detach(supplies, obj[o].owner, obj[o].proto)

-----------------------------------------------------------------------------
(* What the actions of an object may do.                                    *)

(* Target::getAsCoordinate.                                                 *)
AsCoordinate(target) ==
  IF target.type = "Object" THEN obj[target.obj].pos ELSE target.coord

(* Mutant: initAction does not refuse the object itself as a target.        *)
NeverSelf(o, target) == FALSE

(* TargetedAction::initAction.                                              *)
IsSelf(o, target) == target.type = "Object" /\ target.obj = o

(* Mutant: canAttack without isRemovedFromGame ("should we do this?").       *)
AttacksTheDead(o, t) == AttrOf(o).damage # 0 /\ ~AttrOf(t).invincible

(* Object::canAttack(target).                                               *)
CanAttack(o, t) ==
  /\ AttrOf(o).damage # 0
  /\ ~AttrOf(t).invincible
  /\ ~obj[t].removed

(* Object::checkMinDistance, with both radii.                               *)
InReach(o, t, dist) ==
  Within(obj[o].pos, obj[t].pos, AttrOf(o).radius + AttrOf(t).radius + dist)

(* UnitAction::Move::initAction; == on coordinates compares whole pixels.   *)
CanStartMove(o, target) ==
  /\ ~IsSelf(o, target)
  /\ AttrOf(o).speed # 0
  /\ Pixel(obj[o].pos, PixelSize) # Pixel(AsCoordinate(target), PixelSize)

StartedMove(o, target, dist) ==
  [active |-> TRUE, target |-> target, minDist |-> dist,
   start |-> obj[o].pos, dest |-> AsCoordinate(target)]

(* UnitAction::Attack::initAction; only called with an object target.       *)
CanStartAttack(o, target) ==
  /\ ~IsSelf(o, target)
  /\ CanAttack(o, target.obj)

StartedAttack(target, age) ==
  [active |-> TRUE, target |-> target, age |-> age]

(* setLastAttackTime(getCachedElapsedTime()): an age of 0, unless the       *)
(* cached time has never been assigned.                                     *)
InitialAges == IF clockSet THEN {0} ELSE StaleAges

-----------------------------------------------------------------------------
(* The beginning and the main loop of the program.                          *)

Init ==
  /\ obj = <<>>
  /\ objs = <<>> /\ invalidated = FALSE
  /\ supplies = NoSupplies
  /\ pc = "setup" /\ cursor = End /\ processed = {}
  /\ delta \in Deltas /\ clockSet = FALSE
  /\ ended = FALSE /\ nOrders = 0 /\ nJobs = 0

(* Game::test_tmp1, one object: newObject, changeOwner, setPosition and, for *)
(* some, doOrder.                                                            *)
Place ==
  /\ pc = "setup" /\ Len(obj) < Len(Scenario)
  /\ LET s == Scenario[Len(obj) + 1]
     IN  /\ obj' = Append(obj, [Fresh(s.proto, s.owner, s.at)
                                  EXCEPT !.order = s.order])
         /\ supplies' = SuppliesAfterCreation(s.proto, s.owner)
         /\ AddToList(Len(obj) + 1)
  /\ UNCHANGED <<pc, cursor, processed, clock, input>>

StartLoop ==
  /\ pc = "setup" /\ Len(obj) = Len(Scenario)
  /\ pc' = "loop"
  /\ UNCHANGED <<obj, lists, supplies, cursor, processed, clock, input>>

(* Game::processObjects up to the first object.                             *)
StartFrame ==
  /\ pc = "loop" /\ ~ended
  /\ pc' = "object" /\ cursor' = First /\ processed' = {}
  /\ invalidated' = FALSE
  /\ UNCHANGED <<obj, objs, supplies, clock, input>>

(* it == end().                                                             *)
FinishFrame ==
  /\ pc = "object" /\ cursor = End
  /\ pc' = "ui" /\ processed' = {}
  /\ UNCHANGED <<obj, lists, supplies, cursor, clock, input>>

SkipProcessed ==
  /\ pc = "object" /\ cursor # End /\ cursor \in processed
  /\ cursor' = Successor(cursor)
  /\ UNCHANGED <<obj, lists, supplies, pc, processed, clock, input>>

BeginObject ==
  /\ pc = "object" /\ cursor # End /\ cursor \notin processed
  /\ pc' = "order"
  /\ UNCHANGED <<obj, lists, supplies, cursor, processed, clock, input>>

(* Mutant: the loop ends instead of starting over.                          *)
BreaksOff ==
  /\ pc = "advance" /\ invalidated
  /\ pc' = "object" /\ cursor' = End /\ invalidated' = FALSE
  /\ UNCHANGED <<obj, objs, supplies, processed, clock, input>>

(* Mutant: resetIteratorChecker is not called when the loop starts over.    *)
StaysInvalidated ==
  /\ pc = "advance" /\ invalidated
  /\ pc' = "object" /\ cursor' = First
  /\ UNCHANGED <<obj, lists, supplies, processed, clock, input>>

(* After processFrame of the object: start over if the list has changed.    *)
Restart ==
  /\ pc = "advance" /\ invalidated
  /\ pc' = "object" /\ cursor' = First /\ invalidated' = FALSE
  /\ UNCHANGED <<obj, objs, supplies, processed, clock, input>>

(* Mutant: the object is not put among the processed ones.                  *)
ForgetsProcessed ==
  /\ pc = "advance" /\ ~invalidated
  /\ pc' = "object" /\ cursor' = Successor(cursor)
  /\ UNCHANGED <<obj, lists, supplies, processed, clock, input>>

Proceed ==
  /\ pc = "advance" /\ ~invalidated
  /\ pc' = "object" /\ cursor' = Successor(cursor)
  /\ processed' = processed \union {cursor}
  /\ UNCHANGED <<obj, lists, supplies, clock, input>>

(* A job, and an object, d older.  Removed objects are never processed       *)
(* again, so their ages no longer matter.                                   *)
Older(job, d) == IF job.started THEN [job EXCEPT !.age = @ + d] ELSE job

Aged(r, d) ==
  IF r.removed THEN r
  ELSE [r EXCEPT
          !.attack.age = IF r.attack.active THEN @ + d ELSE @,
          !.queue = [i \in DOMAIN r.queue |-> Older(r.queue[i], d)]]

(* The end of an iteration of Game::run: the new delta and cached time.     *)
Tick ==
  /\ pc = "ui"
  /\ pc' = "loop"
  /\ delta' \in Deltas /\ clockSet' = TRUE
  /\ obj' = [o \in DOMAIN obj |-> Aged(obj[o], delta')]
  /\ UNCHANGED <<lists, supplies, cursor, processed, input>>

-----------------------------------------------------------------------------
(* Object::processOrder: the order of the object at the cursor.             *)

self == obj[cursor]

(* The object's order goes on: its actions are processed next.              *)
ContinueWith(r) ==
  /\ obj' = [obj EXCEPT ![cursor] = r]
  /\ pc' = "move"
  /\ UNCHANGED <<lists, supplies, cursor, processed, clock, input>>

(* ProcessResult::Finished: clearAllActions and cancelOrder.                *)
FinishOrder ==
  /\ obj' = [obj EXCEPT ![cursor] =
              [@ EXCEPT !.order = NoOrder, !.move = NoMove,
                        !.attack = NoAttack]]
  /\ pc' = "produce"
  /\ UNCHANGED <<lists, supplies, cursor, processed, clock, input>>

NoOrderToProcess ==
  /\ pc = "order" /\ self.order.kind = "None"
  /\ pc' = "produce"
  /\ UNCHANGED <<obj, lists, supplies, cursor, processed, clock, input>>

(* UnitOrder::Move::process.                                                *)
MoveOrder ==
  /\ pc = "order" /\ self.order.kind = "Move"
  /\ LET target == self.order.target
     IN  \/ /\ self.order.step = 0 /\ CanStartMove(cursor, target)
            /\ ContinueWith([self EXCEPT
                 !.move = StartedMove(cursor, target, 0), !.order.step = 1])
         \/ /\ self.order.step = 0 /\ ~CanStartMove(cursor, target)
            /\ FinishOrder
         \/ /\ self.order.step = 1 /\ self.move.active
            /\ ContinueWith(self)
         \/ /\ self.order.step = 1 /\ ~self.move.active
            /\ FinishOrder

AttackStep(n) ==
  pc = "order" /\ self.order.kind = "Attack" /\ self.order.step = n

(* UnitOrder::Attack::process, step 0 with an object target: start attack.  *)
AttackOrderStart ==
  /\ AttackStep(0) /\ self.order.target.type = "Object"
  /\ LET target == self.order.target
     IN  \/ /\ CanStartAttack(cursor, target)
            /\ \E age \in InitialAges :
                 ContinueWith([self EXCEPT
                   !.attack = StartedAttack(target, age), !.order.step = 1])
         \/ ~CanStartAttack(cursor, target) /\ FinishOrder

(* Step 0 with a coordinate target: a new Move action in every frame, until *)
(* one cannot be started.                                                   *)
AttackOrderGo ==
  /\ AttackStep(0) /\ self.order.target.type # "Object"
  /\ LET target == self.order.target
     IN  \/ /\ CanStartMove(cursor, target)
            /\ ContinueWith([self EXCEPT !.move =
                 StartedMove(cursor, target, AutomaticallyAttack)])
         \/ /\ ~CanStartMove(cursor, target)
            /\ ContinueWith([self EXCEPT !.order.step = 100])

AttackOrderArrive ==
  /\ AttackStep(100)
  /\ \/ self.move.active /\ ContinueWith(self)
     \/ ~self.move.active /\ FinishOrder

(* Step 1: attacking; when the Attack action is over, follow the target.    *)
AttackOrderAttack ==
  /\ AttackStep(1)
  /\ LET target == self.order.target
         follow == CanStartMove(cursor, target)
     IN  \/ self.attack.active /\ ContinueWith(self)
         \/ /\ ~self.attack.active /\ CanAttack(cursor, target.obj) /\ follow
            /\ ContinueWith([self EXCEPT
                 !.move = StartedMove(cursor, target, AttrOf(cursor).range),
                 !.order.step = 2])
         \/ /\ ~self.attack.active
            /\ ~(CanAttack(cursor, target.obj) /\ follow)
            /\ FinishOrder

(* Mutant: the order is not finished when the target is gone.               *)
FollowsForever ==
  /\ AttackStep(2)
  /\ IF ~self.move.active /\ CanAttack(cursor, self.order.target.obj)
     THEN ContinueWith([self EXCEPT !.order.step = 0])
     ELSE ContinueWith(self)

(* Step 2: following; when the Move action is over, attack again.           *)
AttackOrderFollow ==
  /\ AttackStep(2)
  /\ LET t == self.order.target.obj
     IN  \/ self.move.active /\ ContinueWith(self)
         \/ /\ ~self.move.active /\ CanAttack(cursor, t)
            /\ ContinueWith([self EXCEPT !.order.step = 0])
         \/ /\ ~self.move.active /\ ~CanAttack(cursor, t)
            /\ FinishOrder

-----------------------------------------------------------------------------
(* Object::processActions: the Move action first, then the Attack action.   *)

NoMoveAction ==
  /\ pc = "move" /\ ~self.move.active
  /\ pc' = "attack"
  /\ UNCHANGED <<obj, lists, supplies, cursor, processed, clock, input>>

(* UnitAction::Move::process.                                               *)
Moved(r, x, m) ==
  /\ obj' = [obj EXCEPT ![cursor] = [r EXCEPT !.pos = x, !.move = m]]
  /\ pc' = "attack"
  /\ UNCHANGED <<lists, supplies, cursor, processed, clock, input>>

MoveAction ==
  /\ pc = "move" /\ self.move.active
  /\ LET m == self.move
         dest == IF m.target.type = "Object" THEN AsCoordinate(m.target)
                 ELSE m.dest
         reached == m.target.type = "Object"
                      /\ InReach(cursor, m.target.obj, m.minDist)
         speed == AttrOf(cursor).speed
         newx == self.pos + Stride(m.start, dest, self.pos, speed, delta)
     IN  \/ reached /\ Moved(self, self.pos, NoMove)
         \/ /\ ~reached /\ Arrives(m.start, dest, newx)
            /\ Moved(self, dest, NoMove)
         \/ /\ ~reached /\ ~Arrives(m.start, dest, newx)
            /\ Moved(self, newx, [m EXCEPT !.dest = dest])

NoAttackAction ==
  /\ pc = "attack" /\ ~self.attack.active
  /\ pc' = "produce"
  /\ UNCHANGED <<obj, lists, supplies, cursor, processed, clock, input>>

(* nattacks: whole attack periods since the last attack.                    *)
Attacks(o) == obj[o].attack.age \div AttrOf(o).period

NetDamage(o, t) == AttrOf(o).damage - AttrOf(t).armor

(* Mutant: an object with no hit points left survives.                      *)
KillsBelowZero(o, t) ==
  {k \in 1 .. Attacks(o) : obj[t].hp - k * NetDamage(o, t) < 0}

(* The hits of the loop that leave the target dead; it stops at the first.  *)
KillingHits(o, t) ==
  {k \in 1 .. Attacks(o) : obj[t].hp - k * NetDamage(o, t) <= 0}

(* is_finished: the target is gone or out of range.                         *)
EndAttack ==
  /\ obj' = [obj EXCEPT ![cursor] = [@ EXCEPT !.attack = NoAttack]]
  /\ UNCHANGED <<lists, supplies>>

(* Too early for a hit: nothing changes.                                    *)
Wait == UNCHANGED <<obj, lists, supplies>>

Wound(t) ==
  /\ obj' = [obj EXCEPT
              ![t].hp = @ - Attacks(cursor) * NetDamage(cursor, t),
              ![cursor].attack.age = 0]
  /\ UNCHANGED <<lists, supplies>>

(* Game::removeObject of the target.                                        *)
Kill(t) ==
  /\ obj' = [obj EXCEPT
              ![t].hp = @ - Min(KillingHits(cursor, t)) * NetDamage(cursor, t),
              ![t].removed = TRUE,
              ![cursor].attack = NoAttack]
  /\ supplies' = SuppliesAfterCleanup(t)
  /\ RemoveFromList(t)

(* UnitAction::Attack::process.                                             *)
AttackAction ==
  /\ pc = "attack" /\ self.attack.active
  /\ pc' = "produce"
  /\ LET t == self.attack.target.obj
         strikes == CanAttack(cursor, t)
                      /\ InReach(cursor, t, AttrOf(cursor).range)
     IN  \/ ~strikes /\ EndAttack
         \/ strikes /\ Attacks(cursor) <= 0 /\ Wait
         \/ /\ strikes /\ Attacks(cursor) > 0
            /\ KillingHits(cursor, t) = {} /\ Wound(t)
         \/ strikes /\ KillingHits(cursor, t) # {} /\ Kill(t)
  /\ UNCHANGED <<cursor, processed, clock, input>>

-----------------------------------------------------------------------------
(* The secondary order, which only resets itself, then                      *)
(* UnitProductionManager::process.                                          *)

NoProduction ==
  /\ pc = "produce" /\ self.queue = <<>>
  /\ pc' = "advance"
  /\ obj' = [obj EXCEPT ![cursor] = [@ EXCEPT !.secondary = FALSE]]
  /\ UNCHANGED <<lists, supplies, cursor, processed, clock, input>>

(* Mutant: the job starts afresh whenever it is looked at.                  *)
AlwaysFresh(job) == 0

JobAge(job) == IF job.started THEN job.age ELSE 0

Working ==
  /\ pc = "produce" /\ self.queue # <<>>
  /\ JobAge(Head(self.queue)) < BuildTime
  /\ pc' = "advance"
  /\ LET job == Head(self.queue)
     IN  obj' = [obj EXCEPT ![cursor] =
                  [self EXCEPT !.secondary = FALSE,
                               !.queue = <<[what |-> job.what, started |-> TRUE,
                                            age |-> JobAge(job)]>> \o Tail(self.queue)]]
  /\ UNCHANGED <<lists, supplies, cursor, processed, clock, input>>

(* Mutant: the job stays in the queue when it is done.                      *)
ProducesAgain ==
  /\ pc = "produce" /\ self.queue # <<>>
  /\ JobAge(Head(self.queue)) >= BuildTime
  /\ pc' = "advance"
  /\ LET pr == Head(self.queue).what
     IN  /\ obj' = Append([obj EXCEPT ![cursor] = [@ EXCEPT !.secondary = FALSE]],
                          Fresh(pr, self.owner, self.pos))
         /\ supplies' = SuppliesAfterCreation(pr, self.owner)
         /\ AddToList(Len(obj) + 1)
  /\ UNCHANGED <<cursor, processed, clock, input>>

(* do_produce and popFirstSlotInProductionQueue.                            *)
Produce ==
  /\ pc = "produce" /\ self.queue # <<>>
  /\ JobAge(Head(self.queue)) >= BuildTime
  /\ pc' = "advance"
  /\ LET pr == Head(self.queue).what
     IN  /\ obj' = Append([obj EXCEPT ![cursor] =
                            [self EXCEPT !.secondary = FALSE,
                                         !.queue = Tail(self.queue)]],
                          Fresh(pr, self.owner, self.pos))
         /\ supplies' = SuppliesAfterCreation(pr, self.owner)
         /\ AddToList(Len(obj) + 1)
  /\ UNCHANGED <<cursor, processed, clock, input>>

-----------------------------------------------------------------------------
(* The user interface, GameUI::processFrame.                                *)

(* Object::insideRect for a single point, in whole pixels.                  *)
Covers(o, x) ==
  Within(Pixel(obj[o].pos, PixelSize), Pixel(x, PixelSize),
         AttrOf(o).radius \div PixelSize)

(* Game::findObjectByRect: the first object of the list that covers the     *)
(* point, or a null pointer.                                                *)
ObjectAt(x) == NodeAt(SelectInSeq(objs, LAMBDA o : Covers(o, x)))

(* Mutant: the null pointer of an empty spot is taken for an object.        *)
TargetUnchecked(x) == ToObject(ObjectAt(x))

(* Player::setOrderTargetByCoord.                                           *)
TargetAt(x) ==
  IF ObjectAt(x) = End THEN ToCoordinate(x) ELSE ToObject(ObjectAt(x))

(* Mutant: a new order leaves the actions of the old one running.           *)
KeepsActions(o, order) ==
  /\ pc = "ui" /\ nOrders < MaxOrders
  /\ obj' = [obj EXCEPT ![o] = [@ EXCEPT !.order = order]]
  /\ nOrders' = nOrders + 1
  /\ UNCHANGED <<lists, supplies, pc, cursor, processed, clock, ended, nJobs>>

(* Object::doOrder with a primary order.  The user may still have objects   *)
(* selected that have been removed from the game.                           *)
DoOrder(o, order) ==
  /\ pc = "ui" /\ nOrders < MaxOrders
  /\ obj' = [obj EXCEPT ![o] =
              [@ EXCEPT !.order = order, !.move = NoMove,
                        !.attack = NoAttack]]
  /\ nOrders' = nOrders + 1
  /\ UNCHANGED <<lists, supplies, pc, cursor, processed, clock, ended, nJobs>>

(* The right button: move to the point, whatever is there.                  *)
IssueMoveToPoint(o, x) == DoOrder(o, NewOrder("Move", ToCoordinate(x)))

(* The key m or a, then the left button.                                    *)
IssueTargeted(o, kind, x) == DoOrder(o, NewOrder(kind, TargetAt(x)))

(* The key d: the selected object produces another of its own kind.         *)
IssueProduce(o) ==
  /\ pc = "ui" /\ nJobs < MaxJobs
  /\ obj' = [obj EXCEPT ![o] =
              [obj[o] EXCEPT !.secondary = TRUE,
                             !.queue = Append(obj[o].queue,
                               [what |-> obj[o].proto, started |-> FALSE,
                                age |-> 0])]]
  /\ nJobs' = nJobs + 1
  /\ UNCHANGED <<lists, supplies, pc, cursor, processed, clock, ended, nOrders>>

(* SDL_QUIT: Game::endGame; the iteration is finished first.                *)
Quit ==
  /\ pc = "ui" /\ ~ended
  /\ ended' = TRUE
  /\ UNCHANGED <<obj, lists, supplies, pc, cursor, processed, clock,
                 nOrders, nJobs>>

-----------------------------------------------------------------------------
(* Game::~Game: removeAllObjects.                                           *)

LeaveLoop ==
  /\ pc = "loop" /\ ended
  /\ pc' = "cleanup" /\ cursor' = First
  /\ UNCHANGED <<obj, lists, supplies, processed, clock, input>>

CleanupObject ==
  /\ pc = "cleanup" /\ cursor # End
  /\ supplies' = SuppliesAfterCleanup(cursor)
  /\ obj' = [obj EXCEPT ![cursor] = [@ EXCEPT !.removed = TRUE]]
  /\ cursor' = Successor(cursor)
  /\ UNCHANGED <<lists, pc, processed, clock, input>>

(* ObjectList::clear does not mark iterators as invalidated.                *)
ClearList ==
  /\ pc = "cleanup" /\ cursor = End
  /\ objs' = <<>> /\ pc' = "exited"
  /\ UNCHANGED <<obj, invalidated, supplies, cursor, processed, clock, input>>

Terminated == pc = "exited" /\ UNCHANGED vars

-----------------------------------------------------------------------------
(* The program's own steps, and the user's.                                 *)

Loop == \/ Place \/ StartLoop \/ StartFrame \/ FinishFrame
        \/ SkipProcessed \/ BeginObject \/ Restart \/ Proceed \/ Tick
Orders == \/ NoOrderToProcess \/ MoveOrder
          \/ AttackOrderStart \/ AttackOrderGo \/ AttackOrderArrive
          \/ AttackOrderAttack \/ AttackOrderFollow
Actions == NoMoveAction \/ MoveAction \/ NoAttackAction \/ AttackAction
Production == NoProduction \/ Working \/ Produce
Shutdown == LeaveLoop \/ CleanupObject \/ ClearList

Engine == Loop \/ Orders \/ Actions \/ Production \/ Shutdown

User ==
  \/ \E o \in DOMAIN obj :
       \/ \E x \in Points : IssueMoveToPoint(o, x)
       \/ \E x \in Points, kind \in {"Move", "Attack"} :
            IssueTargeted(o, kind, x)
       \/ IssueProduce(o)
  \/ Quit

Next == Engine \/ User \/ Terminated

(* The loop never waits for the user: SDL_PollEvent returns at once and at  *)
(* most 1000 events are taken per frame.  The user need never do anything.  *)
Fairness == WF_vars(Engine)

Spec == Init /\ [][Next]_vars /\ Fairness

-----------------------------------------------------------------------------
(* Correctness.                                                             *)

Live == {o \in DOMAIN obj : ~obj[o].removed}

(* The object at the cursor is inside its processFrame.                     *)
Processing == pc \in {"order", "move", "attack", "produce", "advance"}
ShuttingDown == pc \in {"cleanup", "exited"}

(* An object whose pointers are all to objects in names; an Attack action   *)
(* always has an object target.                                             *)
Linked(r, names) ==
  /\ r \in ObjectType
  /\ r.order.target.type = "Object" => r.order.target.obj \in names
  /\ r.move.target.type = "Object" => r.move.target.obj \in names
  /\ r.attack.target.type = "Object" => r.attack.target.obj \in names
  /\ r.attack.active => r.attack.target.type = "Object"

Population(s) ==
  s \in Seq(ObjectType) /\ \A o \in DOMAIN s : Linked(s[o], DOMAIN s)

ControlOK ==
  /\ objs \in Seq(DOMAIN obj) /\ invalidated \in BOOLEAN
  /\ supplies \in [Players -> [Races -> Counter]]
  /\ pc \in {"setup", "loop", "object", "order", "move", "attack", "produce",
             "advance", "ui", "cleanup", "exited"}
  /\ cursor \in DOMAIN obj \union {End} /\ (Processing => cursor # End)
  /\ processed \subseteq DOMAIN obj
  /\ delta \in Int /\ clockSet \in BOOLEAN
  /\ ended \in BOOLEAN /\ nOrders \in Nat /\ nJobs \in Nat

(* The state has the shape of the program's data, and every pointer in it,  *)
(* in the list, in the loops, in orders and in actions, is to an object     *)
(* that has been created: none is null or dangling where it is used.        *)
TypeOK == Population(obj) /\ ControlOK

(* processObjects holds a reference into the list node of the object it is  *)
(* processing (const ObjectPtr &obj = *it) across processFrame, whatever    *)
(* the object kills or produces meanwhile: the node must still be there     *)
(* when the reference is used again.  The same holds for the shutdown loop. *)
CursorStaysValid ==
  Processing \/ (pc \in {"object", "cleanup"} /\ cursor # End)
    => InList(cursor)

(* The object list and the objects agree: no object is listed twice, and    *)
(* until the program shuts down the list holds exactly the objects that     *)
(* have not been cleaned up.                                                *)
ListIsRoster ==
  /\ IsInjective(objs)
  /\ ~ShuttingDown => ToSet(objs) = Live

(* A mortal object in the game has hit points left: every hit that takes    *)
(* the last one also removes the object, before anything else runs.         *)
InGameMeansAlive ==
  ~ShuttingDown =>
    \A o \in Live : AttrOf(o).maxHP > 0 /\ ~AttrOf(o).invincible
                      => obj[o].hp > 0

(* The actions of an object are those its order has started: never a Move   *)
(* and an Attack at once, never an action left behind by an earlier order,  *)
(* never one aimed at the object itself or at another target than the       *)
(* order's.                                                                 *)
ActionsFollowOrder ==
  \A o \in DOMAIN obj :
    LET r == obj[o]
    IN  /\ r.move.active =>
             /\ ~IsSelf(o, r.move.target)
             /\ r.move.target = r.order.target
             /\ \/ r.order.kind = "Move" /\ r.order.step = 1
                \/ /\ r.order.kind = "Attack"
                   /\ r.order.target.type = "Object" => r.order.step = 2
        /\ r.attack.active =>
             /\ ~IsSelf(o, r.attack.target)
             /\ r.attack.target = r.order.target
             /\ r.order.kind = "Attack" /\ r.order.step = 1
        /\ ~(r.move.active /\ r.attack.active)

(* Whatever the frame created or removed on the way, and however often the  *)
(* loop started over, when it ends every object of the list has been        *)
(* processed.                                                               *)
FrameCoversList ==
  pc = "object" /\ cursor = End => ToSet(objs) \subseteq processed

(* The places in the production queues that hold a job.                     *)
Jobs == UNION {{o} \X DOMAIN obj[o].queue : o \in DOMAIN obj}

(* No job is lost and none is done twice: the objects placed at the start,  *)
(* those produced and those still queued add up to what was asked for.      *)
ProductionConserved ==
  pc # "setup" => Len(obj) + Cardinality(Jobs) = Len(Scenario) + nJobs

(* An object removed from the game keeps its hit points and its place and   *)
(* never comes back, although orders and actions of others may still refer  *)
(* to it.                                                                   *)
RemovedStay ==
  \A o \in DOMAIN obj : obj[o].removed =>
    /\ obj'[o].removed /\ obj'[o].hp = obj[o].hp /\ obj'[o].pos = obj[o].pos
    /\ ~(o \in ToSet(objs') /\ ~InList(o))

RemovedIsFinal == [][RemovedStay]_vars

(* What is left to do in a frame, most significant first: the changes the   *)
(* list can still undergo (every object can be killed once, every job can   *)
(* create one object, which can be killed as well), a change the loop has   *)
(* not noticed yet, the objects it has not processed, the nodes ahead of it *)
(* in this walk, and the handlers ahead of it in processFrame.              *)
InFrame == pc = "object" \/ Processing

Ahead == {i \in DOMAIN objs : \E k \in 1 .. i : objs[k] = cursor}

HandlersAhead ==
  CASE pc = "object" -> 5 [] pc = "order" -> 4 [] pc = "move" -> 3
    [] pc = "attack" -> 2 [] pc = "produce" -> 1 [] OTHER -> 0

LeftToDo ==
  <<Cardinality(Live) + 2 * Cardinality(Jobs),
    IF invalidated THEN 1 ELSE 0,
    Cardinality(ToSet(objs) \ processed),
    Cardinality(Ahead),
    HandlersAhead>>

Less(a, b) ==
  \E j \in 1 .. 5 : a[j] < b[j] /\ \A i \in 1 .. (j - 1) : a[i] = b[i]

(* Whatever a handler creates, kills or skips, and although the walk of     *)
(* processObjects starts over whenever the list has changed, every single   *)
(* step of a frame brings its end nearer.                                   *)
FrameAdvances == InFrame => ~InFrame' \/ Less(LeftToDo', LeftToDo)

FrameShrinks == [][FrameAdvances]_vars

(* Every frame ends: the restarts of processObjects come to an end.         *)
FrameEnds == pc = "object" ~> pc = "ui"

(* o is hitting a target within its range that its damage cannot hurt:      *)
(* Object::hit subtracts the armor and does not ask what is left.           *)
StandOff(o) ==
  /\ o \in Live /\ obj[o].attack.active
  /\ LET t == obj[o].attack.target.obj
     IN  /\ t \in Live /\ InReach(o, t, AttrOf(o).range)
         /\ NetDamage(o, t) <= 0

Unfinished(o) == o \in Live /\ obj[o].order.kind # "None" /\ ~StandOff(o)

(* Every order ends: it is carried out, found impossible, or its object is  *)
(* removed; a target killed by somebody else does not leave it hanging.     *)
(* The one thing that can go on is a stand-off, and when that is broken,    *)
(* because the target has been killed, the order ends as well.              *)
OrdersEnd ==
  \A o \in 1 .. Len(Scenario) + MaxJobs : Unfinished(o) ~> ~Unfinished(o)

(* Every job a producer begins is delivered unless the producer is removed. *)
JobsEnd ==
  \A o \in 1 .. Len(Scenario) + MaxJobs :
    (o \in DOMAIN obj /\ obj[o].queue # <<>>)
      ~> (o \in DOMAIN obj /\ (obj[o].queue = <<>> \/ obj[o].removed))

(* The game implements the roster: its loop, its restarts and its removals  *)
(* amount to enlisting and discharging objects once each.                   *)
TheRoster ==
  INSTANCE Roster WITH
    enlisted <- Len(obj),
    post <- [o \in Live |-> [proto |-> obj[o].proto, owner |-> obj[o].owner]]

ImplementsRoster == TheRoster!RosterSpec

(* The supply counters are exact in every state of the game.                *)
SuppliesExact == TheRoster!LedgerExact

(* Game.h, on newObject and on addObject: DO NOT call this function while   *)
(* iterating ObjectList.                                                    *)
NoCreationWhileIterating == [][Processing => Len(obj') = Len(obj)]_vars

=============================================================================
