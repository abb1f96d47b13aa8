---------------------------- MODULE PlayerInput ----------------------------
(***************************************************************************)
(* From keys and buttons to the orders of objects: the event handlers of    *)
(* the three user interfaces, Player's selection and its current order, and *)
(* Object::doOrder, down to which order and which ProductionInfo instance   *)
(* is held by whom.  Orders and jobs have an identity, their place in the   *)
(* heap; what a click picks is any set of objects in the game.              *)
(***************************************************************************)
EXTENDS Integers, FiniteSets, Sequences

CONSTANTS
  NObjects,    \* how many objects there are, in the order of the list
  Units,       \* those that are units
  Mine,        \* those the player at the screen owns
  UIs,         \* user interfaces: "SDL", "ncurses", "dummy"
  Limit,       \* MAX_SELECTABLE_OBJS
  Scenario,    \* the objects test_tmp1 gives a Move order
  MaxGestures  \* bound: keys pressed and buttons clicked

Objects == 1 .. NObjects
NoOrder == 0
Nobody == 0
Ground == 0     \* a coordinate
Launcher == 0   \* ObjectId::Juche_DaepodongLauncher

ASSUME ObjectsAssumption ==
  /\ NObjects \in Nat /\ Units \subseteq Objects /\ Mine \subseteq Objects
  /\ Scenario \subseteq Objects
ASSUME UIsAssumption == UIs \subseteq {"SDL", "ncurses", "dummy"}
ASSUME LimitsAssumption == Limit \in Nat \ {0} /\ MaxGestures \in Nat

VARIABLES
  ui,         \* the interface main chose
  inGame,     \* the objects in the game's list
  selected,   \* m_selected_objs
  dragging,   \* m_selection_in_progress
  orders,     \* the orders made so far
  jobs,       \* the ProductionInfos made so far
  fresh,      \* from here on the heap is free
  pending,    \* m_order of the player
  current,    \* m_order of every object
  secondary,  \* m_secondary_order of every object
  queue,      \* the production queue of every object
  toasted,    \* whose toast the screen showed last, or Nobody
  gestures    \* for MaxGestures

heap == <<orders, jobs, fresh>>
held == <<current, secondary, queue>>
vars == <<ui, inGame, selected, dragging, heap, pending, held, toasted,
          gestures>>

Kinds == {"Move", "Attack"}
Target == Objects \cup {Ground}
Order == [kind: Kinds \cup {"Produce"}, target: Target, obj: Objects \cup {Nobody},
          started: BOOLEAN, job: Nat]
Job == [what: Objects \cup {Launcher}, started: BOOLEAN]

(* An order as its constructor makes it.                                    *)
Made(kind, target) ==
  [kind |-> kind, target |-> target, obj |-> Nobody, started |-> FALSE,
   job |-> 0]

(* f with g's entries added.                                                *)
Plus(f, g) ==
  [i \in DOMAIN f \cup DOMAIN g |-> IF i \in DOMAIN g THEN g[i] ELSE f[i]]

(* Where the instance made for o is put, the first one being the player's.   *)
For(o) == fresh + o

-----------------------------------------------------------------------------
(* Player's selection.                                                      *)

(* Mutant: the owners are compared first.                                   *)
OwnFirst(S) ==
  IF S \cap Mine # {} THEN S \cap Mine
  ELSE IF S \cap Units # {} THEN S \cap Units
  ELSE S

(* filterCurSelectedObjects, without its limit.                             *)
Filtered(S) ==
  IF S \cap Units # {} THEN S \cap Units
  ELSE IF S \cap Mine # {} THEN S \cap Mine
  ELSE S

(* The first n objects of the list.                                         *)
FirstOf(S, n) == {o \in S : Cardinality({p \in S : p <= o}) <= n}

(* finishObjectSelection with what findObjectByRect finds; a rectangle of    *)
(* one pixel picks one object.                                              *)
Pick(S, onePixel) == FirstOf(Filtered(S), IF onePixel THEN 1 ELSE Limit)

-----------------------------------------------------------------------------
(* Orders.                                                                  *)

(* Mutant: multiDoCurrentOrder hands out the player's order itself.         *)
Itself(o) == fresh

(* Mutant: the next instance's place is reused.                            *)
OnePast(o) == For(o) + 1

(* Order::clone, one for each selected object.                              *)
Clone(o) == For(o)

(* Mutant: Produce::clone keeps the ProductionInfo.                         *)
ItsJob(o) == fresh

(* ProductionInfo::clone, or a ProductionInfo for each object.              *)
CloneJob(o) == For(o)

(* Order::initOrder.                                                        *)
Started(order, o) ==
  [order EXCEPT !.obj = o, !.started = TRUE]

(* The heap once every selected object was given a clone of the order.      *)
WithClones(order) ==
  Plus(orders, [i \in {Clone(o) : o \in selected} |->
                  Started(order, CHOOSE o \in selected : Clone(o) = i)])

(* Player::multiDoCurrentOrder with a primary order: Object::doOrder puts    *)
(* the clone in the place of the object's order.                            *)
MultiDo(order) ==
  /\ orders' = WithClones(order)
  /\ fresh' = For(NObjects) + 1
  /\ current' = [o \in Objects |-> IF o \in selected THEN Clone(o)
                                   ELSE current[o]]
  /\ pending' = NoOrder
  /\ UNCHANGED <<jobs, secondary, queue>>

(* A Produce order for every selected object, which doOrder starts at once   *)
(* (Produce::initOrder) and keeps as the secondary one; what[o] is the       *)
(* object to be made.                                                       *)
MultiProduce(what) ==
  LET jobOf(i) == CHOOSE o \in selected : CloneJob(o) = i
      clones   == [i \in {Clone(o) : o \in selected} |->
                     LET o == CHOOSE p \in selected : Clone(p) = i
                     IN  [Started(Made("Produce", Ground), o)
                            EXCEPT !.job = CloneJob(o)]]
  IN  /\ orders' = Plus(orders, clones)
      /\ jobs' = Plus(jobs, [i \in {CloneJob(o) : o \in selected} |->
                               [what |-> what[jobOf(i)], started |-> FALSE]])
      /\ fresh' = For(NObjects) + 1
      /\ secondary' = [o \in Objects |-> IF o \in selected THEN Clone(o)
                                         ELSE secondary[o]]
      /\ queue' = [o \in Objects |-> IF o \in selected
                                     THEN Append(queue[o], CloneJob(o))
                                     ELSE queue[o]]
      /\ UNCHANGED current

Gesture == gestures < MaxGestures /\ gestures' = gestures + 1

-----------------------------------------------------------------------------
(* The beginning: main's choice of the interface and test_tmp1's orders.    *)

Init ==
  /\ ui \in UIs
  /\ inGame = Objects
  /\ selected = {} /\ dragging = FALSE
  /\ orders = [i \in Scenario |-> [Made("Move", Ground) EXCEPT
                                     !.obj = i, !.started = TRUE]]
  /\ jobs = [i \in {} |-> 0]
  /\ fresh = NObjects + 1
  /\ pending = NoOrder
  /\ current = [o \in Objects |-> IF o \in Scenario THEN o ELSE NoOrder]
  /\ secondary = [o \in Objects |-> NoOrder]
  /\ queue = [o \in Objects |-> <<>>]
  /\ toasted = Nobody /\ gestures = 0

(* Keys 'm' and 'a' of both interfaces: Player::setOrder.                   *)
Choose(kind) ==
  /\ ui \in {"SDL", "ncurses"} /\ Gesture
  /\ orders' = Plus(orders, [i \in {fresh} |-> Made(kind, Ground)])
  /\ pending' = fresh /\ fresh' = fresh + 1
  /\ UNCHANGED <<ui, inGame, selected, dragging, jobs, held, toasted>>

(* Key 'd' of GameUI_SDL: each selected object makes one of its own kind;    *)
(* the player's order stays.                                                *)
ProduceOwn ==
  /\ ui = "SDL" /\ Gesture
  /\ MultiProduce([o \in Objects |-> o])
  /\ UNCHANGED <<ui, inGame, selected, dragging, pending, toasted>>

(* Key 'd' of GameUI_ncurses: setOrder and multiDoCurrentOrder.             *)
ProduceLauncher ==
  /\ ui = "ncurses" /\ Gesture
  /\ MultiProduce([o \in Objects |-> Launcher])
  /\ pending' = NoOrder
  /\ UNCHANGED <<ui, inGame, selected, dragging, toasted>>

(* The right button: a Move to where the mouse is.                          *)
RightClick ==
  /\ ui = "SDL" /\ Gesture
  /\ MultiDo(Made("Move", Ground))
  /\ UNCHANGED <<ui, inGame, selected, dragging, toasted>>

(* A pending targeted order: tgorder && !tgorder->isStarted().              *)
AwaitsTarget ==
  /\ pending # NoOrder
  /\ orders[pending].kind \in Kinds /\ ~orders[pending].started

(* setOrderTargetByCoord or setOrderTargetByRectCoord, the target being an   *)
(* object that is there or else the place, and multiDoCurrentOrder.         *)
PlaceOrder ==
  /\ AwaitsTarget
  /\ \E t \in inGame \cup {Ground} :
       MultiDo([orders[pending] EXCEPT !.target = t])
  /\ UNCHANGED <<ui, inGame, selected, dragging, toasted>>

Click == ui \in {"SDL", "ncurses"} /\ Gesture /\ PlaceOrder

(* The left button goes down: startObjectSelection.                         *)
Press ==
  /\ ui = "SDL" /\ Gesture /\ ~AwaitsTarget
  /\ pending' = NoOrder /\ dragging' = TRUE
  /\ UNCHANGED <<ui, inGame, selected, heap, held, toasted>>

(* The left button goes up: finishObjectSelection.                          *)
Release ==
  /\ ui = "SDL" /\ dragging
  /\ \E S \in SUBSET inGame, onePixel \in BOOLEAN :
       selected' = Pick(S, onePixel)
  /\ dragging' = FALSE
  /\ UNCHANGED <<ui, inGame, heap, pending, held, toasted, gestures>>

(* The enter key: selectObjects in the cursor's cell.                       *)
Enter ==
  /\ ui = "ncurses" /\ Gesture /\ ~AwaitsTarget
  /\ \E S \in SUBSET inGame : selected' = Pick(S, FALSE)
  /\ pending' = NoOrder
  /\ UNCHANGED <<ui, inGame, dragging, heap, held, toasted>>

User ==
  \/ \E kind \in Kinds : Choose(kind)
  \/ ProduceOwn \/ ProduceLauncher
  \/ RightClick \/ Click \/ Press \/ Release \/ Enter

-----------------------------------------------------------------------------
(* The game, as far as it changes what the user has set up.                 *)

(* An order ends; when it failed, with a toast to the owner of the object    *)
(* on the screen there is, except that GameUI_dummy ignores it.             *)
EndOrder(o) ==
  /\ o \in inGame /\ current[o] # NoOrder
  /\ current' = [current EXCEPT ![o] = NoOrder]
  /\ toasted' \in {toasted} \cup (IF ui = "dummy" THEN {} ELSE {o})
  /\ UNCHANGED <<ui, inGame, selected, dragging, heap, pending, secondary,
                 queue, gestures>>

(* The secondary order is over when its object was processed.               *)
EndSecondary(o) ==
  /\ o \in inGame /\ secondary[o] # NoOrder
  /\ secondary' = [secondary EXCEPT ![o] = NoOrder]
  /\ UNCHANGED <<ui, inGame, selected, dragging, heap, pending, current,
                 queue, toasted, gestures>>

(* UnitProductionManager::process: the first job is started ...             *)
StartJob(o) ==
  /\ o \in inGame /\ queue[o] # <<>> /\ ~jobs[Head(queue[o])].started
  /\ jobs' = [jobs EXCEPT ![Head(queue[o])].started = TRUE]
  /\ UNCHANGED <<ui, inGame, selected, dragging, orders, fresh, pending, held,
                 toasted, gestures>>

(* ... and, in a later frame, done.                                         *)
FinishJob(o) ==
  /\ o \in inGame /\ queue[o] # <<>> /\ jobs[Head(queue[o])].started
  /\ queue' = [queue EXCEPT ![o] = Tail(@)]
  /\ UNCHANGED <<ui, inGame, selected, dragging, heap, pending, current,
                 secondary, toasted, gestures>>

(* Object::removeFromGame.  The selection keeps the object.                 *)
Remove(o) ==
  /\ o \in inGame
  /\ inGame' = inGame \ {o}
  /\ UNCHANGED <<ui, selected, dragging, heap, pending, held, toasted,
                 gestures>>

Engine ==
  \E o \in Objects :
    EndOrder(o) \/ EndSecondary(o) \/ StartJob(o) \/ FinishJob(o) \/ Remove(o)

Next == User \/ Engine
Spec == Init /\ [][Next]_vars

-----------------------------------------------------------------------------
(* Correctness.                                                             *)

(* The values the variables can take.                                       *)
TypeOK ==
  /\ ui \in UIs /\ inGame \subseteq Objects /\ selected \subseteq Objects
  /\ dragging \in BOOLEAN /\ fresh \in Nat \ {0}
  /\ DOMAIN orders \subseteq 1 .. fresh - 1
  /\ \A i \in DOMAIN orders : orders[i] \in Order
  /\ DOMAIN jobs \subseteq 1 .. fresh - 1
  /\ \A i \in DOMAIN jobs : jobs[i] \in Job
  /\ pending \in DOMAIN orders \cup {NoOrder}
  /\ current \in [Objects -> DOMAIN orders \cup {NoOrder}]
  /\ secondary \in [Objects -> DOMAIN orders \cup {NoOrder}]
  /\ queue \in [Objects -> Seq(DOMAIN jobs)]
  /\ toasted \in Objects \cup {Nobody} /\ gestures \in Nat

(* However an order was given, to one object or to many, every object has an *)
(* instance of its own, started for itself; the player's order is nobody's:  *)
(* it is never started, so the next click still finds it wanting a target.   *)
OrdersApart ==
  /\ \A o \in Objects : current[o] # NoOrder =>
       /\ orders[current[o]].obj = o /\ orders[current[o]].started
       /\ orders[current[o]].kind \in Kinds
  /\ \A o \in Objects : secondary[o] # NoOrder =>
       /\ orders[secondary[o]].obj = o
       /\ orders[secondary[o]].kind = "Produce"
  /\ pending # NoOrder =>
       ~orders[pending].started /\ orders[pending].kind \in Kinds

(* No two places in the production queues share a ProductionInfo, and one    *)
(* that waits behind another has not been started: its time does not run.    *)
JobsApart ==
  \A o, p \in Objects :
    \A i \in DOMAIN queue[o], j \in DOMAIN queue[p] :
      /\ queue[o][i] = queue[p][j] => o = p /\ i = j
      /\ i > 1 => ~jobs[queue[o][i]].started

(* Player::toast, "Issues a `toast' message to player's screen": what the    *)
(* screen of this player shows concerns this player.                         *)
ToastIsForMe == toasted = Nobody \/ toasted \in Mine

-----------------------------------------------------------------------------
(* What the user sees of it.                                                *)

CommandOf(o) ==
  IF current[o] = NoOrder THEN [kind |-> "None", target |-> Ground]
  ELSE [kind |-> orders[current[o]].kind, target |-> orders[current[o]].target]

Promise == INSTANCE Commander WITH
  Targets <- Target,
  Products <- Objects \cup {Launcher},
  wish <- IF pending = NoOrder THEN "None" ELSE orders[pending].kind,
  doing <- [o \in Objects |-> CommandOf(o)],
  making <- [o \in Objects |->
               [i \in DOMAIN queue[o] |-> jobs[queue[o][i]].what]]

(* All three interfaces keep the promise of Commander.                      *)
ImplementsCommander == Promise!CSpec

=============================================================================
