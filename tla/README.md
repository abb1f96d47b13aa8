# A verification project for JucheCraft

JucheCraft (`src/`) is a small real-time strategy game in C++: units move,
attack and duplicate themselves on a map, under the orders of one human player.
This directory holds TLA+ modules of the program's core, the TLC configurations
that model-check them on small instances, and theorems that TLAPS checks for
every value of the constants.

Paths below are relative to `src/src/` unless they start with `src/`.

## 1. Inventory of the system

The program is one thread. `main` builds a `Game`, loads the object data,
creates one user interface and calls `Game::run`, whose loop is: process every
object, let the user interface handle the pending events, draw now and then,
sleep, read the clock.

| Component | State | Operations | What makes it hard |
|---|---|---|---|
| Game loop (`game/Game`) | object list, players, user interface, `m_deltat`, `m_cached_elapsed_time`, `m_is_game_ended` | `run`, `processObjects`, `newObject`, `removeObject`, `removeAllObjects`, `findObjectByRect`, `endGame` | objects are added and removed while the loop runs over them: it holds an iterator and a reference, and starts over when the list changed |
| Objects (`game/Object`) | position, hit points, owner, primary and secondary order, map of actions, production queue, "cleanup called" | `init`, `cleanup`, `changeOwner`, `doOrder`, `cancelOrder`, `doAction`, `processFrame`, `hit`, `canAttack`, `checkMinDistance`, `insideRect` | an order and the actions it started advance in the same frame, each by its own conditions |
| Move (`game/orders/targeted/Order_Move`, `game/actions/targeted/Action_Move`) | start, destination, minimum distance, finished axes | `initAction`, `process`, `calculateSpeed` | the destination may be an object that moves, dies, or stands in the same pixel |
| Attack (`Order_Attack`, `Action_Attack`) | step of the order, time of the last attack | `initAction`, `process` | a state machine that alternates between hitting and following; bursts of hits in a long frame; the target killed by somebody else |
| Production (`game/UnitProductionManager`, `Order_Produce`) | queue of jobs, start time | `appendProduction`, `process`, `do_produce`, `cancelProduction` | creates objects from inside the loop over the objects |
| Supplies (`game/Player`, `Object::attachToOwner`) | two counters per player and race | `attachToOwner`, `detachFromOwner`, `changeOwner` | adjusted, never recomputed |
| Object list (`game/ObjectList`) | `std::list` of shared pointers, "iterator invalidated" | `addObject`, `removeObject`, `erase`, `clear` | the flag is the only guard of running loops |
| Targets, coordinates (`game/Target`, `game/Coordinate`) | none, a point or a shared pointer to an object | `set`, `getAsCoordinate`, `equals` | equality of floats by whole pixels; the object outlives its removal |
| Players (`game/Player`) | selection, pending order | selection, `multiDoCurrentOrder`, `setOrderTargetByCoord` | the selection keeps objects that were removed from the game |
| User interfaces (`ui/`) | viewport, selection rectangle, toast | `processFrame`, `draw` | several events per frame, between two runs of `processObjects` |
| Time (`Game::run`, `Game::getElapsedTime`, `ui/GameUI`) | clock readings of the loop, last draw, start of the toast, start of a job | the loop, `draw`, `toast`, `checkToast`, `UnitProductionManager::process` | the clock may be set back; starts are cut to whole seconds or compared with 0.0 |
| Object factory, Lua binding (`game/ObjectFactory`, `libs/luacpp`) | prototypes | `load`, `newObjectById` | data errors; clones of prototypes |
| Image files (`libs/jcimg`) | images | `load`, `getImage` | index at the boundary |
| `src/libs`, `src/tools`, `src/res_raw`, `src/msvc` | | | vendored, build time or data: not the program's own logic |

How they interact: only `Game::run` drives anything. Inside `processObjects` an
object calls its order, the order starts actions, an action may call
`Game::removeObject` on its target and the production manager may call
`Game::newObject`; both change the list the loop is walking. The user interface
runs strictly between two runs of `processObjects` and gives orders through the
player. Objects, orders, actions and selections refer to each other by shared
pointers. There are no threads, no messages and nothing is persisted, so the
interesting behaviour lies in *re-entrance* (changing the list while iterating),
*stale references* (dead targets, dead selections), *step machines that share
state* (orders and actions), *incremental accounting* and *time* (frame lengths,
the uninitialised clock of the first frame).

The correctness properties of each component:

- loop: it never holds a dangling node, it covers every object, it ends, and an
  object's turn is not repeated without need;
- list and objects: the list is exactly the objects not cleaned up, once each;
- orders and actions: actions belong to the current order; every order ends;
- attack: objects without hit points are gone, removed objects stay as they were;
- production: no job is lost or done twice, every job ends;
- supplies: the counters equal the sums over the objects owned;
- moves in the plane: nobody passes the point he goes to, exceeds his speed or
  faces elsewhere on the way, and every move ends; a pick finds what is drawn;
- players and interfaces: what the user chose reaches each selected object once,
  as an instance of its own, and nobody else; the view shows the map and clicks
  hit what is seen;
- time: the screen is drawn, toasts go and jobs get done, in bounded time, even
  when the clock is set back;
- memory: nothing outlives the game (it does, see `leak`).

`PROJECT.json` lists every component with its status and, under `hazards`, what
is hard to test, line by line.

## 2. The modules

| Module | What it is |
|---|---|
| `Movement` | the arithmetic of a move on one axis and of distances (pure operators) |
| `Geometry` | rectangles, cells of the terminal, angles and rows of images (pure operators) |
| `Supplies` | the supply counters and the operations on them (pure operators) |
| `Game` | the core: objects, orders, actions, production, the loop, the shutdown |
| `Roster` | the abstract specification `Game` implements: objects are enlisted once, discharged at most once, and the counters follow |
| `GameTurns` | `Game` with two history variables that count turns and list changes per frame |
| `GameLifetime` | what is in memory in a state of `Game`, by the reference counting of `boost::shared_ptr` |
| `Movement2D` | units that move in the plane, to points or after each other |
| `PlayerInput` | the events of the three interfaces, the player's selection and order, and which instance of an order or a job is held by whom |
| `Commander` | the abstract specification `PlayerInput` implements: select, wish, give, make |
| `GameClock` | the time of the loop: drawing, a toast, a job, the end of a game without an interface |
| `Viewport` | the part of the map the SDL interface shows, and the pointer on it |
| `MCGame`, `MCGameTurns`, `MCGameLifetime`, `MCMovement2D`, `MCPlayerInput`, `MCGameClock`, `MCViewport` | the instances for TLC |
| `RosterProofs`, `GameProofs`, `GameListProofs`, `GameFrameProofs`, `Movement2DProofs`, `PlayerInputProofs`, `GameClockProofs`, `ViewportProofs` | the theorems |

`Game` extends `Movement` and `Supplies` and instantiates `Roster` (which extends
`Supplies`) with a refinement mapping; `GameTurns` and `GameLifetime` extend `Game`.
`Geometry` extends `Movement`; `Movement2D` and `Viewport` extend `Geometry`.
`PlayerInput` instantiates `Commander`. Each of these answers a question of its own
about the same loop: `Game` has all the control of the objects with one axis, one
order at a time and abstract time, and the others refine one of these three.

### `Game`

| Variable | Code |
|---|---|
| `obj` | every `Object` ever created, by order of creation; shared pointers keep removed ones alive, so they stay |
| `objs`, `invalidated` | `Game::m_objects`: the list, and `m_iterator_invalidated` |
| `supplies` | `Player::m_crnt_supplies`, `m_supplies_in_use` |
| `pc`, `cursor`, `processed` | the handler that runs next, the iterator of the running loop, `processed_objs` |
| `delta`, `clockSet` | `m_deltat`, and whether `m_cached_elapsed_time` has been assigned |
| `ended` | `m_is_game_ended` |
| `nOrders`, `nJobs` | not in the code: they count against the bounds `MaxOrders`, `MaxJobs` |

A record of `obj` holds the prototype, owner, hit points, position, "cleanup
called" (`removed`), the order with its step, the Move and the Attack action of
`m_actions` (absent when not active), the secondary order, and the queue.

`Place` and `StartLoop` are `Game::test_tmp1`; `StartFrame`, `SkipProcessed`,
`BeginObject`, `Restart`, `Proceed`, `FinishFrame` are `processObjects`. The body
of `Object::processFrame` runs for the object at the cursor under
`pc = "order"` (`MoveOrder`, `AttackOrderStart`, `AttackOrderGo`,
`AttackOrderArrive`, `AttackOrderAttack`, `AttackOrderFollow`), `"move"`
(`MoveAction`), `"attack"` (`AttackAction`, which may remove the target), and
`"produce"` (`Working`, `Produce`). `pc = "ui"` is the user interface: any number
of `IssueMoveToPoint`, `IssueTargeted`, `IssueProduce` and `Quit`, then `Tick`, the
end of an iteration. `LeaveLoop`, `CleanupObject` and `ClearList` are `~Game`.
Each stage of `processFrame` is one atomic step: the program has one thread and
nothing else can run in between.

### The other modules

- `Movement2D`: `pos` and `move` of every unit (`m_start_point`, `m_dest`, target,
  active), `turn` and `delta`. `Begin` is `Move::Move` and `initAction`; `Walk` and
  `Catch` are the two ways through `Move::process`, with `calculateSpeed` in `Step`;
  `Tick` and `TickBack` start a frame, the latter with the clock set back. The
  invariants about picking (`PicksWhatItCovers`, `PicksWhatIsDrawn`) evaluate
  `insideRect` and the ncurses cells for wherever the units have got to.
- `PlayerInput`: orders and `ProductionInfo`s are places in a heap, so that "the
  same instance" can be told from "an equal one". One action per event of
  `GameUI_SDL::processFrame` and `GameUI_ncurses::processFrame` (`Choose`, `ProduceOwn`,
  `ProduceLauncher`, `RightClick`, `Click`, `Press`, `Release`, `Enter`); `MultiDo`
  and `MultiProduce` are `multiDoCurrentOrder` down to `Object::doOrder`, with the
  clones. The engine appears as far as it changes what the user has set up
  (`EndOrder`, `EndSecondary`, `StartJob`, `FinishJob`, `Remove`).
- `GameClock`: `spent`, `drawn`, `toast.age`, `job.age` and `played` are the clock
  readings of `Game::run`, `m_last_draw`, `m_toast.started`, `started_time` and the
  dummy interface's clock, each as its distance to the start of the iteration.
  `ProcessJob`, `ProcessUI`, `Draw`, `SkipDraw`, `Wait` are the parts of an iteration
  in their order; `WaitSetBack` is `Wait` while somebody sets the clock back. `real`
  is a history variable: the time that really passed.
- `Viewport`: `left` is `m_gamescr_left_pos`, `mouse` and `mark` are `m_mouse_pos` and
  `m_mouse_pos_in_gamescr`. `ArrowKey`, `Motion` and `Button` are events, `Scroll` the
  end of `processFrame`, `Draw` or `SkipDraw` and `Tick` or `TickBack` what `Game::run`
  does before the next one. `shown` and `sinceDrawn` are history variables.
- `GameLifetime`: no variables of its own. `InMemory` is the largest set of objects of
  which each is referred to by the list or by the target of an order or action of
  another one: what reference counting does not free.

### What is abstracted

- One horizontal line in `Game`. The vertical axis of the code is then always
  finished, and a move is finished exactly when its horizontal axis is. Positions
  are integers, `PixelSize` of them to a whole coordinate, because the code
  compares whole coordinates (`Coordinate::equals`) in one place and exact ones
  elsewhere. `Movement2D` has both axes; a component of a diagonal step is truncated
  to the grid where the code rounds it to a float. (With speeds below 2 grid
  points a step could be truncated to nothing; the instance has faster units.)
- An angle is exact along the axes and otherwise any angle of its quarter.
- Times in `Game` are *ages*: the cached clock minus the time stored. Only
  differences matter to the code. What differs is the first frame, where the
  cached clock has never been assigned: the age of an attack started then is any
  value of `StaleAges`. Ages of removed objects are frozen; nothing reads them again.
- In `GameClock` ages stop at `MaxAge`, beyond every duration; the clock itself is
  cut to its phase within a second, which is all that `toast` loses. "The clock
  happens to read exactly 0.0" may happen once after it was set back.
- `Viewport` has one axis; the other has a position of its own and the same code.
  Distances moved stop counting at `Far`, beyond which the property claims nothing.
- Bonuses are constant (multiplier 1, offset 0; nothing in the code changes
  them). Minerals, the texts of toasts and drawing are left out.
- In `Game` the user may order any object ever created, which includes the removed
  ones a selection still holds, and an order to several objects is a sequence of
  orders to one; `PlayerInput` has the selection and the instances. What a click or
  a rectangle picks is there any set of objects in the game; that it is the right
  one is `PicksWhatItCovers`.
- `ProcessResult::Finished` is 1 and `Continue` is 0, so the `return true` of an
  action means that it has finished.

## 3. The runs

| Run | Instance | Shows |
|---|---|---|
| `skirmish` | two fighters of two players and a mineral field that cannot be hit, three orders, frames of length 1 and 2, whole pixels of size 1 | `CursorStaysValid`, `ListIsRoster`, `InGameMeansAlive`, `ActionsFollowOrder`, `FrameCoversList`, `RemovedIsFinal` |
| `base` | a building and a worker that produce (two jobs) and attack, one order, pixels of 3 grid points, with the history of `GameTurns` | `TypeOK`, `SuppliesExact`, `ProductionConserved`, `TurnsJustified` |
| `chase` | a zergling sent away with a pursuer (the scenario of `test_tmp1`), a building that a worker destroys and a zergling cannot hurt; one order, one job, an uninitialised clock in the past or the future | `FrameShrinks`; `FrameEnds`, `OrdersEnd`, `JobsEnd` under fairness; `ImplementsRoster` |
| `move2d` | two units of different speed and size, two moves to three points or after each other, frames of length 1 and 2, one set-back clock, cells of 4 by 2 pixels, angles in steps of 30 degrees | `TypeOK`, `NeverPast`, `PicksWhatItCovers`, `PicksWhatIsDrawn`, `StraightIsInTime`, `LooksAhead`; `MovesEnd` under fairness |
| `input` | a unit and a building of each side, all three interfaces, selections of two, three gestures | `TypeOK`, `OrdersApart`, `JobsApart`, `ImplementsCommander` |
| `clock` | iterations of one or two ticks, periods of one and two, seconds of two, one set-back by two, two toasts, one job | `TypeOK`, `ScreenIsFresh`, `ToastStays`, `JobOnTime`; `ToastsVanish`, `JobsGetDone`, `DummyEnds` under fairness |
| `viewport` | a screen of five pixels on a map on which it can move by six, two events per frame, frames of length 1 and 3, one set-back clock | `TypeOK`, `ShowsTheMap`, `ClicksWhereItLooks`, `MarkNearTheMap`; `EdgeIsReached` under fairness |
| `double_turn` | `base` with one job | `OneTurnPerFrame` fails |
| `create_while_iterating` | `base` | `NoCreationWhileIterating` fails |
| `chase2d` | `move2d` with three moves and a clock that is not set back | `SpeedLimit` fails |
| `foreign_toast` | `input` | `ToastIsForMe` fails |
| `leak` | `skirmish` with two orders | `AllFreed` fails |

### The bounds

Kills, restarts, dead targets and dead selections need two fighters and one
bystander; three orders are enough for an order to replace another one half done
and then for the target to die. Two jobs make a queue with a waiting job, and a
producer that has its second turn in the frame of its first product. Frames of
length 1 and 2 against an attack period of 2 give frames without a hit, with one,
and (`StaleAges`) bursts. With pixels of three grid points objects meet within a
pixel, where a Move cannot be started.

In the plane, two units of speeds 3 and 2 go straight, diagonally and after each
other, arrive on the two axes in different frames, and are overtaken by a new
order half way. Their boxes are odd and even, smaller and larger than a cell.
Three gestures are a choice, a replaced choice and a click, or a selection and
two orders; a limit of two against four objects cuts selections. Iterations
shorter and longer than a period decide whether a draw is skipped; a second of
two ticks gives every phase that a toast's start can lose. In the view, two
events per frame are an arrow key past the border and a click after it; a frame
of length 1 scrolls half a pixel.

### Fairness

All of it is weak fairness of the program's own steps: `Engine` of `Game`, `Frame` of
`Movement2D`, `Loop` of `GameClock` and `Viewport`. The loop never waits for the user:
`SDL_PollEvent` returns at once and at most 1000 events are taken per frame,
ncurses reads from a non-blocking terminal, and `usleep` is bounded. The user is
never assumed to do anything, and the clock is never assumed to be set back or
not to be, only not to be for ever (`MaxSetBacks`).

`Object::hit` subtracts the armor from the damage without asking what is left.
In the object data nothing is left when `Juche_Hero_KimJeongil` (damage 1.0)
attacks a building of armor 1: an order that never ends. `OrdersEnd` names this
stand-off and says that nothing else goes on for ever, and that when the
building is destroyed by somebody else the order ends; in `chase` a zergling and
the building are so matched.

`EdgeIsReached` says what happens if the pointer comes to rest at an edge and
arrow keys are left alone, which is its premise and not a fairness of the
specification. `MovesEnd` needs no more than that the clicks end; a pursuer
whose target keeps moving gets there because the target's own Move ends.

### Disagreements between code and documentation

- `double_turn`: `processObjects` remembers the objects it has processed so that
  it can skip them when it starts over, but starts over *before* it remembers
  the object that changed the list (`game/Game.cpp:202` and `:206`). An object that
  kills or produces is processed twice in that frame with the same `deltat`: it
  moves twice. `TurnsJustified` shows that nobody else is, and `FrameShrinks` and
  `FrameEnds` that this comes to an end.
- `create_while_iterating`: `game/Game.h:55` and `:107` forbid to call `newObject` and
  `addObject` while the list is being iterated over; `UnitProductionManager::do_produce`
  does so. It does no harm to the iterator (`CursorStaysValid`).
- `chase2d`: `Move::process` tests arrival on each axis against the point where the
  move *started*, but the destination of a pursuer is read afresh in every frame.
  Once the target has crossed the start coordinate on one axis, the test holds
  wherever the pursuer is, and it is put on the target's coordinate at once:
  faster than `getNetMovingSpeed`, the "total moving speed of the object"
  (`game/Object.h:232`). On the way to a point this cannot happen (`StraightIsInTime`).
- `foreign_toast`: `Player::toast` is to issue a message "to player's screen"
  (`game/Player.h:263`), but there is one interface, and an order to somebody else's
  unit (which may be selected) that fails shows its message to whoever plays.
- `leak`: `~Game` says "almost all objects will be freed here" and of the rest that
  they "will be freed here" with the selections (`game/Game.cpp:86`, `:91`). Orders and
  actions hold shared pointers to their targets and nothing resets them, so two
  objects that attack each other, or one that was told to attack itself, stay.

## 4. The proofs

The runs check small instances; the theorems hold for every value of the
constants that satisfies the named assumptions, which are the weakest the
arguments need: that prototypes, scenarios and clicks have the shapes of the
data (`AttrAssumption`, `ScenarioAssumption`, `PointsAssumption`, `PlacesAssumption`,
`ObjectsAssumption`, ...), that scales and periods are positive (`PixelAssumption`,
`ScaleAssumption`, `TicksAssumption`, `ScreenAssumption`), and two that carry an
argument: `TicksAssumption` bounds the work and the sleep of an iteration by
`Longest`, and `CellAssumption` asks for even cells (they are 10 by 20 pixels) and
that no object of an odd size is exactly some cells and a half large.

| Module | Theorems | Argument |
|---|---|---|
| `RosterProofs` | `RosterKeepsAccounts` | `Accounts`; what a sum gains and loses with one member |
| `GameProofs` | `TypeCorrect` | `TypeOK` is inductive because it includes what pointers point to (`Linked`) |
| `GameListProofs` | `ListIntact`, `CursorIntact`, `RemovedForGood`, `GameKeepsRoster`, `SuppliesNeverDrift` | `ListInv`; the refinement of the roster, and `RosterProofs` about it |
| `GameFrameProofs` | `ActionsBelongToOrders`, `NobodySurvivesZero`, `NobodyIsForgotten`, `NoTurnsWithoutReason`, `NoJobIsLost`, `FramesShrink`, `NothingShrinksForEver` | `Conduct`, object by object; `FrameInv` and `TurnsInv`; `ProductionInv`; the measure `LeftToDo` |
| `PlayerInputProofs` | `InputTypeCorrect`, `EverybodysOwnOrder`, `EverybodysOwnJob`, `KeepsThePromise` | `TypeOK`, `OrdersApart`, `JobsApart` together |
| `Movement2DProofs` | `FieldTypeCorrect`, `UnitsStopThere`, `StraightWaysInTime`, `UnitsLookAhead`, `RectanglesExact`, `TerminalIsExact` | `AllOnTheWay`; lemmas on `Part`, `Spans`, `Rounded`, `Row` |
| `GameClockProofs` | `ClockTypeCorrect`, `ScreenStaysFresh`, `JobsTakeTheirTime`, `ToastsStayTheirTime` | `ClockInv` |
| `ViewportProofs` | `ViewTypeCorrect`, `MapFillsTheScreen`, `AimIsTrue`, `ClicksStayNear` | `ViewInv` |

Why the inductive invariants are what they are:

- **The list.** The loop's reference survives a kill only because an object never
  attacks itself, so `ListInv` adds `NobodyAttacksItself` to `ListIsRoster` and
  `CursorStaysValid`. From the list being the roster it follows that the object at
  the cursor is in the game, so its handlers never move a removed object; the
  target of a hit is in the game because `canAttack` says so. For the refinement of
  `Roster` each action is one operation of the roster or a stutter, and leaves the
  posts of the objects (`Posted`) as that operation says.
- **Supplies.** `SuppliesExact` compares counters with sums over sets of any size, so
  it is proved where the sets change by one member: in the roster. What a sum gains
  with one more member (`SumAdds`, `SumTakesOut`) would usually be shown by induction
  on the set, with a theorem whose parameter is an operator; instead `SumExists` and
  `SumUnique` take the least number of members for which the claim fails and
  lead it to a contradiction. `Accounts` adds to the ledger that the members are
  finitely many and of the right shape. The game inherits the result: its steps are
  the roster's (`RosterStep`), and the facts about the roster hold under the
  refinement mapping (`Books` is `RosterProofs` instantiated).
- **Production.** `Jobs` is the set of places in the queues that hold a job. A step
  leaves all queues as long as they are (`SameJobs`), or the user's order adds a place
  at the end of one (`JobQueued`), or a delivery takes one out and adds an object
  whose own queue is empty (`JobDelivered`). `ProductionInv` adds that before the loop
  starts nothing is queued.
- **Conduct.** `ActionsFollowOrder` and `InGameMeansAlive` speak of one object each
  (`Follows`, `Healthy`), and every handler changes one or two: lemmas say what it
  leaves alone, and for a burst of hits, that it stops at the first one that kills.
- **Turns.** `FrameCoversList` alone says nothing before the loop is done. `Behind`
  does: every object before the cursor has been processed, *unless the list has
  just been changed*, in which case the loop starts over from the first. For the
  number of turns, `Credit` is the turn an object has had and not yet paid for
  with a change of the list; it is at most one.
- **The end of a frame.** `LeftToDo` is, most significant first: the objects alive plus
  twice the jobs queued; whether the list has changed unnoticed; the objects not yet
  processed; the nodes ahead of the cursor; the handlers ahead in `processFrame`. A
  delivery trades a job for an object (2 for 1), a kill takes an object, a restart
  takes the flag, `Proceed` marks an object that was unmarked (`FrameInv`), a skip
  passes a node, and a handler hands over to a later one. `FramesShrink` proves this
  of every step and `NothingShrinksForEver` that such a measure cannot fall for ever.
  That the steps are *taken* is fairness, and `FrameEnds` stays with TLC.
- **Orders and jobs.** An order stays with its object because a clone is put where
  the heap is still free; that the free part is never referred to is in `TypeOK`.
  The refinement of `Commander` then follows step by step; its lemmas are about
  how a queue of jobs looks from outside after `Append` and `Tail`.
- **Moves.** `NeverPast` would allow a unit to leave a line along which it has no
  way to go; `AllOnTheWay` does not. That a diagonal step is no longer than the
  speed allows rests on `PartProperties`: the parts are roots rounded down, the sum
  of whose squares is at most the square of the whole. The heading of a step agrees
  with the way as a whole (`LandingAhead`), as does the row of images (`RowShows`).
- **Picking.** `OverlapsExactly` reduces `insideRect` to "there is a common pixel".
  For the terminal, both roundings err by at most half a cell, and where both err
  the same way by exactly half a cell the assumption on odd sizes is needed.
- **Time.** `DrawnInTime`, `ToastInTime`, `JobInTime` bound every clock reading at every
  part of the loop; a toast needs the last draw as well, because that is what kept
  it on the screen, and a job pays one iteration for each reading of 0.0.
- **The view.** Within a frame it may be past the borders by as much as the arrow
  keys of the frame can do (`WithinReach`), after the frame never; and it is no
  farther from where it was drawn than the user has moved it (`NearShown`).

Every safety invariant and action property of the passing runs and both refinements
are proved. Only model-checked: liveness (`FrameEnds`, `OrdersEnd`, `JobsEnd`, `MovesEnd`,
`ToastsVanish`, `JobsGetDone`, `DummyEnds`, `EdgeIsReached`), which needs fairness and
ENABLED and is out of the prover's reach; for `FrameEnds` the part that does not need
them is `FramesShrink`.

## 5. What is not modelled, and why

- The object factory and the Lua binding: the object data are read once, before
  the game starts, and nothing reads them again. They are the constant `Attr`, whose
  assumption says what a table must hold.
- Image files (`libs/jcimg`): input of the drawing; nothing of the game depends on
  them. The boundary check of `getImage` is listed as a hazard.
- Drawing: what is drawn where is modelled as far as the user's actions depend on
  it (the view, the cells of the terminal, the row that shows an angle); the
  animation column, texts and colours are output that nothing reads.
- The cursor keys of ncurses: they count up and down; `PicksWhatIsDrawn` holds for
  the cursor on any cell that shows something.
- Setting up windows, errors while loading, exceptions, assertions, platform
  wrappers: no state of the game.
- `multiCancelOrder`, which nothing calls (a mutant of `DoOrder` shows what leaving the
  actions running would break), and `ObjectList::clear` not marking iterators, which
  nothing can notice: its callers hold none.
- A fight in which armor exceeds damage, in which every hit would heal: hit points
  only grow, in the code as in a model, and no two objects of the shipped data are
  so matched. Armor that equals damage occurs and is checked (`chase`).
- `src/libs`, `src/tools`, `src/res_raw`, `src/platform_local`, `src/msvc`: third-party code,
  build-time tools and data, except for the reference counting of boost's
  `shared_ptr` (`GameLifetime`, from `smart_ptr/detail/shared_count.hpp` and
  `sp_counted_base_gcc_x86.hpp`, which a gcc build on x86 takes). They are nearly all of the repository's lines; the
  program's own logic is some five thousand.

## 6. Plan

Done: the loop, the objects, their orders, actions and production, the roster;
turns; moves in the plane; picking; the player, the three interfaces and the
commander; the time of the loop; the view; what stays in memory; and the proofs
of the invariants and refinements above.

Left, should the code grow that way: several orders at once between two frames
composed with `Game` (today the two are composed by hand: what `PlayerInput` gives
an object is what `Game` lets the user order); the weak pointers that
`game/Object.h:42` asks for, which would make `AllFreed` a theorem; minerals, once the
code lets anybody gather them.
