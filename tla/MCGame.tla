------------------------------- MODULE MCGame -------------------------------
(***************************************************************************)
(* Small instances of Game: the prototypes keep the relations of the       *)
(* object data (a fighter that outranges nobody, a worker, a mineral field *)
(* that cannot be hit), the numbers are scaled down.                       *)
(***************************************************************************)
EXTENDS Game

Unit(race, hp, damage, armor, speed, range) ==
  [race |-> race, invincible |-> FALSE, maxHP |-> hp, provided |-> 0,
   required |-> 1, armor |-> armor, damage |-> damage, speed |-> speed,
   period |-> 2, range |-> range, radius |-> 0]

(* Zerg_Zergling, Juche_AojiWorker, a building and a mineral field.         *)
MCAttr ==
  [pr \in Proto |->
     CASE pr = "Zergling" -> Unit("Zerg", 2, 1, 0, 2, 1)
       [] pr = "Worker"   -> Unit("Juche", 3, 2, 0, 1, 1)
       [] pr = "Center"   -> [Unit("Juche", 2, 0, 1, 0, 0) EXCEPT
                                !.provided = 9, !.required = 0]
       [] pr = "Mineral"  -> [Unit("Neutral", -1, 0, 0, 0, 0) EXCEPT
                                !.invincible = TRUE, !.required = 0]]

At(pr, p, x) == [proto |-> pr, owner |-> p, at |-> x, order |-> NoOrder]

(* test_tmp1: a zergling sent away and somebody sent after it, here another *)
(* zergling, beside a worker that destroys a building.  The damage of a     *)
(* zergling is the armor of the building, as with Juche_Hero_KimJeongil and *)
(* Terran_CommandCenter: whoever is ordered to join the worker may find the *)
(* building gone on the way, or stand before it and do no harm.             *)
Chase ==
  <<At("Center", "p1", 6),
    [At("Zergling", "p1", 1) EXCEPT !.order = NewOrder("Move", ToCoordinate(4))],
    [At("Worker", "p1", 7) EXCEPT !.order = NewOrder("Attack", ToObject(1))],
    [At("Zergling", "p1", 0) EXCEPT !.order = NewOrder("Attack", ToObject(2))]>>

(* Two fighters of different owners and a mineral field.                    *)
Skirmish ==
  <<At("Mineral", "neutral", 2), At("Zergling", "p1", 0),
    At("Worker", "p2", 3)>>

(* A building and a unit that can both be told to produce.                  *)
Base == <<At("Center", "p1", 3), At("Worker", "p1", 4)>>

(* The uninitialised clock of the first frame: past, present or future.     *)
AnyAges == {-1, 7}

=============================================================================
