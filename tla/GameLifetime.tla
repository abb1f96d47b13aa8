---------------------------- MODULE GameLifetime ----------------------------
(***************************************************************************)
(* Which objects of Game are still in memory.  ObjectPtr is the shared_ptr *)
(* of the boost headers in libs/: it counts references, and an object goes *)
(* when nobody refers to it any more.  The game's list refers to objects,  *)
(* and so do the targets of the orders and actions that the objects own;   *)
(* the objects the user has selected are left out, as they only matter     *)
(* while the players exist.                                                *)
(***************************************************************************)
EXTENDS Game

(* Target::m_target of o's order and of its actions.                        *)
Targets(o) ==
  {t \in {obj[o].order.target, obj[o].move.target, obj[o].attack.target} :
     t.type = "Object"}

RefersTo(o) == {t.obj : t \in Targets(o)}

(* Reference counting keeps a set of objects of which each is referred to by *)
(* the list or by another one of the set.                                   *)
KeepsItself(S) ==
  \A o \in S : InList(o) \/ \E p \in S : o \in RefersTo(p)

InMemory == UNION {S \in SUBSET DOMAIN obj : KeepsItself(S)}

(* Game::~Game, "almost all objects will be freed here", and then those the  *)
(* player had selected: when it is over, no object is left.                  *)
AllFreed == pc = "exited" => InMemory = {}

=============================================================================
