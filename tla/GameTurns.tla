----------------------------- MODULE GameTurns -----------------------------
(***************************************************************************)
(* Game with two history variables: how often each object has been given   *)
(* its turn (Object::processFrame) in the current frame, and how often it   *)
(* has changed the object list in that frame.  They observe Game's steps    *)
(* and restrict none.                                                       *)
(***************************************************************************)
EXTENDS Game

VARIABLES
  turns,     \* calls of processFrame in this frame, for each object
  changes    \* additions and removals made by the object in this frame

(* The counters of all objects, where the one at the cursor counts on if    *)
(* something happens; they are reset when a frame begins.                   *)
Counted(count, happens) ==
  [o \in DOMAIN obj' |->
     IF pc = "loop" \/ o \notin DOMAIN obj THEN 0
     ELSE count[o] + (IF happens /\ o = cursor THEN 1 ELSE 0)]

TurnsInit == Init /\ turns = <<>> /\ changes = <<>>

TurnsNext ==
  /\ Next
  /\ turns' = Counted(turns, pc = "object" /\ pc' = "order")
  /\ changes' = Counted(changes, Processing /\ objs' # objs)

turnsVars == <<vars, turns, changes>>

TurnsSpec == TurnsInit /\ [][TurnsNext]_turnsVars

(* When processObjects returns, every object of the list has had its turn,  *)
(* the new ones included, and nobody has had an additional turn on account  *)
(* of what another object did: an object is processed again only if it      *)
(* changed the list itself.                                                 *)
TurnsJustified ==
  pc = "object" /\ cursor = End =>
    \A i \in DOMAIN objs :
      1 <= turns[objs[i]] /\ turns[objs[i]] <= 1 + changes[objs[i]]

(* Game.h, on processObjects: "Iterates over object list and process each   *)
(* object", with a set of the objects already processed: no object has two  *)
(* turns in one frame.                                                      *)
OneTurnPerFrame == \A o \in DOMAIN turns : turns[o] <= 1

=============================================================================
