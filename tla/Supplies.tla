------------------------------ MODULE Supplies ------------------------------
(***************************************************************************)
(* The supply counters of the players: for every player and race the       *)
(* amount provided (m_crnt_supplies) and the amount used                   *)
(* (m_supplies_in_use).  They are counters, adjusted when an object is     *)
(* attached to or detached from its owner, never recomputed.               *)
(***************************************************************************)
EXTENDS Integers

CONSTANTS
  Proto,     \* the object prototypes (ObjectId)
  Races,     \* RaceId
  Players,   \* the players of the game, the neutral one included
  Attr       \* the constant attributes of each prototype

ASSUME SuppliesAssumption ==
  \A pr \in Proto : /\ Attr[pr].race \in Races
                    /\ Attr[pr].provided \in Int /\ Attr[pr].required \in Int

Counter == [cur: Int, use: Int]

NoSupplies == [p \in Players |-> [r \in Races |-> [cur |-> 0, use |-> 0]]]

(* Object::attachToOwner, for an object of prototype pr owned by p.         *)
Attach(ledger, p, pr) ==
  [ledger EXCEPT ![p][Attr[pr].race] =
     [cur |-> @.cur + Attr[pr].provided, use |-> @.use + Attr[pr].required]]

(* Object::detachFromOwner.                                                 *)
Detach(ledger, p, pr) ==
  [ledger EXCEPT ![p][Attr[pr].race] =
     [cur |-> @.cur - Attr[pr].provided, use |-> @.use - Attr[pr].required]]

(* Object::changeOwner.                                                     *)
ChangeOwner(ledger, from, to, pr) == Attach(Detach(ledger, from, pr), to, pr)

=============================================================================
