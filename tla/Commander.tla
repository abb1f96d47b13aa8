----------------------------- MODULE Commander -----------------------------
(***************************************************************************)
(* What a user interface and its Player promise to the user, whatever keys *)
(* and buttons there are: some objects are selected, a kind of order may   *)
(* have been chosen that still wants a target, and a command goes to each  *)
(* selected object and to no other, which then has it until it is done.    *)
(***************************************************************************)
EXTENDS Sequences

CONSTANTS
  Objects,   \* all objects
  Units,     \* those that are units
  Mine,      \* those the player owns
  Kinds,     \* kinds of orders that want a target
  Targets,   \* what they can be given
  Products   \* what can be produced

VARIABLES
  selected,  \* the selected objects
  wish,      \* the kind of order that wants a target, or "None"
  doing,     \* the command every object carries out
  making     \* what every object has been told to produce, in order

cvars == <<selected, wish, doing, making>>

Command == [kind: Kinds, target: Targets]
Nothing == [kind |-> "None", target |-> 0]

(* Units are not selected together with other things, and one's own things  *)
(* not with those of others, but units of all sides are.                    *)
Selectable(S) ==
  \/ S \subseteq Units
  \/ S \cap Units = {} /\ (S \subseteq Mine \/ S \cap Mine = {})

CInit ==
  /\ selected = {} /\ wish = "None"
  /\ doing \in [Objects -> Command \cup {Nothing}]
  /\ making = [o \in Objects |-> <<>>]

Select ==
  /\ selected' \in SUBSET Objects /\ Selectable(selected')
  /\ UNCHANGED <<wish, doing, making>>

Wish ==
  /\ wish' \in Kinds
  /\ UNCHANGED <<selected, doing, making>>

Give(c) ==
  /\ doing' = [o \in Objects |-> IF o \in selected THEN c ELSE doing[o]]
  /\ wish' = "None"
  /\ UNCHANGED <<selected, making>>

(* What was wished for, or a Move without a wish.                           *)
GiveSome ==
  \E k \in {wish, "Move"} \ {"None"}, t \in Targets :
    Give([kind |-> k, target |-> t])

(* Every selected object is told to make something; that may end the wish.  *)
Make ==
  /\ \E f \in [Objects -> Products] :
       making' = [o \in Objects |-> IF o \in selected
                                    THEN Append(making[o], f[o])
                                    ELSE making[o]]
  /\ wish' \in {wish, "None"}
  /\ UNCHANGED <<selected, doing>>

Done(o) ==
  /\ doing' = [doing EXCEPT ![o] = Nothing]
  /\ UNCHANGED <<selected, wish, making>>

Made(o) ==
  /\ making[o] # <<>>
  /\ making' = [making EXCEPT ![o] = Tail(@)]
  /\ UNCHANGED <<selected, wish, doing>>

CNext ==
  \/ Select \/ Wish \/ GiveSome \/ Make
  \/ \E o \in Objects : Done(o) \/ Made(o)

CSpec == CInit /\ [][CNext]_cvars

=============================================================================
