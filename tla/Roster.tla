------------------------------- MODULE Roster -------------------------------
(***************************************************************************)
(* What the game promises about its objects and the supplies of their      *)
(* owners, with no loop, list or handler in sight: objects are enlisted    *)
(* for an owner once, are discharged at most once, and each of the two     *)
(* adjusts the counters of that owner by exactly the object's share.       *)
(***************************************************************************)
EXTENDS Supplies, FiniteSetsExt

VARIABLES
  enlisted,   \* how many objects there have been; their names are 1..enlisted
  post,       \* prototype and owner of every object now in the game
  supplies    \* the supply counters

rosterVars == <<enlisted, post, supplies>>

Post == [proto: Proto, owner: Players]

RosterInit == enlisted = 0 /\ post = <<>> /\ supplies = NoSupplies

Enlist(pr, p) ==
  /\ enlisted' = enlisted + 1
  /\ post' = [o \in DOMAIN post \union {enlisted + 1} |->
                IF o \in DOMAIN post THEN post[o]
                ELSE [proto |-> pr, owner |-> p]]
  /\ supplies' = Attach(supplies, p, pr)

Discharge(o) ==
  /\ post' = [x \in DOMAIN post \ {o} |-> post[x]]
  /\ supplies' = Detach(supplies, post[o].owner, post[o].proto)
  /\ UNCHANGED enlisted

RosterNext ==
  \/ \E pr \in Proto, p \in Players : Enlist(pr, p)
  \/ \E o \in DOMAIN post : Discharge(o)

RosterSpec == RosterInit /\ [][RosterNext]_rosterVars

(* A player's objects of one race.                                          *)
Held(p, r) ==
  {o \in DOMAIN post : post[o].owner = p /\ Attr[post[o].proto].race = r}

(* What every object provides and what it requires.                          *)
Provided == [o \in DOMAIN post |-> Attr[post[o].proto].provided]
Required == [o \in DOMAIN post |-> Attr[post[o].proto].required]

(* The counters, which are only ever adjusted, always equal the sums over    *)
(* the objects the player has in the game.                                   *)
LedgerExact ==
  \A p \in Players, r \in Races :
    /\ supplies[p][r].cur = SumFunctionOnSet(Provided, Held(p, r))
    /\ supplies[p][r].use = SumFunctionOnSet(Required, Held(p, r))

=============================================================================
