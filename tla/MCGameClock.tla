---------------------------- MODULE MCGameClock ----------------------------
(***************************************************************************)
(* Small numbers for GameClock.  An iteration takes one or two ticks, a    *)
(* period is one or two and a second two, so that iterations shorter and   *)
(* longer than a period both occur; the real ones are 5 ms and a little,   *)
(* 10, 50 or 125 ms, and a second.                                         *)
(***************************************************************************)
EXTENDS GameClock

Periods == [SDL |-> 1, ncurses |-> 2, dummy |-> 1]

=============================================================================
