---------------------------- MODULE MCGameTurns ----------------------------
(***************************************************************************)
(* The instances of MCGame with the history of GameTurns.                  *)
(***************************************************************************)
EXTENDS MCGame, GameTurns

=============================================================================
