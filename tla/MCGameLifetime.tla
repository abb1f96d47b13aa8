--------------------------- MODULE MCGameLifetime ---------------------------
(***************************************************************************)
(* The skirmish of MCGame for GameLifetime.                                *)
(***************************************************************************)
EXTENDS MCGame, GameLifetime

=============================================================================
