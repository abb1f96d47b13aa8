----------------------------- MODULE MCViewport -----------------------------
(***************************************************************************)
(* A small screen for Viewport: five pixels, the first two and the last of *)
(* which scroll, over a map on which the view can move by six pixels.      *)
(***************************************************************************)
EXTENDS Viewport

(* The clock set back by the length of a short frame.                        *)
BackOne == -1

=============================================================================
