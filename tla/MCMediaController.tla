------------------------- MODULE MCMediaController --------------------------
(***************************************************************************)
(* Instances of MediaController for TLC.                                   *)
(***************************************************************************)
EXTENDS MediaController

CONSTANTS m1, m2, v1, s1, s2

=============================================================================
