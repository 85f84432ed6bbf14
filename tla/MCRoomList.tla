----------------------------- MODULE MCRoomList -----------------------------
(***************************************************************************)
(* Instances of RoomList for TLC.                                          *)
(***************************************************************************)
EXTENDS RoomList, TLC

CONSTANTS ann, ben, cat, r1, r2, r3

Symmetry == Permutations({ann, ben, cat}) \cup Permutations({r1, r2})

=============================================================================
