---------------------------- MODULE MCRoomViews -----------------------------
(***************************************************************************)
(* Instances of RoomViews for TLC.                                         *)
(***************************************************************************)
EXTENDS RoomViews, TLC

CONSTANTS ann, ben, cat, r1, r2

\* Users are interchangeable, and so are rooms.
Symmetry == Permutations(User) \cup Permutations(Room)

=============================================================================
