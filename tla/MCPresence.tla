----------------------------- MODULE MCPresence -----------------------------
(***************************************************************************)
(* Instances of Presence for TLC.                                          *)
(***************************************************************************)
EXTENDS Presence, TLC

CONSTANTS c1, c2, c3, u1, u2, u3, r1, r2

\* c1 and c2 are two tabs of u1 (README.md: "two or more browser tabs").
TwoTabs == c1 :> {u1} @@ c2 :> {u1}

\* Everyone is somebody else.
UserOf == c1 :> u1 @@ c2 :> u2 @@ c3 :> u3
Unshared == [c \in Conn |-> {UserOf[c]}]

\* Rooms with names of their own.
OwnNames == r1 :> "alpha" @@ r2 :> "beta"
OneName  == r1 :> "alpha"

\* Users that have one connection each are interchangeable with it.
WithUsers(f) == f @@ u1 :> UserOf[f[c1]] @@ u2 :> UserOf[f[c2]]
                  @@ u3 :> UserOf[f[c3]]
UserSymmetry == {WithUsers(f) : f \in Permutations({c1, c2, c3})}

\* Tabs of one user, and rooms with names of their own, are interchangeable.
TabSymmetry == Permutations({c1, c2}) \cup Permutations({r1, r2})

=============================================================================
