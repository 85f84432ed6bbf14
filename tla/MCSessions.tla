----------------------------- MODULE MCSessions -----------------------------
(***************************************************************************)
(* Instances of Sessions for TLC.  With Name = {ann, ben} a run takes      *)
(* about twice as long, and the same properties hold.                      *)
(***************************************************************************)
EXTENDS Sessions, TLC

CONSTANTS tab1, tab2, ann, ben, t1, t2, c1, c2

\* Tabs, sockets, names and tokens are interchangeable.
Symmetry == Permutations(Tab) \cup Permutations(Conn)
                \cup Permutations(Name) \cup Permutations(Token)

=============================================================================
