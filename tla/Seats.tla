------------------------------- MODULE Seats --------------------------------
(***************************************************************************)
(* What the rest of darmie may take the registry for: a book of rooms, and *)
(* of the users seated in each, that changes by one room or one seat at a  *)
(* time.  No room outgrows its cap, no two rooms have one name.  Module    *)
(* Presence, with its locks and goroutines, is shown to implement it; the  *)
(* modules RoomViews, RoomList and Chat begin from its atomic steps.       *)
(***************************************************************************)
EXTENDS FiniteSets, Integers

CONSTANTS RoomId, User, FoldedName, MaxRooms, MaxRoomSize

VARIABLES
    open,    \* the rooms that exist
    seated   \* room -> the users with a seat in it

seatVars == <<open, seated>>

Init ==
    /\ open = {}
    /\ seated = [r \in RoomId |-> {}]

Create(r) ==
    /\ r \notin open
    /\ Cardinality(open) < MaxRooms
    /\ \A s \in open : FoldedName[s] # FoldedName[r]
    /\ open' = open \cup {r}
    /\ UNCHANGED seated

\* A user who sits down again keeps the seat, or finds the room full.
Sit(u, r) ==
    /\ r \in open
    /\ Cardinality(seated[r]) < MaxRoomSize
    /\ seated' = [seated EXCEPT ![r] = @ \cup {u}]
    /\ UNCHANGED open

Leave(u, r) ==
    /\ u \in seated[r]
    /\ seated' = [seated EXCEPT ![r] = @ \ {u}]
    /\ UNCHANGED open

Next == \E r \in RoomId :
            \/ Create(r)
            \/ \E u \in User : Sit(u, r) \/ Leave(u, r)

Spec == Init /\ [][Next]_seatVars

=============================================================================
