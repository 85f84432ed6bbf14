------------------------------ MODULE RoomList ------------------------------
(***************************************************************************)
(* The room lists in the sidebars.                                         *)
(*                                                                         *)
(* After a change to the rooms or their members the goroutine that made it *)
(* takes a list of all rooms (ListRooms, one room at a time under g.mu and *)
(* r.mu) and sends it to everybody else (broadcastRoomList).  The          *)
(* goroutines of different connections do so side by side, so a list may   *)
(* be overtaken by a change made after it was taken, and by that change's  *)
(* list.                                                                   *)
(*                                                                         *)
(* `listed` is what a page lists once it has taken all that was sent to it *)
(* so far: it takes messages in order, and each replaces the list or adds  *)
(* to it.                                                                  *)
(***************************************************************************)
EXTENDS FiniteSets, Integers

CONSTANTS
    User,          \* signed-in users, one connection each
    Room,          \* rooms that may be created
    NoRoom,
    FirstRooms,    \* the rooms at the start
    MaxRoomSize,   \* the seat cap
    MaxMoves       \* bound: frames of all users, and disconnects

ASSUME RoomListAssumption ==
    /\ IsFiniteSet(User) /\ IsFiniteSet(Room)
    /\ NoRoom \notin Room /\ FirstRooms \subseteq Room
    /\ MaxRoomSize \in Nat \ {0} /\ MaxMoves \in Nat

VARIABLES
    rooms,      \* Registry.rooms
    seat,       \* the room a user has its seat in
    handler,    \* where a user's reader (its closer, at the end) is
    goal,       \* the room a join frame asks for, the room just created
    unscanned,  \* rooms ListRooms has still to count
    infos,      \* the entries ListRooms has collected
    unsent,     \* users the list has still to be sent to
    leaving,    \* the handler is handleDisconnect
    listed,     \* state.rooms of a page: entries, `pushed` by room_created
    overtaken,  \* history: a change came after ListRooms began; for a handler
    behind,     \* history: the last list sent to the user was overtaken, or
                \* a join has given up a seat since and sent no list yet
    own,        \* history: the user changed something, or got room_created,
                \* after its last list
    moves

serverVars == <<rooms, seat, handler, goal, unscanned, infos, unsent, leaving>>
historyVars == <<overtaken, behind, own>>
vars == <<serverVars, listed, historyVars, moves>>

Entry == [room : Room, count : Nat, pushed : BOOLEAN]

TypeOK ==
    /\ rooms \subseteq Room
    /\ seat \in [User -> Room \cup {NoRoom}]
    /\ handler \in [User -> {"idle", "joining", "created", "changed",
                             "listing", "sending", "off"}]
    /\ goal \in [User -> Room \cup {NoRoom}]
    /\ unscanned \in [User -> SUBSET Room]
    /\ \A u \in User : infos[u] \subseteq Entry
    /\ unsent \in [User -> SUBSET User]
    /\ leaving \in [User -> BOOLEAN]
    /\ \A u \in User : listed[u] \subseteq Entry
    /\ overtaken \in [User -> BOOLEAN]
    /\ behind \in [User -> BOOLEAN]
    /\ own \in [User -> BOOLEAN]
    /\ moves \in 0..MaxMoves
    \* A list never has two entries of a room, nor one of a room that is not.
    /\ \A u \in User : \A e, f \in infos[u] :
           (e.room = f.room => e = f) /\ e.room \in rooms \ unscanned[u]

Members(r) == {u \in User : seat[u] = r}

Info(r) == [room |-> r, count |-> Cardinality(Members(r)), pushed |-> FALSE]

Current == {Info(r) : r \in rooms}

Init ==
    /\ rooms = FirstRooms
    /\ seat = [u \in User |-> NoRoom]
    /\ handler = [u \in User |-> "idle"]
    /\ goal = [u \in User |-> NoRoom]
    /\ unscanned = [u \in User |-> {}]
    /\ infos = [u \in User |-> {}]
    /\ unsent = [u \in User |-> {}]
    /\ leaving = [u \in User |-> FALSE]
    /\ listed = [u \in User |->
                    {[room |-> r, count |-> 0, pushed |-> FALSE] : r \in rooms}]
    /\ overtaken = [u \in User |-> FALSE]
    /\ behind = [u \in User |-> FALSE]
    /\ own = [u \in User |-> FALSE]
    /\ moves = 0

-----------------------------------------------------------------------------
(* Helpers *)

Frame(u) ==
    /\ handler[u] = "idle"
    /\ moves < MaxMoves
    /\ moves' = moves + 1

Goto(u, pc) == handler' = [handler EXCEPT ![u] = pc]

\* u changes something: every list that is being taken or sent falls behind.
Changes(u) ==
    /\ overtaken' = [v \in User |-> overtaken[v] \/ v # u]
    /\ own' = [own EXCEPT ![u] = TRUE]
    /\ UNCHANGED behind

\* A join gives the old seat up; its list comes later, or, if it is refused,
\* not at all.
GivesUpSeat(u) ==
    /\ overtaken' = [v \in User |-> overtaken[v] \/ v # u]
    /\ own' = [own EXCEPT ![u] = TRUE]
    /\ behind' = [v \in User |-> behind[v] \/ v # u]

\* broadcastRoomList(c.userID): everybody registered but the user itself.
MutOthers(u) == {v \in User \ {u} : seat[v] # NoRoom}
Others(u) == {v \in User \ {u} : handler[v] # "off"}

\* What ListRooms iterates over.
RoomsToScan == rooms

\* g.mu is held for reading while ListRooms counts.
GMuFree == \A u \in User : handler[u] # "listing"

-----------------------------------------------------------------------------
(* Frames *)

\* list_rooms: a page asks after sign-in; the list goes to the user alone.
ListRoomsFrame(u) ==
    /\ Frame(u)
    /\ unscanned' = [unscanned EXCEPT ![u] = RoomsToScan]
    /\ infos' = [infos EXCEPT ![u] = {}]
    /\ unsent' = [unsent EXCEPT ![u] = {u}]
    /\ overtaken' = [overtaken EXCEPT ![u] = FALSE]
    /\ Goto(u, "listing")
    /\ UNCHANGED <<rooms, seat, goal, leaving, listed, behind, own>>

CreateRoom(u, r) ==
    /\ Frame(u)
    /\ GMuFree
    /\ r \notin rooms
    /\ rooms' = rooms \cup {r}
    /\ goal' = [goal EXCEPT ![u] = r]
    /\ Changes(u)
    /\ Goto(u, "created")
    /\ UNCHANGED <<seat, unscanned, infos, unsent, leaving, listed>>

\* room_created goes to the creator, whose page pushes it onto its list, even
\* when another handler's list has brought the room already.
SendRoomCreated(u) ==
    /\ handler[u] = "created"
    /\ listed' = [listed EXCEPT ![u] =
                     @ \cup {[room |-> goal[u], count |-> 0, pushed |-> TRUE]}]
    /\ goal' = [goal EXCEPT ![u] = NoRoom]
    /\ own' = [own EXCEPT ![u] = TRUE]
    /\ Goto(u, "changed")
    /\ UNCHANGED <<rooms, seat, unscanned, infos, unsent, leaving, overtaken,
                   behind, moves>>

\* join_room: the old seat is given up first.
JoinRoom(u, r) ==
    /\ Frame(u)
    /\ r \in rooms \ {seat[u]}
    /\ seat' = [seat EXCEPT ![u] = NoRoom]
    /\ goal' = [goal EXCEPT ![u] = r]
    /\ IF seat[u] = NoRoom THEN UNCHANGED historyVars ELSE GivesUpSeat(u)
    /\ Goto(u, "joining")
    /\ UNCHANGED <<rooms, unscanned, infos, unsent, leaving, listed>>

TakeSeat(u) ==
    /\ handler[u] = "joining"
    /\ Cardinality(Members(goal[u])) < MaxRoomSize
    /\ seat' = [seat EXCEPT ![u] = goal[u]]
    /\ goal' = [goal EXCEPT ![u] = NoRoom]
    /\ Changes(u)
    /\ Goto(u, "changed")
    /\ UNCHANGED <<rooms, unscanned, infos, unsent, leaving, listed, moves>>

\* The room is full: an error, and no broadcast of the seat given up.
JoinRefused(u) ==
    /\ handler[u] = "joining"
    /\ Cardinality(Members(goal[u])) >= MaxRoomSize
    /\ goal' = [goal EXCEPT ![u] = NoRoom]
    /\ Goto(u, "idle")
    /\ UNCHANGED <<rooms, seat, unscanned, infos, unsent, leaving, listed,
                   historyVars, moves>>

LeaveRoom(u) ==
    /\ Frame(u)
    /\ seat[u] # NoRoom
    /\ seat' = [seat EXCEPT ![u] = NoRoom]
    /\ Changes(u)
    /\ Goto(u, "changed")
    /\ UNCHANGED <<rooms, goal, unscanned, infos, unsent, leaving, listed>>

\* handleDisconnect.
Disconnect(u) ==
    /\ Frame(u)
    /\ seat' = [seat EXCEPT ![u] = NoRoom]
    /\ leaving' = [leaving EXCEPT ![u] = TRUE]
    /\ Changes(u)
    /\ Goto(u, "changed")
    /\ UNCHANGED <<rooms, goal, unscanned, infos, unsent, listed>>

-----------------------------------------------------------------------------
(* broadcastRoomList and ListRooms *)

StartList(u) ==
    /\ handler[u] = "changed"
    /\ unscanned' = [unscanned EXCEPT ![u] = RoomsToScan]
    /\ infos' = [infos EXCEPT ![u] = {}]
    /\ overtaken' = [overtaken EXCEPT ![u] = FALSE]
    /\ Goto(u, "listing")
    /\ UNCHANGED <<rooms, seat, goal, unsent, leaving, listed, behind, own, moves>>

ScanRoom(u, r) ==
    /\ handler[u] = "listing"
    /\ r \in unscanned[u]
    /\ unscanned' = [unscanned EXCEPT ![u] = @ \ {r}]
    /\ infos' = [infos EXCEPT ![u] = @ \cup {Info(r)}]
    /\ UNCHANGED <<rooms, seat, handler, goal, unsent, leaving, listed,
                   historyVars, moves>>

\* AuthedClientsExcept; for list_rooms the audience is set already.
Listed(u) ==
    /\ handler[u] = "listing"
    /\ unscanned[u] = {}
    /\ unsent' = [unsent EXCEPT ![u] = IF @ = {u} THEN @ ELSE Others(u)]
    /\ Goto(u, "sending")
    /\ UNCHANGED <<rooms, seat, goal, unscanned, infos, leaving, listed,
                   historyVars, moves>>

SendList(u, v) ==
    /\ handler[u] = "sending"
    /\ v \in unsent[u]
    /\ unsent' = [unsent EXCEPT ![u] = @ \ {v}]
    /\ listed' = [listed EXCEPT ![v] = infos[u]]
    /\ behind' = [behind EXCEPT ![v] = overtaken[u]]
    /\ own' = [own EXCEPT ![v] = FALSE]
    /\ UNCHANGED <<rooms, seat, handler, goal, unscanned, infos, leaving,
                   overtaken, moves>>

Sent(u) ==
    /\ handler[u] = "sending" /\ unsent[u] = {}
    /\ infos' = [infos EXCEPT ![u] = {}]
    /\ Goto(u, IF leaving[u] THEN "off" ELSE "idle")
    /\ UNCHANGED <<rooms, seat, goal, unscanned, unsent, leaving, listed,
                   historyVars, moves>>

-----------------------------------------------------------------------------
Next == \E u \in User :
    \/ ListRoomsFrame(u)
    \/ \E r \in Room : CreateRoom(u, r)
    \/ SendRoomCreated(u)
    \/ \E r \in Room : JoinRoom(u, r)
    \/ TakeSeat(u)
    \/ JoinRefused(u)
    \/ LeaveRoom(u)
    \/ Disconnect(u)
    \/ StartList(u)
    \/ \E r \in Room : ScanRoom(u, r)
    \/ Listed(u)
    \/ \E v \in User : SendList(u, v)
    \/ Sent(u)

Spec == Init /\ [][Next]_vars

-----------------------------------------------------------------------------
(* Properties *)

Quiet == \A u \in User : handler[u] \in {"idle", "off"}

Watching == {u \in User : handler[u] # "off" /\ ~own[u]}

\* A list is wrong in the end only if a change overtook it (handlers_room.go:30,
\* 72: lists are sent so that rooms appear live and counts stay current).  Once
\* all lists are sent, a page whose last list was not overtaken, and whose user
\* has changed nothing since, lists every room once, with its members counted
\* right.  The other exception is in JoinRefused: nobody is told of the seat that
\* a refused join has given up.
ListsNotOvertakenAreCurrent ==
    Quiet => \A u \in Watching : ~behind[u] => listed[u] = Current

=============================================================================
