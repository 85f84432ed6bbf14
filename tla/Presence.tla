------------------------------ MODULE Presence ------------------------------
(***************************************************************************)
(* The in-memory presence of darmie's WebSocket hub: the registry of live  *)
(* connections, the rooms with their seats, and the two goroutines of a    *)
(* connection that touch them.                                             *)
(*                                                                         *)
(*   reader   readPump: takes the frames of the connection one at a time   *)
(*            and runs their handlers;                                     *)
(*   closer   the one execution of Client.close's once.Do body, by         *)
(*            whichever goroutine came first (the reader itself, the       *)
(*            writePump, `go old.close()` of a newer login, `go c.close()` *)
(*            of a full send buffer).                                      *)
(*                                                                         *)
(* One step is one critical section (g.mu, r.mu or c.roomsMu).  Messages   *)
(* are the subject of module RoomViews, the send buffer of module Outbox.  *)
(***************************************************************************)
EXTENDS FiniteSets, Integers

CONSTANTS
    Conn,         \* WebSocket connections
    User,         \* user IDs
    RoomId,       \* rooms that may be created
    NoConn, NoUser, NoRoom,
    Accounts,     \* [Conn -> SUBSET User]: the users a connection signs in as
    FoldedName,   \* RoomId -> the case-folded name the room is created with
    MaxRooms,     \* the room-count cap (main.go)
    MaxRoomSize,  \* the seat cap of a room (main.go)
    Buffered      \* frames the reader may take once the socket is closed: they
                  \* were in its read buffer (4096 bytes)

ASSUME PresenceAssumption ==
    /\ IsFiniteSet(User)
    /\ NoConn \notin Conn
    /\ NoUser \notin User
    /\ NoRoom \notin RoomId
    /\ Accounts \in [Conn -> SUBSET User]
    /\ MaxRooms \in Nat
    /\ MaxRoomSize \in Nat
    /\ Buffered \in Nat

VARIABLES
    clients,     \* Registry.clients: user -> its registered connection
    rooms,       \* Registry.rooms: the rooms that exist
    members,     \* room.clients: room -> user -> the connection in the seat
    userID,      \* Client.userID, NoUser for the empty string
    joined,      \* Client.rooms
    kicked,      \* `go old.close()` was started and has not reached once.Do
    reader,      \* where the reader is
    target,      \* the room a join frame asks for, NoRoom for a leave frame
    closer,      \* where the closer is
    unscanned,   \* the rooms GhostRooms has still to look at
    todo,        \* per goroutine: rooms its leave loop has still to visit
    dropping,    \* per goroutine: room left, not yet taken out of c.rooms
    buffered,    \* frames left in the read buffer of a closed connection
    late         \* history: c's reader took a seat in a room its closer had
                 \* already scanned, or registered after it had unregistered

vars == <<clients, rooms, members, userID, joined, kicked, reader, target,
          closer, unscanned, todo, dropping, buffered, late>>

readerVars == <<reader, target>>
closerVars == <<closer, unscanned>>
leaveVars  == <<todo, dropping>>

Thread == {"reader", "closer"}
ReaderPC == {"idle", "registering", "leaving", "recording", "gone"}
CloserPC == {"no", "closed", "listing", "leaving", "scan", "ghosts", "done"}

TypeOK ==
    /\ clients \in [User -> Conn \cup {NoConn}]
    /\ rooms \subseteq RoomId
    /\ members \in [RoomId -> [User -> Conn \cup {NoConn}]]
    /\ userID \in [Conn -> User \cup {NoUser}]
    /\ joined \in [Conn -> SUBSET RoomId]
    /\ kicked \in [Conn -> BOOLEAN]
    /\ reader \in [Conn -> ReaderPC]
    /\ target \in [Conn -> RoomId \cup {NoRoom}]
    /\ closer \in [Conn -> CloserPC]
    /\ unscanned \in [Conn -> SUBSET RoomId]
    /\ todo \in [Conn -> [Thread -> SUBSET RoomId]]
    /\ dropping \in [Conn -> [Thread -> RoomId \cup {NoRoom}]]
    /\ buffered \in [Conn -> 0..Buffered]
    /\ late \in [Conn -> BOOLEAN]
    /\ \A c \in Conn : joined[c] \subseteq rooms
    /\ \A r \in RoomId \ rooms, u \in User : members[r][u] = NoConn

Init ==
    /\ clients = [u \in User |-> NoConn]
    /\ rooms = {}
    /\ members = [r \in RoomId |-> [u \in User |-> NoConn]]
    /\ userID = [c \in Conn |-> NoUser]
    /\ joined = [c \in Conn |-> {}]
    /\ kicked = [c \in Conn |-> FALSE]
    /\ reader = [c \in Conn |-> "idle"]
    /\ target = [c \in Conn |-> NoRoom]
    /\ closer = [c \in Conn |-> "no"]
    /\ unscanned = [c \in Conn |-> {}]
    /\ todo = [c \in Conn |-> [t \in Thread |-> {}]]
    /\ dropping = [c \in Conn |-> [t \in Thread |-> NoRoom]]
    /\ buffered = [c \in Conn |-> Buffered]
    /\ late = [c \in Conn |-> FALSE]

-----------------------------------------------------------------------------
(* Helpers *)

Occupants(r) == {u \in User : members[r][u] # NoConn}

\* Registry.Leave and GhostRooms ask whether c's user has a seat in r; they
\* never ask whether the seat is c's own.
IsMember(c, r) == userID[c] \in Occupants(r)

\* Registry.Join's two refusals.  (Operators named Mut... are faulty variants:
\* each replaces the definition that follows it to show a property can fail.)
RoomFound(r) == r \in rooms

MutRoomFull(r) == Cardinality(Occupants(r)) > MaxRoomSize
RoomFull(r) == Cardinality(Occupants(r)) >= MaxRoomSize

NameTaken(r) == \E s \in rooms : FoldedName[s] = FoldedName[r]

\* Client.addRoom and Client.removeRoom.
MutWithRoom(c, r) == joined[c] \ {r}
WithRoom(c, r) == joined[c] \cup {r}

MutWithoutRoom(c, r) == joined[c] \cup {r}
WithoutRoom(c, r) == joined[c] \ {r}

\* Registry.RoomsOf: the rooms of c's own set that the registry knows.
MutRoomsOf(c) == {}
RoomsOf(c) == joined[c] \cap rooms

\* AddClient returns the connection it displaced, unless that is c itself.
MutEvicted(c) == {d \in {clients[userID[c]]} \ {NoConn, c} : joined[d] # {}}
Evicted(c) == {clients[userID[c]]} \ {NoConn, c}

\* RemoveClient deletes the entry only if it is still c's.
StillLive(c) == clients[userID[c]] = c

\* GhostRooms holds g.mu for reading while it visits the rooms.
GMuFree == \A c \in Conn : closer[c] # "scan"

\* GhostRooms' test of one room: c.rooms is not consulted.
MutIsGhost(c, r) == IsMember(c, r) /\ r \in joined[c]
IsGhost(c, r) == IsMember(c, r)

\* peerClient: another user, found in the registry, with a seat in some room of
\* c's own set; the registered connection of that user, or none.
MutPeerClient(c, u) == IF u # userID[c] THEN clients[u] ELSE NoConn
PeerClient(c, u) ==
    IF u # userID[c] /\ \E r \in RoomsOf(c) : u \in Occupants(r)
    THEN clients[u] ELSE NoConn

\* The closer has already looked at r for the last time.
ScannedBy(c, r) == \/ closer[c] \in {"ghosts", "done"}
                   \/ closer[c] = "scan" /\ r \notin unscanned[c]

InLeaveLoop(c, t) ==
    IF t = "reader" THEN reader[c] = "leaving"
                    ELSE closer[c] \in {"leaving", "ghosts"}

LeavesDone(c, t) ==
    /\ InLeaveLoop(c, t)
    /\ dropping[c][t] = NoRoom
    /\ todo[c][t] = {}

\* handleJoinRoom has left every room and calls Registry.Join.
ReadyToJoin(c) == LeavesDone(c, "reader") /\ target[c] # NoRoom

\* ReadMessage returns a frame: from the socket, or from what was read ahead.
TakeFrame(c) ==
    IF closer[c] = "no" THEN UNCHANGED buffered
    ELSE /\ buffered[c] > 0
         /\ buffered' = [buffered EXCEPT ![c] = @ - 1]

Authed(c) == reader[c] = "idle" /\ userID[c] # NoUser

-----------------------------------------------------------------------------
(* The reader *)

\* register, login or resume succeeded: the handler writes the user into the
\* connection.  Nothing forbids a second sign-in on the same connection.
Authenticate(c, u) ==
    /\ reader[c] = "idle"
    /\ TakeFrame(c)
    /\ u \in Accounts[c]
    /\ userID' = [userID EXCEPT ![c] = u]
    /\ reader' = [reader EXCEPT ![c] = "registering"]
    /\ UNCHANGED <<clients, rooms, members, joined, kicked, target,
                   closerVars, leaveVars, late>>

AddClient(c) ==
    /\ reader[c] = "registering"
    /\ GMuFree
    /\ clients' = [clients EXCEPT ![userID[c]] = c]
    /\ kicked' = [d \in Conn |-> \/ kicked[d]
                                 \/ d \in Evicted(c) /\ closer[d] = "no"]
    /\ reader' = [reader EXCEPT ![c] = "idle"]
    /\ late' = [late EXCEPT ![c] = @ \/ closer[c] \notin {"no", "closed"}]
    /\ UNCHANGED <<rooms, members, userID, joined, target, closerVars,
                   leaveVars, buffered>>

CreateRoom(c, r) ==
    /\ Authed(c)
    /\ TakeFrame(c)
    /\ GMuFree
    /\ r \notin rooms
    /\ Cardinality(rooms) < MaxRooms
    /\ ~NameTaken(r)
    /\ rooms' = rooms \cup {r}
    /\ UNCHANGED <<clients, members, userID, joined, kicked, readerVars,
                   closerVars, leaveVars, late>>

\* A join frame, for a room that exists or not: leaveAllRooms comes first.
JoinFrame(c, r) ==
    /\ Authed(c)
    /\ TakeFrame(c)
    /\ reader' = [reader EXCEPT ![c] = "leaving"]
    /\ target' = [target EXCEPT ![c] = r]
    /\ todo' = [todo EXCEPT ![c]["reader"] = RoomsOf(c)]
    /\ UNCHANGED <<clients, rooms, members, userID, joined, kicked,
                   closerVars, dropping, late>>

LeaveFrame(c, r) ==
    /\ Authed(c)
    /\ TakeFrame(c)
    /\ r \in rooms
    /\ reader' = [reader EXCEPT ![c] = "leaving"]
    /\ target' = [target EXCEPT ![c] = NoRoom]
    /\ todo' = [todo EXCEPT ![c]["reader"] = {r}]
    /\ UNCHANGED <<clients, rooms, members, userID, joined, kicked,
                   closerVars, dropping, late>>

\* Registry.Join after the lookup failed or the room is full: the sender is
\* told, nothing else happens; the rooms it left stay left.
JoinRefused(c) ==
    /\ ReadyToJoin(c)
    /\ RoomFound(target[c]) => RoomFull(target[c])
    /\ reader' = [reader EXCEPT ![c] = "idle"]
    /\ target' = [target EXCEPT ![c] = NoRoom]
    /\ UNCHANGED <<clients, rooms, members, userID, joined, kicked,
                   closerVars, leaveVars, buffered, late>>

\* Registry.Join's critical section of r.mu.
JoinInsert(c) ==
    LET r == target[c] IN
    /\ ReadyToJoin(c)
    /\ RoomFound(r)
    /\ ~RoomFull(r)
    /\ members' = [members EXCEPT ![r][userID[c]] = c]
    /\ reader' = [reader EXCEPT ![c] = "recording"]
    /\ late' = [late EXCEPT ![c] = @ \/ ScannedBy(c, r)]
    /\ UNCHANGED <<clients, rooms, userID, joined, kicked, target, closerVars,
                   leaveVars, buffered>>

AddRoom(c) ==
    /\ reader[c] = "recording"
    /\ joined' = [joined EXCEPT ![c] = WithRoom(c, target[c])]
    /\ reader' = [reader EXCEPT ![c] = "idle"]
    /\ target' = [target EXCEPT ![c] = NoRoom]
    /\ UNCHANGED <<clients, rooms, members, userID, kicked, closerVars,
                   leaveVars, buffered, late>>

\* ReadMessage fails: the peer is gone or the socket was closed.
ReaderExit(c) ==
    /\ reader[c] = "idle"
    /\ reader' = [reader EXCEPT ![c] = "gone"]
    /\ UNCHANGED <<clients, rooms, members, userID, joined, kicked, target,
                   closerVars, leaveVars, buffered, late>>

-----------------------------------------------------------------------------
(* doLeaveRoom, run by the reader (leaveAllRooms, a leave frame) and by the  *)
(* closer (leaveAllRooms, then the ghosts).                                  *)

\* Registry.Leave when the user has a seat: delete it, keyed by the user.
LeaveMember(c, t, r) ==
    /\ InLeaveLoop(c, t)
    /\ dropping[c][t] = NoRoom
    /\ r \in todo[c][t]
    /\ IsMember(c, r)
    /\ members' = [members EXCEPT ![r][userID[c]] = NoConn]
    /\ todo' = [todo EXCEPT ![c][t] = @ \ {r}]
    /\ dropping' = [dropping EXCEPT ![c][t] = r]
    /\ UNCHANGED <<clients, rooms, userID, joined, kicked, readerVars,
                   closerVars, buffered, late>>

\* Registry.Leave when it has none: c.rooms keeps the room.
LeaveNonMember(c, t, r) ==
    /\ InLeaveLoop(c, t)
    /\ dropping[c][t] = NoRoom
    /\ r \in todo[c][t]
    /\ ~IsMember(c, r)
    /\ todo' = [todo EXCEPT ![c][t] = @ \ {r}]
    /\ UNCHANGED <<clients, rooms, members, userID, joined, kicked,
                   readerVars, closerVars, dropping, buffered, late>>

\* Registry.Leave after it released r.mu.
RemoveRoom(c, t) ==
    /\ dropping[c][t] # NoRoom
    /\ joined' = [joined EXCEPT ![c] = WithoutRoom(c, dropping[c][t])]
    /\ dropping' = [dropping EXCEPT ![c][t] = NoRoom]
    /\ UNCHANGED <<clients, rooms, members, userID, kicked, readerVars,
                   closerVars, todo, buffered, late>>

\* handleLeaveRoom returns.
LeaveFrameDone(c) ==
    /\ LeavesDone(c, "reader")
    /\ target[c] = NoRoom
    /\ reader' = [reader EXCEPT ![c] = "idle"]
    /\ UNCHANGED <<clients, rooms, members, userID, joined, kicked, target,
                   closerVars, leaveVars, buffered, late>>

-----------------------------------------------------------------------------
(* The closer *)

\* once.Do admits one caller: the reader that ended, a kick, or, at any time,
\* the writePump after a failed write or trySend on a full buffer.
Close(c) ==
    /\ closer[c] = "no"
    /\ closer' = [closer EXCEPT ![c] = "closed"]
    /\ kicked' = [kicked EXCEPT ![c] = FALSE]
    /\ UNCHANGED <<clients, rooms, members, userID, joined, readerVars,
                   unscanned, leaveVars, buffered, late>>

\* handleDisconnect of a connection that never signed in.
DisconnectUnauthed(c) ==
    /\ closer[c] = "closed"
    /\ userID[c] = NoUser
    /\ closer' = [closer EXCEPT ![c] = "done"]
    /\ UNCHANGED <<clients, rooms, members, userID, joined, kicked,
                   readerVars, unscanned, leaveVars, buffered, late>>

RemoveClient(c) ==
    /\ closer[c] = "closed"
    /\ userID[c] # NoUser
    /\ GMuFree
    /\ clients' = IF StillLive(c) THEN [clients EXCEPT ![userID[c]] = NoConn]
                                  ELSE clients
    /\ closer' = [closer EXCEPT ![c] = "listing"]
    /\ UNCHANGED <<rooms, members, userID, joined, kicked, readerVars,
                   unscanned, leaveVars, buffered, late>>

LeaveAllRooms(c) ==
    /\ closer[c] = "listing"
    /\ todo' = [todo EXCEPT ![c]["closer"] = RoomsOf(c)]
    /\ closer' = [closer EXCEPT ![c] = "leaving"]
    /\ UNCHANGED <<clients, rooms, members, userID, joined, kicked,
                   readerVars, unscanned, dropping, buffered, late>>

StartScan(c) ==
    /\ closer[c] = "leaving"
    /\ LeavesDone(c, "closer")
    /\ unscanned' = [unscanned EXCEPT ![c] = rooms]
    /\ closer' = [closer EXCEPT ![c] = "scan"]
    /\ UNCHANGED <<clients, rooms, members, userID, joined, kicked,
                   readerVars, leaveVars, buffered, late>>

ScanRoom(c, r) ==
    /\ closer[c] = "scan"
    /\ r \in unscanned[c]
    /\ unscanned' = [unscanned EXCEPT ![c] = @ \ {r}]
    /\ todo' = [todo EXCEPT ![c]["closer"] =
                   IF IsGhost(c, r) THEN @ \cup {r} ELSE @]
    /\ UNCHANGED <<clients, rooms, members, userID, joined, kicked,
                   readerVars, closer, dropping, buffered, late>>

EndScan(c) ==
    /\ closer[c] = "scan"
    /\ unscanned[c] = {}
    /\ closer' = [closer EXCEPT ![c] = "ghosts"]
    /\ UNCHANGED <<clients, rooms, members, userID, joined, kicked,
                   readerVars, unscanned, leaveVars, buffered, late>>

Disconnected(c) ==
    /\ closer[c] = "ghosts"
    /\ LeavesDone(c, "closer")
    /\ closer' = [closer EXCEPT ![c] = "done"]
    /\ UNCHANGED <<clients, rooms, members, userID, joined, kicked,
                   readerVars, unscanned, leaveVars, buffered, late>>

-----------------------------------------------------------------------------
LeaveStep(c, t) ==
    \/ \E r \in RoomId : LeaveMember(c, t, r)
    \/ \E r \in RoomId : LeaveNonMember(c, t, r)
    \/ RemoveRoom(c, t)

ReaderStep(c) ==
    \/ \E u \in User : Authenticate(c, u)
    \/ AddClient(c)
    \/ \E r \in RoomId : CreateRoom(c, r)
    \/ \E r \in RoomId : JoinFrame(c, r)
    \/ \E r \in RoomId : LeaveFrame(c, r)
    \/ LeaveStep(c, "reader")
    \/ LeaveFrameDone(c)
    \/ JoinRefused(c)
    \/ JoinInsert(c)
    \/ AddRoom(c)
    \/ ReaderExit(c)

CloserStep(c) ==
    \/ DisconnectUnauthed(c)
    \/ RemoveClient(c)
    \/ LeaveAllRooms(c)
    \/ LeaveStep(c, "closer")
    \/ StartScan(c)
    \/ \E r \in RoomId : ScanRoom(c, r)
    \/ EndScan(c)
    \/ Disconnected(c)

\* Every connection has come and gone: nothing is left to run.
Terminated ==
    /\ \A c \in Conn : reader[c] = "gone" /\ closer[c] = "done"
    /\ UNCHANGED vars

Next == \/ \E c \in Conn : ReaderStep(c) \/ Close(c) \/ CloserStep(c)
        \/ Terminated

Spec == Init /\ [][Next]_vars

-----------------------------------------------------------------------------
(* Properties *)

OneAccount(c) == \A u, v \in Accounts[c] : u = v

\* c signs in as one user, whom no other connection signs in as.
OwnUser(c) ==
    /\ OneAccount(c)
    /\ \A d \in Conn \ {c} : Accounts[c] \cap Accounts[d] = {}

HasSeat(c, r) == \E u \in User : members[r][u] = c

\* A newer sign-in of the same user has taken c's place in the registry.
Superseded(c) == /\ userID[c] # NoUser
                 /\ reader[c] # "registering"
                 /\ clients[userID[c]] # c

\* A connection nobody is tearing down, or about to.
Settled(c) == closer[c] = "no" /\ ~kicked[c] /\ reader[c] # "gone"

\* No room ever seats more users than maxRoomSize, whatever joins race for the
\* last seat (Registry.Join checks the cap and inserts under one r.mu).
RoomWithinCapacity ==
    \A r \in RoomId : Cardinality(Occupants(r)) <= MaxRoomSize

\* Two logins of one user never both survive: a connection that is not the
\* registered one of its user is being closed or has a kick on the way
\* (AddClient's atomic swap and `go old.close()`).
SupersededIsKicked ==
    \A c \in Conn : Superseded(c) => kicked[c] \/ closer[c] # "no"

\* Until its clean-up starts, a connection knows every seat it holds, in
\* c.rooms or as the join it is in the middle of; leaveAllRooms relies on it.
SeatsRecorded ==
    \A c \in Conn, r \in RoomId :
        OneAccount(c) /\ closer[c] = "no" /\ HasSeat(c, r) =>
            r \in joined[c] \/ (reader[c] = "recording" /\ target[c] = r)

\* The single-room invariant of handleJoinRoom, across the connections of a
\* user: the seats held by a user's settled connections are all in one room.
OneRoomPerUser ==
    \A u \in User : \A r, s \in RoomId :
        LET c == members[r][u]
            d == members[s][u]
        IN  c # NoConn /\ d # NoConn /\ r # s =>
                ~(OneAccount(c) /\ OneAccount(d) /\ Settled(c) /\ Settled(d))

\* What a finished clean-up leaves behind was put there afterwards: a seat by a
\* join whose insertion came after GhostRooms looked at the room, a registry
\* entry by an AddClient that came after RemoveClient.
LeftoversAreLate ==
    \A c \in Conn : OneAccount(c) /\ closer[c] = "done" /\ ~late[c] =>
        /\ \A r \in RoomId : ~HasSeat(c, r)
        /\ \A u \in User : clients[u] # c

\* While its user has no other connection, Client.rooms is what its comment says:
\* every room in it is one where the connection has its seat.
JoinedIsSeated ==
    \A c \in Conn : OwnUser(c) /\ closer[c] = "no" =>
        \A r \in joined[c] \ {dropping[c]["reader"]} :
            members[r][userID[c]] = c

\* While the sender's user has no other connection: peerClient relays a signal
\* only to a member of the room the sender sits in (handlers_signal.go:61-62), and
\* a member's connection that nobody is tearing down is always reached.  Between
\* the RemoveClient of a target and its leaving the room, the relay is refused
\* although both have their seats; a newer connection of the target's user is
\* reached in the place of the one in the seat.
RelayGuardExact ==
    \A c \in Conn : OwnUser(c) /\ closer[c] = "no" /\ reader[c] = "idle" =>
        \A u \in User \ {userID[c]} :
            /\ PeerClient(c, u) # NoConn =>
                   \E r \in RoomId : HasSeat(c, r) /\ u \in Occupants(r)
            /\ \A r \in RoomId, d \in Conn :
                   /\ HasSeat(c, r) /\ members[r][u] = d
                   /\ OneAccount(d) /\ Settled(d)
                   => PeerClient(c, u) = d

\* The registry, for all its locks and goroutines, is the book of module Seats:
\* every step of a connection is one room created, one seat taken under the cap,
\* one seat given up, or none of these.
Book == INSTANCE Seats WITH open <- rooms, seated <- [r \in RoomId |-> Occupants(r)]

RegistryIsABook == Book!Spec

-----------------------------------------------------------------------------
(* What a comment in the code says, refuted by a run *)

\* registry.go:223-224: the ghost scan finds stale memberships of c; so
\* disconnecting c never takes a seat of another connection.
CleanupTakesOwnSeats ==
    [][\A c \in Conn, r \in RoomId : LeaveMember(c, "closer", r) =>
           members[r][userID[c]] = c]_vars

=============================================================================
