--------------------------- MODULE PresenceProofs ---------------------------
(***************************************************************************)
(* Theorems about module Presence, for any numbers of connections, users   *)
(* and rooms, any caps and any assignment of accounts to connections: who  *)
(* has which seat and connection, what handleDisconnect leaves behind,     *)
(* what Client.rooms says of the seats, and that the registry is the book  *)
(* of module Seats.                                                        *)
(***************************************************************************)
EXTENDS Presence, FiniteSetTheorems, TLAPS

\* The room a join is about to record was found, so c.rooms stays within rooms.
RecordedRoomExists ==
    \A c \in Conn : reader[c] = "recording" => target[c] \in rooms

TypeInv == TypeOK /\ RecordedRoomExists

USE DEF Thread, ReaderPC, CloserPC, readerVars, closerVars, leaveVars

LEMMA TypeInit == Init => TypeInv
BY PresenceAssumption DEF Init, TypeInv, TypeOK, RecordedRoomExists

LEMMA TakeFrameType ==
    ASSUME TypeOK, NEW c \in Conn, TakeFrame(c)
    PROVE  buffered' \in [Conn -> 0..Buffered]
<1>1. buffered \in [Conn -> 0..Buffered]
    BY DEF TypeOK
<1>2. CASE closer[c] = "no"
    BY <1>1, <1>2 DEF TakeFrame
<1>3. CASE closer[c] # "no"
  <2>1. /\ buffered[c] \in 0..Buffered
        /\ buffered[c] > 0
        /\ buffered' = [buffered EXCEPT ![c] = buffered[c] - 1]
      BY <1>1, <1>3 DEF TakeFrame
  <2>2. buffered[c] - 1 \in 0..Buffered
      BY <2>1, PresenceAssumption
  <2> QED
      BY <1>1, <2>1, <2>2
<1> QED
    BY <1>2, <1>3

\* Leaving is the same for both goroutines of a connection.
LEMMA TypeLeave ==
    ASSUME TypeInv, NEW c \in Conn, NEW t \in Thread, LeaveStep(c, t)
    PROVE  TypeInv'
<1> USE PresenceAssumption DEF TypeInv, TypeOK, RecordedRoomExists
<1>1. ASSUME NEW r \in RoomId, LeaveMember(c, t, r) PROVE TypeInv'
  <2>1. members' \in [RoomId -> [User -> Conn \cup {NoConn}]]
      BY <1>1 DEF LeaveMember
  <2>2. todo' \in [Conn -> [Thread -> SUBSET RoomId]]
      BY <1>1 DEF LeaveMember
  <2>3. dropping' \in [Conn -> [Thread -> RoomId \cup {NoRoom}]]
      BY <1>1 DEF LeaveMember
  <2>4. \A s \in RoomId \ rooms', u \in User : members'[s][u] = NoConn
      BY <1>1 DEF LeaveMember
  <2> QED
      BY <1>1, <2>1, <2>2, <2>3, <2>4 DEF LeaveMember
<1>2. ASSUME NEW r \in RoomId, LeaveNonMember(c, t, r) PROVE TypeInv'
    BY <1>2 DEF LeaveNonMember
<1>3. CASE RemoveRoom(c, t)
    BY <1>3 DEF RemoveRoom, WithoutRoom
<1> QED
    BY <1>1, <1>2, <1>3 DEF LeaveStep

LEMMA TypeReader ==
    ASSUME TypeInv, NEW c \in Conn, ReaderStep(c)
    PROVE  TypeInv'
<1> USE PresenceAssumption DEF TypeInv, TypeOK, RecordedRoomExists
<1>1. ASSUME NEW u \in User, Authenticate(c, u) PROVE TypeInv'
    BY <1>1, TakeFrameType DEF Authenticate
<1>2. CASE AddClient(c)
    BY <1>2 DEF AddClient
<1>3. ASSUME NEW r \in RoomId, CreateRoom(c, r) PROVE TypeInv'
    BY <1>3, TakeFrameType DEF CreateRoom
<1>4. ASSUME NEW r \in RoomId, JoinFrame(c, r) PROVE TypeInv'
    BY <1>4, TakeFrameType DEF JoinFrame, RoomsOf
<1>5. ASSUME NEW r \in RoomId, LeaveFrame(c, r) PROVE TypeInv'
    BY <1>5, TakeFrameType DEF LeaveFrame
<1>6. CASE LeaveStep(c, "reader")
    BY <1>6, TypeLeave
<1>7. CASE LeaveFrameDone(c)
    BY <1>7 DEF LeaveFrameDone
<1>8. CASE JoinRefused(c)
    BY <1>8 DEF JoinRefused
<1>9. CASE JoinInsert(c)
    BY <1>9 DEF JoinInsert, RoomFound, ReadyToJoin, ScannedBy
<1>10. CASE AddRoom(c)
    BY <1>10 DEF AddRoom, WithRoom
<1>11. CASE ReaderExit(c)
    BY <1>11 DEF ReaderExit
<1> QED
    BY <1>1, <1>2, <1>3, <1>4, <1>5, <1>6, <1>7, <1>8, <1>9, <1>10, <1>11
    DEF ReaderStep

LEMMA TypeCloser ==
    ASSUME TypeInv, NEW c \in Conn, Close(c) \/ CloserStep(c)
    PROVE  TypeInv'
<1> USE PresenceAssumption DEF TypeInv, TypeOK, RecordedRoomExists
<1>1. CASE Close(c)
    BY <1>1 DEF Close
<1>2. CASE DisconnectUnauthed(c)
    BY <1>2 DEF DisconnectUnauthed
<1>3. CASE RemoveClient(c)
    BY <1>3 DEF RemoveClient
<1>4. CASE LeaveAllRooms(c)
    BY <1>4 DEF LeaveAllRooms, RoomsOf
<1>5. CASE LeaveStep(c, "closer")
    BY <1>5, TypeLeave
<1>6. CASE StartScan(c)
    BY <1>6 DEF StartScan
<1>7. ASSUME NEW r \in RoomId, ScanRoom(c, r) PROVE TypeInv'
    BY <1>7 DEF ScanRoom
<1>8. CASE EndScan(c)
    BY <1>8 DEF EndScan
<1>9. CASE Disconnected(c)
    BY <1>9 DEF Disconnected
<1> QED
    BY <1>1, <1>2, <1>3, <1>4, <1>5, <1>6, <1>7, <1>8, <1>9 DEF CloserStep

LEMMA TypeStutter == TypeInv /\ UNCHANGED vars => TypeInv'
BY DEF TypeInv, TypeOK, RecordedRoomExists, vars

LEMMA TypeInvariance == Spec => []TypeInv
<1>1. TypeInv /\ [Next]_vars => TypeInv'
    BY TypeReader, TypeCloser, TypeStutter DEF Next, Terminated
<1> QED
    BY <1>1, TypeInit, PTL DEF Spec

\* Every variable keeps its type; a room that does not exist is empty and in
\* no connection's c.rooms (registry.go, the lookup in Join).
THEOREM TypeCorrect == Spec => []TypeOK
BY TypeInvariance, PTL DEF TypeInv

-----------------------------------------------------------------------------
(* The seats: who can take and free them *)

LEMMA MembersStep ==
    ASSUME [Next]_vars
    PROVE  \/ UNCHANGED members
           \/ \E c \in Conn : JoinInsert(c)
           \/ \E c \in Conn, t \in Thread, r \in RoomId : LeaveMember(c, t, r)
BY DEF Next, vars, Terminated, ReaderStep, CloserStep, LeaveStep,
       Authenticate, AddClient, CreateRoom, JoinFrame, LeaveFrame, JoinRefused,
       AddRoom, ReaderExit, LeaveNonMember, RemoveRoom, LeaveFrameDone, Close,
       DisconnectUnauthed, RemoveClient, LeaveAllRooms, StartScan, ScanRoom,
       EndScan, Disconnected

LEMMA OccupantsFinite ==
    ASSUME NEW r \in RoomId
    PROVE  IsFiniteSet(Occupants(r)) /\ IsFiniteSet(Occupants(r)')
BY FS_Subset, PresenceAssumption DEF Occupants

\* The cap is checked where the seat is taken, so it holds for every room and
\* for any number of connections racing for the last seat.
THEOREM WithinCapacity == Spec => []RoomWithinCapacity
<1>1. Init => RoomWithinCapacity
  <2> SUFFICES ASSUME Init, NEW r \in RoomId
               PROVE  Cardinality(Occupants(r)) <= MaxRoomSize
      BY DEF RoomWithinCapacity
  <2>1. Occupants(r) = {}
      BY DEF Init, Occupants
  <2> QED
      BY <2>1, FS_EmptySet, PresenceAssumption
<1>2. TypeInv /\ RoomWithinCapacity /\ [Next]_vars => RoomWithinCapacity'
  <2> SUFFICES ASSUME TypeInv, RoomWithinCapacity, [Next]_vars,
                      NEW s \in RoomId
               PROVE  Cardinality(Occupants(s)') <= MaxRoomSize
      BY DEF RoomWithinCapacity
  <2>1. Cardinality(Occupants(s)) <= MaxRoomSize
      BY DEF RoomWithinCapacity
  <2>2. CASE UNCHANGED members
    <3>1. Occupants(s)' = Occupants(s)
        BY <2>2 DEF Occupants
    <3> QED
        BY <2>1, <3>1
  <2>3. ASSUME NEW c \in Conn, JoinInsert(c)
        PROVE  Cardinality(Occupants(s)') <= MaxRoomSize
    <3>1. CASE s # target[c]
      <4>1. Occupants(s)' = Occupants(s)
          BY <2>3, <3>1 DEF JoinInsert, Occupants, TypeInv, TypeOK
      <4> QED
          BY <2>1, <4>1
    <3>2. CASE s = target[c]
      <4>1. Occupants(s)' \subseteq Occupants(s) \cup {userID[c]}
          BY <2>3, <3>2 DEF JoinInsert, Occupants, TypeInv, TypeOK
      <4>2. ~(Cardinality(Occupants(s)) >= MaxRoomSize)
          BY <2>3, <3>2 DEF JoinInsert, RoomFull
      <4>3. IsFiniteSet(Occupants(s)) /\ Cardinality(Occupants(s)) \in Nat
          BY OccupantsFinite, FS_CardinalityType
      <4>4. /\ IsFiniteSet(Occupants(s) \cup {userID[c]})
            /\ Cardinality(Occupants(s) \cup {userID[c]})
                 <= Cardinality(Occupants(s)) + 1
          BY <4>3, FS_AddElement
      <4>5. /\ Cardinality(Occupants(s)')
                 <= Cardinality(Occupants(s) \cup {userID[c]})
            /\ Cardinality(Occupants(s)') \in Nat
            /\ Cardinality(Occupants(s) \cup {userID[c]}) \in Nat
          BY <4>1, <4>4, FS_Subset, FS_CardinalityType
      <4> QED
          BY <4>2, <4>3, <4>4, <4>5, PresenceAssumption
    <3> QED
        BY <3>1, <3>2
  <2>4. ASSUME NEW c \in Conn, NEW t \in Thread, NEW r \in RoomId,
               LeaveMember(c, t, r)
        PROVE  Cardinality(Occupants(s)') <= MaxRoomSize
    <3>1. Occupants(s)' \subseteq Occupants(s)
        BY <2>4, PresenceAssumption DEF LeaveMember, Occupants, TypeInv, TypeOK
    <3>2. IsFiniteSet(Occupants(s))
        BY OccupantsFinite
    <3>3. /\ Cardinality(Occupants(s)') <= Cardinality(Occupants(s))
          /\ Cardinality(Occupants(s)') \in Nat
          /\ Cardinality(Occupants(s)) \in Nat
        BY <3>1, <3>2, FS_Subset, FS_CardinalityType
    <3> QED
        BY <2>1, <3>3, PresenceAssumption
  <2> QED
      BY <2>2, <2>3, <2>4, MembersStep
<1> QED
    BY <1>1, <1>2, TypeInvariance, PTL DEF Spec

-----------------------------------------------------------------------------
(* The registry: AddClient's swap and the kick *)

\* Only AddClient and RemoveClient touch the registry, and only Close takes a
\* kick back; the other steps leave a superseded connection superseded.
LEMMA KickStep ==
    ASSUME TypeInv, SupersededIsKicked, Next
    PROVE  SupersededIsKicked'
<1> USE DEF SupersededIsKicked, Superseded, TypeInv, TypeOK
<1> SUFFICES ASSUME NEW d \in Conn, Superseded(d)'
             PROVE  kicked'[d] \/ closer'[d] # "no"
    OBVIOUS
<1>1. ASSUME NEW c \in Conn, NEW u \in User, Authenticate(c, u)
      PROVE  kicked'[d] \/ closer'[d] # "no"
    BY <1>1 DEF Authenticate
<1>2. ASSUME NEW c \in Conn, AddClient(c)
      PROVE  kicked'[d] \/ closer'[d] # "no"
  <2>1. CASE d = c
      BY <1>2, <2>1, PresenceAssumption DEF AddClient
  <2>2. CASE d # c /\ clients[userID[d]] # d
      BY <1>2, <2>2 DEF AddClient
  <2>3. CASE d # c /\ clients[userID[d]] = d
    <3>1. userID[d] = userID[c]
        BY <1>2, <2>3, PresenceAssumption DEF AddClient
    <3>2. d \in Evicted(c)
        BY <2>3, <3>1, PresenceAssumption DEF Evicted
    <3> QED
        BY <1>2, <3>2 DEF AddClient
  <2> QED
      BY <2>1, <2>2, <2>3
<1>3. ASSUME NEW c \in Conn, RemoveClient(c)
      PROVE  kicked'[d] \/ closer'[d] # "no"
    BY <1>3 DEF RemoveClient, StillLive
<1>4. ASSUME NEW c \in Conn, Close(c)
      PROVE  kicked'[d] \/ closer'[d] # "no"
    BY <1>4 DEF Close
<1>5. ASSUME NEW c \in Conn, NEW t \in Thread, LeaveStep(c, t)
      PROVE  kicked'[d] \/ closer'[d] # "no"
    BY <1>5 DEF LeaveStep, LeaveMember, LeaveNonMember, RemoveRoom
<1>6. ASSUME NEW c \in Conn, NEW r \in RoomId,
             CreateRoom(c, r) \/ JoinFrame(c, r) \/ LeaveFrame(c, r)
      PROVE  kicked'[d] \/ closer'[d] # "no"
    BY <1>6 DEF CreateRoom, JoinFrame, LeaveFrame, Authed
<1>7. ASSUME NEW c \in Conn,
             \/ LeaveFrameDone(c) \/ JoinRefused(c) \/ JoinInsert(c)
             \/ AddRoom(c) \/ ReaderExit(c)
      PROVE  kicked'[d] \/ closer'[d] # "no"
    BY <1>7 DEF LeaveFrameDone, JoinRefused, JoinInsert, AddRoom, ReaderExit,
                ReadyToJoin, LeavesDone, InLeaveLoop
<1>8. ASSUME NEW c \in Conn,
             \/ DisconnectUnauthed(c) \/ LeaveAllRooms(c) \/ StartScan(c)
             \/ \E r \in RoomId : ScanRoom(c, r)
             \/ EndScan(c) \/ Disconnected(c)
      PROVE  kicked'[d] \/ closer'[d] # "no"
    BY <1>8 DEF DisconnectUnauthed, LeaveAllRooms, StartScan, ScanRoom,
                EndScan, Disconnected
<1>9. CASE Terminated
    BY <1>9 DEF Terminated, vars
<1> QED
    BY <1>1, <1>2, <1>3, <1>4, <1>5, <1>6, <1>7, <1>8, <1>9
    DEF Next, ReaderStep, CloserStep

\* Of all the connections a user ever opens, every one that is not the
\* registered one is closing or has a kick on the way.
THEOREM SupersededKicked == Spec => []SupersededIsKicked
<1>1. Init => SupersededIsKicked
    BY DEF Init, SupersededIsKicked, Superseded
<1>2. SupersededIsKicked /\ UNCHANGED vars => SupersededIsKicked'
    BY DEF SupersededIsKicked, Superseded, vars
<1>3. TypeInv /\ SupersededIsKicked /\ [Next]_vars => SupersededIsKicked'
    BY <1>2, KickStep
<1> QED
    BY <1>1, <1>3, TypeInvariance, PTL DEF Spec

-----------------------------------------------------------------------------
(* What a connection of one account knows about its seats *)

AccountKept == \A c \in Conn : userID[c] \in Accounts[c] \cup {NoUser}

HandlersAreAuthed ==
    \A c \in Conn : reader[c] \in {"registering", "leaving", "recording"} =>
        userID[c] # NoUser

DropInLoop ==
    \A c \in Conn :
        /\ dropping[c]["reader"] # NoRoom => reader[c] = "leaving"
        /\ dropping[c]["closer"] # NoRoom => closer[c] \in {"leaving", "ghosts"}

\* The connections the seat invariant speaks about.
Tracked(c) == OneAccount(c) /\ closer[c] = "no"

\* A seat is kept under the user the connection signed in as.
SeatOwned ==
    \A c \in Conn, r \in RoomId, u \in User :
        OneAccount(c) /\ members[r][u] = c => userID[c] = u

\* Between the deletion of a seat and c.removeRoom nobody retakes it for c.
DroppedSeatGone ==
    \A c \in Conn, r \in RoomId :
        Tracked(c) /\ dropping[c]["reader"] = r => ~HasSeat(c, r)

\* leaveAllRooms before a join reaches every seat.
LeftBeforeJoin ==
    \A c \in Conn, r \in RoomId :
        /\ Tracked(c)
        /\ reader[c] = "leaving"
        /\ target[c] # NoRoom
        /\ HasSeat(c, r)
        => r \in todo[c]["reader"]

OneSeat ==
    \A c \in Conn, r, s \in RoomId :
        Tracked(c) /\ HasSeat(c, r) /\ HasSeat(c, s) => r = s

SeatedIsRegistered ==
    \A c \in Conn, r \in RoomId :
        Tracked(c) /\ ~kicked[c] /\ HasSeat(c, r) => clients[userID[c]] = c

LoopInv == AccountKept /\ HandlersAreAuthed /\ DropInLoop
SeatInv == SeatOwned /\ DroppedSeatGone /\ SeatsRecorded /\ LeftBeforeJoin
           /\ OneSeat /\ SeatedIsRegistered

LEMMA LoopStep ==
    ASSUME TypeInv, LoopInv, Next
    PROVE  LoopInv'
<1> USE PresenceAssumption
    DEF TypeInv, TypeOK, LoopInv, AccountKept, HandlersAreAuthed, DropInLoop
<1>1. ASSUME NEW c \in Conn, NEW u \in User, Authenticate(c, u)
      PROVE  LoopInv'
    BY <1>1 DEF Authenticate
<1>2. ASSUME NEW c \in Conn, AddClient(c)
      PROVE  LoopInv'
    BY <1>2 DEF AddClient
<1>3. ASSUME NEW c \in Conn, NEW r \in RoomId,
             CreateRoom(c, r) \/ JoinFrame(c, r) \/ LeaveFrame(c, r)
      PROVE  LoopInv'
    BY <1>3 DEF CreateRoom, JoinFrame, LeaveFrame, Authed
<1>4. ASSUME NEW c \in Conn,
             \/ LeaveFrameDone(c) \/ JoinRefused(c) \/ JoinInsert(c)
             \/ AddRoom(c) \/ ReaderExit(c)
      PROVE  LoopInv'
    BY <1>4 DEF LeaveFrameDone, JoinRefused, JoinInsert, AddRoom, ReaderExit,
                ReadyToJoin, LeavesDone, InLeaveLoop
<1>5. ASSUME NEW c \in Conn, NEW t \in Thread, NEW r \in RoomId,
             LeaveMember(c, t, r)
      PROVE  LoopInv'
  <2>1. DropInLoop'
      BY <1>5 DEF LeaveMember, InLeaveLoop
  <2> QED
      BY <1>5, <2>1 DEF LeaveMember
<1>6. ASSUME NEW c \in Conn, NEW t \in Thread, NEW r \in RoomId,
             LeaveNonMember(c, t, r)
      PROVE  LoopInv'
    BY <1>6 DEF LeaveNonMember
<1>7. ASSUME NEW c \in Conn, NEW t \in Thread, RemoveRoom(c, t)
      PROVE  LoopInv'
    BY <1>7 DEF RemoveRoom
<1>8. ASSUME NEW c \in Conn,
             \/ Close(c) \/ DisconnectUnauthed(c) \/ RemoveClient(c)
             \/ LeaveAllRooms(c)
      PROVE  LoopInv'
    BY <1>8 DEF Close, DisconnectUnauthed, RemoveClient, LeaveAllRooms
<1>9. ASSUME NEW c \in Conn,
             \/ StartScan(c) \/ \E r \in RoomId : ScanRoom(c, r)
             \/ EndScan(c) \/ Disconnected(c)
      PROVE  LoopInv'
    BY <1>9 DEF StartScan, ScanRoom, EndScan, Disconnected, LeavesDone,
                InLeaveLoop
<1>10. CASE Terminated
    BY <1>10 DEF Terminated, vars
<1> QED
    BY <1>1, <1>2, <1>3, <1>4, <1>5, <1>6, <1>7, <1>8, <1>9, <1>10
    DEF Next, ReaderStep, CloserStep, LeaveStep

LEMMA LoopInvariance == Spec => []LoopInv
<1>1. Init => LoopInv
    BY DEF Init, LoopInv, AccountKept, HandlersAreAuthed, DropInLoop, Thread
<1>2. LoopInv /\ UNCHANGED vars => LoopInv'
    BY DEF LoopInv, AccountKept, HandlersAreAuthed, DropInLoop, vars
<1>3. TypeInv /\ LoopInv /\ [Next]_vars => LoopInv'
    BY <1>2, LoopStep
<1> QED
    BY <1>1, <1>3, TypeInvariance, PTL DEF Spec


LEMMA OneSeatKept ==
    ASSUME OneSeat, UNCHANGED members,
           \A d \in Conn : closer'[d] = "no" => closer[d] = "no"
    PROVE  OneSeat'
<1> SUFFICES ASSUME NEW d \in Conn, NEW r \in RoomId, NEW s \in RoomId,
                    Tracked(d)', HasSeat(d, r)', HasSeat(d, s)'
             PROVE  r = s
    BY DEF OneSeat
<1>1. Tracked(d) /\ HasSeat(d, r) /\ HasSeat(d, s)
    BY DEF Tracked, HasSeat, OneAccount
<1> QED
    BY <1>1 DEF OneSeat

\* A step that leaves the seats, the sign-ins and c.rooms alone, and starts no
\* join, keeps what the connections know.
LEMMA SeatsKept ==
    ASSUME TypeInv, SeatInv,
           UNCHANGED <<members, userID, joined, dropping>>,
           \A d \in Conn : todo'[d]["reader"] = todo[d]["reader"],
           NEW c \in Conn,
           \A d \in Conn : closer'[d] = "no" => closer[d] = "no",
           \A d \in Conn : closer'[d] = "no" /\ ~kicked'[d] =>
               /\ ~kicked[d]
               /\ clients[userID[d]] = d => clients'[userID[d]] = d,
           \A d \in Conn \ {c} : target'[d] = target[d] /\ reader'[d] = reader[d],
           reader[c] # "recording" \/ UNCHANGED <<reader, target>>,
           reader'[c] # "leaving" \/ UNCHANGED <<reader, target>>
    PROVE  SeatInv'
<1> USE DEF SeatInv, Tracked, TypeInv, TypeOK, HasSeat
<1>1. SeatOwned' /\ DroppedSeatGone'
    BY DEF SeatOwned, DroppedSeatGone
<1>2. SeatsRecorded'
    BY DEF SeatsRecorded
<1>3. LeftBeforeJoin'
    BY DEF LeftBeforeJoin
<1>4. OneSeat'
    BY OneSeatKept
<1>5. SeatedIsRegistered'
    BY DEF SeatedIsRegistered
<1> QED
    BY <1>1, <1>2, <1>3, <1>4, <1>5

LEMMA SeatAuthenticate ==
    ASSUME TypeInv, LoopInv, SeatInv,
           NEW c \in Conn, NEW u \in User, Authenticate(c, u)
    PROVE  SeatInv'
<1> USE DEF SeatInv, Tracked, TypeInv, TypeOK, HasSeat
\* Signing in again changes nothing for a connection of one account.
<1>1. ASSUME OneAccount(c), NEW r \in RoomId, HasSeat(c, r)
      PROVE  userID' = userID
  <2>1. userID[c] \in User
      BY <1>1 DEF SeatOwned
  <2>2. userID[c] = u
      BY <1>1, <2>1, PresenceAssumption
      DEF LoopInv, AccountKept, Authenticate, OneAccount
  <2> QED
      BY <2>2 DEF Authenticate
<1>2. SeatOwned'
    BY <1>1 DEF SeatOwned, Authenticate
<1>3. DroppedSeatGone' /\ SeatsRecorded' /\ LeftBeforeJoin'
    BY DEF DroppedSeatGone, SeatsRecorded, LeftBeforeJoin, Authenticate
<1>4. OneSeat'
    BY OneSeatKept DEF Authenticate
<1>5. SeatedIsRegistered'
    BY <1>1 DEF SeatedIsRegistered, Authenticate
<1> QED
    BY <1>2, <1>3, <1>4, <1>5

LEMMA SeatAddClient ==
    ASSUME TypeInv, LoopInv, SeatInv, NEW c \in Conn, AddClient(c)
    PROVE  SeatInv'
<1> USE DEF SeatInv, Tracked, TypeInv, TypeOK, HasSeat
<1>1. ASSUME NEW d \in Conn, clients[userID[d]] = d,
             closer'[d] = "no", ~kicked'[d], userID[d] # NoUser
      PROVE  clients'[userID[d]] = d
  <2>1. CASE d = c \/ userID[d] # userID[c]
      BY <1>1, <2>1 DEF AddClient
  <2>2. CASE d # c /\ userID[d] = userID[c]
    <3>1. d \in Evicted(c)
        BY <1>1, <2>2, PresenceAssumption DEF Evicted
    <3> QED
        BY <1>1, <3>1 DEF AddClient
  <2> QED
      BY <2>1, <2>2
<1>2. SeatOwned' /\ DroppedSeatGone' /\ SeatsRecorded' /\ LeftBeforeJoin'
    BY DEF SeatOwned, DroppedSeatGone, SeatsRecorded, LeftBeforeJoin, AddClient
<1>3. OneSeat'
    BY OneSeatKept DEF AddClient
<1>4. SeatedIsRegistered'
  <2> SUFFICES ASSUME NEW d \in Conn, NEW r \in RoomId, Tracked(d)',
                      ~kicked'[d], HasSeat(d, r)'
               PROVE  clients'[userID'[d]] = d
      BY DEF SeatedIsRegistered
  <2>1. HasSeat(d, r) /\ closer[d] = "no" /\ ~kicked[d] /\ userID' = userID
      BY DEF AddClient
  <2>2. clients[userID[d]] = d
      BY <2>1 DEF SeatedIsRegistered
  <2>3. userID[d] # NoUser
      BY <2>1, PresenceAssumption DEF SeatOwned
  <2> QED
      BY <1>1, <2>1, <2>2, <2>3
<1> QED
    BY <1>2, <1>3, <1>4

LEMMA SeatFrame ==
    ASSUME TypeInv, LoopInv, SeatInv, NEW c \in Conn, NEW r \in RoomId,
           JoinFrame(c, r) \/ LeaveFrame(c, r)
    PROVE  SeatInv'
<1> USE DEF SeatInv, Tracked, TypeInv, TypeOK, HasSeat
<1>0. /\ UNCHANGED <<clients, members, userID, joined, kicked, closer, dropping>>
      /\ reader[c] = "idle"
      /\ \A d \in Conn \ {c} : reader'[d] = reader[d] /\ target'[d] = target[d]
    BY DEF JoinFrame, LeaveFrame, Authed
<1>1. SeatOwned' /\ DroppedSeatGone' /\ SeatedIsRegistered'
    BY <1>0 DEF SeatOwned, DroppedSeatGone, SeatedIsRegistered
<1>4. OneSeat'
    BY <1>0, OneSeatKept
<1>2. SeatsRecorded'
    BY <1>0 DEF SeatsRecorded
<1>3. LeftBeforeJoin'
  <2>1. CASE LeaveFrame(c, r)
      BY <2>1 DEF LeftBeforeJoin, LeaveFrame
  <2>2. CASE JoinFrame(c, r)
    <3> SUFFICES ASSUME NEW d \in Conn, NEW s \in RoomId, Tracked(d)',
                        reader'[d] = "leaving", target'[d] # NoRoom,
                        HasSeat(d, s)'
                 PROVE  s \in todo'[d]["reader"]
        BY DEF LeftBeforeJoin
    <3>1. CASE d # c
        BY <2>2, <3>1 DEF LeftBeforeJoin, JoinFrame
    <3>2. CASE d = c
      <4>1. s \in joined[c] /\ s \in rooms
          BY <2>2, <3>2, PresenceAssumption DEF SeatsRecorded, JoinFrame, Authed
      <4> QED
          BY <2>2, <3>2, <4>1 DEF JoinFrame, RoomsOf
    <3> QED
        BY <3>1, <3>2
  <2> QED
      BY <2>1, <2>2
<1> QED
    BY <1>1, <1>2, <1>3, <1>4

LEMMA SeatJoin ==
    ASSUME TypeInv, LoopInv, SeatInv, SupersededIsKicked,
           NEW c \in Conn, JoinInsert(c)
    PROVE  SeatInv'
<1> DEFINE r == target[c]
<1> USE DEF SeatInv, TypeInv, TypeOK
<1>1. /\ r \in RoomId /\ reader[c] = "leaving" /\ userID[c] \in User
      /\ todo[c]["reader"] = {} /\ dropping[c]["reader"] = NoRoom
      /\ r # NoRoom
    BY PresenceAssumption DEF JoinInsert, ReadyToJoin, LeavesDone, InLeaveLoop,
       RoomFound, LoopInv, HandlersAreAuthed
<1>2. /\ members' = [members EXCEPT ![r][userID[c]] = c]
      /\ reader' = [reader EXCEPT ![c] = "recording"]
      /\ UNCHANGED <<clients, userID, joined, kicked, target, closer, todo,
                     dropping>>
    BY DEF JoinInsert
<1>3. ASSUME NEW d \in Conn, NEW s \in RoomId, NEW u \in User,
             members'[s][u] = d
      PROVE  members[s][u] = d \/ (d = c /\ s = r /\ u = userID[c])
    BY <1>1, <1>2, <1>3
<1>4. ASSUME Tracked(c), NEW s \in RoomId
      PROVE  ~HasSeat(c, s)
    BY <1>1, <1>4 DEF LeftBeforeJoin
<1>5. ASSUME NEW d \in Conn, NEW s \in RoomId, Tracked(d)', HasSeat(d, s)'
      PROVE  Tracked(d) /\ IF d = c THEN s = r ELSE HasSeat(d, s)
    BY <1>2, <1>3, <1>4, <1>5 DEF HasSeat, Tracked
<1>6. SeatOwned'
    BY <1>2, <1>3 DEF SeatOwned
<1>7. DroppedSeatGone'
    BY <1>1, <1>2, <1>5 DEF DroppedSeatGone
<1>8. SeatsRecorded'
  <2> SUFFICES ASSUME NEW d \in Conn, NEW s \in RoomId, Tracked(d)',
                      HasSeat(d, s)'
               PROVE  s \in joined'[d] \/
                      (reader'[d] = "recording" /\ target'[d] = s)
      BY DEF SeatsRecorded, Tracked
  <2>1. CASE d = c
      BY <1>1, <1>2, <1>5, <2>1
  <2>2. CASE d # c
      BY <1>2, <1>5, <2>2 DEF SeatsRecorded, Tracked
  <2> QED
      BY <2>1, <2>2
<1>9. LeftBeforeJoin'
    BY <1>1, <1>2, <1>5 DEF LeftBeforeJoin
<1>10. OneSeat'
  <2> SUFFICES ASSUME NEW d \in Conn, NEW s1 \in RoomId, NEW s2 \in RoomId,
                      Tracked(d)', HasSeat(d, s1)', HasSeat(d, s2)'
               PROVE  s1 = s2
      BY DEF OneSeat
  <2>1. CASE d = c
      BY <1>5, <2>1
  <2>2. CASE d # c
      BY <1>5, <2>2 DEF OneSeat
  <2> QED
      BY <2>1, <2>2
<1>11. SeatedIsRegistered'
  <2> SUFFICES ASSUME NEW d \in Conn, NEW s \in RoomId, Tracked(d)',
                      ~kicked'[d], HasSeat(d, s)'
               PROVE  clients'[userID'[d]] = d
      BY DEF SeatedIsRegistered
  <2>1. CASE d = c
      BY <1>1, <1>2, <1>5, <2>1, PresenceAssumption
      DEF SupersededIsKicked, Superseded, Tracked
  <2>2. CASE d # c
      BY <1>2, <1>5, <2>2 DEF SeatedIsRegistered
  <2> QED
      BY <2>1, <2>2
<1> QED
    BY <1>6, <1>7, <1>8, <1>9, <1>10, <1>11

LEMMA SeatAddRoom ==
    ASSUME TypeInv, SeatInv, NEW c \in Conn, AddRoom(c)
    PROVE  SeatInv'
<1> USE DEF SeatInv, Tracked, TypeInv, TypeOK, HasSeat
<1>1. SeatOwned' /\ DroppedSeatGone' /\ SeatedIsRegistered'
    BY DEF SeatOwned, DroppedSeatGone, SeatedIsRegistered, AddRoom
<1>2. SeatsRecorded'
    BY DEF SeatsRecorded, AddRoom, WithRoom
<1>3. LeftBeforeJoin'
    BY DEF LeftBeforeJoin, AddRoom
<1>4. OneSeat'
    BY OneSeatKept DEF AddRoom
<1> QED
    BY <1>1, <1>2, <1>3, <1>4

LEMMA SeatLeaveMember ==
    ASSUME TypeInv, LoopInv, SeatInv,
           NEW c \in Conn, NEW t \in Thread, NEW r \in RoomId,
           LeaveMember(c, t, r)
    PROVE  SeatInv'
<1> USE DEF SeatInv, TypeInv, TypeOK
<1>1. /\ members' = [members EXCEPT ![r][userID[c]] = NoConn]
      /\ userID[c] \in User
      /\ UNCHANGED <<clients, userID, joined, kicked, reader, target, closer>>
    BY DEF LeaveMember, IsMember, Occupants
<1>2. /\ todo' = [todo EXCEPT ![c][t] = @ \ {r}]
      /\ dropping' = [dropping EXCEPT ![c][t] = r]
      /\ InLeaveLoop(c, t)
    BY DEF LeaveMember
<1>3. ASSUME NEW d \in Conn, NEW s \in RoomId, NEW u \in User,
             members'[s][u] = d
      PROVE  members[s][u] = d /\ ~(s = r /\ u = userID[c])
    BY <1>1, <1>3, PresenceAssumption
<1>4. ASSUME NEW d \in Conn, NEW s \in RoomId, Tracked(d)', HasSeat(d, s)'
      PROVE  Tracked(d) /\ HasSeat(d, s) /\ ~(d = c /\ s = r)
  <2>1. Tracked(d) /\ HasSeat(d, s)
      BY <1>1, <1>3, <1>4 DEF Tracked, HasSeat
  <2>2. ~(d = c /\ s = r)
      BY <1>3, <1>4, <2>1 DEF SeatOwned, Tracked, HasSeat
  <2> QED
      BY <2>1, <2>2
<1>5. Tracked(c) => t = "reader"
    BY <1>2 DEF Tracked, InLeaveLoop
<1>6. SeatOwned'
    BY <1>1, <1>3 DEF SeatOwned
<1>7. DroppedSeatGone'
  <2> SUFFICES ASSUME NEW d \in Conn, NEW s \in RoomId, Tracked(d)',
                      dropping'[d]["reader"] = s, HasSeat(d, s)'
               PROVE  FALSE
      BY DEF DroppedSeatGone
  <2>1. CASE d = c
      BY <1>2, <1>4, <1>5, <2>1
  <2>2. CASE d # c
      BY <1>2, <1>4, <2>2 DEF DroppedSeatGone
  <2> QED
      BY <2>1, <2>2
<1>8. SeatsRecorded'
    BY <1>1, <1>4 DEF SeatsRecorded, Tracked
<1>9. LeftBeforeJoin'
  <2> SUFFICES ASSUME NEW d \in Conn, NEW s \in RoomId, Tracked(d)',
                      reader'[d] = "leaving", target'[d] # NoRoom,
                      HasSeat(d, s)'
               PROVE  s \in todo'[d]["reader"]
      BY DEF LeftBeforeJoin
  <2>1. s \in todo[d]["reader"]
      BY <1>1, <1>4 DEF LeftBeforeJoin
  <2> QED
      BY <1>2, <1>4, <2>1
<1>10. OneSeat'
    BY <1>4 DEF OneSeat
<1>11. SeatedIsRegistered'
    BY <1>1, <1>4 DEF SeatedIsRegistered
<1> QED
    BY <1>6, <1>7, <1>8, <1>9, <1>10, <1>11

LEMMA SeatLeaveNonMember ==
    ASSUME TypeInv, LoopInv, SeatInv,
           NEW c \in Conn, NEW t \in Thread, NEW r \in RoomId,
           LeaveNonMember(c, t, r)
    PROVE  SeatInv'
<1> USE DEF SeatInv, Tracked, TypeInv, TypeOK
<1>1. /\ UNCHANGED <<clients, members, userID, joined, kicked, reader, target,
                     closer, dropping>>
      /\ todo' = [todo EXCEPT ![c][t] = @ \ {r}]
    BY DEF LeaveNonMember
<1>2. Tracked(c) => ~HasSeat(c, r)
    BY PresenceAssumption
    DEF LeaveNonMember, IsMember, Occupants, HasSeat, SeatOwned
<1>3. SeatOwned' /\ DroppedSeatGone' /\ SeatsRecorded' /\ SeatedIsRegistered'
    BY <1>1 DEF SeatOwned, DroppedSeatGone, SeatsRecorded, SeatedIsRegistered,
                HasSeat
<1>4. OneSeat'
    BY <1>1, OneSeatKept
<1>5. LeftBeforeJoin'
  <2> SUFFICES ASSUME NEW d \in Conn, NEW s \in RoomId, Tracked(d)',
                      reader'[d] = "leaving", target'[d] # NoRoom,
                      HasSeat(d, s)'
               PROVE  s \in todo'[d]["reader"]
      BY DEF LeftBeforeJoin
  <2>1. Tracked(d) /\ HasSeat(d, s)
      BY <1>1 DEF HasSeat
  <2>2. s \in todo[d]["reader"]
      BY <1>1, <2>1 DEF LeftBeforeJoin
  <2> QED
      BY <1>1, <1>2, <2>1, <2>2
<1> QED
    BY <1>3, <1>4, <1>5

LEMMA SeatRemoveRoom ==
    ASSUME TypeInv, LoopInv, SeatInv,
           NEW c \in Conn, NEW t \in Thread, RemoveRoom(c, t)
    PROVE  SeatInv'
<1> USE DEF SeatInv, Tracked, TypeInv, TypeOK
<1>1. /\ UNCHANGED <<clients, members, userID, kicked, reader, target, closer,
                     todo>>
      /\ joined' = [joined EXCEPT ![c] = joined[c] \ {dropping[c][t]}]
      /\ dropping' = [dropping EXCEPT ![c][t] = NoRoom]
      /\ dropping[c][t] \in RoomId
    BY DEF RemoveRoom, WithoutRoom
<1>2. Tracked(c) => ~HasSeat(c, dropping[c][t])
    BY <1>1, PresenceAssumption DEF LoopInv, DropInLoop, DroppedSeatGone
<1>3. SeatOwned' /\ SeatedIsRegistered' /\ LeftBeforeJoin'
    BY <1>1 DEF SeatOwned, SeatedIsRegistered, LeftBeforeJoin, HasSeat
<1>4. OneSeat'
    BY <1>1, OneSeatKept
<1>5. DroppedSeatGone'
  <2> SUFFICES ASSUME NEW d \in Conn, NEW s \in RoomId, Tracked(d)',
                      dropping'[d]["reader"] = s
               PROVE  ~HasSeat(d, s)'
      BY DEF DroppedSeatGone
  <2>1. Tracked(d) /\ dropping[d]["reader"] = s
      BY <1>1, PresenceAssumption
  <2> QED
      BY <1>1, <2>1 DEF DroppedSeatGone, HasSeat
<1>6. SeatsRecorded'
  <2> SUFFICES ASSUME NEW d \in Conn, NEW s \in RoomId, Tracked(d)',
                      HasSeat(d, s)'
               PROVE  s \in joined'[d] \/
                      (reader'[d] = "recording" /\ target'[d] = s)
      BY DEF SeatsRecorded
  <2>1. Tracked(d) /\ HasSeat(d, s)
      BY <1>1 DEF HasSeat
  <2> QED
      BY <1>1, <1>2, <2>1 DEF SeatsRecorded
<1> QED
    BY <1>3, <1>4, <1>5, <1>6


\* The steps that touch no seat and start no join.
LEMMA SeatQuiet ==
    ASSUME TypeInv, LoopInv, SeatInv, NEW c \in Conn,
           \/ \E r \in RoomId : CreateRoom(c, r)
           \/ LeaveFrameDone(c) \/ JoinRefused(c) \/ ReaderExit(c)
           \/ Close(c) \/ DisconnectUnauthed(c) \/ RemoveClient(c)
           \/ LeaveAllRooms(c) \/ StartScan(c)
           \/ \E r \in RoomId : ScanRoom(c, r)
           \/ EndScan(c) \/ Disconnected(c)
    PROVE  SeatInv'
<1> USE DEF TypeInv, TypeOK
<1>1. CASE \/ \E r \in RoomId : CreateRoom(c, r)
           \/ LeaveFrameDone(c) \/ JoinRefused(c) \/ ReaderExit(c)
  <2>1. /\ UNCHANGED <<clients, members, userID, joined, kicked, closer, todo,
                       dropping>>
        /\ reader[c] # "recording"
        /\ reader'[c] # "leaving"
        /\ \A d \in Conn \ {c} : target'[d] = target[d] /\ reader'[d] = reader[d]
      BY <1>1 DEF CreateRoom, LeaveFrameDone, JoinRefused, ReaderExit, Authed,
                  ReadyToJoin, LeavesDone, InLeaveLoop
  <2> QED
      BY <2>1, SeatsKept
<1>2. CASE \/ Close(c) \/ DisconnectUnauthed(c) \/ LeaveAllRooms(c)
           \/ StartScan(c) \/ \E r \in RoomId : ScanRoom(c, r)
           \/ EndScan(c) \/ Disconnected(c)
  <2>1. /\ UNCHANGED <<clients, members, userID, joined, reader, target,
                       dropping>>
        /\ \A d \in Conn : todo'[d]["reader"] = todo[d]["reader"]
        /\ \A d \in Conn : closer'[d] = "no" =>
               closer[d] = "no" /\ kicked'[d] = kicked[d]
      BY <1>2 DEF Close, DisconnectUnauthed, LeaveAllRooms, StartScan,
                  ScanRoom, EndScan, Disconnected
  <2> QED
      BY <2>1, SeatsKept
<1>3. CASE RemoveClient(c)
  <2>1. /\ UNCHANGED <<members, userID, joined, reader, target, kicked, todo,
                       dropping>>
        /\ closer' = [closer EXCEPT ![c] = "listing"]
        /\ closer[c] = "closed"
        /\ clients' = IF StillLive(c)
                      THEN [clients EXCEPT ![userID[c]] = NoConn]
                      ELSE clients
      BY <1>3 DEF RemoveClient
  <2>2. \A d \in Conn : closer'[d] = "no" =>
            /\ closer[d] = "no"
            /\ clients[userID[d]] = d => clients'[userID[d]] = d
      BY <2>1 DEF StillLive
  <2> QED
      BY <2>1, <2>2, SeatsKept
<1> QED
    BY <1>1, <1>2, <1>3

LEMMA SeatInvariance == Spec => []SeatInv
<1>1. Init => SeatInv
    BY PresenceAssumption
    DEF Init, SeatInv, SeatOwned, DroppedSeatGone, SeatsRecorded,
        LeftBeforeJoin, OneSeat, SeatedIsRegistered, HasSeat
<1>2. SeatInv /\ UNCHANGED vars => SeatInv'
    BY DEF SeatInv, SeatOwned, DroppedSeatGone, SeatsRecorded,
           LeftBeforeJoin, OneSeat, SeatedIsRegistered, HasSeat, Tracked, vars
<1>3. TypeInv /\ LoopInv /\ SupersededIsKicked /\ SeatInv /\ [Next]_vars
        => SeatInv'
  <2> SUFFICES ASSUME TypeInv, LoopInv, SupersededIsKicked, SeatInv, Next
               PROVE  SeatInv'
      BY <1>2
  <2>1. ASSUME NEW c \in Conn, ReaderStep(c) PROVE SeatInv'
      BY <2>1, SeatAuthenticate, SeatAddClient, SeatFrame, SeatJoin,
         SeatAddRoom, SeatLeaveMember, SeatLeaveNonMember, SeatRemoveRoom,
         SeatQuiet
      DEF ReaderStep, LeaveStep, Thread
  <2>2. ASSUME NEW c \in Conn, Close(c) \/ CloserStep(c) PROVE SeatInv'
      BY <2>2, SeatLeaveMember, SeatLeaveNonMember, SeatRemoveRoom, SeatQuiet
      DEF CloserStep, LeaveStep, Thread
  <2>3. CASE Terminated
      BY <1>2, <2>3 DEF Terminated
  <2> QED
      BY <2>1, <2>2, <2>3 DEF Next
<1> QED
    BY <1>1, <1>3, TypeInvariance, LoopInvariance, SupersededKicked, PTL
    DEF Spec

\* leaveAllRooms can trust c.rooms: until its clean-up starts, a connection
\* has recorded every seat it holds, or is about to.
THEOREM SeatsAreRecorded == Spec => []SeatsRecorded
BY SeatInvariance, PTL DEF SeatInv

\* A user's settled connections hold seats in at most one room, however many
\* tabs the user opens and whatever races the kicks run.
THEOREM OneRoom == Spec => []OneRoomPerUser
<1>1. TypeInv /\ SeatInv => OneRoomPerUser
  <2> SUFFICES ASSUME TypeInv, SeatInv, NEW u \in User,
                      NEW r \in RoomId, NEW s \in RoomId,
                      members[r][u] # NoConn, members[s][u] # NoConn, r # s,
                      OneAccount(members[r][u]), OneAccount(members[s][u]),
                      Settled(members[r][u]), Settled(members[s][u])
               PROVE  FALSE
      BY DEF OneRoomPerUser
  <2> DEFINE c == members[r][u]
             d == members[s][u]
  <2>0. c \in Conn /\ d \in Conn
      BY DEF TypeInv, TypeOK
  <2>1. userID[c] = u /\ userID[d] = u
      BY <2>0 DEF SeatInv, SeatOwned
  <2>2. HasSeat(c, r) /\ HasSeat(d, s) /\ Tracked(c) /\ Tracked(d)
      BY <2>0 DEF HasSeat, Tracked, Settled
  <2>3. clients[u] = c /\ clients[u] = d
      BY <2>0, <2>1, <2>2 DEF SeatInv, SeatedIsRegistered, Settled
  <2> QED
      BY <2>0, <2>2, <2>3 DEF SeatInv, OneSeat
<1> QED
    BY <1>1, TypeInvariance, SeatInvariance, PTL

-----------------------------------------------------------------------------
(***************************************************************************)
(* The clean-up.                                                           *)
(***************************************************************************)
\* The connections the invariant speaks about.
OnTime(c) == OneAccount(c) /\ ~late[c]

\* An entry is kept under the user the connection signed in as.
EntryOwned ==
    \A c \in Conn, u \in User :
        OneAccount(c) /\ clients[u] = c => userID[c] = u

\* RemoveClient takes the entry away for good.
EntryGone ==
    \A c \in Conn, u \in User :
        OnTime(c) /\ closer[c] \notin {"no", "closed"} => clients[u] # c

\* A seat in a room that was scanned is one the scan has put on its list.
ScannedAreListed ==
    \A c \in Conn, r \in RoomId :
        OnTime(c) /\ ScannedBy(c, r) /\ HasSeat(c, r) =>
            closer[c] # "done" /\ r \in todo[c]["closer"]

CleanInv == EntryOwned /\ EntryGone /\ ScannedAreListed

\* Steps that neither seat nor register anybody, nor move a closer.
LEMMA CleanKept ==
    ASSUME CleanInv,
           \A c \in Conn : OneAccount(c) => late'[c] = late[c],
           \A c \in Conn : closer'[c] = closer[c] /\ unscanned'[c] = unscanned[c],
           \A c \in Conn : todo'[c]["closer"] = todo[c]["closer"],
           \A c \in Conn, r \in RoomId : HasSeat(c, r)' => HasSeat(c, r),
           UNCHANGED <<clients, userID>>
    PROVE  CleanInv'
BY DEF CleanInv, EntryOwned, EntryGone, ScannedAreListed, OnTime, ScannedBy,
       OneAccount

\* A sign-in: the user of a connection of one account never changes again, and
\* an entry made after the clean-up looked makes the connection late.
LEMMA CleanSignIn ==
    ASSUME TypeInv, LoopInv, CleanInv, NEW c \in Conn,
           (\E u \in User : Authenticate(c, u)) \/ AddClient(c)
    PROVE  CleanInv'
<1> USE PresenceAssumption DEF TypeInv, TypeOK
<1>1. CASE \E u \in User : Authenticate(c, u)
  <2>1. PICK u \in User : Authenticate(c, u)
      BY <1>1
  <2>2. EntryOwned'
      BY <2>1 DEF Authenticate, CleanInv, EntryOwned, LoopInv, AccountKept,
                  OneAccount
  <2>3. EntryGone'
      BY <2>1 DEF Authenticate, CleanInv, EntryGone, OnTime, OneAccount
  <2>4. ScannedAreListed'
      BY <2>1 DEF Authenticate, CleanInv, ScannedAreListed, OnTime,
                  OneAccount, ScannedBy, HasSeat
  <2> QED
      BY <2>2, <2>3, <2>4 DEF CleanInv
<1>2. CASE AddClient(c)
  <2>1. /\ clients' = [clients EXCEPT ![userID[c]] = c]
        /\ late' = [late EXCEPT ![c] = late[c] \/ closer[c] \notin {"no", "closed"}]
        /\ UNCHANGED <<members, userID, closer, unscanned, todo>>
        /\ userID[c] \in User
      BY <1>2 DEF AddClient, LoopInv, HandlersAreAuthed
  <2>2. EntryOwned'
      BY <2>1 DEF CleanInv, EntryOwned, OneAccount
  <2>3. EntryGone'
      BY <2>1 DEF CleanInv, EntryGone, OnTime, OneAccount
  <2>4. ScannedAreListed'
      BY <2>1 DEF CleanInv, ScannedAreListed, OnTime, OneAccount, ScannedBy,
                  HasSeat
  <2> QED
      BY <2>2, <2>3, <2>4 DEF CleanInv
<1> QED
    BY <1>1, <1>2

\* A join inserts a seat where the scan has still to look, or is late.
LEMMA CleanJoin ==
    ASSUME TypeInv, LoopInv, CleanInv, NEW c \in Conn, JoinInsert(c)
    PROVE  CleanInv'
<1> USE PresenceAssumption DEF TypeInv, TypeOK
<1> DEFINE r == target[c]
<1>1. /\ r \in RoomId /\ userID[c] \in User
      /\ members' = [members EXCEPT ![r][userID[c]] = c]
      /\ late' = [late EXCEPT ![c] = late[c] \/ ScannedBy(c, r)]
      /\ UNCHANGED <<clients, userID, closer, unscanned, todo>>
    BY DEF JoinInsert, ReadyToJoin, LeavesDone, InLeaveLoop, LoopInv,
           HandlersAreAuthed
<1>2. \A d \in Conn, s \in RoomId :
          HasSeat(d, s)' => HasSeat(d, s) \/ (d = c /\ s = r)
    BY <1>1 DEF HasSeat
<1>3. \A d \in Conn : late[d] => late'[d]
    BY <1>1
<1>4. \A d \in Conn, s \in RoomId : ScannedBy(d, s)' = ScannedBy(d, s)
    BY <1>1 DEF ScannedBy
<1>5. ScannedBy(c, r) => late'[c]
    BY <1>1
<1>6. ScannedAreListed'
    BY <1>1, <1>2, <1>3, <1>4, <1>5
    DEF CleanInv, ScannedAreListed, OnTime, OneAccount
<1>7. EntryOwned' /\ EntryGone'
    BY <1>1, <1>3 DEF CleanInv, EntryOwned, EntryGone, OnTime, OneAccount
<1> QED
    BY <1>6, <1>7 DEF CleanInv

\* A leave that the closer runs: the room is off its list, and the seat gone.
LEMMA CleanLeave ==
    ASSUME TypeInv, SeatOwned, CleanInv, NEW c \in Conn, NEW t \in Thread,
           NEW r \in RoomId, LeaveMember(c, t, r) \/ LeaveNonMember(c, t, r)
    PROVE  CleanInv'
<1> USE PresenceAssumption DEF TypeInv, TypeOK
<1>1. /\ todo' = [todo EXCEPT ![c][t] = todo[c][t] \ {r}]
      /\ UNCHANGED <<clients, userID, closer, unscanned, late>>
    BY DEF LeaveMember, LeaveNonMember
<1>2. \A d \in Conn, s \in RoomId : HasSeat(d, s)' => HasSeat(d, s)
  <2>1. CASE LeaveMember(c, t, r)
      BY <2>1 DEF LeaveMember, HasSeat, IsMember, Occupants
  <2>2. CASE LeaveNonMember(c, t, r)
      BY <2>2 DEF LeaveNonMember, HasSeat
  <2> QED
      BY <2>1, <2>2
<1>3. OneAccount(c) => ~HasSeat(c, r)'
  <2>1. CASE LeaveMember(c, t, r)
      BY <2>1 DEF LeaveMember, HasSeat, IsMember, Occupants, SeatOwned
  <2>2. CASE LeaveNonMember(c, t, r)
      BY <2>2 DEF LeaveNonMember, HasSeat, IsMember, Occupants, SeatOwned
  <2> QED
      BY <2>1, <2>2
<1>4. \A d \in Conn, s \in RoomId :
          s \in todo[d]["closer"] =>
              s \in todo'[d]["closer"] \/ (d = c /\ s = r)
    BY <1>1 DEF Thread
<1>5. ScannedAreListed'
    BY <1>1, <1>2, <1>3, <1>4
    DEF CleanInv, ScannedAreListed, OnTime, OneAccount, ScannedBy
<1>6. EntryOwned' /\ EntryGone'
    BY <1>1 DEF CleanInv, EntryOwned, EntryGone, OnTime, OneAccount
<1> QED
    BY <1>5, <1>6 DEF CleanInv

\* The closer's own steps.
LEMMA CleanCloser ==
    ASSUME TypeInv, SeatOwned, CleanInv, NEW c \in Conn,
           \/ Close(c) \/ DisconnectUnauthed(c) \/ RemoveClient(c)
           \/ LeaveAllRooms(c) \/ StartScan(c) \/ EndScan(c)
           \/ Disconnected(c) \/ \E r \in RoomId : ScanRoom(c, r)
    PROVE  CleanInv'
<1> USE PresenceAssumption DEF TypeInv, TypeOK
<1>0. UNCHANGED <<members, userID, late>>
  <2>1. \A r \in RoomId : ScanRoom(c, r) => UNCHANGED <<members, userID, late>>
      BY DEF ScanRoom
  <2>2. \/ Close(c) \/ DisconnectUnauthed(c) \/ RemoveClient(c)
        \/ LeaveAllRooms(c)
        => UNCHANGED <<members, userID, late>>
      BY DEF Close, DisconnectUnauthed, RemoveClient, LeaveAllRooms
  <2>3. StartScan(c) \/ EndScan(c) \/ Disconnected(c)
        => UNCHANGED <<members, userID, late>>
      BY DEF StartScan, EndScan, Disconnected
  <2> QED
      BY <2>1, <2>2, <2>3
<1>1. CASE Close(c)
  <2>1. /\ closer' = [closer EXCEPT ![c] = "closed"]
        /\ closer[c] = "no"
        /\ UNCHANGED <<clients, unscanned, todo>>
      BY <1>1 DEF Close
  <2>2. EntryOwned' /\ EntryGone'
      BY <1>0, <2>1 DEF CleanInv, EntryOwned, EntryGone, OnTime, OneAccount
  <2>3. ScannedAreListed'
      BY <1>0, <2>1 DEF CleanInv, ScannedAreListed, OnTime, OneAccount,
                        ScannedBy, HasSeat
  <2> QED
      BY <2>2, <2>3 DEF CleanInv
<1>2. CASE DisconnectUnauthed(c)
  <2>1. OneAccount(c) => /\ \A u \in User : clients[u] # c
                         /\ \A r \in RoomId : ~HasSeat(c, r)
      BY <1>2 DEF DisconnectUnauthed, CleanInv, EntryOwned, SeatOwned, HasSeat
  <2> QED
      BY <1>0, <1>2, <2>1
      DEF DisconnectUnauthed, CleanInv, EntryOwned, EntryGone,
          ScannedAreListed, OnTime, OneAccount, ScannedBy, HasSeat
<1>3. CASE RemoveClient(c)
  <2>1. /\ closer' = [closer EXCEPT ![c] = "listing"]
        /\ UNCHANGED <<unscanned, todo>>
        /\ \A u \in User : clients'[u] # NoConn => clients'[u] = clients[u]
      BY <1>3 DEF RemoveClient
  <2>2. OneAccount(c) => \A u \in User : clients'[u] # c
      BY <1>3 DEF RemoveClient, StillLive, CleanInv, EntryOwned
  <2>3. EntryOwned'
      BY <1>0, <2>1 DEF CleanInv, EntryOwned, OneAccount
  <2>4. EntryGone'
      BY <1>0, <2>1, <2>2 DEF CleanInv, EntryGone, OnTime, OneAccount
  <2>5. ScannedAreListed'
      BY <1>0, <2>1, <2>2 DEF CleanInv, ScannedAreListed, OnTime, OneAccount,
                             ScannedBy, HasSeat
  <2> QED
      BY <2>3, <2>4, <2>5 DEF CleanInv
<1>4. CASE LeaveAllRooms(c)
    BY <1>0, <1>4 DEF LeaveAllRooms, CleanInv, EntryOwned, EntryGone,
                ScannedAreListed, OnTime, OneAccount, ScannedBy, HasSeat
<1>5. CASE StartScan(c)
  <2>1. /\ closer' = [closer EXCEPT ![c] = "scan"]
        /\ unscanned' = [unscanned EXCEPT ![c] = rooms]
        /\ closer[c] = "leaving"
        /\ UNCHANGED <<clients, todo>>
      BY <1>5 DEF StartScan
  <2>2. \A r \in RoomId : HasSeat(c, r) => r \in rooms
      BY DEF HasSeat
  <2>3. EntryOwned'
      BY <1>0, <2>1 DEF CleanInv, EntryOwned, OneAccount
  <2>4. EntryGone'
      BY <1>0, <2>1, <2>2 DEF CleanInv, EntryGone, OnTime, OneAccount
  <2>5. ScannedAreListed'
      BY <1>0, <2>1, <2>2 DEF CleanInv, ScannedAreListed, OnTime, OneAccount,
                             ScannedBy, HasSeat
  <2> QED
      BY <2>3, <2>4, <2>5 DEF CleanInv
<1>6. CASE \E r \in RoomId : ScanRoom(c, r)
  <2>1. PICK r \in RoomId : ScanRoom(c, r)
      BY <1>6
  <2>2. /\ closer[c] = "scan"
        /\ unscanned' = [unscanned EXCEPT ![c] = unscanned[c] \ {r}]
        /\ todo' = [todo EXCEPT ![c]["closer"] =
                       IF IsGhost(c, r) THEN todo[c]["closer"] \cup {r}
                                        ELSE todo[c]["closer"]]
        /\ UNCHANGED <<clients, closer>>
      BY <2>1 DEF ScanRoom
  <2>3. OneAccount(c) /\ HasSeat(c, r) => IsGhost(c, r)
      BY DEF HasSeat, SeatOwned, IsGhost, IsMember, Occupants
  <2>4. /\ \A d \in Conn, s \in RoomId :
               s \in todo[d]["closer"] => s \in todo'[d]["closer"]
        /\ IsGhost(c, r) => r \in todo'[c]["closer"]
      BY <2>2 DEF Thread
  <2>5. ScannedAreListed'
      BY <1>0, <2>2, <2>3, <2>4
      DEF CleanInv, ScannedAreListed, OnTime, OneAccount, ScannedBy, HasSeat
  <2>6. EntryOwned' /\ EntryGone'
      BY <1>0, <2>2 DEF CleanInv, EntryOwned, EntryGone, OnTime, OneAccount
  <2> QED
      BY <2>5, <2>6 DEF CleanInv
<1>7. CASE EndScan(c)
    BY <1>0, <1>7 DEF EndScan, CleanInv, EntryOwned, EntryGone,
                ScannedAreListed, OnTime, OneAccount, ScannedBy, HasSeat
<1>8. CASE Disconnected(c)
    BY <1>0, <1>8 DEF Disconnected, LeavesDone, CleanInv,
                EntryOwned, EntryGone, ScannedAreListed, OnTime, OneAccount,
                ScannedBy, HasSeat
<1> QED
    BY <1>1, <1>2, <1>3, <1>4, <1>5, <1>6, <1>7, <1>8

\* The reader's other steps, and a leave's last one.
LEMMA CleanQuiet ==
    ASSUME TypeInv, CleanInv, NEW c \in Conn,
           \/ \E r \in RoomId :
                 CreateRoom(c, r) \/ JoinFrame(c, r) \/ LeaveFrame(c, r)
           \/ LeaveFrameDone(c) \/ JoinRefused(c) \/ AddRoom(c)
           \/ ReaderExit(c) \/ \E t \in Thread : RemoveRoom(c, t)
    PROVE  CleanInv'
<1>1. UNCHANGED <<clients, members, userID, closer, unscanned, late>>
    BY DEF CreateRoom, JoinFrame, LeaveFrame, LeaveFrameDone, JoinRefused,
           AddRoom, ReaderExit, RemoveRoom
<1>2. \A d \in Conn : todo'[d]["closer"] = todo[d]["closer"]
  <2>0. todo \in [Conn -> [Thread -> SUBSET RoomId]]
      BY DEF TypeInv, TypeOK
  <2>1. CASE \E r \in RoomId : JoinFrame(c, r) \/ LeaveFrame(c, r)
      BY <2>0, <2>1 DEF JoinFrame, LeaveFrame
  <2>2. CASE UNCHANGED todo
      BY <2>2
  <2> QED
      BY <2>1, <2>2 DEF CreateRoom, LeaveFrameDone, JoinRefused, AddRoom,
         ReaderExit, RemoveRoom
<1> QED
    BY <1>1, <1>2, CleanKept DEF HasSeat

LEMMA CleanInvariance == Spec => []CleanInv
<1>1. Init => CleanInv
    BY PresenceAssumption
    DEF Init, CleanInv, EntryOwned, EntryGone, ScannedAreListed, HasSeat
<1>2. CleanInv /\ UNCHANGED vars => CleanInv'
    BY DEF CleanInv, EntryOwned, EntryGone, ScannedAreListed, OnTime,
           OneAccount, ScannedBy, HasSeat, vars
<1>3. TypeInv /\ LoopInv /\ SeatInv /\ CleanInv /\ [Next]_vars => CleanInv'
  <2> SUFFICES ASSUME TypeInv, LoopInv, SeatInv, CleanInv, Next
               PROVE  CleanInv'
      BY <1>2
  <2>0. SeatOwned
      BY DEF SeatInv
  <2>1. ASSUME NEW c \in Conn, ReaderStep(c) PROVE CleanInv'
      BY <2>0, <2>1, CleanSignIn, CleanJoin, CleanLeave, CleanQuiet
      DEF ReaderStep, LeaveStep
  <2>2. ASSUME NEW c \in Conn, Close(c) \/ CloserStep(c) PROVE CleanInv'
      BY <2>0, <2>2, CleanLeave, CleanQuiet, CleanCloser
      DEF CloserStep, LeaveStep
  <2>3. CASE Terminated
      BY <1>2, <2>3 DEF Terminated
  <2> QED
      BY <2>1, <2>2, <2>3 DEF Next
<1> QED
    BY <1>1, <1>3, TypeInvariance, LoopInvariance, SeatInvariance, PTL DEF Spec

\* handleDisconnect leaves no seat and no registry entry behind, except those
\* made after it looked, by frames that were still in the read buffer or by a
\* handler it overtook.
THEOREM OnlyLateLeftovers == Spec => []LeftoversAreLate
<1>1. CleanInv => LeftoversAreLate
    BY DEF CleanInv, EntryGone, ScannedAreListed, OnTime, ScannedBy,
           LeftoversAreLate
<1> QED
    BY <1>1, CleanInvariance, PTL

(***************************************************************************)
(* Client.rooms and the relay guard, of a connection whose user has no     *)
(* other one.                                                              *)
(***************************************************************************)

\* Nothing but the connection itself touches a seat kept under its user, and what
\* c.rooms says of it is behind by the room being left and the room being joined.
OwnSeats ==
    \A c \in Conn : OwnUser(c) /\ closer[c] = "no" =>
        /\ \A r \in joined[c] \ {dropping[c]["reader"]} :
               members[r][userID[c]] = c
        /\ reader[c] = "recording" => members[target[c]][userID[c]] = c

JoinedAreAuthed ==
    \A c \in Conn : joined[c] # {} => userID[c] # NoUser

JoinedInv == OwnSeats /\ JoinedAreAuthed

\* No other connection is ever signed in as the user of such a connection.
LEMMA OwnUserIsOwn ==
    ASSUME LoopInv, NEW c \in Conn, NEW d \in Conn, OwnUser(c), d # c,
           userID[d] # NoUser
    PROVE  userID[d] # userID[c]
BY DEF LoopInv, AccountKept, OwnUser

LEMMA JoinedSeats ==
    ASSUME TypeInv, LoopInv, JoinedInv, NEW d \in Conn,
           JoinInsert(d) \/ \E t \in Thread, r \in RoomId : LeaveMember(d, t, r)
    PROVE  JoinedInv'
<1> USE PresenceAssumption DEF TypeInv, TypeOK
<1>1. JoinedAreAuthed'
    BY DEF JoinInsert, LeaveMember, JoinedInv, JoinedAreAuthed
<1>2. userID[d] # NoUser
  <2>1. CASE JoinInsert(d)
      BY <2>1 DEF JoinInsert, ReadyToJoin, LeavesDone, InLeaveLoop, LoopInv,
                  HandlersAreAuthed
  <2>2. CASE \E t \in Thread, r \in RoomId : LeaveMember(d, t, r)
      BY <2>2 DEF LeaveMember, IsMember, Occupants
  <2> QED
      BY <2>1, <2>2
<1> SUFFICES ASSUME NEW c \in Conn, OwnUser(c), closer'[c] = "no"
             PROVE  /\ \A r \in joined'[c] \ {dropping'[c]["reader"]} :
                           members'[r][userID'[c]] = c
                    /\ reader'[c] = "recording" =>
                           members'[target'[c]][userID'[c]] = c
    BY <1>1 DEF JoinedInv, OwnSeats, OwnUser, OneAccount
<1>3. /\ closer[c] = "no"
      /\ UNCHANGED <<joined, userID, target>>
      /\ \A r \in joined[c] \ {dropping[c]["reader"]} : members[r][userID[c]] = c
      /\ reader[c] = "recording" => members[target[c]][userID[c]] = c
    BY DEF JoinInsert, LeaveMember, JoinedInv, OwnSeats
<1>4. CASE d # c
  <2>1. userID[d] # userID[c]
      BY <1>2, <1>4, OwnUserIsOwn
  <2>2. dropping'[c] = dropping[c] /\ reader'[c] = reader[c]
      BY <1>4 DEF JoinInsert, LeaveMember
  <2>4. \A r \in RoomId : members'[r][userID[c]] = members[r][userID[c]]
    <3>1. CASE JoinInsert(d)
        BY <2>1, <3>1 DEF JoinInsert
    <3>2. CASE \E t \in Thread, r \in RoomId : LeaveMember(d, t, r)
        BY <2>1, <3>2 DEF LeaveMember
    <3> QED
        BY <3>1, <3>2
  <2>3. reader[c] = "recording" => target[c] \in RoomId
      BY DEF RecordedRoomExists
  <2> QED
      BY <1>3, <2>2, <2>3, <2>4
<1>5. CASE d = c /\ JoinInsert(d)
  <2>1. /\ target[c] \in RoomId /\ userID[c] \in User
        /\ members' = [members EXCEPT ![target[c]][userID[c]] = c]
        /\ dropping[c]["reader"] = NoRoom /\ UNCHANGED dropping
      BY <1>2, <1>5 DEF JoinInsert, RoomFound, ReadyToJoin, LeavesDone
  <2> QED
      BY <1>3, <2>1
<1>6. CASE d = c /\ \E t \in Thread, r \in RoomId : LeaveMember(d, t, r)
  <2>1. PICK t \in Thread, r \in RoomId : LeaveMember(d, t, r)
      BY <1>6
  <2>2. t = "reader" /\ reader[c] = "leaving"
      BY <1>3, <1>6, <2>1 DEF LeaveMember, InLeaveLoop
  <2>3. /\ UNCHANGED reader
        /\ dropping[c]["reader"] = NoRoom
        /\ dropping' = [dropping EXCEPT ![c]["reader"] = r]
        /\ members' = [members EXCEPT ![r][userID[c]] = NoConn]
      BY <1>6, <2>1, <2>2 DEF LeaveMember
  <2>4. dropping'[c]["reader"] = r
      BY <2>3
  <2> QED
      BY <1>3, <2>2, <2>3, <2>4
<1> QED
    BY <1>4, <1>5, <1>6

\* AddRoom and RemoveRoom bring c.rooms up to date.
LEMMA JoinedRooms ==
    ASSUME TypeInv, LoopInv, JoinedInv, NEW d \in Conn,
           AddRoom(d) \/ \E t \in Thread : RemoveRoom(d, t)
    PROVE  JoinedInv'
<1> USE PresenceAssumption
    DEF TypeInv, TypeOK, JoinedInv, OwnSeats, JoinedAreAuthed, OwnUser,
        OneAccount
<1>1. CASE AddRoom(d)
    BY <1>1 DEF AddRoom, WithRoom, LoopInv, HandlersAreAuthed
<1>2. ASSUME NEW t \in Thread, RemoveRoom(d, t) PROVE JoinedInv'
  <2>1. /\ joined' = [joined EXCEPT ![d] = joined[d] \ {dropping[d][t]}]
        /\ dropping' = [dropping EXCEPT ![d][t] = NoRoom]
        /\ closer[d] = "no" => t = "reader"
        /\ UNCHANGED <<members, userID, reader, target, closer>>
      BY <1>2 DEF RemoveRoom, WithoutRoom, LoopInv, DropInLoop
  <2> QED
      BY <2>1
<1> QED
    BY <1>1, <1>2

\* The other steps change neither the seats nor c.rooms.
LEMMA JoinedOthers ==
    ASSUME TypeInv, LoopInv, JoinedInv, NEW d \in Conn,
           \/ \E u \in User : Authenticate(d, u)
           \/ AddClient(d)
           \/ \E r \in RoomId :
                 CreateRoom(d, r) \/ JoinFrame(d, r) \/ LeaveFrame(d, r)
           \/ LeaveFrameDone(d) \/ JoinRefused(d) \/ ReaderExit(d)
           \/ \E t \in Thread, r \in RoomId : LeaveNonMember(d, t, r)
           \/ Close(d) \/ DisconnectUnauthed(d) \/ RemoveClient(d)
           \/ LeaveAllRooms(d) \/ StartScan(d) \/ EndScan(d) \/ Disconnected(d)
           \/ \E r \in RoomId : ScanRoom(d, r)
    PROVE  JoinedInv'
<1> USE PresenceAssumption
    DEF TypeInv, TypeOK, JoinedInv, OwnSeats, JoinedAreAuthed
<1>1. ASSUME NEW u \in User, Authenticate(d, u) PROVE JoinedInv'
  <2>1. /\ userID' = [userID EXCEPT ![d] = u]
        /\ reader' = [reader EXCEPT ![d] = "registering"]
        /\ u \in Accounts[d]
        /\ UNCHANGED <<members, joined, target, closer, dropping>>
      BY <1>1 DEF Authenticate
  <2>2. OwnUser(d) => userID[d] \in {u, NoUser}
      BY <2>1 DEF LoopInv, AccountKept, OwnUser, OneAccount
  <2>3. JoinedAreAuthed'
      BY <2>1
  <2>4. \A c \in Conn : OwnUser(c) /\ closer[c] = "no" =>
            /\ \A r \in joined[c] \ {dropping[c]["reader"]} :
                   members[r][userID'[c]] = c
            /\ reader'[c] = "recording" => members[target[c]][userID'[c]] = c
    <3> SUFFICES ASSUME NEW c \in Conn, OwnUser(c), closer[c] = "no"
                 PROVE  /\ \A r \in joined[c] \ {dropping[c]["reader"]} :
                               members[r][userID'[c]] = c
                        /\ reader'[c] = "recording" =>
                               members[target[c]][userID'[c]] = c
        OBVIOUS
    <3>1. CASE c = d
        BY <2>1, <2>2, <3>1
    <3>2. CASE c # d
        BY <2>1, <3>2
    <3> QED
        BY <3>1, <3>2
  <2>5. OwnSeats'
      BY <2>1, <2>4
  <2> QED
      BY <2>3, <2>5
<1>2. CASE AddClient(d)
    BY <1>2 DEF AddClient
<1>3. ASSUME NEW r \in RoomId,
             CreateRoom(d, r) \/ JoinFrame(d, r) \/ LeaveFrame(d, r)
      PROVE  JoinedInv'
  <2>1. /\ UNCHANGED <<members, userID, joined, closer, dropping>>
        /\ reader'[d] # "recording"
        /\ \A c \in Conn \ {d} : reader'[c] = reader[c] /\ target'[c] = target[c]
      BY <1>3 DEF CreateRoom, JoinFrame, LeaveFrame, Authed
  <2> QED
      BY <2>1
<1>4. CASE LeaveFrameDone(d) \/ JoinRefused(d) \/ ReaderExit(d)
  <2>1. /\ UNCHANGED <<members, userID, joined, closer, dropping>>
        /\ reader'[d] # "recording"
        /\ \A c \in Conn \ {d} : reader'[c] = reader[c] /\ target'[c] = target[c]
      BY <1>4 DEF LeaveFrameDone, JoinRefused, ReaderExit
  <2> QED
      BY <2>1
<1>5. ASSUME NEW t \in Thread, NEW r \in RoomId, LeaveNonMember(d, t, r)
      PROVE  JoinedInv'
    BY <1>5 DEF LeaveNonMember
<1>6. CASE \/ Close(d) \/ DisconnectUnauthed(d) \/ RemoveClient(d)
           \/ LeaveAllRooms(d)
    BY <1>6 DEF Close, DisconnectUnauthed, RemoveClient, LeaveAllRooms
<1>7. CASE \/ StartScan(d) \/ EndScan(d) \/ Disconnected(d)
           \/ \E r \in RoomId : ScanRoom(d, r)
    BY <1>7 DEF StartScan, EndScan, Disconnected, ScanRoom
<1> QED
    BY <1>1, <1>2, <1>3, <1>4, <1>5, <1>6, <1>7

LEMMA JoinedInvariance == Spec => []JoinedInv
<1>1. Init => JoinedInv
    BY DEF Init, JoinedInv, OwnSeats, JoinedAreAuthed
<1>2. JoinedInv /\ UNCHANGED vars => JoinedInv'
    BY DEF JoinedInv, OwnSeats, JoinedAreAuthed, OwnUser, OneAccount, vars
<1>3. TypeInv /\ LoopInv /\ JoinedInv /\ [Next]_vars => JoinedInv'
  <2> SUFFICES ASSUME TypeInv, LoopInv, JoinedInv, Next PROVE JoinedInv'
      BY <1>2
  <2>1. ASSUME NEW d \in Conn, ReaderStep(d) PROVE JoinedInv'
      BY <2>1, JoinedSeats, JoinedRooms, JoinedOthers DEF ReaderStep, LeaveStep
  <2>2. ASSUME NEW d \in Conn, Close(d) \/ CloserStep(d) PROVE JoinedInv'
      BY <2>2, JoinedSeats, JoinedRooms, JoinedOthers DEF CloserStep, LeaveStep
  <2>3. CASE Terminated
      BY <1>2, <2>3 DEF Terminated
  <2> QED
      BY <2>1, <2>2, <2>3 DEF Next
<1> QED
    BY <1>1, <1>3, TypeInvariance, LoopInvariance, PTL DEF Spec

\* Client.rooms is what its comment says, a room where the connection sits, as
\* long as nobody else signs in as its user (client.go).
THEOREM RoomsAreSeats == Spec => []JoinedIsSeated
<1>1. JoinedInv => JoinedIsSeated
    BY DEF JoinedInv, OwnSeats, JoinedIsSeated
<1> QED
    BY <1>1, JoinedInvariance, PTL

\* peerClient's guard, which reads the registry, c.rooms and then the seats, lets
\* signals through to members of the room the sender sits in and to nobody else,
\* and finds every member whose connection nobody is tearing down.
THEOREM RelaysStayInTheRoom == Spec => []RelayGuardExact
<1>1. TypeInv /\ LoopInv /\ SeatInv /\ JoinedInv => RelayGuardExact
  <2> SUFFICES ASSUME TypeInv, LoopInv, SeatInv, JoinedInv,
                      NEW c \in Conn, OwnUser(c), closer[c] = "no",
                      reader[c] = "idle",
                      NEW u \in User, u # userID[c]
               PROVE  /\ PeerClient(c, u) # NoConn =>
                             \E r \in RoomId : HasSeat(c, r) /\ u \in Occupants(r)
                      /\ \A r \in RoomId, d \in Conn :
                             /\ HasSeat(c, r) /\ members[r][u] = d
                             /\ OneAccount(d) /\ Settled(d)
                             => PeerClient(c, u) = d
      BY DEF RelayGuardExact
  <2>1. dropping[c]["reader"] = NoRoom
      BY DEF LoopInv, DropInLoop
  <2>2. ASSUME NEW r \in RoomsOf(c) PROVE r \in RoomId /\ HasSeat(c, r)
    <3>1. r \in joined[c] /\ r \in RoomId /\ userID[c] \in User
        BY <2>2 DEF RoomsOf, TypeInv, TypeOK, JoinedInv, JoinedAreAuthed
    <3>2. members[r][userID[c]] = c
        BY <2>1, <3>1, PresenceAssumption DEF JoinedInv, OwnSeats
    <3> QED
        BY <3>1, <3>2 DEF HasSeat
  <2>3. ASSUME NEW r \in RoomId, HasSeat(c, r) PROVE r \in RoomsOf(c)
    <3>1. r \in joined[c]
        BY <2>3 DEF SeatInv, SeatsRecorded, OwnUser
    <3> QED
        BY <3>1 DEF RoomsOf, TypeInv, TypeOK
  <2>4. ASSUME PeerClient(c, u) # NoConn
        PROVE  \E r \in RoomId : HasSeat(c, r) /\ u \in Occupants(r)
    <3>1. PICK r \in RoomsOf(c) : u \in Occupants(r)
        BY <2>4 DEF PeerClient
    <3> QED
        BY <2>2, <3>1
  <2>5. ASSUME NEW r \in RoomId, NEW d \in Conn, HasSeat(c, r),
               members[r][u] = d, OneAccount(d), Settled(d)
        PROVE  PeerClient(c, u) = d
    <3>1. HasSeat(d, r) /\ Tracked(d) /\ userID[d] = u
        BY <2>5 DEF HasSeat, Tracked, Settled, SeatInv, SeatOwned
    <3>2. clients[u] = d
        BY <2>5, <3>1 DEF SeatInv, SeatedIsRegistered, Settled
    <3>3. u \in Occupants(r)
        BY <2>5, PresenceAssumption DEF Occupants
    <3> QED
        BY <2>3, <2>5, <3>2, <3>3 DEF PeerClient
  <2> QED
      BY <2>4, <2>5
<1> QED
    BY <1>1, TypeInvariance, LoopInvariance, SeatInvariance, JoinedInvariance,
       PTL

(***************************************************************************)
(* The registry implements the book of module Seats.                       *)
(***************************************************************************)
Seating == [r \in RoomId |-> Occupants(r)]

\* The instance has its own copy of the library's operator.
LEMMA SameCardinality == \A S : Book!Cardinality(S) = Cardinality(S)
BY DEF Cardinality, Book!Cardinality

LEMMA InitIsBook == Init => Book!Init
BY PresenceAssumption DEF Init, Book!Init, Occupants

\* A join sits one user down, under the cap; a user with a seat keeps it.
LEMMA JoinIsSit ==
    ASSUME TypeInv, NEW c \in Conn, JoinInsert(c)
    PROVE  [Book!Next]_Book!seatVars
<1> DEFINE r == target[c]
           u == userID[c]
<1>1. /\ r \in RoomId /\ r \in rooms /\ rooms' = rooms
      /\ members' = [members EXCEPT ![r][u] = c]
      /\ ~(Cardinality(Occupants(r)) >= MaxRoomSize)
      /\ c # NoConn
    BY PresenceAssumption
    DEF JoinInsert, ReadyToJoin, RoomFound, RoomFull, TypeInv, TypeOK
<1>2. members \in [RoomId -> [User -> Conn \cup {NoConn}]]
    BY DEF TypeInv, TypeOK
<1>3. CASE u \in User
  <2>1. \A s \in RoomId : Occupants(s)' = IF s = r THEN Occupants(s) \cup {u}
                                          ELSE Occupants(s)
      BY <1>1, <1>2, <1>3 DEF Occupants
  <2>2. Seating' = [Seating EXCEPT ![r] = Occupants(r) \cup {u}]
      BY <1>1, <2>1 DEF Seating
  <2>3. Cardinality(Occupants(r)) \in Nat
      BY <1>1, OccupantsFinite, FS_CardinalityType
  <2>4. Cardinality(Occupants(r)) < MaxRoomSize
      BY <1>1, <2>3, PresenceAssumption
  <2>5. Book!Sit(u, r)
      BY <1>1, <2>2, <2>4, SameCardinality DEF Book!Sit, Seating
  <2> QED
      BY <1>1, <1>3, <2>5 DEF Book!Next
<1>4. CASE u \notin User
  <2>1. members' = members
      BY <1>1, <1>2, <1>4
  <2> QED
      BY <1>1, <2>1 DEF Book!seatVars, Occupants
<1> QED
    BY <1>3, <1>4

\* Registry.Leave deletes the one seat it found.
LEMMA LeaveIsLeave ==
    ASSUME TypeInv, NEW c \in Conn, NEW t \in Thread, NEW r \in RoomId,
           LeaveMember(c, t, r)
    PROVE  [Book!Next]_Book!seatVars
<1> DEFINE u == userID[c]
<1>1. /\ rooms' = rooms
      /\ members' = [members EXCEPT ![r][u] = NoConn]
      /\ u \in Occupants(r)
    BY DEF LeaveMember, IsMember
<1>2. members \in [RoomId -> [User -> Conn \cup {NoConn}]]
    BY DEF TypeInv, TypeOK
<1>3. u \in User
    BY <1>1 DEF Occupants
<1>4. \A s \in RoomId : Occupants(s)' = IF s = r THEN Occupants(s) \ {u}
                                        ELSE Occupants(s)
    BY <1>1, <1>2, <1>3 DEF Occupants
<1>5. Seating' = [Seating EXCEPT ![r] = Occupants(r) \ {u}]
    BY <1>4 DEF Seating
<1>6. Book!Leave(u, r)
    BY <1>1, <1>5 DEF Book!Leave, Seating
<1> QED
    BY <1>3, <1>6 DEF Book!Next

LEMMA CreateIsCreate ==
    ASSUME NEW c \in Conn, NEW r \in RoomId, CreateRoom(c, r)
    PROVE  [Book!Next]_Book!seatVars
<1>1. Book!Create(r)
    BY SameCardinality DEF CreateRoom, NameTaken, Book!Create, Occupants
<1> QED
    BY <1>1 DEF Book!Next

LEMMA RoomsStep ==
    ASSUME [Next]_vars
    PROVE  \/ UNCHANGED <<rooms, members>>
           \/ \E c \in Conn, r \in RoomId : CreateRoom(c, r)
           \/ \E c \in Conn : JoinInsert(c)
           \/ \E c \in Conn, t \in Thread, r \in RoomId : LeaveMember(c, t, r)
BY DEF Next, vars, Terminated, ReaderStep, CloserStep, LeaveStep,
       Authenticate, AddClient, JoinFrame, LeaveFrame, JoinRefused,
       AddRoom, ReaderExit, LeaveNonMember, RemoveRoom, LeaveFrameDone, Close,
       DisconnectUnauthed, RemoveClient, LeaveAllRooms, StartScan, ScanRoom,
       EndScan, Disconnected

\* Whatever the locks, the joins, the kicks and the clean-ups interleave to, the
\* rooms and seats change as the book of module Seats allows (registry.go).
THEOREM RegistryImplementsBook == Spec => RegistryIsABook
<1>1. TypeInv /\ [Next]_vars => [Book!Next]_Book!seatVars
  <2> SUFFICES ASSUME TypeInv, [Next]_vars PROVE [Book!Next]_Book!seatVars
      OBVIOUS
  <2>1. CASE UNCHANGED <<rooms, members>>
      BY <2>1 DEF Book!seatVars, Occupants
  <2> QED
      BY <2>1, RoomsStep, CreateIsCreate, JoinIsSit, LeaveIsLeave
<1> QED
    BY <1>1, InitIsBook, TypeInvariance, PTL DEF Spec, RegistryIsABook, Book!Spec

=============================================================================
