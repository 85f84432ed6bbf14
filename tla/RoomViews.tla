----------------------------- MODULE RoomViews ------------------------------
(***************************************************************************)
(* What the browsers in a room believe about it.                           *)
(*                                                                         *)
(* The hub changes a room under r.mu but tells the members afterwards, one *)
(* by one, and it loads the history between a newcomer's insertion and its *)
(* room_joined.  A connection's send channel, its writePump and the socket *)
(* keep the order in which messages were put in; the goroutines of         *)
(* different connections put them in in any order.                         *)
(*                                                                         *)
(* A page is the state of static/js/app.js behind a connection.  Every     *)
(* user has one connection at a time here; its reader and its closer run   *)
(* at the same time and seats change as in module Presence, with two       *)
(* simplifications: Client.rooms changes together with the clients map,    *)
(* and a user comes back when its former connection has ended altogether   *)
(* and left no seat behind.                                                *)
(***************************************************************************)
EXTENDS FiniteSets, Integers, Sequences

CONSTANTS
    User,         \* signed-in users, one connection each
    Room,         \* the rooms, created beforehand
    NoRoom,       \* not in a room
    MaxRoomSize,  \* the seat cap
    MaxMoves      \* bound: join and leave frames, connections lost and made
                  \* again, of all users

ASSUME RoomViewsAssumption ==
    /\ IsFiniteSet(User)
    /\ NoRoom \notin Room
    /\ MaxRoomSize \in Nat /\ MaxMoves \in Nat

VARIABLES
    seat,       \* the room whose clients map holds the user
    handler,    \* where the user's reader is in its handler
    goal,       \* where the handler takes the user
    from,       \* the room the user_left messages speak of
    snapshot,   \* members found by the insertion: users of room_joined
    pending,    \* members the reader has still to send user_left or user_joined
    closer,     \* where Client.close is: "no" while the connection is up
    cleared,    \* the room whose seat the closer took
    parting,    \* members the closer has still to send user_left
    outbox,     \* messages on their way to the user's page, in order
    page,       \* state.currentRoom
    roomUsers,  \* state.roomUsers
    called,     \* users the page ran initiatePeer for and still lists
    disturbed,  \* history: since the user last took or left a seat, it was sent
                \* a message about another room, one that overtook room_joined,
                \* or one that came behind what it is about (TellJoined,
                \* TellGone), its connection was lost, or it left what its page
                \* showed while messages were on their way
    stranded,   \* history: the user's seat went without a word to the page: its
                \* last join was refused, or its connection was lost
    moves       \* join and leave frames, closes and reconnections so far

closerVars == <<closer, cleared, parting>>
serverVars == <<seat, handler, goal, from, snapshot, pending, closerVars>>
pageVars   == <<page, roomUsers, called>>
historyVars == <<disturbed, stranded>>
vars == <<serverVars, outbox, pageVars, historyVars, moves>>

Message ==
    [type : {"room_joined"}, room : Room, users : SUBSET User]
    \cup [type : {"room_left"}]
    \cup [type : {"user_joined", "user_left"}, user : User]

TypeOK ==
    /\ seat \in [User -> Room \cup {NoRoom}]
    /\ handler \in [User -> {"idle", "leaving", "joining", "entered",
                             "announcing", "off"}]
    /\ goal \in [User -> Room \cup {NoRoom}]
    /\ from \in [User -> Room \cup {NoRoom}]
    /\ snapshot \in [User -> SUBSET User]
    /\ pending \in [User -> SUBSET User]
    /\ closer \in [User -> {"no", "cleaning", "telling", "done"}]
    /\ cleared \in [User -> Room \cup {NoRoom}]
    /\ parting \in [User -> SUBSET User]
    /\ \A u \in User : \A i \in DOMAIN outbox[u] : outbox[u][i] \in Message
    /\ page \in [User -> Room \cup {NoRoom}]
    /\ roomUsers \in [User -> SUBSET User]
    /\ called \in [User -> SUBSET User]
    /\ disturbed \in [User -> BOOLEAN]
    /\ stranded \in [User -> BOOLEAN]
    /\ moves \in 0..MaxMoves
    \* A user is never listed among its own peers, and calls only listed ones.
    /\ \A u \in User : u \notin roomUsers[u] /\ called[u] \subseteq roomUsers[u]

Init ==
    /\ seat = [u \in User |-> NoRoom]
    /\ handler = [u \in User |-> "idle"]
    /\ goal = [u \in User |-> NoRoom]
    /\ from = [u \in User |-> NoRoom]
    /\ snapshot = [u \in User |-> {}]
    /\ pending = [u \in User |-> {}]
    /\ closer = [u \in User |-> "no"]
    /\ cleared = [u \in User |-> NoRoom]
    /\ parting = [u \in User |-> {}]
    /\ outbox = [u \in User |-> <<>>]
    /\ page = [u \in User |-> NoRoom]
    /\ roomUsers = [u \in User |-> {}]
    /\ called = [u \in User |-> {}]
    /\ disturbed = [u \in User |-> FALSE]
    /\ stranded = [u \in User |-> FALSE]
    /\ moves = 0

-----------------------------------------------------------------------------
(* Helpers *)

Members(r) == {u \in User : seat[u] = r}

Connected(u) == closer[u] = "no"

\* trySend to a connection that is lost has no effect anyone sees.
Enqueue(v, m) ==
    outbox' = IF Connected(v) THEN [outbox EXCEPT ![v] = Append(@, m)]
              ELSE outbox

\* A message about room r disturbs v's page when v is not in r any more, or
\* when it overtakes v's own room_joined.
Disturbs(v, r) == seat[v] # r \/ handler[v] = "entered"

\* u's reader is going to tell v of u's arrival.
Coming(u, v) == \/ handler[u] = "entered" /\ v \in snapshot[u]
                \/ handler[u] = "announcing" /\ v \in pending[u]

\* The members that Leave returns, and those that Join returns.
MutRemaining(u) == {}
Remaining(u) == Members(seat[u]) \ {u}

MutExisting(r) == {}
Existing(r) == Members(r)

\* What user_joined and user_left make of the page's lists.
WithPeer(list, v) == list \cup {v}

WithoutPeer(list, v) == list \ {v}

\* The room the page shows after _resetRoom.
MutAfterRoomLeft(u) == page[u]
AfterRoomLeft(u) == NoRoom

Vacate(u, dest) ==
    /\ seat' = [seat EXCEPT ![u] = NoRoom]
    /\ from' = [from EXCEPT ![u] = seat[u]]
    /\ pending' = [pending EXCEPT ![u] = Remaining(u)]
    /\ goal' = [goal EXCEPT ![u] = dest]
    /\ handler' = [handler EXCEPT ![u] = "leaving"]
    /\ UNCHANGED <<snapshot, closerVars, outbox, historyVars>>

\* _resetRoom and closeAll.
ResetRoom(u) ==
    /\ page' = [page EXCEPT ![u] = AfterRoomLeft(u)]
    /\ roomUsers' = [roomUsers EXCEPT ![u] = {}]
    /\ called' = [called EXCEPT ![u] = {}]

\* A frame is handled, from the socket or, when that is closed, from what the
\* reader had read ahead.
Frame(u) ==
    /\ handler[u] = "idle"
    /\ moves < MaxMoves
    /\ moves' = moves + 1

-----------------------------------------------------------------------------
(* The user's click, and the hub.  A click and the hub's handling of its frame *)
(* are one step: what the page takes in between it may as well take before    *)
(* the click or after the handling.                                           *)

\* join_room of a user that is seated: leaveAllRooms first.
JoinFromRoom(u, r) ==
    /\ Frame(u)
    /\ r # page[u]
    /\ seat[u] # NoRoom
    /\ Vacate(u, r)
    /\ UNCHANGED pageVars

JoinFromLobby(u, r) ==
    /\ Frame(u)
    /\ r # page[u]
    /\ seat[u] = NoRoom
    /\ goal' = [goal EXCEPT ![u] = r]
    /\ handler' = [handler EXCEPT ![u] = "joining"]
    /\ UNCHANGED <<seat, from, snapshot, pending, closerVars, outbox, pageVars,
                   historyVars>>

\* The leave button: the page resets itself at once and sends leave_room.
LeaveRoom(u) ==
    /\ Frame(u)
    /\ seat[u] # NoRoom /\ page[u] = seat[u]
    /\ Vacate(u, NoRoom)
    /\ ResetRoom(u)

\* The hub has the user elsewhere, or nowhere: doLeaveRoom does nothing.
LeaveOtherRoom(u) ==
    /\ Frame(u)
    /\ page[u] # NoRoom /\ page[u] # seat[u]
    /\ ResetRoom(u)
    /\ stranded' = [stranded EXCEPT ![u] = @ /\ outbox[u] # <<>>]
    /\ disturbed' = [disturbed EXCEPT
                        ![u] = @ \/ (seat[u] = NoRoom /\ outbox[u] # <<>>)]
    /\ UNCHANGED <<serverVars, outbox>>

\* doLeaveRoom: user_left, one remaining member after the other.
TellLeft(u, v) ==
    /\ handler[u] = "leaving"
    /\ v \in pending[u]
    /\ pending' = [pending EXCEPT ![u] = @ \ {v}]
    /\ Enqueue(v, [type |-> "user_left", user |-> u])
    /\ disturbed' = [disturbed EXCEPT ![v] = @ \/ Disturbs(v, from[u])]
    /\ UNCHANGED <<seat, handler, goal, from, snapshot, closerVars, pageVars,
                   stranded, moves>>

\* leaveAllRooms returns to handleJoinRoom; the mover itself is told nothing.
LeftForJoin(u) ==
    /\ handler[u] = "leaving" /\ pending[u] = {}
    /\ goal[u] \in Room
    /\ handler' = [handler EXCEPT ![u] = "joining"]
    /\ from' = [from EXCEPT ![u] = NoRoom]
    /\ UNCHANGED <<seat, goal, snapshot, pending, closerVars, outbox, pageVars,
                   historyVars, moves>>

\* handleLeaveRoom confirms.
LeftForLobby(u) ==
    /\ handler[u] = "leaving" /\ pending[u] = {}
    /\ goal[u] = NoRoom
    /\ handler' = [handler EXCEPT ![u] = "idle"]
    /\ from' = [from EXCEPT ![u] = NoRoom]
    /\ Enqueue(u, [type |-> "room_left"])
    /\ disturbed' = [disturbed EXCEPT ![u] = ~Connected(u)]
    /\ UNCHANGED <<seat, goal, snapshot, pending, closerVars, pageVars, stranded,
                   moves>>

\* Registry.Join refuses: an error is sent, which the page shows as a toast.
JoinRefused(u) ==
    /\ handler[u] = "joining"
    /\ Cardinality(Members(goal[u])) >= MaxRoomSize
    /\ handler' = [handler EXCEPT ![u] = "idle"]
    /\ goal' = [goal EXCEPT ![u] = NoRoom]
    /\ stranded' = [stranded EXCEPT ![u] = TRUE]
    /\ UNCHANGED <<seat, from, snapshot, pending, closerVars, outbox, pageVars,
                   disturbed, moves>>

\* Registry.Join's critical section.
Join(u) ==
    /\ handler[u] = "joining"
    /\ Cardinality(Members(goal[u])) < MaxRoomSize
    /\ seat' = [seat EXCEPT ![u] = goal[u]]
    /\ snapshot' = [snapshot EXCEPT ![u] = Existing(goal[u])]
    /\ handler' = [handler EXCEPT ![u] = "entered"]
    /\ disturbed' = [disturbed EXCEPT ![u] = ~Connected(u)]
    /\ stranded' = [stranded EXCEPT ![u] = @ /\ ~Connected(u)]
    /\ UNCHANGED <<goal, from, pending, closerVars, outbox, pageVars, moves>>

\* The history is loaded; room_joined goes out.
SendRoomJoined(u) ==
    /\ handler[u] = "entered"
    /\ Enqueue(u, [type |-> "room_joined", room |-> goal[u],
                   users |-> snapshot[u]])
    /\ pending' = [pending EXCEPT ![u] = snapshot[u]]
    /\ handler' = [handler EXCEPT ![u] = "announcing"]
    /\ UNCHANGED <<seat, goal, from, snapshot, closerVars, pageVars, historyVars,
                   moves>>

\* user_joined, one member of the snapshot after the other.  The closer may have
\* taken the seat by now, and have told v of that already.
TellJoined(u, v) ==
    /\ handler[u] = "announcing"
    /\ v \in pending[u]
    /\ pending' = [pending EXCEPT ![u] = @ \ {v}]
    /\ Enqueue(v, [type |-> "user_joined", user |-> u])
    /\ disturbed' = [disturbed EXCEPT
                        ![v] = \/ @ \/ Disturbs(v, goal[u])
                               \/ seat[u] # goal[u] /\ v \notin parting[u]]
    /\ UNCHANGED <<seat, handler, goal, from, snapshot, closerVars, pageVars,
                   stranded, moves>>

JoinDone(u) ==
    /\ handler[u] = "announcing" /\ pending[u] = {}
    /\ handler' = [handler EXCEPT ![u] = "idle"]
    /\ snapshot' = [snapshot EXCEPT ![u] = {}]
    /\ goal' = [goal EXCEPT ![u] = NoRoom]
    /\ UNCHANGED <<seat, from, pending, closerVars, outbox, pageVars, historyVars,
                   moves>>

-----------------------------------------------------------------------------
(* The end of a connection.  Client.close is run once, by any goroutine, while *)
(* the reader goes on with what it is at.                                     *)

\* From here on nothing that is sent to the page gets through, and none of its
\* clicks; what is on its way may still arrive.
Close(u) ==
    /\ Connected(u)
    /\ moves < MaxMoves
    /\ moves' = moves + 1
    /\ closer' = [closer EXCEPT ![u] = "cleaning"]
    /\ disturbed' = [disturbed EXCEPT ![u] = TRUE]
    /\ stranded' = [stranded EXCEPT ![u] = TRUE]
    /\ UNCHANGED <<seat, handler, goal, from, snapshot, pending, cleared, parting,
                   outbox, pageVars>>

\* Registry.Leave in handleDisconnect, for a room of c.rooms or a ghost.
Sweep(u) ==
    /\ closer[u] = "cleaning"
    /\ seat[u] # NoRoom
    /\ seat' = [seat EXCEPT ![u] = NoRoom]
    /\ cleared' = [cleared EXCEPT ![u] = seat[u]]
    /\ parting' = [parting EXCEPT ![u] = Remaining(u)]
    /\ closer' = [closer EXCEPT ![u] = "telling"]
    /\ UNCHANGED <<handler, goal, from, snapshot, pending, outbox, pageVars,
                   historyVars, moves>>

\* user_left from the closer.  The reader may have taken the seat again by now,
\* and have told v of that already.
TellGone(u, v) ==
    /\ closer[u] = "telling"
    /\ v \in parting[u]
    /\ parting' = [parting EXCEPT ![u] = @ \ {v}]
    /\ Enqueue(v, [type |-> "user_left", user |-> u])
    /\ disturbed' = [disturbed EXCEPT
                        ![v] = \/ @ \/ Disturbs(v, cleared[u])
                               \/ seat[u] = cleared[u] /\ ~Coming(u, v)]
    /\ UNCHANGED <<seat, handler, goal, from, snapshot, pending, closer, cleared,
                   pageVars, stranded, moves>>

Swept(u) ==
    /\ closer[u] = "telling" /\ parting[u] = {}
    /\ closer' = [closer EXCEPT ![u] = "cleaning"]
    /\ cleared' = [cleared EXCEPT ![u] = NoRoom]
    /\ UNCHANGED <<seat, handler, goal, from, snapshot, pending, parting, outbox,
                   pageVars, historyVars, moves>>

\* handleDisconnect looks for the seat twice, in c.rooms and room by room, and is
\* over after the last one it took, or when it finds none.  It finds none only if
\* there was none at some time meanwhile: a seat that stayed where it was throughout
\* GhostRooms is found, and one that is found and then missed has been left.
CleanedUp(u) ==
    /\ \/ closer[u] = "cleaning" /\ seat[u] = NoRoom
       \/ closer[u] = "telling" /\ parting[u] = {}
    /\ closer' = [closer EXCEPT ![u] = "done"]
    /\ cleared' = [cleared EXCEPT ![u] = NoRoom]
    /\ UNCHANGED <<seat, handler, goal, from, snapshot, pending, parting, outbox,
                   pageVars, historyVars, moves>>

\* ReadMessage fails.
ReaderExit(u) ==
    /\ ~Connected(u)
    /\ handler[u] = "idle"
    /\ handler' = [handler EXCEPT ![u] = "off"]
    /\ UNCHANGED <<seat, goal, from, snapshot, pending, closerVars, outbox,
                   pageVars, historyVars, moves>>

\* The page learns that the connection is lost, and keeps its room.
Lose(u) ==
    /\ ~Connected(u)
    /\ outbox[u] # <<>>
    /\ outbox' = [outbox EXCEPT ![u] = <<>>]
    /\ UNCHANGED <<serverVars, pageVars, historyVars, moves>>

\* The leave button without a connection: the frame reaches nobody.
LeaveUnheard(u) ==
    /\ ~Connected(u)
    /\ page[u] # NoRoom
    /\ ResetRoom(u)
    /\ stranded' = [stranded EXCEPT ![u] = @ /\ outbox[u] # <<>>]
    /\ UNCHANGED <<serverVars, outbox, disturbed, moves>>

\* A new connection resumes the session.  Nobody joins the room again: the page
\* shows it, and _joinRoom does nothing for the room that is shown.
Reconnect(u) ==
    /\ handler[u] = "off" /\ closer[u] = "done" /\ outbox[u] = <<>>
    /\ seat[u] = NoRoom
    /\ moves < MaxMoves
    /\ moves' = moves + 1
    /\ handler' = [handler EXCEPT ![u] = "idle"]
    /\ closer' = [closer EXCEPT ![u] = "no"]
    /\ UNCHANGED <<seat, goal, from, snapshot, pending, cleared, parting, outbox,
                   pageVars, historyVars>>

-----------------------------------------------------------------------------
(* The page *)

NextMessage(u, type) == outbox[u] # <<>> /\ Head(outbox[u]).type = type

Consume(u) == outbox' = [outbox EXCEPT ![u] = Tail(@)]

OnRoomJoined(u) ==
    /\ NextMessage(u, "room_joined")
    /\ Consume(u)
    /\ page' = [page EXCEPT ![u] = Head(outbox[u]).room]
    /\ roomUsers' = [roomUsers EXCEPT ![u] = Head(outbox[u]).users]
    /\ called' = [called EXCEPT ![u] = {}]
    /\ UNCHANGED <<serverVars, historyVars, moves>>

OnRoomLeft(u) ==
    /\ NextMessage(u, "room_left")
    /\ Consume(u)
    /\ ResetRoom(u)
    /\ UNCHANGED <<serverVars, historyVars, moves>>

\* Neither handler looks at the message's room_id.
OnUserJoined(u) ==
    LET v == Head(outbox[u]).user IN
    /\ NextMessage(u, "user_joined")
    /\ Consume(u)
    /\ roomUsers' = [roomUsers EXCEPT ![u] = WithPeer(@, v)]
    /\ called' = [called EXCEPT ![u] = WithPeer(@, v)]
    /\ UNCHANGED <<serverVars, page, historyVars, moves>>

OnUserLeft(u) ==
    LET v == Head(outbox[u]).user IN
    /\ NextMessage(u, "user_left")
    /\ Consume(u)
    /\ roomUsers' = [roomUsers EXCEPT ![u] = WithoutPeer(@, v)]
    /\ called' = [called EXCEPT ![u] = WithoutPeer(@, v)]
    /\ UNCHANGED <<serverVars, page, historyVars, moves>>

-----------------------------------------------------------------------------
Hub(u) ==
    \/ \E r \in Room : JoinFromRoom(u, r)
    \/ \E r \in Room : JoinFromLobby(u, r)
    \/ LeaveRoom(u)
    \/ LeaveOtherRoom(u)
    \/ \E v \in User : TellLeft(u, v)
    \/ LeftForJoin(u)
    \/ LeftForLobby(u)
    \/ JoinRefused(u)
    \/ Join(u)
    \/ SendRoomJoined(u)
    \/ \E v \in User : TellJoined(u, v)
    \/ JoinDone(u)

Closing(u) ==
    \/ Close(u)
    \/ Sweep(u)
    \/ \E v \in User : TellGone(u, v)
    \/ Swept(u)
    \/ CleanedUp(u)
    \/ ReaderExit(u)
    \/ Lose(u)
    \/ LeaveUnheard(u)
    \/ Reconnect(u)

Page(u) == OnRoomJoined(u) \/ OnRoomLeft(u) \/ OnUserJoined(u) \/ OnUserLeft(u)

Next == \E u \in User : Hub(u) \/ Closing(u) \/ Page(u)

Spec == Init /\ [][Next]_vars

-----------------------------------------------------------------------------
(* Properties *)

\* Nothing is in a handler or on the way: everybody has seen everything.
Quiet == \A u \in User : /\ handler[u] \in {"idle", "off"}
                         /\ closer[u] \in {"no", "done"}
                         /\ outbox[u] = <<>>

Others(u) == IF seat[u] = NoRoom THEN {} ELSE Members(seat[u]) \ {u}

\* The races that `disturbed' names are the only ones: once all messages have
\* arrived, a page that none of them touched lists exactly the other members of
\* its room, those included whose connection is gone.
UndisturbedSeesMembers ==
    Quiet => \A u \in User : ~disturbed[u] /\ page[u] = seat[u] =>
                 roomUsers[u] = Others(u)

\* Of two undisturbed members of a room at least one has called the other, so
\* an offer is made.  Both may have: a member that left and came back while the
\* other's user_joined was on its way sees it again, which the polite and the
\* impolite side of webrtc.js's handleOffer then settle.
UndisturbedAreCalled ==
    Quiet => \A u, v \in User :
        /\ u # v /\ seat[u] # NoRoom /\ seat[u] = seat[v]
        /\ ~disturbed[u] /\ ~disturbed[v]
        => v \in called[u] \/ u \in called[v]

\* Once the messages have arrived, a page shows the room the hub seats its user
\* in.  There are two ways out, in which the hub takes the seat and says nothing
\* that the page acts on: a last join that was refused by a full room, and a
\* connection that was lost.  The page goes on showing the old room until its user
\* leaves it or joins another one (app.js:174), or it takes up a room whose
\* room_joined was still on its way.  A third: the reader of a connection took a
\* seat behind its clean-up, which nobody takes back and the page never hears of.
PageInItsSeat ==
    Quiet => \A u \in User :
        \/ page[u] = seat[u]
        \/ stranded[u] /\ seat[u] = NoRoom
        \/ closer[u] = "done" /\ seat[u] # NoRoom

=============================================================================
