--------------------------- MODULE RoomListProofs ---------------------------
(***************************************************************************)
(* For any users, rooms and seats: a room list that no change has          *)
(* overtaken is right.  And for the channels that lists, like all other    *)
(* messages, are sent through: no message is dropped in silence.           *)
(***************************************************************************)
EXTENDS RoomList, Outbox, FiniteSetTheorems, TLAPS

(***************************************************************************)
(* Types, and which users a list is for.                                   *)
(***************************************************************************)
ListTypes ==
    /\ rooms \subseteq Room
    /\ seat \in [User -> Room \cup {NoRoom}]
    /\ handler \in [User -> {"idle", "joining", "created", "changed",
                             "listing", "sending", "off"}]
    /\ goal \in [User -> Room \cup {NoRoom}]
    /\ unscanned \in [User -> SUBSET Room]
    /\ infos \in [User -> SUBSET Entry]
    /\ unsent \in [User -> SUBSET User]
    /\ leaving \in [User -> BOOLEAN]
    /\ listed \in [User -> SUBSET Entry]
    /\ overtaken \in [User -> BOOLEAN]
    /\ behind \in [User -> BOOLEAN]
    /\ own \in [User -> BOOLEAN]
    /\ moves \in 0..MaxMoves

GoalOK ==
    \A u \in User : handler[u] \in {"joining", "created"} => goal[u] \in rooms

ScanOK ==
    \A u \in User :
        /\ \A e, f \in infos[u] :
               (e.room = f.room => e = f) /\ e.room \in rooms \ unscanned[u]
        /\ handler[u] = "listing" => unscanned[u] \subseteq rooms

AudienceOK ==
    \A u \in User : /\ handler[u] \notin {"listing", "sending"} => unsent[u] = {}
                    /\ handler[u] = "listing" => unsent[u] \in {{}, {u}}

ListInv == ListTypes /\ GoalOK /\ ScanOK /\ AudienceOK

LEMMA InfoIsEntry ==
    ASSUME NEW r \in Room
    PROVE  Info(r) \in Entry /\ Info(r).room = r
<1>1. Members(r) \subseteq User
    BY DEF Members
<1>2. Cardinality(Members(r)) \in Nat
    BY <1>1, RoomListAssumption, FS_Subset, FS_CardinalityType
<1> QED
    BY <1>2 DEF Info, Entry

LEMMA FrameTypes ==
    ASSUME ListTypes, NEW u \in User, Frame(u)
    PROVE  moves' \in 0..MaxMoves
BY RoomListAssumption DEF ListTypes, Frame

LEMMA HistoryTypes ==
    ASSUME ListTypes, NEW u \in User, Changes(u) \/ GivesUpSeat(u)
    PROVE  /\ overtaken' \in [User -> BOOLEAN]
           /\ behind' \in [User -> BOOLEAN]
           /\ own' \in [User -> BOOLEAN]
<1>1. overtaken' \in [User -> BOOLEAN]
    BY Zenon DEF Changes, GivesUpSeat
<1>2. behind' \in [User -> BOOLEAN]
  <2>1. CASE Changes(u)
      BY <2>1 DEF Changes, ListTypes
  <2>2. CASE GivesUpSeat(u)
      BY <2>2, Zenon DEF GivesUpSeat
  <2> QED
      BY <2>1, <2>2
<1>3. own' \in [User -> BOOLEAN]
    BY DEF Changes, GivesUpSeat, ListTypes
<1> QED
    BY <1>1, <1>2, <1>3

LEMMA ListTypesStep ==
    ASSUME ListInv, [Next]_vars
    PROVE  ListTypes'
<1> USE DEF ListInv
<1>1. ASSUME NEW u \in User, ListRoomsFrame(u)
      PROVE  ListTypes'
    BY <1>1, FrameTypes DEF ListRoomsFrame, Frame, Goto, RoomsToScan, ListTypes
<1>2. ASSUME NEW u \in User, StartList(u) \/ Listed(u)
      PROVE  ListTypes'
  <2>1. CASE StartList(u)
      BY <2>1 DEF StartList, Goto, RoomsToScan, ListTypes
  <2>2. CASE Listed(u)
      BY <2>2 DEF Listed, Goto, historyVars, Others, ListTypes
  <2> QED
      BY <1>2, <2>1, <2>2
<1>3. ASSUME NEW u \in User, Sent(u)
      PROVE  ListTypes'
    BY <1>3 DEF Sent, Goto, historyVars, ListTypes
<1>4. ASSUME NEW u \in User, NEW r \in Room, CreateRoom(u, r)
      PROVE  ListTypes'
    BY <1>4, FrameTypes, HistoryTypes DEF CreateRoom, Frame, Goto, ListTypes
<1>5. ASSUME NEW u \in User, NEW r \in Room, JoinRoom(u, r)
      PROVE  ListTypes'
  <2>1. /\ overtaken' \in [User -> BOOLEAN] /\ behind' \in [User -> BOOLEAN]
        /\ own' \in [User -> BOOLEAN]
      BY <1>5, HistoryTypes DEF JoinRoom, historyVars, ListTypes
  <2> QED
      BY <1>5, <2>1, FrameTypes DEF JoinRoom, Frame, Goto, ListTypes
<1>6. ASSUME NEW u \in User, SendRoomCreated(u)
      PROVE  ListTypes'
  <2>1. goal[u] \in Room
      BY <1>6 DEF SendRoomCreated, GoalOK, ListTypes
  <2>2. [room |-> goal[u], count |-> 0, pushed |-> TRUE] \in Entry
      BY <2>1 DEF Entry
  <2> QED
      BY <1>6, <2>2 DEF SendRoomCreated, Goto, ListTypes
<1>7. ASSUME NEW u \in User, TakeSeat(u)
      PROVE  ListTypes'
    BY <1>7, HistoryTypes DEF TakeSeat, Goto, ListTypes
<1>8. ASSUME NEW u \in User, LeaveRoom(u) \/ Disconnect(u)
      PROVE  ListTypes'
  <2>1. CASE LeaveRoom(u)
      BY <2>1, FrameTypes, HistoryTypes DEF LeaveRoom, Frame, Goto, ListTypes
  <2>2. CASE Disconnect(u)
      BY <2>2, FrameTypes, HistoryTypes DEF Disconnect, Frame, Goto, ListTypes
  <2> QED
      BY <1>8, <2>1, <2>2
<1>9. ASSUME NEW u \in User, JoinRefused(u)
      PROVE  ListTypes'
    BY <1>9 DEF JoinRefused, Goto, historyVars, ListTypes
<1>10. ASSUME NEW u \in User, NEW r \in Room, ScanRoom(u, r)
       PROVE  ListTypes'
    BY <1>10, InfoIsEntry DEF ScanRoom, historyVars, ListTypes
<1>11. ASSUME NEW u \in User, NEW v \in User, SendList(u, v)
       PROVE  ListTypes'
    BY <1>11 DEF SendList, ListTypes
<1>12. CASE UNCHANGED vars
    BY <1>12 DEF vars, serverVars, historyVars, ListTypes
<1> QED
    BY <1>1, <1>2, <1>3, <1>4, <1>5, <1>6, <1>7, <1>8, <1>9, <1>10, <1>11, <1>12
    DEF Next

LEMMA GoalStep ==
    ASSUME ListInv, [Next]_vars
    PROVE  GoalOK'
<1> USE DEF ListInv, ListTypes, GoalOK
<1>1. ASSUME NEW u \in User, NEW r \in Room, CreateRoom(u, r) \/ JoinRoom(u, r)
      PROVE  GoalOK'
    BY <1>1 DEF CreateRoom, JoinRoom, Frame, Goto
<1>2. ASSUME NEW u \in User,
             \/ ListRoomsFrame(u) \/ SendRoomCreated(u) \/ TakeSeat(u) \/ JoinRefused(u)
             \/ LeaveRoom(u) \/ Disconnect(u) \/ StartList(u) \/ Listed(u) \/ Sent(u)
      PROVE  GoalOK'
    BY <1>2 DEF ListRoomsFrame, SendRoomCreated, TakeSeat, JoinRefused, LeaveRoom,
                Disconnect, StartList, Listed, Sent, Frame, Goto
<1>3. ASSUME NEW u \in User,
             \/ \E r \in Room : ScanRoom(u, r)
             \/ \E v \in User : SendList(u, v)
      PROVE  GoalOK'
    BY <1>3 DEF ScanRoom, SendList
<1>4. CASE UNCHANGED vars
    BY <1>4 DEF vars, serverVars
<1> QED
    BY <1>1, <1>2, <1>3, <1>4 DEF Next

LEMMA AudienceStep ==
    ASSUME ListInv, [Next]_vars
    PROVE  AudienceOK'
<1> USE DEF ListInv, ListTypes, AudienceOK
<1>1. ASSUME NEW u \in User, NEW r \in Room, CreateRoom(u, r) \/ JoinRoom(u, r)
      PROVE  AudienceOK'
    BY <1>1 DEF CreateRoom, JoinRoom, Frame, Goto
<1>2. ASSUME NEW u \in User,
             \/ ListRoomsFrame(u) \/ SendRoomCreated(u) \/ TakeSeat(u) \/ JoinRefused(u)
             \/ LeaveRoom(u) \/ Disconnect(u) \/ StartList(u) \/ Listed(u) \/ Sent(u)
      PROVE  AudienceOK'
    BY <1>2 DEF ListRoomsFrame, SendRoomCreated, TakeSeat, JoinRefused, LeaveRoom,
                Disconnect, StartList, Listed, Sent, Frame, Goto
<1>3. ASSUME NEW u \in User,
             \/ \E r \in Room : ScanRoom(u, r)
             \/ \E v \in User : SendList(u, v)
      PROVE  AudienceOK'
    BY <1>3 DEF ScanRoom, SendList
<1>4. CASE UNCHANGED vars
    BY <1>4 DEF vars, serverVars
<1> QED
    BY <1>1, <1>2, <1>3, <1>4 DEF Next

LEMMA ScanStep ==
    ASSUME ListInv, [Next]_vars
    PROVE  ScanOK'
<1> USE DEF ListInv, ListTypes, ScanOK
<1>1. ASSUME NEW u \in User, NEW r \in Room, CreateRoom(u, r) \/ JoinRoom(u, r)
      PROVE  ScanOK'
    BY <1>1 DEF CreateRoom, JoinRoom, Frame, Goto
<1>2. ASSUME NEW u \in User,
             \/ ListRoomsFrame(u) \/ SendRoomCreated(u) \/ TakeSeat(u) \/ JoinRefused(u)
             \/ LeaveRoom(u) \/ Disconnect(u) \/ StartList(u) \/ Listed(u) \/ Sent(u)
      PROVE  ScanOK'
    BY <1>2 DEF ListRoomsFrame, SendRoomCreated, TakeSeat, JoinRefused, LeaveRoom,
                Disconnect, StartList, Listed, Sent, Frame, Goto, RoomsToScan
<1>3. ASSUME NEW u \in User, NEW r \in Room, ScanRoom(u, r)
      PROVE  ScanOK'
  <2>1. Info(r).room = r
      BY InfoIsEntry
  <2>2. /\ infos' = [infos EXCEPT ![u] = infos[u] \cup {Info(r)}]
        /\ unscanned' = [unscanned EXCEPT ![u] = unscanned[u] \ {r}]
        /\ rooms' = rooms /\ handler' = handler /\ r \in unscanned[u] /\ r \in rooms
      BY <1>3 DEF ScanRoom
  <2> QED
      BY <2>1, <2>2
<1>4. ASSUME NEW u \in User, NEW v \in User, SendList(u, v)
      PROVE  ScanOK'
    BY <1>4 DEF SendList
<1>5. CASE UNCHANGED vars
    BY <1>5 DEF vars, serverVars
<1> QED
    BY <1>1, <1>2, <1>3, <1>4, <1>5 DEF Next

LEMMA ListInit ==
    ASSUME Init
    PROVE  ListInv
<1>1. \A r \in Room : [room |-> r, count |-> 0, pushed |-> FALSE] \in Entry
    BY DEF Entry
<1>2. {[room |-> r, count |-> 0, pushed |-> FALSE] : r \in rooms} \in SUBSET Entry
    BY <1>1, RoomListAssumption DEF Init
<1>3. ListTypes
    BY <1>2, RoomListAssumption DEF Init, ListTypes
<1> QED
    BY <1>3 DEF Init, ListInv, GoalOK, ScanOK, AudienceOK

LEMMA ListStep == ListInv /\ [Next]_vars => ListInv'
BY ListTypesStep, GoalStep, ScanStep, AudienceStep DEF ListInv

\* The lists name every room at most once, and none that is not; what a handler is
\* about to do is done to a room that exists (handlers_room.go, registry.go).
THEOREM RoomListTypeCorrect == Spec => []TypeOK
<1>1. ListInv => TypeOK
    BY DEF ListInv, ListTypes, ScanOK, TypeOK
<1> QED
    BY <1>1, ListInit, ListStep, PTL DEF Spec

-----------------------------------------------------------------------------
(***************************************************************************)
(* Every page has the right list, or one is on its way to it.              *)
(***************************************************************************)

\* What a handler has counted so far is so, unless a change came since.
CountInv(u) ==
    handler[u] \in {"listing", "sending"} /\ ~overtaken[u] =>
        /\ infos[u] = {Info(r) : r \in rooms \ unscanned[u]}
        /\ handler[u] = "sending" => unscanned[u] = {}

\* A right list is still to be sent to the user.
Coming(v) == \E u \in User \ {v} :
    \/ handler[u] \in {"created", "changed"}
    \/ handler[u] = "listing" /\ ~overtaken[u] /\ unsent[u] # {u}
    \/ handler[u] = "sending" /\ ~overtaken[u] /\ v \in unsent[u]

PageInv(v) ==
    handler[v] # "off" /\ ~own[v] /\ ~behind[v] => listed[v] = Current \/ Coming(v)

ViewInv == \A u \in User : CountInv(u) /\ PageInv(u)

LEMMA SameCurrent ==
    ASSUME rooms' = rooms, seat' = seat
    PROVE  Current' = Current /\ \A r : Info(r)' = Info(r)
BY DEF Current, Info, Members

\* Whoever changes something falls behind or lists it afterwards.
LEMMA ChangesSeen ==
    ASSUME ListInv, NEW u \in User,
           \/ \E r \in Room : CreateRoom(u, r)
           \/ TakeSeat(u) \/ LeaveRoom(u) \/ Disconnect(u)
    PROVE  ViewInv'
<1> USE DEF ListInv, ListTypes
<1>1. Changes(u) /\ infos' = infos /\ unscanned' = unscanned
    BY DEF CreateRoom, TakeSeat, LeaveRoom, Disconnect
<1>2. /\ handler'[u] \in {"created", "changed"}
      /\ \A v \in User \ {u} : handler'[v] = handler[v]
    BY DEF CreateRoom, TakeSeat, LeaveRoom, Disconnect, Goto
<1>3. own'[u] /\ \A v \in User \ {u} : overtaken'[v]
    BY <1>1 DEF Changes
<1>4. ASSUME NEW v \in User
      PROVE  CountInv(v)'
    BY <1>2, <1>3 DEF CountInv
<1>5. ASSUME NEW v \in User
      PROVE  PageInv(v)'
  <2>1. CASE v = u
      BY <1>3, <2>1 DEF PageInv
  <2>2. CASE v # u
      BY <1>2, <2>2 DEF PageInv, Coming
  <2> QED
      BY <2>1, <2>2
<1> QED
    BY <1>4, <1>5 DEF ViewInv

LEMMA SeatGivenUp ==
    ASSUME ListInv, ViewInv, NEW u \in User, NEW r \in Room, JoinRoom(u, r)
    PROVE  ViewInv'
<1> USE DEF ListInv, ListTypes
<1>1. /\ handler[u] = "idle" /\ handler' = [handler EXCEPT ![u] = "joining"]
      /\ UNCHANGED <<rooms, unscanned, infos, unsent, listed>>
    BY DEF JoinRoom, Frame, Goto
<1>2. CASE seat[u] = NoRoom
  <2>1. seat' = seat /\ UNCHANGED historyVars
      BY <1>2 DEF JoinRoom
  <2>2. Current' = Current /\ \A s : Info(s)' = Info(s)
      BY <1>1, <2>1, SameCurrent
  <2>3. ASSUME NEW v \in User
        PROVE  CountInv(v)'
      BY <1>1, <2>1, <2>2 DEF CountInv, ViewInv, historyVars
  <2>4. ASSUME NEW v \in User
        PROVE  PageInv(v)'
    <3>1. PageInv(v) /\ (Coming(v) => Coming(v)')
        BY <1>1, <2>1 DEF ViewInv, Coming, historyVars
    <3> QED
        BY <1>1, <2>1, <2>2, <3>1 DEF PageInv, historyVars
  <2> QED
      BY <2>3, <2>4 DEF ViewInv
<1>3. CASE seat[u] # NoRoom
  <2>1. GivesUpSeat(u)
      BY <1>3 DEF JoinRoom
  <2>2. /\ own'[u] /\ \A v \in User \ {u} : overtaken'[v] /\ behind'[v]
      BY <2>1 DEF GivesUpSeat
  <2>3. ASSUME NEW v \in User
        PROVE  CountInv(v)' /\ PageInv(v)'
      BY <1>1, <2>2 DEF CountInv, PageInv
  <2> QED
      BY <2>3 DEF ViewInv
<1> QED
    BY <1>2, <1>3

LEMMA ViewStep ==
    ASSUME ListInv, ViewInv, [Next]_vars
    PROVE  ViewInv'
<1> USE DEF ListInv, ListTypes
\* Handlers that neither change nor send anything.
<1>1. ASSUME rooms' = rooms, seat' = seat, listed' = listed, NEW u \in User,
             \A v \in User \ {u} :
                 /\ handler'[v] = handler[v] /\ overtaken'[v] = overtaken[v]
                 /\ infos'[v] = infos[v] /\ unscanned'[v] = unscanned[v]
                 /\ unsent'[v] = unsent[v],
             behind' = behind,
             \A v \in User : own[v] => own'[v],
             handler[u] = "off" => handler'[u] = "off",
             CountInv(u)',
             \A v \in User : v # u /\ handler[v] # "off" /\ Coming(v) => Coming(v)'
      PROVE  ViewInv'
  <2>1. Current' = Current /\ \A r : Info(r)' = Info(r)
      BY <1>1, SameCurrent
  <2>2. ASSUME NEW v \in User, v # u
        PROVE  CountInv(v)'
      BY <1>1, <2>1, <2>2 DEF ViewInv, CountInv
  <2>3. ASSUME NEW v \in User
        PROVE  PageInv(v)'
    <3>1. PageInv(v)
        BY DEF ViewInv
    <3>2. handler[v] # "off" /\ Coming(v) => Coming(v)'
      <4>1. CASE v = u
          BY <1>1, <4>1 DEF Coming
      <4> QED
          BY <1>1, <4>1
    <3> QED
        BY <1>1, <2>1, <3>1, <3>2 DEF PageInv
  <2> QED
      BY <1>1, <2>2, <2>3 DEF ViewInv
<1>2. ASSUME NEW u \in User, ListRoomsFrame(u) \/ StartList(u)
      PROVE  ViewInv'
  <2>1. /\ unscanned'[u] = rooms /\ infos'[u] = {} /\ rooms' = rooms
        /\ handler'[u] = "listing" /\ handler[u] \in {"idle", "changed"}
      BY <1>2 DEF ListRoomsFrame, StartList, Frame, Goto, RoomsToScan
  <2>2. CountInv(u)'
      BY <2>1 DEF CountInv
  <2>3. ASSUME NEW v \in User \ {u}, Coming(v)
        PROVE  Coming(v)'
    <3>1. CASE ListRoomsFrame(u)
        BY <2>3, <3>1 DEF ListRoomsFrame, Frame, Goto, Coming
    <3>2. CASE StartList(u)
        BY <2>3, <3>2 DEF StartList, Goto, Coming, AudienceOK
    <3> QED
        BY <1>2, <3>1, <3>2
  <2> QED
      BY <1>1, <1>2, <2>2, <2>3 DEF ListRoomsFrame, StartList, Frame, Goto
<1>3. ASSUME NEW u \in User, SendRoomCreated(u)
      PROVE  ViewInv'
  <2>1. /\ handler' = [handler EXCEPT ![u] = "changed"]
        /\ UNCHANGED <<rooms, seat, unscanned, infos, unsent, overtaken, behind>>
        /\ own'[u] /\ \A v \in User \ {u} : own'[v] = own[v] /\ listed'[v] = listed[v]
      BY <1>3 DEF SendRoomCreated, Goto
  <2>2. Current' = Current /\ \A r : Info(r)' = Info(r)
      BY <2>1, SameCurrent
  <2>3. ASSUME NEW v \in User
        PROVE  CountInv(v)'
      BY <2>1, <2>2 DEF ViewInv, CountInv
  <2>4. ASSUME NEW v \in User
        PROVE  PageInv(v)'
    <3>1. CASE v = u
        BY <2>1, <3>1 DEF PageInv
    <3>2. CASE v # u
        BY <2>1, <3>2 DEF PageInv, Coming
    <3> QED
        BY <3>1, <3>2
  <2> QED
      BY <2>3, <2>4 DEF ViewInv
<1>4. ASSUME NEW u \in User, NEW r \in Room, JoinRoom(u, r)
      PROVE  ViewInv'
    BY <1>4, SeatGivenUp
<1>5. ASSUME NEW u \in User, JoinRefused(u)
      PROVE  ViewInv'
    BY <1>1, <1>5 DEF JoinRefused, Goto, Coming, CountInv, historyVars
<1>6. ASSUME NEW u \in User,
             \/ \E r \in Room : CreateRoom(u, r)
             \/ TakeSeat(u) \/ LeaveRoom(u) \/ Disconnect(u)
      PROVE  ViewInv'
    BY <1>6, ChangesSeen
<1>7. ASSUME NEW u \in User, NEW r \in Room, ScanRoom(u, r)
      PROVE  ViewInv'
  <2>1. /\ UNCHANGED <<rooms, seat, handler, unsent, listed, historyVars>>
        /\ handler[u] = "listing" /\ r \in unscanned[u] /\ r \in rooms
        /\ infos'[u] = infos[u] \cup {Info(r)} /\ unscanned'[u] = unscanned[u] \ {r}
      BY <1>7 DEF ScanRoom, ScanOK
  <2>2. \A s : Info(s)' = Info(s)
      BY <2>1, SameCurrent
  <2>3. CountInv(u)'
    <3>1. ASSUME ~overtaken[u]
          PROVE  infos'[u] = {Info(s) : s \in rooms \ unscanned'[u]}
      <4>1. infos[u] = {Info(s) : s \in rooms \ unscanned[u]}
          BY <2>1, <3>1 DEF ViewInv, CountInv
      <4> QED
          BY <2>1, <4>1
    <3> QED
        BY <2>1, <2>2, <3>1 DEF CountInv, historyVars
  <2> QED
      BY <1>1, <1>7, <2>1, <2>3 DEF ScanRoom, Coming, historyVars
<1>8. ASSUME NEW u \in User, Listed(u)
      PROVE  ViewInv'
  <2>1. /\ UNCHANGED <<rooms, seat, infos, unscanned, listed, historyVars>>
        /\ handler[u] = "listing" /\ unscanned[u] = {}
        /\ handler' = [handler EXCEPT ![u] = "sending"]
        /\ unsent' = [unsent EXCEPT ![u] = IF unsent[u] = {u} THEN unsent[u]
                                                             ELSE Others(u)]
      BY <1>8 DEF Listed, Goto
  <2>2. \A s : Info(s)' = Info(s)
      BY <2>1, SameCurrent
  <2>3. CountInv(u)'
      BY <2>1, <2>2 DEF ViewInv, CountInv, historyVars
  <2>4. ASSUME NEW v \in User \ {u}, handler[v] # "off", Coming(v)
        PROVE  Coming(v)'
      BY <2>1, <2>4 DEF Coming, Others, historyVars
  <2> QED
      BY <1>1, <2>1, <2>3, <2>4 DEF historyVars
<1>9. ASSUME NEW u \in User, NEW v \in User, SendList(u, v)
      PROVE  ViewInv'
  <2>1. /\ UNCHANGED <<rooms, seat, handler, infos, unscanned, overtaken>>
        /\ handler[u] = "sending" /\ unsent' = [unsent EXCEPT ![u] = @ \ {v}]
        /\ listed' = [listed EXCEPT ![v] = infos[u]]
        /\ behind' = [behind EXCEPT ![v] = overtaken[u]]
        /\ own' = [own EXCEPT ![v] = FALSE]
      BY <1>9 DEF SendList
  <2>2. Current' = Current /\ \A r : Info(r)' = Info(r)
      BY <2>1, SameCurrent
  <2>3. ASSUME NEW w \in User
        PROVE  CountInv(w)'
      BY <2>1, <2>2 DEF ViewInv, CountInv
  <2>4. PageInv(v)'
    <3>1. CASE overtaken[u]
      <4>1. behind'[v]
          BY <2>1, <3>1
      <4> QED
          BY <4>1 DEF PageInv
    <3>2. CASE ~overtaken[u]
      <4>1. infos[u] = Current
          BY <2>1, <3>2 DEF ViewInv, CountInv, Current
      <4>2. listed'[v] = Current'
          BY <2>1, <2>2, <4>1
      <4> QED
          BY <4>2 DEF PageInv
    <3> QED
        BY <3>1, <3>2
  <2>5. ASSUME NEW w \in User, w # v
        PROVE  PageInv(w)'
    <3>1. Coming(w) => Coming(w)'
        BY <2>1, <2>5 DEF Coming
    <3>2. /\ listed'[w] = listed[w] /\ (behind'[w] <=> behind[w])
          /\ (own'[w] <=> own[w])
        BY <2>1, <2>5
    <3> QED
        BY <2>1, <2>2, <3>1, <3>2 DEF ViewInv, PageInv
  <2> QED
      BY <2>3, <2>4, <2>5 DEF ViewInv
<1>10. ASSUME NEW u \in User, Sent(u)
       PROVE  ViewInv'
  <2>1. /\ UNCHANGED <<rooms, seat, unscanned, unsent, listed, historyVars>>
        /\ handler[u] = "sending" /\ unsent[u] = {}
        /\ handler'[u] \in {"off", "idle"}
        /\ \A v \in User \ {u} : handler'[v] = handler[v] /\ infos'[v] = infos[v]
      BY <1>10 DEF Sent, Goto
  <2>2. CountInv(u)'
      BY <2>1 DEF CountInv
  <2>3. ASSUME NEW v \in User \ {u}, Coming(v)
        PROVE  Coming(v)'
      BY <2>1, <2>3 DEF Coming, historyVars
  <2> QED
      BY <1>1, <2>1, <2>2, <2>3 DEF historyVars
<1>11. CASE UNCHANGED vars
  <2>1. Current' = Current /\ \A r : Info(r)' = Info(r)
      BY <1>11, SameCurrent DEF vars, serverVars
  <2> QED
      BY <1>11, <2>1
      DEF vars, serverVars, historyVars, ViewInv, CountInv, PageInv, Coming
<1> QED
    BY <1>2, <1>3, <1>4, <1>5, <1>6, <1>7, <1>8, <1>9, <1>10, <1>11 DEF Next

\* Once all lists are sent, a page whose list no change has overtaken, and whose
\* user has changed nothing since, lists all rooms with their members counted right
\* (handlers_room.go's broadcastRoomList, registry.go's ListRooms).
THEOREM ListsAreCurrent == Spec => []ListsNotOvertakenAreCurrent
<1>1. ASSUME Init
      PROVE  ListInv /\ ViewInv
  <2>1. ASSUME NEW r \in Room
        PROVE  Info(r) = [room |-> r, count |-> 0, pushed |-> FALSE]
    <3>1. Members(r) = {}
        BY <1>1, RoomListAssumption DEF Init, Members
    <3> QED
        BY <3>1, FS_EmptySet DEF Info
  <2>2. Current = {[room |-> r, count |-> 0, pushed |-> FALSE] : r \in rooms}
      BY <1>1, <2>1, RoomListAssumption DEF Current, Init
  <2>3. ViewInv
      BY <1>1, <2>2 DEF Init, ViewInv, CountInv, PageInv
  <2> QED
      BY <1>1, <2>3, ListInit
<1>2. ListInv /\ ViewInv /\ [Next]_vars => (ListInv /\ ViewInv)'
    BY ListStep, ViewStep
<1>3. ListInv /\ ViewInv => ListsNotOvertakenAreCurrent
    BY DEF ViewInv, PageInv, Coming, ListsNotOvertakenAreCurrent, Quiet, Watching
<1> QED
    BY <1>1, <1>2, <1>3, PTL DEF Spec

(***************************************************************************)
(* The send channels a list goes out through (Outbox): for every number of *)
(* connections and every buffer size, a connection that lost a message is  *)
(* on its way out.                                                         *)
(***************************************************************************)

\* What trySend does to a send channel: one message more, never one too many.
LEMMA TrySendTypes ==
    ASSUME OutboxTypeOK, NEW d \in Conn, TrySend(d)
    PROVE  /\ send' \in [Conn -> 0..SendBufSize]
           /\ dropped' \in [Conn -> BOOLEAN]
           /\ kicks' \in [Conn -> BOOLEAN]
<1>1. send' \in [Conn -> 0..SendBufSize]
  <2>1. CASE Full(d)
      BY <2>1 DEF TrySend, OutboxTypeOK
  <2>2. CASE ~Full(d)
    <3>1. send[d] + 1 \in 0..SendBufSize
        BY <2>2, OutboxAssumption DEF Full, OutboxTypeOK
    <3>2. send' = [send EXCEPT ![d] = send[d] + 1]
        BY <2>2 DEF TrySend
    <3> QED
        BY <3>1, <3>2 DEF OutboxTypeOK
  <2> QED
      BY <2>1, <2>2
<1>2. Full(d) \in BOOLEAN /\ StartsClose(d) \in BOOLEAN
    BY DEF Full, StartsClose
<1>3. dropped' \in [Conn -> BOOLEAN] /\ kicks' \in [Conn -> BOOLEAN]
    BY <1>2 DEF TrySend, OutboxTypeOK
<1> QED
    BY <1>1, <1>3

LEMMA ChannelInit == OutboxInit => OutboxTypeOK
BY OutboxAssumption DEF OutboxInit, OutboxTypeOK

LEMMA ChannelStep ==
    OutboxTypeOK /\ [OutboxNext]_outboxVars => OutboxTypeOK'
<1> SUFFICES ASSUME OutboxTypeOK, [OutboxNext]_outboxVars
             PROVE  OutboxTypeOK'
    OBVIOUS
<1>1. ASSUME NEW c \in Conn, HandlerSends(c) PROVE OutboxTypeOK'
  <2>1. sends' \in 0..MaxSends
      BY <1>1, OutboxAssumption DEF HandlerSends, OutboxTypeOK
  <2> QED
      BY <1>1, <2>1, TrySendTypes DEF HandlerSends, OutboxTypeOK
<1>2. ASSUME NEW c \in Conn, TakeMessage(c) PROVE OutboxTypeOK'
  <2>1. send[c] - 1 \in 0..SendBufSize
      BY <1>2, OutboxAssumption DEF TakeMessage, OutboxTypeOK
  <2> QED
      BY <1>2, <2>1 DEF TakeMessage, OutboxTypeOK
<1>3. ASSUME NEW c \in Conn,
             \/ TakeTick(c) \/ Written(c)
             \/ WriteFails(c) \/ WriterEnds(c)
      PROVE  OutboxTypeOK'
    BY <1>3 DEF TakeTick, Written, WriteFails, WriterEnds,
                OutboxTypeOK
<1>4. ASSUME NEW c \in Conn, ReaderStep(c) PROVE OutboxTypeOK'
    BY <1>4 DEF ReaderStep, ReadFails, ReaderEnds, OutboxTypeOK
<1>5. ASSUME NEW c \in Conn, Evict(c) PROVE OutboxTypeOK'
    BY <1>5 DEF Evict, OutboxTypeOK
<1>6. ASSUME NEW c \in Conn, Close(c) PROVE OutboxTypeOK'
    BY <1>6 DEF Close, EnterClose, OutboxTypeOK
<1>7. ASSUME NEW c \in Conn, CloserDone(c) PROVE OutboxTypeOK'
    BY <1>7 DEF CloserDone, OutboxTypeOK
<1>8. ASSUME NEW c \in Conn, NEW d \in Conn, CloserSends(c, d) PROVE OutboxTypeOK'
    BY <1>8, TrySendTypes DEF CloserSends, OutboxTypeOK
<1>9. CASE UNCHANGED outboxVars
    BY <1>9 DEF outboxVars, OutboxTypeOK
<1> QED
    BY <1>1, <1>2, <1>3, <1>4, <1>5, <1>6, <1>7, <1>8, <1>9
    DEF OutboxNext, WriterStep, CloserStep

\* Type correctness: no send channel ever holds more than sendBufSize messages,
\* and a connection's clean-up never sends to the connection itself.
THEOREM ChannelTypeCorrect == OutboxSpec => []OutboxTypeOK
<1>1. OutboxInit => OutboxTypeOK
    BY ChannelInit
<1>2. OutboxTypeOK /\ [OutboxNext]_outboxVars => OutboxTypeOK'
    BY ChannelStep
<1> QED
    BY <1>1, <1>2, PTL DEF OutboxSpec

(***************************************************************************)
(* No silent loss.                                                         *)
(***************************************************************************)

\* trySend drops only when the channel is full, and then starts a close, unless
\* one has begun.
LEMMA TrySendKeepsLoud ==
    ASSUME OutboxTypeOK, NeverSilentlyDropped,
           NEW d \in Conn, TrySend(d), closer' = closer
    PROVE  NeverSilentlyDropped'
<1>1. /\ dropped' = [dropped EXCEPT ![d] = dropped[d] \/ Full(d)]
      /\ kicks' = [kicks EXCEPT ![d] =
                      kicks[d] \/ (Full(d) /\ closer[d] = "no")]
    BY DEF TrySend, StartsClose
<1>2. ASSUME NEW c \in Conn, dropped'[c] PROVE kicks'[c] \/ closer[c] # "no"
  <2>1. CASE c # d
      BY <1>1, <1>2, <2>1 DEF OutboxTypeOK, NeverSilentlyDropped
  <2>2. CASE c = d
    <3>1. dropped[d] \/ Full(d)
        BY <1>1, <1>2, <2>2 DEF OutboxTypeOK
    <3>2. kicks'[d] = (kicks[d] \/ (Full(d) /\ closer[d] = "no"))
        BY <1>1 DEF OutboxTypeOK
    <3> QED
        BY <2>2, <3>1, <3>2 DEF NeverSilentlyDropped
  <2> QED
      BY <2>1, <2>2
<1> QED
    BY <1>2 DEF NeverSilentlyDropped

LEMMA StepLoud ==
    OutboxTypeOK /\ NeverSilentlyDropped
        /\ [OutboxNext]_outboxVars => NeverSilentlyDropped'
<1> SUFFICES ASSUME OutboxTypeOK, NeverSilentlyDropped,
                    [OutboxNext]_outboxVars
             PROVE  NeverSilentlyDropped'
    OBVIOUS
<1>1. ASSUME NEW c \in Conn, HandlerSends(c) PROVE NeverSilentlyDropped'
    BY <1>1, TrySendKeepsLoud DEF HandlerSends
<1>2. ASSUME NEW c \in Conn, WriterStep(c) PROVE NeverSilentlyDropped'
    BY <1>2 DEF WriterStep, TakeMessage, TakeTick, Written,
                WriteFails, WriterEnds, NeverSilentlyDropped
<1>3. ASSUME NEW c \in Conn, ReaderStep(c) PROVE NeverSilentlyDropped'
    BY <1>3 DEF ReaderStep, ReadFails, ReaderEnds, NeverSilentlyDropped
<1>4. ASSUME NEW c \in Conn, Evict(c) PROVE NeverSilentlyDropped'
    BY <1>4 DEF Evict, NeverSilentlyDropped, OutboxTypeOK
<1>5. ASSUME NEW c \in Conn, Close(c) PROVE NeverSilentlyDropped'
    BY <1>5 DEF Close, EnterClose, NeverSilentlyDropped, OutboxTypeOK
<1>6. ASSUME NEW c \in Conn, CloserDone(c) PROVE NeverSilentlyDropped'
    BY <1>6 DEF CloserDone, NeverSilentlyDropped, OutboxTypeOK
<1>7. ASSUME NEW c \in Conn, NEW d \in Conn, CloserSends(c, d)
      PROVE  NeverSilentlyDropped'
    BY <1>7, TrySendKeepsLoud DEF CloserSends
<1>8. CASE UNCHANGED outboxVars
    BY <1>8 DEF outboxVars, NeverSilentlyDropped
<1> QED
    BY <1>1, <1>2, <1>3, <1>4, <1>5, <1>6, <1>7, <1>8 DEF OutboxNext, CloserStep

\* A connection whose send channel overflowed is closed or about to be, in every
\* interleaving of the senders, the pumps, the evictions and the clean-ups.
THEOREM NoSilentLoss == OutboxSpec => []NeverSilentlyDropped
<1>1. OutboxInit => NeverSilentlyDropped
    BY DEF OutboxInit, NeverSilentlyDropped
<1>2. OutboxTypeOK /\ NeverSilentlyDropped /\ [OutboxNext]_outboxVars
          => NeverSilentlyDropped'
    BY StepLoud
<1> QED
    BY <1>1, <1>2, ChannelTypeCorrect, PTL DEF OutboxSpec

=============================================================================
