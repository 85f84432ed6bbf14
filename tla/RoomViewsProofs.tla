-------------------------- MODULE RoomViewsProofs ---------------------------
(***************************************************************************)
(* For any users, rooms and seat caps: what the pages show and list, and   *)
(* whom they call, once the messages have arrived.                         *)
(*                                                                         *)
(* What a page will make of the messages on their way to it is decided by  *)
(* the last one that concerns the room or the user in question.            *)
(***************************************************************************)
EXTENDS RoomViews, TLAPS

(***************************************************************************)
(* The last message of a sequence that is about a user: of those that name *)
(* it, and of those that replace the whole list.                           *)
(***************************************************************************)
About(m, w) ==
    \/ m.type \in {"room_joined", "room_left"}
    \/ m.type \in {"user_joined", "user_left"} /\ m.user = w

NoneAbout(s, w) == \A i \in 1..Len(s) : ~About(s[i], w)

LastAbout(s, w, m) ==
    /\ About(m, w)
    /\ \E i \in 1..Len(s) :
           s[i] = m /\ \A j \in 1..Len(s) : j > i => ~About(s[j], w)

LEMMA NothingAbout ==
    ASSUME NEW w
    PROVE  NoneAbout(<<>>, w) /\ \A m : ~LastAbout(<<>>, w, m)
BY DEF NoneAbout, LastAbout

LEMMA LastIsUnique ==
    ASSUME NEW s \in Seq(Message), NEW w, NEW m, LastAbout(s, w, m)
    PROVE  ~NoneAbout(s, w) /\ \A n : LastAbout(s, w, n) => n = m
<1>1. PICK i \in 1..Len(s) :
          s[i] = m /\ \A j \in 1..Len(s) : j > i => ~About(s[j], w)
    BY DEF LastAbout
<1>2. About(s[i], w)
    BY <1>1 DEF LastAbout
<1>3. ASSUME NEW n, LastAbout(s, w, n)
      PROVE  n = m
  <2>1. PICK k \in 1..Len(s) :
            s[k] = n /\ \A j \in 1..Len(s) : j > k => ~About(s[j], w)
      BY <1>3 DEF LastAbout
  <2>2. About(s[k], w)
      BY <1>3, <2>1 DEF LastAbout
  <2>3. ~(i < k) /\ ~(k < i)
      BY <1>1, <1>2, <2>1, <2>2
  <2>4. i = k
      BY <2>3
  <2> QED
      BY <1>1, <2>1, <2>4
<1> QED
    BY <1>2, <1>3 DEF NoneAbout

\* A message that is sent is the last one, about whom it is about.
LEMMA LastAfterAppend ==
    ASSUME NEW s \in Seq(Message), NEW m \in Message, NEW w
    PROVE  /\ About(m, w) => /\ ~NoneAbout(Append(s, m), w)
                             /\ \A n : LastAbout(Append(s, m), w, n) <=> n = m
           /\ ~About(m, w) =>
                  /\ NoneAbout(Append(s, m), w) <=> NoneAbout(s, w)
                  /\ \A n : LastAbout(Append(s, m), w, n) <=> LastAbout(s, w, n)
<1> DEFINE t == Append(s, m)
<1>1. /\ Len(s) \in Nat /\ Len(t) = Len(s) + 1 /\ t[Len(s) + 1] = m
      /\ \A i \in 1..Len(s) : t[i] = s[i]
    OBVIOUS
<1> HIDE DEF t
<1>2. ASSUME About(m, w)
      PROVE  ~NoneAbout(t, w) /\ \A n : LastAbout(t, w, n) <=> n = m
  <2>1. Len(t) \in 1..Len(t) /\ t[Len(t)] = m /\ About(t[Len(t)], w)
      BY <1>1, <1>2
  <2>2. \A j \in 1..Len(t) : ~(j > Len(t))
      BY <1>1
  <2>3. LastAbout(t, w, m)
      BY <1>2, <2>1, <2>2 DEF LastAbout
  <2>4. ASSUME NEW n, LastAbout(t, w, n)
        PROVE  n = m
    <3>1. PICK i \in 1..Len(t) :
              t[i] = n /\ \A j \in 1..Len(t) : j > i => ~About(t[j], w)
        BY <2>4 DEF LastAbout
    <3>2. ~(Len(t) > i)
        BY <2>1, <3>1
    <3>3. i = Len(t)
        BY <1>1, <3>2
    <3> QED
        BY <2>1, <3>1, <3>3
  <2> QED
      BY <2>1, <2>3, <2>4 DEF NoneAbout
<1>3. ASSUME ~About(m, w)
      PROVE  /\ NoneAbout(t, w) <=> NoneAbout(s, w)
             /\ \A n : LastAbout(t, w, n) <=> LastAbout(s, w, n)
  <2>1. \A i \in 1..Len(t) : i \in 1..Len(s) \/ (i = Len(s) + 1 /\ ~About(t[i], w))
      BY <1>1, <1>3
  <2>2. \A i \in 1..Len(s) : i \in 1..Len(t) /\ t[i] = s[i]
      BY <1>1
  <2>3. ASSUME NEW n, LastAbout(t, w, n)
        PROVE  LastAbout(s, w, n)
    <3>1. PICK i \in 1..Len(t) :
              t[i] = n /\ \A j \in 1..Len(t) : j > i => ~About(t[j], w)
        BY <2>3 DEF LastAbout
    <3>2. i \in 1..Len(s) /\ s[i] = n
        BY <2>1, <2>2, <2>3, <3>1 DEF LastAbout
    <3>3. \A j \in 1..Len(s) : j > i => ~About(s[j], w)
        BY <2>2, <3>1
    <3> QED
        BY <2>3, <3>2, <3>3 DEF LastAbout
  <2>4. ASSUME NEW n, LastAbout(s, w, n)
        PROVE  LastAbout(t, w, n)
    <3>1. PICK i \in 1..Len(s) :
              s[i] = n /\ \A j \in 1..Len(s) : j > i => ~About(s[j], w)
        BY <2>4 DEF LastAbout
    <3>2. i \in 1..Len(t) /\ t[i] = n
        BY <2>2, <3>1
    <3>3. \A j \in 1..Len(t) : j > i => ~About(t[j], w)
        BY <2>1, <2>2, <3>1
    <3> QED
        BY <2>4, <3>2, <3>3 DEF LastAbout
  <2>5. NoneAbout(t, w) <=> NoneAbout(s, w)
      BY <2>1, <2>2 DEF NoneAbout
  <2> QED
      BY <2>3, <2>4, <2>5
<1> QED
    BY <1>2, <1>3 DEF t

\* A message that is taken matters only if no later one is about the same.
LEMMA LastAfterTail ==
    ASSUME NEW s \in Seq(Message), s # <<>>, NEW w
    PROVE  /\ Tail(s) \in Seq(Message) /\ Head(s) \in Message
           /\ ~About(Head(s), w) =>
                  /\ NoneAbout(Tail(s), w) <=> NoneAbout(s, w)
                  /\ \A n : LastAbout(Tail(s), w, n) <=> LastAbout(s, w, n)
           /\ About(Head(s), w) =>
                  /\ ~NoneAbout(s, w)
                  /\ NoneAbout(Tail(s), w) =>
                         /\ \A n : LastAbout(s, w, n) <=> n = Head(s)
                         /\ \A n : ~LastAbout(Tail(s), w, n)
                  /\ ~NoneAbout(Tail(s), w) =>
                         \A n : LastAbout(Tail(s), w, n) <=> LastAbout(s, w, n)
<1> DEFINE t == Tail(s)
<1>1. /\ t \in Seq(Message) /\ Head(s) \in Message
      /\ Len(s) \in Nat \ {0} /\ Len(t) = Len(s) - 1 /\ Head(s) = s[1]
      /\ \A i \in 1..Len(t) : t[i] = s[i + 1]
    OBVIOUS
<1> HIDE DEF t
<1>2. \A i \in 1..Len(t) : i + 1 \in 1..Len(s) /\ t[i] = s[i + 1]
    BY <1>1
<1>3. \A i \in 1..Len(s) : i = 1 \/ (i - 1 \in 1..Len(t) /\ s[i] = t[i - 1])
    BY <1>1
<1>4. ASSUME NEW n, LastAbout(t, w, n)
      PROVE  LastAbout(s, w, n)
  <2>1. PICK i \in 1..Len(t) :
            t[i] = n /\ \A j \in 1..Len(t) : j > i => ~About(t[j], w)
      BY <1>4 DEF LastAbout
  <2>2. i + 1 \in 1..Len(s) /\ s[i + 1] = n
      BY <1>2, <2>1
  <2>3. ASSUME NEW j \in 1..Len(s), j > i + 1
        PROVE  ~About(s[j], w)
    <3>1. j # 1 /\ j - 1 > i
        BY <2>1, <2>3
    <3> QED
        BY <1>3, <2>1, <3>1
  <2> QED
      BY <1>4, <2>2, <2>3 DEF LastAbout
<1>5. ASSUME NEW n, LastAbout(s, w, n)
      PROVE  \/ LastAbout(t, w, n)
             \/ n = Head(s) /\ NoneAbout(t, w) /\ About(Head(s), w)
  <2>1. PICK i \in 1..Len(s) :
            s[i] = n /\ \A j \in 1..Len(s) : j > i => ~About(s[j], w)
      BY <1>5 DEF LastAbout
  <2>2. CASE i = 1
    <3>1. \A j \in 1..Len(t) : j + 1 > 1 /\ j + 1 \in 1..Len(s) /\ t[j] = s[j + 1]
        BY <1>2
    <3>2. NoneAbout(t, w)
        BY <2>1, <2>2, <3>1 DEF NoneAbout
    <3> QED
        BY <1>1, <1>5, <2>1, <2>2, <3>2 DEF LastAbout
  <2>3. CASE i # 1
    <3>1. i - 1 \in 1..Len(t) /\ t[i - 1] = n
        BY <1>3, <2>1, <2>3
    <3>2. ASSUME NEW j \in 1..Len(t), j > i - 1
          PROVE  ~About(t[j], w)
      <4>1. j + 1 \in 1..Len(s) /\ j + 1 > i /\ t[j] = s[j + 1]
          BY <1>2, <3>2
      <4> QED
          BY <2>1, <4>1
    <3> QED
        BY <1>5, <3>1, <3>2 DEF LastAbout
  <2> QED
      BY <2>2, <2>3
<1>6. NoneAbout(s, w) <=> NoneAbout(t, w) /\ ~About(Head(s), w)
  <2>1. 1 \in 1..Len(s) /\ s[1] = Head(s)
      BY <1>1
  <2> QED
      BY <1>2, <1>3, <2>1 DEF NoneAbout
<1>7. ASSUME NEW n, LastAbout(t, w, n)
      PROVE  ~NoneAbout(t, w)
    BY <1>1, <1>7, LastIsUnique
<1>8. ASSUME About(Head(s), w), NoneAbout(t, w)
      PROVE  LastAbout(s, w, Head(s))
  <2>1. 1 \in 1..Len(s) /\ s[1] = Head(s)
      BY <1>1
  <2>2. \A j \in 1..Len(s) : j > 1 => ~About(s[j], w)
      BY <1>3, <1>8 DEF NoneAbout
  <2> QED
      BY <1>8, <2>1, <2>2 DEF LastAbout
<1>9. \A n : LastAbout(t, w, n) => LastAbout(s, w, n) /\ ~NoneAbout(t, w)
    BY <1>4, <1>7
<1>10. \A n : LastAbout(s, w, n) =>
           \/ LastAbout(t, w, n)
           \/ n = Head(s) /\ NoneAbout(t, w) /\ About(Head(s), w)
    BY <1>5
<1> QED
    BY <1>1, <1>6, <1>8, <1>9, <1>10 DEF t

-----------------------------------------------------------------------------
(***************************************************************************)
(* The types, and what the state of a handler says about the others.       *)
(***************************************************************************)
Taken(u) == /\ ~Connected(u) /\ seat[u] = NoRoom
            /\ closer[u] = "telling" => cleared[u] = goal[u]

Handling(u) ==
    /\ handler[u] \in {"leaving", "joining"} => seat[u] = NoRoom
    /\ handler[u] = "leaving" => from[u] \in Room
    /\ handler[u] = "joining" => goal[u] \in Room
    /\ handler[u] \in {"entered", "announcing"} =>
           goal[u] \in Room /\ (seat[u] = goal[u] \/ Taken(u))
    /\ handler[u] = "off" => ~Connected(u)
    /\ u \notin snapshot[u] /\ u \notin pending[u]

Clearing(u) ==
    /\ closer[u] = "telling" => cleared[u] \in Room
    /\ closer[u] # "telling" => parting[u] = {}
    /\ u \notin parting[u]

ServerOK ==
    /\ seat \in [User -> Room \cup {NoRoom}]
    /\ handler \in [User -> {"idle", "leaving", "joining", "entered",
                             "announcing", "off"}]
    /\ goal \in [User -> Room \cup {NoRoom}]
    /\ from \in [User -> Room \cup {NoRoom}]
    /\ snapshot \in [User -> SUBSET User]
    /\ pending \in [User -> SUBSET User]
    /\ closer \in [User -> {"no", "cleaning", "telling", "done"}]
    /\ cleared \in [User -> Room \cup {NoRoom}]
    /\ parting \in [User -> SUBSET User]
    /\ \A u \in User : Handling(u) /\ Clearing(u)

\* Nobody is told about itself.
FitFor(m, u) == /\ m.type = "room_joined" => u \notin m.users
                /\ m.type \in {"user_joined", "user_left"} => m.user # u

OutboxOK ==
    /\ outbox \in [User -> Seq(Message)]
    /\ \A u \in User : \A i \in 1..Len(outbox[u]) : FitFor(outbox[u][i], u)

PageOK ==
    /\ page \in [User -> Room \cup {NoRoom}]
    /\ roomUsers \in [User -> SUBSET User]
    /\ called \in [User -> SUBSET User]
    /\ \A u \in User : u \notin roomUsers[u] /\ called[u] \subseteq roomUsers[u]

HistoryOK ==
    /\ disturbed \in [User -> BOOLEAN]
    /\ stranded \in [User -> BOOLEAN]
    /\ \A u \in User : ~Connected(u) => disturbed[u]

Types == ServerOK /\ OutboxOK /\ PageOK /\ HistoryOK

LEMMA MessageTypes ==
    /\ \A m \in Message :
           /\ m.type \in {"room_joined", "room_left", "user_joined", "user_left"}
           /\ m.type = "room_joined" => m.room \in Room /\ m.users \subseteq User
           /\ m.type \in {"user_joined", "user_left"} => m.user \in User
    /\ \A r \in Room, us \in SUBSET User :
           [type |-> "room_joined", room |-> r, users |-> us] \in Message
    /\ [type |-> "room_left"] \in Message
    /\ \A u \in User : /\ [type |-> "user_joined", user |-> u] \in Message
                       /\ [type |-> "user_left", user |-> u] \in Message
BY DEF Message

LEMMA FitAfterAppend ==
    ASSUME NEW s \in Seq(Message), NEW m \in Message, NEW u,
           FitFor(m, u), \A i \in 1..Len(s) : FitFor(s[i], u)
    PROVE  /\ Append(s, m) \in Seq(Message)
           /\ \A i \in 1..Len(Append(s, m)) : FitFor(Append(s, m)[i], u)
<1>1. /\ Append(s, m) \in Seq(Message) /\ Len(Append(s, m)) = Len(s) + 1
      /\ Append(s, m)[Len(s) + 1] = m
      /\ \A i \in 1..Len(s) : Append(s, m)[i] = s[i]
    OBVIOUS
<1>2. \A i \in 1..(Len(s) + 1) : i \in 1..Len(s) \/ i = Len(s) + 1
    OBVIOUS
<1> QED
    BY <1>1, <1>2

LEMMA FitAfterTail ==
    ASSUME NEW s \in Seq(Message), s # <<>>, NEW u,
           \A i \in 1..Len(s) : FitFor(s[i], u)
    PROVE  /\ Head(s) \in Message /\ FitFor(Head(s), u)
           /\ Tail(s) \in Seq(Message)
           /\ \A i \in 1..Len(Tail(s)) : FitFor(Tail(s)[i], u)
<1>1. /\ Head(s) \in Message /\ Head(s) = s[1] /\ 1 \in 1..Len(s)
      /\ Tail(s) \in Seq(Message) /\ Len(Tail(s)) = Len(s) - 1
      /\ \A i \in 1..(Len(s) - 1) : i + 1 \in 1..Len(s) /\ Tail(s)[i] = s[i + 1]
    OBVIOUS
<1> QED
    BY <1>1

-----------------------------------------------------------------------------
(* Which steps change what. *)

Takes(u) == OnRoomJoined(u) \/ OnRoomLeft(u) \/ OnUserJoined(u) \/ OnUserLeft(u)

\* Clicks that take a seat away, and those that do not.
Vacates(u) == (\E r \in Room : JoinFromRoom(u, r)) \/ LeaveRoom(u)

Tells(u, v) == TellLeft(u, v) \/ TellJoined(u, v) \/ TellGone(u, v)

\* What the end of a connection does but to tell somebody about it.
Shuts(u) == \/ Close(u) \/ Sweep(u) \/ Swept(u) \/ CleanedUp(u) \/ ReaderExit(u)
            \/ Lose(u) \/ LeaveUnheard(u) \/ Reconnect(u)

LEMMA Steps ==
    ASSUME Next
    PROVE  \E u \in User :
               \/ Vacates(u) \/ (\E r \in Room : JoinFromLobby(u, r))
               \/ LeaveOtherRoom(u) \/ (\E v \in User : Tells(u, v))
               \/ LeftForJoin(u) \/ LeftForLobby(u) \/ JoinRefused(u)
               \/ Join(u) \/ SendRoomJoined(u) \/ JoinDone(u) \/ Takes(u)
               \/ Shuts(u)
BY DEF Next, Hub, Closing, Page, Vacates, Tells, Takes, Shuts

LEMMA VacateServer ==
    ASSUME ServerOK, NEW u \in User, Vacates(u)
    PROVE  /\ handler[u] = "idle" /\ seat[u] \in Room
           /\ \E dest \in Room \cup {NoRoom} :
                  /\ Vacate(u, dest)
                  /\ dest = NoRoom =>
                         page[u] = seat[u] /\ ResetRoom(u)
                  /\ dest # NoRoom => UNCHANGED pageVars
<1> USE RoomViewsAssumption
<1>1. handler[u] = "idle" /\ seat[u] # NoRoom
    BY DEF Vacates, JoinFromRoom, LeaveRoom, Frame
<1>2. seat[u] \in Room
    BY <1>1 DEF ServerOK
<1>3. ASSUME NEW r \in Room, JoinFromRoom(u, r)
      PROVE  Vacate(u, r) /\ r # NoRoom /\ UNCHANGED pageVars
    BY <1>3 DEF JoinFromRoom
<1>4. CASE LeaveRoom(u)
    BY <1>1, <1>2, <1>4 DEF LeaveRoom
<1> QED
    BY <1>1, <1>2, <1>3, <1>4 DEF Vacates

LEMMA ServerStep ==
    ASSUME ServerOK, [Next]_vars
    PROVE  ServerOK'
<1> USE RoomViewsAssumption DEF ServerOK, Handling, Clearing, Taken, Connected
<1>1. ASSUME NEW u \in User, Vacates(u)
      PROVE  ServerOK'
  <2>1. PICK dest \in Room \cup {NoRoom} : Vacate(u, dest)
      BY <1>1, VacateServer
  <2>2. seat[u] \in Room /\ handler[u] = "idle"
      BY <1>1, VacateServer
  <2>3. Remaining(u) \subseteq User \ {u}
      BY DEF Remaining, Members
  <2> QED
      BY <2>1, <2>2, <2>3 DEF Vacate, closerVars
<1>2. ASSUME NEW u \in User, NEW r \in Room, JoinFromLobby(u, r)
      PROVE  ServerOK'
    BY <1>2 DEF JoinFromLobby, Frame, closerVars
<1>3. ASSUME NEW u \in User,
             LeaveOtherRoom(u) \/ LeaveUnheard(u) \/ Lose(u) \/ Takes(u)
      PROVE  ServerOK'
    BY <1>3
    DEF LeaveOtherRoom, LeaveUnheard, Lose, Takes, OnRoomJoined, OnRoomLeft,
        OnUserJoined, OnUserLeft, serverVars, closerVars
<1>4. ASSUME NEW u \in User, NEW v \in User, Tells(u, v)
      PROVE  ServerOK'
    BY <1>4 DEF Tells, TellLeft, TellJoined, TellGone, closerVars
<1>5. ASSUME NEW u \in User, LeftForJoin(u) \/ LeftForLobby(u)
      PROVE  ServerOK'
    BY <1>5 DEF LeftForJoin, LeftForLobby, closerVars
<1>6. ASSUME NEW u \in User, JoinRefused(u) \/ JoinDone(u) \/ ReaderExit(u)
      PROVE  ServerOK'
    BY <1>6 DEF JoinRefused, JoinDone, ReaderExit, closerVars
<1>7. ASSUME NEW u \in User, Join(u)
      PROVE  ServerOK'
  <2>1. seat[u] = NoRoom /\ goal[u] \in Room
      BY <1>7 DEF Join
  <2>2. Existing(goal[u]) \subseteq User \ {u}
      BY <2>1 DEF Existing, Members
  <2> QED
      BY <1>7, <2>1, <2>2 DEF Join, closerVars
<1>8. ASSUME NEW u \in User, SendRoomJoined(u)
      PROVE  ServerOK'
    BY <1>8 DEF SendRoomJoined, closerVars
<1>9. ASSUME NEW u \in User, Close(u)
      PROVE  ServerOK'
    BY <1>9 DEF Close
<1>10. ASSUME NEW u \in User, Sweep(u)
       PROVE  ServerOK'
  <2>1. Remaining(u) \subseteq User \ {u}
      BY DEF Remaining, Members
  <2> QED
      BY <1>10, <2>1 DEF Sweep
<1>11. ASSUME NEW u \in User, Swept(u) \/ CleanedUp(u)
       PROVE  ServerOK'
    BY <1>11 DEF Swept, CleanedUp
<1>12. ASSUME NEW u \in User, Reconnect(u)
       PROVE  ServerOK'
    BY <1>12 DEF Reconnect
<1>13. CASE UNCHANGED vars
    BY <1>13 DEF vars, serverVars, closerVars
<1> QED
    BY <1>1, <1>2, <1>3, <1>4, <1>5, <1>6, <1>7, <1>8, <1>9, <1>10, <1>11, <1>12,
       <1>13, Steps DEF Shuts

\* What is put in or taken from an outbox.
LEMMA OutboxStep ==
    ASSUME ServerOK, OutboxOK, [Next]_vars
    PROVE  OutboxOK'
<1> USE RoomViewsAssumption
<1>1. ASSUME NEW v \in User, NEW m \in Message, Enqueue(v, m), FitFor(m, v)
      PROVE  OutboxOK'
  <2>1. CASE ~Connected(v)
      BY <1>1, <2>1 DEF Enqueue, OutboxOK
  <2>2. CASE Connected(v)
    <3>1. /\ outbox[v] \in Seq(Message)
          /\ \A i \in 1..Len(outbox[v]) : FitFor(outbox[v][i], v)
        BY DEF OutboxOK
    <3>2. /\ Append(outbox[v], m) \in Seq(Message)
          /\ \A i \in 1..Len(Append(outbox[v], m)) :
                 FitFor(Append(outbox[v], m)[i], v)
        BY <1>1, <3>1, FitAfterAppend
    <3>3. outbox' = [outbox EXCEPT ![v] = Append(outbox[v], m)]
        BY <1>1, <2>2 DEF Enqueue
    <3>4. outbox' \in [User -> Seq(Message)]
        BY <3>2, <3>3 DEF OutboxOK
    <3>5. ASSUME NEW u \in User
          PROVE  \A i \in 1..Len(outbox'[u]) : FitFor(outbox'[u][i], u)
      <4>1. CASE u = v
          BY <3>2, <3>3, <4>1 DEF OutboxOK
      <4>2. CASE u # v
          BY <3>3, <4>2 DEF OutboxOK
      <4> QED
          BY <4>1, <4>2
    <3> QED
        BY <3>4, <3>5 DEF OutboxOK
  <2> QED
      BY <2>1, <2>2
<1>2. ASSUME NEW u \in User, Takes(u)
      PROVE  OutboxOK'
  <2>1. outbox[u] # <<>> /\ outbox' = [outbox EXCEPT ![u] = Tail(outbox[u])]
      BY <1>2
      DEF Takes, OnRoomJoined, OnRoomLeft, OnUserJoined, OnUserLeft, NextMessage,
          Consume
  <2>2. /\ Tail(outbox[u]) \in Seq(Message)
        /\ \A i \in 1..Len(Tail(outbox[u])) : FitFor(Tail(outbox[u])[i], u)
      BY <2>1, FitAfterTail DEF OutboxOK
  <2>3. outbox' \in [User -> Seq(Message)]
      BY <2>1, <2>2 DEF OutboxOK
  <2>4. ASSUME NEW w \in User
        PROVE  \A i \in 1..Len(outbox'[w]) : FitFor(outbox'[w][i], w)
    <3>1. CASE w = u
        BY <2>1, <2>2, <3>1 DEF OutboxOK
    <3>2. CASE w # u
        BY <2>1, <3>2 DEF OutboxOK
    <3> QED
        BY <3>1, <3>2
  <2> QED
      BY <2>3, <2>4 DEF OutboxOK
<1>3. ASSUME UNCHANGED outbox
      PROVE  OutboxOK'
    BY <1>3 DEF OutboxOK
<1>4. ASSUME NEW u \in User, Vacates(u)
      PROVE  OutboxOK'
    BY <1>3, <1>4, VacateServer DEF Vacate
<1>5. ASSUME NEW u \in User,
             \/ \E r \in Room : JoinFromLobby(u, r)
             \/ LeaveOtherRoom(u) \/ LeftForJoin(u) \/ JoinRefused(u) \/ Join(u)
             \/ JoinDone(u)
      PROVE  OutboxOK'
    BY <1>3, <1>5
    DEF JoinFromLobby, LeaveOtherRoom, LeftForJoin, JoinRefused, Join, JoinDone
<1>6. ASSUME NEW u \in User, NEW v \in User, Tells(u, v)
      PROVE  OutboxOK'
  <2>1. PICK t \in {"user_left", "user_joined"} :
            Enqueue(v, [type |-> t, user |-> u]) /\ u # v
      BY <1>6
      DEF Tells, TellLeft, TellJoined, TellGone, ServerOK, Handling, Clearing
  <2> DEFINE m == [type |-> t, user |-> u]
  <2>2. m \in Message /\ m.type \in {"user_joined", "user_left"} /\ m.user = u
      BY MessageTypes
  <2>3. FitFor(m, v)
      BY <2>1, <2>2 DEF FitFor
  <2> QED
      BY <1>1, <2>1, <2>2, <2>3
<1>7. ASSUME NEW u \in User, LeftForLobby(u)
      PROVE  OutboxOK'
  <2>1. FitFor([type |-> "room_left"], u)
      BY DEF FitFor
  <2> QED
      BY <1>1, <1>7, <2>1, MessageTypes DEF LeftForLobby
<1>8. ASSUME NEW u \in User, Shuts(u)
      PROVE  OutboxOK'
  <2>1. CASE Lose(u)
      BY <2>1 DEF Lose, OutboxOK
  <2>2. CASE ~Lose(u)
      BY <1>3, <1>8, <2>2
      DEF Shuts, Close, Sweep, Swept, CleanedUp, ReaderExit, LeaveUnheard, Reconnect
  <2> QED
      BY <2>1, <2>2
<1>9. ASSUME NEW u \in User, SendRoomJoined(u)
      PROVE  OutboxOK'
  <2> DEFINE m == [type |-> "room_joined", room |-> goal[u], users |-> snapshot[u]]
  <2>1. m \in Message
      BY <1>9, MessageTypes DEF SendRoomJoined, ServerOK, Handling
  <2>2. FitFor(m, u)
      BY DEF FitFor, ServerOK, Handling
  <2>3. Enqueue(u, m)
      BY <1>9 DEF SendRoomJoined
  <2> QED
      BY <1>1, <2>1, <2>2, <2>3
<1>10. CASE UNCHANGED vars
    BY <1>3, <1>10 DEF vars
<1> QED
    BY <1>2, <1>4, <1>5, <1>6, <1>7, <1>8, <1>9, <1>10, Steps

LEMMA PageStep ==
    ASSUME ServerOK, OutboxOK, PageOK, [Next]_vars
    PROVE  PageOK'
<1> USE RoomViewsAssumption
<1>1. ASSUME NEW u \in User, ResetRoom(u)
      PROVE  PageOK'
    BY <1>1 DEF ResetRoom, AfterRoomLeft, PageOK
<1>2. ASSUME NEW u \in User, Vacates(u)
      PROVE  PageOK'
    BY <1>1, <1>2, VacateServer DEF pageVars, PageOK
<1>3. ASSUME NEW u \in User, OnRoomJoined(u)
      PROVE  PageOK'
  <2>1. /\ Head(outbox[u]) \in Message /\ FitFor(Head(outbox[u]), u)
        /\ Head(outbox[u]).type = "room_joined"
      BY <1>3, FitAfterTail DEF OnRoomJoined, NextMessage, OutboxOK
  <2>2. /\ Head(outbox[u]).room \in Room
        /\ Head(outbox[u]).users \subseteq User \ {u}
      BY <2>1, MessageTypes DEF FitFor
  <2> QED
      BY <1>3, <2>2 DEF OnRoomJoined, PageOK
<1>4. ASSUME NEW u \in User, OnUserJoined(u) \/ OnUserLeft(u)
      PROVE  PageOK'
  <2>1. /\ Head(outbox[u]) \in Message /\ FitFor(Head(outbox[u]), u)
        /\ Head(outbox[u]).type \in {"user_joined", "user_left"}
      BY <1>4, FitAfterTail DEF OnUserJoined, OnUserLeft, NextMessage, OutboxOK
  <2>2. Head(outbox[u]).user \in User \ {u}
      BY <2>1, MessageTypes DEF FitFor
  <2> QED
      BY <1>4, <2>2 DEF OnUserJoined, OnUserLeft, WithPeer, WithoutPeer, PageOK
<1>5. ASSUME NEW u \in User,
             \/ \E r \in Room : JoinFromLobby(u, r)
             \/ \E v \in User : Tells(u, v)
             \/ LeftForJoin(u) \/ LeftForLobby(u) \/ JoinRefused(u) \/ Join(u)
             \/ SendRoomJoined(u) \/ JoinDone(u) \/ (Shuts(u) /\ ~LeaveUnheard(u))
      PROVE  PageOK'
  <2>1. UNCHANGED pageVars
      BY <1>5
      DEF JoinFromLobby, Tells, TellLeft, TellJoined, TellGone, LeftForJoin,
          LeftForLobby, JoinRefused, Join, SendRoomJoined, JoinDone, Shuts, Close,
          Sweep, Swept, CleanedUp, ReaderExit, Lose, Reconnect
  <2> QED
      BY <2>1 DEF pageVars, PageOK
<1>6. CASE UNCHANGED vars
    BY <1>6 DEF vars, pageVars, PageOK
<1> QED
    BY <1>1, <1>2, <1>3, <1>4, <1>5, <1>6, Steps
    DEF LeaveOtherRoom, LeaveUnheard, OnRoomLeft, Takes, Shuts

\* What the two histories become.
LEMMA DisturbedChange ==
    ASSUME ServerOK, [Next]_vars
    PROVE  \/ UNCHANGED disturbed
           \/ \E u \in User, b \in BOOLEAN : disturbed' = [disturbed EXCEPT ![u] = b]
<1>1. ASSUME NEW u \in User, NEW v \in User, Tells(u, v)
      PROVE  \E b \in BOOLEAN : disturbed' = [disturbed EXCEPT ![v] = b]
    BY <1>1 DEF Tells, TellLeft, TellJoined, TellGone
<1>2. ASSUME NEW u \in User,
             LeaveOtherRoom(u) \/ LeftForLobby(u) \/ Close(u) \/ Join(u)
      PROVE  \E b \in BOOLEAN : disturbed' = [disturbed EXCEPT ![u] = b]
    BY <1>2 DEF LeaveOtherRoom, LeftForLobby, Close, Join
<1>3. ASSUME NEW u \in User,
             \/ Vacates(u) \/ \E r \in Room : JoinFromLobby(u, r)
             \/ LeftForJoin(u) \/ JoinRefused(u) \/ SendRoomJoined(u) \/ JoinDone(u)
             \/ Takes(u) \/ (Shuts(u) /\ ~Close(u))
      PROVE  UNCHANGED disturbed
  <2>1. CASE Vacates(u)
      BY <2>1, VacateServer DEF Vacate, historyVars
  <2> QED
      BY <1>3, <2>1
      DEF JoinFromLobby, LeftForJoin, JoinRefused, SendRoomJoined, JoinDone, Takes,
          OnRoomJoined, OnRoomLeft, OnUserJoined, OnUserLeft, Shuts, Sweep, Swept,
          CleanedUp, ReaderExit, Lose, LeaveUnheard, Reconnect, historyVars
<1>4. CASE UNCHANGED vars
    BY <1>4 DEF vars, historyVars
<1> QED
    BY <1>1, <1>2, <1>3, <1>4, Steps

LEMMA StrandedChange ==
    ASSUME ServerOK, [Next]_vars
    PROVE  \/ UNCHANGED stranded
           \/ \E u \in User, b \in BOOLEAN : stranded' = [stranded EXCEPT ![u] = b]
<1>1. ASSUME NEW u \in User,
             \/ LeaveOtherRoom(u) \/ Close(u) \/ LeaveUnheard(u)
             \/ JoinRefused(u) \/ Join(u)
      PROVE  \E b \in BOOLEAN : stranded' = [stranded EXCEPT ![u] = b]
    BY <1>1 DEF LeaveOtherRoom, Close, LeaveUnheard, JoinRefused, Join
<1>2. ASSUME NEW u \in User,
             \/ Vacates(u) \/ \E r \in Room : JoinFromLobby(u, r)
             \/ \E v \in User : Tells(u, v)
             \/ LeftForJoin(u) \/ LeftForLobby(u) \/ SendRoomJoined(u)
             \/ JoinDone(u) \/ Takes(u)
             \/ (Shuts(u) /\ ~Close(u) /\ ~LeaveUnheard(u))
      PROVE  UNCHANGED stranded
  <2>1. CASE Vacates(u)
      BY <2>1, VacateServer DEF Vacate, historyVars
  <2> QED
      BY <1>2, <2>1
      DEF JoinFromLobby, Tells, TellLeft, TellJoined, TellGone, LeftForJoin,
          LeftForLobby, SendRoomJoined, JoinDone, Takes, OnRoomJoined, OnRoomLeft,
          OnUserJoined, OnUserLeft, Shuts, Sweep, Swept, CleanedUp, ReaderExit,
          Lose, Reconnect, historyVars
<1>3. CASE UNCHANGED vars
    BY <1>3 DEF vars, historyVars
<1> QED
    BY <1>1, <1>2, <1>3, Steps

\* Whoever has lost its connection stays disturbed.
LEMMA LostStays ==
    ASSUME ServerOK, HistoryOK, [Next]_vars, NEW u \in User,
           ~Connected(u) \/ ~Connected(u)'
    PROVE  disturbed'[u]
<1> USE DEF ServerOK, HistoryOK, Connected
<1>1. ASSUME NEW w \in User, NEW v \in User, Tells(w, v)
      PROVE  disturbed'[u]
    BY <1>1 DEF Tells, TellLeft, TellJoined, TellGone, closerVars
<1>2. ASSUME NEW w \in User,
             LeaveOtherRoom(w) \/ LeftForLobby(w) \/ Close(w) \/ Join(w)
      PROVE  disturbed'[u]
    BY <1>2 DEF LeaveOtherRoom, LeftForLobby, Close, Join, serverVars, closerVars
<1>3. ASSUME NEW w \in User,
             \/ Vacates(w) \/ \E r \in Room : JoinFromLobby(w, r)
             \/ LeftForJoin(w) \/ JoinRefused(w) \/ SendRoomJoined(w) \/ JoinDone(w)
             \/ Takes(w) \/ (Shuts(w) /\ ~Close(w))
      PROVE  disturbed'[u]
  <2>1. CASE Vacates(w)
      BY <2>1, VacateServer DEF Vacate, historyVars, closerVars
  <2>2. CASE Sweep(w) \/ Swept(w) \/ CleanedUp(w) \/ Reconnect(w)
      BY <2>2 DEF Sweep, Swept, CleanedUp, Reconnect, historyVars
  <2> QED
      BY <1>3, <2>1, <2>2
      DEF JoinFromLobby, LeftForJoin, JoinRefused, SendRoomJoined, JoinDone, Takes,
          OnRoomJoined, OnRoomLeft, OnUserJoined, OnUserLeft, Shuts, ReaderExit,
          Lose, LeaveUnheard, historyVars, serverVars, closerVars
<1>4. CASE UNCHANGED vars
    BY <1>4 DEF vars, historyVars, serverVars, closerVars
<1> QED
    BY <1>1, <1>2, <1>3, <1>4, Steps

LEMMA TypesStep ==
    ASSUME Types, [Next]_vars
    PROVE  Types'
<1>1. HistoryOK'
    BY DisturbedChange, StrandedChange, LostStays DEF Types, HistoryOK
<1> QED
    BY <1>1, ServerStep, OutboxStep, PageStep DEF Types

LEMMA TypesInvariant == Spec => []Types
<1>1. Init => Types
    BY RoomViewsAssumption
    DEF Init, Types, ServerOK, Handling, Clearing, Connected, OutboxOK, PageOK,
        HistoryOK
<1>2. Types /\ [Next]_vars => Types'
    BY TypesStep
<1> QED
    BY <1>1, <1>2, PTL DEF Spec

MovesOK == moves \in 0..MaxMoves

LEMMA MovesStep ==
    ASSUME ServerOK, MovesOK, [Next]_vars
    PROVE  MovesOK'
<1> USE RoomViewsAssumption DEF MovesOK
<1>1. ASSUME NEW u \in User, Frame(u)
      PROVE  MovesOK'
    BY <1>1 DEF Frame
<1>2. ASSUME NEW u \in User, Vacates(u)
      PROVE  MovesOK'
    BY <1>1, <1>2 DEF Vacates, JoinFromRoom, LeaveRoom
<1>3. ASSUME NEW u \in User,
             \/ \E r \in Room : JoinFromLobby(u, r)
             \/ LeaveOtherRoom(u) \/ Close(u) \/ Reconnect(u)
      PROVE  MovesOK'
    BY <1>1, <1>3 DEF JoinFromLobby, LeaveOtherRoom, Close, Reconnect
<1>4. ASSUME NEW u \in User,
             \/ \E v \in User : Tells(u, v)
             \/ LeftForJoin(u) \/ LeftForLobby(u) \/ JoinRefused(u) \/ Join(u)
             \/ SendRoomJoined(u) \/ JoinDone(u) \/ Takes(u)
             \/ (Shuts(u) /\ ~Close(u) /\ ~Reconnect(u))
      PROVE  moves' = moves
    BY <1>4
    DEF Tells, TellLeft, TellJoined, TellGone, LeftForJoin, LeftForLobby,
        JoinRefused, Join, SendRoomJoined, JoinDone, Takes, OnRoomJoined,
        OnRoomLeft, OnUserJoined, OnUserLeft, Shuts, Sweep, Swept, CleanedUp,
        ReaderExit, Lose, LeaveUnheard
<1>5. CASE UNCHANGED vars
    BY <1>5 DEF vars
<1> QED
    BY <1>2, <1>3, <1>4, <1>5, Steps

\* Every variable keeps its type; nobody is listed among its own peers, and only
\* listed users are called (the types of hub.go's and app.js's state).
THEOREM RoomViewsTypeCorrect == Spec => []TypeOK
<1>1. Init => MovesOK
    BY RoomViewsAssumption DEF Init, MovesOK
<1>2. Types /\ MovesOK /\ [Next]_vars => MovesOK'
    BY MovesStep DEF Types
<1>3. Types /\ MovesOK => TypeOK
  <2>1. Types => \A u \in User : \A i \in DOMAIN outbox[u] : outbox[u][i] \in Message
    <3>1. ASSUME Types, NEW u \in User, NEW i \in DOMAIN outbox[u]
          PROVE  outbox[u][i] \in Message
      <4>1. outbox[u] \in Seq(Message)
          BY <3>1 DEF Types, OutboxOK
      <4> QED
          BY <3>1, <4>1
    <3> QED
        BY <3>1
  <2>2. HistoryOK => disturbed \in [User -> BOOLEAN] /\ stranded \in [User -> BOOLEAN]
      BY DEF HistoryOK
  <2>3. ServerOK /\ PageOK =>
            /\ seat \in [User -> Room \cup {NoRoom}]
            /\ handler \in [User -> {"idle", "leaving", "joining", "entered",
                                     "announcing", "off"}]
            /\ goal \in [User -> Room \cup {NoRoom}]
            /\ from \in [User -> Room \cup {NoRoom}]
            /\ snapshot \in [User -> SUBSET User]
            /\ pending \in [User -> SUBSET User]
            /\ closer \in [User -> {"no", "cleaning", "telling", "done"}]
            /\ cleared \in [User -> Room \cup {NoRoom}]
            /\ parting \in [User -> SUBSET User]
            /\ page \in [User -> Room \cup {NoRoom}]
            /\ roomUsers \in [User -> SUBSET User]
            /\ called \in [User -> SUBSET User]
            /\ \A u \in User : u \notin roomUsers[u] /\ called[u] \subseteq roomUsers[u]
      BY DEF ServerOK, PageOK
  <2> QED
      BY <2>1, <2>2, <2>3 DEF Types, TypeOK, MovesOK
<1> QED
    BY <1>1, <1>2, <1>3, TypesInvariant, PTL DEF Spec

-----------------------------------------------------------------------------
(***************************************************************************)
(* What a page will show, list and call once it has taken its messages.    *)
(***************************************************************************)
\* The room is replaced by the messages that are about everybody.
Nobody == CHOOSE w : w \notin User

LEMMA NobodyIsNone == Nobody \notin User
BY NoSetContainsEverything DEF Nobody

Replaces(m) == m.type \in {"room_joined", "room_left"}

Shows(m) == IF m.type = "room_joined" THEN m.room ELSE NoRoom

Lists(m, v) == \/ m.type = "room_joined" /\ v \in m.users
               \/ m.type = "user_joined"

Calls(m) == m.type = "user_joined"

WillShow(u, r) ==
    \/ NoneAbout(outbox[u], Nobody) /\ page[u] = r
    \/ \E m \in Message : LastAbout(outbox[u], Nobody, m) /\ Shows(m) = r

WillList(u, v) ==
    \/ NoneAbout(outbox[u], v) /\ v \in roomUsers[u]
    \/ \E m \in Message : LastAbout(outbox[u], v, m) /\ Lists(m, v)

WillCall(u, v) ==
    \/ NoneAbout(outbox[u], v) /\ v \in called[u]
    \/ \E m \in Message : LastAbout(outbox[u], v, m) /\ Calls(m)

SameViews(u) ==
    /\ \A r : WillShow(u, r)' <=> WillShow(u, r)
    /\ \A v \in User : /\ WillList(u, v)' <=> WillList(u, v)
                       /\ WillCall(u, v)' <=> WillCall(u, v)

LEMMA AboutNobody ==
    ASSUME NEW m \in Message
    PROVE  /\ About(m, Nobody) <=> Replaces(m)
           /\ Replaces(m) => \A w : About(m, w)
           /\ ~Replaces(m) => m.type \in {"user_joined", "user_left"}
                              /\ \A w : About(m, w) <=> m.user = w
BY NobodyIsNone, MessageTypes DEF About, Replaces

LEMMA UntouchedViews ==
    ASSUME NEW u \in User, outbox'[u] = outbox[u], page'[u] = page[u],
           roomUsers'[u] = roomUsers[u], called'[u] = called[u]
    PROVE  SameViews(u)
BY DEF SameViews, WillShow, WillList, WillCall

\* A message that is sent decides about the room or the user it is about.
LEMMA SentViews ==
    ASSUME Types, NEW u \in User, NEW m \in Message,
           outbox'[u] = Append(outbox[u], m), page'[u] = page[u],
           roomUsers'[u] = roomUsers[u], called'[u] = called[u]
    PROVE  /\ Replaces(m) => \A r : WillShow(u, r)' <=> Shows(m) = r
           /\ ~Replaces(m) => \A r : WillShow(u, r)' <=> WillShow(u, r)
           /\ \A v \in User :
                  IF About(m, v)
                  THEN /\ WillList(u, v)' <=> Lists(m, v)
                       /\ WillCall(u, v)' <=> Calls(m)
                  ELSE /\ WillList(u, v)' <=> WillList(u, v)
                       /\ WillCall(u, v)' <=> WillCall(u, v)
<1>1. outbox[u] \in Seq(Message)
    BY DEF Types, OutboxOK
<1>2. ASSUME NEW r
      PROVE  IF Replaces(m) THEN WillShow(u, r)' <=> Shows(m) = r
             ELSE WillShow(u, r)' <=> WillShow(u, r)
  <2>1. CASE Replaces(m)
    <3>1. /\ ~NoneAbout(outbox'[u], Nobody)
          /\ \A n : LastAbout(outbox'[u], Nobody, n) <=> n = m
        BY <1>1, <2>1, AboutNobody, LastAfterAppend
    <3> QED
        BY <2>1, <3>1 DEF WillShow
  <2>2. CASE ~Replaces(m)
    <3>1. /\ NoneAbout(outbox'[u], Nobody) <=> NoneAbout(outbox[u], Nobody)
          /\ \A n : LastAbout(outbox'[u], Nobody, n) <=> LastAbout(outbox[u], Nobody, n)
        BY <1>1, <2>2, AboutNobody, LastAfterAppend
    <3> QED
        BY <2>2, <3>1 DEF WillShow
  <2> QED
      BY <2>1, <2>2
<1>3. ASSUME NEW v \in User
      PROVE  IF About(m, v)
             THEN /\ WillList(u, v)' <=> Lists(m, v)
                  /\ WillCall(u, v)' <=> Calls(m)
             ELSE /\ WillList(u, v)' <=> WillList(u, v)
                  /\ WillCall(u, v)' <=> WillCall(u, v)
  <2>1. CASE About(m, v)
    <3>1. /\ ~NoneAbout(outbox'[u], v)
          /\ \A n : LastAbout(outbox'[u], v, n) <=> n = m
        BY <1>1, <2>1, LastAfterAppend
    <3> QED
        BY <2>1, <3>1 DEF WillList, WillCall
  <2>2. CASE ~About(m, v)
    <3>1. /\ NoneAbout(outbox'[u], v) <=> NoneAbout(outbox[u], v)
          /\ \A n : LastAbout(outbox'[u], v, n) <=> LastAbout(outbox[u], v, n)
        BY <1>1, <2>2, LastAfterAppend
    <3> QED
        BY <2>2, <3>1 DEF WillList, WillCall
  <2> QED
      BY <2>1, <2>2
<1> QED
    BY <1>2, <1>3

\* A page that takes a message does what it was going to do.
LEMMA TakenViews ==
    ASSUME Types, NEW u \in User, Takes(u)
    PROVE  SameViews(u)
<1> DEFINE m == Head(outbox[u])
           t == Tail(outbox[u])
<1>1. /\ outbox[u] \in Seq(Message) /\ outbox[u] # <<>>
      /\ outbox'[u] = t
      BY DEF Types, OutboxOK, Takes, OnRoomJoined, OnRoomLeft, OnUserJoined,
             OnUserLeft, NextMessage, Consume
<1>2. m \in Message /\ t \in Seq(Message)
    BY <1>1, FitAfterTail, LastAfterTail
<1>3. CASE Replaces(m)
  <2>1. /\ page'[u] = Shows(m) /\ called'[u] = {}
        /\ \A v \in User : v \in roomUsers'[u] <=> Lists(m, v)
    <3>1. CASE OnRoomJoined(u)
        BY <3>1 DEF OnRoomJoined, NextMessage, Shows, Lists, Types, PageOK
    <3>2. CASE OnRoomLeft(u)
        BY <3>2
        DEF OnRoomLeft, NextMessage, Shows, Lists, ResetRoom, AfterRoomLeft, Types,
            PageOK
    <3> QED
        BY <1>3, <3>1, <3>2 DEF Takes, OnUserJoined, OnUserLeft, NextMessage, Replaces
  <2>2. ~Calls(m)
      BY <1>3 DEF Calls, Replaces
  <2>3. ASSUME NEW w
        PROVE  /\ ~NoneAbout(outbox[u], w)
               /\ NoneAbout(t, w) =>
                      /\ \A n : LastAbout(outbox[u], w, n) <=> n = m
                      /\ \A n : ~LastAbout(t, w, n)
               /\ ~NoneAbout(t, w) =>
                      \A n : LastAbout(t, w, n) <=> LastAbout(outbox[u], w, n)
    <3>1. About(m, w)
        BY <1>2, <1>3, AboutNobody
    <3> QED
        BY <1>1, <3>1, LastAfterTail
  <2>4. ASSUME NEW r
        PROVE  WillShow(u, r)' <=> WillShow(u, r)
    <3>1. CASE NoneAbout(t, Nobody)
        BY <1>1, <1>2, <2>1, <2>3, <3>1 DEF WillShow
    <3>2. CASE ~NoneAbout(t, Nobody)
        BY <1>1, <1>2, <2>1, <2>3, <3>2 DEF WillShow
    <3> QED
        BY <3>1, <3>2
  <2>5. ASSUME NEW v \in User
        PROVE  /\ WillList(u, v)' <=> WillList(u, v)
               /\ WillCall(u, v)' <=> WillCall(u, v)
    <3>1. CASE NoneAbout(t, v)
      <4>1. WillList(u, v)' <=> WillList(u, v)
          BY <1>1, <1>2, <2>1, <2>3, <3>1 DEF WillList
      <4>2. WillCall(u, v)' <=> WillCall(u, v)
          BY <1>1, <1>2, <2>1, <2>2, <2>3, <3>1 DEF WillCall
      <4> QED
          BY <4>1, <4>2
    <3>2. CASE ~NoneAbout(t, v)
        BY <1>1, <1>2, <2>1, <2>3, <3>2 DEF WillList, WillCall
    <3> QED
        BY <3>1, <3>2
  <2> QED
      BY <2>4, <2>5 DEF SameViews
<1>4. CASE ~Replaces(m)
  <2>1. /\ page'[u] = page[u] /\ m.user \in User
        /\ \A v \in User :
               IF v = m.user
               THEN /\ v \in roomUsers'[u] <=> Lists(m, v)
                    /\ v \in called'[u] <=> Calls(m)
               ELSE /\ v \in roomUsers'[u] <=> v \in roomUsers[u]
                    /\ v \in called'[u] <=> v \in called[u]
    <3>1. m.user \in User
        BY <1>2, <1>4, MessageTypes DEF Replaces
    <3>2. CASE OnUserJoined(u)
        BY <3>1, <3>2
        DEF OnUserJoined, NextMessage, WithPeer, Lists, Calls, Types, PageOK
    <3>3. CASE OnUserLeft(u)
        BY <3>1, <3>3
        DEF OnUserLeft, NextMessage, WithoutPeer, Lists, Calls, Types, PageOK
    <3> QED
        BY <1>4, <3>1, <3>2, <3>3
        DEF Takes, OnRoomJoined, OnRoomLeft, NextMessage, Replaces
  <2>2. ASSUME NEW r
        PROVE  WillShow(u, r)' <=> WillShow(u, r)
    <3>1. ~About(m, Nobody)
        BY <1>2, <1>4, AboutNobody
    <3>2. /\ NoneAbout(t, Nobody) <=> NoneAbout(outbox[u], Nobody)
          /\ \A n : LastAbout(t, Nobody, n) <=> LastAbout(outbox[u], Nobody, n)
        BY <1>1, <3>1, LastAfterTail
    <3> QED
        BY <1>1, <2>1, <3>2 DEF WillShow
  <2>3. ASSUME NEW v \in User
        PROVE  /\ WillList(u, v)' <=> WillList(u, v)
               /\ WillCall(u, v)' <=> WillCall(u, v)
    <3>1. CASE v # m.user
      <4>1. ~About(m, v)
          BY <1>2, <1>4, <3>1, AboutNobody
      <4>2. /\ NoneAbout(t, v) <=> NoneAbout(outbox[u], v)
            /\ \A n : LastAbout(t, v, n) <=> LastAbout(outbox[u], v, n)
          BY <1>1, <4>1, LastAfterTail
      <4> QED
          BY <1>1, <2>1, <3>1, <4>2 DEF WillList, WillCall
    <3>2. CASE v = m.user
      <4>1. About(m, v)
          BY <1>2, <1>4, <3>2, AboutNobody
      <4>2. /\ ~NoneAbout(outbox[u], v)
            /\ NoneAbout(t, v) =>
                   /\ \A n : LastAbout(outbox[u], v, n) <=> n = m
                   /\ \A n : ~LastAbout(t, v, n)
            /\ ~NoneAbout(t, v) =>
                   \A n : LastAbout(t, v, n) <=> LastAbout(outbox[u], v, n)
          BY <1>1, <4>1, LastAfterTail
      <4>3. CASE NoneAbout(t, v)
          BY <1>1, <1>2, <2>1, <3>2, <4>2, <4>3 DEF WillList, WillCall
      <4>4. CASE ~NoneAbout(t, v)
          BY <1>1, <4>2, <4>4 DEF WillList, WillCall
      <4> QED
          BY <4>3, <4>4
    <3> QED
        BY <3>1, <3>2
  <2> QED
      BY <2>2, <2>3 DEF SameViews
<1> QED
    BY <1>3, <1>4

\* What an empty outbox leaves.
LEMMA NothingToTake ==
    ASSUME NEW u \in User, outbox[u] = <<>>
    PROVE  /\ \A r : WillShow(u, r) <=> page[u] = r
           /\ \A v \in User : /\ WillList(u, v) <=> v \in roomUsers[u]
                              /\ WillCall(u, v) <=> v \in called[u]
BY NothingAbout DEF WillShow, WillList, WillCall

LEMMA OneRoomShown ==
    ASSUME Types, NEW u \in User, NEW r, NEW q, WillShow(u, r), WillShow(u, q)
    PROVE  r = q
<1>1. outbox[u] \in Seq(Message)
    BY DEF Types, OutboxOK
<1> QED
    BY <1>1, LastIsUnique DEF WillShow

-----------------------------------------------------------------------------
(***************************************************************************)
(* Whose state a step changes.                                             *)
(***************************************************************************)
SameServer(u) ==
    /\ seat'[u] = seat[u] /\ handler'[u] = handler[u] /\ goal'[u] = goal[u]
    /\ from'[u] = from[u] /\ snapshot'[u] = snapshot[u] /\ pending'[u] = pending[u]
    /\ closer'[u] = closer[u] /\ cleared'[u] = cleared[u] /\ parting'[u] = parting[u]

SamePage(u) ==
    /\ outbox'[u] = outbox[u] /\ page'[u] = page[u]
    /\ roomUsers'[u] = roomUsers[u] /\ called'[u] = called[u]

SameHistory(u) == disturbed'[u] = disturbed[u] /\ stranded'[u] = stranded[u]

\* All that a user's reader and page do but to tell somebody about it.
Handles(u) ==
    \/ Vacates(u) \/ (\E r \in Room : JoinFromLobby(u, r))
    \/ LeaveOtherRoom(u) \/ LeftForJoin(u) \/ LeftForLobby(u) \/ JoinRefused(u)
    \/ Join(u) \/ SendRoomJoined(u) \/ JoinDone(u) \/ Takes(u)

Acts(u) == Handles(u) \/ Shuts(u)

LEMMA ActsOrTells ==
    ASSUME Next
    PROVE  \E u \in User : Acts(u) \/ \E v \in User : Tells(u, v)
BY Steps DEF Acts, Handles

LEMMA HandlesKeeps ==
    ASSUME Types, NEW u \in User, Handles(u)
    PROVE  UNCHANGED closerVars
<1>1. CASE Vacates(u)
    BY <1>1, VacateServer DEF Vacate, Types
<1>2. CASE ~Vacates(u)
    BY <1>2
    DEF Handles, JoinFromLobby, LeaveOtherRoom, LeftForJoin, LeftForLobby,
        JoinRefused, Join, SendRoomJoined, JoinDone, Takes, OnRoomJoined,
        OnRoomLeft, OnUserJoined, OnUserLeft, serverVars
<1> QED
    BY <1>1, <1>2

LEMMA OthersKeepTheirs ==
    ASSUME Types, NEW u \in User, NEW w \in User, u # w, Acts(w)
    PROVE  SameServer(u) /\ SamePage(u) /\ SameHistory(u)
<1> USE DEF Types, ServerOK, OutboxOK, PageOK, HistoryOK, SameServer, SamePage,
            SameHistory, closerVars
<1>1. CASE Vacates(w)
  <2>1. PICK dest \in Room \cup {NoRoom} :
            Vacate(w, dest) /\ (UNCHANGED pageVars \/ ResetRoom(w))
      BY <1>1, VacateServer
  <2> QED
      BY <2>1 DEF Vacate, ResetRoom, pageVars, historyVars
<1>2. ASSUME NEW r \in Room, JoinFromLobby(w, r)
      PROVE  SameServer(u) /\ SamePage(u) /\ SameHistory(u)
    BY <1>2 DEF JoinFromLobby, Frame, pageVars, historyVars
<1>3. CASE LeaveOtherRoom(w) \/ LeaveUnheard(w)
    BY <1>3 DEF LeaveOtherRoom, LeaveUnheard, ResetRoom, serverVars
<1>4. CASE LeftForJoin(w) \/ LeftForLobby(w)
    BY <1>4 DEF LeftForJoin, LeftForLobby, Enqueue, pageVars, historyVars
<1>5. CASE Close(w) \/ Lose(w)
    BY <1>5 DEF Close, Lose, serverVars, pageVars, historyVars
<1>6. CASE Reconnect(w) \/ JoinRefused(w) \/ JoinDone(w)
    BY <1>6 DEF Reconnect, JoinRefused, JoinDone, pageVars, historyVars
<1>7. CASE Join(w)
    BY <1>7 DEF Join, pageVars
<1>8. CASE SendRoomJoined(w)
    BY <1>8 DEF SendRoomJoined, Enqueue, pageVars, historyVars
<1>9. CASE Takes(w)
  <2>1. CASE OnRoomJoined(w)
      BY <2>1 DEF OnRoomJoined, Consume, serverVars, historyVars
  <2>2. CASE OnRoomLeft(w)
      BY <2>2 DEF OnRoomLeft, Consume, ResetRoom, serverVars, historyVars
  <2>3. CASE OnUserJoined(w) \/ OnUserLeft(w)
      BY <2>3 DEF OnUserJoined, OnUserLeft, Consume, serverVars, historyVars
  <2> QED
      BY <1>9, <2>1, <2>2, <2>3 DEF Takes
<1>10. CASE Sweep(w) \/ Swept(w) \/ CleanedUp(w) \/ ReaderExit(w)
    BY <1>10 DEF Sweep, Swept, CleanedUp, ReaderExit, pageVars, historyVars
<1> QED
    BY <1>1, <1>2, <1>3, <1>4, <1>5, <1>6, <1>7, <1>8, <1>9, <1>10
    DEF Acts, Handles, Shuts

\* The message m about room r that a step sends v about w.
News(w, v, m, r) ==
    \/ TellLeft(w, v) /\ m = [type |-> "user_left", user |-> w] /\ r = from[w]
    \/ TellGone(w, v) /\ m = [type |-> "user_left", user |-> w] /\ r = cleared[w]
    \/ TellJoined(w, v) /\ m = [type |-> "user_joined", user |-> w] /\ r = goal[w]

LEMMA TellingNews ==
    ASSUME Types, NEW w \in User, NEW v \in User, Tells(w, v)
    PROVE  \E m \in Message, r \in Room : News(w, v, m, r)
<1>1. /\ [type |-> "user_left", user |-> w] \in Message
      /\ [type |-> "user_joined", user |-> w] \in Message
    BY MessageTypes
<1>2. /\ TellLeft(w, v) => from[w] \in Room
      /\ TellGone(w, v) => cleared[w] \in Room
      /\ TellJoined(w, v) => goal[w] \in Room
    BY DEF TellLeft, TellGone, TellJoined, Types, ServerOK, Handling, Clearing
<1> QED
    BY <1>1, <1>2 DEF Tells, News

LEMMA OneLess ==
    ASSUME NEW w \in User, NEW v \in User, NEW f \in [User -> SUBSET User], NEW g,
           g = [f EXCEPT ![w] = f[w] \ {v}] \/ g = f
    PROVE  /\ \A u \in User \ {w} : g[u] = f[u]
           /\ \A u \in User \ {v} : u \in g[w] <=> u \in f[w]
<1>1. CASE g = [f EXCEPT ![w] = f[w] \ {v}]
  <2>1. /\ \A u \in User \ {w} : g[u] = f[u]
        /\ g[w] = f[w] \ {v}
      BY <1>1
  <2> QED
      BY <2>1
<1>2. CASE g = f
    BY <1>2
<1> QED
    BY <1>1, <1>2

LEMMA OneIsTold ==
    ASSUME Types, NEW w \in User, NEW v \in User,
           \/ pending' = [pending EXCEPT ![w] = pending[w] \ {v}] /\ parting' = parting
           \/ parting' = [parting EXCEPT ![w] = parting[w] \ {v}] /\ pending' = pending
    PROVE  /\ \A u \in User \ {w} : pending'[u] = pending[u] /\ parting'[u] = parting[u]
           /\ \A u \in User \ {v} : /\ u \in pending'[w] <=> u \in pending[w]
                                    /\ u \in parting'[w] <=> u \in parting[w]
<1>1. pending \in [User -> SUBSET User] /\ parting \in [User -> SUBSET User]
    BY DEF Types, ServerOK
<1>2. /\ \A u \in User \ {w} : pending'[u] = pending[u]
      /\ \A u \in User \ {v} : u \in pending'[w] <=> u \in pending[w]
    BY <1>1, OneLess
<1>3. /\ \A u \in User \ {w} : parting'[u] = parting[u]
      /\ \A u \in User \ {v} : u \in parting'[w] <=> u \in parting[w]
    BY <1>1, OneLess
<1> QED
    BY <1>2, <1>3

\* All that such a step changes.
LEMMA Telling ==
    ASSUME Types, NEW w \in User, NEW v \in User, NEW m \in Message,
           NEW r \in Room, News(w, v, m, r)
    PROVE  /\ w # v /\ ~Replaces(m) /\ m.user = w
           /\ Lists(m, w) <=> TellJoined(w, v)
           /\ Calls(m) <=> TellJoined(w, v)
           /\ UNCHANGED <<seat, handler, goal, from, snapshot, closer, cleared,
                          page, roomUsers, called, stranded>>
           /\ outbox'[v] = IF Connected(v) THEN Append(outbox[v], m)
                           ELSE outbox[v]
           /\ \A u \in User \ {v} : SamePage(u) /\ SameHistory(u)
           /\ \A u \in User \ {w} : SameServer(u)
           /\ \A u \in User \ {v} : /\ u \in pending'[w] <=> u \in pending[w]
                                    /\ u \in parting'[w] <=> u \in parting[w]
           /\ disturbed[v] => disturbed'[v]
           /\ Disturbs(v, r) => disturbed'[v]
<1> USE DEF Types, ServerOK, OutboxOK, PageOK, HistoryOK, SameServer, SamePage,
            SameHistory, pageVars, closerVars
<1>1. w # v
    BY DEF News, TellLeft, TellJoined, TellGone, Handling, Clearing
<1>2. ~Replaces(m) /\ m.user = w
    BY DEF News, Replaces
<1>3. ~(TellJoined(w, v) /\ (TellLeft(w, v) \/ TellGone(w, v)))
    BY DEF TellJoined, TellLeft, TellGone
<1>4. /\ Lists(m, w) <=> TellJoined(w, v)
      /\ Calls(m) <=> TellJoined(w, v)
    BY <1>3 DEF News, Lists, Calls
<1>5. \E b \in BOOLEAN :
          /\ disturbed' = [disturbed EXCEPT ![v] = b]
          /\ disturbed[v] \/ Disturbs(v, r) => b
  <2>1. CASE TellLeft(w, v)
    <3>1. r = from[w]
        BY <1>3, <2>1 DEF News, TellLeft, TellGone
    <3> QED
        BY <2>1, <3>1 DEF TellLeft
  <2>2. CASE TellGone(w, v)
    <3>1. r = cleared[w]
        BY <1>3, <2>2 DEF News, TellLeft, TellGone
    <3> QED
        BY <2>2, <3>1 DEF TellGone
  <2>3. CASE TellJoined(w, v)
    <3>1. r = goal[w]
        BY <1>3, <2>3 DEF News
    <3> QED
        BY <2>3, <3>1 DEF TellJoined
  <2> QED
      BY <2>1, <2>2, <2>3 DEF News
<1>6. Enqueue(v, m)
    BY DEF News, TellLeft, TellGone, TellJoined
<1>7. UNCHANGED <<seat, handler, goal, from, snapshot, closer, cleared, page,
                  roomUsers, called, stranded>>
    BY DEF News, TellLeft, TellGone, TellJoined
<1>8. /\ \A u \in User \ {w} : pending'[u] = pending[u] /\ parting'[u] = parting[u]
      /\ \A u \in User \ {v} : /\ u \in pending'[w] <=> u \in pending[w]
                               /\ u \in parting'[w] <=> u \in parting[w]
  <2>1. \/ pending' = [pending EXCEPT ![w] = pending[w] \ {v}] /\ parting' = parting
        \/ parting' = [parting EXCEPT ![w] = parting[w] \ {v}] /\ pending' = pending
      BY DEF News, TellLeft, TellGone, TellJoined
  <2>2. Types
      OBVIOUS
  <2> QED
      BY ONLY <2>1, <2>2, OneIsTold
<1>9. \A u \in User \ {v} : SamePage(u) /\ SameHistory(u)
    BY <1>5, <1>6, <1>7 DEF Enqueue
<1>10. outbox'[v] = IF Connected(v) THEN Append(outbox[v], m) ELSE outbox[v]
    BY <1>6 DEF Enqueue
<1>11. /\ disturbed[v] => disturbed'[v]
       /\ Disturbs(v, r) => disturbed'[v]
    BY <1>5
<1>12. \A u \in User \ {w} : SameServer(u)
    BY <1>7, <1>8
<1> QED
    BY <1>1, <1>2, <1>4, <1>7, <1>8, <1>9, <1>10, <1>11, <1>12

\* What the news does to the view of the one that is told.
LEMMA ToldViews ==
    ASSUME Types, NEW w \in User, NEW v \in User, NEW m \in Message,
           NEW r \in Room, News(w, v, m, r)
    PROVE  /\ \A q : WillShow(v, q)' <=> WillShow(v, q)
           /\ \A u \in User \ {w} : /\ WillList(v, u)' <=> WillList(v, u)
                                    /\ WillCall(v, u)' <=> WillCall(v, u)
           /\ Connected(v) =>
                  /\ WillList(v, w)' <=> TellJoined(w, v)
                  /\ WillCall(v, w)' <=> TellJoined(w, v)
<1>1. CASE ~Connected(v)
  <2>1. SameViews(v)
      BY <1>1, Telling, UntouchedViews
  <2> QED
      BY <1>1, <2>1 DEF SameViews
<1>2. CASE Connected(v)
  <2>1. /\ ~Replaces(m) /\ m.user = w
        /\ outbox'[v] = Append(outbox[v], m) /\ page'[v] = page[v]
        /\ roomUsers'[v] = roomUsers[v] /\ called'[v] = called[v]
        /\ Lists(m, w) <=> TellJoined(w, v)
        /\ Calls(m) <=> TellJoined(w, v)
      BY <1>2, Telling
  <2>2. \A u : About(m, u) <=> u = w
      BY <2>1, AboutNobody
  <2>3. /\ \A q : WillShow(v, q)' <=> WillShow(v, q)
        /\ \A u \in User :
               IF About(m, u)
               THEN /\ WillList(v, u)' <=> Lists(m, u)
                    /\ WillCall(v, u)' <=> Calls(m)
               ELSE /\ WillList(v, u)' <=> WillList(v, u)
                    /\ WillCall(v, u)' <=> WillCall(v, u)
      BY <2>1, SentViews
  <2> QED
      BY <2>1, <2>2, <2>3
<1> QED
    BY <1>1, <1>2

\* A page that resets itself: a room or a list that is on its way to it comes
\* nevertheless.
LEMMA ResetViews ==
    ASSUME Types, NEW u \in User, ResetRoom(u), outbox'[u] = outbox[u]
    PROVE  /\ ~NoneAbout(outbox[u], Nobody) => SameViews(u)
           /\ outbox[u] = <<>> => /\ \A r : WillShow(u, r)' <=> r = NoRoom
                                  /\ \A v \in User : ~WillList(u, v)'
<1>1. page'[u] = NoRoom /\ roomUsers'[u] = {} /\ called'[u] = {}
    BY DEF ResetRoom, AfterRoomLeft, Types, PageOK
<1>2. ASSUME ~NoneAbout(outbox[u], Nobody)
      PROVE  SameViews(u)
  <2>1. \A v \in User : ~NoneAbout(outbox[u], v)
    <3>1. outbox[u] \in Seq(Message)
        BY DEF Types, OutboxOK
    <3>2. PICK i \in 1..Len(outbox[u]) : About(outbox[u][i], Nobody)
        BY <1>2 DEF NoneAbout
    <3>3. outbox[u][i] \in Message
        BY <3>1, <3>2
    <3> QED
        BY <3>2, <3>3, AboutNobody DEF NoneAbout
  <2> QED
      BY <1>2, <2>1 DEF SameViews, WillShow, WillList, WillCall
<1>3. ASSUME outbox[u] = <<>>
      PROVE  /\ \A r : WillShow(u, r)' <=> r = NoRoom
             /\ \A v \in User : ~WillList(u, v)'
  <2>1. outbox'[u] = <<>>
      BY <1>3
  <2>2. /\ \A r : WillShow(u, r)' <=> page'[u] = r
        /\ \A v \in User : WillList(u, v)' <=> v \in roomUsers'[u]
      BY <2>1, NothingAbout DEF WillShow, WillList
  <2> QED
      BY <1>1, <2>2
<1> QED
    BY <1>2, <1>3

\* Sending room_joined and room_left.
LEMMA RoomSent ==
    ASSUME Types, NEW u \in User, Connected(u)
    PROVE  /\ SendRoomJoined(u) =>
                  /\ \A r : WillShow(u, r)' <=> r = seat[u]
                  /\ \A v \in User : /\ WillList(u, v)' <=> v \in snapshot[u]
                                     /\ ~WillCall(u, v)'
           /\ LeftForLobby(u) =>
                  /\ \A r : WillShow(u, r)' <=> r = NoRoom
                  /\ \A v \in User : ~WillList(u, v)'
<1>1. ASSUME SendRoomJoined(u)
      PROVE  /\ \A r : WillShow(u, r)' <=> r = seat[u]
             /\ \A v \in User : /\ WillList(u, v)' <=> v \in snapshot[u]
                                /\ ~WillCall(u, v)'
  <2> DEFINE m == [type |-> "room_joined", room |-> goal[u], users |-> snapshot[u]]
  <2>1. /\ goal[u] \in Room /\ seat[u] = goal[u] /\ snapshot[u] \in SUBSET User
      BY <1>1 DEF SendRoomJoined, Types, ServerOK, Handling, Taken
  <2>2. m \in Message
      BY <2>1, MessageTypes
  <2>3. /\ outbox'[u] = Append(outbox[u], m) /\ page'[u] = page[u]
        /\ roomUsers'[u] = roomUsers[u] /\ called'[u] = called[u]
      BY <1>1 DEF SendRoomJoined, Enqueue, Types, OutboxOK, pageVars
  <2>4. /\ Replaces(m) /\ Shows(m) = seat[u] /\ ~Calls(m) /\ \A v : About(m, v)
        /\ \A v \in User : Lists(m, v) <=> v \in snapshot[u]
      BY <2>1 DEF Replaces, Shows, Calls, About, Lists
  <2> HIDE DEF m
  <2>5. /\ \A r : WillShow(u, r)' <=> Shows(m) = r
        /\ \A v \in User : /\ WillList(u, v)' <=> Lists(m, v)
                           /\ WillCall(u, v)' <=> Calls(m)
      BY <2>2, <2>3, <2>4, SentViews
  <2> QED
      BY <2>4, <2>5
<1>2. ASSUME LeftForLobby(u)
      PROVE  /\ \A r : WillShow(u, r)' <=> r = NoRoom
             /\ \A v \in User : ~WillList(u, v)'
  <2> DEFINE m == [type |-> "room_left"]
  <2>1. m \in Message
      BY MessageTypes
  <2>2. /\ outbox'[u] = Append(outbox[u], m) /\ page'[u] = page[u]
        /\ roomUsers'[u] = roomUsers[u] /\ called'[u] = called[u]
      BY <1>2 DEF LeftForLobby, Enqueue, Types, OutboxOK, pageVars
  <2>3. /\ Replaces(m) /\ Shows(m) = NoRoom /\ \A v : About(m, v) /\ ~Lists(m, v)
      BY DEF Replaces, Shows, About, Lists
  <2> HIDE DEF m
  <2>4. /\ \A r : WillShow(u, r)' <=> Shows(m) = r
        /\ \A v \in User : WillList(u, v)' <=> Lists(m, v)
      BY <2>1, <2>2, <2>3, SentViews
  <2> QED
      BY <2>3, <2>4
<1> QED
    BY <1>1, <1>2

-----------------------------------------------------------------------------
(***************************************************************************)
(* A page in no handler is going to show its seat.                         *)
(***************************************************************************)
Settled(u) == handler[u] \in {"idle", "announcing"} /\ Connected(u)

ShownInv(u) ==
    Settled(u) => \/ WillShow(u, seat[u])
                  \/ stranded[u] /\ seat[u] = NoRoom

\* A page without a connection that shows a room, or is about to, is stranded.
LostInv(u) ==
    ~Connected(u) /\ ~stranded[u] => outbox[u] = <<>> /\ page[u] = NoRoom

LEMMA LostStep ==
    ASSUME Types, NEW u \in User, LostInv(u), [Next]_vars
    PROVE  LostInv(u)'
<1> USE RoomViewsAssumption DEF Types, ServerOK, OutboxOK, PageOK, HistoryOK
<1>1. ASSUME stranded'[u] = stranded[u], closer'[u] = closer[u],
             SamePage(u)
      PROVE  LostInv(u)'
    BY <1>1 DEF LostInv, Connected, SamePage
<1>2. ASSUME Handles(u)
      PROVE  LostInv(u)'
  <2>1. SUFFICES ASSUME ~Connected(u), closer'[u] = closer[u]
                 PROVE  LostInv(u)'
      BY <1>2, HandlesKeeps DEF LostInv, Connected, closerVars
  <2>2. CASE Vacates(u)
    <3>1. PICK dest \in Room \cup {NoRoom} :
              /\ Vacate(u, dest)
              /\ dest = NoRoom => page[u] = seat[u] /\ ResetRoom(u)
              /\ dest # NoRoom => UNCHANGED pageVars
        BY <2>2, VacateServer
    <3>2. CASE dest = NoRoom
      <4>1. page[u] # NoRoom
          BY <2>2, <3>1, <3>2, VacateServer
      <4>2. stranded[u]
          BY <2>1, <4>1 DEF LostInv
      <4>3. stranded' = stranded
          BY <3>1 DEF Vacate, historyVars
      <4> QED
          BY <4>2, <4>3 DEF LostInv
    <3>3. CASE dest # NoRoom
        BY <1>1, <2>1, <3>1, <3>3 DEF Vacate, SamePage, pageVars, historyVars
    <3> QED
        BY <3>2, <3>3
  <2>3. CASE LeaveOtherRoom(u)
      BY <2>1, <2>3
      DEF LeaveOtherRoom, ResetRoom, AfterRoomLeft, LostInv, Connected
  <2>4. CASE JoinRefused(u)
      BY <2>4 DEF JoinRefused, LostInv
  <2>5. CASE Takes(u)
      BY <2>1, <2>5
      DEF Takes, OnRoomJoined, OnRoomLeft, OnUserJoined, OnUserLeft, NextMessage,
          LostInv, Connected, historyVars
  <2>6. CASE Join(u)
      BY <1>1, <2>1, <2>6 DEF Join, SamePage, pageVars
  <2>7. CASE LeftForLobby(u) \/ SendRoomJoined(u)
      BY <1>1, <2>1, <2>7
      DEF LeftForLobby, SendRoomJoined, Enqueue, SamePage, pageVars, historyVars
  <2>8. CASE (\E r \in Room : JoinFromLobby(u, r)) \/ LeftForJoin(u) \/ JoinDone(u)
      BY <1>1, <2>1, <2>8
      DEF JoinFromLobby, LeftForJoin, JoinDone, SamePage, pageVars, historyVars
  <2> QED
      BY <1>2, <2>2, <2>3, <2>4, <2>5, <2>6, <2>7, <2>8 DEF Handles
<1>3. ASSUME Shuts(u)
      PROVE  LostInv(u)'
  <2>1. CASE Close(u)
      BY <2>1 DEF Close, LostInv
  <2>2. CASE Lose(u)
      BY <2>2
      DEF Lose, LostInv, Connected, serverVars, closerVars, pageVars, historyVars
  <2>3. CASE LeaveUnheard(u)
      BY <2>3
      DEF LeaveUnheard, ResetRoom, AfterRoomLeft, LostInv, Connected, serverVars,
          closerVars
  <2>4. CASE Reconnect(u)
      BY <2>4 DEF Reconnect, LostInv, Connected
  <2>5. CASE Sweep(u) \/ Swept(u) \/ CleanedUp(u) \/ ReaderExit(u)
      BY <2>5
      DEF Sweep, Swept, CleanedUp, ReaderExit, LostInv, Connected, closerVars,
          pageVars, historyVars
  <2> QED
      BY <1>3, <2>1, <2>2, <2>3, <2>4, <2>5 DEF Shuts
<1>4. ASSUME NEW w \in User, w # u, Acts(w)
      PROVE  LostInv(u)'
    BY <1>1, <1>4, OthersKeepTheirs DEF SameServer, SameHistory
<1>5. ASSUME NEW w \in User, NEW x \in User, Tells(w, x)
      PROVE  LostInv(u)'
  <2>1. PICK m \in Message, r \in Room : News(w, x, m, r)
      BY <1>5, TellingNews
  <2>2. UNCHANGED <<closer, page, roomUsers, called, stranded>>
      BY <2>1, Telling
  <2>3. CASE x = u
    <3>1. ~Connected(u) => outbox'[u] = outbox[u]
        BY <2>1, <2>3, Telling
    <3> QED
        BY <2>2, <3>1 DEF LostInv, Connected
  <2>4. CASE x # u
    <3>1. SamePage(u)
        BY <2>1, <2>4, Telling
    <3> QED
        BY <1>1, <2>2, <3>1
  <2> QED
      BY <2>3, <2>4
<1>6. CASE UNCHANGED vars
    BY <1>1, <1>6
    DEF vars, serverVars, closerVars, pageVars, historyVars, SamePage
<1> QED
    BY <1>2, <1>3, <1>4, <1>5, <1>6, ActsOrTells DEF Acts

LEMMA ShownStep ==
    ASSUME Types, NEW u \in User, ShownInv(u), LostInv(u), [Next]_vars
    PROVE  ShownInv(u)'
<1> USE RoomViewsAssumption
<1>1. ASSUME Settled(u)' => Settled(u), stranded[u] => stranded'[u],
             seat'[u] = seat[u], \A r : WillShow(u, r)' <=> WillShow(u, r)
      PROVE  ShownInv(u)'
  <2>1. WillShow(u, seat[u])' <=> WillShow(u, seat[u])
      BY <1>1 DEF WillShow
  <2> QED
      BY <1>1, <2>1 DEF ShownInv
<1>2. ASSUME seat'[u] = NoRoom, \A r : WillShow(u, r)' <=> r = NoRoom
      PROVE  ShownInv(u)'
    BY <1>2 DEF ShownInv, WillShow
<1>3. ASSUME Handles(u), Connected(u)
      PROVE  ShownInv(u)'
  <2> USE DEF Types, ServerOK, HistoryOK
  <2>1. CASE Vacates(u)
      BY <2>1, VacateServer DEF Vacate, ShownInv, Settled
  <2>2. CASE \/ \E r \in Room : JoinFromLobby(u, r)
             \/ LeftForJoin(u) \/ Join(u)
      BY <2>2 DEF JoinFromLobby, LeftForJoin, Join, ShownInv, Settled
  <2>3. CASE LeaveOtherRoom(u)
    <3>1. /\ Settled(u) /\ ResetRoom(u) /\ outbox'[u] = outbox[u]
          /\ page[u] # seat[u] /\ seat'[u] = seat[u]
          /\ stranded'[u] = (stranded[u] /\ outbox[u] # <<>>)
        BY <1>3, <2>3 DEF LeaveOtherRoom, Frame, Settled, serverVars
    <3>2. CASE NoneAbout(outbox[u], Nobody)
      <4>1. ~WillShow(u, seat[u])
        <5>1. outbox[u] \in Seq(Message)
            BY DEF OutboxOK
        <5>2. \A m : ~LastAbout(outbox[u], Nobody, m)
            BY <3>2, <5>1, LastIsUnique
        <5> QED
            BY <3>1, <3>2, <5>2 DEF WillShow
      <4>2. stranded[u] /\ seat[u] = NoRoom
          BY <3>1, <4>1 DEF ShownInv
      <4>3. CASE outbox[u] = <<>>
        <5>1. \A r : WillShow(u, r)' <=> r = NoRoom
            BY <3>1, <4>3, ResetViews
        <5> QED
            BY <1>2, <3>1, <4>2, <5>1
      <4>4. CASE outbox[u] # <<>>
          BY <3>1, <4>2, <4>4 DEF ShownInv
      <4> QED
          BY <4>3, <4>4
    <3>3. CASE ~NoneAbout(outbox[u], Nobody)
      <4>1. outbox[u] # <<>>
          BY <3>3, NothingAbout
      <4>2. SameViews(u)
          BY <3>1, <3>3, ResetViews
      <4> QED
          BY <1>1, <3>1, <4>1, <4>2 DEF SameViews
    <3> QED
        BY <3>2, <3>3
  <2>4. CASE LeftForLobby(u)
    <3>1. seat'[u] = NoRoom
        BY <2>4 DEF LeftForLobby, Handling
    <3> QED
        BY <1>2, <1>3, <2>4, <3>1, RoomSent
  <2>5. CASE JoinRefused(u)
    <3>1. seat'[u] = NoRoom /\ stranded'[u]
        BY <2>5 DEF JoinRefused, Handling
    <3> QED
        BY <3>1 DEF ShownInv
  <2>6. CASE JoinDone(u) \/ Takes(u)
    <3>1. SameViews(u)
      <4>1. CASE Takes(u)
          BY <4>1, TakenViews
      <4>2. CASE JoinDone(u)
          BY <4>2, UntouchedViews DEF JoinDone, pageVars
      <4> QED
          BY <2>6, <4>1, <4>2
    <3>2. /\ seat'[u] = seat[u] /\ stranded'[u] = stranded[u]
          /\ Settled(u)' => Settled(u)
        BY <1>3, <2>6
        DEF JoinDone, Takes, OnRoomJoined, OnRoomLeft, OnUserJoined, OnUserLeft,
            Settled, serverVars, historyVars
    <3> QED
        BY <1>1, <3>1, <3>2 DEF SameViews
  <2>7. CASE SendRoomJoined(u)
    <3>1. /\ seat'[u] = seat[u]
          /\ \A r : WillShow(u, r)' <=> r = seat[u]
        BY <1>3, <2>7, RoomSent DEF SendRoomJoined
    <3> QED
        BY <3>1 DEF ShownInv, WillShow
  <2> QED
      BY <1>3, <2>1, <2>2, <2>3, <2>4, <2>5, <2>6, <2>7 DEF Handles
<1>4. ASSUME Handles(u), ~Connected(u)
      PROVE  ShownInv(u)'
    BY <1>4, HandlesKeeps DEF ShownInv, Settled, Connected, closerVars
<1>5. ASSUME Shuts(u)
      PROVE  ShownInv(u)'
  <2> USE DEF Types, ServerOK
  <2>1. CASE Reconnect(u)
    <3>1. /\ outbox[u] = <<>> /\ seat'[u] = NoRoom /\ SamePage(u)
          /\ stranded'[u] = stranded[u] /\ ~Connected(u)
        BY <2>1 DEF Reconnect, Connected, SamePage, pageVars, historyVars
    <3>2. SameViews(u)
        BY <3>1, UntouchedViews DEF SamePage
    <3>3. CASE stranded[u]
        BY <3>1, <3>3 DEF ShownInv
    <3>4. CASE ~stranded[u]
      <4>1. page[u] = NoRoom
          BY <3>1, <3>4 DEF LostInv
      <4>2. \A r : WillShow(u, r)' <=> r = NoRoom
          BY <3>1, <3>2, <4>1, NothingToTake DEF SameViews
      <4> QED
          BY <1>2, <3>1, <4>2
    <3> QED
        BY <3>3, <3>4
  <2>2. CASE ~Reconnect(u)
    <3>1. ~Connected(u)'
        BY <1>5, <2>2
        DEF Shuts, Close, Sweep, Swept, CleanedUp, ReaderExit, Lose, LeaveUnheard,
            Connected, serverVars, closerVars
    <3> QED
        BY <3>1 DEF ShownInv, Settled
  <2> QED
      BY <2>1, <2>2
<1>6. ASSUME NEW w \in User, w # u, Acts(w)
      PROVE  ShownInv(u)'
    BY <1>1, <1>6, OthersKeepTheirs, UntouchedViews
    DEF SamePage, SameHistory, SameServer, SameViews, Settled, Connected
<1>7. ASSUME NEW w \in User, NEW v \in User, Tells(w, v)
      PROVE  ShownInv(u)'
  <2>1. PICK m \in Message, r \in Room : News(w, v, m, r)
      BY <1>7, TellingNews
  <2>2. UNCHANGED <<seat, handler, closer, stranded>>
      BY <2>1, Telling
  <2>3. \A q : WillShow(u, q)' <=> WillShow(u, q)
    <3>1. CASE u = v
        BY <2>1, <3>1, ToldViews
    <3>2. CASE u # v
      <4>1. SamePage(u)
          BY <2>1, <3>2, Telling
      <4> QED
          BY <4>1, UntouchedViews DEF SamePage, SameViews
    <3> QED
        BY <3>1, <3>2
  <2> QED
      BY <1>1, <2>2, <2>3 DEF Settled, Connected
<1>8. CASE UNCHANGED vars
    BY <1>1, <1>8, UntouchedViews
    DEF vars, serverVars, closerVars, pageVars, historyVars, SameViews, Settled,
        Connected
<1> QED
    BY <1>3, <1>4, <1>5, <1>6, <1>7, <1>8, ActsOrTells DEF Acts

-----------------------------------------------------------------------------
(***************************************************************************)
(* An undisturbed page in a room is going to list the room's members, but  *)
(* for those about whom it has still to be told.                           *)
(***************************************************************************)
\* u will be told about v, and about the room it is in.
Going(v, u) == closer[v] = "telling" /\ u \in parting[v] /\ cleared[v] = seat[u]

Pending(v, u) ==
    \/ Coming(v, u) /\ goal[v] = seat[u]
    \/ handler[v] = "leaving" /\ u \in pending[v] /\ from[v] = seat[u]
    \/ Going(v, u)

\* Until room_joined is sent, the list is the snapshot.
Listed(u, v) == IF handler[u] = "entered" THEN v \in snapshot[u] ELSE WillList(u, v)

ListInv(u, v) ==
    ~disturbed[u] /\ seat[u] # NoRoom =>
        Pending(v, u) \/ (Listed(u, v) <=> seat[v] = seat[u])

LEMMA LeaveOtherViews ==
    ASSUME Types, NEW u \in User, Connected(u), ShownInv(u), LeaveOtherRoom(u)
    PROVE  /\ SameServer(u) /\ (disturbed[u] => disturbed'[u])
           /\ seat[u] # NoRoom => SameViews(u)
           /\ seat[u] = NoRoom /\ ~disturbed'[u] =>
                  \A v \in User : ~WillList(u, v)'
<1>1. /\ SameServer(u) /\ Settled(u) /\ ResetRoom(u) /\ outbox'[u] = outbox[u]
      /\ page[u] # seat[u]
      /\ disturbed'[u] = (disturbed[u] \/ (seat[u] = NoRoom /\ outbox[u] # <<>>))
    BY DEF LeaveOtherRoom, Frame, Settled, serverVars, closerVars, SameServer, Types,
           HistoryOK
<1>2. ASSUME seat[u] # NoRoom
      PROVE  SameViews(u)
  <2>1. WillShow(u, seat[u])
      BY <1>1, <1>2 DEF ShownInv
  <2>2. ~NoneAbout(outbox[u], Nobody)
    <3>1. outbox[u] \in Seq(Message)
        BY DEF Types, OutboxOK
    <3> QED
        BY <1>1, <2>1, <3>1, LastIsUnique DEF WillShow
  <2> QED
      BY <1>1, <2>2, ResetViews
<1>3. ASSUME seat[u] = NoRoom, ~disturbed'[u]
      PROVE  \A v \in User : ~WillList(u, v)'
    BY <1>1, <1>3, ResetViews
<1> QED
    BY <1>1, <1>2, <1>3

\* A reader's step on a connection that is up and stays up.
LEMMA UpHandles ==
    ASSUME Types, NEW u \in User, Acts(u), Connected(u), Connected(u)'
    PROVE  Handles(u) /\ UNCHANGED closerVars
<1>1. ~Shuts(u)
    BY DEF Shuts, Close, Sweep, Swept, CleanedUp, ReaderExit, Lose, LeaveUnheard,
           Reconnect, Connected, Types, ServerOK
<1> QED
    BY <1>1, HandlesKeeps DEF Acts

LEMMA ListActs ==
    ASSUME Types, NEW u \in User, NEW v \in User, u # v, ShownInv(u),
           ListInv(u, v), Acts(u), Connected(u), Connected(u)'
    PROVE  ListInv(u, v)'
<1> USE RoomViewsAssumption
<1>1. SameServer(v) /\ Handles(u)
    BY OthersKeepTheirs, UpHandles
<1>2. CASE seat'[u] = NoRoom
    BY <1>2 DEF ListInv
<1>3. CASE LeaveOtherRoom(u)
  <2>1. SameServer(u) /\ (disturbed[u] => disturbed'[u])
      BY <1>3, LeaveOtherViews
  <2>2. CASE seat[u] # NoRoom
    <3>1. SameViews(u)
        BY <1>3, <2>2, LeaveOtherViews
    <3> QED
        BY <1>1, <2>1, <3>1
        DEF ListInv, Pending, Coming, Going, Listed, SameServer, SameViews
  <2> QED
      BY <1>2, <2>1, <2>2 DEF SameServer
<1>4. CASE Join(u)
  <2>1. /\ seat'[u] = goal[u] /\ handler'[u] = "entered"
        /\ snapshot'[u] = Members(goal[u]) /\ goal[u] \in Room
      BY <1>4 DEF Join, Existing, Types, ServerOK, Handling
  <2>2. v \in snapshot'[u] <=> seat'[v] = seat'[u]
      BY <1>1, <2>1 DEF Members, SameServer
  <2> QED
      BY <2>1, <2>2 DEF ListInv, Listed
<1>5. CASE SendRoomJoined(u)
  <2>1. /\ seat'[u] = seat[u] /\ handler[u] = "entered"
        /\ handler'[u] = "announcing" /\ disturbed'[u] = disturbed[u]
      BY <1>5 DEF SendRoomJoined, Types, ServerOK, historyVars
  <2>2. Listed(u, v)' <=> Listed(u, v)
      BY <1>5, <2>1, RoomSent DEF Listed
  <2>3. Pending(v, u)' <=> Pending(v, u)
      BY <1>1, <2>1 DEF Pending, Coming, Going, SameServer
  <2> QED
      BY <1>1, <2>1, <2>2, <2>3 DEF ListInv, SameServer
<1>6. CASE JoinDone(u) \/ Takes(u)
  <2>1. /\ seat'[u] = seat[u] /\ disturbed'[u] = disturbed[u]
        /\ handler'[u] = "entered" <=> handler[u] = "entered"
        /\ handler[u] = "entered" => snapshot'[u] = snapshot[u]
      BY <1>6
      DEF JoinDone, Takes, OnRoomJoined, OnRoomLeft, OnUserJoined, OnUserLeft,
          serverVars, historyVars, Types, ServerOK
  <2>2. SameViews(u)
    <3>1. CASE JoinDone(u)
        BY <3>1, UntouchedViews DEF JoinDone, pageVars
    <3> QED
        BY <1>6, <3>1, TakenViews
  <2>3. Listed(u, v)' <=> Listed(u, v)
      BY <2>1, <2>2 DEF Listed, SameViews
  <2>4. Pending(v, u)' <=> Pending(v, u)
      BY <1>1, <2>1 DEF Pending, Coming, Going, SameServer
  <2> QED
      BY <1>1, <2>1, <2>3, <2>4 DEF ListInv, SameServer
<1>7. CASE Vacates(u)
  <2>1. seat'[u] = NoRoom
      BY <1>7, VacateServer DEF Vacate, Types, ServerOK
  <2> QED
      BY <1>2, <2>1
<1>8. CASE \/ \E r \in Room : JoinFromLobby(u, r)
           \/ LeftForJoin(u) \/ LeftForLobby(u) \/ JoinRefused(u)
  <2>1. seat'[u] = NoRoom
      BY <1>8
      DEF JoinFromLobby, LeftForJoin, LeftForLobby, JoinRefused, Types, ServerOK,
          Handling
  <2> QED
      BY <1>2, <2>1
<1> QED
    BY <1>1, <1>3, <1>4, <1>5, <1>6, <1>7, <1>8 DEF Handles

\* The other one comes, goes, or loses its seat to its closer.
LEMMA ListOtherActs ==
    ASSUME Types, NEW u \in User, NEW v \in User, u # v, ListInv(u, v), Acts(v)
    PROVE  ListInv(u, v)'
<1> USE RoomViewsAssumption
<1>1. SameServer(u) /\ disturbed'[u] = disturbed[u] /\ SameViews(u)
    BY OthersKeepTheirs, UntouchedViews DEF SamePage, SameHistory
<1>2. Listed(u, v)' <=> Listed(u, v)
    BY <1>1 DEF Listed, SameServer, SameViews
<1>3. ASSUME Pending(v, u) => Pending(v, u)', seat'[v] = seat[v]
      PROVE  ListInv(u, v)'
    BY <1>1, <1>2, <1>3 DEF ListInv, SameServer
<1>4. ASSUME Handles(v)
      PROVE  Going(v, u)' <=> Going(v, u)
    BY <1>1, <1>4, HandlesKeeps DEF Going, SameServer, closerVars
<1>5. CASE Vacates(v)
  <2>1. /\ handler[v] = "idle" /\ seat'[v] = NoRoom /\ handler'[v] = "leaving"
        /\ from'[v] = seat[v] /\ pending'[v] = Members(seat[v]) \ {v}
      BY <1>5, VacateServer DEF Vacate, Remaining, Types, ServerOK
  <2>2. Going(v, u)' <=> Going(v, u)
      BY <1>4, <1>5 DEF Handles
  <2>3. Pending(v, u) => Going(v, u)
      BY <2>1 DEF Pending, Coming
  <2>4. seat[v] = seat[u] => Pending(v, u)'
      BY <1>1, <2>1 DEF Pending, Members, SameServer
  <2>5. Going(v, u)' => Pending(v, u)'
      BY DEF Pending
  <2> QED
      BY <1>1, <1>2, <2>1, <2>2, <2>3, <2>4, <2>5 DEF ListInv, SameServer
<1>6. CASE Join(v)
  <2>1. /\ handler[v] = "joining" /\ seat[v] = NoRoom /\ seat'[v] = goal[v]
        /\ handler'[v] = "entered" /\ goal'[v] = goal[v]
        /\ snapshot'[v] = Members(goal[v])
      BY <1>6 DEF Join, Existing, Types, ServerOK, Handling
  <2>2. Going(v, u)' <=> Going(v, u)
      BY <1>4, <1>6 DEF Handles
  <2>3. Pending(v, u) => Going(v, u)
      BY <2>1 DEF Pending, Coming
  <2>4. goal[v] = seat[u] => Pending(v, u)'
      BY <1>1, <2>1 DEF Pending, Coming, Members, SameServer
  <2>5. Going(v, u)' => Pending(v, u)'
      BY DEF Pending
  <2> QED
      BY <1>1, <1>2, <2>1, <2>2, <2>3, <2>4, <2>5 DEF ListInv, SameServer
<1>7. CASE SendRoomJoined(v)
  <2>1. /\ handler[v] = "entered" /\ handler'[v] = "announcing"
        /\ pending'[v] = snapshot[v] /\ goal'[v] = goal[v] /\ seat'[v] = seat[v]
      BY <1>7 DEF SendRoomJoined, Types, ServerOK
  <2>2. Going(v, u)' <=> Going(v, u)
      BY <1>4, <1>7 DEF Handles
  <2> QED
      BY <1>1, <1>3, <2>1, <2>2 DEF Pending, Coming, SameServer
<1>8. CASE LeaveOtherRoom(v) \/ LeaveUnheard(v) \/ Lose(v) \/ Takes(v)
  <2>1. SameServer(v)
      BY <1>8
      DEF LeaveOtherRoom, LeaveUnheard, Lose, Takes, OnRoomJoined, OnRoomLeft,
          OnUserJoined, OnUserLeft, serverVars, closerVars, SameServer
  <2> QED
      BY <1>1, <1>3, <2>1 DEF Pending, Coming, Going, SameServer
<1>9. CASE \/ \E r \in Room : JoinFromLobby(v, r)
           \/ LeftForJoin(v) \/ LeftForLobby(v) \/ JoinRefused(v) \/ JoinDone(v)
  <2>1. seat'[v] = seat[v]
      BY <1>9
      DEF JoinFromLobby, LeftForJoin, LeftForLobby, JoinRefused, JoinDone
  <2>2. /\ handler[v] \notin {"entered"}
        /\ handler[v] \in {"leaving", "announcing"} => pending[v] = {}
      BY <1>9
      DEF JoinFromLobby, Frame, LeftForJoin, LeftForLobby, JoinRefused, JoinDone
  <2>3. Going(v, u)' <=> Going(v, u)
      BY <1>4, <1>9 DEF Handles
  <2> QED
      BY <1>3, <2>1, <2>2, <2>3 DEF Pending, Coming
<1>10. CASE Close(v) \/ ReaderExit(v) \/ Reconnect(v)
  <2>1. /\ seat'[v] = seat[v] /\ goal' = goal /\ from' = from
        /\ snapshot' = snapshot /\ pending' = pending
        /\ handler'[v] = handler[v] \/ handler[v] \in {"idle", "off"}
      BY <1>10 DEF Close, ReaderExit, Reconnect
  <2>2. Going(v, u) => Going(v, u)'
      BY <1>1, <1>10
      DEF Close, ReaderExit, Reconnect, Going, Connected, closerVars, SameServer
  <2> QED
      BY <1>1, <1>3, <2>1, <2>2 DEF Pending, Coming, SameServer
<1>11. CASE Swept(v) \/ CleanedUp(v)
  <2>1. UNCHANGED <<seat, handler, goal, from, snapshot, pending>> /\ ~Going(v, u)
      BY <1>11 DEF Swept, CleanedUp, Going
  <2> QED
      BY <1>1, <1>3, <2>1 DEF Pending, Coming, SameServer
<1>12. CASE Sweep(v)
  <2>1. /\ UNCHANGED <<handler, goal, from, snapshot, pending>>
        /\ seat'[v] = NoRoom /\ cleared'[v] = seat[v]
        /\ parting'[v] = Members(seat[v]) \ {v} /\ closer'[v] = "telling"
        /\ closer[v] = "cleaning"
      BY <1>12 DEF Sweep, Remaining, Types, ServerOK
  <2>2. seat[v] = seat[u] => Pending(v, u)'
      BY <1>1, <2>1 DEF Pending, Going, Members, SameServer
  <2>3. Pending(v, u) => Pending(v, u)'
      BY <1>1, <2>1 DEF Pending, Coming, Going, SameServer
  <2> QED
      BY <1>1, <1>2, <2>1, <2>2, <2>3 DEF ListInv, SameServer
<1> QED
    BY <1>5, <1>6, <1>7, <1>8, <1>9, <1>10, <1>11, <1>12 DEF Acts, Handles, Shuts

\* u is told of v itself.  A word that comes behind what it is about would disturb
\* it, unless the word that sets it right is still to come.
LEMMA ListTold ==
    ASSUME Types, NEW u \in User, NEW v \in User, u # v, Tells(v, u),
           Connected(u), ~disturbed'[u], seat[u] # NoRoom
    PROVE  Pending(v, u)' \/ (Listed(u, v)' <=> seat'[v] = seat'[u])
<1> USE RoomViewsAssumption
<1>1. PICK m \in Message, r \in Room : News(v, u, m, r)
    BY TellingNews
<1>2. /\ UNCHANGED <<seat, handler, goal, from, snapshot, closer, cleared>>
      /\ ~Disturbs(u, r)
    BY <1>1, Telling
<1>3. seat[u] = r /\ handler[u] # "entered"
    BY <1>2 DEF Disturbs
<1>4. Listed(u, v)' <=> TellJoined(v, u)
    BY <1>1, <1>2, <1>3, ToldViews DEF Listed
<1>5. /\ ~(TellJoined(v, u) /\ (TellLeft(v, u) \/ TellGone(v, u)))
      /\ ~(TellLeft(v, u) /\ TellGone(v, u))
    BY DEF TellJoined, TellLeft, TellGone, Types, ServerOK
<1>6. CASE TellLeft(v, u)
  <2>1. seat[v] = NoRoom
      BY <1>6 DEF TellLeft, Types, ServerOK, Handling
  <2> QED
      BY <1>2, <1>4, <1>5, <1>6, <2>1
<1>7. CASE TellGone(v, u)
  <2>1. /\ pending' = pending
        /\ seat[v] = cleared[v] => Coming(v, u)
    <3>1. disturbed' =
              [disturbed EXCEPT ![u] = \/ @ \/ Disturbs(u, cleared[v])
                                       \/ (seat[v] = cleared[v] /\ ~Coming(v, u))]
        BY <1>7 DEF TellGone
    <3>2. ASSUME seat[v] = cleared[v], ~Coming(v, u)
          PROVE  disturbed'[u]
      <4>1. disturbed' = [disturbed EXCEPT ![u] = TRUE]
          BY <3>1, <3>2
      <4> QED
          BY <4>1 DEF Types, HistoryOK
    <3> QED
        BY <1>7, <3>2 DEF TellGone
  <2>2. r = cleared[v]
      BY <1>1, <1>5, <1>7 DEF News
  <2>3. CASE seat[v] # cleared[v]
      BY <1>2, <1>3, <1>4, <1>5, <1>7, <2>1, <2>2, <2>3
  <2>4. CASE seat[v] = cleared[v]
    <3>1. Coming(v, u) /\ handler[v] \in {"entered", "announcing"}
        BY <2>1, <2>4 DEF Coming
    <3>2. goal[v] = seat[v]
        BY <1>3, <2>1, <2>4, <2>2, <3>1 DEF Types, ServerOK, Handling, Taken
    <3>3. Coming(v, u)'
        BY <1>2, <2>1, <3>1 DEF Coming
    <3> QED
        BY <1>2, <1>3, <2>1, <2>4, <2>2, <3>2, <3>3 DEF Pending
  <2> QED
      BY <2>3, <2>4
<1>8. CASE TellJoined(v, u)
  <2>1. /\ r = goal[v] /\ handler[v] = "announcing" /\ parting' = parting
        /\ disturbed'[u] <=> \/ disturbed[u] \/ Disturbs(u, goal[v])
                             \/ seat[v] # goal[v] /\ u \notin parting[v]
      BY <1>1, <1>5, <1>8 DEF News, TellJoined, Types, HistoryOK, closerVars
  <2>2. CASE seat[v] = goal[v]
      BY <1>2, <1>3, <1>4, <1>8, <2>1, <2>2
  <2>3. CASE seat[v] # goal[v]
    <3>1. u \in parting[v] /\ Taken(v)
        BY <2>1, <2>3 DEF Types, ServerOK, Handling
    <3>2. closer[v] = "telling" /\ cleared[v] = goal[v]
        BY <3>1 DEF Types, ServerOK, Clearing, Taken
    <3> QED
        BY <1>2, <1>3, <2>1, <3>1, <3>2 DEF Pending, Going
  <2> QED
      BY <2>2, <2>3
<1> QED
    BY <1>6, <1>7, <1>8 DEF Tells

LEMMA ListStep ==
    ASSUME Types, NEW u \in User, NEW v \in User, u # v, ShownInv(u),
           ListInv(u, v), [Next]_vars
    PROVE  ListInv(u, v)'
<1> USE RoomViewsAssumption
<1>1. ASSUME SameServer(u), SameServer(v), disturbed[u] => disturbed'[u],
             WillList(u, v)' <=> WillList(u, v)
      PROVE  ListInv(u, v)'
    BY <1>1 DEF ListInv, Pending, Coming, Going, Listed, SameServer
<1>2. CASE ~Connected(u) \/ ~Connected(u)'
    BY <1>2, LostStays DEF Types, ListInv
<1>3. ASSUME Acts(u), Connected(u), Connected(u)'
      PROVE  ListInv(u, v)'
    BY <1>3, ListActs
<1>4. ASSUME NEW w \in User \ {u, v}, Acts(w)
      PROVE  ListInv(u, v)'
  <2>1. SameServer(u) /\ SameServer(v) /\ SameHistory(u) /\ SameViews(u)
      BY <1>4, OthersKeepTheirs, UntouchedViews DEF SamePage
  <2> QED
      BY <1>1, <2>1 DEF SameHistory, SameViews
<1>5. ASSUME NEW w \in User, NEW x \in User, Tells(w, x), Connected(u)
      PROVE  ListInv(u, v)'
  <2>1. PICK m \in Message, r \in Room : News(w, x, m, r)
      BY <1>5, TellingNews
  <2>2. /\ UNCHANGED <<seat, handler, goal, from, snapshot, closer, cleared>>
        /\ disturbed[u] => disturbed'[u]
        /\ w # x
    <3>1. CASE x = u
        BY <2>1, <3>1, Telling
    <3>2. CASE x # u
        BY <2>1, <3>2, Telling DEF SameHistory
    <3> QED
        BY <3>1, <3>2
  <2>3. CASE x = u /\ w = v
      BY <1>5, <2>2, <2>3, ListTold DEF ListInv
  <2>4. CASE x = u /\ w # v
    <3>1. /\ SameServer(u) /\ SameServer(v)
          /\ WillList(u, v)' <=> WillList(u, v)
        BY <2>1, <2>2, <2>4, Telling, ToldViews
    <3> QED
        BY <1>1, <2>2, <3>1
  <2>5. CASE x # u
    <3>1. SamePage(u)
        BY <2>1, <2>5, Telling
    <3>2. Listed(u, v)' <=> Listed(u, v)
        BY <2>2, <3>1, UntouchedViews DEF Listed, SamePage, SameViews
    <3>3. /\ u \in pending'[v] <=> u \in pending[v]
          /\ u \in parting'[v] <=> u \in parting[v]
      <4>1. CASE w = v
          BY <2>1, <2>5, <4>1, Telling
      <4>2. CASE w # v
          BY <2>1, <4>2, Telling DEF SameServer
      <4> QED
          BY <4>1, <4>2
    <3>4. Pending(v, u)' <=> Pending(v, u)
        BY <2>2, <3>3 DEF Pending, Coming, Going
    <3> QED
        BY <2>2, <3>2, <3>4 DEF ListInv
  <2> QED
      BY <2>3, <2>4, <2>5
<1>6. CASE UNCHANGED vars
    BY <1>1, <1>6, UntouchedViews
    DEF vars, serverVars, closerVars, pageVars, historyVars, SameServer, SameViews
<1>7. ASSUME Acts(v)
      PROVE  ListInv(u, v)'
    BY <1>7, ListOtherActs
<1> QED
    BY <1>2, <1>3, <1>4, <1>5, <1>6, <1>7, ActsOrTells

(***************************************************************************)
(* An undisturbed page that is going to show no room lists nobody.  While  *)
(* its user leaves by the button, the confirmation is still to be sent.    *)
(***************************************************************************)
Confirms(u) == handler[u] = "leaving" /\ goal[u] = NoRoom

EmptyInv(u) ==
    ~disturbed[u] /\ seat[u] = NoRoom /\ ~Confirms(u) /\ WillShow(u, NoRoom) =>
        \A v \in User : ~WillList(u, v)

LEMMA EmptyStep ==
    ASSUME Types, NEW u \in User, ShownInv(u), EmptyInv(u), [Next]_vars
    PROVE  EmptyInv(u)'
<1> USE RoomViewsAssumption
<1>1. ASSUME seat'[u] = NoRoom => seat[u] = NoRoom,
             disturbed[u] => disturbed'[u],
             seat[u] = NoRoom /\ Confirms(u) => Confirms(u)', SameViews(u)
      PROVE  EmptyInv(u)'
  <2>1. WillShow(u, NoRoom)' <=> WillShow(u, NoRoom)
      BY <1>1 DEF SameViews
  <2> QED
      BY <1>1, <2>1 DEF EmptyInv, SameViews
<1>2. ASSUME \A v \in User : ~WillList(u, v)'
      PROVE  EmptyInv(u)'
    BY <1>2 DEF EmptyInv
<1>3. ASSUME Handles(u), Connected(u)
      PROVE  EmptyInv(u)'
  <2> USE DEF Types, ServerOK
  <2>1. CASE Vacates(u)
    <3>1. PICK dest \in Room \cup {NoRoom} :
              /\ Vacate(u, dest)
              /\ dest # NoRoom => UNCHANGED pageVars
        BY <2>1, VacateServer
    <3>2. /\ handler[u] = "idle" /\ seat[u] \in Room
        BY <2>1, VacateServer
    <3>3. handler'[u] = "leaving" /\ goal'[u] = dest
        BY <3>1 DEF Vacate
    <3>4. CASE dest = NoRoom
        BY <3>3, <3>4 DEF EmptyInv, Confirms
    <3>5. CASE dest # NoRoom
      <4>1. SameViews(u)
          BY <3>1, <3>5, UntouchedViews DEF Vacate, pageVars
      <4>2. WillShow(u, seat[u])
          BY <1>3, <3>2 DEF ShownInv, Settled
      <4>3. ~WillShow(u, NoRoom)
          BY <3>2, <4>2, OneRoomShown
      <4> QED
          BY <4>1, <4>3 DEF EmptyInv, SameViews
    <3> QED
        BY <3>4, <3>5
  <2>2. CASE LeaveOtherRoom(u)
    <3>1. CASE seat[u] = NoRoom
        BY <1>2, <1>3, <2>2, <3>1, LeaveOtherViews DEF EmptyInv
    <3>2. CASE seat[u] # NoRoom
        BY <1>3, <2>2, <3>2, LeaveOtherViews DEF EmptyInv, SameServer
    <3> QED
        BY <3>1, <3>2
  <2>3. CASE LeftForLobby(u)
      BY <1>2, <1>3, <2>3, RoomSent
  <2>4. CASE Join(u) \/ SendRoomJoined(u)
    <3>1. seat'[u] # NoRoom
        BY <1>3, <2>4, RoomViewsAssumption
        DEF Join, SendRoomJoined, Handling, Taken
    <3> QED
        BY <3>1 DEF EmptyInv
  <2>5. CASE \/ \E r \in Room : JoinFromLobby(u, r)
             \/ LeftForJoin(u) \/ JoinRefused(u) \/ JoinDone(u) \/ Takes(u)
    <3>1. SameViews(u)
      <4>1. CASE Takes(u)
          BY <4>1, TakenViews
      <4>2. CASE ~Takes(u)
          BY <2>5, <4>2, UntouchedViews
          DEF JoinFromLobby, LeftForJoin, JoinRefused, JoinDone, pageVars
      <4> QED
          BY <4>1, <4>2
    <3>2. seat'[u] = seat[u] /\ disturbed'[u] = disturbed[u]
        BY <2>5
        DEF JoinFromLobby, LeftForJoin, JoinRefused, JoinDone, Takes,
            OnRoomJoined, OnRoomLeft, OnUserJoined, OnUserLeft, serverVars,
            historyVars
    <3>3. Confirms(u) => Confirms(u)'
        BY <2>5
        DEF JoinFromLobby, Frame, LeftForJoin, JoinRefused, JoinDone,
            Takes, OnRoomJoined, OnRoomLeft, OnUserJoined, OnUserLeft, serverVars,
            Confirms
    <3> QED
        BY <1>1, <3>1, <3>2, <3>3
  <2> QED
      BY <1>3, <2>1, <2>2, <2>3, <2>4, <2>5 DEF Handles
<1>4. ASSUME NEW w \in User, w # u, Acts(w)
      PROVE  EmptyInv(u)'
    BY <1>1, <1>4, OthersKeepTheirs, UntouchedViews
    DEF SamePage, SameServer, SameHistory, Confirms
<1>5. ASSUME NEW w \in User, NEW x \in User, Tells(w, x)
      PROVE  EmptyInv(u)'
  <2>1. PICK m \in Message, r \in Room : News(w, x, m, r)
      BY <1>5, TellingNews
  <2>2. UNCHANGED <<seat, handler, goal>>
      BY <2>1, Telling
  <2>3. CASE x = u
    <3>1. CASE seat[u] = NoRoom
      <4>1. Disturbs(u, r)
          BY <3>1 DEF Disturbs
      <4> QED
          BY <2>1, <2>3, <4>1, Telling DEF EmptyInv
    <3>2. CASE seat[u] # NoRoom
        BY <2>2, <3>2 DEF EmptyInv
    <3> QED
        BY <3>1, <3>2
  <2>4. CASE x # u
    <3>1. SamePage(u) /\ SameHistory(u)
        BY <2>1, <2>4, Telling
    <3> QED
        BY <1>1, <2>2, <3>1, UntouchedViews DEF SamePage, SameHistory, Confirms
  <2> QED
      BY <2>3, <2>4
<1>6. CASE UNCHANGED vars
    BY <1>1, <1>6, UntouchedViews
    DEF vars, serverVars, pageVars, historyVars, Confirms
<1>7. CASE ~Connected(u) \/ ~Connected(u)'
    BY <1>7, LostStays DEF Types, EmptyInv
<1>8. ASSUME Acts(u), Connected(u), Connected(u)'
      PROVE  EmptyInv(u)'
    BY <1>3, <1>8, UpHandles
<1> QED
    BY <1>4, <1>5, <1>6, <1>7, <1>8, ActsOrTells

(***************************************************************************)
(* Of two undisturbed members of a room one is going to call the other, or *)
(* has still to be sent its user_joined.                                   *)
(***************************************************************************)
Calling(u, v) == handler[u] # "entered" /\ WillCall(u, v)

CallInv(u, v) ==
    seat[u] = seat[v] /\ seat[u] # NoRoom /\ ~disturbed[u] /\ ~disturbed[v] =>
        Calling(u, v) \/ Calling(v, u) \/ Coming(u, v) \/ Coming(v, u)

LEMMA CallKept ==
    ASSUME NEW u \in User, NEW v \in User, CallInv(u, v),
           seat'[u] = seat[u], seat'[v] = seat[v],
           disturbed[u] => disturbed'[u], disturbed[v] => disturbed'[v],
           Calling(u, v) => Calling(u, v)', Calling(v, u) => Calling(v, u)',
           Coming(u, v) => Coming(u, v)', Coming(v, u) => Coming(v, u)'
    PROVE  CallInv(u, v)'
BY DEF CallInv

LEMMA CallActs ==
    ASSUME Types, NEW u \in User, NEW v \in User, u # v, ShownInv(u),
           CallInv(u, v), Acts(u), Connected(u), Connected(u)'
    PROVE  CallInv(u, v)'
<1> USE RoomViewsAssumption
<1>1. SameServer(v) /\ disturbed'[v] = disturbed[v] /\ SameViews(v)
    BY OthersKeepTheirs, UntouchedViews DEF SamePage, SameHistory
<1>2. (Calling(v, u)' <=> Calling(v, u)) /\ (Coming(v, u)' <=> Coming(v, u))
    BY <1>1 DEF SameServer, SameViews, Calling, Coming
<1>3. CASE seat'[u] = NoRoom
    BY <1>3 DEF CallInv
<1>4. CASE LeaveOtherRoom(u)
  <2>1. SameServer(u) /\ (disturbed[u] => disturbed'[u])
      BY <1>4, LeaveOtherViews
  <2>2. CASE seat[u] # NoRoom
    <3>1. SameViews(u)
        BY <1>4, <2>2, LeaveOtherViews
    <3>2. (Calling(u, v)' <=> Calling(u, v)) /\ (Coming(u, v)' <=> Coming(u, v))
        BY <2>1, <3>1 DEF SameServer, SameViews, Calling, Coming
    <3> QED
        BY <1>1, <1>2, <2>1, <3>2, CallKept DEF SameServer
  <2> QED
      BY <1>3, <2>1, <2>2 DEF SameServer
<1>5. CASE Join(u)
  <2>1. /\ seat'[u] = goal[u] /\ handler'[u] = "entered" /\ seat[u] = NoRoom
        /\ snapshot'[u] = Members(goal[u]) /\ goal[u] \in Room
      BY <1>5 DEF Join, Existing, Types, ServerOK, Handling
  <2>2. seat'[v] = seat'[u] => Coming(u, v)'
      BY <1>1, <2>1 DEF Members, Coming, SameServer
  <2> QED
      BY <2>2 DEF CallInv
<1>6. CASE SendRoomJoined(u)
  <2>1. /\ seat'[u] = seat[u] /\ disturbed'[u] = disturbed[u]
        /\ handler[u] = "entered" /\ handler'[u] = "announcing"
        /\ pending'[u] = snapshot[u]
      BY <1>6 DEF SendRoomJoined, historyVars, Types, ServerOK
  <2>2. ~Calling(u, v) /\ (Coming(u, v) => Coming(u, v)')
      BY <2>1 DEF Calling, Coming
  <2> QED
      BY <1>1, <1>2, <2>1, <2>2, CallKept DEF SameServer
<1>7. CASE JoinDone(u) \/ Takes(u)
  <2>1. /\ seat'[u] = seat[u] /\ disturbed'[u] = disturbed[u]
        /\ handler'[u] = "entered" => handler[u] = "entered"
        /\ Coming(u, v) => Coming(u, v)'
      BY <1>7
      DEF JoinDone, Takes, OnRoomJoined, OnRoomLeft, OnUserJoined, OnUserLeft,
          serverVars, historyVars, Types, ServerOK, Coming
  <2>2. SameViews(u)
    <3>1. CASE JoinDone(u)
        BY <3>1, UntouchedViews DEF JoinDone, pageVars
    <3> QED
        BY <1>7, <3>1, TakenViews
  <2>3. Calling(u, v) => Calling(u, v)'
      BY <2>1, <2>2 DEF Calling, SameViews
  <2> QED
      BY <1>1, <1>2, <2>1, <2>3, CallKept DEF SameServer
<1>8. CASE Vacates(u)
  <2>1. seat'[u] = NoRoom
      BY <1>8, VacateServer DEF Vacate, Types, ServerOK
  <2> QED
      BY <1>3, <2>1
<1>9. CASE \/ \E r \in Room : JoinFromLobby(u, r)
           \/ LeftForJoin(u) \/ LeftForLobby(u) \/ JoinRefused(u)
  <2>1. seat'[u] = NoRoom
      BY <1>9
      DEF JoinFromLobby, LeftForJoin, LeftForLobby, JoinRefused, Types, ServerOK,
          Handling
  <2> QED
      BY <1>3, <2>1
<1>10. Handles(u)
    BY UpHandles
<1> QED
    BY <1>4, <1>5, <1>6, <1>7, <1>8, <1>9, <1>10 DEF Handles

\* The news reaches one of the two, or neither.
LEMMA CallTells ==
    ASSUME Types, NEW u \in User, NEW v \in User, u # v, CallInv(u, v),
           NEW w \in User, NEW x \in User, Tells(w, x), x # v,
           Connected(u), Connected(v)
    PROVE  CallInv(u, v)'
<1> USE RoomViewsAssumption
<1>1. PICK m \in Message, r \in Room : News(w, x, m, r)
    BY TellingNews
<1>2. /\ UNCHANGED <<seat, handler, goal, snapshot>>
      /\ w # x
      /\ disturbed[u] => disturbed'[u]
      /\ SamePage(v) /\ disturbed'[v] = disturbed[v]
  <2>1. SamePage(v) /\ SameHistory(v)
      BY <1>1, Telling
  <2>2. disturbed[u] => disturbed'[u]
    <3>1. CASE x = u
        BY <1>1, <3>1, Telling
    <3>2. CASE x # u
        BY <1>1, <3>2, Telling DEF SameHistory
    <3> QED
        BY <3>1, <3>2
  <2> QED
      BY <1>1, <2>1, <2>2, Telling DEF SameHistory
<1>3. Calling(v, u)' <=> Calling(v, u)
    BY <1>2, UntouchedViews DEF SamePage, SameViews, Calling
<1>4. Coming(u, v)' <=> Coming(u, v)
  <2>1. v \in pending'[u] <=> v \in pending[u]
    <3>1. CASE u = w
        BY <1>1, <3>1, Telling
    <3>2. CASE u # w
        BY <1>1, <3>2, Telling DEF SameServer
    <3> QED
        BY <3>1, <3>2
  <2> QED
      BY <1>2, <2>1 DEF Coming
<1>5. CASE x = u /\ w = v
  <2>1. SUFFICES ASSUME ~disturbed'[u], seat[u] # NoRoom, seat[v] = seat[u]
                 PROVE  Calling(u, v)'
      BY <1>2 DEF CallInv
  <2>2. ~Disturbs(u, r)
      BY <1>1, <1>5, <2>1, Telling
  <2>3. handler[u] # "entered"
      BY <2>2 DEF Disturbs
  <2>4. TellJoined(v, u)
    <3>1. ~TellLeft(v, u)
        BY <2>1 DEF TellLeft, Types, ServerOK, Handling
    <3>2. ~TellGone(v, u)
        BY DEF TellGone, Connected
    <3> QED
        BY <1>5, <3>1, <3>2 DEF Tells
  <2>5. WillCall(u, v)'
      BY <1>1, <1>5, <2>4, ToldViews
  <2> QED
      BY <1>2, <2>3, <2>5 DEF Calling
<1>6. CASE ~(x = u /\ w = v)
  <2>1. Calling(u, v)' <=> Calling(u, v)
    <3>1. WillCall(u, v)' <=> WillCall(u, v)
      <4>1. CASE x = u
          BY <1>1, <1>6, <4>1, ToldViews
      <4>2. CASE x # u
        <5>1. SamePage(u)
            BY <1>1, <4>2, Telling
        <5> QED
            BY <5>1, UntouchedViews DEF SamePage, SameViews
      <4> QED
          BY <4>1, <4>2
    <3> QED
        BY <1>2, <3>1 DEF Calling
  <2>2. Coming(v, u)' <=> Coming(v, u)
    <3>1. u \in pending'[v] <=> u \in pending[v]
      <4>1. CASE v = w
          BY <1>1, <1>6, <4>1, Telling
      <4>2. CASE v # w
          BY <1>1, <4>2, Telling DEF SameServer
      <4> QED
          BY <4>1, <4>2
    <3> QED
        BY <1>2, <3>1 DEF Coming
  <2> QED
      BY <1>2, <1>3, <1>4, <2>1, <2>2, CallKept
<1> QED
    BY <1>5, <1>6

LEMMA CallStep ==
    ASSUME Types, NEW u \in User, NEW v \in User, u # v, ShownInv(u), ShownInv(v),
           CallInv(u, v), [Next]_vars
    PROVE  CallInv(u, v)'
<1>1. (CallInv(u, v) <=> CallInv(v, u)) /\ (CallInv(u, v)' <=> CallInv(v, u)')
    BY DEF CallInv
<1>2. ASSUME Acts(u) \/ Acts(v), Connected(u), Connected(u)',
             Connected(v), Connected(v)'
      PROVE  CallInv(u, v)'
    BY <1>1, <1>2, CallActs
<1>3. ASSUME SameServer(u), SameServer(v), SamePage(u), SamePage(v),
             disturbed'[u] = disturbed[u], disturbed'[v] = disturbed[v]
      PROVE  CallInv(u, v)'
  <2>1. SameViews(u) /\ SameViews(v)
      BY <1>3, UntouchedViews DEF SamePage
  <2>2. /\ Calling(u, v) => Calling(u, v)'
        /\ Calling(v, u) => Calling(v, u)'
        /\ Coming(u, v) => Coming(u, v)'
        /\ Coming(v, u) => Coming(v, u)'
      BY <1>3, <2>1 DEF SameServer, SameViews, Calling, Coming
  <2> QED
      BY <1>3, <2>2, CallKept DEF SameServer
<1>4. ASSUME NEW w \in User \ {u, v}, Acts(w)
      PROVE  CallInv(u, v)'
    BY <1>3, <1>4, OthersKeepTheirs DEF SameHistory
<1>5. ASSUME NEW w \in User, NEW x \in User, Tells(w, x), Connected(u), Connected(v)
      PROVE  CallInv(u, v)'
    BY <1>1, <1>5, CallTells
<1>6. CASE UNCHANGED vars
    BY <1>3, <1>6
    DEF vars, serverVars, closerVars, pageVars, historyVars, SameServer, SamePage
<1>7. CASE \/ ~Connected(u) \/ ~Connected(u)'
           \/ ~Connected(v) \/ ~Connected(v)'
    BY <1>7, LostStays DEF Types, CallInv
<1> QED
    BY <1>2, <1>4, <1>5, <1>6, <1>7, ActsOrTells

-----------------------------------------------------------------------------
ViewsInv ==
    \A u \in User :
        /\ LostInv(u) /\ ShownInv(u) /\ EmptyInv(u)
        /\ \A v \in User \ {u} : ListInv(u, v) /\ CallInv(u, v)

LEMMA ViewsInvariant == Spec => []ViewsInv
<1>1. Init => ViewsInv
  <2>1. ASSUME Init, NEW u \in User
        PROVE  /\ outbox[u] = <<>> /\ page[u] = NoRoom /\ seat[u] = NoRoom
               /\ roomUsers[u] = {} /\ Connected(u)
      BY <2>1 DEF Init, Connected
  <2> QED
      BY <2>1, NothingToTake
      DEF ViewsInv, LostInv, ShownInv, EmptyInv, ListInv, CallInv
<1>2. Types /\ ViewsInv /\ [Next]_vars => ViewsInv'
    BY LostStep, ShownStep, EmptyStep, ListStep, CallStep DEF ViewsInv
<1> QED
    BY <1>1, <1>2, TypesInvariant, PTL DEF Spec

\* Once the messages have arrived, a page shows the room in which the hub seats
\* its user, unless the user's last join was refused, its connection was lost, or
\* the reader of the lost connection took a seat behind its clean-up (hub.go's
\* join, leave and disconnect handlers, app.js's handlers of their messages).
THEOREM PagesShowTheirSeat == Spec => []PageInItsSeat
<1>1. ASSUME Types, ViewsInv
      PROVE  PageInItsSeat
  <2>1. ASSUME Quiet, NEW u \in User
        PROVE  \/ page[u] = seat[u]
               \/ stranded[u] /\ seat[u] = NoRoom
               \/ closer[u] = "done" /\ seat[u] # NoRoom
    <3>1. outbox[u] = <<>> /\ closer[u] \in {"no", "done"}
        BY <2>1 DEF Quiet
    <3>2. CASE Settled(u)
      <4>1. WillShow(u, seat[u]) => page[u] = seat[u]
          BY <3>1, NothingToTake
      <4> QED
          BY <1>1, <2>1, <3>2, <4>1 DEF ViewsInv, ShownInv
    <3>3. CASE ~Connected(u)
      <4>1. closer[u] = "done"
          BY <3>1, <3>3 DEF Connected
      <4>2. stranded[u] \/ page[u] = NoRoom
          BY <1>1, <2>1, <3>3 DEF ViewsInv, LostInv
      <4> QED
          BY <4>1, <4>2
    <3>4. Connected(u) => Settled(u)
        BY <1>1, <2>1 DEF Quiet, Settled, Types, ServerOK, Handling
    <3> QED
        BY <3>2, <3>3, <3>4
  <2> QED
      BY <2>1 DEF PageInItsSeat
<1> QED
    BY <1>1, TypesInvariant, ViewsInvariant, PTL

\* Once the messages have arrived, a page that no late or overtaking message
\* touched lists exactly the other members of its room (app.js's roomUsers against
\* the hub's clients map).
THEOREM UndisturbedPagesListMembers == Spec => []UndisturbedSeesMembers
<1>1. ASSUME Types, ViewsInv
      PROVE  UndisturbedSeesMembers
  <2>1. SUFFICES ASSUME Quiet, NEW u \in User, ~disturbed[u], page[u] = seat[u]
                 PROVE  roomUsers[u] = Others(u)
      BY DEF UndisturbedSeesMembers
  <2>2. /\ outbox[u] = <<>> /\ roomUsers[u] \subseteq User /\ u \notin roomUsers[u]
        /\ \A v \in User : /\ handler[v] \in {"idle", "off"}
                           /\ closer[v] \in {"no", "done"}
      BY <1>1, <2>1 DEF Quiet, Types, PageOK
  <2>3. CASE seat[u] = NoRoom
    <3>1. WillShow(u, NoRoom) /\ ~Confirms(u)
        BY <2>1, <2>2, <2>3, NothingToTake DEF Confirms
    <3>2. \A v \in User : ~WillList(u, v)
        BY <1>1, <2>1, <2>3, <3>1 DEF ViewsInv, EmptyInv
    <3> QED
        BY <2>2, <2>3, <3>2, NothingToTake DEF Others
  <2>4. CASE seat[u] # NoRoom
    <3>1. ASSUME NEW v \in User, v # u
          PROVE  v \in roomUsers[u] <=> seat[v] = seat[u]
      <4>1. ListInv(u, v) /\ ~Pending(v, u)
          BY <1>1, <2>2, <3>1 DEF ViewsInv, Pending, Coming, Going
      <4>2. Listed(u, v) <=> v \in roomUsers[u]
          BY <2>2, NothingToTake DEF Listed
      <4> QED
          BY <2>1, <2>4, <4>1, <4>2 DEF ListInv
    <3> QED
        BY <2>2, <2>4, <3>1 DEF Others, Members
  <2> QED
      BY <2>3, <2>4
<1> QED
    BY <1>1, TypesInvariant, ViewsInvariant, PTL

\* Of two undisturbed members of a room, at least one makes an offer to the other
\* (webrtc.js's initiatePeer, called for every user_joined).
THEOREM SomebodyCalls == Spec => []UndisturbedAreCalled
<1>1. ASSUME ViewsInv
      PROVE  UndisturbedAreCalled
  <2>1. SUFFICES ASSUME Quiet, NEW u \in User, NEW v \in User, u # v,
                        seat[u] # NoRoom, seat[u] = seat[v],
                        ~disturbed[u], ~disturbed[v]
                 PROVE  v \in called[u] \/ u \in called[v]
      BY DEF UndisturbedAreCalled
  <2>2. /\ outbox[u] = <<>> /\ outbox[v] = <<>>
        /\ handler[u] \in {"idle", "off"} /\ handler[v] \in {"idle", "off"}
      BY <2>1 DEF Quiet
  <2>3. CallInv(u, v) /\ ~Coming(u, v) /\ ~Coming(v, u)
      BY <1>1, <2>1, <2>2 DEF ViewsInv, Coming
  <2>4. Calling(u, v) \/ Calling(v, u)
      BY <2>1, <2>3 DEF CallInv
  <2> QED
      BY <2>2, <2>4, NothingToTake DEF Calling
<1> QED
    BY <1>1, ViewsInvariant, PTL

=============================================================================
