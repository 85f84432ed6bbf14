----------------------------- MODULE ChatProofs -----------------------------
(***************************************************************************)
(* For any users and any size of the history: the pages show every message *)
(* once, those of an author in their order, and the table keeps the newest *)
(* rows.                                                                   *)
(***************************************************************************)
EXTENDS Chat, FiniteSetTheorems, TLAPS

Event == HistoryEvent \cup TextEvent

(***************************************************************************)
(* How often a message is in what a page shows, and in what is on its way. *)
(***************************************************************************)
NotIn(s, m) == \A i \in 1..Len(s) : s[i] # m

OnceIn(s, m) == \E i \in 1..Len(s) :
    s[i] = m /\ \A j \in 1..Len(s) : s[j] = m => j = i

IsText(e, m) == e.type = "text_message" /\ e.message = m

IsReset(e) == e.type = "room_joined"

NoText(s, m) == \A k \in 1..Len(s) : ~IsText(s[k], m)

OneText(s, m) == \E k \in 1..Len(s) :
    IsText(s[k], m) /\ \A l \in 1..Len(s) : IsText(s[l], m) => l = k

NoReset(s) == \A k \in 1..Len(s) : ~IsReset(s[k])

\* The page is going to show the message once, by the last room_joined.
HistoryTells(s, m) == \E k \in 1..Len(s) :
    /\ IsReset(s[k]) /\ OnceIn(s[k].entries, m)
    /\ \A l \in 1..Len(s) : l > k => ~IsReset(s[l]) /\ ~IsText(s[l], m)

LEMMA EventTypes ==
    /\ \A e \in Event :
           /\ e.type \in {"room_joined", "text_message"}
           /\ e.type = "room_joined" => e.entries \in Seq(Message)
           /\ e.type = "text_message" => e.message \in Message
    /\ \A s \in Seq(Message) : [type |-> "room_joined", entries |-> s] \in Event
    /\ \A m \in Message : [type |-> "text_message", message |-> m] \in Event
BY DEF Event, HistoryEvent, TextEvent

LEMMA AppendIndex ==
    ASSUME NEW S, NEW s \in Seq(S), NEW e \in S
    PROVE  /\ Append(s, e) \in Seq(S)
           /\ Len(s) \in Nat /\ Len(Append(s, e)) = Len(s) + 1
           /\ Len(s) + 1 \in 1..Len(Append(s, e)) /\ Append(s, e)[Len(s) + 1] = e
           /\ \A i \in 1..Len(s) : i \in 1..Len(Append(s, e)) /\ i < Len(s) + 1
                                   /\ Append(s, e)[i] = s[i]
           /\ \A i \in 1..Len(Append(s, e)) : i \in 1..Len(s) \/ i = Len(s) + 1
OBVIOUS

LEMMA TailIndex ==
    ASSUME NEW S, NEW s \in Seq(S), s # <<>>
    PROVE  /\ Tail(s) \in Seq(S) /\ Head(s) \in S
           /\ 1 \in 1..Len(s) /\ s[1] = Head(s)
           /\ \A i \in 1..Len(Tail(s)) : /\ i + 1 \in 1..Len(s) /\ i + 1 > 1
                                         /\ Tail(s)[i] = s[i + 1]
           /\ \A i \in 1..Len(s) :
                  i = 1 \/ (i - 1 \in 1..Len(Tail(s)) /\ Tail(s)[i - 1] = s[i])
OBVIOUS

\* A page adds a message.
LEMMA ShownAfterAppend ==
    ASSUME NEW s \in Seq(Message), NEW x \in Message, NEW m
    PROVE  /\ x # m /\ NotIn(s, m) => NotIn(Append(s, x), m)
           /\ x # m /\ OnceIn(s, m) => OnceIn(Append(s, x), m)
           /\ x = m /\ NotIn(s, m) => OnceIn(Append(s, x), m)
<1> DEFINE t == Append(s, x)
<1>1. /\ Len(s) + 1 \in 1..Len(t) /\ t[Len(s) + 1] = x
      /\ \A i \in 1..Len(s) : i \in 1..Len(t) /\ t[i] = s[i]
      /\ \A i \in 1..Len(t) : i \in 1..Len(s) \/ i = Len(s) + 1
    BY AppendIndex
<1> HIDE DEF t
<1>2. x # m /\ NotIn(s, m) => NotIn(t, m)
    BY <1>1 DEF NotIn
<1>3. x # m /\ OnceIn(s, m) => OnceIn(t, m)
    BY <1>1 DEF OnceIn
<1>4. x = m /\ NotIn(s, m) => OnceIn(t, m)
    BY <1>1 DEF OnceIn, NotIn
<1> QED
    BY <1>2, <1>3, <1>4 DEF t

\* An event is sent.
LEMMA SentEvent ==
    ASSUME NEW s \in Seq(Event), NEW e \in Event, NEW m
    PROVE  /\ ~IsText(e, m) /\ NoText(s, m) => NoText(Append(s, e), m)
           /\ ~IsText(e, m) /\ OneText(s, m) => OneText(Append(s, e), m)
           /\ IsText(e, m) /\ NoText(s, m) => OneText(Append(s, e), m)
           /\ ~IsReset(e) /\ NoReset(s) => NoReset(Append(s, e))
           /\ ~IsReset(e) /\ ~IsText(e, m) /\ HistoryTells(s, m)
                  => HistoryTells(Append(s, e), m)
           /\ IsReset(e) /\ OnceIn(e.entries, m) => HistoryTells(Append(s, e), m)
<1> DEFINE t == Append(s, e)
<1>1. /\ Len(s) \in Nat /\ Len(t) = Len(s) + 1
      /\ Len(s) + 1 \in 1..Len(t) /\ t[Len(s) + 1] = e
      /\ \A i \in 1..Len(s) : i \in 1..Len(t) /\ t[i] = s[i]
      /\ \A i \in 1..Len(t) : i \in 1..Len(s) \/ i = Len(s) + 1
    BY AppendIndex
<1> HIDE DEF t
<1>2. ~IsText(e, m) /\ NoText(s, m) => NoText(t, m)
    BY <1>1 DEF NoText
<1>3. ~IsText(e, m) /\ OneText(s, m) => OneText(t, m)
    BY <1>1 DEF OneText
<1>4. IsText(e, m) /\ NoText(s, m) => OneText(t, m)
    BY <1>1 DEF OneText, NoText
<1>5. ~IsReset(e) /\ NoReset(s) => NoReset(t)
    BY <1>1 DEF NoReset
<1>6. ASSUME ~IsReset(e), ~IsText(e, m), HistoryTells(s, m)
      PROVE  HistoryTells(t, m)
  <2>1. PICK k \in 1..Len(s) :
            /\ IsReset(s[k]) /\ OnceIn(s[k].entries, m)
            /\ \A l \in 1..Len(s) : l > k => ~IsReset(s[l]) /\ ~IsText(s[l], m)
      BY <1>6 DEF HistoryTells
  <2>2. k \in 1..Len(t) /\ t[k] = s[k]
      BY <1>1
  <2>3. \A l \in 1..Len(t) : l > k => ~IsReset(t[l]) /\ ~IsText(t[l], m)
      BY <1>1, <1>6, <2>1
  <2> QED
      BY <2>1, <2>2, <2>3 DEF HistoryTells
<1>7. ASSUME IsReset(e), OnceIn(e.entries, m)
      PROVE  HistoryTells(t, m)
  <2>1. \A l \in 1..Len(t) : ~(l > Len(s) + 1)
      BY <1>1
  <2> QED
      BY <1>1, <1>7, <2>1 DEF HistoryTells
<1> QED
    BY <1>2, <1>3, <1>4, <1>5, <1>6, <1>7 DEF t

\* The page takes an event.
LEMMA TakenEvent ==
    ASSUME NEW s \in Seq(Event), s # <<>>, NEW m
    PROVE  /\ NoText(s, m) => NoText(Tail(s), m) /\ ~IsText(Head(s), m)
           /\ OneText(s, m) => IF IsText(Head(s), m) THEN NoText(Tail(s), m)
                                                     ELSE OneText(Tail(s), m)
           /\ NoReset(s) => NoReset(Tail(s)) /\ ~IsReset(Head(s))
           /\ HistoryTells(s, m) =>
                  \/ HistoryTells(Tail(s), m)
                  \/ /\ IsReset(Head(s)) /\ OnceIn(Head(s).entries, m)
                     /\ NoReset(Tail(s)) /\ NoText(Tail(s), m)
<1> DEFINE t == Tail(s)
           h == Head(s)
<1>1. /\ 1 \in 1..Len(s) /\ s[1] = h
      /\ \A i \in 1..Len(t) : i + 1 \in 1..Len(s) /\ i + 1 > 1 /\ t[i] = s[i + 1]
      /\ \A i \in 1..Len(s) : i = 1 \/ (i - 1 \in 1..Len(t) /\ t[i - 1] = s[i])
    BY TailIndex
<1> HIDE DEF t, h
<1>2. NoText(s, m) => NoText(t, m) /\ ~IsText(h, m)
    BY <1>1 DEF NoText
<1>3. ASSUME OneText(s, m)
      PROVE  IF IsText(h, m) THEN NoText(t, m) ELSE OneText(t, m)
  <2>1. PICK k \in 1..Len(s) :
            IsText(s[k], m) /\ \A l \in 1..Len(s) : IsText(s[l], m) => l = k
      BY <1>3 DEF OneText
  <2>2. CASE IsText(h, m)
    <3>1. k = 1
        BY <1>1, <2>1, <2>2
    <3>2. \A i \in 1..Len(t) : ~IsText(t[i], m)
        BY <1>1, <2>1, <3>1
    <3> QED
        BY <2>2, <3>2 DEF NoText
  <2>3. CASE ~IsText(h, m)
    <3>1. k - 1 \in 1..Len(t) /\ t[k - 1] = s[k]
        BY <1>1, <2>1, <2>3
    <3>2. ASSUME NEW i \in 1..Len(t), IsText(t[i], m)
          PROVE  i = k - 1
      <4>1. i + 1 = k
          BY <1>1, <2>1, <3>2
      <4> QED
          BY <4>1
    <3> QED
        BY <2>1, <2>3, <3>1, <3>2 DEF OneText
  <2> QED
      BY <2>2, <2>3
<1>4. NoReset(s) => NoReset(t) /\ ~IsReset(h)
    BY <1>1 DEF NoReset
<1>5. ASSUME HistoryTells(s, m)
      PROVE  \/ HistoryTells(t, m)
             \/ /\ IsReset(h) /\ OnceIn(h.entries, m)
                /\ NoReset(t) /\ NoText(t, m)
  <2>1. PICK k \in 1..Len(s) :
            /\ IsReset(s[k]) /\ OnceIn(s[k].entries, m)
            /\ \A l \in 1..Len(s) : l > k => ~IsReset(s[l]) /\ ~IsText(s[l], m)
      BY <1>5 DEF HistoryTells
  <2>2. CASE k = 1
    <3>1. \A i \in 1..Len(t) : ~IsReset(t[i]) /\ ~IsText(t[i], m)
        BY <1>1, <2>1, <2>2
    <3> QED
        BY <1>1, <2>1, <2>2, <3>1 DEF NoReset, NoText
  <2>3. CASE k # 1
    <3>1. k - 1 \in 1..Len(t) /\ t[k - 1] = s[k]
        BY <1>1, <2>3
    <3>2. ASSUME NEW i \in 1..Len(t), i > k - 1
          PROVE  ~IsReset(t[i]) /\ ~IsText(t[i], m)
      <4>1. i + 1 > k /\ i + 1 \in 1..Len(s) /\ t[i] = s[i + 1]
          BY <1>1, <3>2
      <4> QED
          BY <2>1, <4>1
    <3> QED
        BY <2>1, <3>1, <3>2 DEF HistoryTells
  <2> QED
      BY <2>2, <2>3
<1> QED
    BY <1>2, <1>3, <1>4, <1>5 DEF t, h

-----------------------------------------------------------------------------
(***************************************************************************)
(* The types, and what numbers the posts have that are known somewhere.    *)
(***************************************************************************)
RoomOK ==
    /\ seated \in SUBSET User
    /\ handler \in [User -> {"out", "entered", "loaded", "idle", "stamped",
                             "inserted", "saved", "sending"}]
    /\ posting \in [User -> Message \cup {0}]
    /\ unsent \in [User -> SUBSET User]
    /\ history \in [User -> Seq(Message)]
    /\ racing \in [User -> SUBSET Message]
    /\ unread \in SUBSET User
    /\ \A u \in User : /\ u \in seated <=> handler[u] # "out"
                       /\ InPost(u) <=> posting[u] # 0

\* A handler works on its user's newest message.
MsgOK ==
    /\ posts \in 0..MaxPosts
    /\ author \in [Message -> User \cup {NoUser}]
    /\ stamp \in [Message -> Nat]
    /\ \A u \in User : posting[u] \in Message =>
           /\ posting[u] \in Posted /\ author[posting[u]] = u
           /\ \A m \in Posted : author[m] = u => m <= posting[u]

\* A handler inserts its message once.
DbOK ==
    /\ lastID \in Nat
    /\ rows \in [Message -> 0..lastID]
    /\ \A m \in Message : rows[m] # 0 => m \in Posted
    /\ \A m, n \in Stored : m # n => rows[m] # rows[n]
    /\ saved \in SUBSET Message /\ overdue \in SUBSET Message
    /\ \A m \in saved : m \in Posted

\* What is posted later than n is not in an event, or not in a list.
EventUpTo(e, n, r) == /\ IsReset(e) => \A i \in 1..Len(e.entries) : e.entries[i] <= r
                      /\ ~IsReset(e) => e.message <= n

UpTo(s, n) == \A i \in 1..Len(s) : s[i] <= n

ViewOK ==
    /\ outbox \in [User -> Seq(Event)]
    /\ shown \in [User -> Seq(Message)]
    /\ joinedAt \in [User -> Nat]
    /\ \A u \in User :
           /\ joinedAt[u] <= posts
           /\ UpTo(shown[u], posts) /\ UpTo(history[u], posts)
           /\ \A k \in 1..Len(outbox[u]) : EventUpTo(outbox[u][k], posts, joinedAt[u])

Types == RoomOK /\ MsgOK /\ DbOK /\ ViewOK

\* What Load returns is stored.
LEMMA LoadedTypes ==
    ASSUME DbOK, NEW s \in Sequences(Stored, MaxHistory)
    PROVE  /\ s \in Seq(Message) /\ UpTo(s, posts)
           /\ Len(s) \in 0..MaxHistory /\ s \in [1..Len(s) -> Stored]
<1>1. PICK k \in 0..MaxHistory : s \in [1..k -> Stored]
    BY DEF Sequences
<1>2. k \in Nat /\ Stored \subseteq Message /\ \A m \in Stored : m <= posts
    BY <1>1, ChatAssumption DEF DbOK, Stored, Posted
<1>3. s \in Seq(Stored) /\ Len(s) = k
    BY <1>1, <1>2
<1> QED
    BY <1>1, <1>2, <1>3 DEF UpTo

LEMMA RoomStep ==
    ASSUME Types, [Next]_vars
    PROVE  RoomOK'
<1> USE ChatAssumption DEF Types, RoomOK
<1>1. ASSUME NEW u \in User, Join(u)
      PROVE  RoomOK'
  <2>1. {posting[v] : v \in {w \in User : InPost(w)}} \subseteq Message
      OBVIOUS
  <2> QED
      BY <1>1, <2>1 DEF Join, InPost
<1>2. ASSUME NEW u \in User, LoadHistory(u)
      PROVE  RoomOK'
  <2>1. PICK s \in Sequences(Stored, MaxHistory) :
            history' = [history EXCEPT ![u] = s]
      BY <1>2 DEF LoadHistory
  <2>2. history' \in [User -> Seq(Message)]
      BY <2>1, LoadedTypes
  <2> QED
      BY <1>2, <2>2 DEF LoadHistory, InPost, raceVars
<1>9. ASSUME NEW u \in User, LoadFails(u)
      PROVE  RoomOK'
  <2>1. history' \in [User -> Seq(Message)]
      BY <1>9 DEF LoadFails
  <2> QED
      BY <1>9, <2>1 DEF LoadFails, InPost
<1>3. ASSUME NEW u \in User, SendRoomJoined(u) \/ Leave(u)
      PROVE  RoomOK'
  <2>1. CASE SendRoomJoined(u)
      BY <2>1 DEF SendRoomJoined, InPost
  <2>2. CASE Leave(u)
      BY <2>2 DEF Leave, InPost, raceVars
  <2> QED
      BY <1>3, <2>1, <2>2
<1>4. ASSUME NEW u \in User, Post(u)
      PROVE  RoomOK'
  <2>1. posts' \in Message /\ posts' # 0
      BY <1>4 DEF Post, MsgOK, Message
  <2>2. racing' \in [User -> SUBSET Message]
      BY <1>4, <2>1 DEF Post
  <2> QED
      BY <1>4, <2>1, <2>2 DEF Post, InPost
<1>5. ASSUME NEW u \in User,
             \/ Insert(u) \/ InsertFails(u) \/ Prune(u) \/ PruneFails(u)
             \/ Broadcast(u)
      PROVE  RoomOK'
    BY <1>5
    DEF Insert, InsertFails, Prune, PruneFails, Broadcast, Audience, InPost, raceVars
<1>6. ASSUME NEW u \in User, PostDone(u) \/ \E v \in User : SendText(u, v)
      PROVE  RoomOK'
  <2>1. CASE PostDone(u)
      BY <2>1 DEF PostDone, InPost, raceVars
  <2>2. ASSUME NEW v \in User, SendText(u, v)
        PROVE  RoomOK'
      BY <2>2 DEF SendText, InPost, raceVars
  <2> QED
      BY <1>6, <2>1, <2>2
<1>7. ASSUME NEW u \in User, OnRoomJoined(u) \/ OnTextMessage(u)
      PROVE  RoomOK'
    BY <1>7 DEF OnRoomJoined, OnTextMessage, roomVars, raceVars, InPost
<1>8. CASE UNCHANGED vars
    BY <1>8 DEF vars, roomVars, raceVars, InPost
<1> QED
    BY <1>1, <1>2, <1>3, <1>4, <1>5, <1>6, <1>7, <1>8, <1>9 DEF Next

LEMMA MsgStep ==
    ASSUME Types, [Next]_vars
    PROVE  MsgOK'
<1> USE ChatAssumption DEF Types, MsgOK, RoomOK
<1>1. ASSUME NEW u \in User, Post(u)
      PROVE  MsgOK'
  <2>1. /\ posts' = posts + 1 /\ posts' \in Message /\ posts' \notin Posted
        /\ Posted' = Posted \cup {posts'} /\ posts' \in 0..MaxPosts
      BY <1>1 DEF Post, Message, Posted
  <2>2. /\ author' \in [Message -> User \cup {NoUser}]
        /\ \A m \in Message : author'[m] = IF m = posts' THEN u ELSE author[m]
      BY <1>1, <2>1 DEF Post
  <2>3. stamp' \in [Message -> Nat]
    <3>1. posts # 0 => posts \in Message
        BY DEF Message
    <3>2. PICK t \in {0, 1} :
              stamp' = [stamp EXCEPT ![posts'] =
                           t + IF posts = 0 THEN 0 ELSE stamp[posts]]
        BY <1>1 DEF Post
    <3> DEFINE at == IF posts = 0 THEN 0 ELSE stamp[posts]
    <3>3. at \in Nat /\ t \in Nat
        BY <3>1
    <3>4. t + at \in Nat /\ stamp' = [stamp EXCEPT ![posts'] = t + at]
        BY <3>2, <3>3
    <3> QED
        BY <2>1, <3>4
  <2>4. posting' = [posting EXCEPT ![u] = posts']
      BY <1>1 DEF Post
  <2>5. Posted \subseteq Message /\ \A m \in Posted : m <= posts' /\ m # posts'
      BY <2>1 DEF Posted, Message
  <2>6. ASSUME NEW v \in User, posting'[v] \in Message
        PROVE  /\ posting'[v] \in Posted' /\ author'[posting'[v]] = v
               /\ \A m \in Posted' : author'[m] = v => m <= posting'[v]
    <3>1. CASE v = u
        BY <2>1, <2>2, <2>4, <2>5, <3>1
    <3>2. CASE v # u
        BY <2>1, <2>2, <2>4, <2>5, <2>6, <3>2
    <3> QED
        BY <3>1, <3>2
  <2> QED
      BY <2>1, <2>2, <2>3, <2>6
<1>2. ASSUME NEW u \in User, PostDone(u)
      PROVE  MsgOK'
    BY <1>2 DEF PostDone, msgVars, Message, Posted
<1>3. ASSUME UNCHANGED <<msgVars, posting>>
      PROVE  MsgOK'
    BY <1>3 DEF msgVars, Posted
<1>4. ASSUME NEW u \in User,
             \/ Join(u) \/ LoadHistory(u) \/ LoadFails(u) \/ SendRoomJoined(u)
             \/ Leave(u)
             \/ Insert(u) \/ InsertFails(u) \/ Prune(u) \/ PruneFails(u)
             \/ Broadcast(u) \/ (\E v \in User : SendText(u, v))
             \/ OnRoomJoined(u) \/ OnTextMessage(u)
      PROVE  UNCHANGED <<msgVars, posting>>
    BY <1>4
    DEF Join, LoadHistory, LoadFails, SendRoomJoined, Leave, Insert, InsertFails,
        Prune, PruneFails,
        Broadcast, SendText, OnRoomJoined, OnTextMessage, roomVars
<1>5. CASE UNCHANGED vars
    BY <1>3, <1>5 DEF vars, roomVars
<1> QED
    BY <1>1, <1>2, <1>3, <1>4, <1>5 DEF Next

LEMMA DbStep ==
    ASSUME Types, [Next]_vars
    PROVE  DbOK'
<1> USE ChatAssumption DEF Types, DbOK
<1>1. \A m \in Posted : m \in Posted'
  <2>1. posts' >= posts /\ posts' \in Nat
    <3>1. ASSUME NEW u \in User, Post(u)
          PROVE  posts' >= posts
        BY <3>1 DEF Post, MsgOK
    <3>2. ASSUME NEW u \in User,
                 \/ Join(u) \/ LoadHistory(u) \/ LoadFails(u) \/ SendRoomJoined(u)
                 \/ Leave(u)
                 \/ Insert(u) \/ InsertFails(u) \/ Prune(u) \/ PruneFails(u)
                 \/ PostDone(u)
                 \/ Broadcast(u) \/ (\E v \in User : SendText(u, v))
                 \/ OnRoomJoined(u) \/ OnTextMessage(u)
          PROVE  posts' = posts
        BY <3>2
        DEF Join, LoadHistory, LoadFails, SendRoomJoined, Leave, Insert,
            InsertFails, Prune, PruneFails,
            PostDone, Broadcast, SendText, OnRoomJoined, OnTextMessage, msgVars
    <3>3. UNCHANGED vars => posts' = posts
        BY DEF vars, msgVars
    <3>4. posts \in Nat /\ posts' \in Nat
        BY MsgStep DEF MsgOK
    <3> QED
        BY <3>1, <3>2, <3>3, <3>4 DEF Next
  <2> QED
      BY <2>1 DEF Posted, MsgOK
<1>2. ASSUME NEW u \in User, Insert(u)
      PROVE  DbOK'
  <2>1. posting[u] \in Message
      BY <1>2 DEF Insert, RoomOK, InPost
  <2>2. posting[u] \in Posted
      BY <2>1 DEF MsgOK
  <2>3. /\ lastID' = lastID + 1 /\ lastID' \in Nat /\ lastID' # 0
        /\ rows' = [rows EXCEPT ![posting[u]] = lastID']
        /\ saved' = saved \cup {posting[u]} /\ overdue' = overdue
      BY <1>2 DEF Insert, NextID
  <2>4. rows' \in [Message -> 0..lastID']
    <3>1. \A m \in Message : rows[m] \in 0..lastID'
        BY <2>3
    <3>2. lastID' \in 0..lastID'
        BY <2>3
    <3> QED
        BY <2>1, <2>3, <3>1, <3>2
  <2>5. ASSUME NEW m \in Stored', NEW n \in Stored', m # n
        PROVE  rows'[m] # rows'[n]
    <3>1. /\ m \in Message /\ n \in Message /\ rows'[m] # 0 /\ rows'[n] # 0
          /\ rows[m] <= lastID /\ rows[n] <= lastID
          /\ rows[m] \in Nat /\ rows[n] \in Nat
        BY <2>5 DEF Stored
    <3> QED
        BY <2>1, <2>3, <2>5, <3>1 DEF Stored
  <2> QED
      BY <1>1, <2>1, <2>2, <2>3, <2>4, <2>5
<1>3. ASSUME NEW u \in User, Prune(u)
      PROVE  DbOK'
  <2>1. /\ rows' = [m \in Message |-> IF m \in Kept THEN rows[m] ELSE 0]
        /\ lastID' = lastID /\ saved' = saved /\ overdue' = {}
      BY <1>3 DEF Prune
  <2>2. Stored' \subseteq Stored
        /\ \A m \in Stored' : rows'[m] = rows[m]
      BY <2>1 DEF Stored
  <2> QED
      BY <1>1, <2>1, <2>2
<1>7. ASSUME NEW u \in User, PruneFails(u)
      PROVE  DbOK'
  <2>1. posting[u] \in Message
      BY <1>7 DEF PruneFails, RoomOK, InPost
  <2> QED
      BY <1>1, <1>7, <2>1 DEF PruneFails, Stored
<1>4. ASSUME UNCHANGED dbVars
      PROVE  DbOK'
    BY <1>1, <1>4 DEF dbVars, Stored
<1>5. ASSUME NEW u \in User,
             \/ Join(u) \/ LoadHistory(u) \/ LoadFails(u) \/ SendRoomJoined(u)
             \/ Leave(u) \/ Post(u) \/ InsertFails(u) \/ PostDone(u)
             \/ Broadcast(u) \/ (\E v \in User : SendText(u, v))
             \/ OnRoomJoined(u) \/ OnTextMessage(u)
      PROVE  UNCHANGED dbVars
    BY <1>5
    DEF Join, LoadHistory, LoadFails, SendRoomJoined, Leave, Post, InsertFails,
        PostDone,
        Broadcast, SendText, OnRoomJoined, OnTextMessage
<1>6. CASE UNCHANGED vars
    BY <1>4, <1>6 DEF vars
<1> QED
    BY <1>2, <1>3, <1>4, <1>5, <1>6, <1>7 DEF Next

\* What a page takes, and which events are on their way to it.
LEMMA TakenTypes ==
    ASSUME Types, NEW u \in User, outbox[u] # <<>>
    PROVE  /\ Head(outbox[u]) \in Event
           /\ EventUpTo(Head(outbox[u]), posts, joinedAt[u])
           /\ Tail(outbox[u]) \in Seq(Event)
           /\ \A k \in 1..Len(Tail(outbox[u])) :
                  EventUpTo(Tail(outbox[u])[k], posts, joinedAt[u])
<1>1. /\ outbox[u] \in Seq(Event)
      /\ \A k \in 1..Len(outbox[u]) : EventUpTo(outbox[u][k], posts, joinedAt[u])
    BY DEF Types, ViewOK
<1> QED
    BY <1>1, TailIndex

LEMMA SentTypes ==
    ASSUME Types, NEW u \in User, NEW e \in Event, NEW r \in Nat,
           joinedAt[u] <= r, EventUpTo(e, posts, r)
    PROVE  /\ Append(outbox[u], e) \in Seq(Event)
           /\ \A k \in 1..Len(Append(outbox[u], e)) :
                  EventUpTo(Append(outbox[u], e)[k], posts, r)
<1>1. /\ outbox[u] \in Seq(Event)
      /\ \A k \in 1..Len(outbox[u]) : EventUpTo(outbox[u][k], posts, joinedAt[u])
      /\ joinedAt[u] \in Nat
    BY DEF Types, ViewOK
<1>2. ASSUME NEW k \in 1..Len(outbox[u])
      PROVE  EventUpTo(outbox[u][k], posts, r)
  <2> DEFINE f == outbox[u][k]
  <2>1. f \in Event /\ EventUpTo(f, posts, joinedAt[u])
      BY <1>1
  <2>2. IsReset(f) => f.entries \in Seq(Message)
      BY <2>1, EventTypes DEF IsReset
  <2> HIDE DEF f
  <2>3. IsReset(f) => \A i \in 1..Len(f.entries) : f.entries[i] <= r
    <3>1. ASSUME IsReset(f), NEW i \in 1..Len(f.entries)
          PROVE  f.entries[i] <= r
      <4>1. f.entries[i] \in Int
          BY <2>2, <3>1, ChatAssumption DEF Message
      <4>2. f.entries[i] <= joinedAt[u]
          BY <2>1, <3>1 DEF EventUpTo
      <4> QED
          BY <1>1, <4>1, <4>2
    <3> QED
        BY <3>1
  <2>4. EventUpTo(f, posts, r)
      BY <2>1, <2>3 DEF EventUpTo
  <2> QED
      BY <2>4 DEF f
<1> QED
    BY <1>1, <1>2, AppendIndex

LEMMA ViewStep ==
    ASSUME Types, [Next]_vars
    PROVE  ViewOK'
<1> USE ChatAssumption
<1>1. /\ posts \in Nat /\ outbox \in [User -> Seq(Event)]
      /\ shown \in [User -> Seq(Message)] /\ joinedAt \in [User -> Nat]
      /\ history \in [User -> Seq(Message)]
      /\ \A u \in User :
             /\ joinedAt[u] <= posts
             /\ UpTo(shown[u], posts) /\ UpTo(history[u], posts)
             /\ \A k \in 1..Len(outbox[u]) :
                    EventUpTo(outbox[u][k], posts, joinedAt[u])
    BY DEF Types, ViewOK, RoomOK, MsgOK
<1>2. ASSUME NEW u \in User, LoadHistory(u)
      PROVE  ViewOK'
  <2>1. PICK s \in Sequences(Stored, MaxHistory) :
            history' = [history EXCEPT ![u] = s]
      BY <1>2 DEF LoadHistory
  <2>2. UpTo(s, posts)
      BY LoadedTypes DEF Types
  <2>3. posts' = posts /\ UNCHANGED <<outbox, shown, joinedAt>>
      BY <1>2 DEF LoadHistory, msgVars, viewVars, raceVars
  <2>4. \A v \in User : UpTo(history'[v], posts)
      BY <1>1, <2>1, <2>2
  <2> QED
      BY <1>1, <2>3, <2>4 DEF ViewOK
<1>11. ASSUME NEW u \in User, LoadFails(u)
       PROVE  ViewOK'
    BY <1>1, <1>11 DEF LoadFails, ViewOK, UpTo, msgVars, viewVars
<1>3. ASSUME NEW u \in User, SendRoomJoined(u)
      PROVE  ViewOK'
  <2> DEFINE e == [type |-> "room_joined", entries |-> history[u]]
  <2>1. e \in Event /\ EventUpTo(e, posts, posts)
      BY <1>1, EventTypes DEF EventUpTo, IsReset, UpTo
  <2>2. /\ posts' = posts /\ shown' = shown
        /\ outbox' = [outbox EXCEPT ![u] = Append(@, e)]
        /\ joinedAt' = [joinedAt EXCEPT ![u] = posts]
        /\ history' = [history EXCEPT ![u] = <<>>]
      BY <1>3 DEF SendRoomJoined, Enqueue, msgVars
  <2> HIDE DEF e
  <2>3. /\ Append(outbox[u], e) \in Seq(Event)
        /\ \A k \in 1..Len(Append(outbox[u], e)) :
               EventUpTo(Append(outbox[u], e)[k], posts, posts)
      BY <1>1, <2>1, SentTypes
  <2>4. ASSUME NEW v \in User
        PROVE  /\ joinedAt'[v] <= posts
               /\ UpTo(shown[v], posts) /\ UpTo(history'[v], posts)
               /\ \A k \in 1..Len(outbox'[v]) :
                      EventUpTo(outbox'[v][k], posts, joinedAt'[v])
    <3>1. CASE v = u
        BY <1>1, <2>2, <2>3, <3>1 DEF UpTo
    <3>2. CASE v # u
        BY <1>1, <2>2, <3>2
    <3> QED
        BY <3>1, <3>2
  <2>5. outbox' \in [User -> Seq(Event)] /\ joinedAt' \in [User -> Nat]
      BY <1>1, <2>2, <2>3
  <2> QED
      BY <1>1, <2>2, <2>4, <2>5 DEF ViewOK
<1>4. ASSUME NEW u \in User, Leave(u)
      PROVE  ViewOK'
    BY <1>1, <1>4 DEF Leave, ViewOK, UpTo, msgVars, raceVars
<1>5. ASSUME NEW u \in User, Post(u)
      PROVE  ViewOK'
  <2>1. posts' = posts + 1 /\ UNCHANGED <<outbox, shown, joinedAt, history>>
      BY <1>5 DEF Post, viewVars
  <2>2. ASSUME NEW v \in User
        PROVE  /\ joinedAt[v] <= posts' /\ UpTo(shown[v], posts')
               /\ UpTo(history[v], posts')
    <3>1. /\ shown[v] \in Seq(Message) /\ history[v] \in Seq(Message)
          /\ joinedAt[v] \in Nat /\ joinedAt[v] <= posts
          /\ UpTo(shown[v], posts) /\ UpTo(history[v], posts)
        BY <1>1
    <3> QED
        BY <1>1, <2>1, <3>1 DEF UpTo, Message
  <2>3. ASSUME NEW v \in User, NEW k \in 1..Len(outbox[v])
        PROVE  EventUpTo(outbox[v][k], posts', joinedAt[v])
    <3> DEFINE f == outbox[v][k]
    <3>1. f \in Event /\ EventUpTo(f, posts, joinedAt[v])
        BY <1>1
    <3> HIDE DEF f
    <3>2. ~IsReset(f) => f.message \in Nat
      <4>1. ~IsReset(f) => f.message \in Message
          BY <3>1, EventTypes DEF IsReset
      <4> QED
          BY <4>1 DEF Message
    <3>3. ~IsReset(f) => f.message <= posts'
        BY <1>1, <2>1, <3>1, <3>2 DEF EventUpTo
    <3>4. EventUpTo(f, posts', joinedAt[v])
        BY <3>1, <3>3 DEF EventUpTo
    <3> QED
        BY <3>4 DEF f
  <2> QED
      BY <1>1, <2>1, <2>2, <2>3 DEF ViewOK
<1>6. ASSUME NEW u \in User, NEW v \in User, SendText(u, v)
      PROVE  ViewOK'
  <2> DEFINE e == [type |-> "text_message", message |-> posting[u]]
  <2>1. posting[u] \in Message /\ posting[u] <= posts
      BY <1>6 DEF SendText, InPost, Types, RoomOK, MsgOK, Posted
  <2>2. e \in Event /\ EventUpTo(e, posts, joinedAt[v])
      BY <2>1, EventTypes DEF EventUpTo, IsReset
  <2>3. /\ outbox' = [outbox EXCEPT ![v] = Append(@, e)]
        /\ UNCHANGED <<posts, shown, joinedAt, history>>
      BY <1>6 DEF SendText, Enqueue, msgVars, raceVars
  <2> HIDE DEF e
  <2>4. /\ Append(outbox[v], e) \in Seq(Event)
        /\ \A k \in 1..Len(Append(outbox[v], e)) :
               EventUpTo(Append(outbox[v], e)[k], posts, joinedAt[v])
      BY <1>1, <2>2, SentTypes
  <2>5. ASSUME NEW w \in User, NEW k \in 1..Len(outbox'[w])
        PROVE  EventUpTo(outbox'[w][k], posts, joinedAt[w])
    <3>1. CASE w = v
        BY <1>1, <2>3, <2>4, <2>5, <3>1
    <3>2. CASE w # v
        BY <1>1, <2>3, <2>5, <3>2
    <3> QED
        BY <3>1, <3>2
  <2>6. outbox' \in [User -> Seq(Event)]
      BY <1>1, <2>3, <2>4
  <2> QED
      BY <1>1, <2>3, <2>5, <2>6 DEF ViewOK
<1>7. ASSUME NEW u \in User, OnRoomJoined(u) \/ OnTextMessage(u)
      PROVE  ViewOK'
  <2> DEFINE e == Head(outbox[u])
             t == Tail(outbox[u])
  <2>1. /\ outbox[u] # <<>> /\ outbox' = [outbox EXCEPT ![u] = t]
        /\ UNCHANGED <<posts, joinedAt, history>>
      BY <1>7 DEF OnRoomJoined, OnTextMessage, msgVars, raceVars, roomVars
  <2>2. /\ e \in Event /\ EventUpTo(e, posts, joinedAt[u]) /\ t \in Seq(Event)
        /\ \A k \in 1..Len(t) : EventUpTo(t[k], posts, joinedAt[u])
      BY <2>1, TakenTypes
  <2>3. /\ shown' \in [User -> Seq(Message)]
        /\ \A v \in User : UpTo(shown'[v], posts)
    <3>1. CASE OnRoomJoined(u)
      <4>1. e.type = "room_joined" /\ shown' = [shown EXCEPT ![u] = e.entries]
          BY <3>1 DEF OnRoomJoined, AfterHistory
      <4>2. /\ e.entries \in Seq(Message)
            /\ \A i \in 1..Len(e.entries) : e.entries[i] <= joinedAt[u]
          BY <2>2, <4>1, EventTypes DEF EventUpTo, IsReset
      <4>3. UpTo(e.entries, posts)
          BY <1>1, <4>2 DEF UpTo, Message
      <4> QED
          BY <1>1, <4>1, <4>2, <4>3
    <3>2. CASE OnTextMessage(u)
      <4>1. /\ e.type = "text_message"
            /\ shown' = [shown EXCEPT ![u] = Append(@, e.message)]
          BY <3>2 DEF OnTextMessage, AfterText
      <4>2. e.message \in Message /\ e.message <= posts
          BY <2>2, <4>1, EventTypes DEF EventUpTo, IsReset
      <4>3. /\ Append(shown[u], e.message) \in Seq(Message)
            /\ UpTo(Append(shown[u], e.message), posts)
          BY <1>1, <4>2, AppendIndex DEF UpTo
      <4> QED
          BY <1>1, <4>1, <4>3
    <3> QED
        BY <1>7, <3>1, <3>2
  <2> HIDE DEF e, t
  <2>4. ASSUME NEW v \in User, NEW k \in 1..Len(outbox'[v])
        PROVE  EventUpTo(outbox'[v][k], posts, joinedAt[v])
      BY <1>1, <2>1, <2>2, <2>4
  <2> QED
      BY <1>1, <2>1, <2>2, <2>3, <2>4 DEF ViewOK
<1>8. ASSUME UNCHANGED <<posts, outbox, shown, joinedAt, history>>
      PROVE  ViewOK'
    BY <1>1, <1>8 DEF ViewOK
<1>9. ASSUME NEW u \in User,
             \/ Join(u) \/ Insert(u) \/ InsertFails(u) \/ Prune(u) \/ PruneFails(u)
             \/ Broadcast(u) \/ PostDone(u)
      PROVE  UNCHANGED <<posts, outbox, shown, joinedAt, history>>
    BY <1>9
    DEF Join, Insert, InsertFails, Prune, PruneFails, Broadcast, PostDone, msgVars,
        viewVars,
        raceVars
<1>10. CASE UNCHANGED vars
    BY <1>8, <1>10 DEF vars, msgVars, viewVars, raceVars, roomVars
<1> QED
    BY <1>2, <1>3, <1>4, <1>5, <1>6, <1>7, <1>8, <1>9, <1>10, <1>11 DEF Next

LEMMA TypesInvariant == Spec => []Types
<1>1. Init => Types
  <2>1. Init => Stored = {}
      BY DEF Init, Stored
  <2> QED
      BY <2>1, ChatAssumption
      DEF Init, Types, RoomOK, MsgOK, DbOK, ViewOK, UpTo, InPost, Message
<1>2. Types /\ [Next]_vars => Types'
    BY RoomStep, MsgStep, DbStep, ViewStep DEF Types
<1> QED
    BY <1>1, <1>2, PTL DEF Spec

-----------------------------------------------------------------------------
(***************************************************************************)
(* The rows of the table.  No two rows are equally new, so the ranks of    *)
(* those that a prune keeps are different, and smaller than MaxHistory.    *)
(***************************************************************************)
LEMMA PostedFinite ==
    ASSUME Types
    PROVE  /\ IsFiniteSet(Posted) /\ IsFiniteSet(Stored) /\ Stored \subseteq Posted
           /\ Posted \subseteq Message
           /\ Cardinality(Stored) \in Nat
<1>1. posts \in Nat /\ Stored \subseteq Posted /\ Posted \subseteq Message
    BY ChatAssumption DEF Types, MsgOK, DbOK, Stored, Posted, Message
<1>2. IsFiniteSet(Posted)
    BY <1>1, FS_Interval DEF Posted
<1> QED
    BY <1>1, <1>2, FS_Subset, FS_CardinalityType

Rank(m) == Cardinality({n \in Stored : Newer(n, m)})

LEMMA RankType ==
    ASSUME Types, NEW m
    PROVE  Rank(m) \in Nat
BY PostedFinite, FS_Subset, FS_CardinalityType DEF Rank

LEMMA RanksDiffer ==
    ASSUME Types, NEW m \in Stored, NEW n \in Stored, Newer(m, n)
    PROVE  Rank(m) < Rank(n)
<1>1. /\ Stored \subseteq Message
      /\ \A k \in Stored : stamp[k] \in Nat /\ rows[k] \in Nat
    BY DEF Types, MsgOK, DbOK, Stored
<1> DEFINE M == {k \in Stored : Newer(k, m)}
           N == {k \in Stored : Newer(k, n)}
<1>2. M \subseteq N \ {m}
    BY <1>1 DEF Newer
<1>3. m \in N
    OBVIOUS
<1>4. IsFiniteSet(N) /\ Cardinality(N) \in Nat
    BY PostedFinite, FS_Subset, FS_CardinalityType
<1> HIDE DEF M, N
<1>5. IsFiniteSet(N \ {m}) /\ Cardinality(N \ {m}) = Cardinality(N) - 1
    BY <1>3, <1>4, FS_RemoveElement
<1>6. Cardinality(M) <= Cardinality(N \ {m}) /\ Cardinality(M) \in Nat
    BY <1>2, <1>5, FS_Subset, FS_CardinalityType
<1>7. Cardinality(M) < Cardinality(N)
    BY <1>4, <1>5, <1>6
<1> QED
    BY <1>7 DEF Rank, M, N

LEMMA KeptIsSmall ==
    ASSUME Types
    PROVE  IsFiniteSet(Kept) /\ Cardinality(Kept) <= MaxHistory
<1> USE ChatAssumption
<1> DEFINE T == 0..(MaxHistory - 1)
           rank == [m \in Kept |-> Rank(m)]
<1>1. Kept \subseteq Stored
    BY DEF Kept
<1>2. \A m \in Kept : Rank(m) \in T
  <2>1. ASSUME NEW m \in Kept
        PROVE  Rank(m) \in T
    <3>1. Rank(m) \in Nat
        BY RankType
    <3>2. Rank(m) < MaxHistory
        BY <2>1 DEF Kept, Rank
    <3> QED
        BY <3>1, <3>2
  <2> QED
      BY <2>1
<1>3. ASSUME NEW m \in Kept, NEW n \in Kept, Rank(m) = Rank(n)
      PROVE  m = n
  <2>1. Rank(m) \in Nat /\ Rank(n) \in Nat
      BY RankType
  <2>2. m # n => Newer(m, n) \/ Newer(n, m)
      BY <1>1, <1>3 DEF Newer, Types, MsgOK, DbOK, Stored
  <2>3. Newer(m, n) => Rank(m) < Rank(n)
      BY <1>1, <1>3, RanksDiffer
  <2>4. Newer(n, m) => Rank(n) < Rank(m)
      BY <1>1, <1>3, RanksDiffer
  <2> QED
      BY <1>3, <2>1, <2>2, <2>3, <2>4
<1>4. rank \in Injection(Kept, T)
  <2>1. rank \in [Kept -> T]
      BY <1>2
  <2>2. \A m, n \in Kept : rank[m] = rank[n] => m = n
      BY <1>3
  <2> QED
      BY <2>1, <2>2, Zenon DEF Injection, IsInjective
<1>5. IsFiniteSet(T) /\ Cardinality(T) = MaxHistory
    BY FS_Interval
<1> HIDE DEF T, rank
<1>6. IsFiniteSet(Kept) /\ Cardinality(Kept) <= Cardinality(T)
    BY <1>4, <1>5, FS_Injection
<1> QED
    BY <1>5, <1>6

LEMMA SmallStep ==
    ASSUME Types, Types', TableStaysSmall, [Next]_vars
    PROVE  TableStaysSmall'
<1> USE ChatAssumption
<1> DEFINE Rows == Stored \ Unpruned
<1>1. IsFiniteSet(Rows) /\ Cardinality(Rows) \in Nat /\ Cardinality(Rows) <= MaxHistory
    BY PostedFinite, FS_Subset, FS_CardinalityType DEF TableStaysSmall
<1>2. ASSUME Rows' \subseteq Rows
      PROVE  TableStaysSmall'
  <2>1. Cardinality(Rows') <= Cardinality(Rows) /\ Cardinality(Rows') \in Nat
    <3> HIDE DEF Rows
    <3> QED
        BY <1>1, <1>2, FS_Subset, FS_CardinalityType
  <2> QED
      BY <1>1, <2>1 DEF TableStaysSmall
<1>3. ASSUME NEW w \in User, Prune(w)
      PROVE  TableStaysSmall'
  <2>1. Rows' \subseteq Kept
      BY <1>3 DEF Prune, Stored, Kept
  <2>2. /\ IsFiniteSet(Kept) /\ Cardinality(Kept) <= MaxHistory
        /\ Cardinality(Kept) \in Nat
      BY KeptIsSmall, FS_CardinalityType
  <2>3. Cardinality(Rows') <= Cardinality(Kept) /\ Cardinality(Rows') \in Nat
    <3> HIDE DEF Rows
    <3> QED
        BY <2>1, <2>2, FS_Subset, FS_CardinalityType
  <2> QED
      BY <2>2, <2>3 DEF TableStaysSmall
<1>4. ASSUME NEW w \in User, Insert(w)
      PROVE  Rows' \subseteq Rows
  <2>1. /\ Stored' = Stored \cup {posting[w]} /\ overdue' = overdue
        /\ handler'[w] = "inserted" /\ posting' = posting
        /\ \A v \in User : handler[v] = "inserted" => handler'[v] = "inserted"
    <3>1. posting[w] \in Message /\ lastID' # 0
        BY <1>4 DEF Insert, NextID, Types, RoomOK, DbOK, InPost
    <3> QED
        BY <1>4, <3>1 DEF Insert, Stored, Types, RoomOK, DbOK
  <2> QED
      BY <2>1 DEF Unpruned
<1>5. ASSUME NEW w \in User, PruneFails(w)
      PROVE  Rows' \subseteq Rows
  <2>1. /\ Stored' = Stored /\ overdue' = overdue \cup {posting[w]}
        /\ posting' = posting
        /\ \A v \in User \ {w} : handler'[v] = handler[v]
      BY <1>5 DEF PruneFails, Stored, Types, RoomOK
  <2> QED
      BY <2>1 DEF Unpruned
<1>6. ASSUME NEW w \in User,
             \/ Join(w) \/ LoadHistory(w) \/ LoadFails(w) \/ SendRoomJoined(w)
             \/ Leave(w) \/ Post(w) \/ InsertFails(w) \/ PostDone(w)
             \/ Broadcast(w) \/ (\E v \in User : SendText(w, v))
             \/ OnRoomJoined(w) \/ OnTextMessage(w)
      PROVE  Rows' \subseteq Rows
  <2>1. UNCHANGED dbVars
      BY <1>6
      DEF Join, LoadHistory, LoadFails, SendRoomJoined, Leave, Post, InsertFails,
          PostDone, Broadcast, SendText, OnRoomJoined, OnTextMessage
  <2>2. \A v \in User : handler[v] = "inserted" =>
            handler'[v] = "inserted" /\ posting'[v] = posting[v]
      BY <1>6
      DEF Join, LoadHistory, LoadFails, SendRoomJoined, Leave, Post, InsertFails,
          PostDone, Broadcast, SendText, OnRoomJoined, OnTextMessage, roomVars,
          Types, RoomOK
  <2> QED
      BY <2>1, <2>2 DEF dbVars, Stored, Unpruned
<1>7. CASE UNCHANGED vars
  <2>1. Rows' \subseteq Rows
      BY <1>7 DEF vars, dbVars, roomVars, Stored, Unpruned
  <2> QED
      BY <1>2, <2>1
<1> QED
    BY <1>2, <1>3, <1>4, <1>5, <1>6, <1>7 DEF Next

\* The table of a room stays within MaxHistory rows but for those of prunes that
\* are to come, or failed with none after them (message.go's SaveText).
THEOREM TableIsSmall == Spec => []TableStaysSmall
<1>1. Init => TableStaysSmall
  <2>1. Init => Stored \ Unpruned = {}
      BY DEF Init, Stored
  <2> QED
      BY <2>1, FS_EmptySet, ChatAssumption DEF TableStaysSmall
<1>2. Types /\ Types' /\ TableStaysSmall /\ [Next]_vars => TableStaysSmall'
    BY SmallStep
<1> QED
    BY <1>1, <1>2, TypesInvariant, PTL DEF Spec

-----------------------------------------------------------------------------
(***************************************************************************)
(* Who changes what a page shows, and what is on its way to it.            *)
(***************************************************************************)
SameView(u) == /\ outbox'[u] = outbox[u] /\ shown'[u] = shown[u]
               /\ joinedAt'[u] = joinedAt[u]

\* Steps after which every page is as it was, but perhaps for its user's leaving.
Elsewhere(u) ==
    \/ Join(u) \/ LoadHistory(u) \/ LoadFails(u) \/ Insert(u) \/ InsertFails(u)
    \/ Prune(u) \/ PruneFails(u)
    \/ Broadcast(u) \/ PostDone(u)

Text(u) == [type |-> "text_message", message |-> posting[u]]

LEMMA Steps ==
    ASSUME Next
    PROVE  \E w \in User :
               \/ Elsewhere(w) \/ SendRoomJoined(w) \/ Leave(w) \/ Post(w)
               \/ (\E v \in User : SendText(w, v))
               \/ OnRoomJoined(w) \/ OnTextMessage(w)
BY DEF Next, Elsewhere

LEMMA ViewChanges ==
    ASSUME Types, NEW u \in User, NEW w \in User
    PROVE  /\ Elsewhere(w) \/ Post(w) => SameView(u)
           /\ Elsewhere(w) => UNCHANGED msgVars
           /\ Leave(w) => /\ UNCHANGED msgVars
                          /\ u # w => SameView(u)
           /\ SendRoomJoined(w) => /\ UNCHANGED msgVars
                                   /\ u # w => SameView(u)
           /\ OnRoomJoined(w) \/ OnTextMessage(w) =>
                  /\ UNCHANGED <<msgVars, roomVars, raceVars>>
                  /\ u # w => SameView(u)
           /\ \A v \in User : SendText(w, v) =>
                  /\ UNCHANGED <<msgVars, seated, handler, shown, raceVars, posting>>
                  /\ u # v => SameView(u)
                  /\ outbox' = [outbox EXCEPT ![v] = Append(@, Text(w))]
                  /\ posting[w] \in Posted /\ posting[w] \in Message
                  /\ author[posting[w]] = w
<1> USE DEF Types, ViewOK, SameView
<1>1. Elsewhere(w) => UNCHANGED msgVars /\ SameView(u)
    BY DEF Elsewhere, Join, LoadHistory, LoadFails, Insert, InsertFails, Prune,
           PruneFails, Broadcast,
           PostDone, viewVars, raceVars
<1>2. Post(w) => SameView(u)
    BY DEF Post, viewVars
<1>3. Leave(w) => UNCHANGED msgVars /\ (u # w => SameView(u))
    BY DEF Leave, raceVars
<1>4. SendRoomJoined(w) => UNCHANGED msgVars /\ (u # w => SameView(u))
    BY DEF SendRoomJoined, Enqueue
<1>5. OnRoomJoined(w) \/ OnTextMessage(w) =>
          UNCHANGED <<msgVars, roomVars, raceVars>> /\ (u # w => SameView(u))
    BY DEF OnRoomJoined, OnTextMessage, raceVars
<1>6. ASSUME NEW v \in User, SendText(w, v)
      PROVE  /\ UNCHANGED <<msgVars, seated, handler, shown, raceVars, posting>>
             /\ u # v => SameView(u)
             /\ outbox' = [outbox EXCEPT ![v] = Append(@, Text(w))]
             /\ posting[w] \in Posted /\ posting[w] \in Message
             /\ author[posting[w]] = w
  <2>1. posting[w] \in Message
      BY <1>6 DEF SendText, RoomOK, InPost
  <2> QED
      BY <1>6, <2>1 DEF SendText, Enqueue, Text, raceVars, MsgOK
<1> QED
    BY <1>1, <1>2, <1>3, <1>4, <1>5, <1>6

LEMMA PostChanges ==
    ASSUME Types, NEW w \in User, Post(w)
    PROVE  /\ posts' = posts + 1 /\ posts' \in Message /\ posts' \notin Posted
           /\ Posted' = Posted \cup {posts'}
           /\ \A m \in Posted : author'[m] = author[m] /\ stamp'[m] = stamp[m]
           /\ author'[posts'] = w
<1>1. /\ posts' = posts + 1 /\ posts' \in Message /\ posts' \notin Posted
      /\ Posted' = Posted \cup {posts'}
    BY ChatAssumption DEF Post, Message, Posted, Types, MsgOK
<1> QED
    BY <1>1 DEF Post, Types, MsgOK, Posted, Message

-----------------------------------------------------------------------------
(***************************************************************************)
(* The messages of an author.  Those that a page shows come before those   *)
(* on their way to it, and what its author still sends is newer.           *)
(***************************************************************************)
InOrder(u, m, n) ==
    author[m] = author[n] /\ joinedAt[u] < m /\ joinedAt[u] < n => m <= n

ShownInOrder(u) == \A i, j \in 1..Len(shown[u]) :
    i < j => InOrder(u, shown[u][i], shown[u][j])

ShownFirst(u) == \A i \in 1..Len(shown[u]), k \in 1..Len(outbox[u]) :
    ~IsReset(outbox[u][k]) => InOrder(u, shown[u][i], outbox[u][k].message)

SentInOrder(u) == \A k, l \in 1..Len(outbox[u]) :
    k < l /\ ~IsReset(outbox[u][k]) /\ ~IsReset(outbox[u][l])
        => InOrder(u, outbox[u][k].message, outbox[u][l].message)

OrderInv(u) ==
    u \in seated /\ ~InJoin(u) => ShownInOrder(u) /\ ShownFirst(u) /\ SentInOrder(u)

\* What is shown or on its way has been posted.
LEMMA ViewPosted ==
    ASSUME Types, NEW u \in User
    PROVE  /\ \A i \in 1..Len(shown[u]) : shown[u][i] \in Posted /\ shown[u][i] \in Int
           /\ \A k \in 1..Len(outbox[u]) : ~IsReset(outbox[u][k]) =>
                  /\ outbox[u][k].message \in Posted
                  /\ outbox[u][k].message \in Int
<1> USE ChatAssumption DEF Types, ViewOK, MsgOK
<1>1. \A i \in 1..Len(shown[u]) : shown[u][i] \in Message /\ shown[u][i] <= posts
    BY DEF UpTo
<1>2. ASSUME NEW k \in 1..Len(outbox[u]), ~IsReset(outbox[u][k])
      PROVE  outbox[u][k].message \in Message /\ outbox[u][k].message <= posts
  <2>1. outbox[u][k] \in Event
      OBVIOUS
  <2> QED
      BY <1>2, <2>1, EventTypes DEF EventUpTo, IsReset
<1> QED
    BY <1>1, <1>2 DEF Posted, Message

LEMMA OrderStep ==
    ASSUME Types, NEW u \in User, OrderInv(u), [Next]_vars
    PROVE  OrderInv(u)'
<1> USE ChatAssumption
<1>1. ASSUME SameView(u), \A m \in Posted : author'[m] = author[m],
             (u \in seated /\ ~InJoin(u))' => u \in seated /\ ~InJoin(u)
      PROVE  OrderInv(u)'
  <2>1. \A m, n \in Posted : InOrder(u, m, n) => InOrder(u, m, n)'
      BY <1>1 DEF InOrder, SameView
  <2>2. ShownInOrder(u) => ShownInOrder(u)'
      BY <1>1, <2>1, ViewPosted DEF ShownInOrder, SameView
  <2>3. ShownFirst(u) => ShownFirst(u)'
      BY <1>1, <2>1, ViewPosted DEF ShownFirst, SameView
  <2>4. SentInOrder(u) => SentInOrder(u)'
      BY <1>1, <2>1, ViewPosted DEF SentInOrder, SameView
  <2> QED
      BY <1>1, <2>2, <2>3, <2>4 DEF OrderInv
<1>2. ASSUME NEW w \in User, Elsewhere(w) \/ Post(w)
      PROVE  OrderInv(u)'
  <2>1. SameView(u)
      BY <1>2, ViewChanges
  <2>2. \A m \in Posted : author'[m] = author[m]
    <3>1. CASE Post(w)
        BY <3>1, PostChanges
    <3>2. CASE Elsewhere(w)
        BY <3>2, ViewChanges DEF msgVars
    <3> QED
        BY <1>2, <3>1, <3>2
  <2>3. (u \in seated /\ ~InJoin(u))' => u \in seated /\ ~InJoin(u)
      BY <1>2
      DEF Elsewhere, Post, Join, LoadHistory, LoadFails, Insert, InsertFails,
          Prune, PruneFails, Broadcast,
          PostDone, InJoin, Types, RoomOK
  <2> QED
      BY <1>1, <2>1, <2>2, <2>3
<1>3. ASSUME NEW w \in User, Leave(w)
      PROVE  OrderInv(u)'
  <2>1. CASE w = u
      BY <1>3, <2>1 DEF Leave, OrderInv
  <2>2. CASE w # u
      BY <1>1, <1>3, <2>2, ViewChanges DEF Leave, InJoin, msgVars, Types, RoomOK
  <2> QED
      BY <2>1, <2>2
<1>4. ASSUME NEW w \in User, SendRoomJoined(w)
      PROVE  OrderInv(u)'
  <2>1. CASE w = u
    <3> DEFINE e == [type |-> "room_joined", entries |-> history[u]]
    <3>1. /\ joinedAt'[u] = posts /\ shown'[u] = shown[u]
          /\ outbox'[u] = Append(outbox[u], e) /\ author' = author
        BY <1>4, <2>1 DEF SendRoomJoined, Enqueue, msgVars, Types, ViewOK
    <3>2. e \in Event /\ IsReset(e) /\ outbox[u] \in Seq(Event)
        BY EventTypes DEF IsReset, Types, RoomOK, ViewOK
    <3> HIDE DEF e
    <3>3. \A m \in Posted : ~(posts < m)
        BY DEF Posted, Types, MsgOK
    <3>4. \A i \in 1..Len(shown[u]) : ~(joinedAt'[u] < shown'[u][i])
        BY <3>1, <3>3, ViewPosted
    <3>5. \A k \in 1..Len(outbox'[u]) :
              ~IsReset(outbox'[u][k]) => ~(joinedAt'[u] < outbox'[u][k].message)
        BY <3>1, <3>2, <3>3, ViewPosted, AppendIndex
    <3>6. ShownInOrder(u)' /\ ShownFirst(u)'
        BY <3>1, <3>4 DEF ShownInOrder, ShownFirst, InOrder
    <3>7. SentInOrder(u)'
        BY <3>5 DEF SentInOrder, InOrder
    <3> QED
        BY <3>6, <3>7 DEF OrderInv
  <2>2. CASE w # u
      BY <1>1, <1>4, <2>2, ViewChanges
      DEF SendRoomJoined, InJoin, msgVars, Types, RoomOK
  <2> QED
      BY <2>1, <2>2
<1>5. ASSUME NEW w \in User, NEW v \in User, SendText(w, v)
      PROVE  OrderInv(u)'
  <2>1. /\ seated' = seated /\ handler' = handler /\ author' = author
        /\ posting[w] \in Posted /\ posting[w] \in Message /\ author[posting[w]] = w
        /\ shown' = shown /\ joinedAt' = joinedAt
      BY <1>5, ViewChanges DEF msgVars, raceVars
  <2>2. CASE v # u
    <3>1. SameView(u)
        BY <1>5, <2>2, ViewChanges
    <3> QED
        BY <1>1, <2>1, <3>1 DEF InJoin
  <2>3. CASE v = u
    <3> DEFINE e == Text(w)
    <3>1. /\ outbox'[u] = Append(outbox[u], e) /\ outbox[u] \in Seq(Event)
          /\ e \in Event /\ e.message = posting[w]
      <4>1. outbox' = [outbox EXCEPT ![u] = Append(@, Text(w))]
          BY <1>5, <2>3, ViewChanges
      <4>2. outbox \in [User -> Seq(Event)]
          BY DEF Types, ViewOK
      <4> QED
          BY <2>1, <4>1, <4>2, EventTypes DEF Text
    <3> HIDE DEF e
    <3>2. \A m \in Posted : author[m] = w => m <= posting[w]
        BY <2>1 DEF Types, MsgOK
    <3>3. \A m \in Posted : InOrder(u, m, posting[w])
        BY <2>1, <3>2 DEF InOrder
    <3>4. ASSUME ShownInOrder(u), ShownFirst(u), SentInOrder(u)
          PROVE  ShownInOrder(u)' /\ ShownFirst(u)' /\ SentInOrder(u)'
      <4>1. ShownInOrder(u)'
          BY <2>1, <3>4 DEF ShownInOrder, InOrder
      <4>2. ShownFirst(u)'
        <5>1. ASSUME NEW i \in 1..Len(shown[u]), NEW k \in 1..Len(outbox'[u]),
                     ~IsReset(outbox'[u][k])
              PROVE  InOrder(u, shown[u][i], outbox'[u][k].message)
          <6>1. CASE k \in 1..Len(outbox[u])
              BY <3>1, <3>4, <5>1, <6>1, AppendIndex DEF ShownFirst
          <6>2. CASE k = Len(outbox[u]) + 1
              BY <3>1, <3>3, <6>2, ViewPosted, AppendIndex
          <6> QED
              BY <3>1, <6>1, <6>2, AppendIndex
        <5> QED
            BY <2>1, <5>1 DEF ShownFirst, InOrder
      <4>3. SentInOrder(u)'
        <5>1. ASSUME NEW k \in 1..Len(outbox'[u]), NEW l \in 1..Len(outbox'[u]),
                     k < l, ~IsReset(outbox'[u][k]), ~IsReset(outbox'[u][l])
              PROVE  InOrder(u, outbox'[u][k].message, outbox'[u][l].message)
          <6>1. k \in 1..Len(outbox[u]) /\ outbox'[u][k] = outbox[u][k]
              BY <3>1, <5>1, AppendIndex
          <6>2. CASE l \in 1..Len(outbox[u])
              BY <3>1, <3>4, <5>1, <6>1, <6>2, AppendIndex DEF SentInOrder
          <6>3. CASE l = Len(outbox[u]) + 1
              BY <3>1, <3>3, <5>1, <6>1, <6>3, ViewPosted, AppendIndex
          <6> QED
              BY <3>1, <6>2, <6>3, AppendIndex
        <5> QED
            BY <2>1, <5>1 DEF SentInOrder, InOrder
      <4> QED
          BY <4>1, <4>2, <4>3
    <3> QED
        BY <2>1, <3>4 DEF OrderInv, InJoin
  <2> QED
      BY <2>2, <2>3
<1>6. ASSUME NEW w \in User, OnRoomJoined(w) \/ OnTextMessage(w)
      PROVE  OrderInv(u)'
  <2>1. UNCHANGED <<msgVars, roomVars, raceVars>>
      BY <1>6, ViewChanges
  <2>2. CASE w # u
    <3>1. SameView(u)
        BY <1>6, <2>2, ViewChanges
    <3> QED
        BY <1>1, <2>1, <3>1 DEF InJoin, roomVars, msgVars
  <2>3. CASE w = u
    <3> DEFINE h == Head(outbox[u])
               t == Tail(outbox[u])
    <3>1. /\ outbox[u] # <<>> /\ outbox'[u] = t /\ outbox[u] \in Seq(Event)
          /\ author' = author /\ joinedAt' = joinedAt
        BY <1>6, <2>1, <2>3
        DEF OnRoomJoined, OnTextMessage, Types, ViewOK, msgVars, raceVars
    <3>2. /\ 1 \in 1..Len(outbox[u]) /\ outbox[u][1] = h
          /\ h \in Event /\ EventUpTo(h, posts, joinedAt[u])
          /\ \A k \in 1..Len(t) : /\ k + 1 \in 1..Len(outbox[u]) /\ k + 1 > 1
                                  /\ t[k] = outbox[u][k + 1]
        BY <3>1, TakenTypes, TailIndex
    <3> HIDE DEF h, t
    <3>3. ASSUME ShownInOrder(u), ShownFirst(u), SentInOrder(u)
          PROVE  ShownInOrder(u)' /\ ShownFirst(u)' /\ SentInOrder(u)'
      <4>1. SentInOrder(u)'
        <5>1. ASSUME NEW k \in 1..Len(t), NEW l \in 1..Len(t),
                     k < l, ~IsReset(t[k]), ~IsReset(t[l])
              PROVE  InOrder(u, t[k].message, t[l].message)
          <6>1. /\ k + 1 \in 1..Len(outbox[u]) /\ l + 1 \in 1..Len(outbox[u])
                /\ k + 1 < l + 1
              BY <3>2, <5>1
          <6>2. t[k] = outbox[u][k + 1] /\ t[l] = outbox[u][l + 1]
              BY <3>2
          <6> QED
              BY <3>3, <5>1, <6>1, <6>2 DEF SentInOrder
        <5> QED
            BY <3>1, <5>1 DEF SentInOrder, InOrder
      <4>2. CASE OnRoomJoined(u)
        <5>1. IsReset(h) /\ shown'[u] = h.entries
            BY <4>2 DEF OnRoomJoined, AfterHistory, IsReset, h, Types, ViewOK
        <5>2. \A i \in 1..Len(shown'[u]) :
                  shown'[u][i] \in Int /\ ~(joinedAt'[u] < shown'[u][i])
          <6>1. h.entries \in Seq(Message)
              BY <3>2, <5>1, EventTypes DEF IsReset
          <6>2. \A i \in 1..Len(h.entries) : h.entries[i] \in Message
              BY <6>1
          <6>3. \A i \in 1..Len(h.entries) : h.entries[i] <= joinedAt[u]
              BY <3>2, <5>1 DEF EventUpTo
          <6>4. joinedAt[u] \in Nat
              BY DEF Types, ViewOK
          <6> QED
              BY <3>1, <5>1, <6>2, <6>3, <6>4 DEF Message
        <5> QED
            BY <4>1, <5>2 DEF ShownInOrder, ShownFirst, InOrder
      <4>3. CASE OnTextMessage(u)
        <5>1. /\ ~IsReset(h) /\ shown'[u] = Append(shown[u], h.message)
              /\ h.message \in Message /\ shown[u] \in Seq(Message)
            BY <3>2, <4>3, EventTypes
            DEF OnTextMessage, AfterText, IsReset, h, Types, ViewOK
        <5>2. ShownInOrder(u)'
          <6>1. ASSUME NEW i \in 1..Len(shown'[u]), NEW j \in 1..Len(shown'[u]), i < j
                PROVE  InOrder(u, shown'[u][i], shown'[u][j])
            <7>1. i \in 1..Len(shown[u]) /\ shown'[u][i] = shown[u][i]
                BY <5>1, <6>1, AppendIndex
            <7>2. CASE j \in 1..Len(shown[u])
                BY <3>3, <5>1, <6>1, <7>1, <7>2, AppendIndex DEF ShownInOrder
            <7>3. CASE j = Len(shown[u]) + 1
                BY <3>2, <3>3, <5>1, <7>1, <7>3, AppendIndex DEF ShownFirst
            <7> QED
                BY <5>1, <7>2, <7>3, AppendIndex
          <6> QED
              BY <3>1, <6>1 DEF ShownInOrder, InOrder
        <5>3. ShownFirst(u)'
          <6>1. ASSUME NEW i \in 1..Len(shown'[u]), NEW k \in 1..Len(t), ~IsReset(t[k])
                PROVE  InOrder(u, shown'[u][i], t[k].message)
            <7>1. CASE i \in 1..Len(shown[u])
              <8>1. shown'[u][i] = shown[u][i]
                  BY <5>1, <7>1, AppendIndex
              <8> QED
                  BY <3>2, <3>3, <6>1, <7>1, <8>1 DEF ShownFirst
            <7>2. CASE i = Len(shown[u]) + 1
              <8>1. shown'[u][i] = h.message
                  BY <5>1, <7>2, AppendIndex
              <8> QED
                  BY <3>2, <3>3, <5>1, <6>1, <8>1 DEF SentInOrder
            <7> QED
                BY <5>1, <7>1, <7>2, AppendIndex
          <6> QED
              BY <3>1, <6>1 DEF ShownFirst, InOrder
        <5> QED
            BY <4>1, <5>2, <5>3
      <4> QED
          BY <1>6, <2>3, <4>2, <4>3
    <3> QED
        BY <2>1, <3>3 DEF OrderInv, InJoin, roomVars
  <2> QED
      BY <2>2, <2>3
<1>7. CASE UNCHANGED vars
    BY <1>1, <1>7
    DEF vars, roomVars, msgVars, viewVars, raceVars, SameView, InJoin
<1> QED
    BY <1>2, <1>3, <1>4, <1>5, <1>6, <1>7, Steps

\* The messages of an author that a member gets live are shown in the order in
\* which they were posted (handlers_chat.go's broadcast, ui.js's addMessage).
THEOREM AuthorsKeepTheirOrder == Spec => []AuthorsStayInOrder
<1>1. Init => \A u \in User : OrderInv(u)
    BY DEF Init, OrderInv
<1>2. Types /\ (\A u \in User : OrderInv(u)) /\ [Next]_vars
          => (\A u \in User : OrderInv(u))'
    BY OrderStep
<1>3. Types /\ (\A u \in User : OrderInv(u)) => AuthorsStayInOrder
  <2>1. ASSUME Types, NEW u \in User, OrderInv(u), u \in seated, ~InJoin(u),
               NEW i \in DOMAIN shown[u], NEW j \in DOMAIN shown[u], i < j
        PROVE  InOrder(u, shown[u][i], shown[u][j])
    <3>1. DOMAIN shown[u] = 1..Len(shown[u])
        BY <2>1 DEF Types, ViewOK
    <3> QED
        BY <2>1, <3>1 DEF OrderInv, ShownInOrder
  <2>2. Types => seated \subseteq User
      BY DEF Types, RoomOK
  <2> QED
      BY <2>1, <2>2 DEF AuthorsStayInOrder, InOrder
<1> QED
    BY <1>1, <1>2, <1>3, TypesInvariant, PTL DEF Spec

-----------------------------------------------------------------------------
(***************************************************************************)
(* Once and once only.  First, what Load returns: every message whose row  *)
(* is among the newest, whichever way it breaks ties.                      *)
(***************************************************************************)
Edge(m) ==
    /\ m \in Stored
    /\ Cardinality({n \in Posted : stamp[n] >= stamp[m]}) <= MaxHistory

LEMMA LoadedOnce ==
    ASSUME Types, NEW s \in Sequences(Stored, MaxHistory), Loadable(s),
           NEW m \in Message, Edge(m)
    PROVE  OnceIn(s, m)
<1> USE ChatAssumption
<1> DEFINE k == Len(s)
           R == {s[j] : j \in 1..k}
           Late == {n \in Posted : stamp[n] >= stamp[m]}
<1>1. s \in [1..k -> Stored] /\ k \in Nat /\ k <= MaxHistory /\ DOMAIN s = 1..k
    BY LoadedTypes DEF Types
<1>2. \A i, j \in 1..k : s[i] = s[j] => i = j
  <2>1. \A i, j \in 1..k : i < j => s[i] # s[j]
      BY <1>1 DEF Loadable, Chronological
  <2> QED
      BY <1>1, <2>1
<1>3. IsFiniteSet(R) /\ Cardinality(R) = k
  <2>1. s \in Surjection(1..k, R) /\ s \in Injection(1..k, R)
      BY <1>1, <1>2, Zenon DEF Surjection, Injection, IsInjective, Range
  <2>2. ExistsBijection(1..k, R)
    <3>1. s \in Bijection(1..k, R)
        BY <2>1, Zenon DEF Bijection
    <3> QED
        BY <3>1, Zenon DEF ExistsBijection
  <2>3. IsFiniteSet(1..k) /\ Cardinality(1..k) = k
    <3> HIDE DEF k
    <3>1. /\ IsFiniteSet(1..k)
          /\ Cardinality(1..k) = IF 1 > k THEN 0 ELSE k - 1 + 1
        BY <1>1, FS_Interval
    <3> QED
        BY <1>1, <3>1
  <2> QED
      BY <2>2, <2>3, FS_Bijection
<1>4. SUFFICES m \in R
  <2>1. m \in R => \E i \in 1..k : s[i] = m /\ \A j \in 1..k : s[j] = m => j = i
      BY <1>2
  <2> QED
      BY <1>4, <2>1 DEF OnceIn
<1>5. SUFFICES ASSUME m \notin R
               PROVE  FALSE
    OBVIOUS
<1>6. R \subseteq Stored /\ R \subseteq Late /\ m \in Stored /\ m \in Late
  <2>1. R \subseteq Stored /\ m \in Stored
      BY <1>1 DEF Edge
  <2>2. \A i \in 1..k : stamp[m] <= stamp[s[i]]
      BY <1>1, <1>5, <2>1 DEF Loadable
  <2>3. Stored \subseteq Posted /\ \A n \in Posted : stamp[n] \in Nat
      BY PostedFinite DEF Types, MsgOK
  <2>4. R \subseteq Late
      BY <2>1, <2>2, <2>3
  <2> QED
      BY <2>1, <2>3, <2>4
<1>7. IsFiniteSet(Late) /\ Cardinality(Late) \in Nat /\ Cardinality(Late) <= MaxHistory
    BY PostedFinite, FS_Subset, FS_CardinalityType DEF Edge
<1> HIDE DEF Late, k, R
<1>8. /\ IsFiniteSet(R \cup {m}) /\ Cardinality(R \cup {m}) = k + 1
    BY <1>3, <1>5, FS_AddElement
<1>9. k + 1 <= Cardinality(Late) /\ k + 1 <= Cardinality(Stored)
    BY <1>6, <1>7, <1>8, PostedFinite, FS_Subset
<1>10. k = IF Cardinality(Stored) < MaxHistory THEN Cardinality(Stored)
                                               ELSE MaxHistory
    BY DEF Loadable, k
<1> QED
    BY <1>1, <1>7, <1>9, <1>10, PostedFinite

\* The messages that are as late as m become no fewer.
LEMMA LateGrows ==
    ASSUME Types, [Next]_vars, NEW m \in Posted,
           Cardinality({n \in Posted' : stamp'[n] >= stamp'[m]}) <= MaxHistory
    PROVE  Cardinality({n \in Posted : stamp[n] >= stamp[m]}) <= MaxHistory
<1> USE ChatAssumption
<1>1. /\ posts \in Nat /\ posts' \in Nat /\ posts <= posts'
      /\ \A n \in Posted : n \in Posted' /\ stamp'[n] = stamp[n]
  <2>1. ASSUME NEW w \in User, Post(w)
        PROVE  /\ posts' = posts + 1
               /\ \A n \in Posted : n \in Posted' /\ stamp'[n] = stamp[n]
      BY <2>1, PostChanges
  <2>2. ASSUME NEW w \in User, ~Post(w), Next
        PROVE  UNCHANGED msgVars \/ \E v \in User : Post(v)
      BY <2>2, Steps, ViewChanges
  <2>3. UNCHANGED vars => UNCHANGED msgVars
      BY DEF vars
  <2>4. UNCHANGED msgVars \/ \E v \in User : Post(v)
      BY <2>2, <2>3, Steps
  <2>5. /\ posts \in Nat
        /\ UNCHANGED msgVars => Posted' = Posted /\ posts' = posts /\ stamp' = stamp
      BY DEF Types, MsgOK, Posted, msgVars
  <2> QED
      BY <2>1, <2>4, <2>5
<1>4. {n \in Posted : stamp[n] >= stamp[m]}
          \subseteq {n \in Posted' : stamp'[n] >= stamp'[m]}
    BY <1>1
<1>5. IsFiniteSet(Posted')
    BY <1>1, FS_Interval DEF Posted
<1>6. /\ IsFiniteSet({n \in Posted' : stamp'[n] >= stamp'[m]})
      /\ Cardinality({n \in Posted : stamp[n] >= stamp[m]})
             <= Cardinality({n \in Posted' : stamp'[n] >= stamp'[m]})
    BY <1>4, <1>5, FS_Subset
<1>8. /\ Cardinality({n \in Posted : stamp[n] >= stamp[m]}) \in Nat
      /\ Cardinality({n \in Posted' : stamp'[n] >= stamp'[m]}) \in Nat
    BY <1>6, PostedFinite, FS_Subset, FS_CardinalityType
<1> QED
    BY <1>6, <1>8

\* A message that no handler is at work on does not come back among the newest.
LEMMA EdgeBack ==
    ASSUME Types, [Next]_vars, NEW m \in Message, Edge(m)',
           m \in Posted => \A a \in User : posting[a] # m
    PROVE  Edge(m) /\ m \in Posted
<1> USE ChatAssumption
<1>2. rows[m] # 0
  <2>1. rows'[m] # 0
      BY DEF Edge, Stored
  <2>2. ASSUME NEW w \in User, Insert(w)
        PROVE  rows[m] # 0
    <3>1. posting[w] \in Message
        BY <2>2 DEF Insert, Types, RoomOK, InPost
    <3>2. posting[w] \in Posted /\ posting[w] # m
        BY <3>1 DEF Types, MsgOK
    <3> QED
        BY <2>1, <2>2, <3>1, <3>2 DEF Insert, Types, DbOK
  <2>3. ASSUME NEW w \in User, Prune(w)
        PROVE  rows[m] # 0
      BY <2>1, <2>3 DEF Prune
  <2>4. ASSUME NEW w \in User,
               \/ Join(w) \/ LoadHistory(w) \/ LoadFails(w) \/ SendRoomJoined(w)
               \/ Leave(w)
               \/ Post(w) \/ InsertFails(w) \/ PostDone(w) \/ PruneFails(w)
               \/ Broadcast(w) \/ (\E v \in User : SendText(w, v))
               \/ OnRoomJoined(w) \/ OnTextMessage(w)
        PROVE  rows' = rows
      BY <2>4
      DEF Join, LoadHistory, LoadFails, SendRoomJoined, Leave, Post, InsertFails,
          PostDone, PruneFails,
          Broadcast, SendText, OnRoomJoined, OnTextMessage, dbVars
  <2>5. UNCHANGED vars => rows' = rows
      BY DEF vars, dbVars
  <2> QED
      BY <2>1, <2>2, <2>3, <2>4, <2>5 DEF Next
<1>3. m \in Stored /\ m \in Posted
    BY <1>2, PostedFinite DEF Stored
<1> QED
    BY <1>3, LateGrows DEF Edge

-----------------------------------------------------------------------------
(***************************************************************************)
(* What a page shows, and what is on its way to it.                        *)
(***************************************************************************)

\* A message that is not racing, and that room_joined covers or is going to, is
\* in no handler.
FreshInv(u) ==
    \A m \in Posted \ racing[u] :
        u \in seated /\ (InJoin(u) \/ m <= joinedAt[u])
            => \A a \in User : posting[a] # m

\* What comes before room_joined is older than it is.
ResetInv(u) ==
    \A k \in 1..Len(outbox[u]) : IsReset(outbox[u][k]) =>
        /\ UpTo(shown[u], joinedAt[u])
        /\ \A l \in 1..Len(outbox[u]) :
               l < k /\ ~IsReset(outbox[u][l]) => outbox[u][l].message <= joinedAt[u]

\* A handler has still to send the message to the page.
ToCome(u, m) == \E a \in User :
    /\ posting[a] = m
    /\ handler[a] = "sending" => u \in unsent[a]

NotYet(u, m) == NotIn(shown[u], m) /\ NoText(outbox[u], m)
OnItsWay(u, m) == NotIn(shown[u], m) /\ OneText(outbox[u], m)
IsShown(u, m) == OnceIn(shown[u], m) /\ NoText(outbox[u], m)

\* What was posted since the page got room_joined ...
LiveInv(u, m) ==
    u \in seated /\ ~InJoin(u) /\ m > joinedAt[u] =>
        IF ToCome(u, m) THEN NotYet(u, m) ELSE OnItsWay(u, m) \/ IsShown(u, m)

\* ... and before.
OldInv(u, m) ==
    u \in seated /\ u \notin unread /\ Edge(m) /\ m \notin racing[u] =>
        /\ handler[u] = "loaded" => OnceIn(history[u], m)
        /\ ~InJoin(u) /\ m <= joinedAt[u] =>
               \/ HistoryTells(outbox[u], m)
               \/ NoReset(outbox[u]) /\ IsShown(u, m)

OnceInv ==
    \A u \in User :
        /\ FreshInv(u) /\ ResetInv(u)
        /\ \A m \in Posted : LiveInv(u, m) /\ OldInv(u, m)

LEMMA FreshStep ==
    ASSUME Types, NEW u \in User, FreshInv(u), [Next]_vars
    PROVE  FreshInv(u)'
<1> USE ChatAssumption
<1>1. ASSUME \A a \in User : posting'[a] = posting[a] \/ posting'[a] = 0,
             Posted' = Posted, racing'[u] = racing[u],
             u \in seated' => /\ u \in seated
                              /\ InJoin(u)' => InJoin(u)
                              /\ joinedAt'[u] = joinedAt[u] \/ InJoin(u)
      PROVE  FreshInv(u)'
  <2>1. \A m \in Posted : m # 0
      BY DEF Posted, Types, MsgOK
  <2> QED
      BY <1>1, <2>1 DEF FreshInv
<1>2. ASSUME NEW w \in User, Join(w)
      PROVE  FreshInv(u)'
  <2>1. CASE w = u
    <3>1. /\ racing'[u] = {posting[v] : v \in {a \in User : InPost(a)}}
          /\ posting' = posting /\ Posted' = Posted
        BY <1>2, <2>1 DEF Join, msgVars, Posted, Types, RoomOK
    <3>2. ASSUME NEW m \in Posted, NEW a \in User, posting[a] = m
          PROVE  m \in racing'[u]
      <4>1. posting[a] # 0
          BY <3>2 DEF Posted, Types, MsgOK
      <4>2. InPost(a)
          BY <4>1 DEF Types, RoomOK
      <4> QED
          BY <3>1, <3>2, <4>2
    <3> QED
        BY <3>1, <3>2 DEF FreshInv
  <2>2. CASE w # u
      BY <1>1, <1>2, <2>2 DEF Join, msgVars, Posted, InJoin, Types, RoomOK
  <2> QED
      BY <2>1, <2>2
<1>3. ASSUME NEW w \in User, Post(w)
      PROVE  FreshInv(u)'
  <2>1. /\ Posted' = Posted \cup {posts'} /\ posts' \notin Posted
        /\ posts' = posts + 1 /\ posts \in Nat
      BY <1>3, PostChanges DEF Types, MsgOK
  <2>2. /\ posting' = [posting EXCEPT ![w] = posts'] /\ seated' = seated
        /\ joinedAt' = joinedAt /\ (InJoin(u)' => InJoin(u))
        /\ racing'[u] = IF InJoin(u) THEN racing[u] \cup {posts'} ELSE racing[u]
      BY <1>3 DEF Post, InJoin, Types, RoomOK
  <2>3. \A a \in User : posting'[a] = posting[a] \/ posting'[a] = posts'
      BY <2>2 DEF Types, RoomOK
  <2>4. joinedAt[u] \in Nat /\ joinedAt[u] <= posts
      BY DEF Types, ViewOK
  <2>5. ~(posts' <= joinedAt[u])
      BY <2>1, <2>4
  <2>6. ASSUME NEW m \in Posted', m \notin racing'[u], u \in seated',
               InJoin(u)' \/ m <= joinedAt'[u], NEW a \in User
        PROVE  posting'[a] # m
    <3>1. m # posts'
        BY <2>2, <2>5, <2>6
    <3>2. m \in Posted /\ m \notin racing[u]
        BY <2>1, <2>2, <2>6, <3>1
    <3>3. posting[a] # m
        BY <2>2, <2>6, <3>2 DEF FreshInv
    <3> QED
        BY <2>3, <3>1, <3>3
  <2> QED
      BY <2>6 DEF FreshInv
<1>4. ASSUME NEW w \in User,
             LoadHistory(w) \/ LoadFails(w) \/ SendRoomJoined(w) \/ Leave(w)
      PROVE  FreshInv(u)'
    BY <1>1, <1>4
    DEF LoadHistory, LoadFails, SendRoomJoined, Leave, msgVars, raceVars, Posted,
        InJoin,
        Types, RoomOK, ViewOK
<1>5. ASSUME NEW w \in User,
             \/ Insert(w) \/ InsertFails(w) \/ Prune(w) \/ PruneFails(w)
             \/ Broadcast(w) \/ PostDone(w)
      PROVE  FreshInv(u)'
    BY <1>1, <1>5
    DEF Insert, InsertFails, Prune, PruneFails, Broadcast, PostDone, msgVars,
        raceVars, Posted,
        InJoin, Types, RoomOK
<1>6. ASSUME NEW w \in User,
             OnRoomJoined(w) \/ OnTextMessage(w) \/ \E v \in User : SendText(w, v)
      PROVE  FreshInv(u)'
    BY <1>1, <1>6
    DEF OnRoomJoined, OnTextMessage, SendText, msgVars, raceVars, roomVars, Posted,
        InJoin
<1>7. CASE UNCHANGED vars
    BY <1>1, <1>7 DEF vars, msgVars, raceVars, roomVars, Posted, InJoin
<1> QED
    BY <1>2, <1>3, <1>4, <1>5, <1>6, <1>7 DEF Next

LEMMA ResetStep ==
    ASSUME Types, NEW u \in User, ResetInv(u), [Next]_vars
    PROVE  ResetInv(u)'
<1> USE ChatAssumption
<1>1. SameView(u) => ResetInv(u)'
    BY DEF SameView, ResetInv, UpTo
<1>2. ASSUME NEW w \in User, Elsewhere(w) \/ Post(w)
      PROVE  ResetInv(u)'
    BY <1>1, <1>2, ViewChanges
<1>3. ASSUME NEW w \in User, Leave(w)
      PROVE  ResetInv(u)'
  <2>1. CASE w = u
    <3>1. outbox' = outbox /\ joinedAt' = joinedAt /\ shown'[u] = <<>>
        BY <1>3, <2>1 DEF Leave, raceVars, Types, ViewOK
    <3>2. UpTo(shown'[u], joinedAt'[u])
        BY <3>1 DEF UpTo
    <3> QED
        BY <3>1, <3>2 DEF ResetInv
  <2> QED
      BY <1>1, <1>3, <2>1, ViewChanges
<1>4. ASSUME NEW w \in User, SendRoomJoined(w)
      PROVE  ResetInv(u)'
  <2>1. CASE w = u
    <3> DEFINE e == [type |-> "room_joined", entries |-> history[u]]
    <3>1. /\ joinedAt'[u] = posts /\ shown' = shown
          /\ outbox'[u] = Append(outbox[u], e) /\ outbox[u] \in Seq(Event)
        BY <1>4, <2>1 DEF SendRoomJoined, Enqueue, Types, ViewOK
    <3>2. e \in Event /\ IsReset(e)
        BY EventTypes DEF IsReset, Types, RoomOK
    <3> HIDE DEF e
    <3>3. UpTo(shown'[u], joinedAt'[u])
        BY <3>1 DEF Types, ViewOK
    <3>4. ASSUME NEW l \in 1..Len(outbox'[u]), ~IsReset(outbox'[u][l])
          PROVE  outbox'[u][l].message <= joinedAt'[u]
      <4>1. l \in 1..Len(outbox[u]) /\ outbox'[u][l] = outbox[u][l]
          BY <3>1, <3>2, <3>4, AppendIndex
      <4> QED
          BY <3>1, <3>4, <4>1, ViewPosted DEF Posted, Types, MsgOK
    <3> QED
        BY <3>3, <3>4 DEF ResetInv
  <2> QED
      BY <1>1, <1>4, <2>1, ViewChanges
<1>5. ASSUME NEW w \in User, NEW v \in User, SendText(w, v)
      PROVE  ResetInv(u)'
  <2>1. CASE v = u
    <3> DEFINE e == Text(w)
    <3>1. /\ outbox' = [outbox EXCEPT ![u] = Append(@, Text(w))]
          /\ posting[w] \in Message /\ shown' = shown /\ joinedAt' = joinedAt
        BY <1>5, <2>1, ViewChanges DEF raceVars
    <3>2. /\ outbox'[u] = Append(outbox[u], e) /\ outbox[u] \in Seq(Event)
          /\ e \in Event /\ ~IsReset(e)
        BY <3>1, EventTypes DEF Text, IsReset, Types, ViewOK
    <3> HIDE DEF e
    <3>3. ASSUME NEW k \in 1..Len(outbox'[u]), IsReset(outbox'[u][k])
          PROVE  k \in 1..Len(outbox[u]) /\ IsReset(outbox[u][k])
        BY <3>2, <3>3, AppendIndex
    <3>4. ASSUME NEW k \in 1..Len(outbox[u]), NEW l \in 1..Len(outbox'[u]), l < k
          PROVE  l \in 1..Len(outbox[u]) /\ outbox'[u][l] = outbox[u][l]
        BY <3>2, <3>4, AppendIndex
    <3> QED
        BY <3>1, <3>3, <3>4 DEF ResetInv, UpTo
  <2> QED
      BY <1>1, <1>5, <2>1, ViewChanges
<1>6. ASSUME NEW w \in User, OnRoomJoined(w) \/ OnTextMessage(w)
      PROVE  ResetInv(u)'
  <2>1. CASE w = u
    <3> DEFINE h == Head(outbox[u])
               t == Tail(outbox[u])
    <3>1. /\ outbox[u] # <<>> /\ outbox'[u] = t /\ outbox[u] \in Seq(Event)
          /\ joinedAt' = joinedAt
        BY <1>6, <2>1 DEF OnRoomJoined, OnTextMessage, Types, ViewOK, raceVars
    <3>2. /\ 1 \in 1..Len(outbox[u]) /\ outbox[u][1] = h
          /\ h \in Event /\ EventUpTo(h, posts, joinedAt[u])
          /\ \A k \in 1..Len(t) : /\ k + 1 \in 1..Len(outbox[u]) /\ k + 1 > 1
                                  /\ t[k] = outbox[u][k + 1]
        BY <3>1, TakenTypes, TailIndex
    <3> HIDE DEF t
    <3>3. ASSUME NEW k \in 1..Len(t), IsReset(t[k])
          PROVE  UpTo(shown'[u], joinedAt[u])
      <4>1. k + 1 \in 1..Len(outbox[u]) /\ IsReset(outbox[u][k + 1]) /\ 1 < k + 1
          BY <3>2, <3>3
      <4>2. CASE OnRoomJoined(u)
        <5>1. IsReset(h) /\ shown'[u] = h.entries
            BY <4>2 DEF OnRoomJoined, AfterHistory, IsReset, Types, ViewOK
        <5> QED
            BY <3>2, <5>1 DEF EventUpTo, UpTo
      <4>3. CASE OnTextMessage(u)
        <5>1. ~IsReset(h) /\ h.message \in Message /\ shown[u] \in Seq(Message)
            BY <3>2, <4>3, EventTypes DEF OnTextMessage, IsReset, Types, ViewOK
        <5>2. shown'[u] = Append(shown[u], h.message)
            BY <4>3 DEF OnTextMessage, AfterText, Types, ViewOK
        <5>3. UpTo(shown[u], joinedAt[u]) /\ h.message <= joinedAt[u]
            BY <3>2, <4>1, <5>1 DEF ResetInv
        <5> HIDE DEF h
        <5> QED
            BY <5>1, <5>2, <5>3, AppendIndex DEF UpTo
      <4> QED
          BY <1>6, <2>1, <4>2, <4>3
    <3>4. ASSUME NEW k \in 1..Len(t), IsReset(t[k]),
                 NEW l \in 1..Len(t), l < k, ~IsReset(t[l])
          PROVE  t[l].message <= joinedAt[u]
      <4>1. /\ k + 1 \in 1..Len(outbox[u]) /\ IsReset(outbox[u][k + 1])
            /\ l + 1 \in 1..Len(outbox[u]) /\ t[l] = outbox[u][l + 1] /\ l + 1 < k + 1
          BY <3>2, <3>4
      <4> QED
          BY <3>4, <4>1 DEF ResetInv
    <3> QED
        BY <3>1, <3>3, <3>4 DEF ResetInv
  <2> QED
      BY <1>1, <1>6, <2>1, ViewChanges
<1>7. CASE UNCHANGED vars
    BY <1>1, <1>7 DEF vars, viewVars, raceVars, SameView
<1> QED
    BY <1>2, <1>3, <1>4, <1>5, <1>6, <1>7, Steps

\* Only sending a message to a page makes it one that is no more to come.
LEMMA SameToCome ==
    ASSUME Types, NEW u \in User, u \in seated, NEW m \in Posted, NEW w \in User,
           \/ Elsewhere(w) \/ SendRoomJoined(w) \/ Leave(w) \/ Post(w)
           \/ OnRoomJoined(w) \/ OnTextMessage(w)
           \/ \E v \in User : SendText(w, v) /\ (v # u \/ posting[w] # m)
    PROVE  ToCome(u, m)' <=> ToCome(u, m)
<1> USE ChatAssumption
<1> DEFINE Comes(a) == /\ posting[a] = m
                       /\ handler[a] = "sending" => u \in unsent[a]
<1>1. m # 0
    BY DEF Posted, Types, MsgOK
<1>2. ASSUME NEW a \in User, a # w
      PROVE  Comes(a)' <=> Comes(a)
  <2>1. /\ posting'[a] = posting[a] /\ handler'[a] = handler[a]
        /\ unsent'[a] = unsent[a]
    <3>1. CASE Elsewhere(w)
        BY <1>2, <3>1
        DEF Elsewhere, Join, LoadHistory, LoadFails, Insert, InsertFails, Prune,
            PruneFails, Broadcast,
            PostDone, Types, RoomOK
    <3>2. CASE SendRoomJoined(w) \/ Leave(w) \/ Post(w)
        BY <1>2, <3>2 DEF SendRoomJoined, Leave, Post, Types, RoomOK
    <3>3. CASE OnRoomJoined(w) \/ OnTextMessage(w)
        BY <3>3 DEF OnRoomJoined, OnTextMessage, roomVars
    <3>4. CASE \E v \in User : SendText(w, v)
        BY <1>2, <3>4 DEF SendText, Types, RoomOK
    <3> QED
        BY <3>1, <3>2, <3>3, <3>4
  <2> QED
      BY <2>1
<1>3. Comes(w)' <=> Comes(w)
  <2>1. ASSUME ~InPost(w), posting'[w] = 0 \/ posting'[w] \notin Posted
        PROVE  Comes(w)' <=> Comes(w)
      BY <1>1, <2>1 DEF Types, RoomOK
  <2>2. CASE Join(w) \/ LoadHistory(w) \/ LoadFails(w) \/ SendRoomJoined(w) \/ Leave(w)
    <3>1. ~InPost(w) /\ posting' = posting
        BY <2>2 DEF Join, LoadHistory, LoadFails, SendRoomJoined, Leave, InPost
    <3> QED
        BY <2>1, <3>1 DEF Types, RoomOK
  <2>3. CASE Post(w)
    <3>1. ~InPost(w) /\ posting'[w] = posts' /\ posts' \notin Posted
        BY <2>3, PostChanges DEF Post, InPost, Types, RoomOK
    <3> QED
        BY <2>1, <3>1
  <2>4. CASE Insert(w) \/ InsertFails(w) \/ Prune(w) \/ PruneFails(w)
      BY <2>4 DEF Insert, InsertFails, Prune, PruneFails, Types, RoomOK
  <2>5. CASE Broadcast(w)
      BY <2>5 DEF Broadcast, Audience, Types, RoomOK
  <2>6. CASE PostDone(w)
      BY <1>1, <2>6 DEF PostDone, Types, RoomOK
  <2>7. CASE OnRoomJoined(w) \/ OnTextMessage(w)
      BY <2>7 DEF OnRoomJoined, OnTextMessage, roomVars
  <2>8. ASSUME NEW v \in User, SendText(w, v), v # u \/ posting[w] # m
        PROVE  Comes(w)' <=> Comes(w)
      BY <2>8 DEF SendText, Types, RoomOK
  <2> QED
      BY <2>2, <2>3, <2>4, <2>5, <2>6, <2>7, <2>8 DEF Elsewhere
<1> QED
    BY <1>2, <1>3 DEF ToCome

LEMMA LiveStep ==
    ASSUME Types, NEW u \in User, \A m \in Posted : LiveInv(u, m), ResetInv(u),
           [Next]_vars, NEW m \in Posted'
    PROVE  LiveInv(u, m)'
<1> USE ChatAssumption
<1>1. ASSUME SameView(u), m \in Posted,
             u \in seated => (ToCome(u, m)' <=> ToCome(u, m)),
             (u \in seated /\ ~InJoin(u))' => u \in seated /\ ~InJoin(u)
      PROVE  LiveInv(u, m)'
  <2>1. /\ NotYet(u, m)' = NotYet(u, m) /\ OnItsWay(u, m)' = OnItsWay(u, m)
        /\ IsShown(u, m)' = IsShown(u, m)
      BY <1>1 DEF SameView, NotYet, OnItsWay, IsShown
  <2> QED
      BY <1>1, <2>1 DEF LiveInv, SameView
<1>2. ASSUME NEW w \in User, Elsewhere(w)
      PROVE  LiveInv(u, m)'
  <2>1. SameView(u) /\ Posted' = Posted
      BY <1>2, ViewChanges DEF msgVars, Posted
  <2>2. (u \in seated /\ ~InJoin(u))' => u \in seated /\ ~InJoin(u)
      BY <1>2
      DEF Elsewhere, Join, LoadHistory, LoadFails, Insert, InsertFails, Prune,
          PruneFails, Broadcast,
          PostDone, InJoin, Types, RoomOK
  <2> QED
      BY <1>1, <1>2, <2>1, <2>2, SameToCome
<1>3. ASSUME NEW w \in User, Post(w)
      PROVE  LiveInv(u, m)'
  <2>1. /\ SameView(u) /\ Posted' = Posted \cup {posts'} /\ posts' \notin Posted
      BY <1>3, ViewChanges, PostChanges
  <2>2. CASE m \in Posted
    <3>1. (u \in seated /\ ~InJoin(u))' => u \in seated /\ ~InJoin(u)
        BY <1>3 DEF Post, InJoin, Types, RoomOK
    <3> QED
        BY <1>1, <1>3, <2>1, <2>2, <3>1, SameToCome
  <2>3. CASE m = posts'
    <3>1. ToCome(u, m)'
        BY <1>3, <2>3 DEF ToCome, Post, Types, RoomOK
    <3>2. NotIn(shown[u], m)
        BY <2>1, <2>3, ViewPosted DEF NotIn
    <3>3. NoText(outbox[u], m)
        BY <2>1, <2>3, ViewPosted DEF NoText, IsText, IsReset
    <3>4. NotYet(u, m)'
        BY <2>1, <3>2, <3>3 DEF NotYet, SameView
    <3> QED
        BY <3>1, <3>4 DEF LiveInv
  <2> QED
      BY <2>1, <2>2, <2>3
<1>4. ASSUME NEW w \in User, Leave(w)
      PROVE  LiveInv(u, m)'
  <2>1. CASE w = u
      BY <1>4, <2>1 DEF Leave, LiveInv
  <2>2. CASE w # u
    <3>1. SameView(u) /\ Posted' = Posted
        BY <1>4, <2>2, ViewChanges DEF msgVars, Posted
    <3>2. (u \in seated /\ ~InJoin(u))' => u \in seated /\ ~InJoin(u)
        BY <1>4, <2>2 DEF Leave, InJoin, Types, RoomOK
    <3> QED
        BY <1>1, <1>4, <3>1, <3>2, SameToCome
  <2> QED
      BY <2>1, <2>2
<1>5. ASSUME NEW w \in User, SendRoomJoined(w)
      PROVE  LiveInv(u, m)'
  <2>1. CASE w = u
      BY <1>5, <2>1 DEF SendRoomJoined, LiveInv, msgVars, Posted, Types, ViewOK, MsgOK
  <2>2. CASE w # u
    <3>1. SameView(u) /\ Posted' = Posted
        BY <1>5, <2>2, ViewChanges DEF msgVars, Posted
    <3>2. (u \in seated /\ ~InJoin(u))' => u \in seated /\ ~InJoin(u)
        BY <1>5, <2>2 DEF SendRoomJoined, InJoin, Types, RoomOK
    <3> QED
        BY <1>1, <1>5, <3>1, <3>2, SameToCome
  <2> QED
      BY <2>1, <2>2
<1>6. ASSUME NEW w \in User, NEW v \in User, SendText(w, v)
      PROVE  LiveInv(u, m)'
  <2>1. /\ seated' = seated /\ handler' = handler /\ shown' = shown
        /\ joinedAt' = joinedAt /\ Posted' = Posted /\ m \in Posted
        /\ posting' = posting /\ posting[w] \in Message
      BY <1>6, ViewChanges DEF msgVars, raceVars, Posted
  <2>2. CASE v # u
    <3>1. SameView(u)
        BY <1>6, <2>2, ViewChanges
    <3> QED
        BY <1>1, <1>6, <2>1, <2>2, <3>1, SameToCome DEF InJoin
  <2>3. CASE v = u
    <3> DEFINE e == Text(w)
    <3>1. /\ outbox'[u] = Append(outbox[u], e) /\ outbox[u] \in Seq(Event)
          /\ e \in Event /\ (IsText(e, m) <=> posting[w] = m)
      <4>1. outbox' = [outbox EXCEPT ![u] = Append(@, Text(w))]
          BY <1>6, <2>3, ViewChanges
      <4>2. outbox \in [User -> Seq(Event)]
          BY DEF Types, ViewOK
      <4> QED
          BY <2>1, <4>1, <4>2, EventTypes DEF Text, IsText
    <3> HIDE DEF e
    <3>2. SUFFICES ASSUME u \in seated, ~InJoin(u), m > joinedAt[u]
                   PROVE  IF ToCome(u, m)' THEN NotYet(u, m)'
                                           ELSE OnItsWay(u, m)' \/ IsShown(u, m)'
        BY <2>1 DEF LiveInv, InJoin
    <3>3. IF ToCome(u, m) THEN NotYet(u, m) ELSE OnItsWay(u, m) \/ IsShown(u, m)
        BY <2>1, <3>2 DEF LiveInv
    <3>4. CASE posting[w] # m
      <4>1. ToCome(u, m)' <=> ToCome(u, m)
          BY <1>6, <2>1, <3>2, <3>4, SameToCome
      <4> QED
          BY <2>1, <3>1, <3>3, <3>4, <4>1, SentEvent DEF NotYet, OnItsWay, IsShown
    <3>5. CASE posting[w] = m
      <4>1. ToCome(u, m)
          BY <1>6, <2>3, <3>5 DEF ToCome, SendText
      <4>2. \A a \in User : posting[a] = m => a = w
          BY <2>1, <3>5 DEF Types, MsgOK
      <4>3. handler[w] = "sending" /\ u \notin unsent'[w]
          BY <1>6, <2>3 DEF SendText, Types, RoomOK
      <4>4. ~ToCome(u, m)'
          BY <2>1, <4>2, <4>3 DEF ToCome
      <4> QED
          BY <2>1, <3>1, <3>3, <3>5, <4>1, <4>4, SentEvent DEF NotYet, OnItsWay
    <3> QED
        BY <3>4, <3>5
  <2> QED
      BY <2>2, <2>3
<1>7. ASSUME NEW w \in User, OnRoomJoined(w) \/ OnTextMessage(w)
      PROVE  LiveInv(u, m)'
  <2>1. /\ seated' = seated /\ handler' = handler /\ joinedAt' = joinedAt
        /\ Posted' = Posted /\ m \in Posted
      BY <1>7, ViewChanges DEF msgVars, raceVars, roomVars, Posted
  <2>2. CASE w # u
    <3>1. SameView(u)
        BY <1>7, <2>2, ViewChanges
    <3> QED
        BY <1>1, <1>7, <2>1, <3>1, SameToCome DEF InJoin
  <2>3. CASE w = u
    <3> DEFINE h == Head(outbox[u])
               t == Tail(outbox[u])
    <3>1. /\ outbox[u] # <<>> /\ outbox'[u] = t /\ outbox[u] \in Seq(Event)
        BY <1>7, <2>3 DEF OnRoomJoined, OnTextMessage, Types, ViewOK
    <3>2. /\ 1 \in 1..Len(outbox[u]) /\ outbox[u][1] = h
          /\ h \in Event /\ EventUpTo(h, posts, joinedAt[u])
        BY <3>1, TakenTypes, TailIndex
    <3>3. SUFFICES ASSUME u \in seated, ~InJoin(u), m > joinedAt[u]
                   PROVE  IF ToCome(u, m)' THEN NotYet(u, m)'
                                           ELSE OnItsWay(u, m)' \/ IsShown(u, m)'
        BY <2>1 DEF LiveInv, InJoin
    <3>4. IF ToCome(u, m) THEN NotYet(u, m) ELSE OnItsWay(u, m) \/ IsShown(u, m)
        BY <2>1, <3>3 DEF LiveInv
    <3>5. ToCome(u, m)' <=> ToCome(u, m)
        BY <1>7, <2>1, <3>3, SameToCome
    <3>6. CASE OnRoomJoined(u)
      <4>1. IsReset(h) /\ shown'[u] = h.entries /\ ~IsText(h, m)
          BY <3>6 DEF OnRoomJoined, AfterHistory, IsReset, IsText, Types, ViewOK
      <4>2. h.entries \in Seq(Message) /\ UpTo(h.entries, joinedAt[u])
          BY <3>2, <4>1, EventTypes DEF IsReset, EventUpTo, UpTo
      <4>3. joinedAt[u] \in Nat /\ m \in Nat
          BY <2>1 DEF Types, ViewOK, MsgOK, Posted
      <4>4. NotIn(shown'[u], m)
          BY <3>3, <4>1, <4>2, <4>3 DEF UpTo, NotIn
      <4>5. ~IsShown(u, m)
        <5>1. UpTo(shown[u], joinedAt[u])
            BY <3>2, <4>1 DEF ResetInv
        <5> QED
            BY <3>3, <4>3, <5>1 DEF UpTo, IsShown, OnceIn
      <4> HIDE DEF h, t
      <4> QED
          BY <3>1, <3>4, <3>5, <4>1, <4>4, <4>5, TakenEvent
          DEF NotYet, OnItsWay, h, t
    <3>7. CASE OnTextMessage(u)
      <4>1. /\ h.type = "text_message" /\ h.message \in Message
            /\ shown'[u] = Append(shown[u], h.message) /\ shown[u] \in Seq(Message)
          BY <3>2, <3>7, EventTypes DEF OnTextMessage, AfterText, Types, ViewOK
      <4>2. IsText(h, m) <=> h.message = m
          BY <4>1 DEF IsText
      <4>3. /\ NoText(outbox[u], m) => NoText(t, m) /\ ~IsText(h, m)
            /\ OneText(outbox[u], m) => IF IsText(h, m) THEN NoText(t, m)
                                                        ELSE OneText(t, m)
          BY <3>1, TakenEvent
      <4>4. /\ h.message # m /\ NotIn(shown[u], m) => NotIn(shown'[u], m)
            /\ h.message # m /\ OnceIn(shown[u], m) => OnceIn(shown'[u], m)
            /\ h.message = m /\ NotIn(shown[u], m) => OnceIn(shown'[u], m)
          BY <4>1, ShownAfterAppend
      <4> HIDE DEF h, t
      <4> QED
          BY <3>1, <3>4, <3>5, <4>2, <4>3, <4>4 DEF NotYet, OnItsWay, IsShown
    <3> QED
        BY <1>7, <2>3, <3>6, <3>7
  <2> QED
      BY <2>2, <2>3
<1>8. CASE UNCHANGED vars
  <2>1. SameView(u) /\ m \in Posted
      BY <1>8 DEF vars, viewVars, raceVars, msgVars, SameView, Posted
  <2> QED
      BY <1>1, <1>8, <2>1 DEF vars, roomVars, ToCome, InJoin
<1> QED
    BY <1>2, <1>3, <1>4, <1>5, <1>6, <1>7, <1>8, Steps

LEMMA OldStep ==
    ASSUME Types, NEW u \in User, FreshInv(u), \A m \in Posted : OldInv(u, m),
           [Next]_vars, NEW m \in Posted'
    PROVE  OldInv(u, m)'
<1> USE ChatAssumption
<1>1. SUFFICES ASSUME u \in seated', u \notin unread', Edge(m)', m \notin racing'[u],
                      handler'[u] = "loaded" \/ (~InJoin(u)' /\ m <= joinedAt'[u])
               PROVE  /\ handler'[u] = "loaded" => OnceIn(history'[u], m)
                      /\ ~InJoin(u)' /\ m <= joinedAt'[u] =>
                             \/ HistoryTells(outbox'[u], m)
                             \/ NoReset(outbox'[u]) /\ IsShown(u, m)'
    BY DEF OldInv
<1>2. m \in Message
    BY <1>1 DEF Edge, Stored
\* The message was as old before, and no handler is at work on it.
<1>3. ASSUME u \in seated, racing[u] \subseteq racing'[u],
             InJoin(u) \/ m <= joinedAt[u]
      PROVE  /\ Edge(m) /\ m \in Posted /\ m \notin racing[u]
             /\ \A a \in User : posting[a] # m
             /\ OldInv(u, m)
  <2>1. m \in Posted => \A a \in User : posting[a] # m
      BY <1>1, <1>3 DEF FreshInv
  <2>2. Edge(m) /\ m \in Posted
      BY <1>1, <1>2, <2>1, EdgeBack
  <2> QED
      BY <1>1, <1>3, <2>1, <2>2
<1>4. ASSUME SameView(u), u \in seated, u \notin unread,
             racing[u] \subseteq racing'[u],
             handler'[u] = "loaded" =>
                 handler[u] = "loaded" /\ history'[u] = history[u],
             InJoin(u)' <=> InJoin(u)
      PROVE  OldInv(u, m)'
  <2>1. InJoin(u) \/ m <= joinedAt[u]
      BY <1>1, <1>4 DEF SameView, InJoin
  <2>2. Edge(m) /\ m \notin racing[u] /\ OldInv(u, m)
      BY <1>3, <1>4, <2>1
  <2>3. IsShown(u, m)' <=> IsShown(u, m)
      BY <1>4 DEF SameView, IsShown
  <2> QED
      BY <1>1, <1>4, <2>2, <2>3 DEF OldInv, SameView
<1>5. ASSUME NEW w \in User, w # u,
             Elsewhere(w) \/ Post(w) \/ Leave(w) \/ SendRoomJoined(w)
      PROVE  OldInv(u, m)'
  <2>1. SameView(u)
      BY <1>5, ViewChanges
  <2>2. /\ u \in seated /\ handler'[u] = handler[u] /\ history'[u] = history[u]
        /\ racing[u] \subseteq racing'[u] /\ u \notin unread
    <3>1. CASE Elsewhere(w)
        BY <1>1, <1>5, <3>1
        DEF Elsewhere, Join, LoadHistory, LoadFails, Insert, InsertFails, Prune,
            PruneFails, Broadcast,
            PostDone, raceVars, Types, RoomOK
    <3>2. CASE Post(w) \/ Leave(w) \/ SendRoomJoined(w)
        BY <1>1, <1>5, <3>2 DEF Post, Leave, SendRoomJoined, raceVars, Types, RoomOK
    <3> QED
        BY <1>5, <3>1, <3>2
  <2> QED
      BY <1>4, <2>1, <2>2 DEF InJoin
<1>6. ASSUME Join(u) \/ Leave(u)
      PROVE  OldInv(u, m)'
    BY <1>1, <1>6 DEF Join, Leave, InJoin, Types, RoomOK
<1>7. ASSUME LoadHistory(u)
     PROVE  OldInv(u, m)'
  <2>1. PICK s \in Sequences(Stored, MaxHistory) :
            Loadable(s) /\ history' = [history EXCEPT ![u] = s]
      BY <1>7 DEF LoadHistory
  <2>2. /\ u \in seated /\ racing' = racing /\ InJoin(u) /\ InJoin(u)'
        /\ history'[u] = s /\ u \notin unread
      BY <1>1, <1>7, <2>1 DEF LoadHistory, raceVars, InJoin, Types, RoomOK
  <2>3. Edge(m)
      BY <1>3, <2>2
  <2> QED
      BY <1>1, <1>2, <2>1, <2>2, <2>3, LoadedOnce DEF OldInv
<1>15. ASSUME LoadFails(u)
       PROVE  OldInv(u, m)'
    BY <1>1, <1>15 DEF LoadFails
<1>8. ASSUME SendRoomJoined(u)
     PROVE  OldInv(u, m)'
  <2> DEFINE e == [type |-> "room_joined", entries |-> history[u]]
  <2>1. /\ u \in seated /\ racing' = racing /\ InJoin(u) /\ handler[u] = "loaded"
        /\ handler'[u] = "idle" /\ u \notin unread
        /\ outbox'[u] = Append(outbox[u], e) /\ outbox[u] \in Seq(Event)
      BY <1>1, <1>8 DEF SendRoomJoined, Enqueue, InJoin, Types, RoomOK, ViewOK
  <2>2. OnceIn(history[u], m)
      BY <1>3, <2>1 DEF OldInv
  <2>3. e \in Event /\ IsReset(e) /\ OnceIn(e.entries, m)
      BY <2>2, EventTypes DEF IsReset, Types, RoomOK
  <2> HIDE DEF e
  <2>4. HistoryTells(outbox'[u], m)
      BY <2>1, <2>3, SentEvent
  <2> QED
      BY <2>1, <2>4 DEF OldInv
<1>9. ASSUME Elsewhere(u) \/ Post(u)
     PROVE  OldInv(u, m)'
  <2>1. SameView(u)
      BY <1>9, ViewChanges
  <2>2. CASE ~Join(u) /\ ~LoadHistory(u) /\ ~LoadFails(u)
    <3>1. /\ u \in seated /\ handler'[u] # "loaded" /\ ~InJoin(u) /\ ~InJoin(u)'
          /\ racing[u] \subseteq racing'[u] /\ u \notin unread
      <4>1. CASE Post(u)
          BY <1>1, <4>1 DEF Post, InJoin, Types, RoomOK
      <4>2. CASE Elsewhere(u)
          BY <1>1, <2>2, <4>2
          DEF Elsewhere, Insert, InsertFails, Prune, PruneFails, Broadcast,
              PostDone, raceVars,
              InJoin, Types, RoomOK
      <4> QED
          BY <1>9, <4>1, <4>2
    <3> QED
        BY <1>4, <2>1, <3>1
  <2> QED
      BY <1>6, <1>7, <1>15, <2>2
<1>10. ASSUME NEW w \in User, NEW v \in User, SendText(w, v)
       PROVE  OldInv(u, m)'
  <2>1. /\ seated' = seated /\ handler' = handler /\ shown' = shown
        /\ joinedAt' = joinedAt /\ racing' = racing /\ history' = history
        /\ posting[w] \in Message /\ unread' = unread
      BY <1>10, ViewChanges DEF raceVars, SendText
  <2>2. CASE v # u
    <3>1. SameView(u)
        BY <1>10, <2>2, ViewChanges
    <3> QED
        BY <1>1, <1>4, <2>1, <3>1 DEF InJoin
  <2>3. CASE v = u
    <3> DEFINE e == Text(w)
    <3>1. /\ outbox'[u] = Append(outbox[u], e) /\ outbox[u] \in Seq(Event)
          /\ e \in Event /\ ~IsReset(e) /\ (IsText(e, m) <=> posting[w] = m)
      <4>1. outbox' = [outbox EXCEPT ![u] = Append(@, Text(w))]
          BY <1>10, <2>3, ViewChanges
      <4>2. outbox \in [User -> Seq(Event)]
          BY DEF Types, ViewOK
      <4> QED
          BY <2>1, <4>1, <4>2, EventTypes DEF Text, IsText, IsReset
    <3> HIDE DEF e
    <3>2. /\ Edge(m) /\ m \notin racing[u] /\ OldInv(u, m) /\ posting[w] # m
          /\ u \in seated
        BY <1>1, <1>3, <2>1 DEF InJoin
    <3>3. /\ HistoryTells(outbox[u], m) => HistoryTells(outbox'[u], m)
          /\ NoReset(outbox[u]) => NoReset(outbox'[u])
          /\ NoText(outbox[u], m) => NoText(outbox'[u], m)
        BY <3>1, <3>2, SentEvent
    <3> QED
        BY <2>1, <3>2, <3>3 DEF OldInv, IsShown, InJoin
  <2> QED
      BY <2>2, <2>3
<1>11. ASSUME NEW w \in User, OnRoomJoined(w) \/ OnTextMessage(w)
       PROVE  OldInv(u, m)'
  <2>1. /\ seated' = seated /\ handler' = handler /\ history' = history
        /\ joinedAt' = joinedAt /\ racing' = racing /\ unread' = unread
      BY <1>11, ViewChanges DEF raceVars, roomVars
  <2>2. CASE w # u
    <3>1. SameView(u)
        BY <1>11, <2>2, ViewChanges
    <3> QED
        BY <1>1, <1>4, <2>1, <3>1 DEF InJoin
  <2>3. CASE w = u
    <3> DEFINE h == Head(outbox[u])
               t == Tail(outbox[u])
    <3>1. /\ outbox[u] # <<>> /\ outbox'[u] = t /\ outbox[u] \in Seq(Event)
        BY <1>11, <2>3 DEF OnRoomJoined, OnTextMessage, Types, ViewOK
    <3>2. /\ 1 \in 1..Len(outbox[u]) /\ outbox[u][1] = h /\ h \in Event
        BY <3>1, TakenTypes, TailIndex
    <3>3. Edge(m) /\ m \notin racing[u] /\ OldInv(u, m) /\ u \in seated
        BY <1>1, <1>3, <2>1 DEF InJoin
    <3>4. /\ NoText(outbox[u], m) => NoText(t, m) /\ ~IsText(h, m)
          /\ NoReset(outbox[u]) => NoReset(t) /\ ~IsReset(h)
          /\ HistoryTells(outbox[u], m) =>
                 \/ HistoryTells(t, m)
                 \/ /\ IsReset(h) /\ OnceIn(h.entries, m)
                    /\ NoReset(t) /\ NoText(t, m)
        BY <3>1, TakenEvent
    <3>5. CASE OnRoomJoined(u)
      <4>1. IsReset(h) /\ shown'[u] = h.entries
          BY <3>5 DEF OnRoomJoined, AfterHistory, IsReset, Types, ViewOK
      <4> HIDE DEF h, t
      <4> QED
          BY <2>1, <3>1, <3>3, <3>4, <4>1 DEF OldInv, IsShown, InJoin
    <3>6. CASE OnTextMessage(u)
      <4>1. /\ h.type = "text_message" /\ ~IsReset(h) /\ h.message \in Message
            /\ shown'[u] = Append(shown[u], h.message) /\ shown[u] \in Seq(Message)
          BY <3>2, <3>6, EventTypes
          DEF OnTextMessage, AfterText, IsReset, Types, ViewOK
      <4>2. IsText(h, m) <=> h.message = m
          BY <4>1 DEF IsText
      <4>3. h.message # m /\ OnceIn(shown[u], m) => OnceIn(shown'[u], m)
          BY <4>1, ShownAfterAppend
      <4> HIDE DEF h, t
      <4> QED
          BY <2>1, <3>1, <3>3, <3>4, <4>1, <4>2, <4>3 DEF OldInv, IsShown, InJoin
    <3> QED
        BY <1>11, <2>3, <3>5, <3>6
  <2> QED
      BY <2>2, <2>3
<1>12. ASSUME UNCHANGED vars
      PROVE  OldInv(u, m)'
  <2>1. SameView(u) /\ UNCHANGED <<roomVars, raceVars>>
      BY <1>12 DEF vars, viewVars, raceVars, SameView
  <2> QED
      BY <1>1, <1>4, <2>1 DEF roomVars, raceVars, InJoin
<1>13. ASSUME NEW w \in User,
              Elsewhere(w) \/ SendRoomJoined(w) \/ Leave(w) \/ Post(w)
       PROVE  OldInv(u, m)'
  <2>1. CASE w = u
    <3>1. Elsewhere(u) \/ SendRoomJoined(u) \/ Leave(u) \/ Post(u)
        BY <1>13, <2>1
    <3> QED
        BY <1>6, <1>8, <1>9, <3>1
  <2> QED
      BY <1>5, <1>13, <2>1
<1>14. OldInv(u, m)'
    BY <1>10, <1>11, <1>12, <1>13, Steps
<1> QED
    BY <1>1, <1>14 DEF OldInv

\* What was saved and is among the newest is stored: no prune has taken it.
SavedInv ==
    \A m \in saved :
        Cardinality({n \in Posted : stamp[n] >= stamp[m]}) <= MaxHistory => m \in Stored

LEMMA SavedStep ==
    ASSUME Types, SavedInv, [Next]_vars
    PROVE  SavedInv'
<1> USE ChatAssumption
<1>1. SUFFICES ASSUME NEW m \in saved',
                      Cardinality({n \in Posted' : stamp'[n] >= stamp'[m]})
                          <= MaxHistory
               PROVE  m \in Stored'
    BY DEF SavedInv
<1>2. ASSUME m \in saved
      PROVE  m \in Stored /\ m \in Posted
             /\ Cardinality({n \in Posted : stamp[n] >= stamp[m]}) <= MaxHistory
  <2>1. m \in Posted
      BY <1>2 DEF Types, DbOK
  <2>2. Cardinality({n \in Posted : stamp[n] >= stamp[m]}) <= MaxHistory
      BY <1>1, <2>1, LateGrows
  <2> QED
      BY <1>2, <2>1, <2>2 DEF SavedInv
<1>3. ASSUME NEW w \in User, Insert(w)
      PROVE  m \in Stored'
  <2>1. /\ posting[w] \in Message /\ lastID' # 0
        /\ rows' = [rows EXCEPT ![posting[w]] = lastID']
        /\ saved' = saved \cup {posting[w]}
      BY <1>3 DEF Insert, NextID, Types, RoomOK, DbOK, InPost
  <2>2. CASE m = posting[w]
      BY <2>1, <2>2 DEF Stored, Types, DbOK
  <2>3. CASE m # posting[w]
    <3>1. m \in Stored
        BY <1>2, <2>1, <2>3, <1>1
    <3> QED
        BY <2>1, <2>3, <3>1 DEF Stored, Types, DbOK
  <2> QED
      BY <2>2, <2>3
<1>4. ASSUME NEW w \in User, Prune(w)
      PROVE  m \in Stored'
  <2>1. /\ m \in saved
        /\ rows' = [n \in Message |-> IF n \in Kept THEN rows[n] ELSE 0]
      BY <1>1, <1>4 DEF Prune
  <2>2. /\ m \in Stored /\ m \in Posted
        /\ Cardinality({n \in Posted : stamp[n] >= stamp[m]}) <= MaxHistory
      BY <1>2, <2>1
  <2> DEFINE Late == {n \in Posted : stamp[n] >= stamp[m]}
             New == {n \in Stored : Newer(n, m)}
  <2>3. IsFiniteSet(Late) /\ Cardinality(Late) \in Nat
      BY PostedFinite, FS_Subset, FS_CardinalityType
  <2>4. New \subseteq Late \ {m}
    <3>1. \A n \in Posted : stamp[n] \in Nat
        BY PostedFinite DEF Types, MsgOK
    <3>2. ASSUME NEW n \in New
          PROVE  n \in Late /\ n # m
        BY <2>2, <3>1, <3>2, PostedFinite DEF Newer, Types, DbOK, Stored
    <3> QED
        BY <3>2
  <2>5. m \in Late
      BY <2>2 DEF Types, MsgOK, Posted, Message
  <2> HIDE DEF Late, New
  <2>6. /\ IsFiniteSet(Late \ {m})
        /\ Cardinality(Late \ {m}) = Cardinality(Late) - 1
      BY <2>3, <2>5, FS_RemoveElement
  <2>7. Cardinality(New) <= Cardinality(Late \ {m}) /\ Cardinality(New) \in Nat
      BY <2>4, <2>6, FS_Subset, FS_CardinalityType
  <2>8. Cardinality(Late) <= MaxHistory
      BY <2>2 DEF Late
  <2>9. Cardinality(New) < MaxHistory
      BY <2>3, <2>6, <2>7, <2>8
  <2>10. m \in Kept
      BY <2>2, <2>9 DEF Kept, New
  <2> QED
      BY <2>1, <2>2, <2>10, PostedFinite DEF Stored
<1>5. ASSUME UNCHANGED <<rows, saved>>
      PROVE  m \in Stored'
    BY <1>1, <1>2, <1>5 DEF Stored
<1>6. ASSUME NEW w \in User,
             \/ Join(w) \/ LoadHistory(w) \/ LoadFails(w) \/ SendRoomJoined(w)
             \/ Leave(w) \/ Post(w) \/ InsertFails(w) \/ PostDone(w)
             \/ PruneFails(w) \/ Broadcast(w) \/ (\E v \in User : SendText(w, v))
             \/ OnRoomJoined(w) \/ OnTextMessage(w)
      PROVE  UNCHANGED <<rows, saved>>
    BY <1>6
    DEF Join, LoadHistory, LoadFails, SendRoomJoined, Leave, Post, InsertFails,
        PostDone, PruneFails, Broadcast, SendText, OnRoomJoined, OnTextMessage, dbVars
<1>7. UNCHANGED vars => UNCHANGED <<rows, saved>>
    BY DEF vars, dbVars
<1> QED
    BY <1>3, <1>4, <1>5, <1>6, <1>7 DEF Next

\* Once all is delivered, a member's page shows a message posted since it got
\* room_joined exactly once, and so an earlier one that was saved and is among the
\* newest, unless it was being posted while the user joined or the history could
\* not be loaded (handleTextMessage, handleJoinRoom, ui.js's addMessage, showRoom).
THEOREM EveryMessageOnce == Spec => []EachOnceUnlessRacing
<1>1. Init => OnceInv /\ SavedInv
  <2>1. ASSUME Init, NEW u \in User
        PROVE  FreshInv(u) /\ ResetInv(u)
                   /\ \A m \in Posted : LiveInv(u, m) /\ OldInv(u, m)
      BY <2>1, ChatAssumption DEF Init, FreshInv, ResetInv, LiveInv, OldInv
  <2>2. Init => SavedInv
      BY DEF Init, SavedInv
  <2> QED
      BY <2>1, <2>2 DEF OnceInv
<1>2. Types /\ OnceInv /\ SavedInv /\ [Next]_vars => OnceInv' /\ SavedInv'
    BY FreshStep, ResetStep, LiveStep, OldStep, SavedStep DEF OnceInv
<1>3. ASSUME Types, OnceInv, SavedInv
      PROVE  EachOnceUnlessRacing
  <2>1. SUFFICES ASSUME Quiet, NEW u \in seated, NEW m \in Posted \ racing[u],
                        m > joinedAt[u] \/ (u \notin unread /\ Edge(m))
                 PROVE  Times(u, m) = 1
      BY <1>3 DEF EachOnceUnlessRacing, Edge, SavedInv
  <2>2. /\ u \in User /\ outbox[u] = <<>> /\ ~InJoin(u)
        /\ \A a \in User : posting[a] = 0
      BY <1>3, <2>1 DEF Quiet, Types, RoomOK, InJoin, InPost
  <2>3. m # 0 /\ m \in Nat /\ joinedAt[u] \in Nat
      BY <1>3, <2>2 DEF Types, MsgOK, ViewOK, Posted
  <2>4. ~ToCome(u, m)
      BY <2>2, <2>3 DEF ToCome
  <2>5. ~OneText(outbox[u], m) /\ ~HistoryTells(outbox[u], m)
      BY <2>2 DEF OneText, HistoryTells
  <2>6. OnceIn(shown[u], m)
    <3>1. LiveInv(u, m) /\ OldInv(u, m)
        BY <1>3, <2>2 DEF OnceInv
    <3>2. CASE m > joinedAt[u]
        BY <2>2, <2>4, <2>5, <3>1, <3>2 DEF LiveInv, OnItsWay, IsShown
    <3>3. CASE ~(m > joinedAt[u])
      <4>1. m <= joinedAt[u]
          BY <2>3, <3>3
      <4> QED
          BY <2>1, <2>2, <2>5, <3>1, <3>3, <4>1 DEF OldInv, IsShown
    <3> QED
        BY <3>2, <3>3
  <2>7. PICK i \in 1..Len(shown[u]) :
            shown[u][i] = m /\ \A j \in 1..Len(shown[u]) : shown[u][j] = m => j = i
      BY <2>6 DEF OnceIn
  <2>8. DOMAIN shown[u] = 1..Len(shown[u])
      BY <1>3, <2>2 DEF Types, ViewOK
  <2>9. {j \in DOMAIN shown[u] : shown[u][j] = m} = {i}
      BY <2>7, <2>8
  <2> QED
      BY <2>9, FS_Singleton DEF Times
<1> QED
    BY <1>1, <1>2, <1>3, TypesInvariant, PTL DEF Spec

=============================================================================
