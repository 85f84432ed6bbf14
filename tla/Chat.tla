-------------------------------- MODULE Chat --------------------------------
(***************************************************************************)
(* Text messages in a room: what handleTextMessage saves and sends, what   *)
(* the database keeps of it, and what the pages of the members show.       *)
(*                                                                         *)
(* A message reaches a page live, or in the history that room_joined       *)
(* carries.  No lock spans the save, the prune and the broadcast of a      *)
(* message, nor the seat, the history and the room_joined of a newcomer.   *)
(* Posts can overlap joins and each other in every way.                    *)
(***************************************************************************)
EXTENDS FiniteSets, Integers, Sequences

CONSTANTS
    User,        \* signed-in users, one connection each
    MaxHistory,  \* rows kept per room, and entries replayed (main.go)
    MaxPosts,    \* bound: messages posted
    MaxMoves     \* bound: joins

ASSUME ChatAssumption ==
    /\ IsFiniteSet(User)
    /\ MaxHistory \in Nat \ {0}
    /\ MaxPosts \in Nat /\ MaxMoves \in Nat

VARIABLES
    seated,    \* the users in room.clients
    handler,   \* where a user's reader is
    posting,   \* the message its handler works on
    unsent,    \* members its broadcast has still to send to
    history,   \* what loadHistory returned
    posts,     \* messages posted so far, numbered in the order of their stamps
    author, stamp,
    rows,      \* the messages table: the row ID of a message, 0 for none
    lastID,    \* AUTOINCREMENT
    saved,     \* history: messages whose insert succeeded
    overdue,   \* history: messages whose prune failed, since one succeeded
    outbox,    \* what is on its way to a page, in order
    shown,     \* the messages a page shows, from top to bottom
    racing,    \* history: messages in a handler during the user's last join
    joinedAt,  \* history: posts when the user's room_joined was sent
    unread,    \* history: members whose join could not load the history
    moves      \* joins so far

roomVars == <<seated, handler, posting, unsent, history>>
dbVars   == <<rows, lastID, saved, overdue>>
msgVars  == <<posts, author, stamp>>
viewVars == <<outbox, shown>>
raceVars == <<racing, joinedAt, unread>>
vars == <<roomVars, dbVars, msgVars, viewVars, raceVars, moves>>

Message == 1..MaxPosts
NoUser == "nobody"

HistoryEvent == [type : {"room_joined"}, entries : Seq(Message)]
TextEvent == [type : {"text_message"}, message : Message]

Posted == 1..posts
Stored == {m \in Message : rows[m] # 0}

TypeOK ==
    /\ seated \subseteq User
    /\ handler \in [User -> {"out", "entered", "loaded", "idle", "stamped",
                             "inserted", "saved", "sending"}]
    /\ posting \in [User -> Message \cup {0}]
    /\ unsent \in [User -> SUBSET User]
    /\ history \in [User -> Seq(Message)]
    /\ posts \in 0..MaxPosts
    /\ author \in [Message -> User \cup {NoUser}]
    /\ stamp \in [Message -> Nat]
    /\ rows \in [Message -> 0..lastID]
    /\ lastID \in 0..MaxPosts
    /\ saved \subseteq Message /\ overdue \subseteq Message
    /\ \A u \in User : outbox[u] \in Seq(HistoryEvent \cup TextEvent)
    /\ shown \in [User -> Seq(Message)]
    /\ racing \in [User -> SUBSET Message]
    /\ joinedAt \in [User -> 0..MaxPosts]
    /\ unread \subseteq User
    /\ moves \in 0..MaxMoves
    /\ \A u \in User : u \in seated <=> handler[u] # "out"
    /\ \A m, n \in Stored : m # n => rows[m] # rows[n]

Init ==
    /\ seated = {}
    /\ handler = [u \in User |-> "out"]
    /\ posting = [u \in User |-> 0]
    /\ unsent = [u \in User |-> {}]
    /\ history = [u \in User |-> <<>>]
    /\ posts = 0
    /\ author = [m \in Message |-> NoUser]
    /\ stamp = [m \in Message |-> 0]
    /\ rows = [m \in Message |-> 0]
    /\ lastID = 0
    /\ saved = {} /\ overdue = {}
    /\ outbox = [u \in User |-> <<>>]
    /\ shown = [u \in User |-> <<>>]
    /\ racing = [u \in User |-> {}]
    /\ joinedAt = [u \in User |-> 0]
    /\ unread = {}
    /\ moves = 0

-----------------------------------------------------------------------------
(* Helpers *)

InJoin(u) == handler[u] \in {"entered", "loaded"}
InPost(u) == handler[u] \in {"stamped", "inserted", "saved", "sending"}

Enqueue(u, e) == outbox' = [outbox EXCEPT ![u] = Append(@, e)]

\* ORDER BY timestamp DESC, id DESC.
Newer(m, n) == \/ stamp[m] > stamp[n]
               \/ stamp[m] = stamp[n] /\ rows[m] > rows[n]

\* The rows of the prune's subquery.
MutKept == {m \in Stored : Cardinality({n \in Stored : Newer(n, m)}) <= MaxHistory}
Kept == {m \in Stored : Cardinality({n \in Stored : Newer(n, m)}) < MaxHistory}

\* Load: some MaxHistory of the newest rows, equal stamps in any order.
Chronological(s) ==
    \A i, j \in DOMAIN s : i < j => s[i] # s[j] /\ stamp[s[i]] <= stamp[s[j]]

Loadable(s) ==
    /\ Len(s) = IF Cardinality(Stored) < MaxHistory THEN Cardinality(Stored)
                                                    ELSE MaxHistory
    /\ Chronological(s)
    /\ \A i \in DOMAIN s, m \in Stored \ {s[j] : j \in DOMAIN s} :
           stamp[m] <= stamp[s[i]]

Sequences(S, n) == UNION {[1..k -> S] : k \in 0..n}

\* The members a broadcast goes to: a snapshot, the sender included.
MutAudience(u) == seated \ {u}
Audience(u) == seated

\* What room_joined puts in place of what the page showed.
AfterHistory(u, entries) == entries

\* addMessage.
MutAfterText(u, m) == <<m>> \o shown[u]
AfterText(u, m) == Append(shown[u], m)

\* AUTOINCREMENT never gives a row ID twice.
NextID == lastID + 1

-----------------------------------------------------------------------------
(* handleJoinRoom, handleLeaveRoom *)

Join(u) ==
    /\ handler[u] = "out"
    /\ moves < MaxMoves
    /\ moves' = moves + 1
    /\ seated' = seated \cup {u}
    /\ handler' = [handler EXCEPT ![u] = "entered"]
    /\ racing' = [racing EXCEPT ![u] = {posting[v] : v \in {w \in User : InPost(w)}}]
    /\ unread' = unread \ {u}
    /\ UNCHANGED <<posting, unsent, history, dbVars, msgVars, viewVars, joinedAt>>

\* loadHistory, outside any lock.
LoadHistory(u) ==
    /\ handler[u] = "entered"
    /\ \E s \in Sequences(Stored, MaxHistory) :
           /\ Loadable(s)
           /\ history' = [history EXCEPT ![u] = s]
    /\ handler' = [handler EXCEPT ![u] = "loaded"]
    /\ UNCHANGED <<seated, posting, unsent, dbVars, msgVars, viewVars,
                   raceVars, moves>>

\* The query, a row or the end of the rows reports an error: logged, and the
\* newcomer gets no history.
LoadFails(u) ==
    /\ handler[u] = "entered"
    /\ history' = [history EXCEPT ![u] = <<>>]
    /\ handler' = [handler EXCEPT ![u] = "loaded"]
    /\ unread' = unread \cup {u}
    /\ UNCHANGED <<seated, posting, unsent, dbVars, msgVars, viewVars, racing,
                   joinedAt, moves>>

SendRoomJoined(u) ==
    /\ handler[u] = "loaded"
    /\ Enqueue(u, [type |-> "room_joined", entries |-> history[u]])
    /\ handler' = [handler EXCEPT ![u] = "idle"]
    /\ history' = [history EXCEPT ![u] = <<>>]
    /\ joinedAt' = [joinedAt EXCEPT ![u] = posts]
    /\ UNCHANGED <<seated, posting, unsent, dbVars, msgVars, shown, racing,
                   unread, moves>>

\* The leave button: hideRoom empties the page.
Leave(u) ==
    /\ handler[u] = "idle"
    /\ seated' = seated \ {u}
    /\ handler' = [handler EXCEPT ![u] = "out"]
    /\ shown' = [shown EXCEPT ![u] = <<>>]
    /\ unread' = unread \ {u}
    /\ UNCHANGED <<posting, unsent, history, dbVars, msgVars, outbox, racing,
                   joinedAt, moves>>

-----------------------------------------------------------------------------
(* handleTextMessage *)

\* A member's message is stamped; the clock need not have moved on.
Post(u) ==
    /\ handler[u] = "idle"
    /\ posts < MaxPosts
    /\ posts' = posts + 1
    /\ handler' = [handler EXCEPT ![u] = "stamped"]
    /\ posting' = [posting EXCEPT ![u] = posts']
    /\ author' = [author EXCEPT ![posts'] = u]
    /\ \E t \in {0, 1} :
           stamp' = [stamp EXCEPT ![posts'] =
                        t + IF posts = 0 THEN 0 ELSE stamp[posts]]
    /\ racing' = [v \in User |-> IF InJoin(v) THEN racing[v] \cup {posts'}
                                              ELSE racing[v]]
    /\ UNCHANGED <<seated, unsent, history, dbVars, viewVars, joinedAt, unread,
                   moves>>

Insert(u) ==
    /\ handler[u] = "stamped"
    /\ lastID' = NextID
    /\ rows' = [rows EXCEPT ![posting[u]] = lastID']
    /\ saved' = saved \cup {posting[u]}
    /\ handler' = [handler EXCEPT ![u] = "inserted"]
    /\ UNCHANGED <<seated, posting, unsent, history, overdue, msgVars, viewVars,
                   raceVars, moves>>

\* The insert fails: logged, and the message is delivered all the same.
InsertFails(u) ==
    /\ handler[u] = "stamped"
    /\ handler' = [handler EXCEPT ![u] = "saved"]
    /\ UNCHANGED <<seated, posting, unsent, history, dbVars, msgVars, viewVars,
                   raceVars, moves>>

\* The prune, a statement of its own.
Prune(u) ==
    /\ handler[u] = "inserted"
    /\ rows' = [m \in Message |-> IF m \in Kept THEN rows[m] ELSE 0]
    /\ overdue' = {}
    /\ handler' = [handler EXCEPT ![u] = "saved"]
    /\ UNCHANGED <<seated, posting, unsent, history, lastID, saved, msgVars,
                   viewVars, raceVars, moves>>

\* Its failure is ignored; with no row to take it is as good as done.
PruneFails(u) ==
    /\ handler[u] = "inserted"
    /\ Kept # Stored
    /\ overdue' = overdue \cup {posting[u]}
    /\ handler' = [handler EXCEPT ![u] = "saved"]
    /\ UNCHANGED <<seated, posting, unsent, history, rows, lastID, saved, msgVars,
                   viewVars, raceVars, moves>>

\* room.broadcast: the snapshot, then one member after the other.
Broadcast(u) ==
    /\ handler[u] = "saved"
    /\ unsent' = [unsent EXCEPT ![u] = Audience(u)]
    /\ handler' = [handler EXCEPT ![u] = "sending"]
    /\ UNCHANGED <<seated, posting, history, dbVars, msgVars, viewVars,
                   raceVars, moves>>

SendText(u, v) ==
    /\ handler[u] = "sending"
    /\ v \in unsent[u]
    /\ unsent' = [unsent EXCEPT ![u] = @ \ {v}]
    /\ Enqueue(v, [type |-> "text_message", message |-> posting[u]])
    /\ UNCHANGED <<seated, handler, posting, history, dbVars, msgVars, shown,
                   raceVars, moves>>

PostDone(u) ==
    /\ handler[u] = "sending" /\ unsent[u] = {}
    /\ handler' = [handler EXCEPT ![u] = "idle"]
    /\ posting' = [posting EXCEPT ![u] = 0]
    /\ UNCHANGED <<seated, unsent, history, dbVars, msgVars, viewVars,
                   raceVars, moves>>

-----------------------------------------------------------------------------
(* The page *)

OnRoomJoined(u) ==
    /\ outbox[u] # <<>> /\ Head(outbox[u]).type = "room_joined"
    /\ shown' = [shown EXCEPT ![u] = AfterHistory(u, Head(outbox[u]).entries)]
    /\ outbox' = [outbox EXCEPT ![u] = Tail(@)]
    /\ UNCHANGED <<roomVars, dbVars, msgVars, raceVars, moves>>

\* The handler does not look at room_id, nor for a message it has.
OnTextMessage(u) ==
    /\ outbox[u] # <<>> /\ Head(outbox[u]).type = "text_message"
    /\ shown' = [shown EXCEPT ![u] = AfterText(u, Head(outbox[u]).message)]
    /\ outbox' = [outbox EXCEPT ![u] = Tail(@)]
    /\ UNCHANGED <<roomVars, dbVars, msgVars, raceVars, moves>>

-----------------------------------------------------------------------------
Next == \E u \in User :
    \/ Join(u) \/ LoadHistory(u) \/ LoadFails(u) \/ SendRoomJoined(u) \/ Leave(u)
    \/ Post(u) \/ Insert(u) \/ InsertFails(u) \/ Prune(u) \/ PruneFails(u)
    \/ Broadcast(u) \/ (\E v \in User : SendText(u, v)) \/ PostDone(u)
    \/ OnRoomJoined(u) \/ OnTextMessage(u)

Spec == Init /\ [][Next]_vars

-----------------------------------------------------------------------------
(* Properties *)

Quiet == \A u \in User : handler[u] \in {"out", "idle"} /\ outbox[u] = <<>>

Times(u, m) == Cardinality({i \in DOMAIN shown[u] : shown[u][i] = m})

\* Nobody's window overlooks or repeats a message: once all is delivered, a
\* member sees every message posted since it got room_joined exactly once, a
\* failed save notwithstanding, and of the earlier ones exactly once each that was
\* saved and is among the MaxHistory newest, whatever prunes of concurrent posts
\* ran, failed or crossed since (message.go:18-19).  The exceptions are messages
\* in a handler while the user was joining (loadHistory runs outside any lock), the
\* edge of the history, where Load breaks ties as it likes, and a joiner whose
\* history could not be loaded: it sees nothing of what came before it.
EachOnceUnlessRacing ==
    Quiet => \A u \in seated : \A m \in Posted \ racing[u] :
        \/ m > joinedAt[u]
        \/ /\ u \notin unread /\ m \in saved
           /\ Cardinality({n \in Posted : stamp[n] >= stamp[m]}) <= MaxHistory
        => Times(u, m) = 1

\* The messages of one author that a member gets live appear in the order they
\* were posted in, whatever other broadcasts they are interleaved with.
AuthorsStayInOrder ==
    \A u \in seated : \A i, j \in DOMAIN shown[u] :
        LET m == shown[u][i]
            n == shown[u][j]
        IN  /\ i < j /\ author[m] = author[n]
            /\ joinedAt[u] < m /\ joinedAt[u] < n
            /\ ~InJoin(u)
            => m <= n

\* Messages inserted whose prune is still to come, or failed with none after it.
Unpruned == overdue \cup {posting[u] : u \in {v \in User : handler[v] = "inserted"}}

\* A room's rows stay within MaxHistory (message.go:10-11), but for messages whose
\* prune is to come, and for those whose prune failed, until the next one makes
\* up for it: whatever inserts and prunes cross, none leaves a row for good.
TableStaysSmall == Cardinality(Stored \ Unpruned) <= MaxHistory

=============================================================================
