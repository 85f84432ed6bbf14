--------------------------- MODULE SessionsProofs ---------------------------
(***************************************************************************)
(* For any tabs, sockets, names and tokens: sessions end by logout or      *)
(* expiry alone, the registry holds connections that are signed in, and a  *)
(* page comes back, connects once at a time and shows who is signed in.    *)
(***************************************************************************)
EXTENDS Sessions, FiniteSetTheorems, TLAPS

(***************************************************************************)
(* The types, by the groups in which the steps change the variables.       *)
(***************************************************************************)
TablesOK ==
    /\ accounts \subseteq Name
    /\ live \subseteq issued /\ issued \subseteq Token
    /\ owner \in [Token -> Name \cup {NoName}]
    /\ expires \in [Token -> Nat]
    /\ \A t \in issued : owner[t] \in accounts

EnvOK ==
    /\ now \in Nat /\ fails \in Nat /\ losses \in Nat
    /\ now + fails + losses <= MaxEvents

\* A reader at a storage call has the frame that the call is for.
ReaderOK ==
    /\ phase \in [Conn -> {"none", "idle", "issuing", "checking", "deleting"}]
    /\ call \in [Conn -> Frame \cup {NoFrame}]
    /\ \A c \in Conn : phase[c] = "issuing" => call[c].of \in accounts
    /\ \A c \in Conn :
           phase[c] \in {"checking", "deleting"} => call[c].of \in issued

ServerOK ==
    /\ user \in [Conn -> Name \cup {NoName}]
    /\ token \in [Conn -> Token \cup {NoToken}]
    /\ registered \in [Name -> Conn \cup {NoConn}]
    /\ closer \in [Conn -> {"no", "called", "done"}]
    /\ \A c \in Conn : user[c] # NoName =>
           token[c] \in issued /\ owner[token[c]] = user[c]

WireOK ==
    /\ net \in [Conn -> {"none", "up", "fin", "cut"}]
    /\ inbox \in [Conn -> Seq(Frame)]
    /\ answers \in [Conn -> Seq(Reply)]
    /\ \A c \in Conn : \A i \in 1..Len(answers[c]) :
           answers[c][i].kind = "success" => answers[c][i].of \in issued

PageOK ==
    /\ sock \in [Conn -> {"none", "connecting", "aborted", "open", "closing"}]
    /\ tabOf \in [Conn -> Tab \cup {NoTab}]
    /\ cur \in [Tab -> Conn \cup {NoConn}]
    /\ timers \in [Tab -> Nat]
    /\ stored \in Token \cup {NoToken}
    /\ shown \in [Tab -> Name \cup {NoName}]
    /\ \A c \in Conn : sock[c] = "none" <=> tabOf[c] = NoTab

HistoryOK ==
    /\ left \subseteq issued \ live
    /\ odd \in [Conn -> SUBSET {"late", "renamed", "refused", "silent"}]
    /\ overlapped \subseteq Tab

Types == /\ TablesOK /\ EnvOK /\ ReaderOK /\ ServerOK
         /\ WireOK /\ PageOK /\ HistoryOK

-----------------------------------------------------------------------------
(* Which steps change which group. *)

LEMMA TablesChange ==
    ASSUME [Next]_vars
    PROVE  \/ UNCHANGED tables
           \/ \E c \in Conn :
                 \/ RegisterUser(c) \/ IssueSession(c)
                 \/ ResumeDeletes(c) \/ LogoutDeletes(c)
<1>1. ASSUME NEW c \in Conn, ServerStep(c)
      PROVE  \/ UNCHANGED tables
             \/ RegisterUser(c) \/ IssueSession(c)
             \/ ResumeDeletes(c) \/ LogoutDeletes(c)
    BY <1>1
    DEF ServerStep, LoginSucceeds, SignInRefused, IssueFails, ResumeFinds,
        ResumeFindsNothing, ResumeSucceeds, ResumeCheckFails, EndOfInput, Close
<1>2. ASSUME NEW c \in Conn, SocketStep(c) \/ Lose(c)
      PROVE  UNCHANGED tables
    BY <1>2
    DEF SocketStep, Dial, Opens, ConnectFails, OnClose, Gone, OnAuthSuccess,
        OnAuthError, Lose
<1>3. CASE (\E b \in Tab : UserStep(b)) \/ Tick \/ UNCHANGED vars
    BY <1>3 DEF UserStep, Submit, Logout, Reload, Tick, vars
<1> QED
    BY <1>1, <1>2, <1>3 DEF Next

LEMMA EnvChange ==
    ASSUME [Next]_vars
    PROVE  \/ UNCHANGED env
           \/ Budget /\ \/ fails' = fails + 1 /\ UNCHANGED <<now, losses>>
                        \/ losses' = losses + 1 /\ UNCHANGED <<now, fails>>
                        \/ now' = now + 1 /\ UNCHANGED <<fails, losses>>
<1>1. ASSUME NEW c \in Conn, ServerStep(c)
      PROVE  \/ UNCHANGED env
             \/ Budget /\ fails' = fails + 1 /\ UNCHANGED <<now, losses>>
    BY <1>1
    DEF ServerStep, RegisterUser, LoginSucceeds, SignInRefused, IssueSession,
        IssueFails, ResumeFinds, ResumeFindsNothing, ResumeSucceeds,
        ResumeCheckFails, ResumeDeletes, LogoutDeletes, EndOfInput, Close,
        StorageFails, env
<1>2. ASSUME NEW c \in Conn, SocketStep(c) \/ Lose(c)
      PROVE  \/ UNCHANGED env
             \/ Budget /\ losses' = losses + 1 /\ UNCHANGED <<now, fails>>
    BY <1>2
    DEF SocketStep, Dial, Opens, ConnectFails, OnClose, Gone, OnAuthSuccess,
        OnAuthError, Lose, Trouble, env
<1>3. CASE (\E b \in Tab : UserStep(b)) \/ Tick \/ UNCHANGED vars
    BY <1>3 DEF UserStep, Submit, Logout, Reload, Tick, vars, env, Trouble
<1> QED
    BY <1>1, <1>2, <1>3 DEF Next

LEMMA ReaderChange ==
    ASSUME [Next]_vars
    PROVE  \/ UNCHANGED reader
           \/ \E c \in Conn :
                 \/ RegisterUser(c) \/ LoginSucceeds(c) \/ SignInRefused(c)
                 \/ IssueSession(c) \/ IssueFails(c)
                 \/ ResumeFinds(c) \/ ResumeFindsNothing(c)
                 \/ ResumeSucceeds(c) \/ ResumeCheckFails(c) \/ ResumeDeletes(c)
                 \/ EndOfInput(c) \/ Opens(c)
<1>1. ASSUME NEW c \in Conn, LogoutDeletes(c) \/ Close(c)
      PROVE  UNCHANGED reader
    BY <1>1 DEF LogoutDeletes, Close
<1>2. ASSUME NEW c \in Conn, Lose(c) \/ SocketStep(c), ~Opens(c)
      PROVE  UNCHANGED reader
    BY <1>2
    DEF SocketStep, Dial, ConnectFails, OnClose, Gone, OnAuthSuccess,
        OnAuthError, Lose
<1>3. CASE (\E b \in Tab : UserStep(b)) \/ Tick \/ UNCHANGED vars
    BY <1>3 DEF UserStep, Submit, Logout, Reload, Tick, vars
<1> QED
    BY <1>1, <1>2, <1>3 DEF Next, ServerStep

LEMMA ServerChange ==
    ASSUME [Next]_vars
    PROVE  \/ UNCHANGED server
           \/ \E c \in Conn :
                 \/ IssueSession(c) \/ ResumeSucceeds(c)
                 \/ EndOfInput(c) \/ Close(c) \/ \E b \in Tab : Dial(b, c)
<1>1. ASSUME NEW c \in Conn, ServerStep(c)
      PROVE  \/ UNCHANGED server
             \/ IssueSession(c) \/ ResumeSucceeds(c) \/ EndOfInput(c) \/ Close(c)
    BY <1>1
    DEF ServerStep, RegisterUser, LoginSucceeds, SignInRefused, IssueFails,
        ResumeFinds, ResumeFindsNothing, ResumeCheckFails, ResumeDeletes,
        LogoutDeletes
<1>2. ASSUME NEW c \in Conn, SocketStep(c) \/ Lose(c)
      PROVE  UNCHANGED server \/ \E b \in Tab : Dial(b, c)
    BY <1>2
    DEF SocketStep, Opens, ConnectFails, OnClose, Gone, OnAuthSuccess,
        OnAuthError, Lose
<1>3. CASE (\E b \in Tab : UserStep(b)) \/ Tick \/ UNCHANGED vars
    BY <1>3 DEF UserStep, Submit, Logout, Reload, Tick, vars
<1> QED
    BY <1>1, <1>2, <1>3 DEF Next

LEMMA PageChange ==
    ASSUME [Next]_vars
    PROVE  \/ UNCHANGED page
           \/ \E c \in Conn :
                 \/ \E b \in Tab : Dial(b, c)
                 \/ Opens(c) \/ ConnectFails(c) \/ OnClose(c)
                 \/ OnAuthSuccess(c) \/ OnAuthError(c)
           \/ \E b \in Tab : Logout(b) \/ Reload(b)
<1>1. ASSUME NEW c \in Conn, ServerStep(c) \/ Lose(c)
      PROVE  UNCHANGED page
    BY <1>1
    DEF ServerStep, RegisterUser, LoginSucceeds, SignInRefused, IssueSession,
        IssueFails, ResumeFinds, ResumeFindsNothing, ResumeSucceeds,
        ResumeCheckFails, ResumeDeletes, LogoutDeletes, EndOfInput, Close, Lose
<1>2. ASSUME NEW b \in Tab, UserStep(b)
      PROVE  UNCHANGED page \/ Logout(b) \/ Reload(b)
    BY <1>2 DEF UserStep, Submit
<1>3. CASE Tick \/ UNCHANGED vars
    BY <1>3 DEF Tick, vars
<1> QED
    BY <1>1, <1>2, <1>3 DEF Next, SocketStep

-----------------------------------------------------------------------------
(* Frames and answers *)

LEMMA FrameTypes ==
    /\ \A f \in Frame : /\ f.kind \in {"register", "login"} => f.of \in Name
                        /\ f.kind = "resume" => f.of \in Token
    /\ \A k \in {"register", "login"}, n \in Name : [kind |-> k, of |-> n] \in Frame
    /\ \A t \in Token : [kind |-> "resume", of |-> t] \in Frame
    /\ [kind |-> "logout"] \in Frame
BY DEF Frame

LEMMA ReplyTypes ==
    /\ \A r \in Reply : r.kind = "success" => r.of \in Token
    /\ \A t \in Token : [kind |-> "success", of |-> t] \in Reply
    /\ [kind |-> "error"] \in Reply
BY DEF Reply

\* The frame that the reader is at.
LEMMA ReadFrame ==
    ASSUME WireOK, NEW c \in Conn, NEW k, Reading(c, k)
    PROVE  /\ Head(inbox[c]) \in Frame /\ Head(inbox[c]).kind = k
           /\ Tail(inbox[c]) \in Seq(Frame)
           /\ k \in {"register", "login"} => Asked(c) \in Name
           /\ k = "resume" => Asked(c) \in Token
<1>1. inbox[c] \in Seq(Frame) /\ inbox[c] # <<>> /\ Head(inbox[c]).kind = k
    BY DEF WireOK, Reading
<1>2. Head(inbox[c]) \in Frame /\ Tail(inbox[c]) \in Seq(Frame)
    BY <1>1
<1> QED
    BY <1>1, <1>2, FrameTypes DEF Asked

-----------------------------------------------------------------------------
(* The types are preserved. *)

LEMMA TablesGrow ==
    ASSUME Types, [Next]_vars
    PROVE  /\ issued \subseteq issued' /\ accounts \subseteq accounts'
           /\ \A t \in issued : owner'[t] = owner[t] /\ expires'[t] = expires[t]
<1>1. CASE UNCHANGED tables
    BY <1>1 DEF tables
<1>2. ASSUME NEW c \in Conn, RegisterUser(c) \/ ResumeDeletes(c) \/ LogoutDeletes(c)
      PROVE  /\ accounts \subseteq accounts'
             /\ UNCHANGED <<issued, owner, expires>>
    BY <1>2 DEF RegisterUser, ResumeDeletes, LogoutDeletes
<1>3. ASSUME NEW c \in Conn, IssueSession(c)
      PROVE  /\ issued \subseteq issued' /\ accounts' = accounts
             /\ \A t \in issued : owner'[t] = owner[t] /\ expires'[t] = expires[t]
    BY <1>3 DEF IssueSession, Types, TablesOK
<1> QED
    BY <1>1, <1>2, <1>3, TablesChange

LEMMA TablesStep ==
    ASSUME Types, [Next]_vars
    PROVE  TablesOK'
<1> USE SessionsAssumption
<1>1. CASE UNCHANGED tables
    BY <1>1 DEF tables, Types, TablesOK
<1>2. ASSUME NEW c \in Conn, RegisterUser(c)
      PROVE  TablesOK'
  <2>1. /\ accounts' = accounts \cup {Asked(c)}
        /\ UNCHANGED <<live, owner, expires, issued>>
      BY <1>2 DEF RegisterUser
  <2>2. Asked(c) \in Name
      BY <1>2, ReadFrame DEF RegisterUser, Types
  <2> QED
      BY <2>1, <2>2 DEF Types, TablesOK
<1>3. ASSUME NEW c \in Conn, IssueSession(c)
      PROVE  TablesOK'
  <2>1. PICK t \in Token \ issued :
            /\ issued' = issued \cup {t} /\ live' = live \cup {t}
            /\ owner' = [owner EXCEPT ![t] = call[c].of]
            /\ expires' = [expires EXCEPT ![t] = now + TTL]
            /\ accounts' = accounts
      BY <1>3 DEF IssueSession
  <2>2. call[c].of \in accounts
      BY <1>3 DEF IssueSession, Types, ReaderOK
  <2>3. now + TTL \in Nat
      BY DEF Types, EnvOK
  <2> QED
      BY <2>1, <2>2, <2>3 DEF Types, TablesOK
<1>4. ASSUME NEW c \in Conn, ResumeDeletes(c) \/ LogoutDeletes(c)
      PROVE  TablesOK'
  <2>1. UNCHANGED <<accounts, owner, expires, issued>> /\ live' \subseteq live
      BY <1>4 DEF ResumeDeletes, LogoutDeletes
  <2> QED
      BY <2>1 DEF Types, TablesOK
<1> QED
    BY <1>1, <1>2, <1>3, <1>4, TablesChange

LEMMA EnvStep ==
    ASSUME Types, [Next]_vars
    PROVE  EnvOK'
<1>1. CASE UNCHANGED env
    BY <1>1 DEF env, Types, EnvOK
<1>2. CASE Budget /\ \/ fails' = fails + 1 /\ UNCHANGED <<now, losses>>
                     \/ losses' = losses + 1 /\ UNCHANGED <<now, fails>>
                     \/ now' = now + 1 /\ UNCHANGED <<fails, losses>>
    BY <1>2, SessionsAssumption DEF Budget, Types, EnvOK
<1> QED
    BY <1>1, <1>2, EnvChange

LEMMA ReaderStep ==
    ASSUME Types, [Next]_vars
    PROVE  ReaderOK'
<1> USE SessionsAssumption
<1>1. issued \subseteq issued' /\ accounts \subseteq accounts'
    BY TablesGrow
\* A reader that goes on to a storage call with a frame, or is done with one.
<1>2. ASSUME NEW c \in Conn, NEW p \in {"none", "idle"},
             Goto(c, p), call' \in {call, [call EXCEPT ![c] = NoFrame]}
      PROVE  ReaderOK'
    BY <1>1, <1>2 DEF Types, ReaderOK, Goto
<1>3. ASSUME NEW c \in Conn, NEW p \in {"issuing", "checking", "deleting"},
             NEW f \in Frame, Goto(c, p), call' = [call EXCEPT ![c] = f],
             p = "issuing" => f.of \in accounts',
             p # "issuing" => f.of \in issued'
      PROVE  ReaderOK'
    BY <1>1, <1>3 DEF Types, ReaderOK, Goto
<1>4. CASE UNCHANGED reader
    BY <1>1, <1>4 DEF reader, Types, ReaderOK
<1>5. ASSUME NEW c \in Conn, RegisterUser(c)
      PROVE  ReaderOK'
  <2>1. Head(inbox[c]) \in Frame
      BY <1>5, ReadFrame DEF RegisterUser, Types
  <2>2. Head(inbox[c]).of \in accounts'
      BY <1>5 DEF RegisterUser, Asked
  <2>3. Goto(c, "issuing") /\ call' = [call EXCEPT ![c] = Head(inbox[c])]
      BY <1>5 DEF RegisterUser, At
  <2> QED
      BY <1>3, <2>1, <2>2, <2>3
<1>6. ASSUME NEW c \in Conn, LoginSucceeds(c)
      PROVE  ReaderOK'
  <2>1. Head(inbox[c]) \in Frame
      BY <1>6, ReadFrame DEF LoginSucceeds, Types
  <2>2. Head(inbox[c]).of \in accounts'
      BY <1>1, <1>6 DEF LoginSucceeds, Asked
  <2>3. Goto(c, "issuing") /\ call' = [call EXCEPT ![c] = Head(inbox[c])]
      BY <1>6 DEF LoginSucceeds, At
  <2> QED
      BY <1>3, <2>1, <2>2, <2>3
<1>7. ASSUME NEW c \in Conn, ResumeFinds(c)
      PROVE  ReaderOK'
  <2>1. Head(inbox[c]) \in Frame
      BY <1>7, ReadFrame DEF ResumeFinds, Types
  <2>2. Head(inbox[c]).of \in issued'
      BY <1>1, <1>7 DEF ResumeFinds, Asked, Types, TablesOK
  <2>3. PICK p \in {"checking", "deleting"} : At(c, p)
      BY <1>7 DEF ResumeFinds
  <2>4. Goto(c, p) /\ call' = [call EXCEPT ![c] = Head(inbox[c])]
      BY <2>3 DEF At
  <2> QED
      BY <1>3, <2>1, <2>2, <2>4
<1>8. ASSUME NEW c \in Conn, ResumeCheckFails(c)
      PROVE  ReaderOK'
  <2>1. phase[c] = "checking" /\ Goto(c, "deleting") /\ call' = call
      BY <1>8 DEF ResumeCheckFails
  <2> QED
      BY <1>1, <2>1 DEF Types, ReaderOK, Goto
<1>9. ASSUME NEW c \in Conn,
             \/ SignInRefused(c) \/ IssueFails(c) \/ ResumeFindsNothing(c)
             \/ ResumeDeletes(c) \/ IssueSession(c) \/ ResumeSucceeds(c)
      PROVE  ReaderOK'
  <2>1. Goto(c, "idle") /\ call' = [call EXCEPT ![c] = NoFrame]
      BY <1>9
      DEF SignInRefused, IssueFails, ResumeFindsNothing, ResumeDeletes,
          IssueSession, ResumeSucceeds, Refuse, Bind
  <2> QED
      BY <1>2, <2>1
<1>10. ASSUME NEW c \in Conn, EndOfInput(c) \/ Opens(c)
       PROVE  ReaderOK'
  <2>1. call' = call /\ (Goto(c, "none") \/ Goto(c, "idle"))
      BY <1>10 DEF EndOfInput, Opens
  <2> QED
      BY <1>2, <2>1
<1> QED
    BY <1>4, <1>5, <1>6, <1>7, <1>8, <1>9, <1>10, ReaderChange

LEMMA BindTypes ==
    ASSUME Types, NEW c \in Conn, NEW t \in Token, NEW n \in Name,
           Bind(c, t, n), t \in issued', owner'[t] = n,
           \A u \in issued : u \in issued' /\ owner'[u] = owner[u]
    PROVE  ServerOK'
<1>1. /\ user' = [user EXCEPT ![c] = n] /\ token' = [token EXCEPT ![c] = t]
      /\ registered' = [registered EXCEPT ![n] = c]
    BY DEF Bind
<1>2. closer' \in [Conn -> {"no", "called", "done"}]
    BY DEF Bind, Types, ServerOK
<1>3. /\ user' \in [Conn -> Name \cup {NoName}]
      /\ token' \in [Conn -> Token \cup {NoToken}]
      /\ registered' \in [Name -> Conn \cup {NoConn}]
    BY <1>1 DEF Types, ServerOK
<1>4. \A d \in Conn : user'[d] # NoName =>
          token'[d] \in issued' /\ owner'[token'[d]] = user'[d]
    BY <1>1 DEF Types, ServerOK
<1> QED
    BY <1>2, <1>3, <1>4 DEF ServerOK

LEMMA ServerTypes ==
    ASSUME Types, [Next]_vars
    PROVE  ServerOK'
<1> USE SessionsAssumption
<1>1. /\ issued \subseteq issued'
      /\ \A u \in issued : u \in issued' /\ owner'[u] = owner[u]
    BY TablesGrow
<1>2. CASE UNCHANGED server
    BY <1>1, <1>2 DEF server, Types, ServerOK
<1>3. ASSUME NEW c \in Conn, IssueSession(c)
      PROVE  ServerOK'
  <2>1. PICK t \in Token \ issued :
            /\ issued' = issued \cup {t} /\ owner' = [owner EXCEPT ![t] = call[c].of]
            /\ Bind(c, t, call[c].of)
      BY <1>3 DEF IssueSession
  <2>2. call[c].of \in Name /\ owner'[t] = call[c].of /\ t \in issued'
      BY <1>3, <2>1 DEF IssueSession, Types, TablesOK, ReaderOK
  <2> QED
      BY <1>1, <2>1, <2>2, BindTypes
<1>4. ASSUME NEW c \in Conn, ResumeSucceeds(c)
      PROVE  ServerOK'
  <2>1. /\ call[c].of \in issued /\ ResumedAs(c) = owner[call[c].of]
        /\ Bind(c, call[c].of, ResumedAs(c))
      BY <1>4 DEF ResumeSucceeds, ResumedAs, Types, ReaderOK
  <2>2. ResumedAs(c) \in Name /\ call[c].of \in Token
      BY <2>1 DEF Types, TablesOK
  <2> QED
      BY <1>1, <2>1, <2>2, BindTypes
<1>5. ASSUME NEW c \in Conn, Disconnect(c)
      PROVE  /\ registered' \in [Name -> Conn \cup {NoConn}]
             /\ closer' \in [Conn -> {"no", "called", "done"}]
    BY <1>5 DEF Disconnect, AfterRemove, Types, ServerOK
<1>6. ASSUME NEW c \in Conn, EndOfInput(c)
      PROVE  ServerOK'
  <2>1. /\ user' = [user EXCEPT ![c] = NoName]
        /\ token' = [token EXCEPT ![c] = NoToken]
        /\ Disconnect(c)
      BY <1>6 DEF EndOfInput
  <2>2. /\ user' \in [Conn -> Name \cup {NoName}]
        /\ token' \in [Conn -> Token \cup {NoToken}]
        /\ \A d \in Conn : user'[d] # NoName =>
               token'[d] \in issued' /\ owner'[token'[d]] = user'[d]
      BY <1>1, <2>1 DEF Types, ServerOK
  <2> QED
      BY <1>5, <2>1, <2>2 DEF ServerOK
<1>7. ASSUME NEW c \in Conn, Close(c)
      PROVE  ServerOK'
    BY <1>1, <1>5, <1>7 DEF Close, Types, ServerOK
<1>8. ASSUME NEW c \in Conn, NEW b \in Tab, Dial(b, c)
      PROVE  ServerOK'
    BY <1>1, <1>8 DEF Dial, Types, ServerOK
<1> QED
    BY <1>2, <1>3, <1>4, <1>6, <1>7, <1>8, ServerChange

LEMMA LeftChange ==
    ASSUME [Next]_vars
    PROVE  UNCHANGED left \/ \E c \in Conn : LogoutDeletes(c)
<1>1. ASSUME NEW c \in Conn, ServerStep(c), ~LogoutDeletes(c)
      PROVE  left' = left
    BY <1>1
    DEF ServerStep, RegisterUser, LoginSucceeds, SignInRefused, IssueSession,
        IssueFails, ResumeFinds, ResumeFindsNothing, ResumeSucceeds,
        ResumeCheckFails, ResumeDeletes, EndOfInput, Close, history
<1>2. ASSUME NEW c \in Conn, SocketStep(c) \/ Lose(c)
      PROVE  left' = left
    BY <1>2
    DEF SocketStep, Dial, Opens, ConnectFails, OnClose, Gone, OnAuthSuccess,
        OnAuthError, Lose, history
<1>3. CASE (\E b \in Tab : UserStep(b)) \/ Tick \/ UNCHANGED vars
    BY <1>3 DEF UserStep, Submit, Logout, Reload, Tick, vars, history
<1> QED
    BY <1>1, <1>2, <1>3 DEF Next

\* What marks a connection, and what forgets its marks.
LEMMA OddChange ==
    ASSUME [Next]_vars
    PROVE  \/ UNCHANGED odd
           \/ \E c \in Conn :
                 \/ SignInRefused(c) \/ IssueFails(c) \/ ResumeFindsNothing(c)
                 \/ ResumeDeletes(c) \/ IssueSession(c) \/ ResumeSucceeds(c)
                 \/ \E b \in Tab : Dial(b, c)
                 \/ Opens(c) \/ ConnectFails(c) \/ OnClose(c)
<1>1. ASSUME NEW c \in Conn,
             \/ RegisterUser(c) \/ LoginSucceeds(c) \/ ResumeFinds(c)
             \/ ResumeCheckFails(c) \/ LogoutDeletes(c) \/ EndOfInput(c)
             \/ Close(c) \/ OnAuthSuccess(c) \/ OnAuthError(c) \/ Lose(c)
      PROVE  UNCHANGED odd
    BY <1>1
    DEF RegisterUser, LoginSucceeds, ResumeFinds, ResumeCheckFails, LogoutDeletes,
        EndOfInput, Close, OnAuthSuccess, OnAuthError, Lose, history
<1>2. CASE (\E b \in Tab : UserStep(b)) \/ Tick \/ UNCHANGED vars
    BY <1>2 DEF UserStep, Submit, Logout, Reload, Tick, vars, history
<1> QED
    BY <1>1, <1>2 DEF Next, ServerStep, SocketStep

LEMMA OverlappedChange ==
    ASSUME [Next]_vars
    PROVE  \/ UNCHANGED overlapped
           \/ \E c \in Conn : OnClose(c)
           \/ \E b \in Tab : Logout(b) \/ Reload(b)
<1>1. ASSUME NEW c \in Conn, ServerStep(c)
      PROVE  UNCHANGED overlapped
    BY <1>1
    DEF ServerStep, RegisterUser, LoginSucceeds, SignInRefused, IssueSession,
        IssueFails, ResumeFinds, ResumeFindsNothing, ResumeSucceeds,
        ResumeCheckFails, ResumeDeletes, LogoutDeletes, EndOfInput, Close, history
<1>2. ASSUME NEW c \in Conn, SocketStep(c) \/ Lose(c), ~OnClose(c)
      PROVE  UNCHANGED overlapped
    BY <1>2
    DEF SocketStep, Dial, Opens, ConnectFails, OnAuthSuccess, OnAuthError, Lose,
        history
<1>3. ASSUME NEW b \in Tab, UserStep(b)
      PROVE  UNCHANGED overlapped \/ Logout(b) \/ Reload(b)
    BY <1>3 DEF UserStep, Submit, history
<1>4. CASE Tick \/ UNCHANGED vars
    BY <1>4 DEF Tick, vars, history
<1> QED
    BY <1>1, <1>2, <1>3, <1>4 DEF Next

LEMMA HistoryTypes ==
    ASSUME Types, [Next]_vars
    PROVE  HistoryOK'
<1> USE SessionsAssumption
<1>1. left' \subseteq issued' \ live'
  <2>1. ASSUME NEW c \in Conn, LogoutDeletes(c)
        PROVE  left' \subseteq issued' \ live'
      BY <2>1 DEF LogoutDeletes, Types, HistoryOK, ServerOK, TablesOK
  <2>2. ASSUME NEW c \in Conn, RegisterUser(c) \/ IssueSession(c) \/ ResumeDeletes(c)
        PROVE  left' \subseteq issued' \ live'
      BY <2>2 DEF RegisterUser, IssueSession, ResumeDeletes, Types, HistoryOK
  <2>3. CASE UNCHANGED <<tables, left>>
      BY <2>3 DEF tables, Types, HistoryOK
  <2> QED
      BY <2>1, <2>2, <2>3, TablesChange, LeftChange
<1>2. odd' \in [Conn -> SUBSET {"late", "renamed", "refused", "silent"}]
  <2>1. ASSUME NEW c \in Conn, NEW happens, NEW turn \in {"refused", "silent"},
               Mark(c, happens, turn)
        PROVE  odd' \in [Conn -> SUBSET {"late", "renamed", "refused", "silent"}]
      BY <2>1 DEF Mark, Types, HistoryOK
  <2>2. ASSUME NEW c \in Conn, Refuse(c) \/ Opens(c)
        PROVE  odd' \in [Conn -> SUBSET {"late", "renamed", "refused", "silent"}]
      BY <2>1, <2>2 DEF Refuse, Opens
  <2>3. ASSUME NEW c \in Conn, NEW t, NEW n, Bind(c, t, n)
        PROVE  odd' \in [Conn -> SUBSET {"late", "renamed", "refused", "silent"}]
      BY <2>3 DEF Bind, Types, HistoryOK
  <2>4. ASSUME NEW c \in Conn, NEW n, Gone(c, n)
        PROVE  odd' \in [Conn -> SUBSET {"late", "renamed", "refused", "silent"}]
      BY <2>4 DEF Gone, Types, HistoryOK
  <2>5. ASSUME NEW c \in Conn, NEW b \in Tab, Dial(b, c)
        PROVE  odd' \in [Conn -> SUBSET {"late", "renamed", "refused", "silent"}]
      BY <2>5 DEF Dial, Types, HistoryOK
  <2>6. ASSUME NEW c \in Conn,
               \/ SignInRefused(c) \/ IssueFails(c) \/ ResumeFindsNothing(c)
               \/ ResumeDeletes(c) \/ IssueSession(c) \/ ResumeSucceeds(c)
        PROVE  Refuse(c) \/ \E t, n : Bind(c, t, n)
      BY <2>6
      DEF SignInRefused, IssueFails, ResumeFindsNothing, ResumeDeletes,
          IssueSession, ResumeSucceeds
  <2>7. CASE UNCHANGED odd
      BY <2>7 DEF Types, HistoryOK
  <2> QED
      BY <2>2, <2>3, <2>4, <2>5, <2>6, <2>7, OddChange DEF ConnectFails, OnClose
<1>3. overlapped' \subseteq Tab
  <2>1. ASSUME NEW c \in Conn, OnClose(c)
        PROVE  overlapped' \subseteq Tab
      BY <2>1 DEF OnClose, Types, HistoryOK, PageOK
  <2> QED
      BY <2>1, OverlappedChange DEF Logout, Reload, Types, HistoryOK
<1> QED
    BY <1>1, <1>2, <1>3 DEF HistoryOK

LEMMA PageTypes ==
    ASSUME Types, [Next]_vars
    PROVE  PageOK'
<1> USE SessionsAssumption DEF Types
<1>1. CASE UNCHANGED page
    BY <1>1 DEF page, PageOK
<1>2. ASSUME NEW c \in Conn, NEW b \in Tab, Dial(b, c)
      PROVE  PageOK'
    BY <1>2 DEF Dial, PageOK
<1>3. ASSUME NEW c \in Conn, Opens(c)
      PROVE  PageOK'
    BY <1>3 DEF Opens, PageOK
<1>4. ASSUME NEW c \in Conn, NEW n \in Nat, Gone(c, n), tabOf[c] \in Tab
      PROVE  PageOK'
    BY <1>4 DEF Gone, PageOK
<1>5. ASSUME NEW c \in Conn, ConnectFails(c) \/ OnClose(c)
      PROVE  PageOK'
  <2>1. tabOf[c] \in Tab
      BY <1>5 DEF ConnectFails, OnClose, PageOK
  <2>2. Retries(c) \in Nat /\ RetriesOfFailure(c) \in Nat
      BY DEF Retries, RetriesOfFailure
  <2> QED
      BY <1>4, <1>5, <2>1, <2>2 DEF ConnectFails, OnClose
<1>6. ASSUME NEW c \in Conn, OnAuthSuccess(c) \/ OnAuthError(c)
      PROVE  PageOK'
  <2>1. tabOf[c] \in Tab
      BY <1>6 DEF OnAuthSuccess, OnAuthError, PageOK
  <2>2. Head(answers[c]) \in Reply
      BY <1>6 DEF OnAuthSuccess, OnAuthError, WireOK
  <2>3. CASE OnAuthSuccess(c)
    <3>1. stored' = Head(answers[c]).of /\ stored' \in Token
        BY <2>2, <2>3, ReplyTypes DEF OnAuthSuccess
    <3>2. owner[stored'] \in Name \cup {NoName}
        BY <3>1 DEF TablesOK
    <3> QED
        BY <2>1, <2>3, <3>1, <3>2 DEF OnAuthSuccess, PageOK
  <2>4. CASE OnAuthError(c)
      BY <2>1, <2>4 DEF OnAuthError, ShownAfterError, PageOK
  <2> QED
      BY <1>6, <2>3, <2>4
<1>7. ASSUME NEW b \in Tab, Logout(b)
      PROVE  PageOK'
  <2>1. sock' \in [Conn -> {"none", "connecting", "aborted", "open", "closing"}]
      BY <1>7 DEF Logout, PageOK
  <2>2. \A c \in Conn : sock'[c] = "none" <=> sock[c] = "none"
      BY <1>7 DEF Logout, PageOK
  <2>3. timers' \in [Tab -> Nat] /\ shown' \in [Tab -> Name \cup {NoName}]
      BY <1>7 DEF Logout, PageOK
  <2> QED
      BY <1>7, <2>1, <2>2, <2>3 DEF Logout, PageOK
<1>8. ASSUME NEW b \in Tab, Reload(b)
      PROVE  PageOK'
    BY <1>8 DEF Reload, PageOK
<1> QED
    BY <1>1, <1>2, <1>3, <1>5, <1>6, <1>7, <1>8, PageChange

LEMMA InboxChange ==
    ASSUME [Next]_vars
    PROVE  \/ UNCHANGED inbox
           \/ \E c \in Conn :
                 \/ Taken(c) /\ \E k : Reading(c, k)
                 \/ EndOfInput(c) \/ Opens(c)
           \/ \E b \in Tab : Logout(b) \/ UserStep(b)
<1>1. ASSUME NEW c \in Conn,
             \/ RegisterUser(c) \/ LoginSucceeds(c) \/ SignInRefused(c)
             \/ ResumeFinds(c) \/ ResumeFindsNothing(c) \/ LogoutDeletes(c)
      PROVE  Taken(c) /\ \E k : Reading(c, k)
    BY <1>1
    DEF RegisterUser, LoginSucceeds, SignInRefused, ResumeFinds,
        ResumeFindsNothing, LogoutDeletes
<1>2. ASSUME NEW c \in Conn,
             \/ IssueSession(c) \/ IssueFails(c) \/ ResumeSucceeds(c)
             \/ ResumeCheckFails(c) \/ ResumeDeletes(c) \/ Close(c) \/ Lose(c)
      PROVE  UNCHANGED inbox
    BY <1>2
    DEF IssueSession, IssueFails, ResumeSucceeds, ResumeCheckFails, ResumeDeletes,
        Close, Lose, wire
<1>3. ASSUME NEW c \in Conn, SocketStep(c), ~Opens(c)
      PROVE  UNCHANGED inbox
    BY <1>3
    DEF SocketStep, Dial, ConnectFails, OnClose, Gone, OnAuthSuccess, OnAuthError
<1>4. CASE Tick \/ UNCHANGED vars
    BY <1>4 DEF Tick, vars, wire
<1> QED
    BY <1>1, <1>2, <1>3, <1>4 DEF Next, ServerStep

LEMMA SentTypes ==
    ASSUME Types, NEW b \in Tab, NEW f \in Frame
    PROVE  Sent(inbox, b, f) \in [Conn -> Seq(Frame)]
<1>1. cur[b] \in Conn => Append(inbox[cur[b]], f) \in Seq(Frame)
    BY DEF Types, WireOK
<1> QED
    BY <1>1 DEF Sent, Types, WireOK, PageOK

LEMMA InboxTypes ==
    ASSUME Types, [Next]_vars
    PROVE  inbox' \in [Conn -> Seq(Frame)]
<1> USE SessionsAssumption
<1>1. CASE UNCHANGED inbox
    BY <1>1 DEF Types, WireOK
<1>2. ASSUME NEW c \in Conn, NEW k, Reading(c, k), Taken(c)
      PROVE  inbox' \in [Conn -> Seq(Frame)]
  <2>1. Tail(inbox[c]) \in Seq(Frame)
      BY <1>2, ReadFrame DEF Types
  <2> QED
      BY <1>2, <2>1 DEF Taken, Types, WireOK
<1>3. ASSUME NEW c \in Conn, EndOfInput(c)
      PROVE  inbox' \in [Conn -> Seq(Frame)]
    BY <1>3 DEF EndOfInput, Types, WireOK
<1>4. ASSUME NEW c \in Conn, Opens(c)
      PROVE  inbox' \in [Conn -> Seq(Frame)]
  <2> DEFINE resume == [kind |-> "resume", of |-> stored]
  <2>1. inbox' = IF stored = NoToken THEN inbox
                 ELSE IF cur[tabOf[c]] = c THEN [inbox EXCEPT ![c] = <<resume>>]
                 ELSE Sent(inbox, tabOf[c], resume)
      BY <1>4 DEF Opens
  <2>2. tabOf[c] \in Tab
      BY <1>4 DEF Opens, Types, PageOK
  <2>3. stored # NoToken => resume \in Frame
      BY FrameTypes DEF Types, PageOK
  <2>4. stored # NoToken => <<resume>> \in Seq(Frame)
      BY <2>3
  <2>5. stored # NoToken => Sent(inbox, tabOf[c], resume) \in [Conn -> Seq(Frame)]
      BY <2>2, <2>3, SentTypes
  <2> QED
      BY <2>1, <2>4, <2>5 DEF Types, WireOK
<1>5. ASSUME NEW b \in Tab, Logout(b)
      PROVE  inbox' \in [Conn -> Seq(Frame)]
    BY <1>5, FrameTypes, SentTypes DEF Logout
<1>6. ASSUME NEW b \in Tab, UserStep(b)
      PROVE  inbox' \in [Conn -> Seq(Frame)]
  <2>1. ASSUME NEW k \in {"register", "login"}, NEW n \in Name,
               Submit(b, [kind |-> k, of |-> n])
        PROVE  inbox' \in [Conn -> Seq(Frame)]
      BY <2>1, FrameTypes, SentTypes DEF Submit
  <2> QED
      BY <1>1, <1>5, <1>6, <2>1 DEF UserStep, Reload
<1> QED
    BY <1>1, <1>2, <1>3, <1>4, <1>5, <1>6, InboxChange

LEMMA NetTypes ==
    ASSUME Types, [Next]_vars
    PROVE  net' \in [Conn -> {"none", "up", "fin", "cut"}]
<1>1. ASSUME NEW c \in Conn, ServerStep(c)
      PROVE  UNCHANGED net \/ Disconnect(c)
    BY <1>1
    DEF ServerStep, RegisterUser, LoginSucceeds, SignInRefused, IssueSession,
        IssueFails, ResumeFinds, ResumeFindsNothing, ResumeSucceeds,
        ResumeCheckFails, ResumeDeletes, LogoutDeletes, EndOfInput, Close, wire
<1>2. ASSUME NEW c \in Conn, SocketStep(c) \/ Lose(c)
      PROVE  net' \in {net} \cup {[net EXCEPT ![c] = v] : v \in {"none", "up", "cut"}}
    BY <1>2
    DEF SocketStep, Dial, Opens, ConnectFails, OnClose, Gone, OnAuthSuccess,
        OnAuthError, Lose
<1>3. ASSUME NEW b \in Tab, UserStep(b)
      PROVE  net' \in [Conn -> {"none", "up", "fin", "cut"}]
    BY <1>3 DEF UserStep, Submit, Logout, Reload, Types, WireOK
<1>4. CASE Tick \/ UNCHANGED vars
    BY <1>4 DEF Tick, vars, wire, Types, WireOK
<1> QED
    BY <1>1, <1>2, <1>3, <1>4 DEF Next, Disconnect, Types, WireOK

LEMMA AnswersChange ==
    ASSUME [Next]_vars
    PROVE  \/ UNCHANGED answers
           \/ \E c \in Conn :
                 \/ Refuse(c) \/ IssueSession(c) \/ ResumeSucceeds(c)
                 \/ \E b \in Tab : Dial(b, c)
                 \/ \E n : Gone(c, n)
                 \/ OnAuthSuccess(c) \/ OnAuthError(c)
           \/ \E b \in Tab : Logout(b) \/ Reload(b)
<1>1. ASSUME NEW c \in Conn, ServerStep(c)
      PROVE  \/ UNCHANGED answers
             \/ Refuse(c) \/ IssueSession(c) \/ ResumeSucceeds(c)
    BY <1>1
    DEF ServerStep, RegisterUser, LoginSucceeds, SignInRefused, IssueFails,
        ResumeFinds, ResumeFindsNothing, ResumeCheckFails, ResumeDeletes,
        LogoutDeletes, EndOfInput, Close, wire
<1>2. ASSUME NEW c \in Conn, Opens(c) \/ Lose(c)
      PROVE  UNCHANGED answers
    BY <1>2 DEF Opens, Lose
<1>3. ASSUME NEW b \in Tab, UserStep(b)
      PROVE  UNCHANGED answers \/ Logout(b) \/ Reload(b)
    BY <1>3 DEF UserStep, Submit
<1>4. CASE Tick \/ UNCHANGED vars
    BY <1>4 DEF Tick, vars, wire
<1> QED
    BY <1>1, <1>2, <1>3, <1>4 DEF Next, SocketStep, ConnectFails, OnClose

\* An answer to a connection that is open, and what it adds.
LEMMA AnswerTypes ==
    ASSUME Types, NEW c \in Conn, NEW r \in Reply, Answer(c, r),
           issued \subseteq issued', r.kind = "success" => r.of \in issued'
    PROVE  /\ answers' \in [Conn -> Seq(Reply)]
           /\ \A d \in Conn : \A i \in 1..Len(answers'[d]) :
                  answers'[d][i].kind = "success" => answers'[d][i].of \in issued'
<1>1. CASE UNCHANGED answers
    BY <1>1 DEF Types, WireOK
<1>2. CASE answers' = [answers EXCEPT ![c] = Append(@, r)]
  <2>1. answers[c] \in Seq(Reply)
      BY DEF Types, WireOK
  <2>2. /\ Append(answers[c], r) \in Seq(Reply)
        /\ Len(Append(answers[c], r)) = Len(answers[c]) + 1
        /\ \A i \in 1..(Len(answers[c]) + 1) : Append(answers[c], r)[i] =
               IF i = Len(answers[c]) + 1 THEN r ELSE answers[c][i]
      BY <2>1
  <2>3. answers' \in [Conn -> Seq(Reply)]
      BY <1>2, <2>2 DEF Types, WireOK
  <2>4. answers'[c] = Append(answers[c], r)
        /\ \A d \in Conn : d # c => answers'[d] = answers[d]
      BY <1>2 DEF Types, WireOK
  <2>5. ASSUME NEW d \in Conn, NEW i \in 1..Len(answers'[d]),
               answers'[d][i].kind = "success"
        PROVE  answers'[d][i].of \in issued'
    <3>1. CASE d # c
        BY <2>4, <2>5, <3>1 DEF Types, WireOK
    <3>2. CASE d = c
      <4>1. i \in 1..(Len(answers[c]) + 1)
          BY <2>2, <2>4, <2>5, <3>2
      <4>2. answers'[d][i] = IF i = Len(answers[c]) + 1 THEN r ELSE answers[c][i]
          BY <2>2, <2>4, <3>2, <4>1
      <4>3. CASE i = Len(answers[c]) + 1
          BY <2>5, <4>2, <4>3
      <4>4. CASE i # Len(answers[c]) + 1
        <5>1. i \in 1..Len(answers[c])
            BY <2>1, <4>1, <4>4
        <5> QED
            BY <2>5, <4>2, <4>4, <5>1 DEF Types, WireOK
      <4> QED
          BY <4>3, <4>4
    <3> QED
        BY <3>1, <3>2
  <2> QED
      BY <2>3, <2>5
<1> QED
    BY <1>1, <1>2 DEF Answer

\* An answer that is taken, or answers that are dropped.
LEMMA AnswersTaken ==
    ASSUME Types, [Next]_vars,
           \A d \in Conn : \/ answers'[d] = answers[d]
                           \/ answers'[d] = <<>>
                           \/ answers[d] # <<>> /\ answers'[d] = Tail(answers[d])
    PROVE  \A d \in Conn : /\ answers'[d] \in Seq(Reply)
                           /\ \A i \in 1..Len(answers'[d]) :
                                  answers'[d][i].kind = "success" =>
                                      answers'[d][i].of \in issued'
<1> SUFFICES ASSUME NEW d \in Conn
             PROVE  /\ answers'[d] \in Seq(Reply)
                    /\ \A i \in 1..Len(answers'[d]) :
                           answers'[d][i].kind = "success" =>
                               answers'[d][i].of \in issued'
    OBVIOUS
<1>1. /\ answers[d] \in Seq(Reply)
      /\ \A i \in 1..Len(answers[d]) :
             answers[d][i].kind = "success" => answers[d][i].of \in issued'
    BY TablesGrow DEF Types, WireOK
<1>2. CASE answers[d] # <<>> /\ answers'[d] = Tail(answers[d])
  <2>1. /\ Tail(answers[d]) \in Seq(Reply)
        /\ Len(Tail(answers[d])) = Len(answers[d]) - 1
        /\ \A i \in 1..(Len(answers[d]) - 1) : Tail(answers[d])[i] = answers[d][i + 1]
      BY <1>1, <1>2
  <2>2. ASSUME NEW i \in 1..Len(Tail(answers[d])),
               Tail(answers[d])[i].kind = "success"
        PROVE  Tail(answers[d])[i].of \in issued'
    <3>1. i + 1 \in 1..Len(answers[d]) /\ Tail(answers[d])[i] = answers[d][i + 1]
        BY <1>1, <2>1, <2>2
    <3> QED
        BY <1>1, <2>2, <3>1
  <2> QED
      BY <1>2, <2>1, <2>2
<1>3. CASE answers'[d] = <<>>
    BY <1>3
<1> QED
    BY <1>1, <1>2, <1>3

LEMMA WireTypes ==
    ASSUME Types, [Next]_vars
    PROVE  WireOK'
<1>1. issued \subseteq issued'
    BY TablesGrow
<1> SUFFICES /\ answers' \in [Conn -> Seq(Reply)]
             /\ \A d \in Conn : \A i \in 1..Len(answers'[d]) :
                    answers'[d][i].kind = "success" => answers'[d][i].of \in issued'
    BY InboxTypes, NetTypes DEF WireOK
<1>2. CASE UNCHANGED answers
    BY <1>1, <1>2 DEF Types, WireOK
<1>3. ASSUME NEW c \in Conn, Refuse(c)
      PROVE  /\ answers' \in [Conn -> Seq(Reply)]
             /\ \A d \in Conn : \A i \in 1..Len(answers'[d]) :
                    answers'[d][i].kind = "success" => answers'[d][i].of \in issued'
    BY <1>1, <1>3, AnswerTypes, ReplyTypes DEF Refuse
<1>4. ASSUME NEW c \in Conn, IssueSession(c) \/ ResumeSucceeds(c)
      PROVE  /\ answers' \in [Conn -> Seq(Reply)]
             /\ \A d \in Conn : \A i \in 1..Len(answers'[d]) :
                    answers'[d][i].kind = "success" => answers'[d][i].of \in issued'
  <2>1. PICK t \in Token :
            t \in issued' /\ Answer(c, [kind |-> "success", of |-> t])
    <3>1. CASE IssueSession(c)
        BY <3>1 DEF IssueSession, Bind
    <3>2. CASE ResumeSucceeds(c)
        BY <1>1, <3>2 DEF ResumeSucceeds, Bind, Types, ReaderOK, TablesOK
    <3> QED
        BY <1>4, <3>1, <3>2
  <2> QED
      BY <1>1, <2>1, AnswerTypes, ReplyTypes
<1>5. ASSUME NEW f, answers' = [d \in Conn |-> f[d]],
             \A d \in Conn : \/ f[d] = answers[d] \/ f[d] = <<>>
                             \/ answers[d] # <<>> /\ f[d] = Tail(answers[d])
      PROVE  /\ answers' \in [Conn -> Seq(Reply)]
             /\ \A d \in Conn : \A i \in 1..Len(answers'[d]) :
                    answers'[d][i].kind = "success" => answers'[d][i].of \in issued'
  <2>1. \A d \in Conn : answers'[d] = f[d]
      BY <1>5
  <2>2. \A d \in Conn : /\ answers'[d] \in Seq(Reply)
                        /\ \A i \in 1..Len(answers'[d]) :
                               answers'[d][i].kind = "success" =>
                                   answers'[d][i].of \in issued'
      BY <1>5, <2>1, AnswersTaken
  <2> QED
      BY <1>5, <2>1, <2>2
<1>6. ASSUME NEW c \in Conn,
             \/ \E b \in Tab : Dial(b, c)
             \/ \E n : Gone(c, n)
             \/ OnAuthSuccess(c) \/ OnAuthError(c)
      PROVE  /\ answers' \in [Conn -> Seq(Reply)]
             /\ \A d \in Conn : \A i \in 1..Len(answers'[d]) :
                    answers'[d][i].kind = "success" => answers'[d][i].of \in issued'
  <2>1. \/ answers' = [answers EXCEPT ![c] = <<>>]
        \/ answers[c] # <<>> /\ answers' = [answers EXCEPT ![c] = Tail(@)]
      BY <1>6 DEF Dial, Gone, OnAuthSuccess, OnAuthError
  <2>2. /\ answers' = [d \in Conn |-> answers'[d]]
        /\ \A d \in Conn : \/ answers'[d] = answers[d] \/ answers'[d] = <<>>
                           \/ answers[d] # <<>> /\ answers'[d] = Tail(answers[d])
      BY <2>1 DEF Types, WireOK
  <2> QED
      BY <1>5, <2>2
<1>7. ASSUME NEW b \in Tab, Logout(b) \/ Reload(b)
      PROVE  /\ answers' \in [Conn -> Seq(Reply)]
             /\ \A d \in Conn : \A i \in 1..Len(answers'[d]) :
                    answers'[d][i].kind = "success" => answers'[d][i].of \in issued'
  <2>1. /\ answers' = [d \in Conn |-> answers'[d]]
        /\ \A d \in Conn : answers'[d] = answers[d] \/ answers'[d] = <<>>
      BY <1>7 DEF Logout, Reload
  <2> QED
      BY <1>5, <2>1
<1> QED
    BY <1>2, <1>3, <1>4, <1>6, <1>7, AnswersChange

LEMMA TypesInit == Init => Types
<1> USE SessionsAssumption
<1>1. Init => TablesOK /\ EnvOK /\ HistoryOK
    BY DEF Init, TablesOK, EnvOK, HistoryOK
<1>2. Init => ReaderOK /\ ServerOK
    BY DEF Init, ReaderOK, ServerOK
<1>3. Init => WireOK /\ PageOK
    BY DEF Init, WireOK, PageOK
<1> QED
    BY <1>1, <1>2, <1>3 DEF Types

LEMMA TypesInvariant == Spec => []Types
<1>1. Types /\ [Next]_vars => Types'
    BY TablesStep, EnvStep, ReaderStep, ServerTypes, WireTypes, PageTypes,
       HistoryTypes DEF Types
<1> QED
    BY <1>1, TypesInit, PTL DEF Spec

\* A token belongs to an account, a connection to its token's owner, and every
\* variable has its type.
THEOREM SessionsTypeCorrect == Spec => []TypeOK
<1>1. Types => TypeOK
    BY DEF Types, TablesOK, EnvOK, ReaderOK, ServerOK, WireOK, PageOK, HistoryOK,
           TypeOK
<1> QED
    BY <1>1, TypesInvariant, PTL

-----------------------------------------------------------------------------
(***************************************************************************)
(* Sessions.  While storage works, only an expired session is deleted by   *)
(* the resume that finds it.                                               *)
(***************************************************************************)
DeletedAreExpired ==
    fails = 0 =>
        \A c \in Conn : phase[c] = "deleting" => now >= expires[call[c].of]

EndInv == DeletedAreExpired /\ OnlyLogoutOrExpiryEndsASession

LEMMA EndStep ==
    ASSUME Types, Types', EndInv, [Next]_vars
    PROVE  EndInv'
<1> SUFFICES ASSUME fails' = 0
             PROVE  /\ \A c \in Conn : phase'[c] = "deleting" =>
                           now' >= expires'[call'[c].of]
                    /\ \A t \in issued' :
                           t \in live' \/ t \in left' \/ now' >= expires'[t]
    BY DEF EndInv, DeletedAreExpired, OnlyLogoutOrExpiryEndsASession
<1>1. fails' = fails /\ fails = 0 /\ now' \in Nat /\ now \in Nat /\ now' >= now
    BY EnvChange DEF env, Types, EnvOK
<1>2. \A t \in issued : /\ expires'[t] = expires[t] /\ expires[t] \in Nat
                        /\ now >= expires[t] => now' >= expires'[t]
    BY <1>1, TablesGrow DEF Types, TablesOK
<1>3. ASSUME NEW c \in Conn, phase'[c] = "deleting"
      PROVE  now' >= expires'[call'[c].of]
  <2>1. CASE phase'[c] = phase[c] /\ call'[c] = call[c]
      BY <1>1, <1>2, <1>3, <2>1 DEF EndInv, DeletedAreExpired, Types, ReaderOK
  <2>2. CASE ~(phase'[c] = phase[c] /\ call'[c] = call[c])
    <3>1. ASSUME NEW d \in Conn,
                 \/ RegisterUser(d) \/ LoginSucceeds(d) \/ SignInRefused(d)
                 \/ IssueSession(d) \/ IssueFails(d) \/ ResumeFindsNothing(d)
                 \/ ResumeSucceeds(d) \/ ResumeDeletes(d)
          PROVE  \E p \in {"idle", "issuing"} : \E f :
                     Goto(d, p) /\ call' = [call EXCEPT ![d] = f]
        BY <3>1
        DEF RegisterUser, LoginSucceeds, SignInRefused, IssueSession, IssueFails,
            ResumeFindsNothing, ResumeSucceeds, ResumeDeletes, At, Refuse, Bind
    <3>2. ASSUME NEW d \in Conn, EndOfInput(d) \/ Opens(d)
          PROVE  call' = call /\ \E p \in {"none", "idle"} : Goto(d, p)
        BY <3>2 DEF EndOfInput, Opens
    <3>3. ASSUME NEW d \in Conn, ResumeCheckFails(d)
          PROVE  FALSE
        BY <1>1, <3>3 DEF ResumeCheckFails, StorageFails
    <3>4. ASSUME NEW d \in Conn, NEW p \in {"none", "idle", "issuing"}, NEW f,
                 Goto(d, p), call' \in {call, [call EXCEPT ![d] = f]}
          PROVE  FALSE
      <4>1. CASE d = c
          BY <1>3, <3>4, <4>1 DEF Goto, Types, ReaderOK
      <4>2. CASE d # c
          BY <2>2, <3>4, <4>2 DEF Goto, Types, ReaderOK
      <4> QED
          BY <4>1, <4>2
    <3>5. PICK d \in Conn : ResumeFinds(d)
        BY <2>2, <3>1, <3>2, <3>3, <3>4, ReaderChange DEF reader
    <3>6. PICK p : At(d, p) /\ (p = "deleting" => Expired(Asked(d)))
        BY <3>5 DEF ResumeFinds
    <3>7. d = c
        BY <2>2, <3>6 DEF At, Goto, Types, ReaderOK
    <3>8. p = "deleting" /\ call'[c] = Head(inbox[c])
        BY <1>3, <3>6, <3>7 DEF At, Goto, Types, ReaderOK
    <3>9. Asked(c) \in issued /\ now >= expires[Asked(c)] /\ call'[c].of = Asked(c)
        BY <3>5, <3>6, <3>7, <3>8 DEF ResumeFinds, Expired, Asked, Types, TablesOK
    <3> QED
        BY <1>2, <3>9
  <2> QED
      BY <2>1, <2>2
<1>4. ASSUME NEW t \in issued'
      PROVE  t \in live' \/ t \in left' \/ now' >= expires'[t]
  <2>1. left \subseteq left'
      BY LeftChange DEF LogoutDeletes
  <2>2. CASE t \in issued /\ (t \in live => t \in live')
      BY <1>1, <1>2, <2>1, <2>2 DEF EndInv, OnlyLogoutOrExpiryEndsASession
  <2>3. CASE t \notin issued
    <3>1. PICK c \in Conn : IssueSession(c)
        BY <1>4, <2>3, TablesChange
        DEF tables, RegisterUser, ResumeDeletes, LogoutDeletes
    <3> QED
        BY <1>4, <2>3, <3>1 DEF IssueSession
  <2>4. CASE t \in issued /\ t \in live /\ t \notin live'
    <3>1. PICK c \in Conn : ResumeDeletes(c) \/ LogoutDeletes(c)
        BY <2>4, TablesChange DEF tables, RegisterUser, IssueSession
    <3>2. CASE ResumeDeletes(c)
      <4>1. t = call[c].of /\ phase[c] = "deleting"
          BY <2>4, <3>2 DEF ResumeDeletes
      <4> QED
          BY <1>1, <1>2, <2>4, <4>1 DEF EndInv, DeletedAreExpired
    <3>3. CASE LogoutDeletes(c)
        BY <2>4, <3>3 DEF LogoutDeletes
    <3> QED
        BY <3>1, <3>2, <3>3
  <2> QED
      BY <2>2, <2>3, <2>4
<1> QED
    BY <1>3, <1>4

\* While storage works a session ends by its logout or its expiry alone.
THEOREM SessionsEndByLogoutOrExpiry == Spec => []OnlyLogoutOrExpiryEndsASession
<1>1. Init => EndInv
    BY DEF Init, EndInv, DeletedAreExpired, OnlyLogoutOrExpiryEndsASession
<1>2. Types /\ Types' /\ EndInv /\ [Next]_vars => EndInv'
    BY EndStep
<1>3. EndInv => OnlyLogoutOrExpiryEndsASession
    BY DEF EndInv
<1> QED
    BY <1>1, <1>2, <1>3, TypesInvariant, PTL DEF Spec

\* A resume that reads its row after the logout, or after the expiry, fails.
THEOREM LateResumesFail == Spec => LogoutStopsLaterResumes
<1>1. ASSUME Types, [Next]_vars
      PROVE  [\A c \in Conn : Reading(c, "resume") /\ phase'[c] = "checking" =>
                  Asked(c) \notin left /\ now < expires[Asked(c)]]_vars
  <2> SUFFICES ASSUME NEW c \in Conn, Reading(c, "resume"), phase'[c] = "checking"
               PROVE  Asked(c) \notin left /\ now < expires[Asked(c)]
      OBVIOUS
  <2>1. phase[c] = "idle" /\ phase \in [Conn -> {"none", "idle", "issuing",
                                                  "checking", "deleting"}]
      BY <1>1 DEF Reading, Types, ReaderOK
  <2>2. ASSUME NEW d \in Conn, NEW p, Goto(d, p)
        PROVE  d = c /\ p = "checking"
      BY <2>1, <2>2 DEF Goto
  <2>3. PICK d \in Conn : ResumeFinds(d)
    <3>1. ~UNCHANGED reader
        BY <2>1 DEF reader
    <3>2. ASSUME NEW d \in Conn,
                 \/ RegisterUser(d) \/ LoginSucceeds(d) \/ SignInRefused(d)
                 \/ IssueSession(d) \/ IssueFails(d) \/ ResumeFindsNothing(d)
                 \/ ResumeSucceeds(d) \/ ResumeDeletes(d) \/ ResumeCheckFails(d)
                 \/ EndOfInput(d) \/ Opens(d)
          PROVE  \E p \in {"none", "idle", "issuing", "deleting"} : Goto(d, p)
        BY <3>2
        DEF RegisterUser, LoginSucceeds, SignInRefused, IssueSession, IssueFails,
            ResumeFindsNothing, ResumeSucceeds, ResumeDeletes, ResumeCheckFails,
            EndOfInput, Opens, At, Refuse, Bind
    <3> QED
        BY <1>1, <2>2, <3>1, <3>2, ReaderChange
  <2>4. d = c /\ ~Expired(Asked(d)) /\ Asked(d) \in live
      BY <2>2, <2>3 DEF ResumeFinds, At
  <2> QED
      BY <1>1, <2>4 DEF Expired, Types, TablesOK, EnvOK, HistoryOK
<1> QED
    BY <1>1, TypesInvariant, PTL DEF Spec, LogoutStopsLaterResumes

-----------------------------------------------------------------------------
(***************************************************************************)
(* The registry.                                                           *)
(***************************************************************************)

\* Only a new socket forgets that the connection was late, or renamed.
LEMMA TurnsStay ==
    ASSUME Types, [Next]_vars, NEW c \in Conn, \A b \in Tab : ~Dial(b, c)
    PROVE  odd[c] \cap {"late", "renamed"} \subseteq odd'[c]
<1> USE DEF Types, HistoryOK
<1>1. ASSUME NEW d \in Conn, Refuse(d) \/ Opens(d)
      PROVE  odd[c] \subseteq odd'[c]
    BY <1>1 DEF Refuse, Opens, Mark
<1>2. ASSUME NEW d \in Conn, NEW t, NEW n, Bind(d, t, n)
      PROVE  odd[c] \subseteq odd'[c]
    BY <1>2 DEF Bind
<1>3. ASSUME NEW d \in Conn, NEW n, Gone(d, n)
      PROVE  odd[c] \cap {"late", "renamed"} \subseteq odd'[c]
    BY <1>3 DEF Gone
<1>4. ASSUME NEW d \in Conn, NEW b \in Tab, Dial(b, d)
      PROVE  odd'[c] = odd[c]
    BY <1>4 DEF Dial
<1>5. ASSUME NEW d \in Conn,
             \/ SignInRefused(d) \/ IssueFails(d) \/ ResumeFindsNothing(d)
             \/ ResumeDeletes(d) \/ IssueSession(d) \/ ResumeSucceeds(d)
      PROVE  Refuse(d) \/ \E t, n : Bind(d, t, n)
    BY <1>5
    DEF SignInRefused, IssueFails, ResumeFindsNothing, ResumeDeletes,
        IssueSession, ResumeSucceeds
<1> QED
    BY <1>1, <1>2, <1>3, <1>4, <1>5, OddChange DEF ConnectFails, OnClose

LEMMA RegistryStep ==
    ASSUME Types, RegistryIsConnected, [Next]_vars
    PROVE  RegistryIsConnected'
<1> USE SessionsAssumption
<1> SUFFICES ASSUME NEW n \in Name, NEW c \in Conn, registered'[n] = c,
                    odd'[c] \cap {"late", "renamed"} = {}
             PROVE  user'[c] = n /\ closer'[c] # "done"
  <2>1. registered' \in [Name -> Conn \cup {NoConn}]
      BY ServerTypes DEF ServerOK
  <2> QED
      BY <2>1 DEF RegistryIsConnected
\* What the entry was before says, if the connection has been there.
<1>1. ASSUME registered[n] = c, \A b \in Tab : ~Dial(b, c)
      PROVE  user[c] = n /\ closer[c] # "done" /\ c # NoConn
    BY <1>1, TurnsStay DEF RegistryIsConnected
<1>2. ASSUME NEW d \in Conn, NEW b \in Tab, Dial(b, d)
      PROVE  user'[c] = n /\ closer'[c] # "done"
  <2>1. registered[n] = c /\ c # d /\ user'[c] = user[c] /\ closer'[c] = closer[c]
      BY <1>2 DEF Dial, Unused, Types, ServerOK
  <2>2. odd[c] = odd'[c]
      BY <1>2, <2>1 DEF Dial, Types, HistoryOK
  <2> QED
      BY <2>1, <2>2 DEF RegistryIsConnected
<1>3. CASE \A d \in Conn, b \in Tab : ~Dial(b, d)
  <2>1. CASE UNCHANGED server
      BY <1>1, <1>3, <2>1 DEF server
  <2>2. ASSUME NEW d \in Conn, NEW t, NEW m \in Name, Bind(d, t, m)
        PROVE  user'[c] = n /\ closer'[c] # "done"
    <3>1. /\ user' = [user EXCEPT ![d] = m]
          /\ registered' = [registered EXCEPT ![m] = d]
        BY <2>2 DEF Bind
    <3>2. closer'[c] = "done" => closer[c] = "done"
        BY <2>2 DEF Bind, Types, ServerOK
    <3>3. /\ user[d] \notin {m, NoName} => "renamed" \in odd'[d]
          /\ closer[d] = "done" => "late" \in odd'[d]
        BY <2>2 DEF Bind, Types, HistoryOK
    <3>4. CASE n = m
      <4>1. c = d
          BY <3>1, <3>4 DEF Types, ServerOK
      <4> QED
          BY <3>1, <3>2, <3>3, <3>4, <4>1 DEF Types, ServerOK
    <3>5. CASE n # m
      <4>1. registered[n] = c
          BY <3>1, <3>5 DEF Types, ServerOK
      <4>2. user[c] = n /\ closer[c] # "done"
          BY <1>1, <1>3, <4>1
      <4>3. c # d
          BY <3>3, <3>5, <4>2
      <4> QED
          BY <3>1, <3>2, <4>2, <4>3 DEF Types, ServerOK
    <3> QED
        BY <3>4, <3>5
  <2>3. ASSUME NEW d \in Conn, Disconnect(d), \A e \in Conn \ {d} : user'[e] = user[e]
        PROVE  user'[c] = n /\ closer'[c] # "done"
    <3>1. registered[n] = c
        BY <2>3 DEF Disconnect, AfterRemove, Types, ServerOK
    <3>2. user[c] = n /\ closer[c] # "done"
        BY <1>1, <1>3, <3>1
    <3>3. c # d
        BY <2>3, <3>1, <3>2 DEF Disconnect, AfterRemove, Types, ServerOK
    <3> QED
        BY <2>3, <3>2, <3>3 DEF Disconnect, Types, ServerOK
  <2>5. ASSUME NEW d \in Conn, EndOfInput(d) \/ Close(d)
        PROVE  user'[c] = n /\ closer'[c] # "done"
    <3>1. Disconnect(d) /\ \A e \in Conn \ {d} : user'[e] = user[e]
        BY <2>5 DEF EndOfInput, Close, Types, ServerOK
    <3> QED
        BY <2>3, <3>1
  <2>6. ASSUME NEW d \in Conn, IssueSession(d) \/ ResumeSucceeds(d)
        PROVE  \E t, m : m \in Name /\ Bind(d, t, m)
    <3>1. CASE IssueSession(d)
      <4>1. call[d].of \in Name
          BY <3>1 DEF IssueSession, Types, ReaderOK, TablesOK
      <4> QED
          BY <3>1, <4>1 DEF IssueSession
    <3>2. CASE ResumeSucceeds(d)
      <4>1. ResumedAs(d) \in Name
          BY <3>2 DEF ResumeSucceeds, ResumedAs, Types, ReaderOK, TablesOK
      <4> QED
          BY <3>2, <4>1 DEF ResumeSucceeds
    <3> QED
        BY <2>6, <3>1, <3>2
  <2> QED
      BY <1>3, <2>1, <2>2, <2>5, <2>6, ServerChange
<1> QED
    BY <1>2, <1>3

\* A user's entry in the registry is a connection signed in as the user that
\* has not been closed, but for late and renamed ones.
THEOREM RegistryHoldsConnected == Spec => []RegistryIsConnected
<1>1. Init => RegistryIsConnected
    BY DEF Init, RegistryIsConnected
<1>2. Types /\ RegistryIsConnected /\ [Next]_vars => RegistryIsConnected'
    BY RegistryStep
<1> QED
    BY <1>1, <1>2, TypesInvariant, PTL DEF Spec

-----------------------------------------------------------------------------
(***************************************************************************)
(* Sockets and timers of a tab.                                            *)
(***************************************************************************)
LEMMA ComesBackStep ==
    ASSUME Types, SignedInPageComesBack, [Next]_vars
    PROVE  SignedInPageComesBack'
<1> USE SessionsAssumption DEF Types
<1> SUFFICES ASSUME NEW b \in Tab, shown'[b] # NoName
             PROVE  timers'[b] > 0 \/ \E c \in Conn : tabOf'[c] = b
    BY DEF SignedInPageComesBack
<1>1. shown[b] # NoName => timers[b] > 0 \/ \E c \in Conn : tabOf[c] = b
    BY DEF SignedInPageComesBack
<1>2. CASE UNCHANGED page
    BY <1>1, <1>2 DEF page
<1>3. ASSUME NEW c \in Conn, NEW a \in Tab, Dial(a, c)
      PROVE  timers'[b] > 0 \/ \E d \in Conn : tabOf'[d] = b
  <2>1. tabOf' = [tabOf EXCEPT ![c] = a] /\ timers' = [timers EXCEPT ![a] = @ - 1]
        /\ shown' = shown /\ tabOf[c] = NoTab
      BY <1>3 DEF Dial, Unused, PageOK
  <2>2. tabOf'[c] = a /\ \A d \in Conn : tabOf[d] = b => tabOf'[d] = b
      BY <2>1 DEF PageOK
  <2>3. CASE a = b
      BY <2>2, <2>3
  <2>4. CASE a # b
      BY <1>1, <2>1, <2>2, <2>4 DEF PageOK
  <2> QED
      BY <2>3, <2>4
<1>4. ASSUME NEW c \in Conn, Opens(c)
      PROVE  timers'[b] > 0 \/ \E d \in Conn : tabOf'[d] = b
    BY <1>1, <1>4 DEF Opens
<1>5. ASSUME NEW c \in Conn, ConnectFails(c) \/ OnClose(c)
      PROVE  timers'[b] > 0 \/ \E d \in Conn : tabOf'[d] = b
  <2>1. PICK n \in Nat : /\ Gone(c, n) /\ (tabOf[c] = b => n = 1)
      BY <1>5 DEF ConnectFails, OnClose, RetriesOfFailure, Retries, Gone
  <2>2. timers' = [timers EXCEPT ![tabOf[c]] = @ + n] /\ shown' = shown
        /\ tabOf' = [tabOf EXCEPT ![c] = NoTab]
      BY <2>1 DEF Gone
  <2>3. CASE tabOf[c] = b
    <3>1. timers'[b] = timers[b] + 1
        BY <2>1, <2>2, <2>3 DEF PageOK
    <3> QED
        BY <3>1 DEF PageOK
  <2>4. CASE tabOf[c] # b
    <3>1. timers'[b] = timers[b]
        BY <2>2, <2>4 DEF PageOK
    <3>2. \A d \in Conn : tabOf[d] = b => tabOf'[d] = b
        BY <2>2, <2>4 DEF PageOK
    <3> QED
        BY <1>1, <2>2, <3>1, <3>2
  <2> QED
      BY <2>3, <2>4
<1>6. ASSUME NEW c \in Conn, OnAuthSuccess(c) \/ OnAuthError(c)
      PROVE  timers'[b] > 0 \/ \E d \in Conn : tabOf'[d] = b
  <2>1. /\ tabOf' = tabOf /\ timers' = timers
        /\ tabOf[c] # b => shown'[b] = shown[b]
      BY <1>6 DEF OnAuthSuccess, OnAuthError, ShownAfterError, PageOK
  <2> QED
      BY <1>1, <2>1
<1>7. ASSUME NEW a \in Tab, Logout(a)
      PROVE  timers'[b] > 0 \/ \E d \in Conn : tabOf'[d] = b
  <2>1. tabOf' = tabOf /\ a # b /\ timers'[b] = timers[b] /\ shown'[b] = shown[b]
      BY <1>7 DEF Logout, PageOK
  <2> QED
      BY <1>1, <2>1
<1>8. ASSUME NEW a \in Tab, Reload(a)
      PROVE  timers'[b] > 0 \/ \E d \in Conn : tabOf'[d] = b
  <2>1. a # b /\ timers'[b] = timers[b] /\ shown'[b] = shown[b]
      BY <1>8 DEF Reload, PageOK
  <2>2. \A d \in Conn : tabOf[d] = b => tabOf'[d] = b
      BY <1>8, <2>1 DEF Reload
  <2> QED
      BY <1>1, <2>1, <2>2
<1> QED
    BY <1>2, <1>3, <1>4, <1>5, <1>6, <1>7, <1>8, PageChange

\* A page that shows its user has a socket, or a timer that will make one.
THEOREM SignedInComesBack == Spec => []SignedInPageComesBack
<1>1. Init => SignedInPageComesBack
    BY DEF Init, SignedInPageComesBack
<1>2. Types /\ SignedInPageComesBack /\ [Next]_vars => SignedInPageComesBack'
    BY ComesBackStep
<1> QED
    BY <1>1, <1>2, TypesInvariant, PTL DEF Spec

CurInv == \A b \in Tab : cur[b] # NoConn => tabOf[cur[b]] = b

\* A tab that has not begun to connect twice has a timer, or one socket that is
\* its last; when that one is closing, nobody is shown.
OneAttempt(b) ==
    /\ timers[b] \in {0, 1}
    /\ \A c \in Conn : tabOf[c] = b /\ sock[c] # "closing" =>
           cur[b] = c /\ timers[b] = 0
    /\ cur[b] # NoConn /\ sock[cur[b]] = "closing" => shown[b] = NoName

SocketInv == CurInv /\ \A b \in Tab \ overlapped : OneAttempt(b)

LEMMA CurStep ==
    ASSUME Types, CurInv, [Next]_vars
    PROVE  CurInv'
<1> USE SessionsAssumption DEF Types
<1>1. CASE UNCHANGED page
    BY <1>1 DEF page, CurInv
<1>2. ASSUME NEW c \in Conn, NEW a \in Tab, Dial(a, c)
      PROVE  CurInv'
    BY <1>2 DEF Dial, Unused, CurInv, PageOK
<1>3. ASSUME NEW c \in Conn, Opens(c) \/ OnAuthSuccess(c) \/ OnAuthError(c)
      PROVE  CurInv'
    BY <1>3 DEF Opens, OnAuthSuccess, OnAuthError, CurInv
<1>4. ASSUME NEW c \in Conn, ConnectFails(c) \/ OnClose(c)
      PROVE  CurInv'
    BY <1>4 DEF ConnectFails, OnClose, Gone, CurInv, PageOK
<1>5. ASSUME NEW a \in Tab, Logout(a) \/ Reload(a)
      PROVE  CurInv'
    BY <1>5 DEF Logout, Reload, CurInv, PageOK
<1> QED
    BY <1>1, <1>2, <1>3, <1>4, <1>5, PageChange

LEMMA OneAttemptStep ==
    ASSUME Types, SocketInv, [Next]_vars, NEW b \in Tab \ overlapped'
    PROVE  OneAttempt(b)'
<1> USE SessionsAssumption DEF Types
<1>1. ASSUME Reload(b)
      PROVE  OneAttempt(b)'
    BY <1>1 DEF Reload, OneAttempt, PageOK
<1>2. CASE ~Reload(b)
  <2>1. b \notin overlapped
    <3>1. ASSUME NEW a \in Tab, Logout(a) \/ (Reload(a) /\ a # b)
          PROVE  b \notin overlapped
        BY <3>1 DEF Logout, Reload
    <3>2. ASSUME NEW c \in Conn, OnClose(c)
          PROVE  b \notin overlapped
        BY <3>2 DEF OnClose
    <3> QED
        BY <1>2, <3>1, <3>2, OverlappedChange
  <2>2. OneAttempt(b) /\ CurInv
      BY <2>1 DEF SocketInv
  <2>3. CASE UNCHANGED page
      BY <2>2, <2>3 DEF page, OneAttempt
  <2>4. ASSUME NEW c \in Conn, NEW a \in Tab, Dial(a, c)
        PROVE  OneAttempt(b)'
    <3>1. /\ timers' = [timers EXCEPT ![a] = @ - 1] /\ timers[a] > 0
          /\ cur' = [cur EXCEPT ![a] = c]
          /\ sock' = [sock EXCEPT ![c] = "connecting"]
          /\ tabOf' = [tabOf EXCEPT ![c] = a]
          /\ shown' = shown /\ tabOf[c] = NoTab
        BY <2>4 DEF Dial, Unused, PageOK
    <3>2. CASE a = b
      <4>1. timers[b] = 1 /\ \A d \in Conn : tabOf[d] = b => sock[d] = "closing"
          BY <2>2, <3>1, <3>2 DEF OneAttempt
      <4>2. timers'[b] = 0 /\ cur'[b] = c /\ sock'[c] = "connecting"
          BY <3>1, <3>2, <4>1 DEF PageOK
      <4>3. \A d \in Conn : d # c => tabOf'[d] = tabOf[d] /\ sock'[d] = sock[d]
          BY <3>1 DEF PageOK
      <4> QED
          BY <4>1, <4>2, <4>3 DEF OneAttempt
    <3>3. CASE a # b
      <4>1. timers'[b] = timers[b] /\ cur'[b] = cur[b]
          BY <3>1, <3>3 DEF PageOK
      <4>2. \A d \in Conn : d # c => tabOf'[d] = tabOf[d] /\ sock'[d] = sock[d]
          BY <3>1 DEF PageOK
      <4>3. tabOf'[c] # b /\ cur[b] # c
          BY <2>2, <3>1, <3>3 DEF PageOK, CurInv
      <4> QED
          BY <2>2, <3>1, <4>1, <4>2, <4>3 DEF OneAttempt, PageOK
    <3> QED
        BY <3>2, <3>3
  <2>5. ASSUME NEW c \in Conn, Opens(c)
        PROVE  OneAttempt(b)'
    <3>1. /\ sock[c] = "connecting" /\ sock' = [sock EXCEPT ![c] = "open"]
          /\ UNCHANGED <<tabOf, cur, timers, shown>>
        BY <2>5 DEF Opens
    <3>2. \A d \in Conn : sock'[d] = "closing" <=> sock[d] = "closing"
        BY <3>1 DEF PageOK
    <3> QED
        BY <2>2, <3>1, <3>2 DEF OneAttempt, PageOK
  <2>6. ASSUME NEW c \in Conn, NEW n \in {0, 1}, Gone(c, n), tabOf[c] \in Tab,
               tabOf[c] = b /\ n = 1 =>
                   /\ timers[b] = 0
                   /\ \A d \in Conn \ {c} : tabOf[d] = b => sock[d] = "closing"
        PROVE  OneAttempt(b)'
    <3>1. /\ sock' = [sock EXCEPT ![c] = "none"]
          /\ tabOf' = [tabOf EXCEPT ![c] = NoTab]
          /\ cur' = [cur EXCEPT ![tabOf[c]] = IF @ = c THEN NoConn ELSE @]
          /\ timers' = [timers EXCEPT ![tabOf[c]] = @ + n]
          /\ shown' = shown
        BY <2>6 DEF Gone
    <3>2. \A d \in Conn : d # c => tabOf'[d] = tabOf[d] /\ sock'[d] = sock[d]
        BY <3>1 DEF PageOK
    <3>3. tabOf'[c] = NoTab
        BY <3>1 DEF PageOK
    <3>4. CASE tabOf[c] # b
      <4>1. timers'[b] = timers[b] /\ cur'[b] = cur[b] /\ cur[b] # c
          BY <2>2, <3>1, <3>4 DEF PageOK, CurInv
      <4> QED
          BY <2>2, <3>1, <3>2, <3>3, <4>1 DEF OneAttempt, PageOK
    <3>5. CASE tabOf[c] = b
      <4>1. /\ timers'[b] = timers[b] + n
            /\ cur'[b] = IF cur[b] = c THEN NoConn ELSE cur[b]
          BY <3>1, <3>5 DEF PageOK
      <4>2. timers'[b] \in {0, 1}
          BY <2>2, <2>6, <3>5, <4>1 DEF OneAttempt
      <4>3. ASSUME NEW d \in Conn, tabOf'[d] = b, sock'[d] # "closing"
            PROVE  cur'[b] = d /\ timers'[b] = 0
        <5>1. d # c /\ tabOf[d] = b /\ sock[d] # "closing"
            BY <3>2, <3>3, <4>3
        <5>2. cur[b] = d /\ timers[b] = 0 /\ n = 0
            BY <2>2, <2>6, <3>5, <5>1 DEF OneAttempt
        <5> QED
            BY <4>1, <5>1, <5>2
      <4>4. cur'[b] # NoConn /\ sock'[cur'[b]] = "closing" => shown'[b] = NoName
          BY <2>2, <3>1, <3>2, <4>1 DEF OneAttempt, PageOK
      <4> QED
          BY <4>2, <4>3, <4>4 DEF OneAttempt
    <3> QED
        BY <3>4, <3>5
  <2>7. ASSUME NEW c \in Conn, sock[c] \notin {"none", "closing"}, tabOf[c] = b
        PROVE  /\ timers[b] = 0
               /\ \A d \in Conn \ {c} : tabOf[d] = b => sock[d] = "closing"
      BY <2>2, <2>7 DEF OneAttempt
  <2>8. ASSUME NEW c \in Conn, ConnectFails(c)
        PROVE  OneAttempt(b)'
    <3>1. Gone(c, 1) /\ tabOf[c] \in Tab /\ sock[c] \notin {"none", "closing"}
        BY <2>8 DEF ConnectFails, RetriesOfFailure, PageOK
    <3> QED
        BY <2>6, <2>7, <3>1
  <2>9. ASSUME NEW c \in Conn, OnClose(c)
        PROVE  OneAttempt(b)'
    <3>1. tabOf[c] \in Tab /\ sock[c] \in {"open", "closing"}
        BY <2>9 DEF OnClose, PageOK
    <3>2. PICK n \in {0, 1} : Gone(c, n) /\ (n = 1 => shown[tabOf[c]] # NoName)
        BY <2>9 DEF OnClose, Retries
    <3>3. CASE sock[c] = "open"
        BY <2>6, <2>7, <3>1, <3>2, <3>3
    <3>4. CASE sock[c] = "closing"
      <4>1. tabOf[c] = b /\ n = 1 => FALSE
        <5>1. tabOf[c] = b /\ n = 1 => cur[b] = c
            BY <2>9, <3>2 DEF OnClose
        <5> QED
            BY <2>2, <3>2, <3>4, <5>1 DEF OneAttempt
      <4> QED
          BY <2>6, <3>1, <3>2, <4>1
    <3> QED
        BY <3>1, <3>3, <3>4
  <2>10. ASSUME NEW c \in Conn, OnAuthSuccess(c) \/ OnAuthError(c)
         PROVE  OneAttempt(b)'
    <3>1. /\ sock[c] = "open" /\ UNCHANGED <<sock, tabOf, cur, timers>>
          /\ tabOf[c] # b => shown'[b] = shown[b]
        BY <2>10 DEF OnAuthSuccess, OnAuthError, ShownAfterError, PageOK
    <3>2. tabOf[c] = b => cur[b] = c
        BY <2>2, <3>1 DEF OneAttempt
    <3> QED
        BY <2>2, <3>1, <3>2 DEF OneAttempt
  <2>11. ASSUME NEW a \in Tab, Logout(a)
         PROVE  OneAttempt(b)'
    <3>1. /\ UNCHANGED <<tabOf, cur>>
          /\ timers' = [timers EXCEPT ![a] = @ + 1]
          /\ shown' = [shown EXCEPT ![a] = NoName]
          /\ \A d \in Conn : d # cur[a] => sock'[d] = sock[d]
        BY <2>11 DEF Logout
    <3>2. CASE a # b
      <4>1. timers'[b] = timers[b] /\ shown'[b] = shown[b] /\ cur'[b] = cur[b]
          BY <3>1, <3>2 DEF PageOK
      <4>2. \A d \in Conn : tabOf[d] = b => sock'[d] = sock[d]
          BY <2>2, <3>1, <3>2, SessionsAssumption DEF CurInv, PageOK
      <4>3. cur[b] # NoConn => sock'[cur[b]] = sock[cur[b]]
          BY <2>2, <4>2 DEF CurInv, PageOK
      <4> QED
          BY <2>2, <3>1, <4>1, <4>2, <4>3 DEF OneAttempt, PageOK
    <3>3. CASE a = b
      <4>1. timers[b] = 0 /\ (cur[b] \in Conn => sock'[cur[b]] # "aborted")
          BY <2>11, <3>3 DEF Logout, PageOK
      <4>2. ASSUME NEW d \in Conn, tabOf[d] = b
            PROVE  sock'[d] = "closing"
        <5>1. CASE sock[d] = "closing"
            BY <2>11, <5>1 DEF Logout
        <5>2. CASE sock[d] # "closing"
          <6>1. cur[b] = d /\ sock[d] \in {"connecting", "aborted", "open"}
              BY <2>2, <4>2, <5>2 DEF OneAttempt, PageOK
          <6>2. sock'[d] = IF sock[d] = "open" THEN "closing" ELSE "aborted"
              BY <2>11, <3>3, <6>1 DEF Logout
          <6> QED
              BY <4>1, <6>1, <6>2
        <5> QED
            BY <5>1, <5>2
      <4>3. timers'[b] = 1 /\ shown'[b] = NoName
          BY <3>1, <3>3, <4>1 DEF PageOK
      <4> QED
          BY <3>1, <4>2, <4>3 DEF OneAttempt
    <3> QED
        BY <3>2, <3>3
  <2>12. ASSUME NEW a \in Tab, Reload(a), a # b
         PROVE  OneAttempt(b)'
    <3>1. timers'[b] = timers[b] /\ shown'[b] = shown[b] /\ cur'[b] = cur[b]
        BY <2>12 DEF Reload, PageOK
    <3>2. \A d \in Conn : /\ tabOf[d] = b => sock'[d] = sock[d]
                          /\ tabOf'[d] = b <=> tabOf[d] = b
        BY <2>12 DEF Reload, PageOK
    <3>3. cur[b] # NoConn => sock'[cur[b]] = sock[cur[b]]
        BY <2>2, <3>2 DEF CurInv, PageOK
    <3> QED
        BY <2>2, <3>1, <3>2, <3>3 DEF OneAttempt, PageOK
  <2> QED
      BY <1>2, <2>3, <2>4, <2>5, <2>8, <2>9, <2>10, <2>11, <2>12, PageChange
<1> QED
    BY <1>1, <1>2

LEMMA SocketInvariant == Spec => []SocketInv
<1>1. Init => SocketInv
    BY SessionsAssumption DEF Init, SocketInv, CurInv, OneAttempt
<1>2. Types /\ SocketInv /\ [Next]_vars => SocketInv'
    BY CurStep, OneAttemptStep DEF SocketInv
<1> QED
    BY <1>1, <1>2, TypesInvariant, PTL DEF Spec

\* A tab connects once at a time: a lost connection and a failed attempt start one
\* timer, and a logout or a late close event that starts another is `overlapped'.
THEOREM TabsConnectOnce == Spec => []OneSocketPerTab
<1>1. Types /\ SocketInv => OneSocketPerTab
  <2> SUFFICES ASSUME Types, SocketInv, NEW b \in Tab \ overlapped
               PROVE  Attempts(b) <= 1
      BY DEF OneSocketPerTab
  <2> DEFINE trying == {c \in Conn : tabOf[c] = b /\ sock[c] # "closing"}
  <2>1. OneAttempt(b)
      BY DEF SocketInv
  <2>2. CASE trying = {}
    <3>1. Cardinality(trying) = 0
        BY <2>2, FS_EmptySet
    <3> QED
        BY <2>1, <3>1 DEF Attempts, OneAttempt
  <2>3. CASE trying # {}
    <3>1. timers[b] = 0 /\ trying = {cur[b]}
        BY <2>1, <2>3 DEF OneAttempt
    <3>2. Cardinality(trying) = 1
        BY <3>1, FS_Singleton
    <3> QED
        BY <3>1, <3>2 DEF Attempts
  <2> QED
      BY <2>2, <2>3
<1> QED
    BY <1>1, TypesInvariant, SocketInvariant, PTL

-----------------------------------------------------------------------------
(***************************************************************************)
(* A connection from its dialling to its end, and what it has not answered *)
(* when its page logs out: nothing any more.                               *)
(***************************************************************************)
NoLogout(frames) == \A i \in 1..Len(frames) : frames[i].kind # "logout"

Lifecycle(c) ==
    /\ phase[c] = "none" => user[c] = NoName /\ inbox[c] = <<>>
    /\ sock[c] \in {"connecting", "aborted"} => phase[c] = "none"
    /\ net[c] = "up" => phase[c] # "none"
    /\ sock[c] # "open" => answers[c] = <<>>
    /\ sock[c] \in {"connecting", "open"} => NoLogout(inbox[c])

ConnInv == \A c \in Conn : Lifecycle(c)

LEMMA NoLogoutTail ==
    ASSUME NEW s \in Seq(Frame), s # <<>>, NoLogout(s)
    PROVE  Head(s).kind # "logout" /\ NoLogout(Tail(s))
<1>1. /\ Head(s) = s[1] /\ 1 \in 1..Len(s)
      /\ Len(Tail(s)) = Len(s) - 1
      /\ \A i \in 1..(Len(s) - 1) : Tail(s)[i] = s[i + 1] /\ i + 1 \in 1..Len(s)
    OBVIOUS
<1> QED
    BY <1>1 DEF NoLogout

LEMMA NoLogoutAppend ==
    ASSUME NEW s \in Seq(Frame), NEW f \in Frame, f.kind # "logout", NoLogout(s)
    PROVE  NoLogout(Append(s, f))
<1>1. /\ Len(Append(s, f)) = Len(s) + 1
      /\ \A i \in 1..(Len(s) + 1) : Append(s, f)[i] =
             IF i = Len(s) + 1 THEN f ELSE s[i]
    OBVIOUS
<1>2. \A i \in 1..(Len(s) + 1) : i # Len(s) + 1 => i \in 1..Len(s)
    OBVIOUS
<1> QED
    BY <1>1, <1>2 DEF NoLogout

LEMMA AppendNotEmpty ==
    ASSUME NEW S, NEW s \in Seq(S), NEW x \in S
    PROVE  Append(s, x) # <<>>
<1>1. Len(Append(s, x)) = Len(s) + 1 /\ Len(s) \in Nat
    OBVIOUS
<1> QED
    BY <1>1

\* What a frame that is sent adds, and to which connection.
LEMMA SentTo ==
    ASSUME Types, NEW b \in Tab, NEW f \in Frame, NEW c \in Conn
    PROVE  \/ Sent(inbox, b, f)[c] = inbox[c]
           \/ /\ Sent(inbox, b, f)[c] = Append(inbox[c], f)
              /\ Sent(inbox, b, f)[c] # <<>>
              /\ c = cur[b] /\ sock[c] = "open" /\ net[c] = "up"
<1>1. inbox[c] \in Seq(Frame) /\ inbox \in [Conn -> Seq(Frame)]
    BY DEF Types, WireOK
<1>2. Append(inbox[c], f) # <<>>
    BY <1>1, AppendNotEmpty
<1> QED
    BY <1>1, <1>2 DEF Sent, Types, PageOK

\* What a step does to a connection that it does not belong to.
LEMMA OtherServerStep ==
    ASSUME Types, [Next]_vars, NEW c \in Conn, NEW d \in Conn, d # c, ServerStep(d)
    PROVE  /\ phase'[c] = phase[c] /\ user'[c] = user[c]
           /\ inbox'[c] = inbox[c] /\ answers'[c] = answers[c]
           /\ net'[c] = net[c]
<1> USE DEF Types, ReaderOK, ServerOK, WireOK
<1>1. phase'[c] = phase[c] /\ user'[c] = user[c]
  <2>1. CASE EndOfInput(d)
      BY <2>1 DEF EndOfInput, Goto
  <2>2. CASE Close(d)
      BY <2>2 DEF Close, reader
  <2>3. CASE IssueSession(d) \/ ResumeSucceeds(d)
      BY <2>3 DEF IssueSession, ResumeSucceeds, Bind, Goto
  <2>4. CASE \/ RegisterUser(d) \/ LoginSucceeds(d) \/ SignInRefused(d)
             \/ IssueFails(d) \/ ResumeFinds(d) \/ ResumeFindsNothing(d)
             \/ ResumeCheckFails(d) \/ ResumeDeletes(d) \/ LogoutDeletes(d)
    <3>1. user' = user
        BY <2>4
        DEF RegisterUser, LoginSucceeds, SignInRefused, IssueFails, ResumeFinds,
            ResumeFindsNothing, ResumeCheckFails, ResumeDeletes, LogoutDeletes,
            server
    <3>2. phase' = phase \/ \E p : Goto(d, p)
        BY <2>4
        DEF RegisterUser, LoginSucceeds, SignInRefused, IssueFails, ResumeFinds,
            ResumeFindsNothing, ResumeCheckFails, ResumeDeletes, LogoutDeletes,
            At, Refuse, reader
    <3> QED
        BY <3>1, <3>2 DEF Goto
  <2> QED
      BY <2>1, <2>2, <2>3, <2>4 DEF ServerStep
<1>2. inbox'[c] = inbox[c]
  <2>1. inbox' = inbox \/ Taken(d) \/ inbox' = [inbox EXCEPT ![d] = <<>>]
    <3>1. CASE \/ RegisterUser(d) \/ LoginSucceeds(d) \/ SignInRefused(d)
               \/ ResumeFinds(d) \/ ResumeFindsNothing(d) \/ LogoutDeletes(d)
        BY <3>1
        DEF RegisterUser, LoginSucceeds, SignInRefused, ResumeFinds,
            ResumeFindsNothing, LogoutDeletes
    <3>2. CASE \/ IssueSession(d) \/ IssueFails(d) \/ ResumeSucceeds(d)
               \/ ResumeCheckFails(d) \/ ResumeDeletes(d) \/ EndOfInput(d)
               \/ Close(d)
        BY <3>2
        DEF IssueSession, IssueFails, ResumeSucceeds, ResumeCheckFails,
            ResumeDeletes, EndOfInput, Close, wire
    <3> QED
        BY <3>1, <3>2 DEF ServerStep
  <2> QED
      BY <2>1 DEF Taken
<1>3. answers'[c] = answers[c]
  <2>1. answers' = answers \/ \E r : Answer(d, r)
    <3>1. CASE \/ RegisterUser(d) \/ LoginSucceeds(d) \/ ResumeFinds(d)
               \/ ResumeCheckFails(d) \/ LogoutDeletes(d) \/ EndOfInput(d)
               \/ Close(d)
        BY <3>1
        DEF RegisterUser, LoginSucceeds, ResumeFinds, ResumeCheckFails,
            LogoutDeletes, EndOfInput, Close, wire
    <3>2. CASE \/ SignInRefused(d) \/ IssueFails(d) \/ ResumeFindsNothing(d)
               \/ ResumeDeletes(d) \/ IssueSession(d) \/ ResumeSucceeds(d)
        BY <3>2
        DEF SignInRefused, IssueFails, ResumeFindsNothing, ResumeDeletes,
            IssueSession, ResumeSucceeds, Refuse, Bind
    <3> QED
        BY <3>1, <3>2 DEF ServerStep
  <2> QED
      BY <2>1 DEF Answer
<1>4. net'[c] = net[c]
  <2>1. net' = net \/ Disconnect(d)
      BY DEF ServerStep, RegisterUser, LoginSucceeds, SignInRefused, IssueSession,
             IssueFails, ResumeFinds, ResumeFindsNothing, ResumeSucceeds,
             ResumeCheckFails, ResumeDeletes, LogoutDeletes, EndOfInput, Close, wire
  <2> QED
      BY <2>1 DEF Disconnect
<1> QED
    BY <1>1, <1>2, <1>3, <1>4

LEMMA ServerKeepsPage ==
    ASSUME NEW c \in Conn, ServerStep(c) \/ Lose(c)
    PROVE  UNCHANGED page
BY DEF ServerStep, RegisterUser, LoginSucceeds, SignInRefused, IssueSession,
       IssueFails, ResumeFinds, ResumeFindsNothing, ResumeSucceeds,
       ResumeCheckFails, ResumeDeletes, LogoutDeletes, EndOfInput, Close, Lose

\* What a connection's own reader does with its frames and its answers.
LEMMA OwnServerStep ==
    ASSUME Types, ConnInv, NEW c \in Conn, ServerStep(c), ~EndOfInput(c), ~Close(c)
    PROVE  /\ phase[c] # "none" /\ phase'[c] # "none" /\ net' = net
           /\ \/ inbox'[c] = inbox[c]
              \/ inbox[c] # <<>> /\ inbox'[c] = Tail(inbox[c])
           /\ sock[c] # "open" => answers'[c] = answers[c]
<1> USE DEF Types, ReaderOK, WireOK
<1>1. CASE \/ RegisterUser(c) \/ LoginSucceeds(c) \/ ResumeFinds(c)
    BY <1>1
    DEF RegisterUser, LoginSucceeds, ResumeFinds, Reading, Taken, At, Goto
<1>2. CASE SignInRefused(c) \/ ResumeFindsNothing(c)
  <2>1. /\ phase[c] = "idle" /\ inbox[c] # <<>> /\ net' = net
        /\ Taken(c) /\ Refuse(c)
      BY <1>2 DEF SignInRefused, ResumeFindsNothing, Reading
  <2> QED
      BY <2>1 DEF Taken, Refuse, Goto, Answer
<1>3. CASE IssueFails(c) \/ ResumeDeletes(c)
  <2>1. /\ phase[c] \in {"issuing", "deleting"} /\ net' = net /\ inbox' = inbox
        /\ Refuse(c)
      BY <1>3 DEF IssueFails, ResumeDeletes
  <2> QED
      BY <2>1 DEF Refuse, Goto, Answer
<1>4. CASE IssueSession(c) \/ ResumeSucceeds(c)
  <2>1. /\ phase[c] \in {"issuing", "checking"} /\ net' = net /\ inbox' = inbox
        /\ \E t, n : Bind(c, t, n)
      BY <1>4 DEF IssueSession, ResumeSucceeds
  <2> QED
      BY <2>1 DEF Bind, Goto, Answer
<1>5. CASE ResumeCheckFails(c)
    BY <1>5 DEF ResumeCheckFails, Goto, wire
<1>6. CASE LogoutDeletes(c)
    BY <1>6 DEF LogoutDeletes, Reading, Taken, reader
<1> QED
    BY <1>1, <1>2, <1>3, <1>4, <1>5, <1>6 DEF ServerStep

LEMMA ConnStep ==
    ASSUME Types, ConnInv, [Next]_vars
    PROVE  ConnInv'
<1> USE SessionsAssumption DEF Types
<1> SUFFICES ASSUME NEW c \in Conn
             PROVE  Lifecycle(c)'
    BY DEF ConnInv
<1>1. Lifecycle(c) /\ inbox[c] \in Seq(Frame)
    BY DEF ConnInv, WireOK
<1>2. ASSUME NEW d \in Conn, ServerStep(d)
      PROVE  Lifecycle(c)'
  <2>1. sock' = sock
      BY <1>2, ServerKeepsPage DEF page
  <2>2. CASE d # c
    <3>1. /\ phase'[c] = phase[c] /\ user'[c] = user[c]
          /\ inbox'[c] = inbox[c] /\ answers'[c] = answers[c]
          /\ net'[c] = net[c]
        BY <1>2, <2>2, OtherServerStep
    <3> QED
        BY <1>1, <2>1, <3>1 DEF Lifecycle
  <2>3. CASE d = c /\ EndOfInput(c)
    <3>1. /\ phase'[c] = "none" /\ user'[c] = NoName /\ inbox'[c] = <<>>
          /\ net'[c] = "cut" /\ answers' = answers
        BY <2>3
        DEF EndOfInput, Goto, Disconnect, ReaderOK, ServerOK, WireOK
    <3> QED
        BY <1>1, <2>1, <3>1 DEF Lifecycle, NoLogout
  <2>4. CASE d = c /\ Close(c)
    <3>1. /\ phase' = phase /\ user' = user /\ inbox' = inbox
          /\ net'[c] = "cut" /\ answers' = answers
        BY <2>4 DEF Close, reader, Disconnect, WireOK
    <3> QED
        BY <1>1, <2>1, <3>1 DEF Lifecycle
  <2>5. CASE d = c /\ ~EndOfInput(c) /\ ~Close(c)
    <3>1. /\ phase[c] # "none" /\ phase'[c] # "none" /\ net' = net
          /\ \/ inbox'[c] = inbox[c]
             \/ inbox[c] # <<>> /\ inbox'[c] = Tail(inbox[c])
          /\ sock[c] # "open" => answers'[c] = answers[c]
        BY <1>2, <2>5, OwnServerStep
    <3>2. NoLogout(inbox[c]) => NoLogout(inbox'[c])
        BY <1>1, <3>1, NoLogoutTail
    <3> QED
        BY <1>1, <2>1, <3>1, <3>2 DEF Lifecycle
  <2> QED
      BY <2>2, <2>3, <2>4, <2>5
<1>3. ASSUME NEW d \in Conn, NEW b \in Tab, Dial(b, d)
      PROVE  Lifecycle(c)'
  <2>1. /\ phase' = phase /\ user' = user /\ inbox' = inbox
        /\ sock' = [sock EXCEPT ![d] = "connecting"]
        /\ net' = [net EXCEPT ![d] = "none"]
        /\ answers' = [answers EXCEPT ![d] = <<>>]
        /\ phase[d] = "none"
      BY <1>3 DEF Dial, reader, Unused
  <2>2. CASE d = c
    <3>1. sock'[c] = "connecting" /\ net'[c] = "none" /\ answers'[c] = <<>>
        BY <2>1, <2>2 DEF PageOK, WireOK
    <3>2. user[c] = NoName /\ inbox[c] = <<>>
        BY <1>1, <2>1, <2>2 DEF Lifecycle
    <3> QED
        BY <2>1, <2>2, <3>1, <3>2 DEF Lifecycle, NoLogout
  <2>3. CASE d # c
    <3>1. sock'[c] = sock[c] /\ net'[c] = net[c] /\ answers'[c] = answers[c]
        BY <2>1, <2>3 DEF PageOK, WireOK
    <3> QED
        BY <1>1, <2>1, <3>1 DEF Lifecycle
  <2> QED
      BY <2>2, <2>3
<1>4. ASSUME NEW d \in Conn, Opens(d)
      PROVE  Lifecycle(c)'
  <2> DEFINE resume == [kind |-> "resume", of |-> stored]
  <2>1. /\ sock[d] = "connecting" /\ sock' = [sock EXCEPT ![d] = "open"]
        /\ net' = [net EXCEPT ![d] = "up"]
        /\ phase' = [phase EXCEPT ![d] = "idle"]
        /\ user' = user /\ answers' = answers /\ tabOf[d] \in Tab
      BY <1>4 DEF Opens, Goto, server, PageOK
  <2>2. \/ inbox' = inbox
        \/ stored \in Token /\ \/ inbox' = [inbox EXCEPT ![d] = <<resume>>]
                               \/ inbox' = Sent(inbox, tabOf[d], resume)
      BY <1>4 DEF Opens, PageOK
  <2>3. stored \in Token => resume \in Frame /\ resume.kind # "logout"
      BY FrameTypes
  <2>4. CASE d = c
    <3>1. sock'[c] = "open" /\ net'[c] = "up" /\ phase'[c] = "idle"
        BY <2>1, <2>4 DEF PageOK, WireOK, ReaderOK
    <3>2. inbox[c] = <<>>
        BY <1>1, <2>1, <2>4 DEF Lifecycle
    <3>3. inbox'[c] \in {<<>>, <<resume>>} /\ (stored \notin Token => inbox'[c] = <<>>)
      <4>1. stored \in Token => Sent(inbox, tabOf[d], resume)[c] = inbox[c]
          BY <2>1, <2>3, <2>4, SentTo
      <4> QED
          BY <2>2, <2>4, <3>2, <4>1 DEF WireOK
    <3>4. NoLogout(<<>>) /\ NoLogout(<<resume>>)
        BY DEF NoLogout
    <3>5. NoLogout(inbox'[c])
        BY <3>3, <3>4
    <3> QED
        BY <3>1, <3>5 DEF Lifecycle
  <2>5. CASE d # c
    <3>1. /\ sock'[c] = sock[c] /\ net'[c] = net[c] /\ phase'[c] = phase[c]
        BY <2>1, <2>5 DEF PageOK, WireOK, ReaderOK
    <3>2. CASE inbox'[c] = inbox[c]
        BY <1>1, <2>1, <3>1, <3>2 DEF Lifecycle
    <3>3. CASE inbox'[c] # inbox[c]
      <4>1. stored \in Token /\ inbox'[c] = Sent(inbox, tabOf[d], resume)[c]
          BY <2>2, <2>5, <3>3 DEF WireOK
      <4>2. inbox'[c] = Append(inbox[c], resume) /\ sock[c] = "open" /\ net[c] = "up"
          BY <2>1, <2>3, <3>3, <4>1, SentTo
      <4>3. NoLogout(inbox[c]) => NoLogout(inbox'[c])
          BY <1>1, <2>3, <4>1, <4>2, NoLogoutAppend
      <4> QED
          BY <1>1, <2>1, <3>1, <4>2, <4>3 DEF Lifecycle
    <3> QED
        BY <3>2, <3>3
  <2> QED
      BY <2>4, <2>5
<1>5. ASSUME NEW d \in Conn, NEW n, Gone(d, n)
      PROVE  Lifecycle(c)'
  <2>1. /\ phase' = phase /\ user' = user /\ inbox' = inbox /\ net' = net
        /\ sock' = [sock EXCEPT ![d] = "none"]
        /\ answers' = [answers EXCEPT ![d] = <<>>]
      BY <1>5 DEF Gone, reader, server
  <2>2. d = c => sock'[c] = "none" /\ answers'[c] = <<>>
      BY <2>1 DEF PageOK, WireOK
  <2>3. d # c => sock'[c] = sock[c] /\ answers'[c] = answers[c]
      BY <2>1 DEF PageOK, WireOK
  <2> QED
      BY <1>1, <2>1, <2>2, <2>3 DEF Lifecycle
<1>6. ASSUME NEW d \in Conn, OnAuthSuccess(d) \/ OnAuthError(d)
      PROVE  Lifecycle(c)'
  <2>1. /\ phase' = phase /\ user' = user /\ inbox' = inbox /\ net' = net
        /\ sock' = sock /\ sock[d] = "open"
        /\ answers' = [answers EXCEPT ![d] = Tail(@)]
      BY <1>6 DEF OnAuthSuccess, OnAuthError, reader, server
  <2>2. d # c => answers'[c] = answers[c]
      BY <2>1 DEF WireOK
  <2> QED
      BY <1>1, <2>1, <2>2 DEF Lifecycle
<1>7. ASSUME NEW d \in Conn, Lose(d)
      PROVE  Lifecycle(c)'
  <2>1. /\ phase' = phase /\ user' = user /\ inbox' = inbox
        /\ sock' = sock /\ answers' = answers
        /\ net'[c] \in {net[c], "cut"}
      BY <1>7 DEF Lose, reader, server, page, WireOK
  <2> QED
      BY <1>1, <2>1 DEF Lifecycle
<1>8. ASSUME NEW b \in Tab, NEW k \in {"register", "login"}, NEW n \in Name,
             Submit(b, [kind |-> k, of |-> n])
      PROVE  Lifecycle(c)'
  <2> DEFINE f == [kind |-> k, of |-> n]
  <2>1. /\ phase' = phase /\ user' = user /\ net' = net
        /\ sock' = sock /\ answers' = answers
        /\ inbox' = Sent(inbox, b, f)
      BY <1>8 DEF Submit, reader, server, page
  <2>2. f \in Frame /\ f.kind # "logout"
      BY FrameTypes
  <2>3. CASE inbox'[c] = inbox[c]
      BY <1>1, <2>1, <2>3 DEF Lifecycle
  <2>4. CASE inbox'[c] # inbox[c]
    <3>1. inbox'[c] = Append(inbox[c], f) /\ sock[c] = "open" /\ net[c] = "up"
        BY <2>1, <2>2, <2>4, SentTo
    <3>2. NoLogout(inbox[c]) => NoLogout(inbox'[c])
        BY <1>1, <2>2, <3>1, NoLogoutAppend
    <3> QED
        BY <1>1, <2>1, <3>1, <3>2 DEF Lifecycle
  <2> QED
      BY <2>3, <2>4
<1>9. ASSUME NEW b \in Tab, Logout(b)
      PROVE  Lifecycle(c)'
  <2> DEFINE bye == [kind |-> "logout"]
  <2>1. /\ phase' = phase /\ user' = user /\ inbox' = Sent(inbox, b, bye)
        /\ sock'[c] = CASE c = cur[b] /\ sock[c] = "open" -> "closing"
                        [] c = cur[b] /\ sock[c] = "connecting" -> "aborted"
                        [] OTHER -> sock[c]
        /\ net'[c] = IF c = cur[b] /\ net[c] = "up" THEN "fin" ELSE net[c]
        /\ answers'[c] = IF c = cur[b] THEN <<>> ELSE answers[c]
      BY <1>9 DEF Logout, reader, server
  <2>2. bye \in Frame
      BY FrameTypes
  <2>3. \/ inbox'[c] = inbox[c]
        \/ inbox'[c] # <<>> /\ c = cur[b] /\ sock[c] = "open" /\ net[c] = "up"
      BY <2>1, <2>2, SentTo
  <2>4. CASE inbox'[c] = inbox[c]
    <3>1. /\ sock'[c] \in {"connecting", "open"} => sock'[c] = sock[c]
          /\ sock'[c] = "aborted" => sock[c] \in {"connecting", "aborted"}
          /\ sock'[c] # "open" => sock[c] # "open" \/ answers'[c] = <<>>
          /\ net'[c] = "up" => net[c] = "up"
          /\ answers'[c] \in {<<>>, answers[c]}
        BY <2>1
    <3> QED
        BY <1>1, <2>1, <2>4, <3>1 DEF Lifecycle
  <2>5. CASE c = cur[b] /\ sock[c] = "open" /\ net[c] = "up"
    <3>1. sock'[c] = "closing" /\ net'[c] = "fin" /\ answers'[c] = <<>>
        BY <2>1, <2>5
    <3> QED
        BY <1>1, <2>1, <2>5, <3>1 DEF Lifecycle
  <2> QED
      BY <2>3, <2>4, <2>5
<1>10. ASSUME NEW b \in Tab, Reload(b)
       PROVE  Lifecycle(c)'
  <2>1. /\ phase' = phase /\ user' = user /\ inbox' = inbox
        /\ sock'[c] = IF tabOf[c] = b THEN "none" ELSE sock[c]
        /\ net'[c] = IF tabOf[c] = b /\ net[c] = "up" THEN "fin" ELSE net[c]
        /\ answers'[c] = IF tabOf[c] = b THEN <<>> ELSE answers[c]
      BY <1>10 DEF Reload, reader, server
  <2> QED
      BY <1>1, <2>1 DEF Lifecycle
<1>11. CASE Tick \/ UNCHANGED vars
    BY <1>1, <1>11 DEF Tick, vars, server, reader, wire, page, Lifecycle
<1> QED
    BY <1>2, <1>3, <1>4, <1>5, <1>6, <1>7, <1>8, <1>9, <1>10, <1>11
    DEF Next, SocketStep, ConnectFails, OnClose, UserStep

LEMMA ConnInvariant == Spec => []ConnInv
<1>1. Init => ConnInv
    BY DEF Init, ConnInv, Lifecycle, NoLogout
<1>2. Types /\ ConnInv /\ [Next]_vars => ConnInv'
    BY ConnStep
<1> QED
    BY <1>1, <1>2, TypesInvariant, PTL DEF Spec

-----------------------------------------------------------------------------
(***************************************************************************)
(* What a page shows, or will show once it has heard its answers, is the   *)
(* user its connection is signed in as, unless the reader has more to do.  *)
(***************************************************************************)
ShownBy(r) == IF r.kind = "success" THEN owner[r.of] ELSE NoName

WillShow(c) == IF answers[c] = <<>> THEN shown[tabOf[c]]
               ELSE ShownBy(answers[c][Len(answers[c])])

\* A connection that its page still uses, and that no unusual turn has taken.
Heard(c) == /\ sock[c] = "open" /\ tabOf[c] \notin overlapped
            /\ closer[c] # "done"
            /\ odd[c] \cap {"refused", "silent"} = {}

Told(c) == \/ phase[c] \in {"issuing", "checking", "deleting"}
           \/ inbox[c] # <<>>
           \/ WillShow(c) = user[c]

PageInv == \A c \in Conn : Heard(c) => Told(c)

\* The last of some answers.
LEMMA LastAnswer ==
    ASSUME NEW s \in Seq(Reply)
    PROVE  /\ \A r \in Reply : /\ Append(s, r) # <<>>
                               /\ Append(s, r)[Len(Append(s, r))] = r
           /\ s # <<>> => s[Len(s)] \in Reply /\ Len(s) \in 1..Len(s)
           /\ s # <<>> /\ Tail(s) = <<>> => s[Len(s)] = Head(s)
           /\ Tail(s) # <<>> /\ s # <<>> => Tail(s)[Len(Tail(s))] = s[Len(s)]
<1>1. ASSUME NEW r \in Reply
      PROVE  Append(s, r) # <<>> /\ Append(s, r)[Len(Append(s, r))] = r
  <2>1. /\ Len(Append(s, r)) = Len(s) + 1 /\ Len(s) \in Nat
        /\ Append(s, r)[Len(s) + 1] = r
      OBVIOUS
  <2> QED
      BY <2>1
<1>2. s # <<>> => s[Len(s)] \in Reply /\ Len(s) \in 1..Len(s)
    OBVIOUS
<1>3. ASSUME s # <<>>, Tail(s) = <<>>
      PROVE  s[Len(s)] = Head(s)
  <2>1. Len(Tail(s)) = Len(s) - 1 /\ Len(s) \in Nat /\ Head(s) = s[1]
      BY <1>3
  <2>2. Len(<<>>) = 0
      OBVIOUS
  <2>3. Len(Tail(s)) = 0
      BY <1>3, <2>2, Zenon
  <2>4. Len(s) = 1
      BY <2>1, <2>3
  <2> QED
      BY <2>1, <2>4
<1>4. ASSUME s # <<>>, Tail(s) # <<>>
      PROVE  Tail(s)[Len(Tail(s))] = s[Len(s)]
  <2>1. Len(Tail(s)) = Len(s) - 1 /\ Len(s) \in Nat /\ Tail(s) \in Seq(Reply)
      BY <1>4
  <2>2. Len(Tail(s)) \in 1..(Len(s) - 1)
      BY <1>4, <2>1
  <2>3. \A i \in 1..(Len(s) - 1) : Tail(s)[i] = s[i + 1]
      BY <1>4
  <2> QED
      BY <2>1, <2>2, <2>3
<1> QED
    BY <1>1, <1>2, <1>3, <1>4

\* A token's owner never changes: the same answers, and the same form or user
\* behind them, show the same.
LEMMA SameShown ==
    ASSUME Types, [Next]_vars, NEW c \in Conn, answers'[c] = answers[c],
           shown'[tabOf'[c]] = shown[tabOf[c]]
    PROVE  WillShow(c)' = WillShow(c)
<1>1. CASE answers[c] = <<>>
    BY <1>1 DEF WillShow
<1>2. CASE answers[c] # <<>>
  <2> DEFINE r == answers[c][Len(answers[c])]
  <2>1. r.kind = "success" => r.of \in issued
      BY <1>2, LastAnswer DEF Types, WireOK
  <2>2. r.kind = "success" => owner'[r.of] = owner[r.of]
      BY <2>1, TablesGrow
  <2> QED
      BY <1>2, <2>2 DEF WillShow, ShownBy
<1> QED
    BY <1>1, <1>2

\* What it takes to be heard has been there before, but for a new connection.
LEMMA HeardBefore ==
    ASSUME Types, [Next]_vars, NEW c \in Conn, Heard(c)', ~Opens(c)
    PROVE  Heard(c) /\ tabOf'[c] = tabOf[c] /\ tabOf[c] \in Tab
<1> USE SessionsAssumption DEF Types
<1>1. sock[c] = "open" /\ tabOf'[c] = tabOf[c]
  <2>1. CASE UNCHANGED page
      BY <2>1 DEF page, Heard
  <2>2. ASSUME NEW d \in Conn, NEW b \in Tab, Dial(b, d)
        PROVE  sock[c] = "open" /\ tabOf'[c] = tabOf[c]
      BY <2>2 DEF Dial, Heard, PageOK
  <2>3. ASSUME NEW d \in Conn, Opens(d)
        PROVE  sock[c] = "open" /\ tabOf'[c] = tabOf[c]
      BY <2>3 DEF Opens, Heard, PageOK
  <2>4. ASSUME NEW d \in Conn, NEW n, Gone(d, n)
        PROVE  sock[c] = "open" /\ tabOf'[c] = tabOf[c]
      BY <2>4 DEF Gone, Heard, PageOK
  <2>5. ASSUME NEW d \in Conn, OnAuthSuccess(d) \/ OnAuthError(d)
        PROVE  sock[c] = "open" /\ tabOf'[c] = tabOf[c]
      BY <2>5 DEF OnAuthSuccess, OnAuthError, Heard
  <2>6. ASSUME NEW b \in Tab, Logout(b) \/ Reload(b)
        PROVE  sock[c] = "open" /\ tabOf'[c] = tabOf[c]
      BY <2>6 DEF Logout, Reload, Heard, PageOK
  <2> QED
      BY <2>1, <2>2, <2>3, <2>4, <2>5, <2>6, PageChange DEF ConnectFails, OnClose
<1>2. sock'[c] = "open" /\ tabOf'[c] = tabOf[c] /\ tabOf[c] \in Tab
    BY <1>1 DEF Heard, PageOK
<1>3. tabOf[c] \notin overlapped
  <2>1. ASSUME NEW b \in Tab, Reload(b)
        PROVE  tabOf[c] \notin overlapped
    <3>1. tabOf[c] # b
        BY <1>2, <2>1 DEF Reload
    <3> QED
        BY <1>2, <2>1, <3>1 DEF Reload, Heard
  <2>2. ASSUME NEW d \in Conn, OnClose(d)
        PROVE  overlapped \subseteq overlapped'
      BY <2>2 DEF OnClose
  <2>3. ASSUME NEW b \in Tab, Logout(b)
        PROVE  overlapped \subseteq overlapped'
      BY <2>3 DEF Logout
  <2>4. tabOf[c] \notin overlapped'
      BY <1>2 DEF Heard
  <2> QED
      BY <2>1, <2>2, <2>3, <2>4, OverlappedChange
<1>4. \A b \in Tab : ~Dial(b, c)
    BY <1>1, <1>2 DEF Dial, PageOK
<1>5. closer[c] # "done"
  <2>1. ASSUME NEW d \in Conn, NEW t, NEW n, Bind(d, t, n)
        PROVE  closer[c] # "done"
      BY <2>1 DEF Bind, Heard, ServerOK
  <2>2. ASSUME NEW d \in Conn, Disconnect(d)
        PROVE  closer[c] # "done"
      BY <2>2 DEF Disconnect, Heard, ServerOK
  <2>3. ASSUME NEW d \in Conn, NEW b \in Tab, Dial(b, d)
        PROVE  closer[c] # "done"
      BY <1>4, <2>3 DEF Dial, Heard, ServerOK
  <2> QED
      BY <2>1, <2>2, <2>3, ServerChange
      DEF server, Heard, IssueSession, ResumeSucceeds, EndOfInput, Close
<1>6. odd[c] \cap {"refused", "silent"} = {}
  <2>1. ASSUME NEW d \in Conn, Refuse(d) \/ Opens(d)
        PROVE  odd[c] \subseteq odd'[c]
      BY <2>1 DEF Refuse, Opens, Mark, HistoryOK
  <2>2. ASSUME NEW d \in Conn, NEW t, NEW n, Bind(d, t, n)
        PROVE  odd[c] \subseteq odd'[c]
      BY <2>2 DEF Bind, HistoryOK
  <2>3. ASSUME NEW d \in Conn, NEW n, Gone(d, n)
        PROVE  odd[c] \subseteq odd'[c]
      BY <1>2, <2>3 DEF Gone, PageOK, HistoryOK
  <2>4. ASSUME NEW d \in Conn, NEW b \in Tab, Dial(b, d)
        PROVE  odd[c] \subseteq odd'[c]
      BY <1>4, <2>4 DEF Dial, HistoryOK
  <2>5. ASSUME NEW d \in Conn,
               \/ SignInRefused(d) \/ IssueFails(d) \/ ResumeFindsNothing(d)
               \/ ResumeDeletes(d) \/ IssueSession(d) \/ ResumeSucceeds(d)
        PROVE  Refuse(d) \/ \E t, n : Bind(d, t, n)
      BY <2>5
      DEF SignInRefused, IssueFails, ResumeFindsNothing, ResumeDeletes,
          IssueSession, ResumeSucceeds
  <2>6. odd[c] \subseteq odd'[c]
      BY <2>1, <2>2, <2>3, <2>4, <2>5, OddChange DEF ConnectFails, OnClose
  <2> QED
      BY <2>6 DEF Heard
<1> QED
    BY <1>1, <1>2, <1>3, <1>5, <1>6 DEF Heard

\* The reader of a connection that is heard tells its page what it has done.
LEMMA ToldByReader ==
    ASSUME Types, ConnInv, [Next]_vars, NEW c \in Conn, ServerStep(c),
           Heard(c), Heard(c)', Told(c)
    PROVE  Told(c)'
<1> USE DEF Types
<1>1. answers[c] \in Seq(Reply)
    BY DEF WireOK
<1>2. CASE \/ RegisterUser(c) \/ LoginSucceeds(c) \/ ResumeFinds(c)
           \/ ResumeCheckFails(c)
  <2>1. phase'[c] \in {"issuing", "checking", "deleting"}
      BY <1>2
      DEF RegisterUser, LoginSucceeds, ResumeFinds, ResumeCheckFails, At, Goto,
          ReaderOK
  <2> QED
      BY <2>1 DEF Told
<1>3. CASE \/ SignInRefused(c) \/ IssueFails(c) \/ ResumeFindsNothing(c)
           \/ ResumeDeletes(c)
  <2>1. Refuse(c) /\ user' = user
      BY <1>3
      DEF SignInRefused, IssueFails, ResumeFindsNothing, ResumeDeletes, server
  <2>2. user[c] = NoName
    <3>1. user[c] # NoName => "refused" \in odd'[c]
        BY <2>1 DEF Refuse, Mark, HistoryOK
    <3> QED
        BY <3>1 DEF Heard
  <2>3. answers'[c] = Append(answers[c], [kind |-> "error"])
      BY <2>1 DEF Refuse, Answer, Heard, WireOK
  <2>4. WillShow(c)' = NoName
      BY <1>1, <2>3, ReplyTypes, LastAnswer DEF WillShow, ShownBy
  <2> QED
      BY <2>1, <2>2, <2>4 DEF Told
<1>4. ASSUME NEW t \in Token, NEW n \in Name, Bind(c, t, n), owner'[t] = n
      PROVE  Told(c)'
  <2>1. answers'[c] = Append(answers[c], [kind |-> "success", of |-> t])
      BY <1>4 DEF Bind, Answer, Heard, WireOK
  <2>2. WillShow(c)' = n
      BY <1>1, <1>4, <2>1, ReplyTypes, LastAnswer DEF WillShow, ShownBy
  <2>3. user'[c] = n
      BY <1>4 DEF Bind, ServerOK
  <2> QED
      BY <2>2, <2>3 DEF Told
<1>5. CASE IssueSession(c)
  <2>1. PICK t \in Token : /\ owner' = [owner EXCEPT ![t] = call[c].of]
                           /\ Bind(c, t, call[c].of)
      BY <1>5 DEF IssueSession
  <2>2. call[c].of \in Name
      BY <1>5 DEF IssueSession, ReaderOK, TablesOK
  <2>3. owner'[t] = call[c].of
      BY <2>1 DEF TablesOK
  <2> QED
      BY <1>4, <2>1, <2>2, <2>3
<1>6. CASE ResumeSucceeds(c)
  <2>1. Bind(c, call[c].of, ResumedAs(c)) /\ owner' = owner
      BY <1>6 DEF ResumeSucceeds, tables
  <2>2. call[c].of \in Token /\ ResumedAs(c) \in Name
      BY <1>6 DEF ResumeSucceeds, ResumedAs, ReaderOK, TablesOK
  <2>3. owner'[call[c].of] = ResumedAs(c)
      BY <2>1 DEF ResumedAs
  <2> QED
      BY <1>4, <2>1, <2>2, <2>3
<1>7. CASE LogoutDeletes(c)
  <2>1. Head(inbox[c]).kind = "logout" /\ inbox[c] # <<>> /\ inbox[c] \in Seq(Frame)
      BY <1>7 DEF LogoutDeletes, Reading, WireOK
  <2>2. NoLogout(inbox[c])
      BY DEF ConnInv, Lifecycle, Heard
  <2> QED
      BY <2>1, <2>2, NoLogoutTail
<1>8. CASE EndOfInput(c) \/ Close(c)
  <2>1. closer'[c] = "done"
      BY <1>8 DEF EndOfInput, Close, Disconnect, ServerOK
  <2> QED
      BY <2>1 DEF Heard
<1> QED
    BY <1>2, <1>3, <1>5, <1>6, <1>7, <1>8 DEF ServerStep

\* A connection that opens without a token to resume has a page with the form.
LEMMA ToldByOpening ==
    ASSUME Types, ConnInv, NEW c \in Conn, Opens(c), Heard(c)'
    PROVE  Told(c)'
<1> USE DEF Types
<1>1. CASE inbox'[c] # <<>>
    BY <1>1 DEF Told
<1>2. CASE inbox'[c] = <<>>
  <2>1. shown[tabOf[c]] = NoName
    <3>1. shown[tabOf[c]] # NoName => "silent" \in odd'[c]
        BY <1>2 DEF Opens, Mark, HistoryOK
    <3> QED
        BY <3>1 DEF Heard
  <2>2. answers[c] = <<>> /\ user[c] = NoName
      BY DEF Opens, ConnInv, Lifecycle
  <2>3. UNCHANGED <<answers, user, tabOf, shown>>
      BY DEF Opens, server
  <2> QED
      BY <2>1, <2>2, <2>3 DEF Told, WillShow
<1> QED
    BY <1>1, <1>2

\* Two sockets of a tab that connects once at a time are not both open.
LEMMA OneOpenSocket ==
    ASSUME Types, SocketInv, NEW c \in Conn, Heard(c)
    PROVE  /\ tabOf[c] \in Tab /\ cur[tabOf[c]] = c
           /\ \A d \in Conn : sock[d] = "open" /\ tabOf[d] = tabOf[c] => d = c
<1>1. tabOf[c] \in Tab /\ sock[c] = "open"
    BY SessionsAssumption DEF Heard, Types, PageOK
<1>2. OneAttempt(tabOf[c])
    BY <1>1 DEF SocketInv, Heard
<1> QED
    BY <1>1, <1>2 DEF OneAttempt

LEMMA PageStep ==
    ASSUME Types, SocketInv, ConnInv, PageInv, [Next]_vars
    PROVE  PageInv'
<1> USE SessionsAssumption DEF Types
<1> SUFFICES ASSUME NEW c \in Conn, Heard(c)'
             PROVE  Told(c)'
    BY DEF PageInv
<1>1. CASE Opens(c)
    BY <1>1, ToldByOpening
<1>2. CASE ~Opens(c)
  <2>1. Heard(c) /\ tabOf'[c] = tabOf[c] /\ tabOf[c] \in Tab
      BY <1>2, HeardBefore
  <2>2. Told(c) /\ sock[c] = "open" /\ sock'[c] = "open"
      BY <2>1 DEF PageInv, Heard
  <2>3. /\ cur[tabOf[c]] = c
        /\ \A d \in Conn : sock[d] = "open" /\ tabOf[d] = tabOf[c] => d = c
      BY <2>1, OneOpenSocket
  \* Nothing that the page is told by has changed.
  <2>4. ASSUME phase'[c] = phase[c], user'[c] = user[c],
               inbox'[c] = inbox[c] \/ inbox'[c] # <<>>,
               answers'[c] = answers[c], shown'[tabOf[c]] = shown[tabOf[c]]
        PROVE  Told(c)'
    <3>1. WillShow(c)' = WillShow(c)
        BY <2>1, <2>4, SameShown
    <3> QED
        BY <2>2, <2>4, <3>1 DEF Told
  <2>5. ASSUME NEW d \in Conn, ServerStep(d)
        PROVE  Told(c)'
    <3>1. CASE d = c
        BY <2>1, <2>2, <2>5, <3>1, ToldByReader
    <3>2. CASE d # c
      <4>1. /\ phase'[c] = phase[c] /\ user'[c] = user[c]
            /\ inbox'[c] = inbox[c] /\ answers'[c] = answers[c]
          BY <2>5, <3>2, OtherServerStep
      <4>2. shown' = shown
          BY <2>5, ServerKeepsPage DEF page
      <4> QED
          BY <2>4, <4>1, <4>2
    <3> QED
        BY <3>1, <3>2
  <2>6. ASSUME NEW d \in Conn, NEW b \in Tab, Dial(b, d)
        PROVE  Told(c)'
    <3>1. /\ UNCHANGED <<phase, user, inbox, shown>>
          /\ sock' = [sock EXCEPT ![d] = "connecting"]
          /\ answers' = [answers EXCEPT ![d] = <<>>]
        BY <2>6 DEF Dial, reader
    <3>2. d # c
        BY <2>2, <3>1 DEF PageOK
    <3>3. answers'[c] = answers[c]
        BY <3>1, <3>2 DEF WireOK
    <3> QED
        BY <2>4, <3>1, <3>3
  <2>7. ASSUME NEW d \in Conn, Opens(d)
        PROVE  Told(c)'
    <3> DEFINE resume == [kind |-> "resume", of |-> stored]
    <3>1. /\ UNCHANGED <<user, answers, shown>> /\ d # c
          /\ phase' = [phase EXCEPT ![d] = "idle"] /\ tabOf[d] \in Tab
        BY <1>2, <2>7 DEF Opens, Goto, server, PageOK
    <3>2. \/ inbox' = inbox
          \/ stored \in Token /\ \/ inbox' = [inbox EXCEPT ![d] = <<resume>>]
                                 \/ inbox' = Sent(inbox, tabOf[d], resume)
        BY <2>7 DEF Opens, PageOK
    <3>3. stored \in Token => resume \in Frame
        BY FrameTypes
    <3>4. stored \in Token => \/ Sent(inbox, tabOf[d], resume)[c] = inbox[c]
                              \/ Sent(inbox, tabOf[d], resume)[c] # <<>>
        BY <3>1, <3>3, SentTo
    <3>5. inbox'[c] = inbox[c] \/ inbox'[c] # <<>>
        BY <3>1, <3>2, <3>4 DEF WireOK
    <3>6. phase'[c] = phase[c]
        BY <3>1 DEF ReaderOK
    <3> QED
        BY <2>4, <3>1, <3>5, <3>6
  <2>8. ASSUME NEW d \in Conn, NEW n, Gone(d, n)
        PROVE  Told(c)'
    <3>1. /\ UNCHANGED <<phase, user, inbox, shown>>
          /\ sock' = [sock EXCEPT ![d] = "none"]
          /\ answers' = [answers EXCEPT ![d] = <<>>]
        BY <2>8 DEF Gone, reader, server
    <3>2. d # c
        BY <2>2, <3>1 DEF PageOK
    <3>3. answers'[c] = answers[c]
        BY <3>1, <3>2 DEF WireOK
    <3> QED
        BY <2>4, <3>1, <3>3
  <2>9. ASSUME NEW d \in Conn, OnAuthSuccess(d) \/ OnAuthError(d)
        PROVE  Told(c)'
    <3>1. /\ UNCHANGED <<phase, user, inbox, owner>>
          /\ sock[d] = "open" /\ answers[d] # <<>>
          /\ answers' = [answers EXCEPT ![d] = Tail(@)]
          /\ shown' = [shown EXCEPT ![tabOf[d]] = ShownBy(Head(answers[d]))]
        BY <2>9
        DEF OnAuthSuccess, OnAuthError, ShownAfterError, ShownBy, reader, server,
            tables
    <3>2. CASE d # c
      <4>1. tabOf[d] # tabOf[c]
          BY <2>3, <3>1, <3>2
      <4>2. shown'[tabOf[c]] = shown[tabOf[c]] /\ answers'[c] = answers[c]
          BY <2>1, <3>1, <3>2, <4>1 DEF PageOK, WireOK
      <4> QED
          BY <2>4, <3>1, <4>2
    <3>3. CASE d = c
      <4>1. /\ answers[c] \in Seq(Reply) /\ answers[c] # <<>>
            /\ answers'[c] = Tail(answers[c])
            /\ shown'[tabOf'[c]] = ShownBy(Head(answers[c]))
          BY <2>1, <3>1, <3>3 DEF PageOK, WireOK
      <4>2. WillShow(c) = ShownBy(answers[c][Len(answers[c])])
          BY <4>1 DEF WillShow
      <4>3. CASE answers'[c] = <<>>
        <5>1. answers[c][Len(answers[c])] = Head(answers[c])
            BY <4>1, <4>3, LastAnswer
        <5>2. WillShow(c)' = WillShow(c)
            BY <4>1, <4>2, <4>3, <5>1 DEF WillShow
        <5> QED
            BY <2>2, <3>1, <5>2 DEF Told
      <4>4. CASE answers'[c] # <<>>
        <5>1. answers'[c][Len(answers'[c])] = answers[c][Len(answers[c])]
            BY <4>1, <4>4, LastAnswer
        <5>2. WillShow(c)' = WillShow(c)
            BY <3>1, <4>2, <4>4, <5>1 DEF WillShow, ShownBy
        <5> QED
            BY <2>2, <3>1, <5>2 DEF Told
      <4> QED
          BY <4>3, <4>4
    <3> QED
        BY <3>2, <3>3
  <2>10. ASSUME NEW d \in Conn, Lose(d)
         PROVE  Told(c)'
    <3>1. UNCHANGED <<phase, user, inbox, answers, shown>>
        BY <2>10 DEF Lose, reader, server, page
    <3> QED
        BY <2>4, <3>1
  <2>11. ASSUME NEW b \in Tab, NEW k \in {"register", "login"}, NEW n \in Name,
                Submit(b, [kind |-> k, of |-> n])
         PROVE  Told(c)'
    <3>1. /\ UNCHANGED <<phase, user, answers, shown>>
          /\ inbox' = Sent(inbox, b, [kind |-> k, of |-> n])
        BY <2>11 DEF Submit, reader, server, page
    <3>2. inbox'[c] = inbox[c] \/ inbox'[c] # <<>>
        BY <3>1, FrameTypes, SentTo
    <3> QED
        BY <2>4, <3>1, <3>2
  <2>12. ASSUME NEW b \in Tab, Logout(b)
         PROVE  Told(c)'
    <3>1. /\ UNCHANGED <<phase, user>>
          /\ inbox' = Sent(inbox, b, [kind |-> "logout"])
          /\ shown' = [shown EXCEPT ![b] = NoName]
          /\ cur[b] # c /\ answers'[c] = answers[c]
        BY <2>2, <2>12 DEF Logout, reader, server
    <3>2. tabOf[c] # b
        BY <2>3, <3>1
    <3>3. shown'[tabOf[c]] = shown[tabOf[c]]
        BY <2>1, <3>1, <3>2 DEF PageOK
    <3>4. inbox'[c] = inbox[c]
        BY <3>1, FrameTypes, SentTo
    <3> QED
        BY <2>4, <3>1, <3>3, <3>4
  <2>13. ASSUME NEW b \in Tab, Reload(b)
         PROVE  Told(c)'
    <3>1. /\ UNCHANGED <<phase, user, inbox>> /\ tabOf[c] # b
          /\ shown' = [shown EXCEPT ![b] = NoName]
          /\ answers'[c] = answers[c]
        BY <2>2, <2>13 DEF Reload, reader, server
    <3>2. shown'[tabOf[c]] = shown[tabOf[c]]
        BY <2>1, <3>1 DEF PageOK
    <3> QED
        BY <2>4, <3>1, <3>2
  <2>14. CASE Tick \/ UNCHANGED vars
    <3>1. UNCHANGED <<phase, user, inbox, answers, shown>>
        BY <2>14 DEF Tick, vars, reader, server, wire, page
    <3> QED
        BY <2>4, <3>1
  <2> QED
      BY <2>5, <2>6, <2>7, <2>8, <2>9, <2>10, <2>11, <2>12, <2>13, <2>14
      DEF Next, SocketStep, ConnectFails, OnClose, UserStep
<1> QED
    BY <1>1, <1>2

\* When nothing is under way, a page shows the user its connection is signed in
\* as, whatever the tabs do, but for the two turns that `odd' records.
THEOREM PagesTellTheirUser == Spec => []PageTellsWhoIsSignedIn
<1>1. Init => PageInv
    BY DEF Init, PageInv, Heard
<1>2. Types /\ SocketInv /\ ConnInv /\ PageInv /\ [Next]_vars => PageInv'
    BY PageStep
<1>3. Types /\ SocketInv /\ PageInv => PageTellsWhoIsSignedIn
  <2> SUFFICES ASSUME Types, SocketInv, PageInv, NEW b \in Tab \ overlapped,
                      Settled(b), odd[cur[b]] \cap {"refused", "silent"} = {}
               PROVE  shown[b] = user[cur[b]]
      BY DEF PageTellsWhoIsSignedIn
  <2>1. cur[b] \in Conn /\ tabOf[cur[b]] = b
      BY DEF Settled, Types, PageOK, SocketInv, CurInv
  <2>2. /\ sock[cur[b]] = "open" /\ closer[cur[b]] = "no"
        /\ phase[cur[b]] = "idle" /\ inbox[cur[b]] = <<>>
        /\ answers[cur[b]] = <<>>
      BY <2>1 DEF Settled
  <2>3. Told(cur[b])
      BY <2>1, <2>2 DEF PageInv, Heard
  <2> QED
      BY <2>1, <2>2, <2>3 DEF Told, WillShow
<1> QED
    BY <1>1, <1>2, <1>3, TypesInvariant, SocketInvariant, ConnInvariant, PTL DEF Spec

=============================================================================
