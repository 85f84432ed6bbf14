------------------------------ MODULE Sessions ------------------------------
(***************************************************************************)
(* Signing in and staying signed in: AuthService over the users and        *)
(* sessions tables, the handlers that call it, and the tabs of one         *)
(* browser, which share the session token in localStorage, open a socket,  *)
(* lose it and connect again by themselves (ws.js, _connectWebSocket).     *)
(*                                                                         *)
(* A tab has the last socket it made (this._ws) and perhaps earlier ones,  *)
(* whose messages and close events still reach its handlers.  A pending    *)
(* setTimeout(_connectWebSocket) may fire at any time.  Every storage call *)
(* is a step of its own and can fail.                                      *)
(***************************************************************************)
EXTENDS FiniteSets, Integers, Sequences

CONSTANTS
    Tab,         \* tabs of one browser
    Conn,        \* sockets; one that is gone may be made again
    Name,        \* user names; stands for the user ID too
    Token,       \* tokens that may be generated, each once
    NoTab, NoConn, NoName, NoToken, NoFrame,
    TTL,         \* sessionTTL, in ticks
    MaxEvents,   \* bound: ticks, storage calls that fail, connections lost,
                 \*        pages reloaded
    MaxAsked,    \* bound: sign-in frames of a page without their answer
    MaxAttempts  \* bound: timers and sockets of a tab that may log out

ASSUME SessionsAssumption ==
    /\ NoConn \notin Conn /\ NoName \notin Name /\ NoToken \notin Token
    /\ NoTab \notin Tab
    /\ TTL \in Nat \ {0} /\ MaxEvents \in Nat
    /\ MaxAsked \in Nat \ {0} /\ MaxAttempts \in Nat \ {0}

VARIABLES
    accounts,      \* the users table
    live,          \* the tokens in the sessions table
    owner, expires,
    now,
    phase, call,   \* the connection's reader, and the frame it is at
    user, token,   \* Client.userID, Client.sessionToken
    registered,    \* Registry.clients
    closer,        \* Client.close(): not called, started by an eviction, done
    net,           \* the connection: up, closed by the page, cut
    inbox, answers,\* frames on their way to the reader, and to the page
    sock, tabOf,   \* the page's end of the connection, and whose it is
    cur,           \* WSManager._ws of a tab
    timers,        \* pending setTimeout(_connectWebSocket)
    stored,        \* localStorage's darmie_session
    shown,         \* state.userId of a page
    issued,        \* history: tokens given out
    fails,         \* history: storage calls that failed
    losses,        \* history: connections lost and pages reloaded
    left,          \* history: tokens some logout has deleted
    odd,           \* history: unusual turns a connection has taken
    overlapped     \* history: tabs that began to connect twice at a time

tables  == <<accounts, live, owner, expires, issued>>
env     == <<now, fails, losses>>
server  == <<user, token, registered, closer>>
reader  == <<phase, call>>
wire    == <<net, inbox, answers>>
page    == <<sock, tabOf, cur, timers, stored, shown>>
history == <<left, odd, overlapped>>
vars == <<tables, env, server, reader, wire, page, history>>

Frame == [kind : {"register", "login"}, of : Name]
             \cup [kind : {"resume"}, of : Token] \cup {[kind |-> "logout"]}
Reply == [kind : {"success"}, of : Token] \cup {[kind |-> "error"]}

TypeOK ==
    /\ accounts \subseteq Name
    /\ live \subseteq issued /\ issued \subseteq Token
    /\ owner \in [Token -> Name \cup {NoName}]
    /\ expires \in [Token -> Nat]
    /\ now \in Nat /\ fails \in Nat /\ losses \in Nat
    /\ now + fails + losses <= MaxEvents
    /\ phase \in [Conn -> {"none", "idle", "issuing", "checking", "deleting"}]
    /\ call \in [Conn -> Frame \cup {NoFrame}]
    /\ user \in [Conn -> Name \cup {NoName}]
    /\ token \in [Conn -> Token \cup {NoToken}]
    /\ registered \in [Name -> Conn \cup {NoConn}]
    /\ closer \in [Conn -> {"no", "called", "done"}]
    /\ net \in [Conn -> {"none", "up", "fin", "cut"}]
    /\ \A c \in Conn : inbox[c] \in Seq(Frame) /\ answers[c] \in Seq(Reply)
    /\ sock \in [Conn -> {"none", "connecting", "aborted", "open", "closing"}]
    /\ tabOf \in [Conn -> Tab \cup {NoTab}]
    /\ cur \in [Tab -> Conn \cup {NoConn}]
    /\ timers \in [Tab -> Nat]
    /\ stored \in Token \cup {NoToken}
    /\ shown \in [Tab -> Name \cup {NoName}]
    /\ left \subseteq issued \ live
    /\ odd \in [Conn -> SUBSET {"late", "renamed", "refused", "silent"}]
    /\ overlapped \subseteq Tab
    \* A token belongs to an account, and a connection to its token's owner.
    /\ \A t \in issued : owner[t] \in accounts
    /\ \A c \in Conn : user[c] # NoName => owner[token[c]] = user[c]

Init ==
    /\ accounts = {} /\ live = {} /\ issued = {}
    /\ owner = [t \in Token |-> NoName]
    /\ expires = [t \in Token |-> 0]
    /\ now = 0 /\ fails = 0 /\ losses = 0
    /\ phase = [c \in Conn |-> "none"]
    /\ call = [c \in Conn |-> NoFrame]
    /\ user = [c \in Conn |-> NoName]
    /\ token = [c \in Conn |-> NoToken]
    /\ registered = [n \in Name |-> NoConn]
    /\ closer = [c \in Conn |-> "no"]
    /\ net = [c \in Conn |-> "none"]
    /\ inbox = [c \in Conn |-> <<>>] /\ answers = [c \in Conn |-> <<>>]
    /\ sock = [c \in Conn |-> "none"]
    /\ tabOf = [c \in Conn |-> NoTab]
    /\ cur = [b \in Tab |-> NoConn]
    /\ timers = [b \in Tab |-> 1]          \* the call at the end of app.js
    /\ stored = NoToken
    /\ shown = [b \in Tab |-> NoName]
    /\ left = {}
    /\ odd = [c \in Conn |-> {}] /\ overlapped = {}

-----------------------------------------------------------------------------
(* Helpers *)

Goto(c, p) == phase' = [phase EXCEPT ![c] = p]

\* Session.Expired.
MutExpiredEarly(t) == now >= expires[t] - 1

MutExpiredLate(t) == now > expires[t]
Expired(t) == now >= expires[t]

\* Bound.
Budget == now + fails + losses < MaxEvents

\* A storage call fails.
StorageFails == Budget /\ fails' = fails + 1

\* A connection is lost, or a page is reloaded.
Trouble == Budget /\ losses' = losses + 1

\* isUniqueViolation turns the insert's error into ErrUserAlreadyExists.
NameTaken(n) == n \in accounts

\* The user a resumed session is for.
ResumedAs(c) == owner[call[c].of]

\* RemoveClient: the entry goes if it is the connection's own.
MutAfterRemove(c) == registered
AfterRemove(c) ==
    [n \in Name |-> IF n = user[c] /\ registered[n] = c THEN NoConn ELSE registered[n]]

\* WSManager.onclose tells the page, whose handler reconnects a user in three
\* seconds: the timers it adds.
MutRetries(c) == 0
Retries(c) == IF shown[tabOf[c]] = NoName THEN 0 ELSE 1

\* A socket that never opened is retried in five seconds, by the catch of
\* _connectWebSocket alone: the timers a failed attempt starts.
MutRetriesOfFailure(c) == 1 + Retries(c)
RetriesOfFailure(c) == 1

\* AUTH_ERROR shows the form.
MutShownAfterError(c) == shown
ShownAfterError(c) == [shown EXCEPT ![tabOf[c]] = NoName]

\* sendAuthError, or the AUTH_SUCCESS of a token; nothing leaves a connection
\* that has been closed, and a page does not hear a socket it has closed.
Answer(c, r) ==
    answers' = IF closer[c] = "done" \/ sock[c] # "open" THEN answers
               ELSE [answers EXCEPT ![c] = Append(@, r)]

\* History.
Mark(c, happens, turn) ==
    odd' = IF happens THEN [odd EXCEPT ![c] = @ \cup {turn}] ELSE odd

Refuse(c) ==
    /\ Answer(c, [kind |-> "error"])
    /\ Goto(c, "idle")
    /\ call' = [call EXCEPT ![c] = NoFrame]
    /\ Mark(c, user[c] # NoName, "refused")

\* WSManager.send: nothing, unless the last socket is open.
Sent(box, b, f) ==
    LET c == cur[b]
    IN  IF c # NoConn /\ sock[c] = "open" /\ net[c] = "up"
        THEN [box EXCEPT ![c] = Append(@, f)] ELSE box

\* The connection's handleDisconnect, once.
Disconnect(c) ==
    /\ registered' = IF closer[c] = "done" THEN registered ELSE AfterRemove(c)
    /\ closer' = [closer EXCEPT ![c] = "done"]
    /\ net' = [net EXCEPT ![c] = "cut"]

\* authenticate: the session is bound to the connection, which takes its user's
\* place in the registry; the connection it displaces will be closed.
Bind(c, t, n) ==
    /\ user' = [user EXCEPT ![c] = n]
    /\ token' = [token EXCEPT ![c] = t]
    /\ registered' = [registered EXCEPT ![n] = c]
    /\ closer' = [d \in Conn |->
                    IF d = registered[n] /\ d # c /\ closer[d] = "no" THEN "called"
                    ELSE closer[d]]
    /\ Answer(c, [kind |-> "success", of |-> t])
    /\ Goto(c, "idle")
    /\ call' = [call EXCEPT ![c] = NoFrame]
    /\ odd' = [odd EXCEPT ![c] = @
                  \cup (IF user[c] \notin {n, NoName} THEN {"renamed"} ELSE {})
                  \cup (IF closer[c] = "done" THEN {"late"} ELSE {})]

-----------------------------------------------------------------------------
(* AuthService.  A handler's first storage call is one step with the       *)
(* reading of its frame, which nobody sees without it.                     *)

\* readPump, route.
Reading(c, k) ==
    /\ phase[c] = "idle" /\ closer[c] # "done"
    /\ inbox[c] # <<>> /\ Head(inbox[c]).kind = k

Asked(c) == Head(inbox[c]).of
Taken(c) == inbox' = [inbox EXCEPT ![c] = Tail(@)]
At(c, p) == Goto(c, p) /\ call' = [call EXCEPT ![c] = Head(inbox[c])]

RegisterUser(c) ==
    /\ Reading(c, "register") /\ Taken(c)
    /\ ~NameTaken(Asked(c))
    /\ accounts' = accounts \cup {Asked(c)}
    /\ At(c, "issuing")
    /\ UNCHANGED <<live, owner, expires, issued, env, server, net, answers,
                   page, left, odd, overlapped>>

\* The account is found and the password is right.
LoginSucceeds(c) ==
    /\ Reading(c, "login") /\ Taken(c)
    /\ Asked(c) \in accounts
    /\ At(c, "issuing")
    /\ UNCHANGED <<tables, env, server, net, answers, page, history>>

\* The name or the password is not acceptable, the name is taken or unknown, or
\* the storage call fails.
SignInRefused(c) ==
    /\ Reading(c, "register") \/ Reading(c, "login")
    /\ Taken(c)
    /\ Refuse(c)
    /\ UNCHANGED <<tables, env, server, net, page, left, overlapped>>

IssueSession(c) ==
    /\ phase[c] = "issuing"
    /\ \E t \in Token \ issued :
           /\ issued' = issued \cup {t}
           /\ live' = live \cup {t}
           /\ owner' = [owner EXCEPT ![t] = call[c].of]
           /\ expires' = [expires EXCEPT ![t] = now + TTL]
           /\ Bind(c, t, call[c].of)
    /\ UNCHANGED <<accounts, env, net, inbox, page, left, overlapped>>

\* The account of a registration stays.
IssueFails(c) ==
    /\ StorageFails
    /\ phase[c] = "issuing"
    /\ Refuse(c)
    /\ UNCHANGED <<tables, now, losses, server, net, inbox, page, left,
                   overlapped>>

ResumeFinds(c) ==
    /\ Reading(c, "resume") /\ Taken(c)
    /\ Asked(c) \in live
    /\ At(c, IF Expired(Asked(c)) THEN "deleting" ELSE "checking")
    /\ UNCHANGED <<tables, env, server, net, answers, page, history>>

ResumeFindsNothing(c) ==
    /\ Reading(c, "resume") /\ Taken(c)
    /\ \/ Asked(c) \notin live /\ UNCHANGED fails
       \/ StorageFails
    /\ Refuse(c)
    /\ UNCHANGED <<tables, now, losses, server, net, page, left,
                   overlapped>>

\* FindByID finds the user: nothing ever deletes one.
ResumeSucceeds(c) ==
    /\ phase[c] = "checking"
    /\ Bind(c, call[c].of, ResumedAs(c))
    /\ UNCHANGED <<tables, env, net, inbox, page, left, overlapped>>

\* Whatever error FindByID returns, the session is deleted.
ResumeCheckFails(c) ==
    /\ StorageFails
    /\ phase[c] = "checking"
    /\ Goto(c, "deleting")
    /\ UNCHANGED <<tables, now, losses, server, call, wire, page, history>>

\* The delete's own error is ignored.
ResumeDeletes(c) ==
    /\ phase[c] = "deleting"
    /\ \/ live' = live \ {call[c].of} /\ UNCHANGED fails
       \/ StorageFails /\ UNCHANGED live
    /\ Refuse(c)
    /\ UNCHANGED <<accounts, owner, expires, issued, now, losses, server, net,
                   inbox, page, left, overlapped>>

\* handleLogout; route answers "not authenticated" to a connection that is not
\* signed in.
LogoutDeletes(c) ==
    /\ Reading(c, "logout") /\ Taken(c)
    /\ IF user[c] = NoName THEN UNCHANGED <<live, left, fails>>
       ELSE \/ /\ live' = live \ {token[c]}
               /\ left' = left \cup {token[c]}
               /\ UNCHANGED fails
            \/ StorageFails /\ UNCHANGED <<live, left>>
    /\ UNCHANGED <<accounts, owner, expires, issued, now, losses, server, reader,
                   net, answers, page, odd, overlapped>>

-----------------------------------------------------------------------------
(* The connection *)

\* ReadMessage fails, and readPump ends with a close().
EndOfInput(c) ==
    /\ phase[c] = "idle"
    /\ \/ closer[c] = "done"
       \/ net[c] = "cut"
       \/ net[c] = "fin" /\ inbox[c] = <<>>
    /\ Disconnect(c)
    /\ Goto(c, "none")
    /\ user' = [user EXCEPT ![c] = NoName]
    /\ token' = [token EXCEPT ![c] = NoToken]
    /\ inbox' = [inbox EXCEPT ![c] = <<>>]
    /\ UNCHANGED <<tables, env, call, answers, page, history>>

\* The close() that an eviction, or a failed ping, calls; the reader may be in
\* the middle of a frame.
Close(c) ==
    /\ \/ closer[c] = "called"
       \/ closer[c] = "no" /\ net[c] = "cut" /\ phase[c] # "none"
    /\ Disconnect(c)
    /\ UNCHANGED <<tables, env, user, token, reader, inbox, answers, page,
                   history>>

Lose(c) ==
    /\ Trouble
    /\ net[c] = "up"
    /\ net' = [net EXCEPT ![c] = "cut"]
    /\ UNCHANGED <<tables, now, fails, server, reader, inbox, answers, page,
                   history>>

-----------------------------------------------------------------------------
(* The page *)

\* A socket that is gone at both ends.
Unused(c) == sock[c] = "none" /\ phase[c] = "none" /\ closer[c] # "called"
                /\ \A n \in Name : registered[n] # c

\* _connectWebSocket, WSManager.connect.
Dial(b, c) ==
    /\ timers[b] > 0 /\ Unused(c)
    /\ timers' = [timers EXCEPT ![b] = @ - 1]
    /\ cur' = [cur EXCEPT ![b] = c]
    /\ sock' = [sock EXCEPT ![c] = "connecting"]
    /\ tabOf' = [tabOf EXCEPT ![c] = b]
    /\ closer' = [closer EXCEPT ![c] = "no"]
    /\ net' = [net EXCEPT ![c] = "none"]
    /\ answers' = [answers EXCEPT ![c] = <<>>]
    /\ odd' = [odd EXCEPT ![c] = {}]
    /\ UNCHANGED <<tables, env, user, token, registered, reader, inbox, stored,
                   shown, left, overlapped>>

\* A token in localStorage is resumed, on the tab's last socket.
Opens(c) ==
    /\ sock[c] = "connecting"
    /\ sock' = [sock EXCEPT ![c] = "open"]
    /\ net' = [net EXCEPT ![c] = "up"]
    /\ Goto(c, "idle")
    /\ LET resume == [kind |-> "resume", of |-> stored]
       IN  inbox' = IF stored = NoToken THEN inbox
                    ELSE IF cur[tabOf[c]] = c THEN [inbox EXCEPT ![c] = <<resume>>]
                    ELSE Sent(inbox, tabOf[c], resume)
    /\ Mark(c, shown[tabOf[c]] # NoName /\ inbox'[c] = <<>>, "silent")
    /\ UNCHANGED <<tables, env, server, call, answers, tabOf, cur,
                   timers, stored, shown, left, overlapped>>

\* The socket is gone, and the tab starts so many timers.
Gone(c, n) ==
    LET b == tabOf[c]
    IN  /\ sock' = [sock EXCEPT ![c] = "none"]
        /\ tabOf' = [tabOf EXCEPT ![c] = NoTab]
        /\ cur' = [cur EXCEPT ![b] = IF @ = c THEN NoConn ELSE @]
        /\ timers' = [timers EXCEPT ![b] = @ + n]
        /\ answers' = [answers EXCEPT ![c] = <<>>]
        /\ odd' = [odd EXCEPT ![c] = @ \ {"refused", "silent"}]
        /\ UNCHANGED <<tables, env, server, reader, net, inbox, stored, shown,
                       left>>

\* onerror before onopen: again in five seconds.
ConnectFails(c) ==
    /\ sock[c] \in {"connecting", "aborted"}
    /\ Gone(c, RetriesOfFailure(c))
    /\ UNCHANGED overlapped

\* onclose of a socket that had been open.
OnClose(c) ==
    /\ \/ sock[c] = "closing"
       \/ sock[c] = "open" /\ net[c] = "cut"
    /\ Gone(c, Retries(c))
    /\ overlapped' = overlapped \cup
           (IF cur[tabOf[c]] # c /\ shown[tabOf[c]] # NoName THEN {tabOf[c]} ELSE {})

OnAuthSuccess(c) ==
    /\ sock[c] = "open" /\ answers[c] # <<>>
    /\ Head(answers[c]).kind = "success"
    /\ answers' = [answers EXCEPT ![c] = Tail(@)]
    /\ stored' = Head(answers[c]).of
    /\ shown' = [shown EXCEPT ![tabOf[c]] = owner[stored']]
    /\ UNCHANGED <<tables, env, server, reader, net, inbox, sock, tabOf,
                   cur, timers, history>>

\* _clearSession, whoever stored what is there; back to the form.
OnAuthError(c) ==
    /\ sock[c] = "open" /\ answers[c] # <<>>
    /\ Head(answers[c]).kind = "error"
    /\ answers' = [answers EXCEPT ![c] = Tail(@)]
    /\ stored' = NoToken
    /\ shown' = ShownAfterError(c)
    /\ UNCHANGED <<tables, env, server, reader, net, inbox, sock, tabOf,
                   cur, timers, history>>

\* Bound: as many sign-ins are begun as there are tokens for.
TokensLeft ==
    LET waiting == {c \in Conn : \E i \in 1..Len(inbox[c]) :
                                     inbox[c][i].kind \in {"register", "login"}}
        issuing == {c \in Conn : phase[c] = "issuing"}
    IN  Cardinality(waiting) + Cardinality(issuing) < Cardinality(Token \ issued)

\* _login or _register, from the form; a double click sends it twice.
Submit(b, f) ==
    /\ shown[b] = NoName /\ f.kind \in {"register", "login"}
    /\ cur[b] # NoConn /\ sock[cur[b]] = "open" /\ net[cur[b]] = "up"
    /\ Len(inbox[cur[b]]) + Len(answers[cur[b]])
         + (IF phase[cur[b]] = "idle" THEN 0 ELSE 1) < MaxAsked
    /\ TokensLeft
    /\ inbox' = Sent(inbox, b, f)
    /\ UNCHANGED <<tables, env, server, reader, net, answers, page, history>>

\* The logout button.  The timers that are pending stay.
Logout(b) ==
    LET c == cur[b]
    IN  /\ shown[b] # NoName
        /\ timers[b] + Cardinality({d \in Conn : tabOf[d] = b})
               <= MaxAttempts
        /\ inbox' = Sent(inbox, b, [kind |-> "logout"])
        /\ stored' = NoToken
        /\ shown' = [shown EXCEPT ![b] = NoName]
        /\ sock' = [d \in Conn |->
                        CASE d = c /\ sock[d] = "open" -> "closing"
                          [] d = c /\ sock[d] = "connecting" -> "aborted"
                          [] OTHER -> sock[d]]
        /\ net' = [d \in Conn |-> IF d = c /\ net[d] = "up" THEN "fin"
                                  ELSE net[d]]
        /\ answers' = [d \in Conn |-> IF d = c THEN <<>> ELSE answers[d]]
        /\ timers' = [timers EXCEPT ![b] = @ + 1]
        /\ overlapped' = overlapped \cup
               (IF timers[b] > 0 \/ "aborted" \in {sock'[d] : d \in Conn \cap {c}}
                THEN {b} ELSE {})
        /\ UNCHANGED <<tables, env, server, reader, tabOf, cur, left,
                       odd>>

\* The page is reloaded: its sockets are closed, and the module runs again.
Reload(b) ==
    /\ Trouble
    /\ b \in {tabOf[d] : d \in Conn}
    /\ sock' = [d \in Conn |-> IF tabOf[d] = b THEN "none" ELSE sock[d]]
    /\ tabOf' = [d \in Conn |-> IF tabOf[d] = b THEN NoTab ELSE tabOf[d]]
    /\ net' = [d \in Conn |-> IF tabOf[d] = b /\ net[d] = "up" THEN "fin"
                              ELSE net[d]]
    /\ answers' = [d \in Conn |-> IF tabOf[d] = b THEN <<>> ELSE answers[d]]
    /\ cur' = [cur EXCEPT ![b] = NoConn]
    /\ timers' = [timers EXCEPT ![b] = 1]
    /\ shown' = [shown EXCEPT ![b] = NoName]
    /\ overlapped' = overlapped \ {b}
    /\ UNCHANGED <<tables, now, fails, server, reader, inbox, stored,
                   left, odd>>

Tick ==
    /\ Budget
    /\ now' = now + 1
    /\ UNCHANGED <<tables, fails, losses, server, reader, wire, page, history>>

-----------------------------------------------------------------------------
ServerStep(c) ==
    \/ RegisterUser(c) \/ LoginSucceeds(c) \/ SignInRefused(c)
    \/ IssueSession(c) \/ IssueFails(c)
    \/ ResumeFinds(c) \/ ResumeFindsNothing(c)
    \/ ResumeSucceeds(c) \/ ResumeCheckFails(c) \/ ResumeDeletes(c)
    \/ LogoutDeletes(c)
    \/ EndOfInput(c) \/ Close(c)

SocketStep(c) ==
    \/ \E b \in Tab : Dial(b, c)
    \/ Opens(c) \/ ConnectFails(c) \/ OnClose(c)
    \/ OnAuthSuccess(c) \/ OnAuthError(c)

UserStep(b) ==
    \/ \E k \in {"register", "login"}, n \in Name :
           Submit(b, [kind |-> k, of |-> n])
    \/ Logout(b) \/ Reload(b)

Next == \/ \E c \in Conn : ServerStep(c) \/ SocketStep(c) \/ Lose(c)
        \/ \E b \in Tab : UserStep(b)
        \/ Tick

Spec == Init /\ [][Next]_vars

-----------------------------------------------------------------------------
(* Properties *)

\* A resume that looks the token up after the logout (or after the expiry) never
\* succeeds: only one that had read the row before can.
LogoutStopsLaterResumes ==
    [][ \A c \in Conn :
            Reading(c, "resume") /\ phase'[c] = "checking" =>
                Asked(c) \notin left /\ now < expires[Asked(c)] ]_vars

\* A user's entry in the registry is a connection that is signed in as the user
\* and has not been closed.  Two turns leave an entry that is not: a connection
\* closed in the middle of its sign-in, which registers after its one cleanup,
\* and one that signs in under a second name.
RegistryIsConnected ==
    \A n \in Name : LET c == registered[n] IN
        c # NoConn /\ odd[c] \cap {"late", "renamed"} = {} =>
            user[c] = n /\ closer[c] # "done"

\* As long as storage works, a session ends by its logout or its expiry alone,
\* whatever the tabs do (auth.go:75-76).  It does not survive a failing lookup of
\* its user: Resume deletes it, whatever the error.
OnlyLogoutOrExpiryEndsASession ==
    fails = 0 =>
        \A t \in issued : t \in live \/ t \in left \/ now >= expires[t]

\* A page that shows its user has a socket, or a timer that will make one: it is
\* never left disconnected for good.  (The sign-in form can be: its lost socket
\* starts no timer.)
SignedInPageComesBack ==
    \A b \in Tab : shown[b] # NoName =>
        timers[b] > 0 \/ b \in {tabOf[c] : c \in Conn}

Attempts(b) ==
    timers[b] + Cardinality({c \in Conn : /\ tabOf[c] = b
                                          /\ sock[c] # "closing"})

\* A tab connects once at a time (ws.js:22-26): a failed attempt and a lost
\* connection start one timer, not two.  A logout while a reconnect is pending,
\* and a close event that comes after the next sign-in, break this; the two
\* sockets then evict each other for ever.
OneSocketPerTab == \A b \in Tab \ overlapped : Attempts(b) <= 1

Settled(b) ==
    /\ timers[b] = 0 /\ cur[b] # NoConn
    /\ \A c \in Conn : tabOf[c] = b =>
          /\ c = cur[b] /\ sock[c] = "open" /\ net[c] = "up" /\ closer[c] = "no"
          /\ phase[c] = "idle" /\ inbox[c] = <<>> /\ answers[c] = <<>>

\* When nothing is under way, a page shows the user its connection is signed in
\* as, and the form when there is none.  Two turns break this: a second sign-in
\* of a double click that is refused after the first succeeded, and a reconnect
\* that finds the stored token gone, because another tab has logged out.
PageTellsWhoIsSignedIn ==
    \A b \in Tab \ overlapped :
        Settled(b) /\ odd[cur[b]] \cap {"refused", "silent"} = {} =>
            shown[b] = user[cur[b]]

=============================================================================
