# A TLA+ model of darmie

darmie is a chat and video-call server written in Go with a browser client in
plain JavaScript. One process keeps the presence of its users (who is connected,
who sits in which room) in memory behind mutexes, stores accounts, sessions,
messages and file records in SQLite and blobs on disk, and relays WebRTC
signalling. There are hardly any tests in the repository, and the hard part of
the program is concurrent: two or three goroutines for each connection, which
take and release several locks one after the other, and browsers that believe
what arrives over sockets in an order no lock determines.

Every module here is a translation of the code. Where a comment in the source
states a promise, the promise is a property.

## Inventory

| Component | Source | State | Operations | What makes it correct |
|---|---|---|---|---|
| Presence | `registry.go`, `client.go`, `hub.go`, `handlers_auth.go`, `handlers_room.go`, `handlers_signal.go` | `Registry.clients`, `Registry.rooms`, `room.clients`, `Client.userID`, `Client.rooms`, `Client.once` | sign in, create, join, leave, relay, evict, close, clean up | one live connection per user; one room per user; the seat cap; no seat or entry without a connection; signals stay in a room |
| Room views | `handlers_room.go`, `app.js`, `ws.js` | `state.currentRoom`, `state.roomUsers`, the peers of `webrtc.js`; messages on their way | `room_joined`, `room_left`, `user_joined`, `user_left` | a page shows its user's seat, lists the members, and one of each two members calls the other |
| Room list | `handlers_room.go`, `registry.go`, `app.js` | `state.rooms` | `list_rooms`, `create_room`, `broadcastRoomList` | new rooms appear, counts stay current |
| Outbound queue | `client.go` | `Client.send`, the pumps, `Client.once` | `trySend`, `writePump`, `readPump`, `close` | no loss without a close, no deadlock, no goroutine left behind |
| Rate limit | `client.go` | `msgWin`, `msgCount` | `allowMessage` | bounded rate, nobody refused without cause |
| Chat | `handlers_chat.go`, `core/chat.go`, `sqlite/message.go`, `app.js`, `ui.js` | `text_messages`, the message list of a page | post, prune, load, broadcast | each message once, in each author's order; the newest rows stay |
| Accounts and sessions | `core/auth.go`, `sqlite/session.go`, `sqlite/user.go`, `handlers_auth.go`, `app.js`, `ws.js` | `users`, `sessions`, `Client.sessionToken`, `localStorage`, `WSManager._ws`, pending timers, `state.userId` | register, login, resume, logout, expiry, connect, reconnect, reload | a session lives until its logout or expiry; a page says who is signed in and comes back with one socket |
| Files | `handlers_file.go`, `core/file.go`, `diskstore.go`, `sqlite/file.go` | `files`, blobs | upload, download | a row has a whole blob, and a blob a row |
| WebRTC negotiation | `webrtc.js`, `handlers_signal.go` | `_peers`, `makingOffer`, `ignoreOffer`, `_pending`, the connection's own state | start a call, change media, offer, answer, candidate | two sides end with the same exchange and each other's media |
| Media controller | `media-controller.js`, `webrtc.js`, `ui.js` | flags, local streams, senders, RNNoise graph, tiles | camera, microphone, mute, screen, noise suppression | the controls tell the truth, media only while in a room, muted is silent, peers are sent what is captured |
| Peer file transfer | `filetransfer.js` | data channel, chunk queue | send, receive | whole files, in order; a send ends |
| Upload controller | `upload-controller.js` | preview, progress, object URLs | choose, drop, send, reset | nothing stays shown, answers are true |
| UI, wire types, hashing, migration, start-up | `ui.js`, `protocol.go`, `domain.go`, `bcrypt.go`, `db.go`, `main.go` | none of their own | | |

Go paths above are under `internal/` (`transport/ws` unless a directory is
given), JavaScript under `static/js`.

### How the parts interact

* A connection's **reader** (`readPump`) runs handlers one frame at a time. Its
  **writer** (`writePump`) empties `Client.send`. Anybody may run
  `Client.close`: `sync.Once` picks one caller, and that caller runs
  `handleDisconnect`, concurrently with a handler the reader is still in.
* A handler takes `Registry.mu`, `room.mu` and `Client.roomsMu` in turn and not
  together (`GhostRooms` and `ListRooms` hold `g.mu.RLock` while they go over
  the rooms). Between two of them every other goroutine may run.
* Messages are sent after the locks are released, from snapshots taken under
  them. A channel and a socket keep the order in which messages were put in; the
  handlers of different connections put them in in any order.
* A page acts on one message at a time and mostly trusts it: `user_joined` is
  applied to whatever room the page shows.
* Tabs of one browser share the token in `localStorage` and reconnect alone.

### Hard behaviours

Interleavings of the reader, the clean-up and other connections; a check made
under one lock and used under the next; messages that overtake each other; full
buffers; `once.Do`, which makes each later caller wait; storage calls that fail
half way; a process that dies between two writes; tokens that expire while a call
is in progress; frames in the read buffer of a socket that is closed already.
`PROJECT.json` lists them as hazards, each at its line.

## Modules

`MC*` modules hold the model values, symmetry sets and constant functions of the
runs; `*Proofs` modules the theorems (see Proofs).

**Presence.** A connection has a `reader` and a `closer` program counter, and
one step is one critical section. `clients`, `members` and `joined` are
`Registry.clients`, `room.clients` and `Client.rooms`. A sign-in is
`Authenticate` (the user is written) and `AddClient` (the swap in the registry,
which sets `kicked` on the displaced connection: `go old.close()`). A join is
`JoinFrame` (the loop of `leaveAllRooms` starts), `JoinInsert` or `JoinRefused`,
and `AddRoom`. Leaving a room is `LeaveMember` or `LeaveNonMember`, then
`RemoveRoom`; both goroutines of a connection use it. The clean-up is `Close`,
`RemoveClient`, `LeaveAllRooms`, the ghost scan (`StartScan`, `ScanRoom` under
the read lock, `EndScan`) and the leaves it finds. `buffered` counts frames the
reader may still take after the socket was closed. `late` is a history variable:
the connection got a seat or an entry after its own clean-up had looked there.

**Seats.** The abstract registry: rooms, and the users seated in each, changing by
one room or one seat at a time, under the caps. Presence implements it through
`Book == INSTANCE Seats WITH open <- rooms, seated <- ...` (`RegistryIsABook`).

**RoomViews.** The messages about membership from the handlers to the pages. `outbox[u]`
is the channel, the writer and the socket of a user, in order. The frame of a click is
handled in the step that takes it. `disturbed` marks a user that was sent a message out
of turn since it last moved (one about another room, one that overtook its own
`room_joined`, or one that came behind what it is about) or lost messages with its
connection. A connection may be closed at any time (`Close`), and its clean-up (`Sweep`,
`TellGone`, `CleanedUp`) then runs beside the handler its reader is in: its `user_left`
may come before the `user_joined` the reader still announces, and the reader may take a
seat behind it. The page hears of the loss later (`Lose`); when both goroutines have
ended it comes back by itself (`Reconnect`) and still shows its room. `LeaveUnheard` is
the leave button in between. `stranded` marks a user whose last join was refused or
whose connection was lost.

**RoomList.** `broadcastRoomList` scans the rooms one at a time under their
locks (`ScanRoom`) and then sends to the recipients one at a time. A page takes
the list in the step that sends it. `behind[u]` says that the last list of a page
was overtaken by a change.

**PerfectNegotiation.** `WebRTCManager` on two pages of one room and the relay between
them, which drops what is sent while one of the two has no seat. A handler is split at
its awaits: `HandleOffer` and `HandleAnswer` check the state and put
`setRemoteDescription` on the connection's chain; `SetRemoteOffer` and `SetRemoteAnswer`
are its completion; `Reply` ends the flush and chains `setLocalDescription`, whose
completion (`SetLocalAnswer`, or `SetLocalOffer` when the state has moved on) sends.
`OnNegotiationNeeded` is the event and the handler's first part. The connection itself
(the chain, the signalling states, implicit rollback, the negotiation-needed flag) is
the browser's and external; its actions are mapped to the code that runs when it calls
back. A description is the version of the sender's media it covers, and an answer covers
the new media or the last settled ones, as transceivers allow. A page may leave
(`LeaveRoom`), or click on another room (`JoinElsewhere`), and come back; at first
nobody is in the room. A join is `TakeSeat`, `SendRoomJoined` once the history is
loaded, and `TellJoined` for the other member, whose own `room_joined` may still be to
come (`entering`). A connection may fail (`ConnectionFails`). `ClosePeer` takes the
connection with all its awaiting handlers, and `CreatePeer` starts the next `life`,
which finds in `pending` what `closePeer` left there. Descriptions carry in the model
the connection they are of (`from`, `offer`), which only the properties and
`SetRemoteFails` look at: a browser may take a description of another connection or
refuse it, and both are modelled. `overlooked`, `crossed` and `uncalled` are history,
see the exceptions.

**Outbox.** A buffer is a number of messages. `HandlerSends` is any handler of
any connection; `CloserSends` is what `handleDisconnect` sends. `kicks` are
`go c.close()` goroutines.

**Chat.** Posting (`Post`, `Insert`, `Prune`, `Broadcast`, one `SendText` per member),
joining (`Join`, `LoadHistory`, `SendRoomJoined`) and the page (`OnRoomJoined`,
`OnTextMessage`). The insert, the prune and the load may fail (`InsertFails`,
`PruneFails`, `LoadFails`); the code logs or ignores it and goes on. `saved`, `overdue`,
`racing` and `unread` are history. Two posts may have the same timestamp; the order
among equal ones is by id in the prune and open in `Load`, as in the SQL.

**Sessions.** Every storage call of `AuthService` is a step and may fail. The page
is `app.js` and `ws.js`: `cur` is the last socket of a tab (`this._ws`), while
earlier ones still have handlers that dispatch and close events that retry;
`timers` counts pending `setTimeout(_connectWebSocket)`, which may fire at any
time; `stored` is shared by the tabs. A socket is seen from both ends (`sock` and
`net`): it fails to open, is cut, is closed by the server after an eviction or a
logout, or by a reload. `issued` and `left` are history, and so are `odd` (what
has happened to a connection: *late*, it registered after its own clean-up;
*renamed*, it signed in twice; *refused*, a sign-in was refused after one that
succeeded; *silent*, it opened without a stored token to resume) and
`overlapped` (tabs that began to connect twice at a time).

**Files.** One handler per upload over the disk and the table, and the downloads of
what it stored. Each call on the disk or the table may fail, the lookup of a row
(`GetRowFails`) and the opening of a blob (`OpenFails`) included, and the process may
die between any two; a handler alive at a
death is left in the phase "died", and one whose removal failed in "stuck".

**UploadController.** The page of `upload-controller.js` over module Files, which it
extends: choosing, dropping (with the drag depth of nested elements), preview and
object URL, progress bar, `reset` when the room is left, and the request.
`HandleUpload` is any step of the server's handler; the answer reaches the page
later (`Answered`) or not at all (`Lost`, when the connection or the process is
gone). An object URL is named by its upload.

**MediaController.** One page and one other member: the flags behind the buttons,
the captures of the browser, `WebRTCManager`'s streams, senders, mute and RNNoise
graph, and the local tiles and the remote one. A capture is asked for
(`ToggleAudioOn`, `ToggleVideoOn`, `ToggleScreenOn`) and granted or denied any time
later, in whatever room the page then is. `enableRnnoise` is split at its awaits
(`RnnoiseLoaded`, `ReplaceNext`), and the `replaceTrack` calls that nobody awaits
wait on the connection's `chain`. `Negotiated` is PerfectNegotiation in one step.

**FileTransfer.** A sender, its channel and a receiver. Amounts are messages, and a
chunk is the number of its place. `Proceed` is what `_sendFile` does between two awaits:
it reads (`reading`), pauses (`paused`) or ends (`flushing`, the 600 ms before it
closes). `Drain` carries a message on and may wake a paused sender. A read may fail, the
page close its peer (`SenderClosesPeer`), the connection break (`Break`); the sender
notices a break (`TransportEnds`) later or never.

### Bounds and abstractions

* Room IDs, names, tokens and messages are model values. Lengths and formats
  are checked before any state changes and are left out.
* `main.go` sets 12 seats, 100 rooms and 200 rows of history; the runs use one or
  two. The properties speak of the step from below a cap to the cap, which small
  caps reach more often.
* `MaxMoves` (frames of all users, and in RoomViews closes and reconnects), `MaxPosts`,
  `MaxSends`, `MaxCrashes`, `MaxCandidates`, `MaxAsks` (captures asked for), `MaxDepth`
  (nested elements under a drag), `MaxEvents` (in Sessions ticks, storage errors, lost
  connections and reloads together; in PerfectNegotiation changes of media, of which a
  departure or a failure counts for `MoveCost`), `MaxAsked` (sign-in frames without
  their answer), `MaxAttempts` (sockets and timers of a tab that may log out) and
  `Buffered` bound what would grow without end. Presence needs no bound on frames: its
  connections sign in, join and leave for as long as they live. `Buffered` is 0 in the
  passing runs of Presence (a frame left in the buffer doubles the states) and 1 in
  `PresenceCleanup`; the theorems about Presence hold for every value.
* One connection for each user in RoomViews, RoomList and Chat. What a second
  connection of a user does to the seats is in Presence. In RoomViews a user comes back
  when its former connection has ended altogether and left no seat, and `Client.rooms`
  changes together with the clients map. In RoomList a connection ends between two
  frames; Presence and RoomViews have the clean-up that runs beside a handler.
* Sessions drops the frames a closed socket still holds; Presence has them.
* `replaceTrack` on a connection that was closed fails in MediaController; a browser may
  also leave it pending.
* In Presence a second sign-in on a connection writes `userID` in one step. In the code
  this write races with other goroutines' reads; the torn read is not modelled. Taking
  the frame and writing `userID` are one step.
* The history in Chat has text rows alone. File rows are in Files.
* A `TypeOK` documents each module's state. The theorems prove it, for each module
  whose state the proofs reason about; the runs spend their time on what a type cannot
  say.
* MediaController has one other member; `Sound` are the screens captured with sound,
  and one of the run's two has none, so that the fallback microphone is asked for.

## Runs

| Run | Instance | States | Shows |
|---|---|---|---|
| `PresenceTabs` | two tabs of one user, two rooms of one seat | 2.4 M | `SupersededIsKicked`, `SeatsRecorded`, `OneRoomPerUser`, `LeftoversAreLate` |
| `PresenceUsers` | three users, one room of two seats | 1.05 M | `JoinedIsSeated`, `RelayGuardExact`, `RegistryIsABook` |
| `PresenceCleanup` | two tabs, one room, one buffered frame | violated | `CleanupTakesOwnSeats` |
| `RoomViews` | three users, two rooms of two seats, four moves, closes or reconnects | 0.45 M | `UndisturbedSeesMembers`, `UndisturbedAreCalled`, `PageInItsSeat` |
| `RoomList` | three users, two rooms of one seat, a third created, three moves | 0.6 M | `ListsNotOvertakenAreCurrent` |
| `PerfectNegotiation` | two pages, six changes of media, or two and a departure or failure; one candidate | 3.2 M | `QuietIsAgreed`, `AnswersAnswer`, `NoCandidateIsStuck` |
| `Outbox` | two connections, buffers of two, four messages | 0.1 M | `NeverSilentlyDropped`; with fairness `AskedIsClosed`, `PumpsEnd` |
| `Chat` | two users, a history of one, two posts, three moves | 4.8 M | `EachOnceUnlessRacing`, `AuthorsStayInOrder`, `TableStaysSmall` |
| `Sessions` | two tabs, two tokens, one name, one tick, error, cut or reload | 2.5 M | `OnlyLogoutOrExpiryEndsASession`, `LogoutStopsLaterResumes`, `RegistryIsConnected`, `SignedInPageComesBack`, `OneSocketPerTab`, `PageTellsWhoIsSignedIn` |
| `Uploads` | two uploads of one page, two deaths | 1.9 M | `RowsHaveBlobs`, `ShownFilesOpen`, `NoOrphans`, `AnswersAreTrue`, `NothingIsLeftShown`, `PreviewUrlsAreRevoked` |
| `MediaController` | two microphones, a camera, two screens, three requests | 1.6 M | `ControlsTellWhatIsCaptured`, `NothingRunsOutsideARoom`, `MutedIsSilent`, `PeerIsSentWhatIsCaptured`, `VideoHasATile` |
| `FileTransfer` | files of one and of six chunks, a buffer of two | 27 k | `OnlyWholeFiles`, `BufferBounded`; with fairness `BegunFilesArrive` |

Why the bounds are enough: two connections of one user, or three of different users,
give every pair of critical sections in every order, and a third user is needed only
where two race while one watches (the cap, the views, the lists). Six changes give an
offer that collides, the offer that follows it, and one while the answer to that is on
its way; a departure and return at any point of a negotiation, with two changes besides,
gives each page a second connection while all that the first one sent is on its way. Two
rooms are needed to move. Four moves let a user join, leave and join again while another
joins, or two join while the connection of one is closed and made again. A history of
one makes each second post prune. Two buffers that fill up are enough for the circle of
waiting clean-ups. One tick, storage error, lost connection or reload, and any number of
logouts and evictions, between two tabs that share a token gives each turn of a session
once; with two names the properties of Sessions hold too (4.4 M states), and only then
does a connection sign in under another name. Three requests let a share, its fallback
microphone and a second share, or two microphones, be under way at once. Six chunks make
a sender pause twice over a buffer of two. Deadlock is checked for Presence, where
`Terminated` is the one way to stop, and for PerfectNegotiation, where `Resting` is (an
operation that can never complete would be found); elsewhere a system whose bounded
inputs are used up rests, and the cfg says so.

### Fairness

Two runs assume fairness. `Outbox`: Go runs each runnable goroutine; the ticker
ticks and a write ends within `writeWait`, so the writer moves; a read of a
*closed* socket fails, so the reader moves once `close` has begun, and not
before. Handlers need not send and peers need not go away. `FileTransfer`: a channel
of an unbroken connection opens, a read ends (well or not), the channel drains and
the receiving page takes its messages. Nothing has to break or to be closed, and
nobody has to notice a break.

### What a run refutes

**`PresenceCleanup`.** `registry.go:223-224` says that `GhostRooms` finds "a
stale membership of c that is not reflected in c's own room set". Seats are
keyed by user, so the clean-up of an evicted connection may find, and delete,
the seat of the connection that displaced it. The user then sits in no room
while its page shows one.

### What the properties' exceptions are

Each history variable in a property delimits something the code does. They are
the places to look at first when the code is changed.

* `late`: a join taken from the read buffer of a closed socket, or an
  `AddClient` after the connection's own `RemoveClient`, leaves a ghost seat or
  a dead entry for ever. Both need a closed connection's reader to be slow.
* `Settled` (`RelayGuardExact`): between the `RemoveClient` of a target and its leaving
  the room `peerClient` finds nobody, although both have their seats.
* `OneAccount`, `OwnUser`: a second sign-in on a connection, as another user,
  leaves the first entry in the registry. A connection whose seat was taken over
  by another tab keeps the room in `Client.rooms` and may still relay into it.
* `disturbed`, `uncalled`: `user_joined` may overtake the `room_joined` of a member that
  has just joined and whose history is still being loaded (`handlers_room.go:50-62`);
  that page then closes the new peer (`app.js:104-105`), and nobody calls again. The
  `user_left` of a clean-up may overtake the `user_joined` of its own user's reader: the
  others list and call a user that is gone.
* `closer[u] = "done"` with a seat (`PageInItsSeat`): the reader of a closed connection
  took the seat behind its clean-up; Presence calls it `late`.
* `stranded`: a refused join has given its old seat up and sends no message that the
  page acts on, and a connection that comes back has no seat; the page goes on
  showing the old room, and `_joinRoom` does nothing for the room that is shown
  (`app.js:174`). `behind`, `GivesUpSeat`: a list taken before a room was created may
  arrive after the one that names it, and a refused join sends no list.
* `overlooked`: while the answer to its own offer waits in
  `setRemoteDescription`, the impolite page is still in `have-local-offer` and
  takes the next offer for a collision (`webrtc.js:133-137`; the published pattern
  has a flag for this). The polite page then stays in `have-local-offer`, and its
  new track does not arrive until the impolite page's media change.
* `crossed`: nothing in a description says which connection it is of. One that was sent
  by, or for, a connection that was closed meanwhile reaches its successor, which takes
  an answer whenever it has an offer of its own pending (`webrtc.js:160`); the two pages
  may then rest without having agreed.
* `uncalled`, again: a connection that has failed is closed on one side
  (`webrtc.js:390`), and nobody calls again while both users stay in the room.
* `racing`: a message that is posted while a user joins may be in its history, come live,
  both, or neither. `unread`: when the history cannot be loaded the newcomer is shown
  none (`handlers_room.go:125-129`), without a word. `overdue`: a prune that fails leaves
  its row until the next prune of that room.
* `unread` (Files): a lookup or an open that fails is answered like a file that is not
  there (`handlers_file.go:119-123`), although it is.
* In Outbox, a message after the dropped one may be delivered before the close.
* `fails = 0`: any error of `FindByID`, a busy database included, deletes the
  session. `LogoutStopsLaterResumes` is about later resumes: one that has read
  the row already signs in with a token that is no longer stored.
* `late`, `renamed` (Sessions): a connection closed in the middle of its sign-in
  registers after its only clean-up; one that signs in under a second name leaves
  the first name's entry.
* `overlapped` (Sessions): a logout while a reconnect is pending, or a close event
  that comes after the next sign-in, leaves a tab with two sockets, which evict each
  other for ever, as two tabs with one token do: each reconnects three seconds after
  the other evicted it (`app.js:169`).
* `refused`: of the two frames of a double click on register the second is refused; the
  page clears the token and shows the form over a connection that is signed in
  (`app.js:81`). `silent`: a page that reconnects after another tab has logged out
  finds no token, asks nothing, and goes on showing its user.
* A sign-in form that loses its socket never reconnects: both conditions that start a
  timer after `onclose` need a user (`app.js:167`), and a click is then dropped
  silently (`SignedInPageComesBack` is about pages that show a user).
* `strays`: a capture granted after its room was left runs on outside it
  (`media-controller.js:48`). `unnoticed`: a share that ends while its fallback
  microphone is awaited ends before there is a listener (`:125-131`). `replaced`: a
  second share overwrites `_screenStream`, and the first is never stopped
  (`webrtc.js:314`). `doubled`: of two microphones only the last is muted
  (`webrtc.js:204`). `mixed`: `_audioSenders` also returns the senders of a screen's
  sound, which then carry the microphone (`webrtc.js:256`, `:274`).
* `overlapped` (UploadController): the object URL of the first of two previews is never
  revoked (`upload-controller.js:61`).
* `broken` in `BegunFilesArrive`: a sender paused at `filetransfer.js:76` is never woken
  when the channel closes. The test of `readyState` at line 72 never helps: it runs
  right after a send, which throws on a channel that is not open.
* "died" and "stuck" in `NoOrphans`: a blob stays when the process dies between
  the blob and its row, or when the removal fails, whose error is ignored.

## Proofs

The theorems hold for every value of the constants that the modules' named
assumptions allow (finitely many users, caps that are natural numbers, distinct
model values). Each is an invariance argument: the invariant holds in `Init`, every
action keeps it (one step or lemma of the proof per action), and `PTL` puts the two
together. Every invariant that a run checks is proved. The invariants below were
checked with TLC, as invariants of the runs' instances, before they were proved.

A proof module may extend two specifications (`RoomListProofs` extends RoomList and
Outbox, `WebRTCProofs` PerfectNegotiation and FileTransfer); this is why the names in
Outbox and FileTransfer say `Outbox` and `Transfer`.

**`PresenceProofs`.**
* `TypeCorrect`: the types, strengthened with `RecordedRoomExists` (the room a
  join is about to record was found in the registry).
* `WithinCapacity`: from the types and `OccupantsFinite`; only `JoinInsert` adds
  an occupant, under the guard of the same critical section.
* `SupersededKicked`: `AddClient` sets the kick in the step that takes the place.
* `SeatsAreRecorded`, `OneRoom`: these two are not inductive. `LoopInv` says what
  is true of a handler in the middle of its loop: the connection's user is one
  of its accounts (`AccountKept`), only a signed-in connection is in a handler
  (`HandlersAreAuthed`), and a room that is being dropped belongs to the loop
  that drops it (`DropInLoop`). `SeatInv` relates seats to it: a seat is held by
  a connection signed in as its user (`SeatOwned`), a room being dropped has no
  seat of the connection (`DroppedSeatGone`), and a join that is ready to insert has
  no seat left (`LeftBeforeJoin`). With `SeatsRecorded` itself these are
  inductive; `OneSeat` and `SeatedIsRegistered` then give `OneRoomPerUser`.
* `OnlyLateLeftovers`, for any number of buffered frames: with `SeatInv`, an entry of
  the registry belongs to a connection signed in as its user (`EntryOwned`), is gone
  once `RemoveClient` has run unless it is late (`EntryGone`), and a seat in a room
  that the scan has visited is on the scan's list and not yet dropped, unless it is
  late (`ScannedAreListed`).
* `RoomsAreSeats`, `RelaysStayInTheRoom`: `OwnSeats` says that a connection whose user
  nobody else is signed in as (`OwnUser`) has its seat in each of its rooms, but in the
  one its loop is at, and already while the join is to be recorded; `JoinedAreAuthed`
  that only a signed-in connection has rooms. What `peerClient` finds in the registry is
  then a member, and a member's own connection unless that is being torn down.
* `RegistryImplementsBook`: Presence implements Seats. `JoinInsert` is a `Sit`
  (`JoinIsSit`; the cap is tested in the same critical section), `LeaveMember` a
  `Leave`, `CreateRoom` a `Create`, and every other step leaves the book alone. It
  rests on `TypeCorrect` alone, and needs no assumption about who is signed in where.

**`RoomViewsProofs`.** What a page is going to show is fixed by the last message on its
way that is about the room, or about one member; `WillShow`, `WillList` and `WillCall`
say it, and two lemmas each say what sending a message, and taking one, does to them
(taking one changes nothing). With these, for each user and pair of users:
* `ShownInv` (`PagesShowTheirSeat`): a page whose user is in no handler is going to
  show its seat, unless it is stranded. A reader that goes on behind its clean-up belongs
  to a closed connection, and what shows in its page is stranded (`LostInv`).
* `ListInv` (`UndisturbedPagesListMembers`): it is going to list exactly the members of
  its room, but for those a handler or a clean-up has still to tell it about
  (`Pending`). While `room_joined` is being made its snapshot stands for the list
  (`Listed`). `EmptyInv` says that a page in no room is going to list nobody: a join
  from the lobby starts from there.
* `CallInv` (`SomebodyCalls`): one of two members is going to call the other, or is
  still to be told (`Coming`).

The attempt at `EmptyInv` found a page that leaves a room in which its user no longer
sits, resets itself, and is then told of that room's members by messages that were on
their way: it lists users while it shows no room. `LeaveOtherRoom` marks it as
`disturbed`.

**`RoomListProofs`.**
* `ListsAreCurrent` through `ViewInv`: what a handler has counted so far is so unless a
  change overtook it (`CountInv`), and a page that is not behind has the current list or
  is going to be sent it (`PageInv`). `RoomListTypeCorrect` says besides that a list
  names a room once.
* Of Outbox, `ChannelTypeCorrect` (no channel above its capacity, no clean-up that sends
  to its own connection) and `NoSilentLoss`.

**`ChatProofs`.**
* `TableIsSmall`: a prune leaves `MaxHistory` rows whatever order the database gives equal
  timestamps (`KeptIsSmall`), and each row that comes after it has its own prune to come.
* `AuthorsKeepTheirOrder`: `OrderInv` relates, of one author's live messages, those
  shown, those shown and on their way, and those on their way; a handler works on its
  user's newest message (`MsgOK`), so what it sends belongs at the end.
* `EveryMessageOnce` through `OnceInv`: a message posted after `room_joined` was made is
  either still with its handler or on its way or shown (`LiveInv`); an earlier one that
  was saved and is among the newest is, unless the load failed, in what `room_joined`
  brings or has brought (`OldInv`). `FreshInv` (no handler is at work on what a history
  covers) and `ResetInv` (what comes before `room_joined` is older than it) keep the two
  apart. `LoadedOnce` says that a load has each stored one of the newest once,
  `EdgeBack` that a message out of the newest does not come back among them.

**`SessionsProofs`.** `Types` has in it that a token belongs to an account and a
signed-in connection to its token's owner.
* `SessionsEndByLogoutOrExpiry`: `resume` deletes only what it has read as expired
  (`DeletedAreExpired`).
* `LateResumesFail`: an action property, from the types.
* `RegistryHoldsConnected`: inductive with the types.
* `SignedInComesBack`, `TabsConnectOnce`: `SocketInv` says that a tab's last socket is its
  own (`CurInv`) and that a tab that has not begun to connect twice has one timer or one
  socket that is not closing (`OneAttempt`).
* `PagesTellTheirUser`: `PageInv` says of a connection whose page still listens and that
  nothing of `odd` has happened to, that a frame is on its way or being handled, or its
  last answer shows (or the page shows) the user it is signed in as. `ConnInv` says what
  the two ends of a socket know of each other.

**`FilesProofs`.**
* `TypeCorrect`; `RowsAreWhole` through `RowInv` (a handler past its copy has a whole
  blob); `ShownFilesCanBeOpened` through `ShownInv` (what is shown has its row, so only
  a read that fails refuses it); `NothingIsOrphaned` through `OrphanInv` (a blob without
  a row has a handler that will record or remove it, or could not).
* `UploadsKeepFiles`: each step of UploadController is one of Files or leaves its
  variables alone, so these hold for the page and the server together
  (`UploadTypeCorrect` adds the page's types).
* `NothingLeftShown`, `UrlsAreRevoked` through `PreviewInv` (the preview shows the last
  URL that was made); `AnswersHold` through `AnswerInv`, which relates the server's
  answer to what became of the upload and the page's to the server's.

**`MediaControllerProofs`.**
* `MediaInv` for `ControlsAreRight`, `NothingOutsideARoom` and `MutedSendsNothing`: the
  streams are what is captured (`StreamInv`), the flags tell them (`ControlInv`), one
  microphone is what the mute button mutes unless there are two (`MuteInv`), and what is
  asked for outside a room was asked for in it (`OutsideInv`).
* `TileInv` for `SentVideoHasATile`: what is announced and runs has a tile.
* `SendersInv` for `SendersFollowCaptures`: the senders other than the microphone's send
  their own track; there is one for the microphone, and what it sends is right
  (`Steady`), or a replacement by the right track is on the connection's chain
  (`Underway`) or about to be put there (`Waiting`). `NoiseInv` ties it to the RNNoise
  graph.

**`WebRTCProofs`, negotiation.** A *spot* is a place in which an offer or answer waits
for a page: the operations of the connection's chain first, then the page's channel. A
spot is *live* if the signal is of the connection the other page has now.
* `NegotiationTypeCorrect`, with `PeerInv`: a connection that is gone has nothing on its
  chain and no state.
* `CandidatesAreTaken`: each remote description is followed by the flush.
* `AnswersAreAnswers` through `NegotiationInv`. Its first half, `Always`, holds whatever
  happens: `makingOffer` is set just as long as the operation is on the chain
  (`MakingOK`); `crossed` marks what it is meant to (`CrossedOK`); signals arrive in the
  order of the connections that made them (`FromOK`); a connection that was given no
  description has sent at most its offer (`FreshOK`), which is what a page that comes
  back starts from. The second half, `Agrees`, holds as long as no description has
  reached the wrong connection: a signal is what its label says (`LabelOK`); a live
  answer finds its offer pending and is alone (`AnswerOK`); while a page is in
  `have-remote-offer` nothing waits for it and the other waits for it (`ReplyOK`,
  `NoReplyOK`); a live offer is pending and the last signal, or has been rolled back
  by the polite page and will be ignored (`OfferOK`), which rests on the impolite page's
  taking an offer only when it has made none (`ImpoliteOK`); and a page that has sent an
  answer has nothing to take (`TurnOK`). Dropping any of these, a handler that was
  suspended in one of the awaits of `handleOffer` breaks another.
* `QuietPagesAgree` through `QuietInv`, which speaks of the signals that wait for a page
  as a set, without their places, and of those a close that is on its way will lose
  (`Doomed`). `NegotiationInv` is used through what it implies of that set (`Known`,
  `Matched`). Of the room: one of two members has a connection, or will be told to make
  one (`CallOK`), and one who is alone, or whose `room_joined` is still to come, will have
  none (`CleanOK`); before its `room_joined` the
  members who are there do not call it (`EnterOK`), and what waits for it is lost, as it
  is for one that will close (`Closing`). Of a connection,
  whatever happened: what it has sent is not behind a close unless it is itself going to
  be closed (`CutOK`, `PartnerOK`), the event has not been missed (`FiredOK`), and one
  that was made for an offer takes that offer first (`MadeOK`), and is new until then
  (`NewOK`, `FirstOK`). Of two connections that are each other's (`crossed` is empty): a
  pending offer waits for its page, or is being answered, or its answer waits, or the
  polite page's will be rolled back for the impolite page's (`PendingOK`); the two have
  finished the same exchange unless an answer waits (`ExchangeOK`); and an answer carries
  the version its sender has settled on, an offer the version its sender has offered
  (`GotOK`). When nothing waits, only the wanted cases are left (`QuietIsEnough`). A
  polite page's offer that the impolite one ignores is the only signal that may be lost
  without a close; since it was sent after any answer (`AnswerBeforeOffer`, from
  `OfferOK`), it was in vain only if that answer was at hand, which is `overlooked`.

**`WebRTCProofs`, files.** `BufferNeverOverruns` through `BufferInv`, which says how much
a sender may find where it stands: at most `MaxBuffer` when it reads, one more when it
pauses. `WholeFilesOnly` through `StreamInv`: the receiver's place, what is on the
wire, what is in the buffer and the sender's next chunk follow each other without a
gap (`InPlace`), so an end that arrives finds every chunk before it.

Only model-checked: liveness (`AskedIsClosed`, `PumpsEnd`, `BegunFilesArrive`), which
rests on fairness and is out of the prover's reach. What a recursive definition
computes for every input needs induction over data, which the installed provers cannot
do; no module here declares one.

## Not modelled

* In `webrtc.js`, capture constraints and the ICE agent itself: a connection that has
  negotiated may fail at any time, and `disconnected` has no handler.
* The end of a device that is unplugged, which the code does not listen for.
* `sendFile`: nothing in `app.js` calls it; FileTransfer models it as it would run.
* `allowMessage` (`client.go:172-182`): twelve lines that run to their end under one
  mutex. The window is fixed, so a burst on each side of its end passes.
* A room is never deleted: `maxRooms` counts all that were ever created. The upload
  handler's membership check is as old as the upload when the file is broadcast;
  Files has the stale check in it, and nothing promises more.
* `ui.js` beyond what it shows of members, messages, rooms, tiles and uploads; `icons.js`,
  `index.html`, `style.css`: layout.
* `protocol.go`, `port.go`, `domain.go`, `protocol.js`: declarations and the
  validation of lengths. `Session.Expired` is in Sessions.
* `bcrypt.go`: library calls; a token is a fresh value, a password right or wrong.
* `db.go`, `main.go` and the scripts: start-up and wiring.
* `static/vendor/noise-suppressor`: vendored.

## Plan

**An abstract channel** that delivers in order or closes, which Outbox implements, with
the refinement proved step by step as Presence's is.

## Running

    tlc -workers 2 -config PresenceTabs.cfg MCPresence
    tlapm PresenceProofs.tla

Each run takes between a second and two minutes. `PROJECT.json` lists the
runs, and for each property a mutant: a definition of the module and a faulty form of it
(`Mut...`, beside it) under which the property fails.
