------------------------- MODULE PerfectNegotiation -------------------------
(***************************************************************************)
(* Two members of a room negotiate their peer connection: WebRTCManager on *)
(* both pages and the hub that relays between them in order.  One may leave *)
(* the room and come back, and a connection may fail.                      *)
(*                                                                         *)
(* A page runs one handler at a time but yields at each await, and handlers *)
(* of several messages may be awaiting at once.  An RTCPeerConnection     *)
(* takes its operations off a chain one by one; only an operation at the   *)
(* head changes signalingState, when it completes.  What a handler does    *)
(* right after an await belongs to the step that completes the operation.  *)
(* The handlers that await a connection which is closed never go on.       *)
(*                                                                         *)
(* What a page sends is at the hub at once, and what the hub sends waits in *)
(* the page's channel.                                                     *)
(*                                                                         *)
(* A description is abstracted to the version of the local media in it and *)
(* the connection it is of; nothing in a real one tells the page that.     *)
(***************************************************************************)
EXTENDS Integers, SequencesExt

CONSTANTS
    Page,           \* the two pages
    Polite,         \* the one with the lower user ID
    MaxEvents,      \* bound: changes of a page's media, departures, and
                    \* connections that fail
    MoveCost,       \* how many changes one of the other two counts for
    MaxCandidates   \* bound: candidates the connections find

ASSUME NegotiationAssumption ==
    /\ Polite \in Page
    /\ \E q \in Page : Page = {Polite, q} /\ q # Polite
    /\ MaxEvents \in Nat /\ MoveCost \in Nat \ {0} /\ MaxCandidates \in Nat

VARIABLES
    seated,       \* the pages whose users have a seat in the room
    entering,     \* those of them whose room_joined has still to be sent
    telling,      \* members whom the other's join has still to be told
    showing,      \* the page shows the room
    events,
    peer,         \* the page has an entry in _peers
    life,         \* how many it has made
    control,      \* it has made a control channel on the present one
    media,        \* version of the page's tracks
    makingOffer, ignoreOffer,
    sig,          \* pc.signalingState
    fired,        \* the connection's [[NegotiationNeeded]] flag
    ops,          \* the connection's operations chain
    flushing,     \* handleOffer calls that await _flushPending
    offers,       \* offers the connection has created
    offered,      \* version of its media in its pending offer
    settled,      \* version of its media in the last negotiation it completed
    got,          \* version of the other's media it has applied
    exchange,     \* the offer that negotiation was about: <<page, life, number>>
    applying,     \* the offer whose answer is being made
    partner,      \* the other's connection that its descriptions are of
    described,    \* pc.remoteDescription is not null
    pending,      \* how many candidates are in _pending
    found,        \* candidates found so far
    channel,      \* messages on their way to the page
    overlooked,   \* history: the impolite page has ignored an offer although it
                  \* had the answer to its own at hand
    crossed,      \* history: pages whose connection was given a description of one
                  \* that is not at its other end, or is there no more
    uncalled      \* history: a connection has failed, or a user_joined has
                  \* overtaken its receiver's room_joined

roomVars  == <<seated, entering, telling, showing, events>>
mediaVars == <<media, found>>
pageVars  == <<peer, life, control, makingOffer, ignoreOffer, flushing>>
pcVars    == <<sig, fired, ops, offers, offered, settled, got, exchange, applying,
               partner>>
iceVars   == <<described, pending>>
history   == <<overlooked, crossed, uncalled>>
vars == <<roomVars, mediaVars, pageVars, pcVars, iceVars, channel, history>>

NoOffer == <<Polite, 0, 0>>
Version == 0..(MaxEvents + 1)
Offer   == Page \X Nat \X Nat

\* What send is called with: the message's type and what is in sdp, which need
\* not agree.
Signal == [type : {"offer", "answer"}, sdp : {"offer", "answer"},
           version : Version, from : Nat, offer : Offer]

Message == [type : {"ice_candidate", "user_joined", "user_left", "room_joined",
                    "elsewhere", "room_left"}]

\* setRemoteDescription of a signal, or setLocalDescription for one of the two
\* callers.
Operation == [set : {"remote"}, signal : Signal]
             \cup [set : {"local"}, by : {"onnegotiationneeded", "handleOffer"}]

TypeOK ==
    /\ seated \subseteq Page /\ entering \subseteq seated /\ telling \subseteq Page
    /\ showing \in [Page -> BOOLEAN]
    /\ events \in 0..MaxEvents
    /\ peer \in [Page -> BOOLEAN] /\ life \in [Page -> Nat]
    /\ control \in [Page -> BOOLEAN]
    /\ media \in [Page -> 0..MaxEvents]
    /\ makingOffer \in [Page -> BOOLEAN]
    /\ ignoreOffer \in [Page -> BOOLEAN]
    /\ sig \in [Page -> {"stable", "have-local-offer", "have-remote-offer"}]
    /\ fired \in [Page -> BOOLEAN]
    /\ \A p \in Page : \A i \in DOMAIN ops[p] : ops[p][i] \in Operation
    /\ flushing \in [Page -> Nat]
    /\ offers \in [Page -> Nat]
    /\ {offered, settled, got} \subseteq [Page -> Version]
    /\ {exchange, applying} \subseteq [Page -> Offer]
    /\ partner \in [Page -> Nat]
    /\ described \in [Page -> BOOLEAN]
    /\ pending \in [Page -> Nat]
    /\ found \in 0..MaxCandidates
    /\ \A p \in Page : \A i \in DOMAIN channel[p] :
           channel[p][i] \in Signal \cup Message
    /\ {overlooked, uncalled} \subseteq BOOLEAN /\ crossed \subseteq Page
    \* Only a connection that exists has operations.
    /\ \A p \in Page : ops[p] # <<>> => peer[p]

Init ==
    /\ seated = {} /\ entering = {} /\ telling = {}
    /\ showing = [p \in Page |-> FALSE]
    /\ events = 0
    /\ peer = [p \in Page |-> FALSE] /\ life = [p \in Page |-> 0]
    /\ control = [p \in Page |-> FALSE]
    /\ media = [p \in Page |-> 0]
    /\ makingOffer = [p \in Page |-> FALSE]
    /\ ignoreOffer = [p \in Page |-> FALSE]
    /\ sig = [p \in Page |-> "stable"]
    /\ fired = [p \in Page |-> FALSE]
    /\ ops = [p \in Page |-> <<>>]
    /\ flushing = [p \in Page |-> 0]
    /\ offers = [p \in Page |-> 0]
    /\ offered = [p \in Page |-> 0]
    /\ settled = [p \in Page |-> 0]
    /\ got = [p \in Page |-> 0]
    /\ exchange = [p \in Page |-> NoOffer]
    /\ applying = [p \in Page |-> NoOffer]
    /\ partner = [p \in Page |-> 0]
    /\ described = [p \in Page |-> FALSE]
    /\ pending = [p \in Page |-> 0]
    /\ found = 0
    /\ channel = [p \in Page |-> <<>>]
    /\ overlooked = FALSE /\ crossed = {} /\ uncalled = FALSE

-----------------------------------------------------------------------------
(* Helpers *)

Spend(cost) == events + cost <= MaxEvents /\ events' = events + cost

Other(p) == CHOOSE q \in Page : q # p

Tell(p, type) == [channel EXCEPT ![p] = Append(@, [type |-> type])]

\* ws.send, the hub's relay to a user of the same room, its writePump.
Send(p, m) == channel' = IF seated = Page
                         THEN [channel EXCEPT ![Other(p)] = Append(@, m)]
                         ELSE channel

Arrives(p, type) == channel[p] # <<>> /\ Head(channel[p]).type = type

Taken(p) == [channel EXCEPT ![p] = Tail(@)]

Chain(p, op) == ops' = [ops EXCEPT ![p] = Append(@, op)]

\* _createPeer, by a page that has no connection yet.
CreatePeer(p) ==
    /\ peer' = [peer EXCEPT ![p] = TRUE]
    /\ life' = [life EXCEPT ![p] = IF peer[p] THEN @ ELSE @ + 1]

\* The version of what a connection of p has to offer.
Media(p) == media[p] + (IF control[p] THEN 1 ELSE 0)

\* Candidates left in _pending when the connection is closed.
Kept(p) == IF peer[p] THEN 0 ELSE pending[p]

\* closePeer: all that the next connection does not have.
ClosePeer(p) ==
    /\ peer' = [peer EXCEPT ![p] = FALSE]
    /\ control' = [control EXCEPT ![p] = FALSE]
    /\ makingOffer' = [makingOffer EXCEPT ![p] = FALSE]
    /\ ignoreOffer' = [ignoreOffer EXCEPT ![p] = FALSE]
    /\ flushing' = [flushing EXCEPT ![p] = 0]
    /\ sig' = [sig EXCEPT ![p] = "stable"]
    /\ fired' = [fired EXCEPT ![p] = FALSE]
    /\ ops' = [ops EXCEPT ![p] = <<>>]
    /\ offers' = [offers EXCEPT ![p] = 0]
    /\ offered' = [offered EXCEPT ![p] = 0]
    /\ settled' = [settled EXCEPT ![p] = 0]
    /\ got' = [got EXCEPT ![p] = 0]
    /\ exchange' = [exchange EXCEPT ![p] = NoOffer]
    /\ applying' = [applying EXCEPT ![p] = NoOffer]
    /\ partner' = [partner EXCEPT ![p] = 0]
    /\ described' = [described EXCEPT ![p] = FALSE]
    /\ pending' = [pending EXCEPT ![p] = Kept(p)]
    /\ overlooked' = FALSE
    /\ crossed' = (crossed \ {p}) \cup
                    {q \in {Other(p)} : peer[p] /\ peer[q] /\ partner[q] = life[p]}
    /\ UNCHANGED life

\* closeAll also stops the page's own tracks.
CloseAll(p) == ClosePeer(p) /\ media' = [media EXCEPT ![p] = 0]

\* handleOffer's collision.
MutCollides(p) == sig[p] # "stable"
Collides(p) == makingOffer[p] \/ sig[p] # "stable"

\* handleAnswer's guard, and what it once was (webrtc.js:154-158).
MutExpectsAnswer(p) == sig[p] = "have-local-offer" /\ ~ignoreOffer[p]
ExpectsAnswer(p) == sig[p] = "have-local-offer"

\* Candidates left after setRemoteDescription by the handler of this message.
MutUnflushed(p, type) == IF type = "answer" THEN pending[p] ELSE 0
Unflushed(p, type) == 0

\* The signal whose setRemoteDescription is at the head of the chain.
Signals(p) ==
    {ops[p][i].signal :
         i \in {j \in DOMAIN ops[p] : j = 1 /\ ops[p][j].set = "remote"}}

AnswerAtHand(p) == \E i \in DOMAIN ops[p] :
    ops[p][i].set = "remote" /\ ops[p][i].signal.sdp = "answer"

\* A description is of the connection at the other end: both pages show the room, it
\* is of the connection that has sent the others this one was given, and it answers
\* an offer of this one.
Belongs(p, m) ==
    /\ \A q \in Page : showing[q] /\ peer[q]
    /\ m.from = life[Other(p)]
    /\ partner[p] \in {0, m.from}
    /\ m.sdp = "answer" => m.offer[1] = p /\ m.offer[2] = life[p]

\* setLocalDescription makes an offer, or, in have-remote-offer, an answer.
MakesOffer(p) == sig[p] # "have-remote-offer"

-----------------------------------------------------------------------------
(* The room *)

\* A track is added to or removed from the stream and every connection.
ChangeMedia(p) ==
    /\ showing[p]
    /\ Spend(1)
    /\ media' = [media EXCEPT ![p] = @ + 1]
    /\ UNCHANGED <<seated, entering, telling, showing, found, pageVars, pcVars, iceVars,
                   channel, history>>

\* The hub's handler of the other's join comes to its end.
TellJoined(p) ==
    /\ p \in telling /\ Other(p) \notin entering
    /\ telling' = telling \ {p}
    /\ channel' = Tell(p, "user_joined")
    /\ uncalled' = (uncalled \/ p \in entering)
    /\ UNCHANGED <<seated, entering, showing, events, mediaVars, pageVars, pcVars,
                   iceVars, overlooked, crossed>>

\* p gives its seat up: the other is told, and p hears of it.  Its join was told
\* before that, to both, by the handler of p's frame before this one.
GiveUpSeat(p, reply) ==
    /\ Spend(MoveCost)
    /\ p \in seated /\ showing[p]
    /\ p \notin entering /\ Other(p) \notin telling
    /\ seated' = seated \ {p}
    /\ channel' = [q \in Page |->
           IF q = p THEN Append(channel[p], [type |-> reply])
           ELSE IF q \in seated THEN Append(channel[q], [type |-> "user_left"])
           ELSE channel[q]]
    /\ UNCHANGED <<entering, telling, found, uncalled>>

\* btn-leave: the page does not wait for room_left.
LeaveRoom(p) ==
    /\ GiveUpSeat(p, "room_left")
    /\ showing' = [showing EXCEPT ![p] = FALSE]
    /\ CloseAll(p)

\* A click on another room: the page waits for room_joined.
JoinElsewhere(p) ==
    /\ GiveUpSeat(p, "elsewhere")
    /\ UNCHANGED <<showing, media, pageVars, pcVars, iceVars, overlooked, crossed>>

\* A click on this room, which the page does not show: Registry.Join.
TakeSeat(p) ==
    /\ p \notin seated /\ ~showing[p]
    /\ seated' = seated \cup {p}
    /\ entering' = entering \cup {p}
    /\ telling' = telling \cup seated
    /\ UNCHANGED <<showing, events, mediaVars, pageVars, pcVars, iceVars, channel,
                   history>>

\* The hub has loaded the history, outside of the room's lock.
SendRoomJoined(p) ==
    /\ p \in entering
    /\ entering' = entering \ {p}
    /\ channel' = Tell(p, "room_joined")
    /\ UNCHANGED <<seated, telling, showing, events, mediaVars, pageVars, pcVars,
                   iceVars, history>>

\* user_joined: initiatePeer.
InitiatePeer(p) ==
    /\ Arrives(p, "user_joined")
    /\ channel' = Taken(p)
    /\ CreatePeer(p)
    /\ control' = [control EXCEPT ![p] = @ \/ ~peer[p]]
    /\ UNCHANGED <<roomVars, mediaVars, makingOffer, ignoreOffer, flushing, pcVars,
                   iceVars, history>>

OnUserLeft(p) ==
    /\ Arrives(p, "user_left")
    /\ channel' = Taken(p)
    /\ ClosePeer(p)
    /\ UNCHANGED <<roomVars, mediaVars, uncalled>>

\* room_joined, of this room or another one, and room_left.
OnRoomChange(p) ==
    /\ \E type \in {"room_joined", "elsewhere", "room_left"} :
           /\ Arrives(p, type)
           /\ showing' = [showing EXCEPT ![p] = type = "room_joined"]
    /\ channel' = Taken(p)
    /\ CloseAll(p)
    /\ UNCHANGED <<seated, entering, telling, events, found, uncalled>>

\* connectionState becomes "failed".
ConnectionFails(p) ==
    /\ Spend(MoveCost)
    /\ exchange[p] # NoOffer
    /\ ClosePeer(p)
    /\ uncalled' = TRUE
    /\ UNCHANGED <<seated, entering, telling, showing, mediaVars, channel>>

-----------------------------------------------------------------------------
(* The connection *)

\* The event fires in a stable connection with an empty chain, once.
OnNegotiationNeeded(p) ==
    /\ peer[p] /\ ops[p] = <<>> /\ sig[p] = "stable"
    /\ ~fired[p] /\ settled[p] < Media(p)
    /\ fired' = [fired EXCEPT ![p] = TRUE]
    /\ makingOffer' = [makingOffer EXCEPT ![p] = TRUE]
    /\ Chain(p, [set |-> "local", by |-> "onnegotiationneeded"])
    /\ UNCHANGED <<roomVars, mediaVars, peer, life, control, ignoreOffer, flushing,
                   sig, offers, offered, settled, got, exchange, applying, partner,
                   iceVars, channel, history>>

Label(op) == IF op.by = "handleOffer" THEN "answer" ELSE "offer"

\* The caller then sends pc.localDescription, under the type it meant it for.
SetLocal(p) ==
    /\ ops[p] # <<>> /\ Head(ops[p]).set = "local"
    /\ ops' = [ops EXCEPT ![p] = Tail(@)]
    /\ makingOffer' = [makingOffer EXCEPT
                           ![p] = @ /\ Head(ops[p]).by = "handleOffer"]
    /\ UNCHANGED <<roomVars, mediaVars, peer, life, control, ignoreOffer, flushing,
                   got, applying, partner, iceVars, history>>

SetLocalOffer(p) ==
    /\ SetLocal(p)
    /\ MakesOffer(p)
    /\ sig' = [sig EXCEPT ![p] = "have-local-offer"]
    /\ offers' = [offers EXCEPT ![p] = @ + 1]
    /\ offered' = [offered EXCEPT ![p] = Media(p)]
    /\ Send(p, [type |-> Label(Head(ops[p])), sdp |-> "offer",
                version |-> Media(p), from |-> life[p],
                offer |-> <<p, life[p], offers[p] + 1>>])
    /\ UNCHANGED <<fired, settled, exchange>>

\* An answer may have room for what is new on this side, or may not.
SetLocalAnswer(p) ==
    /\ SetLocal(p)
    /\ ~MakesOffer(p)
    /\ sig' = [sig EXCEPT ![p] = "stable"]
    /\ fired' = [fired EXCEPT ![p] = FALSE]
    /\ exchange' = [exchange EXCEPT ![p] = applying[p]]
    /\ \E v \in {settled[p], Media(p)} :
           /\ settled' = [settled EXCEPT ![p] = v]
           /\ Send(p, [type |-> Label(Head(ops[p])), sdp |-> "answer",
                       version |-> v, from |-> life[p], offer |-> applying[p]])
    /\ UNCHANGED <<offers, offered>>

SetRemote(p, m) ==
    /\ m \in Signals(p)
    /\ ops' = [ops EXCEPT ![p] = Tail(@)]
    /\ crossed' = IF Belongs(p, m) THEN crossed ELSE crossed \cup {p}
    /\ UNCHANGED <<roomVars, mediaVars, peer, life, control, makingOffer, ignoreOffer,
                   offers, offered, channel, uncalled>>

\* An offer rolls a pending local one back; the handler goes on to flush.
SetRemoteOffer(p, m) ==
    /\ SetRemote(p, m)
    /\ m.sdp = "offer"
    /\ sig' = [sig EXCEPT ![p] = "have-remote-offer"]
    /\ got' = [got EXCEPT ![p] = m.version]
    /\ applying' = [applying EXCEPT ![p] = m.offer]
    /\ partner' = [partner EXCEPT ![p] = m.from]
    /\ described' = [described EXCEPT ![p] = TRUE]
    /\ pending' = [pending EXCEPT ![p] = Unflushed(p, m.type)]
    /\ flushing' = [flushing EXCEPT ![p] = IF m.type = "offer" THEN @ + 1 ELSE @]
    /\ overlooked' = (overlooked /\ p # Polite)
    /\ UNCHANGED <<fired, settled, exchange>>

SetRemoteAnswer(p, m) ==
    /\ SetRemote(p, m)
    /\ m.sdp = "answer" /\ sig[p] = "have-local-offer"
    /\ sig' = [sig EXCEPT ![p] = "stable"]
    /\ fired' = [fired EXCEPT ![p] = FALSE]
    /\ settled' = [settled EXCEPT ![p] = offered[p]]
    /\ got' = [got EXCEPT ![p] = m.version]
    /\ exchange' = [exchange EXCEPT ![p] = m.offer]
    /\ partner' = [partner EXCEPT ![p] = m.from]
    /\ described' = [described EXCEPT ![p] = TRUE]
    /\ pending' = [pending EXCEPT ![p] = Unflushed(p, m.type)]
    /\ UNCHANGED <<flushing, applying, overlooked>>

\* A connection may refuse the description of another one, or an answer that comes
\* out of turn; the handler's promise is rejected.
SetRemoteFails(p, m) ==
    /\ SetRemote(p, m)
    /\ \/ ~Belongs(p, m)
       \/ crossed # {} /\ m.sdp = "answer" /\ sig[p] # "have-local-offer"
    /\ UNCHANGED <<flushing, sig, fired, settled, got, exchange, applying, partner,
                   iceVars, overlooked>>

\* _flushPending is through.
Reply(p) ==
    /\ flushing[p] > 0
    /\ flushing' = [flushing EXCEPT ![p] = @ - 1]
    /\ Chain(p, [set |-> "local", by |-> "handleOffer"])
    /\ UNCHANGED <<roomVars, mediaVars, peer, life, control, makingOffer, ignoreOffer,
                   sig, fired, offers, offered, settled, got, exchange, applying,
                   partner, iceVars, channel, history>>

\* A connection with a local description finds a candidate.
OnIceCandidate(p) ==
    /\ found < MaxCandidates
    /\ sig[p] = "have-local-offer" \/ exchange[p] # NoOffer
    /\ found' = found + 1
    /\ Send(p, [type |-> "ice_candidate"])
    /\ UNCHANGED <<roomVars, media, pageVars, pcVars, iceVars, history>>

-----------------------------------------------------------------------------
(* Signals that arrive *)

\* handleOffer up to its first await.  A page without a connection makes one.
HandleOffer(p) ==
    /\ Arrives(p, "offer")
    /\ LET m       == Head(channel[p])
           ignored == p # Polite /\ m.sdp = "offer" /\ Collides(p)
       IN  /\ ignoreOffer' = [ignoreOffer EXCEPT ![p] = ignored]
           /\ IF ignored THEN UNCHANGED ops
              ELSE Chain(p, [set |-> "remote", signal |-> m])
           /\ overlooked' = (overlooked \/ (ignored /\ AnswerAtHand(p)))
    /\ channel' = Taken(p)
    /\ CreatePeer(p)
    /\ UNCHANGED <<roomVars, mediaVars, control, makingOffer, flushing, sig, fired,
                   offers, offered, settled, got, exchange, applying, partner,
                   iceVars, crossed, uncalled>>

\* handleAnswer up to its first await.
HandleAnswer(p) ==
    /\ Arrives(p, "answer")
    /\ IF peer[p] /\ ExpectsAnswer(p)
       THEN Chain(p, [set |-> "remote", signal |-> Head(channel[p])])
       ELSE UNCHANGED ops
    /\ channel' = Taken(p)
    /\ UNCHANGED <<roomVars, mediaVars, pageVars, sig, fired, offers, offered,
                   settled, got, exchange, applying, partner, iceVars, history>>

\* A candidate before the first remote description waits in _pending, also that of
\* a connection which is closed on this side.
HandleICECandidate(p) ==
    /\ Arrives(p, "ice_candidate")
    /\ channel' = Taken(p)
    /\ pending' = [pending EXCEPT ![p] = IF described[p] THEN @ ELSE @ + 1]
    /\ UNCHANGED <<roomVars, mediaVars, pageVars, pcVars, described, history>>

-----------------------------------------------------------------------------
Step(p) ==
    \/ TakeSeat(p) \/ SendRoomJoined(p) \/ TellJoined(p)
    \/ LeaveRoom(p) \/ JoinElsewhere(p)
    \/ ChangeMedia(p) \/ InitiatePeer(p)
    \/ OnUserLeft(p) \/ OnRoomChange(p) \/ ConnectionFails(p)
    \/ OnNegotiationNeeded(p) \/ SetLocalOffer(p) \/ SetLocalAnswer(p)
    \/ \E m \in Signals(p) : \/ SetRemoteOffer(p, m) \/ SetRemoteAnswer(p, m)
                             \/ SetRemoteFails(p, m)
    \/ Reply(p) \/ OnIceCandidate(p)
    \/ HandleOffer(p) \/ HandleAnswer(p) \/ HandleICECandidate(p)

\* Nothing awaits, nothing is on the way, and no connection needs to negotiate.
Quiet ==
    /\ entering = {} /\ telling = {}
    /\ \A p \in Page :
           /\ channel[p] = <<>> /\ ops[p] = <<>> /\ flushing[p] = 0
           /\ peer[p] /\ sig[p] = "stable" => fired[p] \/ settled[p] = Media(p)

Resting == Quiet /\ UNCHANGED vars

Next == (\E p \in Page : Step(p)) \/ Resting

Spec == Init /\ [][Next]_vars

-----------------------------------------------------------------------------
(* Properties *)

Connected(p) ==
    /\ peer[p] /\ sig[p] = "stable"
    /\ partner[p] = life[Other(p)]
    /\ exchange[p] = exchange[Other(p)]
    /\ got[p] = Media(Other(p))

\* The point of the pattern (webrtc.js:2-4): when all is quiet, both members are
\* stable, in the connections they have now, have finished the same exchange last,
\* and each has received the other's media as it is now, whoever offered when and
\* has left and come back; and no member has a connection to a user who is gone.  Four
\* things break this.  The impolite side may take an offer for a collision although
\* it has the answer to its own at hand and is only waiting for
\* setRemoteDescription: nobody offers again until its media change.  Signals do not
\* say which connection they are of, and one of a connection that was closed may
\* reach its successor.  Nobody calls again after a connection has failed.
\* And nobody calls again when one page comes in while the hub is still loading the
\* history for the other: the user_joined is sent first, and room_joined then closes
\* the connection that was made for it.
QuietIsAgreed ==
    Quiet /\ ~overlooked /\ crossed = {} /\ ~uncalled => \A p \in Page :
        IF seated = Page THEN Connected(p) ELSE p \in seated => ~peer[p]

\* What is sent as an answer is one: setLocalDescription takes its type from the
\* state in which it runs, which is after two awaits of handleOffer.  And an answer
\* of the connection at the other end finds the offer it is for still pending.
AnswersAnswer ==
    crossed = {} => \A p \in Page :
        /\ \A m \in Range(channel[p]) \cap Signal :
               peer[Other(p)] /\ m.from = life[Other(p)] => m.type = m.sdp
        /\ \A m \in Signals(p) :
               m.sdp = "answer" /\ Belongs(p, m) =>
                   /\ sig[p] = "have-local-offer"
                   /\ m.offer = <<p, life[p], offers[p]>>

\* No candidate stays in the buffer of a connection that could take it
\* (webrtc.js:172-173, 409-411).
NoCandidateIsStuck ==
    \A p \in Page : described[p] => pending[p] = 0

=============================================================================
