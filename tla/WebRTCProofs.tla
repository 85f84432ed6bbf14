---------------------------- MODULE WebRTCProofs ----------------------------
(***************************************************************************)
(* Theorems about the connection between two pages: what its negotiation   *)
(* sends as an answer is one and answers the offer that is pending, for    *)
(* any number of changes, departures, candidates and connections that      *)
(* fail (module PerfectNegotiation); and the files that go over its        *)
(* channels arrive whole and never overrun a buffer, for any files, sizes  *)
(* and thresholds (module FileTransfer).                                   *)
(***************************************************************************)
EXTENDS PerfectNegotiation, FileTransfer, TLAPS

LEMMA TwoPages ==
    ASSUME NEW p \in Page
    PROVE  /\ Other(p) \in Page /\ Other(p) # p /\ Other(Other(p)) = p
           /\ \A q \in Page : q = p \/ q = Other(p)
<1>1. PICK q \in Page : Page = {Polite, q} /\ q # Polite
    BY NegotiationAssumption
<1>2. \A r \in Page : Other(r) \in Page /\ Other(r) # r
  <2> TAKE r \in Page
  <2>1. \E s \in Page : s # r
      BY <1>1
  <2> QED
      BY <2>1 DEF Other
<1> QED
    BY <1>1, <1>2

(***************************************************************************)
(* Types.                                                                  *)
(***************************************************************************)
RoomTypes ==
    /\ seated \subseteq Page /\ entering \subseteq seated /\ telling \subseteq Page
    /\ showing \in [Page -> BOOLEAN]
    /\ events \in 0..MaxEvents
    /\ media \in [Page -> 0..MaxEvents]
    /\ \A p \in Page : media[p] <= events
    /\ found \in 0..MaxCandidates
    /\ control \in [Page -> BOOLEAN]
    /\ ignoreOffer \in [Page -> BOOLEAN]
    /\ overlooked \in BOOLEAN /\ uncalled \in BOOLEAN /\ crossed \subseteq Page

PcTypes ==
    /\ peer \in [Page -> BOOLEAN] /\ life \in [Page -> Nat]
    /\ makingOffer \in [Page -> BOOLEAN]
    /\ sig \in [Page -> {"stable", "have-local-offer", "have-remote-offer"}]
    /\ fired \in [Page -> BOOLEAN]
    /\ flushing \in [Page -> Nat] /\ offers \in [Page -> Nat]
    /\ offered \in [Page -> Version] /\ settled \in [Page -> Version]
    /\ got \in [Page -> Version]
    /\ exchange \in [Page -> Offer] /\ applying \in [Page -> Offer]
    /\ partner \in [Page -> Nat]
    /\ described \in [Page -> BOOLEAN] /\ pending \in [Page -> Nat]

QueueTypes ==
    /\ ops \in [Page -> Seq(Operation)]
    /\ channel \in [Page -> Seq(Signal \cup Message)]

Types == RoomTypes /\ PcTypes /\ QueueTypes

\* A connection that is not there has nothing; one that is there has a number.
Idle(p) ==
    /\ partner[p] = 0 /\ ops[p] = <<>> /\ flushing[p] = 0 /\ sig[p] = "stable"
    /\ offers[p] = 0 /\ ~makingOffer[p]

PeerInv == \A p \in Page : IF peer[p] THEN life[p] >= 1 ELSE Idle(p)

LEMMA MediaType ==
    ASSUME Types, NEW p \in Page
    PROVE  Media(p) \in Version
<1>1. media[p] \in 0..MaxEvents /\ MaxEvents \in Nat
    BY NegotiationAssumption DEF Types, RoomTypes
<1>2. Media(p) = media[p] \/ Media(p) = media[p] + 1
    BY <1>1 DEF Media
<1> QED
    BY <1>1, <1>2 DEF Version

LEMMA SignalFacts ==
    ASSUME Types, NEW p \in Page, NEW m \in Signals(p)
    PROVE  /\ m \in Signal /\ ops[p] # <<>> /\ 1 \in DOMAIN ops[p]
           /\ ops[p][1].set = "remote" /\ ops[p][1].signal = m
           /\ ops[p][1] = Head(ops[p])
<1>1. PICK i \in DOMAIN ops[p] :
          i = 1 /\ ops[p][i].set = "remote" /\ m = ops[p][i].signal
    BY DEF Signals
<1>2. ops[p] \in Seq(Operation)
    BY DEF Types, QueueTypes
<1>3. ops[p][1] \in Operation
    BY <1>1, <1>2
<1>4. m \in Signal
    BY <1>1, <1>3 DEF Operation
<1> QED
    BY <1>1, <1>2, <1>4

LEMMA NegotiationInitTypes == Init => Types /\ PeerInv
<1> SUFFICES ASSUME Init PROVE Types /\ PeerInv
    OBVIOUS
<1>1. 0 \in 0..MaxEvents /\ 0 \in 0..MaxCandidates /\ 0 \in Version
    BY NegotiationAssumption DEF Version
<1>2. NoOffer \in Offer
    BY NegotiationAssumption DEF NoOffer, Offer
<1>3. RoomTypes
  <2>1. /\ seated \subseteq Page /\ entering \subseteq seated
        /\ telling \subseteq Page /\ crossed \subseteq Page
        /\ overlooked \in BOOLEAN /\ uncalled \in BOOLEAN
      BY Zenon DEF Init
  <2>2. /\ events \in 0..MaxEvents /\ media \in [Page -> 0..MaxEvents]
        /\ \A p \in Page : media[p] <= events
        /\ found \in 0..MaxCandidates
      BY <1>1 DEF Init
  <2>3. /\ showing \in [Page -> BOOLEAN] /\ control \in [Page -> BOOLEAN]
        /\ ignoreOffer \in [Page -> BOOLEAN]
      BY DEF Init
  <2> QED
      BY <2>1, <2>2, <2>3 DEF RoomTypes
<1>4. PcTypes
    BY <1>1, <1>2 DEF Init, PcTypes
<1>5. QueueTypes
    BY DEF Init, QueueTypes
<1>6. PeerInv
    BY DEF Init, PeerInv, Idle
<1> QED
    BY <1>3, <1>4, <1>5, <1>6 DEF Types

LEMMA MessageTypes ==
    /\ \A t \in {"ice_candidate", "user_joined", "user_left", "room_joined",
                 "elsewhere", "room_left"} : [type |-> t] \in Message
    /\ \A m \in Message : m.type \notin {"offer", "answer"}
    /\ \A m \in Signal : m.type \in {"offer", "answer"}
BY DEF Message, Signal

LEMMA SendTypes ==
    ASSUME Types, NEW p \in Page, NEW m \in Signal \cup Message, Send(p, m)
    PROVE  channel' \in [Page -> Seq(Signal \cup Message)]
<1>1. Other(p) \in Page
    BY TwoPages
<1>2. Append(channel[Other(p)], m) \in Seq(Signal \cup Message)
    BY <1>1 DEF Types, QueueTypes
<1> QED
    BY <1>1, <1>2 DEF Send, Types, QueueTypes

LEMMA TellTypes ==
    ASSUME Types, NEW p \in Page,
           NEW t \in {"ice_candidate", "user_joined", "user_left", "room_joined",
                      "elsewhere", "room_left"}
    PROVE  Append(channel[p], [type |-> t]) \in Seq(Signal \cup Message)
BY MessageTypes DEF Types, QueueTypes

LEMMA TakenTypes ==
    ASSUME Types, NEW p \in Page, channel[p] # <<>>
    PROVE  /\ Taken(p) \in [Page -> Seq(Signal \cup Message)]
           /\ Head(channel[p]) \in Signal \cup Message
<1>1. channel[p] \in Seq(Signal \cup Message)
    BY DEF Types, QueueTypes
<1>2. Tail(channel[p]) \in Seq(Signal \cup Message)
      /\ Head(channel[p]) \in Signal \cup Message
    BY <1>1
<1> QED
    BY <1>2 DEF Taken, Types, QueueTypes

LEMMA ChainTypes ==
    ASSUME Types, NEW p \in Page, NEW op \in Operation, Chain(p, op)
    PROVE  /\ ops' \in [Page -> Seq(Operation)]
           /\ ops'[p] = Append(ops[p], op) /\ ops'[p] # <<>>
           /\ \A q \in Page \ {p} : ops'[q] = ops[q]
<1>1. /\ ops[p] \in Seq(Operation) /\ Append(ops[p], op) \in Seq(Operation)
      /\ Append(ops[p], op) # <<>>
    BY DEF Types, QueueTypes
<1> QED
    BY <1>1 DEF Chain, Types, QueueTypes

LEMMA TailTypes ==
    ASSUME Types, NEW p \in Page, ops[p] # <<>>,
           ops' = [ops EXCEPT ![p] = Tail(@)]
    PROVE  /\ ops' \in [Page -> Seq(Operation)]
           /\ ops'[p] = Tail(ops[p])
           /\ \A q \in Page \ {p} : ops'[q] = ops[q]
<1>1. ops[p] \in Seq(Operation) /\ Tail(ops[p]) \in Seq(Operation)
    BY DEF Types, QueueTypes
<1> QED
    BY <1>1 DEF Types, QueueTypes

\* closePeer leaves an idle page, and the other page's connection alone.
LEMMA CloseTypes ==
    ASSUME Types, PeerInv, NEW p \in Page, ClosePeer(p)
    PROVE  /\ PcTypes' /\ ops' \in [Page -> Seq(Operation)]
           /\ control' \in [Page -> BOOLEAN] /\ ignoreOffer' \in [Page -> BOOLEAN]
           /\ overlooked' \in BOOLEAN /\ crossed' \subseteq Page
           /\ PeerInv'
<1>1. NoOffer \in Offer /\ 0 \in Version
    BY NegotiationAssumption DEF NoOffer, Offer, Version
<1>2. PcTypes'
  <2>1. Kept(p) \in Nat
      BY DEF Kept, Types, PcTypes
  <2> QED
      BY <1>1, <2>1 DEF ClosePeer, Types, PcTypes
<1>3. ops' \in [Page -> Seq(Operation)]
    BY DEF ClosePeer, Types, QueueTypes
<1>4. control' \in [Page -> BOOLEAN] /\ ignoreOffer' \in [Page -> BOOLEAN]
    BY DEF ClosePeer, Types, RoomTypes
<1>5. overlooked' \in BOOLEAN /\ crossed' \subseteq Page
  <2>1. Other(p) \in Page
      BY TwoPages
  <2>2. overlooked' \in BOOLEAN
      BY DEF ClosePeer
  <2>3. crossed' \subseteq Page
      BY <2>1 DEF ClosePeer, Types, RoomTypes
  <2> QED
      BY <2>2, <2>3
<1>6. PeerInv'
  <2> SUFFICES ASSUME NEW q \in Page
               PROVE  IF peer'[q] THEN life'[q] >= 1 ELSE Idle(q)'
      BY DEF PeerInv
  <2>1. CASE q = p
      BY <2>1 DEF ClosePeer, Idle, Types, PcTypes, QueueTypes
  <2>2. CASE q # p
      BY <2>2 DEF ClosePeer, Idle, PeerInv, Types, PcTypes, QueueTypes
  <2> QED
      BY <2>1, <2>2
<1> QED
    BY <1>2, <1>3, <1>4, <1>5, <1>6

LEMMA CreateTypes ==
    ASSUME Types, NEW p \in Page, CreatePeer(p)
    PROVE  /\ peer' \in [Page -> BOOLEAN] /\ life' \in [Page -> Nat]
           /\ peer'[p] /\ \A q \in Page \ {p} : peer'[q] = peer[q] /\ life'[q] = life[q]
           /\ life'[p] = IF peer[p] THEN life[p] ELSE life[p] + 1
           /\ peer[p] => peer' = peer /\ life' = life
BY DEF CreatePeer, Types, PcTypes

LEMMA RoomStepTypes ==
    ASSUME Types, PeerInv, NEW p \in Page,
           \/ ChangeMedia(p) \/ TakeSeat(p) \/ SendRoomJoined(p) \/ TellJoined(p)
           \/ LeaveRoom(p) \/ JoinElsewhere(p) \/ OnUserLeft(p) \/ OnRoomChange(p)
           \/ ConnectionFails(p)
    PROVE  Types' /\ PeerInv'
<1>1. ASSUME NEW n \in Nat \ {0}, Spend(n)
      PROVE  events' \in 0..MaxEvents /\ events < events'
    BY <1>1, NegotiationAssumption DEF Spend, Types, RoomTypes
<1>2. CASE ChangeMedia(p)
  <2>1. events' \in 0..MaxEvents /\ events' = events + 1
      BY <1>1, <1>2 DEF ChangeMedia, Spend
  <2>2. media[p] + 1 \in 0..MaxEvents /\ media[p] + 1 <= events'
      BY <2>1, NegotiationAssumption DEF Types, RoomTypes
  <2>3. media' = [media EXCEPT ![p] = media[p] + 1]
      BY <1>2 DEF ChangeMedia
  <2>4. media' \in [Page -> 0..MaxEvents] /\ \A q \in Page : media'[q] <= events'
      BY <2>1, <2>2, <2>3 DEF Types, RoomTypes
  <2>5. RoomTypes'
      BY <1>2, <2>1, <2>4 DEF ChangeMedia, RoomTypes, Types, pageVars, history
  <2>6. PcTypes' /\ QueueTypes' /\ PeerInv'
      BY <1>2 DEF ChangeMedia, Types, PcTypes, QueueTypes, PeerInv, Idle, pageVars,
                  pcVars, iceVars
  <2> QED
      BY <2>5, <2>6 DEF Types
<1>3. CASE TellJoined(p)
  <2>1. channel' = [channel EXCEPT ![p] = Append(channel[p], [type |-> "user_joined"])]
      BY <1>3 DEF TellJoined, Tell
  <2>2. QueueTypes'
      BY <1>3, <2>1, TellTypes
      DEF TellJoined, Types, QueueTypes, pcVars
  <2>3. RoomTypes'
      BY <1>3 DEF TellJoined, RoomTypes, Types, mediaVars, pageVars, history
  <2>4. PcTypes' /\ PeerInv'
      BY <1>3 DEF TellJoined, Types, PcTypes, PeerInv, Idle, pageVars, pcVars,
                  iceVars
  <2> QED
      BY <2>2, <2>3, <2>4 DEF Types
<1>4. CASE SendRoomJoined(p)
  <2>1. channel' = [channel EXCEPT ![p] = Append(channel[p], [type |-> "room_joined"])]
      BY <1>4 DEF SendRoomJoined, Tell
  <2>2. QueueTypes'
      BY <1>4, <2>1, TellTypes DEF SendRoomJoined, Types, QueueTypes, pcVars
  <2>3. RoomTypes'
      BY <1>4 DEF SendRoomJoined, RoomTypes, Types, mediaVars, pageVars, history
  <2>4. PcTypes' /\ PeerInv'
      BY <1>4 DEF SendRoomJoined, Types, PcTypes, PeerInv, Idle, pageVars, pcVars,
                  iceVars
  <2> QED
      BY <2>2, <2>3, <2>4 DEF Types
<1>12. CASE TakeSeat(p)
  <2>1. QueueTypes'
      BY <1>12 DEF TakeSeat, Types, QueueTypes, pcVars
  <2>2. RoomTypes'
      BY <1>12 DEF TakeSeat, RoomTypes, Types, mediaVars, pageVars, history
  <2>3. PcTypes' /\ PeerInv'
      BY <1>12 DEF TakeSeat, Types, PcTypes, PeerInv, Idle, pageVars, pcVars, iceVars
  <2> QED
      BY <2>1, <2>2, <2>3 DEF Types
<1>5. ASSUME NEW t \in {"room_left", "elsewhere"}, GiveUpSeat(p, t)
      PROVE  /\ channel' \in [Page -> Seq(Signal \cup Message)]
             /\ events' \in 0..MaxEvents /\ events < events'
             /\ seated' \subseteq Page /\ entering' \subseteq seated'
             /\ telling' = telling /\ found' = found
             /\ uncalled' = uncalled
  <2>1. \A q \in Page : channel'[q] \in Seq(Signal \cup Message)
    <3> TAKE q \in Page
    <3>1. channel'[q] \in {Append(channel[q], [type |-> t]), channel[q],
                           Append(channel[q], [type |-> "user_left"])}
        BY <1>5 DEF GiveUpSeat
    <3> QED
        BY <3>1, TellTypes DEF Types, QueueTypes
  <2>2. channel' = [q \in Page |-> channel'[q]]
      BY <1>5 DEF GiveUpSeat
  <2>3. channel' \in [Page -> Seq(Signal \cup Message)]
      BY <2>1, <2>2
  <2>4. events' \in 0..MaxEvents /\ events < events'
      BY <1>1, <1>5, NegotiationAssumption DEF GiveUpSeat
  <2> QED
      BY <1>5, <2>3, <2>4 DEF GiveUpSeat, Types, RoomTypes
<1>6. CASE JoinElsewhere(p)
  <2>1. \A q \in Page : media[q] <= events'
      BY <1>5, <1>6, NegotiationAssumption DEF JoinElsewhere, Types, RoomTypes
  <2>2. RoomTypes'
      BY <1>5, <1>6, <2>1 DEF JoinElsewhere, RoomTypes, Types, pageVars
  <2>3. PcTypes' /\ PeerInv' /\ QueueTypes'
      BY <1>5, <1>6 DEF JoinElsewhere, Types, PcTypes, PeerInv, Idle, pageVars,
                        pcVars, iceVars, QueueTypes
  <2> QED
      BY <2>2, <2>3 DEF Types
<1>7. ASSUME CloseAll(p), events' \in 0..MaxEvents, events <= events'
      PROVE  /\ media' \in [Page -> 0..MaxEvents]
             /\ \A q \in Page : media'[q] <= events'
    BY <1>7, NegotiationAssumption DEF CloseAll, Types, RoomTypes
<1>8. CASE LeaveRoom(p)
  <2>1. GiveUpSeat(p, "room_left") /\ CloseAll(p) /\ ClosePeer(p)
        /\ showing' \in [Page -> BOOLEAN]
      BY <1>8 DEF LeaveRoom, CloseAll, Types, RoomTypes
  <2>2. events' \in 0..MaxEvents /\ events <= events'
      BY <1>5, <2>1 DEF Types, RoomTypes
  <2>3. RoomTypes'
      BY <1>5, <1>7, <2>1, <2>2, CloseTypes DEF RoomTypes, Types
  <2> QED
      BY <1>5, <2>1, <2>3, CloseTypes DEF Types, QueueTypes
<1>9. CASE OnUserLeft(p)
  <2>1. ClosePeer(p) /\ channel[p] # <<>> /\ channel' = Taken(p)
      BY <1>9 DEF OnUserLeft, Arrives
  <2>2. RoomTypes'
      BY <1>9, <2>1, CloseTypes DEF OnUserLeft, RoomTypes, Types, roomVars, mediaVars
  <2>3. QueueTypes'
      BY <2>1, TakenTypes, CloseTypes DEF QueueTypes
  <2> QED
      BY <2>1, <2>2, <2>3, CloseTypes DEF Types
<1>10. CASE OnRoomChange(p)
  <2>1. CloseAll(p) /\ ClosePeer(p) /\ channel[p] # <<>> /\ channel' = Taken(p)
        /\ showing' \in [Page -> BOOLEAN]
      BY <1>10 DEF OnRoomChange, Arrives, CloseAll, Types, RoomTypes
  <2>2. /\ UNCHANGED <<seated, entering, telling, events, found, uncalled>>
        /\ events' \in 0..MaxEvents /\ events <= events'
      BY <1>10 DEF OnRoomChange, Types, RoomTypes
  <2>3. RoomTypes'
      BY <1>7, <2>1, <2>2, CloseTypes DEF RoomTypes, Types
  <2>4. QueueTypes'
      BY <2>1, TakenTypes, CloseTypes DEF QueueTypes
  <2> QED
      BY <2>1, <2>3, <2>4, CloseTypes DEF Types
<1>11. CASE ConnectionFails(p)
  <2>1. ClosePeer(p) /\ events' \in 0..MaxEvents /\ events < events' /\ uncalled'
        /\ UNCHANGED <<seated, entering, telling, showing, media, found, channel>>
      BY <1>1, <1>11, NegotiationAssumption DEF ConnectionFails, mediaVars
  <2>2. \A q \in Page : media[q] <= events'
      BY <2>1, NegotiationAssumption DEF Types, RoomTypes
  <2>3. uncalled' \in BOOLEAN
      BY <1>11 DEF ConnectionFails
  <2>4. RoomTypes'
      BY <2>1, <2>2, <2>3, CloseTypes DEF RoomTypes, Types
  <2> QED
      BY <2>1, <2>4, CloseTypes DEF Types, QueueTypes
<1> QED
    BY <1>2, <1>3, <1>4, <1>6, <1>8, <1>9, <1>10, <1>11, <1>12

LEMMA MessageStepTypes ==
    ASSUME Types, PeerInv, NEW p \in Page,
           \/ InitiatePeer(p) \/ HandleOffer(p) \/ HandleAnswer(p)
           \/ HandleICECandidate(p) \/ OnIceCandidate(p)
    PROVE  Types' /\ PeerInv'
<1>1. ASSUME NEW op \in Operation, Chain(p, op), peer'[p], CreatePeer(p),
             UNCHANGED <<makingOffer, flushing, sig, offers, partner>>
      PROVE  PeerInv'
  <2> SUFFICES ASSUME NEW q \in Page
               PROVE  IF peer'[q] THEN life'[q] >= 1 ELSE Idle(q)'
      BY DEF PeerInv
  <2>1. CASE q = p
      BY <1>1, <2>1, CreateTypes DEF PeerInv, Types, PcTypes
  <2>2. CASE q # p
      BY <1>1, <2>2, CreateTypes, ChainTypes DEF PeerInv, Idle
  <2> QED
      BY <2>1, <2>2
<1>2. CASE InitiatePeer(p)
  <2>1. channel[p] # <<>> /\ channel' = Taken(p) /\ CreatePeer(p)
        /\ control' \in [Page -> BOOLEAN]
      BY <1>2 DEF InitiatePeer, Arrives, Types, RoomTypes, PcTypes
  <2>2. RoomTypes'
      BY <1>2, <2>1 DEF InitiatePeer, RoomTypes, Types, roomVars, mediaVars, history
  <2>3. PcTypes'
      BY <1>2, <2>1, CreateTypes
      DEF InitiatePeer, Types, PcTypes, pcVars, iceVars
  <2>4. QueueTypes'
      BY <1>2, <2>1, TakenTypes DEF InitiatePeer, QueueTypes, Types, pcVars
  <2>5. PeerInv'
      BY <1>2, <2>1, CreateTypes
      DEF InitiatePeer, PeerInv, Idle, Types, PcTypes, pcVars
  <2> QED
      BY <2>2, <2>3, <2>4, <2>5 DEF Types
<1>3. CASE HandleOffer(p)
  <2> DEFINE m  == Head(channel[p])
             op == [set |-> "remote", signal |-> m]
  <2>1. channel[p] # <<>> /\ m.type = "offer" /\ channel' = Taken(p) /\ CreatePeer(p)
        /\ (ops' = ops \/ Chain(p, op))
        /\ ignoreOffer' \in [Page -> BOOLEAN]
      BY <1>3 DEF HandleOffer, Arrives, Types, RoomTypes
  <2>2. op \in Operation
      BY <2>1, TakenTypes, MessageTypes DEF Operation
  <2>3. overlooked' \in BOOLEAN
      BY <1>3 DEF HandleOffer
  <2>4. RoomTypes'
      BY <1>3, <2>1, <2>3 DEF HandleOffer, RoomTypes, Types, roomVars, mediaVars
  <2>5. PcTypes'
      BY <1>3, <2>1, CreateTypes DEF HandleOffer, Types, PcTypes, iceVars
  <2>6. QueueTypes'
      BY <2>1, <2>2, TakenTypes, ChainTypes DEF QueueTypes, Types
  <2>7. PeerInv'
    <3>1. CASE Chain(p, op)
        BY <1>1, <1>3, <2>1, <2>2, <3>1, CreateTypes DEF HandleOffer
    <3>2. CASE ops' = ops
        BY <1>3, <2>1, <3>2, CreateTypes
        DEF HandleOffer, PeerInv, Idle, Types, PcTypes
    <3> QED
        BY <2>1, <3>1, <3>2
  <2> QED
      BY <2>4, <2>5, <2>6, <2>7 DEF Types
<1>4. CASE HandleAnswer(p)
  <2> DEFINE m  == Head(channel[p])
             op == [set |-> "remote", signal |-> m]
  <2>1. channel[p] # <<>> /\ m.type = "answer" /\ channel' = Taken(p)
        /\ (ops' = ops \/ (peer[p] /\ Chain(p, op)))
      BY <1>4 DEF HandleAnswer, Arrives
  <2>2. op \in Operation
      BY <2>1, TakenTypes, MessageTypes DEF Operation
  <2>3. RoomTypes'
      BY <1>4 DEF HandleAnswer, RoomTypes, Types, roomVars, mediaVars, pageVars,
                  history
  <2>4. PcTypes'
      BY <1>4 DEF HandleAnswer, Types, PcTypes, pageVars, iceVars
  <2>5. QueueTypes'
      BY <2>1, <2>2, TakenTypes, ChainTypes DEF QueueTypes, Types
  <2>6. PeerInv'
    <3>1. CASE peer[p] /\ Chain(p, op)
        BY <1>4, <2>2, <3>1, ChainTypes DEF HandleAnswer, PeerInv, Idle, pageVars
    <3>2. CASE ops' = ops
        BY <1>4, <3>2 DEF HandleAnswer, PeerInv, Idle, pageVars
    <3> QED
        BY <2>1, <3>1, <3>2
  <2> QED
      BY <2>3, <2>4, <2>5, <2>6 DEF Types
<1>5. CASE HandleICECandidate(p)
  <2>1. channel[p] # <<>> /\ channel' = Taken(p)
      BY <1>5 DEF HandleICECandidate, Arrives
  <2>2. pending' \in [Page -> Nat]
      BY <1>5 DEF HandleICECandidate, Types, PcTypes
  <2>3. RoomTypes' /\ PcTypes' /\ PeerInv'
      BY <1>5, <2>2
      DEF HandleICECandidate, RoomTypes, Types, PcTypes, PeerInv, Idle, roomVars,
          mediaVars, pageVars, pcVars, history
  <2>4. QueueTypes'
      BY <1>5, <2>1, TakenTypes DEF HandleICECandidate, QueueTypes, Types, pcVars
  <2> QED
      BY <2>3, <2>4 DEF Types
<1>6. CASE OnIceCandidate(p)
  <2>1. found' \in 0..MaxCandidates
      BY <1>6, NegotiationAssumption DEF OnIceCandidate, Types, RoomTypes
  <2>2. Send(p, [type |-> "ice_candidate"])
      BY <1>6 DEF OnIceCandidate
  <2>3. channel' \in [Page -> Seq(Signal \cup Message)]
      BY <2>2, SendTypes, MessageTypes
  <2>4. RoomTypes' /\ PcTypes' /\ PeerInv'
      BY <1>6, <2>1
      DEF OnIceCandidate, RoomTypes, Types, PcTypes, PeerInv, Idle, roomVars,
          pageVars, pcVars, iceVars, history
  <2>5. QueueTypes'
      BY <1>6, <2>3 DEF OnIceCandidate, QueueTypes, Types, pcVars
  <2> QED
      BY <2>4, <2>5 DEF Types
<1> QED
    BY <1>2, <1>3, <1>4, <1>5, <1>6

LEMMA ConnectionStepTypes ==
    ASSUME Types, PeerInv, NEW p \in Page,
           \/ OnNegotiationNeeded(p) \/ SetLocalOffer(p) \/ SetLocalAnswer(p)
           \/ Reply(p)
           \/ \E m \in Signals(p) : \/ SetRemoteOffer(p, m) \/ SetRemoteAnswer(p, m)
                                    \/ SetRemoteFails(p, m)
    PROVE  Types' /\ PeerInv'
<1>1. ASSUME NEW c \in {"onnegotiationneeded", "handleOffer"}
      PROVE  [set |-> "local", by |-> c] \in Operation
    BY <1>1 DEF Operation
<1>2. CASE OnNegotiationNeeded(p)
  <2>1. Chain(p, [set |-> "local", by |-> "onnegotiationneeded"]) /\ peer[p]
      BY <1>2 DEF OnNegotiationNeeded
  <2>2. ops' \in [Page -> Seq(Operation)]
        /\ \A q \in Page \ {p} : ops'[q] = ops[q]
      BY <1>1, <2>1, ChainTypes
  <2>3. RoomTypes'
      BY <1>2 DEF OnNegotiationNeeded, RoomTypes, Types, roomVars, mediaVars, history
  <2>4. PcTypes'
      BY <1>2 DEF OnNegotiationNeeded, Types, PcTypes, iceVars
  <2>5. QueueTypes' /\ PeerInv'
      BY <1>2, <2>1, <2>2
      DEF OnNegotiationNeeded, QueueTypes, Types, PeerInv, Idle, PcTypes
  <2> QED
      BY <2>3, <2>4, <2>5 DEF Types
<1>3. CASE Reply(p)
  <2>1. Chain(p, [set |-> "local", by |-> "handleOffer"])
      BY <1>3 DEF Reply
  <2>2. ops' \in [Page -> Seq(Operation)]
        /\ \A q \in Page \ {p} : ops'[q] = ops[q]
      BY <1>1, <2>1, ChainTypes
  <2>3. peer[p]
      BY <1>3 DEF Reply, PeerInv, Idle
  <2>4. RoomTypes'
      BY <1>3 DEF Reply, RoomTypes, Types, roomVars, mediaVars, history
  <2>5. PcTypes'
    <3>1. flushing[p] - 1 \in Nat
        BY <1>3 DEF Reply, Types, PcTypes
    <3>2. flushing' \in [Page -> Nat]
        BY <1>3, <3>1 DEF Reply, Types, PcTypes
    <3>3. UNCHANGED <<peer, life, makingOffer, sig, fired, offers, offered, settled,
                      got, exchange, applying, partner, described, pending>>
        BY <1>3 DEF Reply, iceVars
    <3> QED
        BY <3>2, <3>3 DEF Types, PcTypes
  <2>6. QueueTypes'
      BY <1>3, <2>2 DEF Reply, QueueTypes, Types
  <2>7. PeerInv'
    <3>1. \A q \in Page \ {p} : flushing'[q] = flushing[q]
        BY <1>3 DEF Reply, Types, PcTypes
    <3> QED
        BY <1>3, <2>2, <2>3, <3>1 DEF Reply, PeerInv, Idle
  <2> QED
      BY <2>4, <2>5, <2>6, <2>7 DEF Types
<1>4. CASE SetLocalOffer(p) \/ SetLocalAnswer(p)
  <2>1. SetLocal(p) /\ ops[p] # <<>> /\ ops' = [ops EXCEPT ![p] = Tail(@)]
      BY <1>4 DEF SetLocalOffer, SetLocalAnswer, SetLocal
  <2>2. ops' \in [Page -> Seq(Operation)]
        /\ \A q \in Page \ {p} : ops'[q] = ops[q]
      BY <2>1, TailTypes
  <2>3. peer[p]
      BY <2>1 DEF PeerInv, Idle
  <2>4. RoomTypes'
      BY <2>1 DEF SetLocal, RoomTypes, Types, roomVars, mediaVars, history
  <2>5. PcTypes' /\ channel' \in [Page -> Seq(Signal \cup Message)]
    <3>1. Label(Head(ops[p])) \in {"offer", "answer"}
        BY DEF Label
    <3>2. makingOffer' \in [Page -> BOOLEAN]
        BY <2>1 DEF SetLocal, Types, PcTypes
    <3>3. CASE SetLocalOffer(p)
      <4>1. /\ <<p, life[p], offers[p] + 1>> \in Offer
            /\ offers[p] + 1 \in Nat /\ life[p] \in Nat
          BY DEF Offer, Types, PcTypes
      <4>2. [type |-> Label(Head(ops[p])), sdp |-> "offer",
             version |-> Media(p), from |-> life[p],
             offer |-> <<p, life[p], offers[p] + 1>>] \in Signal
          BY <3>1, <4>1, MediaType DEF Signal
      <4>3. channel' \in [Page -> Seq(Signal \cup Message)]
          BY <3>3, <4>2, SendTypes DEF SetLocalOffer
      <4>4. offered' \in [Page -> Version] /\ offers' \in [Page -> Nat]
          BY <3>3, <4>1, MediaType DEF SetLocalOffer, Types, PcTypes
      <4>5. sig' \in [Page -> {"stable", "have-local-offer", "have-remote-offer"}]
          BY <3>3 DEF SetLocalOffer, Types, PcTypes
      <4> QED
          BY <2>1, <3>2, <3>3, <4>3, <4>4, <4>5
          DEF SetLocalOffer, SetLocal, Types, PcTypes, iceVars
    <3>4. CASE SetLocalAnswer(p)
      <4>1. PICK v \in {settled[p], Media(p)} :
                /\ settled' = [settled EXCEPT ![p] = v]
                /\ Send(p, [type |-> Label(Head(ops[p])), sdp |-> "answer",
                            version |-> v, from |-> life[p], offer |-> applying[p]])
          BY <3>4 DEF SetLocalAnswer
      <4>2. v \in Version /\ applying[p] \in Offer /\ life[p] \in Nat
          BY <4>1, MediaType DEF Types, PcTypes
      <4>3. [type |-> Label(Head(ops[p])), sdp |-> "answer",
             version |-> v, from |-> life[p], offer |-> applying[p]] \in Signal
          BY <3>1, <4>2 DEF Signal
      <4>4. channel' \in [Page -> Seq(Signal \cup Message)]
          BY <4>1, <4>3, SendTypes
      <4>5. settled' \in [Page -> Version] /\ exchange' \in [Page -> Offer]
            /\ fired' \in [Page -> BOOLEAN]
          BY <3>4, <4>1, <4>2 DEF SetLocalAnswer, Types, PcTypes
      <4>6. sig' \in [Page -> {"stable", "have-local-offer", "have-remote-offer"}]
          BY <3>4 DEF SetLocalAnswer, Types, PcTypes
      <4> QED
          BY <2>1, <3>2, <3>4, <4>4, <4>5, <4>6
          DEF SetLocalAnswer, SetLocal, Types, PcTypes, iceVars
    <3> QED
        BY <1>4, <3>3, <3>4
  <2>6. PeerInv'
    <3>1. \A q \in Page \ {p} :
              /\ peer'[q] = peer[q] /\ life'[q] = life[q]
              /\ partner'[q] = partner[q] /\ ops'[q] = ops[q]
              /\ flushing'[q] = flushing[q] /\ sig'[q] = sig[q]
              /\ offers'[q] = offers[q] /\ makingOffer'[q] = makingOffer[q]
        BY <1>4, <2>1, <2>2
        DEF SetLocalOffer, SetLocalAnswer, SetLocal, Types, PcTypes
    <3>2. peer'[p] = peer[p] /\ life'[p] = life[p]
        BY <2>1 DEF SetLocal
    <3> QED
        BY <2>3, <3>1, <3>2 DEF PeerInv, Idle
  <2> QED
      BY <2>2, <2>4, <2>5, <2>6 DEF Types, QueueTypes
<1>5. ASSUME NEW m \in Signals(p),
             SetRemoteOffer(p, m) \/ SetRemoteAnswer(p, m) \/ SetRemoteFails(p, m)
      PROVE  Types' /\ PeerInv'
  <2>1. SetRemote(p, m) /\ ops[p] # <<>> /\ ops' = [ops EXCEPT ![p] = Tail(@)]
      BY <1>5, SignalFacts
      DEF SetRemoteOffer, SetRemoteAnswer, SetRemoteFails, SetRemote
  <2>2. ops' \in [Page -> Seq(Operation)]
        /\ \A q \in Page \ {p} : ops'[q] = ops[q]
      BY <2>1, TailTypes
  <2>3. peer[p]
      BY <2>1 DEF PeerInv, Idle
  <2>4. crossed' \subseteq Page
      BY <2>1 DEF SetRemote, Types, RoomTypes
  <2>5. overlooked' \in BOOLEAN
      BY <1>5 DEF SetRemoteOffer, SetRemoteAnswer, SetRemoteFails, Types, RoomTypes
  <2>6. RoomTypes'
      BY <2>1, <2>4, <2>5 DEF SetRemote, RoomTypes, Types, roomVars, mediaVars
  <2>7. /\ m.version \in Version /\ m.offer \in Offer /\ m.from \in Nat
        /\ Unflushed(p, m.type) \in Nat /\ offered[p] \in Version
      BY SignalFacts DEF Signal, Unflushed, Types, PcTypes
  <2>8. PcTypes'
    <3>1. CASE SetRemoteOffer(p, m)
        BY <2>1, <2>7, <3>1 DEF SetRemoteOffer, SetRemote, Types, PcTypes
    <3>2. CASE SetRemoteAnswer(p, m)
        BY <2>1, <2>7, <3>2 DEF SetRemoteAnswer, SetRemote, Types, PcTypes
    <3>3. CASE SetRemoteFails(p, m)
        BY <2>1, <3>3 DEF SetRemoteFails, SetRemote, Types, PcTypes, iceVars
    <3> QED
        BY <1>5, <3>1, <3>2, <3>3
  <2>9. PeerInv'
    <3>1. \A q \in Page \ {p} :
              /\ peer'[q] = peer[q] /\ life'[q] = life[q]
              /\ partner'[q] = partner[q] /\ ops'[q] = ops[q]
              /\ flushing'[q] = flushing[q] /\ sig'[q] = sig[q]
              /\ offers'[q] = offers[q] /\ makingOffer'[q] = makingOffer[q]
        BY <1>5, <2>1, <2>2
        DEF SetRemoteOffer, SetRemoteAnswer, SetRemoteFails, SetRemote, Types, PcTypes
    <3>2. peer'[p] = peer[p] /\ life'[p] = life[p]
        BY <2>1 DEF SetRemote
    <3> QED
        BY <2>3, <3>1, <3>2 DEF PeerInv, Idle
  <2> QED
      BY <2>1, <2>2, <2>6, <2>8, <2>9 DEF SetRemote, Types, QueueTypes
<1> QED
    BY <1>2, <1>3, <1>4, <1>5

LEMMA NegotiationStepTypes ==
    ASSUME Types, PeerInv, [Next]_vars
    PROVE  Types' /\ PeerInv'
<1>1. CASE UNCHANGED vars
    BY <1>1 DEF vars, roomVars, mediaVars, pageVars, pcVars, iceVars, history, Types,
                RoomTypes, PcTypes, QueueTypes, PeerInv, Idle
<1>2. ASSUME NEW p \in Page, Step(p) PROVE Types' /\ PeerInv'
    BY <1>2, RoomStepTypes, MessageStepTypes, ConnectionStepTypes DEF Step
<1> QED
    BY <1>1, <1>2 DEF Next, Resting

\* Type correctness: every message, operation and description is one the code
\* can make, and only a connection that exists has operations.
THEOREM NegotiationTypeCorrect == Spec => []TypeOK
<1>1. Types /\ PeerInv => TypeOK
  <2> SUFFICES ASSUME Types, PeerInv PROVE TypeOK
      OBVIOUS
  <2>1. \A p \in Page : ops[p] # <<>> => peer[p]
      BY DEF PeerInv, Idle
  <2>2. \A p \in Page : \A i \in DOMAIN ops[p] : ops[p][i] \in Operation
      BY DEF Types, QueueTypes
  <2>3. \A p \in Page : \A i \in DOMAIN channel[p] :
            channel[p][i] \in Signal \cup Message
      BY DEF Types, QueueTypes
  <2>4. /\ {offered, settled, got} \subseteq [Page -> Version]
        /\ {exchange, applying} \subseteq [Page -> Offer]
        /\ {overlooked, uncalled} \subseteq BOOLEAN
      BY DEF Types, RoomTypes, PcTypes
  <2> QED
      BY <2>1, <2>2, <2>3, <2>4 DEF TypeOK, Types, RoomTypes, PcTypes
<1> QED
    BY <1>1, NegotiationInitTypes, NegotiationStepTypes, PTL DEF Spec

\* No page leaves candidates in _pending once it has a remote description: every
\* setRemoteDescription is followed by a flush, and closePeer empties both.
THEOREM CandidatesAreTaken == Spec => []NoCandidateIsStuck
<1>1. Init => NoCandidateIsStuck
    BY DEF Init, NoCandidateIsStuck
<1>2. Types /\ NoCandidateIsStuck /\ [Next]_vars => NoCandidateIsStuck'
  <2> SUFFICES ASSUME Types, NoCandidateIsStuck, [Next]_vars
               PROVE  NoCandidateIsStuck'
      OBVIOUS
  <2>1. ASSUME NEW p \in Page,
               \/ ChangeMedia(p) \/ TellJoined(p) \/ InitiatePeer(p)
               \/ TakeSeat(p) \/ SendRoomJoined(p) \/ JoinElsewhere(p)
               \/ OnNegotiationNeeded(p)
               \/ SetLocalOffer(p) \/ SetLocalAnswer(p) \/ Reply(p)
               \/ OnIceCandidate(p) \/ HandleOffer(p) \/ HandleAnswer(p)
        PROVE  UNCHANGED iceVars
      BY <2>1 DEF ChangeMedia, TellJoined, InitiatePeer, TakeSeat,
                  SendRoomJoined, JoinElsewhere,
                  OnNegotiationNeeded, SetLocalOffer, SetLocalAnswer, SetLocal, Reply,
                  OnIceCandidate, HandleOffer, HandleAnswer
  <2>2. ASSUME UNCHANGED iceVars PROVE NoCandidateIsStuck'
      BY <2>2 DEF iceVars, NoCandidateIsStuck
  <2>3. ASSUME NEW p \in Page, ClosePeer(p) PROVE NoCandidateIsStuck'
      BY <2>3 DEF ClosePeer, NoCandidateIsStuck, Types, PcTypes
  <2>4. ASSUME NEW p \in Page, HandleICECandidate(p) PROVE NoCandidateIsStuck'
      BY <2>4 DEF HandleICECandidate, NoCandidateIsStuck, Types, PcTypes
  <2>5. ASSUME NEW p \in Page, NEW m \in Signals(p),
               SetRemoteOffer(p, m) \/ SetRemoteAnswer(p, m)
        PROVE  NoCandidateIsStuck'
      BY <2>5 DEF SetRemoteOffer, SetRemoteAnswer, Unflushed, NoCandidateIsStuck,
                  Types, PcTypes
  <2>6. ASSUME NEW p \in Page, NEW m \in Signals(p), SetRemoteFails(p, m)
        PROVE  UNCHANGED iceVars
      BY <2>6 DEF SetRemoteFails
  <2>7. ASSUME NEW p \in Page,
               \/ LeaveRoom(p) \/ OnUserLeft(p) \/ OnRoomChange(p)
               \/ ConnectionFails(p)
        PROVE  ClosePeer(p)
      BY <2>7 DEF LeaveRoom, OnUserLeft, OnRoomChange, ConnectionFails, CloseAll
  <2>8. ASSUME NEW p \in Page, Step(p) PROVE NoCandidateIsStuck'
      BY <2>1, <2>2, <2>3, <2>4, <2>5, <2>6, <2>7, <2>8 DEF Step
  <2>9. CASE UNCHANGED vars
      BY <2>2, <2>9 DEF vars, iceVars
  <2> QED
      BY <2>8, <2>9 DEF Next, Resting
<1> QED
    BY <1>1, <1>2, NegotiationInitTypes, NegotiationStepTypes, PTL DEF Spec

(***************************************************************************)
(* The signals that wait for a page, first those in the chain of its       *)
(* connection, then those in its channel.                                  *)
(***************************************************************************)
Spot(p) ==
    {i \in 1..(Len(ops[p]) + Len(channel[p])) :
         IF i <= Len(ops[p]) THEN ops[p][i].set = "remote"
         ELSE channel[p][i - Len(ops[p])].type \in {"offer", "answer"}}

At(p, i) == IF i <= Len(ops[p]) THEN ops[p][i].signal
            ELSE channel[p][i - Len(ops[p])]

InOps(p, i) == i <= Len(ops[p])

\* A step that adds no signal for p: each that waits after it waited before, in
\* the same order and place.
Sub(p) ==
    \E h \in [Spot(p)' -> Spot(p)] : \A i \in Spot(p)' :
        /\ At(p, i)' = At(p, h[i])
        /\ InOps(p, i)' <=> InOps(p, h[i])
        /\ \A j \in Spot(p)' : i < j => h[i] < h[j]

\* A step that puts the first message of the channel on the chain.
Chained(p) ==
    /\ Spot(p)' = Spot(p) /\ Len(ops[p]) + 1 \in Spot(p)
    /\ At(p, Len(ops[p]) + 1) = Head(channel[p])
    /\ \A i \in Spot(p) :
           /\ At(p, i)' = At(p, i)
           /\ InOps(p, i)' <=> InOps(p, i) \/ i = Len(ops[p]) + 1

\* A step that sends p the signal m.
Sent(p, m) ==
    \E n \in Nat :
        /\ Spot(p)' = Spot(p) \cup {n} /\ At(p, n)' = m /\ ~InOps(p, n)'
        /\ \A i \in Spot(p) : /\ i < n /\ At(p, i)' = At(p, i)
                              /\ InOps(p, i)' <=> InOps(p, i)

LEMMA QueueFacts ==
    ASSUME Types, NEW p \in Page
    PROVE  /\ ops[p] \in Seq(Operation) /\ channel[p] \in Seq(Signal \cup Message)
           /\ Len(ops[p]) \in Nat /\ Len(channel[p]) \in Nat
BY DEF Types, QueueTypes

LEMMA SpotFacts ==
    ASSUME Types, NEW p \in Page, NEW i \in Spot(p)
    PROVE  /\ i \in Nat \ {0} /\ At(p, i) \in Signal
           /\ At(p, i).from \in Nat /\ At(p, i).offer \in Offer
           /\ At(p, i).sdp \in {"offer", "answer"}
           /\ At(p, i).type \in {"offer", "answer"}
<1> DEFINE o == Len(ops[p])
           c == Len(channel[p])
<1>a. o \in Nat /\ c \in Nat
    BY QueueFacts
<1>b. /\ i \in 1..(o + c)
      /\ IF i <= o THEN ops[p][i].set = "remote"
                   ELSE channel[p][i - o].type \in {"offer", "answer"}
    BY DEF Spot
<1>c. /\ \A k \in 1..o : ops[p][k] \in Operation
      /\ \A k \in 1..c : channel[p][k] \in Signal \cup Message
    BY QueueFacts
<1>d. At(p, i) = IF i <= o THEN ops[p][i].signal ELSE channel[p][i - o]
    BY DEF At
<1> HIDE DEF o, c
<1>1. i \in Nat \ {0}
    BY <1>a, <1>b
<1>2. At(p, i) \in Signal
  <2>1. CASE i <= o
    <3>1. ops[p][i] \in Operation /\ ops[p][i].set = "remote"
        BY <1>a, <1>b, <1>c, <2>1
    <3> QED
        BY <1>d, <2>1, <3>1 DEF Operation
  <2>2. CASE ~(i <= o)
    <3>1. /\ i - o \in 1..c
          /\ channel[p][i - o].type \in {"offer", "answer"}
        BY <1>a, <1>b, <2>2
    <3>2. channel[p][i - o] \in Signal \cup Message
        BY <1>c, <3>1
    <3> QED
        BY <1>d, <2>2, <3>1, <3>2, MessageTypes
  <2> QED
      BY <2>1, <2>2
<1> QED
    BY <1>1, <1>2 DEF Signal

LEMMA ShiftIsSub ==
    ASSUME Types, Types', NEW p \in Page, NEW a \in Nat, NEW b \in Nat,
           \A i \in 1..Len(ops'[p]) : ops'[p][i].set = "remote" =>
               i + a \in 1..Len(ops[p]) /\ ops'[p][i] = ops[p][i + a],
           \A i \in 1..Len(channel'[p]) :
               channel'[p][i].type \in {"offer", "answer"} =>
                   i + b \in 1..Len(channel[p])
                   /\ channel'[p][i] = channel[p][i + b]
    PROVE  Sub(p)
<1> DEFINE o == Len(ops[p])
           c == Len(channel[p])
           oo == Len(ops'[p])
           cc == Len(channel'[p])
           h == [i \in Spot(p)' |-> IF i <= oo THEN i + a ELSE i - oo + o + b]
<1>1. o \in Nat /\ c \in Nat
    BY QueueFacts
<1>2. oo \in Nat /\ cc \in Nat
    BY DEF Types, QueueTypes
<1>3. ASSUME NEW i \in Spot(p)'
      PROVE  /\ i \in 1..(oo + cc)
             /\ i <= oo => ops'[p][i].set = "remote"
             /\ ~(i <= oo) => channel'[p][i - oo].type \in {"offer", "answer"}
    BY <1>3 DEF Spot
<1>4. /\ \A i \in 1..oo : ops'[p][i].set = "remote" =>
             i + a \in 1..o /\ ops'[p][i] = ops[p][i + a]
      /\ \A i \in 1..cc : channel'[p][i].type \in {"offer", "answer"} =>
             i + b \in 1..c /\ channel'[p][i] = channel[p][i + b]
    OBVIOUS
<1>5. \A i \in 1..(o + c) :
          i \in Spot(p) <=> IF i <= o THEN ops[p][i].set = "remote"
                            ELSE channel[p][i - o].type \in {"offer", "answer"}
    BY DEF Spot
<1>6. \A i : /\ At(p, i) = IF i <= o THEN ops[p][i].signal ELSE channel[p][i - o]
             /\ At(p, i)' = IF i <= oo THEN ops'[p][i].signal ELSE channel'[p][i - oo]
             /\ InOps(p, i) <=> i <= o
             /\ InOps(p, i)' <=> i <= oo
    BY DEF At, InOps
<1>7. \A i \in Spot(p)' : h[i] = IF i <= oo THEN i + a ELSE i - oo + o + b
    OBVIOUS
<1>8. h = [i \in Spot(p)' |-> h[i]]
    OBVIOUS
<1> HIDE DEF o, c, oo, cc, h
<1>9. ASSUME NEW i \in Spot(p)'
      PROVE  /\ h[i] \in Spot(p) /\ At(p, i)' = At(p, h[i])
             /\ InOps(p, i)' <=> InOps(p, h[i])
  <2>1. CASE i <= oo
    <3>1. i \in 1..oo /\ ops'[p][i].set = "remote"
        BY <1>2, <1>3, <1>9, <2>1
    <3>2. i + a \in 1..o /\ ops'[p][i] = ops[p][i + a]
        BY <1>4, <3>1
    <3>3. h[i] = i + a
        BY <1>7, <1>9, <2>1
    <3>4. h[i] \in 1..(o + c) /\ h[i] <= o
        BY <1>1, <3>2, <3>3
    <3>5. ops[p][h[i]] = ops'[p][i]
        BY <3>2, <3>3
    <3>6. h[i] \in Spot(p)
        BY <1>5, <3>1, <3>4, <3>5
    <3> QED
        BY <1>6, <2>1, <3>4, <3>5, <3>6
  <2>2. CASE ~(i <= oo)
    <3>1. i - oo \in 1..cc /\ channel'[p][i - oo].type \in {"offer", "answer"}
        BY <1>2, <1>3, <1>9, <2>2
    <3>2. (i - oo) + b \in 1..c /\ channel'[p][i - oo] = channel[p][(i - oo) + b]
        BY <1>4, <3>1
    <3>3. i \in Nat /\ h[i] = i - oo + o + b
        BY <1>2, <1>3, <1>7, <1>9, <2>2
    <3>4. h[i] \in 1..(o + c) /\ ~(h[i] <= o) /\ h[i] - o = (i - oo) + b
        BY <1>1, <1>2, <3>2, <3>3
    <3>5. channel[p][h[i] - o] = channel'[p][i - oo]
        BY <3>2, <3>4
    <3>6. h[i] \in Spot(p)
        BY <1>5, <3>1, <3>4, <3>5
    <3> QED
        BY <1>6, <2>2, <3>4, <3>5, <3>6
  <2> QED
      BY <2>1, <2>2
<1>10. ASSUME NEW i \in Spot(p)', NEW j \in Spot(p)', i < j
       PROVE  h[i] < h[j]
  <2>1. i \in Nat /\ j \in Nat
      BY <1>2, <1>3, <1>10
  <2>2. CASE i <= oo /\ ~(j <= oo)
    <3>1. i \in 1..oo /\ ops'[p][i].set = "remote"
        BY <1>2, <1>3, <1>10, <2>2
    <3>2. i + a \in 1..o
        BY <1>4, <3>1
    <3>3. h[i] = i + a /\ h[j] = j - oo + o + b
        BY <1>7, <1>10, <2>2
    <3> QED
        BY <1>1, <1>2, <2>1, <2>2, <3>2, <3>3
  <2>3. CASE i <= oo /\ j <= oo
    <3>1. h[i] = i + a /\ h[j] = j + a
        BY <1>7, <1>10, <2>3
    <3> QED
        BY <1>10, <2>1, <3>1
  <2>4. CASE ~(i <= oo)
    <3>1. h[i] = i - oo + o + b /\ h[j] = j - oo + o + b
        BY <1>2, <1>7, <1>10, <2>1, <2>4
    <3> QED
        BY <1>1, <1>2, <1>10, <2>1, <3>1
  <2> QED
      BY <2>2, <2>3, <2>4
<1>11. h \in [Spot(p)' -> Spot(p)]
    BY <1>8, <1>9
<1> QED
    BY <1>9, <1>10, <1>11 DEF Sub

\* No signal is added to a chain, or to a channel.
OpsFewer(p) ==
    \E a \in {0, 1} : \A i \in 1..Len(ops'[p]) : ops'[p][i].set = "remote" =>
        i + a \in 1..Len(ops[p]) /\ ops'[p][i] = ops[p][i + a]

ChannelFewer(p) ==
    \E b \in {0, 1} : \A i \in 1..Len(channel'[p]) :
        channel'[p][i].type \in {"offer", "answer"} =>
            i + b \in 1..Len(channel[p]) /\ channel'[p][i] = channel[p][i + b]

LEMMA FewerIsSub ==
    ASSUME Types, Types', NEW p \in Page, OpsFewer(p), ChannelFewer(p)
    PROVE  Sub(p)
<1>1. PICK a \in {0, 1} : \A i \in 1..Len(ops'[p]) : ops'[p][i].set = "remote" =>
               i + a \in 1..Len(ops[p]) /\ ops'[p][i] = ops[p][i + a]
    BY DEF OpsFewer
<1>2. PICK b \in {0, 1} : \A i \in 1..Len(channel'[p]) :
               channel'[p][i].type \in {"offer", "answer"} =>
                   i + b \in 1..Len(channel[p])
                   /\ channel'[p][i] = channel[p][i + b]
    BY DEF ChannelFewer
<1>3. a \in Nat /\ b \in Nat
    OBVIOUS
<1> QED
    BY <1>1, <1>2, <1>3, ShiftIsSub

LEMMA OpsFewerCases ==
    ASSUME Types, NEW p \in Page,
           \/ ops'[p] = ops[p] \/ ops'[p] = <<>>
           \/ ops[p] # <<>> /\ ops'[p] = Tail(ops[p])
           \/ \E op \in Operation : op.set = "local" /\ ops'[p] = Append(ops[p], op)
    PROVE  OpsFewer(p)
<1> DEFINE s == ops[p]
<1>1. s \in Seq(Operation) /\ Len(s) \in Nat
    BY QueueFacts
<1>2. CASE ops'[p] = ops[p]
  <2>1. \A i \in 1..Len(s) : i + 0 \in 1..Len(s) /\ s[i] = s[i + 0]
      BY <1>1
  <2> QED
      BY <1>2, <2>1 DEF OpsFewer
<1>3. CASE ops'[p] = <<>>
  <2>1. 1..Len(ops'[p]) = {}
      BY <1>3
  <2> QED
      BY <2>1 DEF OpsFewer
<1>4. CASE ops[p] # <<>> /\ ops'[p] = Tail(ops[p])
  <2>1. \A i \in 1..Len(Tail(s)) : i + 1 \in 1..Len(s) /\ Tail(s)[i] = s[i + 1]
      BY <1>1, <1>4
  <2> QED
      BY <1>4, <2>1 DEF OpsFewer
<1>5. ASSUME NEW op \in Operation, op.set = "local", ops'[p] = Append(ops[p], op)
      PROVE  OpsFewer(p)
  <2>1. \A i \in 1..Len(Append(s, op)) :
            \/ Append(s, op)[i] = op
            \/ i + 0 \in 1..Len(s) /\ Append(s, op)[i] = s[i + 0]
      BY <1>1, <1>5
  <2> QED
      BY <1>5, <2>1 DEF OpsFewer
<1> QED
    BY <1>2, <1>3, <1>4, <1>5

LEMMA ChannelFewerCases ==
    ASSUME Types, NEW p \in Page,
           \/ channel'[p] = channel[p]
           \/ channel[p] # <<>> /\ channel'[p] = Tail(channel[p])
           \/ \E m \in Message : channel'[p] = Append(channel[p], m)
    PROVE  ChannelFewer(p)
<1> DEFINE s == channel[p]
<1>1. s \in Seq(Signal \cup Message) /\ Len(s) \in Nat
    BY QueueFacts
<1>2. CASE channel'[p] = channel[p]
  <2>1. \A i \in 1..Len(s) : i + 0 \in 1..Len(s) /\ s[i] = s[i + 0]
      BY <1>1
  <2> QED
      BY <1>2, <2>1 DEF ChannelFewer
<1>3. CASE channel[p] # <<>> /\ channel'[p] = Tail(channel[p])
  <2>1. \A i \in 1..Len(Tail(s)) : i + 1 \in 1..Len(s) /\ Tail(s)[i] = s[i + 1]
      BY <1>1, <1>3
  <2> QED
      BY <1>3, <2>1 DEF ChannelFewer
<1>4. ASSUME NEW m \in Message, channel'[p] = Append(channel[p], m)
      PROVE  ChannelFewer(p)
  <2>1. \A i \in 1..Len(Append(s, m)) :
            \/ Append(s, m)[i] = m
            \/ i + 0 \in 1..Len(s) /\ Append(s, m)[i] = s[i + 0]
      BY <1>1, <1>4
  <2>2. m.type \notin {"offer", "answer"}
      BY <1>4, MessageTypes
  <2> QED
      BY <1>4, <2>1, <2>2 DEF ChannelFewer
<1> QED
    BY <1>2, <1>3, <1>4

LEMMA SendIsSent ==
    ASSUME Types, NEW p \in Page, NEW m \in Signal,
           ops'[p] = ops[p], channel'[p] = Append(channel[p], m)
    PROVE  Sent(p, m)
<1> DEFINE o == Len(ops[p])
           c == Len(channel[p])
<1>1. o \in Nat /\ c \in Nat /\ channel[p] \in Seq(Signal \cup Message)
    BY QueueFacts
<1>2. /\ Len(channel'[p]) = c + 1 /\ channel'[p][c + 1] = m
      /\ \A i \in 1..c : channel'[p][i] = channel[p][i]
    BY <1>1
<1>3. /\ Spot(p) \subseteq 1..(o + c)
      /\ \A i \in 1..(o + c) : i \in Spot(p) <=>
             IF i <= o THEN ops[p][i].set = "remote"
             ELSE channel[p][i - o].type \in {"offer", "answer"}
    BY DEF Spot
<1>4. /\ Spot(p)' \subseteq 1..(o + (c + 1))
      /\ \A i \in 1..(o + (c + 1)) : i \in Spot(p)' <=>
             IF i <= o THEN ops[p][i].set = "remote"
             ELSE channel'[p][i - o].type \in {"offer", "answer"}
    BY <1>2 DEF Spot
<1>5. \A i : /\ At(p, i) = IF i <= o THEN ops[p][i].signal ELSE channel[p][i - o]
             /\ At(p, i)' = IF i <= o THEN ops[p][i].signal ELSE channel'[p][i - o]
             /\ InOps(p, i) <=> i <= o
             /\ InOps(p, i)' <=> i <= o
    BY DEF At, InOps
<1>6. m.type \in {"offer", "answer"}
    BY MessageTypes
<1> HIDE DEF o, c
<1>7. PICK n \in Nat : n = o + c + 1
    BY <1>1
<1>15. n \in 1..(o + (c + 1)) /\ ~(n <= o) /\ n - o = c + 1
    BY <1>1, <1>7
<1>8. \A i \in 1..(o + c) : i # n /\ i < n /\ i \in 1..(o + (c + 1))
                            /\ (~(i <= o) => i - o \in 1..c)
    BY <1>1, <1>7
<1>9. \A i \in 1..(o + (c + 1)) : i = n \/ i \in 1..(o + c)
    BY <1>1, <1>7
<1>10. n \in Spot(p)' /\ At(p, n)' = m /\ ~InOps(p, n)'
  <2>1. channel'[p][n - o] = m
      BY <1>2, <1>15
  <2> QED
      BY <1>4, <1>5, <1>6, <1>15, <2>1
<1>11. \A i \in Spot(p) : /\ i \in Spot(p)' /\ i < n /\ At(p, i)' = At(p, i)
                          /\ InOps(p, i)' <=> InOps(p, i)
  <2> TAKE i \in Spot(p)
  <2>1. i \in 1..(o + c) /\ i < n /\ i \in 1..(o + (c + 1))
      BY <1>3, <1>8
  <2>2. ~(i <= o) => channel'[p][i - o] = channel[p][i - o]
      BY <1>2, <1>8, <2>1
  <2> QED
      BY <1>3, <1>4, <1>5, <2>1, <2>2
<1>12. \A i \in Spot(p)' : i = n \/ i \in Spot(p)
  <2> TAKE i \in Spot(p)'
  <2>1. i = n \/ i \in 1..(o + c)
      BY <1>4, <1>9
  <2>2. CASE i \in 1..(o + c)
    <3>1. ~(i <= o) => channel'[p][i - o] = channel[p][i - o]
        BY <1>2, <1>8, <2>2
    <3> QED
        BY <1>3, <1>4, <2>2, <3>1
  <2> QED
      BY <2>1, <2>2
<1>13. Spot(p)' = Spot(p) \cup {n}
    BY <1>10, <1>11, <1>12
<1>14. /\ Spot(p)' = Spot(p) \cup {n} /\ At(p, n)' = m /\ ~InOps(p, n)'
       /\ \A i \in Spot(p) : /\ i < n /\ At(p, i)' = At(p, i)
                             /\ InOps(p, i)' <=> InOps(p, i)
    BY <1>10, <1>11, <1>13
<1> QED
    BY <1>7, <1>14 DEF Sent

LEMMA ChainIsChained ==
    ASSUME Types, NEW p \in Page, channel[p] # <<>>,
           Head(channel[p]).type \in {"offer", "answer"},
           ops'[p] = Append(ops[p], [set |-> "remote", signal |-> Head(channel[p])]),
           channel'[p] = Tail(channel[p])
    PROVE  Chained(p)
<1> DEFINE o == Len(ops[p])
           c == Len(channel[p])
           m == Head(channel[p])
           op == [set |-> "remote", signal |-> m]
<1>1. /\ o \in Nat /\ c \in Nat \ {0} /\ channel[p] \in Seq(Signal \cup Message)
      /\ ops[p] \in Seq(Operation) /\ m = channel[p][1]
    BY QueueFacts
<1>2. /\ Len(channel'[p]) = c - 1
      /\ \A i \in 1..(c - 1) : channel'[p][i] = channel[p][i + 1]
    BY <1>1
<1>3. op \in Operation
    BY TakenTypes, MessageTypes DEF Operation
<1>4. /\ Len(ops'[p]) = o + 1 /\ ops'[p][o + 1] = op
      /\ \A i \in 1..o : ops'[p][i] = ops[p][i]
    BY <1>1, <1>3
<1>5. /\ Spot(p) \subseteq 1..(o + c)
      /\ \A i \in 1..(o + c) : i \in Spot(p) <=>
             IF i <= o THEN ops[p][i].set = "remote"
             ELSE channel[p][i - o].type \in {"offer", "answer"}
    BY DEF Spot
<1>6. /\ Spot(p)' \subseteq 1..((o + 1) + (c - 1))
      /\ \A i \in 1..((o + 1) + (c - 1)) : i \in Spot(p)' <=>
             IF i <= o + 1 THEN ops'[p][i].set = "remote"
             ELSE channel'[p][i - (o + 1)].type \in {"offer", "answer"}
    BY <1>2, <1>4 DEF Spot
<1>7. \A i : /\ At(p, i) = IF i <= o THEN ops[p][i].signal ELSE channel[p][i - o]
             /\ At(p, i)' = IF i <= o + 1 THEN ops'[p][i].signal
                            ELSE channel'[p][i - (o + 1)]
             /\ InOps(p, i) <=> i <= o
             /\ InOps(p, i)' <=> i <= o + 1
    BY <1>2, <1>4 DEF At, InOps
<1>8. op.set = "remote" /\ op.signal = m /\ m.type \in {"offer", "answer"}
    OBVIOUS
<1> HIDE DEF o, c, op, m
<1>9. (o + 1) + (c - 1) = o + c
    BY <1>1
<1>18. PICK n \in Nat : n = o + 1
    BY <1>1
<1>10. /\ n \in 1..(o + c) /\ n \in 1..((o + 1) + (c - 1)) /\ ~(n <= o) /\ n - o = 1
       /\ n <= o + 1
    BY <1>1, <1>18
<1>11. /\ channel[p][n - o] = m /\ ops'[p][n] = op
    BY <1>1, <1>4, <1>10, <1>18 DEF m
<1>12. \A i \in 1..(o + c) : i # n =>
           /\ i <= o + 1 <=> i <= o
           /\ i <= o => i \in 1..o
           /\ ~(i <= o) => /\ i - (o + 1) \in 1..(c - 1)
                           /\ (i - (o + 1)) + 1 = i - o
  <2> TAKE i \in 1..(o + c)
  <2>1. i \in Int /\ 1 <= i /\ i <= o + c
      BY <1>1
  <2> QED
      BY <1>1, <1>18, <2>1
<1>13. /\ n \in Spot(p) /\ n \in Spot(p)' /\ At(p, n) = m /\ At(p, n)' = m
       /\ InOps(p, n)'
    BY <1>5, <1>6, <1>7, <1>8, <1>10, <1>11
<1>14. ASSUME NEW i \in 1..(o + c), i # n
       PROVE  /\ i \in Spot(p)' <=> i \in Spot(p)
              /\ At(p, i)' = At(p, i)
              /\ InOps(p, i)' <=> InOps(p, i)
  <2>1. CASE i <= o
    <3>1. i \in 1..o /\ i <= o + 1 /\ ops'[p][i] = ops[p][i]
        BY <1>4, <1>12, <1>14, <2>1
    <3> QED
        BY <1>5, <1>6, <1>7, <1>9, <1>14, <2>1, <3>1
  <2>2. CASE ~(i <= o)
    <3>1. ~(i <= o + 1) /\ channel'[p][i - (o + 1)] = channel[p][i - o]
        BY <1>2, <1>12, <1>14, <2>2
    <3> QED
        BY <1>5, <1>6, <1>7, <1>9, <1>14, <2>2, <3>1
  <2> QED
      BY <2>1, <2>2
<1>15. \A i : i \in Spot(p)' <=> i \in Spot(p)
  <2> TAKE i
  <2>1. (i \in Spot(p) \/ i \in Spot(p)') => i \in 1..(o + c)
      BY <1>5, <1>6, <1>9
  <2> QED
      BY <1>13, <1>14, <2>1
<1>16. Spot(p)' = Spot(p)
    BY <1>15
<1>17. ASSUME NEW i \in Spot(p)
       PROVE  At(p, i)' = At(p, i) /\ (InOps(p, i)' <=> (InOps(p, i) \/ i = n))
  <2>1. i \in 1..(o + c)
      BY <1>5, <1>17
  <2>2. CASE i = n
      BY <1>13, <2>2
  <2>3. CASE i # n
      BY <1>14, <2>1, <2>3
  <2> QED
      BY <2>2, <2>3
<1> QED
    BY <1>10, <1>13, <1>16, <1>17, <1>18 DEF Chained, o, m

(***************************************************************************)
(* The invariant.  q is the other page of p throughout.                    *)
(***************************************************************************)

\* A signal that waits for p is live if it is of the connection q has now.
Live(p, q, i)       == peer[q] /\ At(p, i).from = life[q]
LiveOffer(p, q, i)  == Live(p, q, i) /\ At(p, i).sdp = "offer"
LiveAnswer(p, q, i) == Live(p, q, i) /\ At(p, i).sdp = "answer"

NegotiateOp == [set |-> "local", by |-> "onnegotiationneeded"]
ReplyOp     == [set |-> "local", by |-> "handleOffer"]

Replies(p) == \E i \in 1..Len(ops[p]) : ops[p][i] = ReplyOp

\* makingOffer is set as long as onnegotiationneeded's operation is in the chain, and
\* that one starts the chain of a stable connection.
MakingOK(p) ==
    /\ makingOffer[p] <=> ops[p] # <<>> /\ ops[p][1] = NegotiateOp
    /\ makingOffer[p] => sig[p] = "stable"
    /\ \A i \in 1..Len(ops[p]) : ops[p][i] = NegotiateOp => i = 1

\* What the history crossed is for.
CrossedOK(p, q) ==
    /\ p \in crossed => peer[p]
    /\ p \notin crossed /\ partner[p] # 0 => peer[q] /\ partner[p] = life[q]

\* Signals come in the order of the connections that made them.
FromOK(p, q) ==
    /\ partner[p] <= life[q]
    /\ \A i \in Spot(p) :
           /\ 1 <= At(p, i).from /\ At(p, i).from <= life[q]
           /\ partner[p] <= At(p, i).from
           /\ \A j \in Spot(p) : i < j => At(p, i).from <= At(p, j).from
           /\ At(p, i).sdp = "offer" =>
                  /\ At(p, i).offer[1] = q /\ At(p, i).offer[2] = At(p, i).from
                  /\ 1 <= At(p, i).offer[3]
                  /\ Live(p, q, i) => At(p, i).offer[3] <= offers[q]

\* A connection that was given no description has sent one offer at most.
FreshOK(p, q) ==
    partner[p] = 0 =>
        /\ flushing[p] = 0 /\ sig[p] # "have-remote-offer" /\ ~Replies(p)
        /\ offers[p] = IF sig[p] = "have-local-offer" THEN 1 ELSE 0
        /\ \A i \in Spot(q) : Live(q, p, i) =>
               /\ sig[p] = "have-local-offer"
               /\ At(q, i).sdp = "offer" /\ At(q, i).type = "offer"
               /\ \A j \in Spot(q) : Live(q, p, j) => i = j

\* The rest holds as long as no description has reached the wrong connection.
\* A signal is sent under the type it has.
LabelOK(p, q) == \A i \in Spot(p) : Live(p, q, i) => At(p, i).type = At(p, i).sdp

\* An answer finds its offer pending, and is the only one.
AnswerOK(p, q) ==
    \A i \in Spot(p) : LiveAnswer(p, q, i) =>
        /\ sig[p] = "have-local-offer"
        /\ At(p, i).offer = <<p, life[p], offers[p]>>
        /\ \A j \in Spot(p) : LiveAnswer(p, q, j) => i = j

\* Between an offer and its answer nothing else is done: the other waits for it.
ReplyOK(p, q) ==
    sig[p] = "have-remote-offer" =>
        /\ Spot(p) = {}
        /\ \/ flushing[p] = 1 /\ ops[p] = <<>>
           \/ flushing[p] = 0 /\ ops[p] = <<ReplyOp>>
        /\ sig[q] = "have-local-offer"
        /\ applying[p] = <<q, life[q], offers[q]>>
        /\ \A j \in Spot(q) : ~LiveAnswer(q, p, j)

NoReplyOK(p) == sig[p] # "have-remote-offer" => flushing[p] = 0 /\ ~Replies(p)

\* An offer is the pending one and was sent last, or the polite page has taken it
\* back and the impolite one is going to ignore it.
OfferOK(p, q) ==
    \A i \in Spot(p) : LiveOffer(p, q, i) =>
        \/ /\ sig[q] = "have-local-offer" /\ At(p, i).offer[3] = offers[q]
           /\ \A j \in Spot(p) : j <= i
        \/ /\ q = Polite /\ ~InOps(p, i) /\ sig[p] = "have-local-offer"
           /\ sig[q] = "have-local-offer" => At(p, i).offer[3] < offers[q]
           /\ \A j \in Spot(p) : LiveAnswer(p, q, j) => i < j

\* The impolite page takes an offer only when it has made none.
ImpoliteOK(p, q) ==
    p # Polite => \A i \in Spot(p) : LiveOffer(p, q, i) /\ InOps(p, i) =>
        sig[p] = "stable" /\ ~makingOffer[p]

\* A page that has sent an answer has nothing to take.
TurnOK(p, q) ==
    (\E i \in Spot(q) : LiveAnswer(q, p, i)) => \A j \in Spot(p) : ~Live(p, q, j)

Always(p, q) == MakingOK(p) /\ CrossedOK(p, q) /\ FromOK(p, q) /\ FreshOK(p, q)

Agrees(p, q) ==
    /\ LabelOK(p, q) /\ AnswerOK(p, q) /\ ReplyOK(p, q) /\ NoReplyOK(p)
    /\ OfferOK(p, q) /\ ImpoliteOK(p, q) /\ TurnOK(p, q)

NegotiationInv ==
    \A p, q \in Page : p # q => Always(p, q) /\ (crossed = {} => Agrees(p, q))

LEMMA OperationFacts ==
    ASSUME NEW op \in Operation
    PROVE  /\ op.set \in {"local", "remote"}
           /\ op.set = "local" => op \in {NegotiateOp, ReplyOp}
           /\ op.set = "remote" => op # NegotiateOp /\ op # ReplyOp
           /\ op = NegotiateOp => op.set = "local" /\ op.by = "onnegotiationneeded"
           /\ op = ReplyOp => op.set = "local" /\ op.by = "handleOffer"
           /\ NegotiateOp # ReplyOp
BY DEF Operation, NegotiateOp, ReplyOp

LEMMA InOpsFacts ==
    ASSUME Types, NEW p \in Page
    PROVE  /\ \A i \in Spot(p) : InOps(p, i) => ops[p] # <<>>
           /\ \A i \in Spot(p) : InOps(p, i) <=> i \in 1..Len(ops[p])
<1>1. Len(ops[p]) \in Nat /\ (Len(ops[p]) = 0 <=> ops[p] = <<>>)
    BY QueueFacts
<1>2. \A i \in Spot(p) : i \in Nat \ {0}
    BY SpotFacts
<1> QED
    BY <1>1, <1>2 DEF InOps

\* Each signal that waits for p after the step waited before, in the same order.
Thins(p) ==
    \E h \in [Spot(p)' -> Spot(p)] : \A i \in Spot(p)' :
        /\ At(p, i)' = At(p, h[i])
        /\ \A j \in Spot(p)' : /\ i < j <=> h[i] < h[j]
                               /\ i <= j <=> h[i] <= h[j]
                               /\ i = j <=> h[i] = h[j]

LEMMA SpotTypes ==
    Types => \A p \in Page : /\ life[p] \in Nat /\ partner[p] \in Nat
                             /\ offers[p] \in Nat
                             /\ \A i \in Spot(p) : /\ i \in Nat \ {0}
                                                   /\ At(p, i).from \in Nat
                                                   /\ At(p, i).offer[3] \in Nat
<1> SUFFICES ASSUME Types, NEW p \in Page, NEW i \in Spot(p)
             PROVE  /\ i \in Nat \ {0} /\ At(p, i).from \in Nat
                    /\ At(p, i).offer[3] \in Nat
    BY DEF Types, PcTypes
<1> QED
    BY SpotFacts DEF Offer

LEMMA SpotTypesPrime ==
    ASSUME Types'
    PROVE  \A p \in Page : /\ life'[p] \in Nat /\ partner'[p] \in Nat
                           /\ offers'[p] \in Nat
                           /\ \A i \in Spot(p)' : /\ i \in Nat \ {0}
                                                  /\ At(p, i)'.from \in Nat
                                                  /\ At(p, i)'.offer[3] \in Nat
<1>1. Types' => (\A p \in Page : /\ life[p] \in Nat /\ partner[p] \in Nat
                                 /\ offers[p] \in Nat
                                 /\ \A i \in Spot(p) : /\ i \in Nat \ {0}
                                                       /\ At(p, i).from \in Nat
                                                       /\ At(p, i).offer[3] \in Nat)'
    BY SpotTypes, PTL
<1> QED
    BY <1>1

LEMMA SubThins ==
    ASSUME Types, Types', NEW p \in Page, Sub(p)
    PROVE  Thins(p)
<1>1. PICK h \in [Spot(p)' -> Spot(p)] : \A i \in Spot(p)' :
          /\ At(p, i)' = At(p, h[i])
          /\ \A j \in Spot(p)' : i < j => h[i] < h[j]
    BY DEF Sub
<1>2. \A i \in Spot(p) : i \in Nat
    BY SpotTypes
<1>3. \A i \in Spot(p)' : i \in Nat
    BY SpotTypesPrime
<1>4. ASSUME NEW i \in Spot(p)', NEW j \in Spot(p)'
      PROVE  /\ i < j <=> h[i] < h[j]
             /\ i <= j <=> h[i] <= h[j]
             /\ i = j <=> h[i] = h[j]
  <2>1. i \in Nat /\ j \in Nat /\ h[i] \in Nat /\ h[j] \in Nat
      BY <1>2, <1>3, <1>4
  <2>2. (i < j => h[i] < h[j]) /\ (j < i => h[j] < h[i])
      BY <1>1, <1>4
  <2>3. i = j => h[i] = h[j]
      OBVIOUS
  <2> QED
      BY <2>1, <2>2, <2>3
<1> QED
    BY <1>1, <1>4 DEF Thins

LEMMA ChainedThins ==
    ASSUME NEW p \in Page, Chained(p)
    PROVE  Thins(p)
<1> DEFINE h == [i \in Spot(p)' |-> i]
<1>1. Spot(p)' = Spot(p) /\ \A i \in Spot(p) : At(p, i)' = At(p, i)
    BY DEF Chained
<1>2. h \in [Spot(p)' -> Spot(p)] /\ \A i \in Spot(p)' : h[i] = i
    BY <1>1
<1> HIDE DEF h
<1>3. \A i \in Spot(p)' :
          /\ At(p, i)' = At(p, h[i])
          /\ \A j \in Spot(p)' : /\ i < j <=> h[i] < h[j]
                                 /\ i <= j <=> h[i] <= h[j]
                                 /\ i = j <=> h[i] = h[j]
    BY <1>1, <1>2
<1> QED
    BY <1>2, <1>3 DEF Thins

\* A page of which a step changes nothing but perhaps what waits.
SamePc(p) ==
    /\ peer'[p] = peer[p] /\ life'[p] = life[p] /\ partner'[p] = partner[p]
    /\ sig'[p] = sig[p] /\ offers'[p] = offers[p] /\ applying'[p] = applying[p]
    /\ flushing'[p] = flushing[p] /\ makingOffer'[p] = makingOffer[p]

Same(p) == SamePc(p) /\ ops'[p] = ops[p]

\* What the conditions on the other page read.
SameSeen(p) ==
    /\ peer'[p] = peer[p] /\ life'[p] = life[p]
    /\ sig'[p] = sig[p] /\ offers'[p] = offers[p]

\* Signals of the other page's connections, with that page's step making no new one.
LEMMA FromThins ==
    ASSUME Types, Types', NEW p \in Page, NEW q \in Page, Thins(p), FromOK(p, q),
           partner'[p] \in {0, partner[p]}, life[q] <= life'[q],
           peer'[q] => (peer[q] /\ life'[q] = life[q] /\ offers[q] <= offers'[q])
                       \/ life[q] < life'[q]
    PROVE  FromOK(p, q)'
<1>1. PICK h \in [Spot(p)' -> Spot(p)] : \A i \in Spot(p)' :
          /\ At(p, i)' = At(p, h[i])
          /\ \A j \in Spot(p)' : i < j <=> h[i] < h[j]
    BY DEF Thins
<1>2. /\ life[q] \in Nat /\ life'[q] \in Nat /\ partner[p] \in Nat
      /\ offers[q] \in Nat /\ offers'[q] \in Nat
      /\ \A i \in Spot(p) : At(p, i).from \in Nat /\ At(p, i).offer[3] \in Nat
    BY SpotTypes, SpotTypesPrime
<1> QED
    BY <1>1, <1>2 DEF FromOK, Live

\* A page without a remote description stays as it was, when no new signal waits for the
\* other one.
LEMMA FreshThins ==
    ASSUME Types, Types', NEW p \in Page, NEW q \in Page, Thins(q), FreshOK(p, q),
           peer'[p] = peer[p], life'[p] = life[p], partner'[p] = partner[p],
           sig'[p] = sig[p], offers'[p] = offers[p], flushing'[p] = flushing[p],
           Replies(p)' => Replies(p)
    PROVE  FreshOK(p, q)'
<1>1. PICK h \in [Spot(q)' -> Spot(q)] : \A i \in Spot(q)' :
          /\ At(q, i)' = At(q, h[i])
          /\ \A j \in Spot(q)' : i = j <=> h[i] = h[j]
    BY DEF Thins
<1> QED
    BY <1>1 DEF FreshOK, Live

LEMMA SameReplies ==
    ASSUME NEW p \in Page, Same(p)
    PROVE  Replies(p)' <=> Replies(p)
BY DEF Same, Replies

LEMMA SameMaking ==
    ASSUME NEW p \in Page, Same(p), MakingOK(p)
    PROVE  MakingOK(p)'
BY DEF MakingOK, Same, SamePc

LEMMA StutterAlways ==
    ASSUME Types, Types', NEW p \in Page, NEW q \in Page,
           Same(p), SameSeen(q), Thins(p), Thins(q), crossed' = crossed,
           Always(p, q)
    PROVE  Always(p, q)'
<1>1. MakingOK(p)'
    BY SameMaking DEF Always
<1>2. CrossedOK(p, q)'
    BY DEF CrossedOK, Same, SamePc, SameSeen, Always
<1>3. FromOK(p, q)'
  <2>1. life[q] \in Nat /\ offers[q] \in Nat
      BY SpotTypes
  <2> QED
      BY <2>1, FromThins DEF Same, SamePc, SameSeen, Always
<1>4. FreshOK(p, q)'
    BY FreshThins, SameReplies DEF Same, SamePc, SameSeen, Always
<1> QED
    BY <1>1, <1>2, <1>3, <1>4 DEF Always

LEMMA StutterAgrees ==
    ASSUME Types, Types', NEW p \in Page, NEW q \in Page,
           Same(p), SameSeen(q), Thins(q), Sub(p), Agrees(p, q)
    PROVE  Agrees(p, q)'
<1>1. PICK h \in [Spot(p)' -> Spot(p)] : \A i \in Spot(p)' :
          /\ At(p, i)' = At(p, h[i])
          /\ InOps(p, i)' <=> InOps(p, h[i])
          /\ \A j \in Spot(p)' : i < j => h[i] < h[j]
    BY DEF Sub
<1>2. \A i \in Spot(p)', j \in Spot(p)' : /\ h[i] < h[j] => i < j
                                          /\ h[i] <= h[j] => i <= j
                                          /\ h[i] = h[j] => i = j
  <2>1. \A i \in Spot(p)' : i \in Nat /\ h[i] \in Nat
      BY SpotTypes, SpotTypesPrime
  <2> QED
      BY <1>1, <2>1
<1>3. PICK g \in [Spot(q)' -> Spot(q)] : \A i \in Spot(q)' : At(q, i)' = At(q, g[i])
    BY DEF Thins
<1>4. /\ \A i : /\ Live(p, q, i)' <=> peer[q] /\ At(p, i)'.from = life[q]
                /\ Live(q, p, i)' <=> peer[p] /\ At(q, i)'.from = life[p]
      /\ Replies(p)' <=> Replies(p)
    BY SameReplies DEF Live, Same, SamePc, SameSeen
<1>5. LabelOK(p, q)'
    BY <1>1, <1>4 DEF LabelOK, Agrees, Live
<1>6. AnswerOK(p, q)'
    BY <1>1, <1>2, <1>4 DEF AnswerOK, Agrees, Live, LiveAnswer, Same, SamePc, SameSeen
<1>7. ReplyOK(p, q)'
    BY <1>1, <1>3, <1>4 DEF ReplyOK, Agrees, Live, LiveAnswer, Same, SamePc, SameSeen
<1>8. NoReplyOK(p)'
    BY <1>4 DEF NoReplyOK, Agrees, Same, SamePc, SameSeen
<1>9. OfferOK(p, q)'
    BY <1>1, <1>2, <1>4
    DEF OfferOK, Agrees, Live, LiveOffer, LiveAnswer, Same, SamePc, SameSeen
<1>10. ImpoliteOK(p, q)'
    BY <1>1, <1>4 DEF ImpoliteOK, Agrees, Live, LiveOffer, Same, SamePc, SameSeen
<1>11. TurnOK(p, q)'
    BY <1>1, <1>3, <1>4 DEF TurnOK, Agrees, Live, LiveAnswer
<1> QED
    BY <1>5, <1>6, <1>7, <1>8, <1>9, <1>10, <1>11 DEF Agrees

\* Two connections of which neither was given a description agree on nothing yet.
LEMMA FreshAgrees ==
    ASSUME Types', NEW p \in Page, NEW q \in Page,
           partner'[p] = 0, partner'[q] = 0, FreshOK(p, q)', FreshOK(q, p)',
           FromOK(p, q)', ImpoliteOK(p, q)'
    PROVE  Agrees(p, q)'
<1>1. /\ life'[q] \in Nat /\ offers'[q] \in Nat
      /\ \A i \in Spot(p)' : i \in Nat /\ At(p, i)'.from \in Nat
                             /\ At(p, i)'.offer[3] \in Nat
    BY SpotTypesPrime
<1>2. /\ flushing'[p] = 0 /\ sig'[p] # "have-remote-offer" /\ ~Replies(p)'
      /\ offers'[q] = IF sig'[q] = "have-local-offer" THEN 1 ELSE 0
    BY DEF FreshOK
<1>3. \A i \in Spot(p)' : Live(p, q, i)' =>
          /\ sig'[q] = "have-local-offer"
          /\ At(p, i)'.sdp = "offer" /\ At(p, i)'.type = "offer"
          /\ \A j \in Spot(p)' : Live(p, q, j)' => i = j
    BY DEF FreshOK
<1>4. \A i \in Spot(q)' : Live(q, p, i)' => At(q, i)'.sdp = "offer"
    BY DEF FreshOK
<1>5. ASSUME NEW i \in Spot(p)', Live(p, q, i)'
      PROVE  /\ sig'[q] = "have-local-offer" /\ At(p, i)'.offer[3] = offers'[q]
             /\ \A j \in Spot(p)' : j <= i
  <2>1. sig'[q] = "have-local-offer" /\ At(p, i)'.sdp = "offer" /\ offers'[q] = 1
      BY <1>2, <1>3, <1>5
  <2>2. At(p, i)'.offer[3] = 1
      BY <1>1, <1>5, <2>1 DEF FromOK
  <2>3. peer'[q] /\ At(p, i)'.from = life'[q]
      BY <1>5 DEF Live
  <2>4. ASSUME NEW j \in Spot(p)', ~(j <= i) PROVE FALSE
    <3>1. i < j
        BY <1>1, <2>4
    <3>2. At(p, i)'.from <= At(p, j)'.from /\ At(p, j)'.from <= life'[q]
        BY <3>1 DEF FromOK
    <3>3. At(p, j)'.from = life'[q]
        BY <1>1, <2>3, <3>2
    <3>4. Live(p, q, j)'
        BY <2>3, <3>3 DEF Live
    <3> QED
        BY <1>1, <1>3, <1>5, <2>4, <3>1, <3>4
  <2> QED
      BY <2>1, <2>2, <2>4
<1>6. LabelOK(p, q)' /\ AnswerOK(p, q)'
    BY <1>3 DEF LabelOK, AnswerOK, LiveAnswer
<1>7. ReplyOK(p, q)' /\ NoReplyOK(p)'
    BY <1>2 DEF ReplyOK, NoReplyOK
<1>8. OfferOK(p, q)'
    BY <1>5 DEF OfferOK, LiveOffer
<1>9. TurnOK(p, q)'
    BY <1>4 DEF TurnOK, LiveAnswer
<1> QED
    BY <1>6, <1>7, <1>8, <1>9 DEF Agrees

LEMMA IdleFacts ==
    ASSUME NEW p \in Page, Idle(p)'
    PROVE  /\ MakingOK(p)' /\ ~Replies(p)' /\ partner'[p] = 0 /\ flushing'[p] = 0
           /\ sig'[p] = "stable" /\ offers'[p] = 0 /\ Len(ops'[p]) = 0
<1>1. ops'[p] = <<>> /\ 1..Len(ops'[p]) = {}
    BY DEF Idle
<1> QED
    BY <1>1 DEF Idle, MakingOK, Replies

\* p closes its connection.
LEMMA CloseAlways ==
    ASSUME Types, Types', PeerInv, NEW p \in Page, NEW q \in Page, p # q,
           Same(q), Thins(p), Thins(q), life'[p] = life[p], ~peer'[p], Idle(p)',
           crossed' = (crossed \ {p}) \cup
                        {r \in {q} : peer[p] /\ peer[r] /\ partner[r] = life[p]},
           Always(p, q), Always(q, p)
    PROVE  /\ Always(p, q)' /\ Always(q, p)'
           /\ crossed' = {} => Agrees(p, q)' /\ Agrees(q, p)'
<1>1. /\ MakingOK(p)' /\ ~Replies(p)' /\ partner'[p] = 0 /\ flushing'[p] = 0
      /\ sig'[p] = "stable" /\ offers'[p] = 0 /\ Len(ops'[p]) = 0
    BY IdleFacts
<1>2. /\ life[p] \in Nat /\ life[q] \in Nat /\ offers[p] \in Nat /\ offers[q] \in Nat
    BY SpotTypes
<1>3. /\ peer'[q] = peer[q] /\ life'[q] = life[q] /\ partner'[q] = partner[q]
      /\ offers'[q] = offers[q] /\ sig'[q] = sig[q] /\ flushing'[q] = flushing[q]
      /\ peer'[q] \in BOOLEAN
    BY DEF Same, SamePc, Types, PcTypes
<1>4. ~ peer[q] => partner[q] = 0
    BY DEF PeerInv, Idle
<1>5. p \notin crossed' /\ (q \notin crossed' => partner[q] = 0)
  <2>1. p \notin crossed'
      OBVIOUS
  <2>2. ASSUME q \notin crossed', partner[q] # 0 PROVE FALSE
    <3>1. q \notin crossed
        BY <2>2
    <3>2. peer[p] /\ partner[q] = life[p] /\ peer[q]
        BY <1>4, <2>2, <3>1 DEF Always, CrossedOK
    <3> QED
        BY <2>2, <3>2
  <2> QED
      BY <2>1, <2>2
<1>6. CrossedOK(p, q)' /\ CrossedOK(q, p)'
  <2>1. q \in crossed' => peer'[q]
      BY <1>3 DEF Always, CrossedOK
  <2> QED
      BY <1>1, <1>3, <1>5, <2>1 DEF CrossedOK
<1>7. FromOK(p, q)' /\ FromOK(q, p)'
  <2>1. FromOK(p, q)'
      BY <1>1, <1>2, <1>3, FromThins DEF Always
  <2>2. FromOK(q, p)'
      BY <1>2, <1>3, FromThins DEF Always
  <2> QED
      BY <2>1, <2>2
<1>8. \A i : ~Live(q, p, i)'
    BY DEF Live
<1>9. FreshOK(p, q)'
    BY <1>1, <1>8 DEF FreshOK
<1>10. FreshOK(q, p)'
    BY <1>3, FreshThins, SameReplies DEF Always
<1>11. Always(p, q)' /\ Always(q, p)'
    BY <1>1, <1>6, <1>7, <1>9, <1>10, SameMaking DEF Always
<1>12. ASSUME crossed' = {} PROVE Agrees(p, q)' /\ Agrees(q, p)'
  <2>1. partner'[q] = 0
      BY <1>3, <1>5, <1>12
  <2>2. \A i \in Spot(p)' : ~InOps(p, i)'
      BY <1>1, SpotTypesPrime DEF InOps
  <2>3. ImpoliteOK(p, q)' /\ ImpoliteOK(q, p)'
      BY <1>8, <2>2 DEF ImpoliteOK, LiveOffer
  <2> QED
      BY <1>1, <1>7, <1>9, <1>10, <2>1, <2>3, FreshAgrees
<1> QED
    BY <1>11, <1>12

\* p makes a connection, and takes an offer or does not.
LEMMA OpenAlways ==
    ASSUME Types, Types', PeerInv, NEW p \in Page, NEW q \in Page, p # q,
           ~peer[p], peer'[p], life'[p] = life[p] + 1,
           partner'[p] = partner[p], sig'[p] = sig[p], offers'[p] = offers[p],
           flushing'[p] = flushing[p], makingOffer'[p] = makingOffer[p],
           Same(q), Thins(p), Thins(q), crossed' = crossed,
           \/ ops'[p] = <<>>
           \/ \E m \in Signal : ops'[p] = <<[set |-> "remote", signal |-> m]>>,
           Always(p, q), Always(q, p)
    PROVE  /\ Always(p, q)' /\ Always(q, p)'
           /\ crossed' = {} => Agrees(p, q)' /\ Agrees(q, p)'
<1>1. Idle(p)
    BY DEF PeerInv
<1>2. /\ partner'[p] = 0 /\ flushing'[p] = 0 /\ sig'[p] = "stable"
      /\ offers'[p] = 0 /\ ~makingOffer'[p]
    BY <1>1 DEF Idle
<1>3. /\ peer'[q] = peer[q] /\ life'[q] = life[q] /\ partner'[q] = partner[q]
      /\ offers'[q] = offers[q] /\ sig'[q] = sig[q] /\ flushing'[q] = flushing[q]
    BY DEF Same, SamePc
<1>4. /\ life[p] \in Nat /\ life[q] \in Nat /\ offers[p] \in Nat /\ offers[q] \in Nat
    BY SpotTypes
<1>5. \A i \in 1..Len(ops'[p]) : ops'[p][i] # NegotiateOp /\ ops'[p][i] # ReplyOp
  <2>1. CASE ops'[p] = <<>>
      BY <2>1
  <2>2. ASSUME NEW m \in Signal, ops'[p] = <<[set |-> "remote", signal |-> m]>>
        PROVE  \A i \in 1..Len(ops'[p]) : ops'[p][i] # NegotiateOp
                                          /\ ops'[p][i] # ReplyOp
    <3>1. \A i \in 1..Len(ops'[p]) : ops'[p][i].set = "remote"
        BY <2>2
    <3> QED
        BY <3>1 DEF NegotiateOp, ReplyOp
  <2> QED
      BY <2>1, <2>2
<1>6. MakingOK(p)' /\ ~Replies(p)'
  <2>1. ops'[p] # <<>> => 1 \in 1..Len(ops'[p])
      BY DEF Types, QueueTypes
  <2> QED
      BY <1>2, <1>5, <2>1 DEF MakingOK, Replies
<1>7. partner[q] # 0 => q \in crossed
    BY DEF Always, CrossedOK
<1>8. CrossedOK(p, q)' /\ CrossedOK(q, p)'
    BY <1>2, <1>3, <1>7 DEF CrossedOK, Always
<1>9. FromOK(p, q)' /\ FromOK(q, p)'
  <2>1. FromOK(p, q)'
      BY <1>3, <1>4, FromThins DEF Always
  <2>2. FromOK(q, p)'
      BY <1>3, <1>4, FromThins DEF Always
  <2> QED
      BY <2>1, <2>2
<1>10. \A i \in Spot(q)' : ~Live(q, p, i)'
  <2>1. PICK h \in [Spot(q)' -> Spot(q)] : \A i \in Spot(q)' : At(q, i)' = At(q, h[i])
      BY DEF Thins
  <2>2. \A i \in Spot(q)' : At(q, i)'.from \in Nat /\ At(q, i)'.from <= life[p]
      BY <2>1, SpotTypes DEF Always, FromOK
  <2> QED
      BY <1>4, <2>2 DEF Live
<1>11. FreshOK(p, q)'
    BY <1>2, <1>6, <1>10 DEF FreshOK
<1>12. FreshOK(q, p)'
    BY <1>3, FreshThins, SameReplies DEF Always
<1>13. Always(p, q)' /\ Always(q, p)'
    BY <1>6, <1>8, <1>9, <1>11, <1>12, SameMaking DEF Always
<1>14. ASSUME crossed' = {} PROVE Agrees(p, q)' /\ Agrees(q, p)'
  <2>1. partner'[q] = 0
      BY <1>3, <1>7, <1>14
  <2>2. ImpoliteOK(p, q)' /\ ImpoliteOK(q, p)'
      BY <1>2, <1>10 DEF ImpoliteOK, LiveOffer
  <2> QED
      BY <1>2, <1>9, <1>11, <1>12, <2>1, <2>2, FreshAgrees
<1> QED
    BY <1>13, <1>14

\* p puts a signal on the chain of its connection.
LEMMA TakeInv ==
    ASSUME Types, Types', NEW p \in Page, NEW q \in Page, p # q,
           NEW m \in Signal, m = Head(channel[p]),
           ops'[p] = Append(ops[p], [set |-> "remote", signal |-> m]),
           SamePc(p), Same(q), Chained(p), Sub(q), crossed' = crossed,
           m.type = "offer" => \/ p = Polite \/ m.sdp # "offer"
                               \/ sig[p] = "stable" /\ ~makingOffer[p],
           Always(p, q), Always(q, p)
    PROVE  /\ Always(p, q)' /\ Always(q, p)'
           /\ Agrees(p, q) /\ Agrees(q, p) => Agrees(p, q)' /\ Agrees(q, p)'
<1> DEFINE op == [set |-> "remote", signal |-> m]
<1>1. /\ ops[p] \in Seq(Operation) /\ op \in Operation
      /\ op # NegotiateOp /\ op # ReplyOp
    BY QueueFacts DEF Operation, NegotiateOp, ReplyOp
<1> HIDE DEF op
<1>2. /\ Len(ops'[p]) = Len(ops[p]) + 1 /\ ops'[p][Len(ops[p]) + 1] = op
      /\ \A i \in 1..Len(ops[p]) : ops'[p][i] = ops[p][i]
      /\ ops'[p] # <<>>
    BY <1>1 DEF op
<1>3. Replies(p)' <=> Replies(p)
  <2>1. \A i \in 1..Len(ops'[p]) : i \in 1..Len(ops[p]) \/ i = Len(ops[p]) + 1
      BY <1>1, <1>2
  <2>2. \A i \in 1..Len(ops[p]) : i \in 1..Len(ops'[p])
      BY <1>1, <1>2
  <2> QED
      BY <1>1, <1>2, <2>1, <2>2 DEF Replies
<1>4. MakingOK(p)'
  <2>1. \A i \in 1..Len(ops'[p]) : i \in 1..Len(ops[p]) \/ ops'[p][i] = op
      BY <1>1, <1>2
  <2>2. CASE ops[p] = <<>>
    <3>1. ops'[p][1] = op /\ ~makingOffer'[p]
        BY <1>2, <2>2 DEF Always, MakingOK, SamePc
    <3> QED
        BY <1>1, <1>2, <2>1, <2>2, <3>1 DEF MakingOK
  <2>3. CASE ops[p] # <<>>
    <3>1. 1 \in 1..Len(ops[p])
        BY <1>1, <2>3
    <3>2. ops'[p][1] = ops[p][1]
        BY <1>2, <3>1
    <3> QED
        BY <1>1, <1>2, <2>1, <2>3, <3>2 DEF MakingOK, Always, SamePc
  <2> QED
      BY <2>2, <2>3
<1>5. Thins(p) /\ Thins(q)
    BY ChainedThins, SubThins
<1>6. CrossedOK(p, q)' /\ CrossedOK(q, p)'
    BY DEF CrossedOK, Same, SamePc, Always
<1>7. /\ life[p] \in Nat /\ life[q] \in Nat /\ offers[p] \in Nat /\ offers[q] \in Nat
    BY SpotTypes
<1>8. FromOK(p, q)' /\ FromOK(q, p)'
  <2>1. FromOK(p, q)'
      BY <1>5, <1>7, FromThins DEF Same, SamePc, Always
  <2>2. FromOK(q, p)'
      BY <1>5, <1>7, FromThins DEF Same, SamePc, Always
  <2> QED
      BY <2>1, <2>2
<1>9. FreshOK(p, q)' /\ FreshOK(q, p)'
  <2>1. FreshOK(p, q)'
      BY <1>3, <1>5, FreshThins DEF Same, SamePc, Always
  <2>2. FreshOK(q, p)'
      BY <1>5, FreshThins, SameReplies DEF Same, SamePc, Always
  <2> QED
      BY <2>1, <2>2
<1>10. Always(p, q)' /\ Always(q, p)'
    BY <1>4, <1>6, <1>8, <1>9, SameMaking DEF Always
<1>11. ASSUME Agrees(p, q), Agrees(q, p)
       PROVE  Agrees(p, q)' /\ Agrees(q, p)'
  <2> DEFINE n == Len(ops[p]) + 1
  <2>1. /\ Spot(p)' = Spot(p) /\ n \in Spot(p) /\ At(p, n) = m
        /\ \A i \in Spot(p) : /\ At(p, i)' = At(p, i)
                              /\ InOps(p, i)' <=> InOps(p, i) \/ i = n
      BY DEF Chained
  <2> HIDE DEF n
  <2>2. /\ \A i : /\ Live(p, q, i)' <=> peer[q] /\ At(p, i)'.from = life[q]
                  /\ Live(q, p, i)' <=> peer[p] /\ At(q, i)'.from = life[p]
      BY DEF Live, Same, SamePc
  <2>3. PICK g \in [Spot(q)' -> Spot(q)] : \A i \in Spot(q)' : At(q, i)' = At(q, g[i])
      BY DEF Sub
  <2>4. LiveOffer(p, q, n) =>
            \/ p = Polite
            \/ sig[p] = "stable" /\ ~makingOffer[p]
      BY <1>11, <2>1, MessageTypes DEF LiveOffer, LabelOK, Agrees
  <2>5. LabelOK(p, q)' /\ AnswerOK(p, q)' /\ TurnOK(p, q)'
    <3>1. LabelOK(p, q)'
        BY <1>11, <2>1, <2>2 DEF LabelOK, Agrees, Live
    <3>2. AnswerOK(p, q)'
        BY <1>11, <2>1, <2>2 DEF AnswerOK, Agrees, Live, LiveAnswer, SamePc
    <3>3. TurnOK(p, q)'
        BY <1>11, <2>1, <2>2, <2>3 DEF TurnOK, Agrees, Live, LiveAnswer
    <3> QED
        BY <3>1, <3>2, <3>3
  <2>6. ReplyOK(p, q)' /\ NoReplyOK(p)'
      BY <1>3, <1>11, <2>1 DEF ReplyOK, NoReplyOK, Agrees, SamePc
  <2>7. OfferOK(p, q)'
    <3> SUFFICES ASSUME NEW i \in Spot(p), LiveOffer(p, q, i)
                 PROVE  \/ /\ sig[q] = "have-local-offer"
                           /\ At(p, i).offer[3] = offers[q]
                           /\ \A j \in Spot(p) : j <= i
                        \/ /\ q = Polite /\ ~InOps(p, i)' /\ sig[p] = "have-local-offer"
                           /\ sig[q] = "have-local-offer" =>
                                  At(p, i).offer[3] < offers[q]
                           /\ \A j \in Spot(p) : LiveAnswer(p, q, j) => i < j
        BY <2>1, <2>2 DEF OfferOK, LiveOffer, LiveAnswer, Live, Same, SamePc
    <3>1. CASE i = n
      <4>1. ~(q = Polite /\ sig[p] = "have-local-offer")
          BY <2>4, <3>1
      <4> QED
          BY <1>11, <4>1 DEF Agrees, OfferOK
    <3>2. CASE i # n
        BY <1>11, <2>1, <3>2 DEF Agrees, OfferOK
    <3> QED
        BY <3>1, <3>2
  <2>8. ImpoliteOK(p, q)'
      BY <1>11, <2>1, <2>2, <2>4
      DEF ImpoliteOK, Agrees, LiveOffer, Live, SamePc
  <2>9. Agrees(q, p)'
      BY <1>5, <1>11, StutterAgrees DEF SamePc, SameSeen
  <2> QED
      BY <2>5, <2>6, <2>7, <2>8, <2>9 DEF Agrees
<1> QED
    BY <1>10, <1>11

\* The event fires on p.
LEMMA NeedsInv ==
    ASSUME Types, Types', NEW p \in Page, NEW q \in Page, p # q,
           ops[p] = <<>>, sig[p] = "stable", ops'[p] = <<NegotiateOp>>, makingOffer'[p],
           peer'[p] = peer[p], life'[p] = life[p], partner'[p] = partner[p],
           sig'[p] = sig[p], offers'[p] = offers[p], applying'[p] = applying[p],
           flushing'[p] = flushing[p],
           Same(q), Sub(p), Sub(q), crossed' = crossed,
           Always(p, q), Always(q, p)
    PROVE  /\ Always(p, q)' /\ Always(q, p)'
           /\ Agrees(p, q) /\ Agrees(q, p) => Agrees(p, q)' /\ Agrees(q, p)'
<1>1. /\ Len(ops'[p]) = 1 /\ ops'[p][1] = NegotiateOp /\ ops'[p] # <<>>
      /\ NegotiateOp # ReplyOp
    BY DEF NegotiateOp, ReplyOp
<1>2. MakingOK(p)' /\ ~Replies(p)'
    BY <1>1 DEF MakingOK, Replies
<1>3. Thins(p) /\ Thins(q)
    BY SubThins
<1>4. /\ life[q] \in Nat /\ offers[q] \in Nat
    BY SpotTypes
<1>5. Always(p, q)'
  <2>1. CrossedOK(p, q)'
      BY DEF CrossedOK, Same, SamePc, Always
  <2>2. FromOK(p, q)'
      BY <1>3, <1>4, FromThins DEF Same, SamePc, Always
  <2>3. FreshOK(p, q)'
      BY <1>2, <1>3, FreshThins DEF Always
  <2> QED
      BY <1>2, <2>1, <2>2, <2>3 DEF Always
<1>6. Always(q, p)'
    BY <1>3, StutterAlways DEF SameSeen
<1>7. ASSUME Agrees(p, q), Agrees(q, p)
      PROVE  Agrees(p, q)' /\ Agrees(q, p)'
  <2>1. PICK h \in [Spot(p)' -> Spot(p)] : \A i \in Spot(p)' :
            /\ At(p, i)' = At(p, h[i])
            /\ InOps(p, i)' <=> InOps(p, h[i])
            /\ \A j \in Spot(p)' : i < j => h[i] < h[j]
      BY DEF Sub
  <2>2. \A i \in Spot(p)' : ~InOps(p, i)'
      BY <2>1, InOpsFacts
  <2>3. PICK f \in [Spot(p)' -> Spot(p)] : \A i \in Spot(p)' :
            /\ At(p, i)' = At(p, f[i])
            /\ \A j \in Spot(p)' : /\ i < j <=> f[i] < f[j]
                                   /\ i <= j <=> f[i] <= f[j]
                                   /\ i = j <=> f[i] = f[j]
      BY <1>3 DEF Thins
  <2>4. PICK g \in [Spot(q)' -> Spot(q)] : \A i \in Spot(q)' : At(q, i)' = At(q, g[i])
      BY DEF Sub
  <2>5. \A i : /\ Live(p, q, i)' <=> peer[q] /\ At(p, i)'.from = life[q]
               /\ Live(q, p, i)' <=> peer[p] /\ At(q, i)'.from = life[p]
      BY DEF Live, Same, SamePc
  <2>6. LabelOK(p, q)' /\ AnswerOK(p, q)' /\ TurnOK(p, q)'
    <3>1. LabelOK(p, q)'
        BY <1>7, <2>3, <2>5 DEF LabelOK, Agrees, Live
    <3>2. AnswerOK(p, q)'
        BY <1>7, <2>3, <2>5 DEF AnswerOK, Agrees, Live, LiveAnswer
    <3>3. TurnOK(p, q)'
        BY <1>7, <2>3, <2>4, <2>5 DEF TurnOK, Agrees, Live, LiveAnswer
    <3> QED
        BY <3>1, <3>2, <3>3
  <2>7. ReplyOK(p, q)' /\ NoReplyOK(p)' /\ ImpoliteOK(p, q)'
      BY <1>2, <1>7, <2>2 DEF ReplyOK, NoReplyOK, ImpoliteOK, Agrees
  <2>8. OfferOK(p, q)'
      BY <1>7, <2>3, <2>5
      DEF OfferOK, Agrees, Live, LiveOffer, LiveAnswer, Same, SamePc
  <2>9. Agrees(q, p)'
      BY <1>3, <1>7, StutterAgrees DEF SameSeen
  <2> QED
      BY <2>6, <2>7, <2>8, <2>9 DEF Agrees
<1> QED
    BY <1>5, <1>6, <1>7

\* handleOffer of p goes on to its answer.
LEMMA ReplyInv ==
    ASSUME Types, Types', NEW p \in Page, NEW q \in Page, p # q,
           flushing[p] > 0, flushing'[p] = flushing[p] - 1,
           ops'[p] = Append(ops[p], ReplyOp),
           peer'[p] = peer[p], life'[p] = life[p], partner'[p] = partner[p],
           sig'[p] = sig[p], offers'[p] = offers[p], applying'[p] = applying[p],
           makingOffer'[p] = makingOffer[p],
           Same(q), Sub(p), Sub(q), crossed' = crossed,
           Always(p, q), Always(q, p)
    PROVE  /\ Always(p, q)' /\ Always(q, p)'
           /\ Agrees(p, q) /\ Agrees(q, p) => Agrees(p, q)' /\ Agrees(q, p)'
<1>1. ops[p] \in Seq(Operation) /\ ReplyOp \in Operation /\ NegotiateOp # ReplyOp
    BY QueueFacts DEF Operation, NegotiateOp, ReplyOp
<1>2. /\ Len(ops'[p]) = Len(ops[p]) + 1 /\ ops'[p][Len(ops[p]) + 1] = ReplyOp
      /\ \A i \in 1..Len(ops[p]) : ops'[p][i] = ops[p][i]
      /\ ops'[p] # <<>>
    BY <1>1
<1>3. MakingOK(p)'
  <2>1. \A i \in 1..Len(ops'[p]) : i \in 1..Len(ops[p]) \/ ops'[p][i] = ReplyOp
      BY <1>1, <1>2
  <2>2. CASE ops[p] = <<>>
    <3>1. ops'[p][1] = ReplyOp /\ ~makingOffer'[p]
        BY <1>2, <2>2 DEF Always, MakingOK
    <3> QED
        BY <1>1, <1>2, <2>1, <2>2, <3>1 DEF MakingOK
  <2>3. CASE ops[p] # <<>>
    <3>1. 1 \in 1..Len(ops[p])
        BY <1>1, <2>3
    <3>2. ops'[p][1] = ops[p][1]
        BY <1>2, <3>1
    <3> QED
        BY <1>1, <1>2, <2>1, <2>3, <3>2 DEF MakingOK, Always
  <2> QED
      BY <2>2, <2>3
<1>4. Thins(p) /\ Thins(q)
    BY SubThins
<1>5. life[q] \in Nat /\ offers[q] \in Nat /\ flushing[p] \in Nat
    BY SpotTypes DEF Types, PcTypes
<1>6. Always(p, q)'
  <2>1. CrossedOK(p, q)'
      BY DEF CrossedOK, Same, SamePc, Always
  <2>2. FromOK(p, q)'
      BY <1>4, <1>5, FromThins DEF Same, SamePc, Always
  <2>3. FreshOK(p, q)'
      BY <1>5 DEF FreshOK, Always
  <2> QED
      BY <1>3, <2>1, <2>2, <2>3 DEF Always
<1>7. Always(q, p)'
    BY <1>4, StutterAlways DEF SameSeen
<1>8. ASSUME Agrees(p, q), Agrees(q, p)
      PROVE  Agrees(p, q)' /\ Agrees(q, p)'
  <2>1. /\ sig[p] = "have-remote-offer" /\ Spot(p) = {}
        /\ flushing[p] = 1 /\ ops[p] = <<>>
        /\ sig[q] = "have-local-offer"
        /\ applying[p] = <<q, life[q], offers[q]>>
        /\ \A j \in Spot(q) : ~LiveAnswer(q, p, j)
      BY <1>5, <1>8 DEF Agrees, ReplyOK, NoReplyOK
  <2>2. flushing'[p] = 0 /\ ops'[p] = <<ReplyOp>>
      BY <2>1
  <2>3. Spot(p)' = {}
      BY <2>1 DEF Sub
  <2>4. PICK g \in [Spot(q)' -> Spot(q)] : \A i \in Spot(q)' : At(q, i)' = At(q, g[i])
      BY DEF Sub
  <2>5. ReplyOK(p, q)' /\ NoReplyOK(p)'
      BY <2>1, <2>2, <2>3, <2>4
      DEF ReplyOK, NoReplyOK, LiveAnswer, Live, Same, SamePc
  <2>6. LabelOK(p, q)' /\ AnswerOK(p, q)' /\ TurnOK(p, q)' /\ OfferOK(p, q)'
        /\ ImpoliteOK(p, q)'
      BY <2>3 DEF LabelOK, AnswerOK, TurnOK, OfferOK, ImpoliteOK
  <2>7. Agrees(q, p)'
      BY <1>4, <1>8, StutterAgrees DEF SameSeen
  <2> QED
      BY <2>5, <2>6, <2>7 DEF Agrees
<1> QED
    BY <1>6, <1>7, <1>8

\* At most the signal m is new among those that wait for p; 0 stands for it.
Adds(p, m) ==
    \E h \in [Spot(p)' -> Spot(p) \cup {0}] : \A i \in Spot(p)' :
        /\ h[i] = 0 => /\ At(p, i)' = m /\ ~InOps(p, i)'
                       /\ \A j \in Spot(p)' : j <= i
        /\ h[i] # 0 => /\ h[i] \in Spot(p) /\ At(p, i)' = At(p, h[i])
                       /\ InOps(p, i)' <=> InOps(p, h[i])
        /\ \A j \in Spot(p)' : /\ i = j <=> h[i] = h[j]
                               /\ h[i] # 0 /\ h[j] # 0 => (i < j <=> h[i] < h[j])

LEMMA SentAdds ==
    ASSUME Types, Types', NEW p \in Page, NEW m \in Signal, Sub(p) \/ Sent(p, m)
    PROVE  Adds(p, m)
<1>1. \A i \in Spot(p) : i \in Nat \ {0}
    BY SpotTypes
<1>2. CASE Sub(p)
  <2>1. PICK h \in [Spot(p)' -> Spot(p)] : \A i \in Spot(p)' :
            /\ At(p, i)' = At(p, h[i])
            /\ InOps(p, i)' <=> InOps(p, h[i])
            /\ \A j \in Spot(p)' : i < j => h[i] < h[j]
      BY <1>2 DEF Sub
  <2>2. \A i \in Spot(p)', j \in Spot(p)' : /\ i = j <=> h[i] = h[j]
                                            /\ i < j <=> h[i] < h[j]
    <3>1. \A i \in Spot(p)' : i \in Nat /\ h[i] \in Nat
        BY <1>1, SpotTypesPrime
    <3> QED
        BY <2>1, <3>1
  <2>3. h \in [Spot(p)' -> Spot(p) \cup {0}] /\ \A i \in Spot(p)' : h[i] # 0
      BY <1>1
  <2> QED
      BY <2>1, <2>2, <2>3 DEF Adds
<1>3. CASE Sent(p, m)
  <2>1. PICK n \in Nat :
            /\ Spot(p)' = Spot(p) \cup {n} /\ At(p, n)' = m /\ ~InOps(p, n)'
            /\ \A i \in Spot(p) : /\ i < n /\ At(p, i)' = At(p, i)
                                  /\ InOps(p, i)' <=> InOps(p, i)
      BY <1>3 DEF Sent
  <2> DEFINE h == [i \in Spot(p)' |-> IF i = n THEN 0 ELSE i]
  <2>2. /\ h \in [Spot(p)' -> Spot(p) \cup {0}]
        /\ \A i \in Spot(p)' : h[i] = IF i = n THEN 0 ELSE i
      BY <2>1
  <2> HIDE DEF h
  <2>3. ASSUME NEW i \in Spot(p)'
        PROVE  /\ h[i] = 0 <=> i = n
               /\ h[i] # 0 => i \in Spot(p) /\ h[i] = i
      BY <1>1, <2>1, <2>2, <2>3
  <2>4. \A j \in Spot(p)' : j <= n
      BY <1>1, <2>1
  <2>5. ASSUME NEW i \in Spot(p)', NEW j \in Spot(p)'
        PROVE  /\ i = j <=> h[i] = h[j]
               /\ h[i] # 0 /\ h[j] # 0 => (i < j <=> h[i] < h[j])
      BY <1>1, <2>3, <2>5
  <2> QED
      BY <2>1, <2>2, <2>3, <2>4, <2>5 DEF Adds
<1> QED
    BY <1>2, <1>3

\* What p sends is of its connection, and the last signal that waits for q.
LEMMA FromAdds ==
    ASSUME Types, Types', NEW p \in Page, NEW q \in Page, NEW m \in Signal,
           Adds(q, m), FromOK(q, p), partner'[q] = partner[q],
           peer'[p] = peer[p], life'[p] = life[p], life[p] >= 1,
           offers[p] <= offers'[p], m.from = life[p],
           m.sdp = "offer" => m.offer = <<p, life[p], offers'[p]>> /\ 1 <= offers'[p]
    PROVE  FromOK(q, p)'
<1>1. PICK g \in [Spot(q)' -> Spot(q) \cup {0}] : \A i \in Spot(q)' :
          /\ g[i] = 0 => /\ At(q, i)' = m /\ \A j \in Spot(q)' : j <= i
          /\ g[i] # 0 => g[i] \in Spot(q) /\ At(q, i)' = At(q, g[i])
          /\ \A j \in Spot(q)' :
                 g[i] # 0 /\ g[j] # 0 => (i < j <=> g[i] < g[j])
    BY DEF Adds
<1>2. /\ \A i : Live(q, p, i)' <=> peer[p] /\ At(q, i)'.from = life[p]
      /\ \A i \in Spot(q)' : i \in Nat /\ At(q, i)'.from \in Nat
      /\ \A i \in Spot(q) : i \in Nat /\ At(q, i).from \in Nat
                            /\ At(q, i).offer[3] \in Nat
    BY SpotTypes, SpotTypesPrime DEF Live
<1>3. /\ life[p] \in Nat /\ offers[p] \in Nat /\ offers'[p] \in Nat
      /\ partner[q] \in Nat /\ partner[q] <= life[p]
    BY SpotTypes, SpotTypesPrime DEF FromOK
<1>4. ASSUME NEW i \in Spot(q)'
      PROVE  /\ 1 <= At(q, i)'.from /\ At(q, i)'.from <= life[p]
             /\ partner[q] <= At(q, i)'.from
             /\ \A j \in Spot(q)' : i < j => At(q, i)'.from <= At(q, j)'.from
             /\ At(q, i)'.sdp = "offer" =>
                    /\ At(q, i)'.offer[1] = p /\ At(q, i)'.offer[2] = At(q, i)'.from
                    /\ 1 <= At(q, i)'.offer[3]
                    /\ Live(q, p, i)' => At(q, i)'.offer[3] <= offers'[p]
  <2>1. CASE g[i] = 0
    <3>1. At(q, i)' = m /\ \A j \in Spot(q)' : ~(i < j)
        BY <1>1, <1>2, <2>1
    <3> QED
        BY <1>3, <3>1
  <2>2. CASE g[i] # 0
    <3>1. g[i] \in Spot(q) /\ At(q, i)' = At(q, g[i])
        BY <1>1, <2>2
    <3>2. /\ 1 <= At(q, g[i]).from /\ At(q, g[i]).from <= life[p]
          /\ partner[q] <= At(q, g[i]).from
          /\ At(q, g[i]).sdp = "offer" =>
                 /\ At(q, g[i]).offer[1] = p
                 /\ At(q, g[i]).offer[2] = At(q, g[i]).from
                 /\ 1 <= At(q, g[i]).offer[3]
                 /\ Live(q, p, g[i]) => At(q, g[i]).offer[3] <= offers[p]
        BY <3>1 DEF FromOK
    <3>3. ASSUME NEW j \in Spot(q)', i < j
          PROVE  At(q, i)'.from <= At(q, j)'.from
      <4>1. CASE g[j] = 0
          BY <1>1, <3>1, <3>2, <4>1
      <4>2. CASE g[j] # 0
        <5>1. g[j] \in Spot(q) /\ At(q, j)' = At(q, g[j]) /\ g[i] < g[j]
            BY <1>1, <2>2, <3>3, <4>2
        <5> QED
            BY <3>1, <5>1 DEF FromOK
      <4> QED
          BY <4>1, <4>2
    <3>4. Live(q, p, i)' <=> Live(q, p, g[i])
        BY <1>2, <3>1 DEF Live
    <3>5. At(q, g[i]).offer[3] <= offers[p] => At(q, g[i]).offer[3] <= offers'[p]
        BY <1>2, <1>3, <3>1
    <3> QED
        BY <3>1, <3>2, <3>3, <3>4, <3>5
  <2> QED
      BY <2>1, <2>2
<1> QED
    BY <1>3, <1>4 DEF FromOK

\* setLocalDescription takes the first operation off the chain.
LEMMA PopFacts ==
    ASSUME Types, NEW p \in Page, ops[p] # <<>>, ops'[p] = Tail(ops[p]), MakingOK(p)
    PROVE  /\ \A i \in 1..Len(ops'[p]) : ops'[p][i] # NegotiateOp
           /\ Replies(p)' => Replies(p)
           /\ 1 \in 1..Len(ops[p]) /\ Head(ops[p]) = ops[p][1]
           /\ ops[p][1] \in Operation
           /\ Len(ops'[p]) = Len(ops[p]) - 1
<1>1. ops[p] \in Seq(Operation) /\ Len(ops[p]) \in Nat \ {0}
    BY QueueFacts
<1>2. /\ Len(ops'[p]) = Len(ops[p]) - 1
      /\ \A i \in 1..Len(ops'[p]) : /\ i + 1 \in 1..Len(ops[p]) /\ i + 1 # 1
                                    /\ ops'[p][i] = ops[p][i + 1]
      /\ 1 \in 1..Len(ops[p]) /\ Head(ops[p]) = ops[p][1] /\ ops[p][1] \in Operation
    BY <1>1
<1>3. \A i \in 1..Len(ops'[p]) : ops'[p][i] # NegotiateOp
    BY <1>2 DEF MakingOK
<1>4. Replies(p)' => Replies(p)
    BY <1>2 DEF Replies
<1> QED
    BY <1>2, <1>3, <1>4

\* The connection of p has made an offer, which is sent if q has its seat.
LEMMA OfferInv ==
    ASSUME Types, Types', PeerInv, NEW p \in Page, NEW q \in Page, p # q,
           ops[p] # <<>>, Head(ops[p]).set = "local", ops'[p] = Tail(ops[p]),
           makingOffer'[p] <=> makingOffer[p] /\ Head(ops[p]).by = "handleOffer",
           sig[p] # "have-remote-offer", sig'[p] = "have-local-offer",
           offers'[p] = offers[p] + 1,
           peer'[p] = peer[p], life'[p] = life[p], partner'[p] = partner[p],
           flushing'[p] = flushing[p],
           Same(q), Sub(p), crossed' = crossed,
           NEW m \in Signal, Sub(q) \/ Sent(q, m),
           m.sdp = "offer", m.from = life[p], m.offer = <<p, life[p], offers[p] + 1>>,
           m.type = IF Head(ops[p]).by = "handleOffer" THEN "answer" ELSE "offer",
           Always(p, q), Always(q, p)
    PROVE  /\ Always(p, q)' /\ Always(q, p)'
           /\ Agrees(p, q) /\ Agrees(q, p) => Agrees(p, q)' /\ Agrees(q, p)'
<1>1. MakingOK(p)
    BY DEF Always
<1>2. /\ \A i \in 1..Len(ops'[p]) : ops'[p][i] # NegotiateOp
      /\ Replies(p)' => Replies(p)
      /\ 1 \in 1..Len(ops[p]) /\ Head(ops[p]) = ops[p][1]
    BY <1>1, PopFacts
<1>3. \/ ops[p][1] = NegotiateOp /\ ops[p][1].by = "onnegotiationneeded"
         /\ makingOffer[p]
      \/ ops[p][1] = ReplyOp /\ ops[p][1].by = "handleOffer" /\ Replies(p)
         /\ ~makingOffer[p]
  <2>1. ops[p][1] \in Operation
      BY <1>2, QueueFacts
  <2>2. \/ ops[p][1] = NegotiateOp /\ ops[p][1].by = "onnegotiationneeded"
        \/ ops[p][1] = ReplyOp /\ ops[p][1].by = "handleOffer"
      BY <1>2, <2>1, OperationFacts
  <2>3. NegotiateOp # ReplyOp
      BY DEF NegotiateOp, ReplyOp
  <2>4. makingOffer[p] <=> ops[p][1] = NegotiateOp
      BY <1>1 DEF MakingOK
  <2>5. ops[p][1] = ReplyOp => Replies(p)
      BY <1>2 DEF Replies
  <2> QED
      BY <2>2, <2>3, <2>4, <2>5
<1>4. ~makingOffer'[p]
    BY <1>2, <1>3
<1>5. MakingOK(p)'
  <2>1. ops'[p] # <<>> => 1 \in 1..Len(ops'[p])
      BY DEF Types, QueueTypes
  <2> QED
      BY <1>2, <1>4, <2>1 DEF MakingOK
<1>6. Thins(p) /\ Adds(q, m)
    BY SubThins, SentAdds
<1>7. /\ life[p] \in Nat /\ life[q] \in Nat /\ offers[p] \in Nat /\ offers[q] \in Nat
      /\ partner[q] \in Nat
    BY SpotTypes
<1>8. peer[p] /\ life[p] >= 1
    BY DEF PeerInv, Idle
<1>9. PICK g \in [Spot(q)' -> Spot(q) \cup {0}] : \A i \in Spot(q)' :
          /\ g[i] = 0 => /\ At(q, i)' = m /\ ~InOps(q, i)'
                         /\ \A j \in Spot(q)' : j <= i
          /\ g[i] # 0 => /\ g[i] \in Spot(q) /\ At(q, i)' = At(q, g[i])
                         /\ InOps(q, i)' <=> InOps(q, g[i])
          /\ \A j \in Spot(q)' : /\ i = j <=> g[i] = g[j]
                                 /\ g[i] # 0 /\ g[j] # 0 => (i < j <=> g[i] < g[j])
    BY <1>6 DEF Adds
<1>10. /\ \A i : /\ Live(q, p, i)' <=> peer[p] /\ At(q, i)'.from = life[p]
                 /\ Live(p, q, i)' <=> peer[q] /\ At(p, i)'.from = life[q]
       /\ \A i \in Spot(q)' : i \in Nat /\ At(q, i)'.from \in Nat
       /\ \A i \in Spot(q) : i \in Nat /\ At(q, i).from \in Nat
                             /\ At(q, i).offer[3] \in Nat
    BY SpotTypes, SpotTypesPrime DEF Live, Same, SamePc
<1>11. CrossedOK(p, q)' /\ CrossedOK(q, p)'
    BY DEF CrossedOK, Same, SamePc, Always
<1>12. FromOK(p, q)'
    BY <1>6, <1>7, FromThins DEF Same, SamePc, Always
<1>13. FromOK(q, p)'
  <2>1. FromOK(q, p) /\ partner'[q] = partner[q] /\ peer'[p] = peer[p]
      BY DEF Same, SamePc, Always
  <2>2. /\ offers[p] <= offers'[p] /\ 1 <= offers'[p]
        /\ m.offer = <<p, life[p], offers'[p]>>
      BY <1>7
  <2> QED
      BY <1>6, <1>8, <2>1, <2>2, FromAdds
<1>14. FreshOK(p, q)'
  <2>1. SUFFICES ASSUME partner[p] = 0
                 PROVE  /\ flushing[p] = 0 /\ ~Replies(p)' /\ offers[p] + 1 = 1
                        /\ \A i \in Spot(q)' : Live(q, p, i)' =>
                               /\ At(q, i)'.sdp = "offer" /\ At(q, i)'.type = "offer"
                               /\ \A j \in Spot(q)' : Live(q, p, j)' => i = j
      BY DEF FreshOK
  <2>2. /\ flushing[p] = 0 /\ ~Replies(p)
        /\ offers[p] = IF sig[p] = "have-local-offer" THEN 1 ELSE 0
        /\ \A i \in Spot(q) : Live(q, p, i) => sig[p] = "have-local-offer"
      BY <2>1 DEF Always, FreshOK
  <2>3. makingOffer[p] /\ sig[p] = "stable" /\ m.type = "offer"
      BY <1>1, <1>2, <1>3, <2>2 DEF MakingOK
  <2>4. \A i \in Spot(q)' : Live(q, p, i)' => g[i] = 0
      BY <1>9, <1>10, <2>2, <2>3 DEF Live
  <2> QED
      BY <1>2, <1>9, <2>2, <2>3, <2>4
<1>15. FreshOK(q, p)'
    BY <1>6, FreshThins, SameReplies DEF Same, SamePc, Always
<1>16. Always(p, q)' /\ Always(q, p)'
    BY <1>5, <1>11, <1>12, <1>13, <1>14, <1>15, SameMaking DEF Always
<1>17. ASSUME Agrees(p, q), Agrees(q, p)
       PROVE  Agrees(p, q)' /\ Agrees(q, p)'
  <2>1. /\ flushing[p] = 0 /\ ~Replies(p) /\ makingOffer[p] /\ sig[p] = "stable"
        /\ m.type = "offer"
      BY <1>1, <1>2, <1>3, <1>17 DEF MakingOK, Agrees, NoReplyOK
  <2>2. PICK h \in [Spot(p)' -> Spot(p)] : \A i \in Spot(p)' :
            /\ At(p, i)' = At(p, h[i])
            /\ InOps(p, i)' <=> InOps(p, h[i])
            /\ \A j \in Spot(p)' : i < j => h[i] < h[j]
      BY DEF Sub
  <2>3. \A i \in Spot(p)' : ~LiveAnswer(p, q, i)'
      BY <1>10, <1>17, <2>1, <2>2 DEF Agrees, AnswerOK, LiveAnswer, Live
  <2>4. LabelOK(p, q)' /\ AnswerOK(p, q)' /\ ReplyOK(p, q)' /\ NoReplyOK(p)'
    <3>1. LabelOK(p, q)'
        BY <1>10, <1>17, <2>2 DEF Agrees, LabelOK, Live
    <3> QED
        BY <1>2, <2>1, <2>3, <3>1 DEF AnswerOK, ReplyOK, NoReplyOK
  <2>5. OfferOK(p, q)'
    <3> SUFFICES ASSUME NEW i \in Spot(p)', LiveOffer(p, q, i)'
                 PROVE  /\ sig[q] = "have-local-offer" /\ At(p, i)'.offer[3] = offers[q]
                        /\ \A j \in Spot(p)' : j <= i
        BY DEF OfferOK, Same, SamePc
    <3>1. LiveOffer(p, q, h[i])
        BY <1>10, <2>2 DEF LiveOffer, Live
    <3>2. /\ sig[q] = "have-local-offer" /\ At(p, h[i]).offer[3] = offers[q]
          /\ \A j \in Spot(p) : j <= h[i]
        BY <1>17, <2>1, <3>1 DEF Agrees, OfferOK
    <3>3. \A j \in Spot(p)' : j <= i
      <4>1. \A j \in Spot(p)' : j \in Nat /\ h[j] \in Nat
          BY SpotTypes, SpotTypesPrime
      <4> QED
          BY <2>2, <3>2, <4>1
    <3> QED
        BY <2>2, <3>2, <3>3
  <2>6. ImpoliteOK(p, q)'
      BY <1>10, <1>17, <2>1, <2>2 DEF Agrees, ImpoliteOK, LiveOffer, Live
  <2>7. \A i \in Spot(q)' : LiveAnswer(q, p, i)' =>
            g[i] # 0 /\ LiveAnswer(q, p, g[i]) /\ At(q, i)' = At(q, g[i])
      BY <1>9, <1>10 DEF LiveAnswer, Live
  <2>8. TurnOK(p, q)'
      BY <1>9, <1>10, <1>17, <2>2, <2>7 DEF Agrees, TurnOK, Live
  <2>9. LabelOK(q, p)'
      BY <1>9, <1>10, <1>17, <2>1 DEF Agrees, LabelOK, Live
  <2>10. AnswerOK(q, p)'
      BY <1>9, <1>17, <2>7 DEF Agrees, AnswerOK, Same, SamePc
  <2>11. ReplyOK(q, p)' /\ NoReplyOK(q)'
      BY <1>17, <2>1, SameReplies DEF Agrees, ReplyOK, NoReplyOK, Same, SamePc
  <2>12. OfferOK(q, p)'
    <3> SUFFICES ASSUME NEW i \in Spot(q)', LiveOffer(q, p, i)'
                 PROVE  \/ /\ At(q, i)'.offer[3] = offers[p] + 1
                           /\ \A j \in Spot(q)' : j <= i
                        \/ /\ p = Polite /\ ~InOps(q, i)' /\ sig[q] = "have-local-offer"
                           /\ At(q, i)'.offer[3] < offers[p] + 1
                           /\ \A j \in Spot(q)' : LiveAnswer(q, p, j)' => i < j
        BY DEF OfferOK, Same, SamePc
    <3>1. CASE g[i] = 0
        BY <1>9, <3>1
    <3>2. CASE g[i] # 0
      <4>1. g[i] \in Spot(q) /\ LiveOffer(q, p, g[i])
          BY <1>9, <1>10, <3>2 DEF LiveOffer, Live
      <4>2. /\ p = Polite /\ ~InOps(q, g[i]) /\ sig[q] = "have-local-offer"
            /\ \A j \in Spot(q) : LiveAnswer(q, p, j) => g[i] < j
          BY <1>17, <2>1, <4>1 DEF Agrees, OfferOK
      <4>3. \A j \in Spot(q)' : LiveAnswer(q, p, j)' => i < j
          BY <1>9, <2>7, <3>2, <4>2
      <4>4. At(q, g[i]).offer[3] <= offers[p]
          BY <4>1 DEF Always, FromOK, LiveOffer
      <4>5. At(q, g[i]).offer[3] < offers[p] + 1
          BY <4>1, <4>4, SpotTypes
      <4> QED
          BY <1>9, <3>2, <4>2, <4>3, <4>5
    <3> QED
        BY <3>1, <3>2
  <2>13. ImpoliteOK(q, p)'
      BY <1>9, <1>10, <1>17 DEF Agrees, ImpoliteOK, LiveOffer, Live, Same, SamePc
  <2>14. TurnOK(q, p)'
      BY <2>3 DEF TurnOK
  <2> QED
      BY <2>4, <2>5, <2>6, <2>8, <2>9, <2>10, <2>11, <2>12, <2>13, <2>14 DEF Agrees
<1> QED
    BY <1>16, <1>17

\* The connection of p has made an answer, which is sent if q has its seat.
LEMMA AnswerInv ==
    ASSUME Types, Types', PeerInv, NEW p \in Page, NEW q \in Page, p # q,
           ops[p] # <<>>, ops'[p] = Tail(ops[p]),
           makingOffer'[p] <=> makingOffer[p] /\ Head(ops[p]).by = "handleOffer",
           sig[p] = "have-remote-offer", sig'[p] = "stable",
           peer'[p] = peer[p], life'[p] = life[p], partner'[p] = partner[p],
           flushing'[p] = flushing[p], offers'[p] = offers[p],
           Same(q), Sub(p), crossed' = crossed,
           NEW m \in Signal, Sub(q) \/ Sent(q, m),
           m.sdp = "answer", m.from = life[p], m.offer = applying[p],
           m.type = IF Head(ops[p]).by = "handleOffer" THEN "answer" ELSE "offer",
           Always(p, q), Always(q, p)
    PROVE  /\ Always(p, q)' /\ Always(q, p)'
           /\ Agrees(p, q) /\ Agrees(q, p) => Agrees(p, q)' /\ Agrees(q, p)'
<1>1. MakingOK(p) /\ ~makingOffer[p]
    BY DEF Always, MakingOK
<1>2. /\ \A i \in 1..Len(ops'[p]) : ops'[p][i] # NegotiateOp
      /\ Replies(p)' => Replies(p)
    BY <1>1, PopFacts
<1>3. MakingOK(p)'
  <2>1. ops'[p] # <<>> => 1 \in 1..Len(ops'[p])
      BY DEF Types, QueueTypes
  <2> QED
      BY <1>1, <1>2, <2>1 DEF MakingOK
<1>4. Thins(p) /\ Adds(q, m)
    BY SubThins, SentAdds
<1>5. /\ life[p] \in Nat /\ life[q] \in Nat /\ offers[p] \in Nat /\ offers[q] \in Nat
    BY SpotTypes
<1>6. peer[p] /\ life[p] >= 1
    BY DEF PeerInv, Idle
<1>7. CrossedOK(p, q)' /\ CrossedOK(q, p)'
    BY DEF CrossedOK, Same, SamePc, Always
<1>8. FromOK(p, q)' /\ FromOK(q, p)'
  <2>1. FromOK(p, q)'
      BY <1>4, <1>5, FromThins DEF Same, SamePc, Always
  <2>2. FromOK(q, p)'
    <3>1. FromOK(q, p) /\ partner'[q] = partner[q] /\ m.sdp # "offer"
        BY DEF Same, SamePc, Always
    <3>2. offers[p] <= offers'[p]
        BY <1>5
    <3> QED
        BY <1>4, <1>6, <3>1, <3>2, FromAdds
  <2> QED
      BY <2>1, <2>2
<1>9. FreshOK(p, q)'
    BY DEF FreshOK, Always
<1>10. FreshOK(q, p)'
    BY <1>4, FreshThins, SameReplies DEF Same, SamePc, Always
<1>11. Always(p, q)' /\ Always(q, p)'
    BY <1>3, <1>7, <1>8, <1>9, <1>10, SameMaking DEF Always
<1>12. ASSUME Agrees(p, q), Agrees(q, p)
       PROVE  Agrees(p, q)' /\ Agrees(q, p)'
  <2>1. /\ Spot(p) = {} /\ flushing[p] = 0 /\ ops[p] = <<ReplyOp>>
        /\ sig[q] = "have-local-offer" /\ applying[p] = <<q, life[q], offers[q]>>
        /\ \A j \in Spot(q) : ~LiveAnswer(q, p, j)
      BY <1>12 DEF Agrees, ReplyOK
  <2>2. Spot(p)' = {} /\ ~Replies(p)' /\ m.type = "answer"
    <3>1. Spot(p)' = {}
        BY <2>1 DEF Sub
    <3>2. ops'[p] = <<>> /\ 1..Len(ops'[p]) = {}
        BY <2>1
    <3>3. Head(ops[p]).by = "handleOffer"
        BY <2>1 DEF ReplyOp
    <3> QED
        BY <3>1, <3>2, <3>3 DEF Replies
  <2>3. Agrees(p, q)'
      BY <2>1, <2>2 DEF Agrees, LabelOK, AnswerOK, ReplyOK, NoReplyOK, OfferOK,
                        ImpoliteOK, TurnOK
  <2>4. PICK g \in [Spot(q)' -> Spot(q) \cup {0}] : \A i \in Spot(q)' :
            /\ g[i] = 0 => /\ At(q, i)' = m /\ ~InOps(q, i)'
                           /\ \A j \in Spot(q)' : j <= i
            /\ g[i] # 0 => /\ g[i] \in Spot(q) /\ At(q, i)' = At(q, g[i])
                           /\ InOps(q, i)' <=> InOps(q, g[i])
            /\ \A j \in Spot(q)' : i = j <=> g[i] = g[j]
      BY <1>4 DEF Adds
  <2>5. /\ \A i : Live(q, p, i)' <=> peer[p] /\ At(q, i)'.from = life[p]
        /\ \A i \in Spot(q)' : i \in Nat
      BY SpotTypesPrime DEF Live
  <2>6. \A i \in Spot(q)' : LiveAnswer(q, p, i)' => g[i] = 0
      BY <2>1, <2>4, <2>5 DEF LiveAnswer, Live
  <2>7. LabelOK(q, p)'
      BY <1>12, <2>2, <2>4, <2>5 DEF Agrees, LabelOK, Live
  <2>8. AnswerOK(q, p)'
      BY <2>1, <2>4, <2>6 DEF AnswerOK, Same, SamePc
  <2>9. ReplyOK(q, p)' /\ NoReplyOK(q)' /\ TurnOK(q, p)'
      BY <1>12, <2>1, <2>2, SameReplies
      DEF Agrees, ReplyOK, NoReplyOK, TurnOK, Same, SamePc
  <2>10. OfferOK(q, p)'
    <3> SUFFICES ASSUME NEW i \in Spot(q)', LiveOffer(q, p, i)'
                 PROVE  /\ p = Polite /\ ~InOps(q, i)' /\ sig[q] = "have-local-offer"
                        /\ \A j \in Spot(q)' : LiveAnswer(q, p, j)' => i < j
        BY DEF OfferOK, Same, SamePc
    <3>1. g[i] \in Spot(q) /\ LiveOffer(q, p, g[i]) /\ g[i] # 0
        BY <2>4, <2>5 DEF LiveOffer, Live
    <3>2. p = Polite /\ ~InOps(q, g[i]) /\ sig[q] = "have-local-offer"
        BY <1>12, <3>1 DEF Agrees, OfferOK
    <3>3. \A j \in Spot(q)' : LiveAnswer(q, p, j)' => i # j /\ i <= j
        BY <2>4, <2>6, <3>1
    <3> QED
        BY <2>4, <2>5, <3>1, <3>2, <3>3
  <2>11. ImpoliteOK(q, p)'
      BY <1>12, <2>4, <2>5 DEF Agrees, ImpoliteOK, LiveOffer, Live, Same, SamePc
  <2> QED
      BY <2>3, <2>7, <2>8, <2>9, <2>10, <2>11 DEF Agrees
<1> QED
    BY <1>11, <1>12

\* setRemoteDescription takes the first signal off the chain.
LEMMA PopSpots ==
    ASSUME Types, Types', NEW p \in Page, NEW m \in Signals(p),
           ops'[p] = Tail(ops[p]), channel'[p] = channel[p]
    PROVE  /\ 1 \in Spot(p) /\ At(p, 1) = m /\ InOps(p, 1)
           /\ \A i \in Spot(p)' : /\ i + 1 \in Spot(p) /\ At(p, i)' = At(p, i + 1)
                                  /\ InOps(p, i)' <=> InOps(p, i + 1)
           /\ ops'[p] # <<>> => /\ 1 \in 1..Len(ops'[p]) /\ ops'[p][1] \in Operation
                                /\ ops'[p][1].set = "remote" => 1 \in Spot(p)'
           /\ Sub(p)
<1> DEFINE o == Len(ops[p])
           c == Len(channel[p])
<1>1. /\ ops[p] # <<>> /\ ops[p][1].set = "remote" /\ ops[p][1].signal = m
      /\ ops[p] \in Seq(Operation) /\ o \in Nat \ {0} /\ c \in Nat
    BY SignalFacts, QueueFacts
<1>2. /\ Len(ops'[p]) = o - 1 /\ Len(channel'[p]) = c
      /\ \A i \in 1..(o - 1) : ops'[p][i] = ops[p][i + 1]
      /\ \A i \in 1..(o - 1) : ops'[p][i] \in Operation
    BY <1>1
<1>3. /\ Spot(p) \subseteq 1..(o + c)
      /\ \A i \in 1..(o + c) : i \in Spot(p) <=>
             IF i <= o THEN ops[p][i].set = "remote"
             ELSE channel[p][i - o].type \in {"offer", "answer"}
    BY DEF Spot
<1>4. /\ Spot(p)' \subseteq 1..((o - 1) + c)
      /\ \A i \in 1..((o - 1) + c) : i \in Spot(p)' <=>
             IF i <= o - 1 THEN ops'[p][i].set = "remote"
             ELSE channel[p][i - (o - 1)].type \in {"offer", "answer"}
    BY <1>2 DEF Spot
<1>5. \A i : /\ At(p, i) = IF i <= o THEN ops[p][i].signal ELSE channel[p][i - o]
             /\ At(p, i)' = IF i <= o - 1 THEN ops'[p][i].signal
                            ELSE channel[p][i - (o - 1)]
             /\ InOps(p, i) <=> i <= o
             /\ InOps(p, i)' <=> i <= o - 1
    BY <1>2 DEF At, InOps
<1>6. ops'[p] # <<>> <=> o - 1 # 0
  <2>1. ops'[p] \in Seq(Operation)
      BY DEF Types, QueueTypes
  <2>2. \A s \in Seq(Operation) : s # <<>> <=> Len(s) # 0
      OBVIOUS
  <2> QED
      BY <1>2, <2>1, <2>2
<1> HIDE DEF o, c
<1>7. 1 \in Spot(p) /\ At(p, 1) = m /\ InOps(p, 1)
  <2>1. 1 <= o /\ 1 \in 1..(o + c)
      BY <1>1
  <2> QED
      BY <1>1, <1>3, <1>5, <2>1
<1>8. ASSUME NEW i \in Spot(p)'
      PROVE  /\ i + 1 \in Spot(p) /\ At(p, i)' = At(p, i + 1)
             /\ InOps(p, i)' <=> InOps(p, i + 1)
  <2>1. /\ i \in 1..((o - 1) + c) /\ i \in Nat /\ i + 1 \in 1..(o + c)
        /\ i <= o - 1 <=> i + 1 <= o
        /\ i <= o - 1 => i \in 1..(o - 1)
        /\ i - (o - 1) = (i + 1) - o
      BY <1>1, <1>4, <1>8
  <2>2. CASE i <= o - 1
    <3>1. ops'[p][i] = ops[p][i + 1]
        BY <1>2, <2>1, <2>2
    <3> QED
        BY <1>3, <1>4, <1>5, <1>8, <2>1, <2>2, <3>1
  <2>3. CASE ~(i <= o - 1)
    <3>1. channel[p][i - (o - 1)] = channel[p][(i + 1) - o]
        BY <2>1
    <3> QED
        BY <1>3, <1>4, <1>5, <1>8, <2>1, <2>3, <3>1
  <2> QED
      BY <2>2, <2>3
<1>9. ASSUME ops'[p] # <<>>
      PROVE  /\ 1 \in 1..Len(ops'[p]) /\ ops'[p][1] \in Operation
             /\ ops'[p][1].set = "remote" => 1 \in Spot(p)'
  <2>1. 1 \in 1..(o - 1) /\ 1 <= o - 1 /\ 1 \in 1..((o - 1) + c)
      BY <1>1, <1>6, <1>9
  <2> QED
      BY <1>2, <1>4, <2>1
<1>10. Sub(p)
  <2> DEFINE h == [i \in Spot(p)' |-> i + 1]
  <2>1. h \in [Spot(p)' -> Spot(p)] /\ \A i \in Spot(p)' : h[i] = i + 1
      BY <1>8
  <2> HIDE DEF h
  <2>2. \A i \in Spot(p)' : i \in Nat
      BY SpotTypesPrime
  <2>3. \A i \in Spot(p)', j \in Spot(p)' : i < j => h[i] < h[j]
      BY <2>1, <2>2
  <2> QED
      BY <1>8, <2>1, <2>3 DEF Sub
<1> QED
    BY <1>7, <1>8, <1>9, <1>10

\* p applies a description, or its connection refuses it.
LEMMA RemoteAlways ==
    ASSUME Types, Types', PeerInv, NEW p \in Page, NEW q \in Page, p # q,
           NEW m \in Signals(p), ops'[p] = Tail(ops[p]), channel'[p] = channel[p],
           peer'[p] = peer[p], life'[p] = life[p], offers'[p] = offers[p],
           makingOffer'[p] = makingOffer[p],
           \/ partner'[p] = m.from
           \/ /\ partner'[p] = partner[p] /\ sig'[p] = sig[p]
              /\ flushing'[p] = flushing[p],
           Same(q), Sub(q),
           p \notin crossed' => p \notin crossed /\ peer[q] /\ m.from = life[q],
           q \in crossed' <=> q \in crossed,
           Always(p, q), Always(q, p)
    PROVE  Always(p, q)' /\ Always(q, p)' /\ ~makingOffer[p]
<1>1. /\ 1 \in Spot(p) /\ At(p, 1) = m
      /\ \A i \in Spot(p)' : i + 1 \in Spot(p) /\ At(p, i)' = At(p, i + 1)
      /\ Sub(p)
    BY PopSpots
<1>2. /\ ops[p] # <<>> /\ ops[p][1].set = "remote" /\ ops[p][1] # NegotiateOp
    BY SignalFacts DEF NegotiateOp
<1>3. MakingOK(p) /\ ~makingOffer[p]
    BY <1>2 DEF Always, MakingOK
<1>4. /\ \A i \in 1..Len(ops'[p]) : ops'[p][i] # NegotiateOp
      /\ Replies(p)' => Replies(p)
    BY <1>2, <1>3, PopFacts
<1>5. MakingOK(p)'
  <2>1. ops'[p] # <<>> => 1 \in 1..Len(ops'[p])
      BY DEF Types, QueueTypes
  <2> QED
      BY <1>3, <1>4, <2>1 DEF MakingOK
<1>6. Thins(p) /\ Thins(q)
    BY <1>1, SubThins
<1>7. peer[p]
    BY <1>2 DEF PeerInv, Idle
<1>8. CrossedOK(p, q)' /\ CrossedOK(q, p)'
  <2>1. CrossedOK(p, q)'
      BY <1>7 DEF CrossedOK, Same, SamePc, Always
  <2>2. CrossedOK(q, p)'
      BY DEF CrossedOK, Same, SamePc, Always
  <2> QED
      BY <2>1, <2>2
<1>9. /\ life[p] \in Nat /\ life[q] \in Nat /\ offers[p] \in Nat /\ offers[q] \in Nat
      /\ partner[p] \in Nat /\ m.from \in Nat /\ partner[p] <= m.from
      /\ 1 <= m.from /\ m.from <= life[q]
    BY <1>1, SpotTypes DEF Always, FromOK
<1>10. FromOK(p, q)'
  <2>1. CASE partner'[p] = partner[p]
      BY <1>6, <1>9, <2>1, FromThins DEF Same, SamePc, Always
  <2>2. CASE partner'[p] = m.from
    <3>1. /\ life'[q] = life[q] /\ offers'[q] = offers[q] /\ peer'[q] = peer[q]
          /\ \A i \in Spot(p)' : i \in Nat
        BY SpotTypesPrime DEF Same, SamePc
    <3>2. ASSUME NEW i \in Spot(p)'
          PROVE  /\ 1 <= At(p, i)'.from /\ At(p, i)'.from <= life[q]
                 /\ m.from <= At(p, i)'.from
                 /\ \A j \in Spot(p)' : i < j => At(p, i)'.from <= At(p, j)'.from
                 /\ At(p, i)'.sdp = "offer" =>
                        /\ At(p, i)'.offer[1] = q
                        /\ At(p, i)'.offer[2] = At(p, i)'.from
                        /\ 1 <= At(p, i)'.offer[3]
                        /\ Live(p, q, i)' => At(p, i)'.offer[3] <= offers[q]
      <4>1. i + 1 \in Spot(p) /\ At(p, i)' = At(p, i + 1) /\ 1 < i + 1
          BY <1>1, <3>1, <3>2, SpotTypesPrime
      <4>2. At(p, 1).from <= At(p, i + 1).from
          BY <1>1, <4>1 DEF Always, FromOK
      <4>3. \A j \in Spot(p)' : i < j => At(p, i + 1).from <= At(p, j + 1).from
        <5> SUFFICES ASSUME NEW j \in Spot(p)', i < j
                     PROVE  At(p, i + 1).from <= At(p, j + 1).from
            OBVIOUS
        <5>1. j + 1 \in Spot(p) /\ i + 1 < j + 1
            BY <1>1, <3>1
        <5> QED
            BY <4>1, <5>1 DEF Always, FromOK
      <4>4. /\ 1 <= At(p, i + 1).from /\ At(p, i + 1).from <= life[q]
            /\ At(p, i + 1).sdp = "offer" =>
                   /\ At(p, i + 1).offer[1] = q
                   /\ At(p, i + 1).offer[2] = At(p, i + 1).from
                   /\ 1 <= At(p, i + 1).offer[3]
                   /\ Live(p, q, i + 1) => At(p, i + 1).offer[3] <= offers[q]
          BY <4>1 DEF Always, FromOK
      <4>5. Live(p, q, i)' <=> Live(p, q, i + 1)
          BY <3>1, <4>1 DEF Live
      <4> QED
          BY <1>1, <4>1, <4>2, <4>3, <4>4, <4>5
    <3> QED
        BY <1>9, <2>2, <3>1, <3>2 DEF FromOK
  <2> QED
      BY <2>1, <2>2
<1>11. FromOK(q, p)'
    BY <1>6, <1>9, FromThins DEF Same, SamePc, Always
<1>12. FreshOK(p, q)'
  <2>1. CASE partner'[p] = m.from
      BY <1>9, <2>1 DEF FreshOK
  <2>2. CASE partner'[p] = partner[p] /\ sig'[p] = sig[p] /\ flushing'[p] = flushing[p]
      BY <1>4, <1>6, <2>2, FreshThins DEF Always
  <2> QED
      BY <2>1, <2>2
<1>13. FreshOK(q, p)'
    BY <1>6, FreshThins, SameReplies DEF Same, SamePc, Always
<1> QED
    BY <1>3, <1>5, <1>8, <1>10, <1>11, <1>12, <1>13, SameMaking DEF Always

\* p applies an offer of the connection at the other end.
LEMMA RemoteOfferAgrees ==
    ASSUME Types, Types', NEW p \in Page, NEW q \in Page, p # q,
           NEW m \in Signals(p), ops'[p] = Tail(ops[p]), channel'[p] = channel[p],
           m.sdp = "offer", peer[q], m.from = life[q],
           sig'[p] = "have-remote-offer", applying'[p] = m.offer,
           flushing'[p] = IF m.type = "offer" THEN flushing[p] + 1 ELSE flushing[p],
           peer'[p] = peer[p], life'[p] = life[p], offers'[p] = offers[p],
           Same(q), Sub(q), Always(p, q), Agrees(p, q), Agrees(q, p)
    PROVE  Agrees(p, q)' /\ Agrees(q, p)'
<1>1. /\ 1 \in Spot(p) /\ At(p, 1) = m /\ InOps(p, 1)
      /\ \A i \in Spot(p)' : i + 1 \in Spot(p)
      /\ ops'[p] # <<>> => /\ 1 \in 1..Len(ops'[p]) /\ ops'[p][1] \in Operation
                           /\ ops'[p][1].set = "remote" => 1 \in Spot(p)'
    BY PopSpots
<1>2. LiveOffer(p, q, 1) /\ Live(p, q, 1) /\ m.type = "offer"
    BY <1>1 DEF LiveOffer, Live, Agrees, LabelOK
<1>3. /\ sig[q] = "have-local-offer" /\ m.offer[3] = offers[q]
      /\ \A j \in Spot(p) : j <= 1
    BY <1>1, <1>2 DEF Agrees, OfferOK
<1>4. Spot(p)' = {}
    BY <1>1, <1>3, SpotTypesPrime
<1>5. flushing[p] = 0 /\ ~Replies(p)
    BY <1>1 DEF Agrees, ReplyOK, NoReplyOK
<1>6. ops'[p] = <<>>
  <2>1. /\ \A i \in 1..Len(ops'[p]) : ops'[p][i] # NegotiateOp
        /\ ~Replies(p)'
      BY <1>5, PopFacts, SignalFacts DEF Always
  <2>2. SUFFICES ASSUME ops'[p] # <<>> PROVE FALSE
      OBVIOUS
  <2>3. ops'[p][1] \in {NegotiateOp, ReplyOp}
      BY <1>1, <1>4, <2>2, OperationFacts
  <2> QED
      BY <1>1, <2>1, <2>2, <2>3 DEF Replies
<1>7. \A j \in Spot(q) : ~LiveAnswer(q, p, j)
    BY <1>1, <1>2 DEF Agrees, TurnOK
<1>8. m.offer = <<q, life[q], offers[q]>>
  <2>1. m.offer \in Page \X Nat \X Nat
      BY SignalFacts DEF Signal, Offer
  <2>2. m.offer[1] = q /\ m.offer[2] = life[q]
      BY <1>1 DEF Always, FromOK
  <2> QED
      BY <1>3, <2>1, <2>2
<1>9. PICK g \in [Spot(q)' -> Spot(q)] : \A i \in Spot(q)' :
          /\ At(q, i)' = At(q, g[i])
          /\ InOps(q, i)' <=> InOps(q, g[i])
    BY DEF Sub
<1>10. \A i \in Spot(q)' : ~LiveAnswer(q, p, i)'
    BY <1>7, <1>9 DEF LiveAnswer, Live
<1>11. Agrees(p, q)'
  <2>1. ReplyOK(p, q)'
    <3>1. flushing'[p] = 1
        BY <1>2, <1>5
    <3> QED
        BY <1>3, <1>4, <1>6, <1>8, <1>10, <3>1 DEF ReplyOK, Same, SamePc
  <2> QED
      BY <1>4, <2>1
      DEF Agrees, LabelOK, AnswerOK, NoReplyOK, OfferOK, ImpoliteOK, TurnOK
<1>12. \A i \in Spot(q)' : Live(q, p, i)' <=> Live(q, p, g[i])
    BY <1>9 DEF Live
<1>13. OfferOK(q, p)'
  <2> SUFFICES ASSUME NEW i \in Spot(q)', LiveOffer(q, p, i)'
               PROVE  p = Polite /\ ~InOps(q, i)'
      BY <1>3, <1>10 DEF OfferOK, Same, SamePc
  <2>1. g[i] \in Spot(q) /\ LiveOffer(q, p, g[i])
      BY <1>9, <1>12 DEF LiveOffer
  <2>2. CASE p = Polite
      BY <1>3, <1>9, <2>1, <2>2 DEF Agrees, ImpoliteOK
  <2>3. CASE p # Polite
      BY <1>1, <1>2, <2>1, <2>3 DEF Agrees, ImpoliteOK, OfferOK
  <2> QED
      BY <2>2, <2>3
<1>14. Agrees(q, p)'
  <2>1. LabelOK(q, p)'
      BY <1>9, <1>12 DEF Agrees, LabelOK
  <2>2. AnswerOK(q, p)' /\ TurnOK(q, p)'
      BY <1>4, <1>10 DEF AnswerOK, TurnOK
  <2>3. ReplyOK(q, p)' /\ NoReplyOK(q)'
      BY <1>3, SameReplies DEF Agrees, ReplyOK, NoReplyOK, Same, SamePc
  <2>4. ImpoliteOK(q, p)'
      BY <1>9, <1>12 DEF Agrees, ImpoliteOK, LiveOffer, Same, SamePc
  <2> QED
      BY <1>13, <2>1, <2>2, <2>3, <2>4 DEF Agrees
<1> QED
    BY <1>11, <1>14

\* p applies the answer to its offer.
LEMMA RemoteAnswerAgrees ==
    ASSUME Types, Types', NEW p \in Page, NEW q \in Page, p # q,
           NEW m \in Signals(p), ops'[p] = Tail(ops[p]), channel'[p] = channel[p],
           m.sdp = "answer", peer[q], m.from = life[q],
           sig[p] = "have-local-offer", sig'[p] = "stable", flushing'[p] = flushing[p],
           peer'[p] = peer[p], life'[p] = life[p], offers'[p] = offers[p],
           ~makingOffer'[p],
           Same(q), Sub(q), Always(p, q), Agrees(p, q), Agrees(q, p)
    PROVE  Agrees(p, q)' /\ Agrees(q, p)'
<1>1. /\ 1 \in Spot(p) /\ At(p, 1) = m /\ InOps(p, 1)
      /\ \A i \in Spot(p)' : /\ i + 1 \in Spot(p) /\ At(p, i)' = At(p, i + 1)
                             /\ InOps(p, i)' <=> InOps(p, i + 1)
    BY PopSpots
<1>2. /\ \A i \in Spot(p)' : i \in Nat \ {0}
      /\ \A i \in Spot(p)' : Live(p, q, i)' <=> Live(p, q, i + 1)
    BY <1>1, SpotTypesPrime DEF Live, Same, SamePc
<1>3. LiveAnswer(p, q, 1)
    BY <1>1 DEF LiveAnswer, Live
<1>4. \A j \in Spot(p) : LiveAnswer(p, q, j) => 1 = j
    BY <1>1, <1>3 DEF Agrees, AnswerOK
<1>5. \A i \in Spot(p)' : ~LiveAnswer(p, q, i)'
  <2>1. \A i \in Spot(p)' :
            i + 1 # 1 /\ (LiveAnswer(p, q, i)' => LiveAnswer(p, q, i + 1))
      BY <1>1, <1>2 DEF LiveAnswer
  <2> QED
      BY <1>1, <1>4, <2>1
<1>6. \A j \in Spot(q) : ~Live(q, p, j)
    BY <1>1, <1>3 DEF Agrees, TurnOK
<1>7. \A i \in Spot(q)' : ~Live(q, p, i)'
  <2>1. PICK g \in [Spot(q)' -> Spot(q)] : \A i \in Spot(q)' : At(q, i)' = At(q, g[i])
      BY DEF Sub
  <2> QED
      BY <1>6, <2>1 DEF Live
<1>8. sig[q] # "have-remote-offer"
    BY <1>1, <1>3 DEF Agrees, ReplyOK
<1>9. NoReplyOK(p)' /\ NoReplyOK(q)'
  <2>1. Replies(p)' => Replies(p)
      BY PopFacts, SignalFacts DEF Always
  <2>2. flushing[p] = 0 /\ ~Replies(p)
      BY DEF Agrees, NoReplyOK
  <2>3. flushing[q] = 0 /\ ~Replies(q)
      BY <1>8 DEF Agrees, NoReplyOK
  <2> QED
      BY <2>1, <2>2, <2>3, SameReplies DEF NoReplyOK, Same, SamePc
<1>10. OfferOK(p, q)'
  <2> SUFFICES ASSUME NEW i \in Spot(p)', LiveOffer(p, q, i)'
               PROVE  /\ sig[q] = "have-local-offer" /\ At(p, i)'.offer[3] = offers[q]
                      /\ \A j \in Spot(p)' : j <= i
      BY DEF OfferOK, Same, SamePc
  <2>1. i + 1 \in Spot(p) /\ LiveOffer(p, q, i + 1) /\ ~(i + 1 < 1)
      BY <1>1, <1>2 DEF LiveOffer
  <2>2. /\ sig[q] = "have-local-offer" /\ At(p, i + 1).offer[3] = offers[q]
        /\ \A j \in Spot(p) : j <= i + 1
      BY <1>1, <1>3, <2>1 DEF Agrees, OfferOK
  <2>3. \A j \in Spot(p)' : j <= i
      BY <1>1, <1>2, <2>2
  <2> QED
      BY <1>1, <2>2, <2>3
<1>11. Agrees(p, q)'
  <2>1. LabelOK(p, q)'
      BY <1>1, <1>2 DEF Agrees, LabelOK
  <2> QED
      BY <1>5, <1>7, <1>9, <1>10, <2>1
      DEF Agrees, AnswerOK, ReplyOK, ImpoliteOK, TurnOK, LiveAnswer
<1>12. Agrees(q, p)'
    BY <1>7, <1>8, <1>9 DEF Agrees, LabelOK, AnswerOK, ReplyOK, OfferOK, ImpoliteOK,
                            TurnOK, LiveOffer, LiveAnswer, Same, SamePc
<1> QED
    BY <1>11, <1>12

LEMMA NothingIsSent ==
    ASSUME Types, Types', NEW p \in Page,
           \/ ops'[p] = ops[p] \/ ops'[p] = <<>>
           \/ ops[p] # <<>> /\ ops'[p] = Tail(ops[p])
           \/ \E op \in Operation : op.set = "local" /\ ops'[p] = Append(ops[p], op),
           \/ channel'[p] = channel[p]
           \/ channel[p] # <<>> /\ channel'[p] = Tail(channel[p])
           \/ \E m \in Message : channel'[p] = Append(channel[p], m)
    PROVE  Sub(p)
BY OpsFewerCases, ChannelFewerCases, FewerIsSub

\* The two pages of which a step's lemma speaks are all there are.
LEMMA PairInv ==
    ASSUME NEW p \in Page, NEW q \in Page, p # q,
           Always(p, q)', Always(q, p)',
           crossed' = {} => Agrees(p, q)' /\ Agrees(q, p)'
    PROVE  NegotiationInv'
<1>1. ASSUME NEW r \in Page, NEW s \in Page, r # s
      PROVE  (r = p /\ s = q) \/ (r = q /\ s = p)
    BY <1>1, TwoPages
<1>2. ASSUME NEW r \in Page, NEW s \in Page, r # s
      PROVE  Always(r, s)' /\ (crossed' = {} => Agrees(r, s)')
    BY <1>1, <1>2
<1> QED
    BY <1>2 DEF NegotiationInv

LEMMA StutterInv ==
    ASSUME Types, Types', NegotiationInv, crossed' = crossed,
           \A r \in Page : Same(r) /\ Sub(r)
    PROVE  NegotiationInv'
<1> SUFFICES ASSUME NEW p \in Page, NEW q \in Page, p # q
             PROVE  Always(p, q)' /\ (crossed' = {} => Agrees(p, q)')
    BY DEF NegotiationInv
<1>1. SameSeen(q) /\ Thins(p) /\ Thins(q)
    BY SubThins DEF Same, SamePc, SameSeen
<1>2. Always(p, q)'
    BY <1>1, StutterAlways DEF NegotiationInv
<1>3. crossed' = {} => Agrees(p, q)'
    BY <1>1, StutterAgrees DEF NegotiationInv
<1> QED
    BY <1>2, <1>3

\* The steps that touch no connection.
LEMMA RoomStepInv ==
    ASSUME Types, Types', NegotiationInv, NEW p \in Page,
           \/ ChangeMedia(p) \/ TakeSeat(p) \/ SendRoomJoined(p) \/ TellJoined(p)
           \/ JoinElsewhere(p)
           \/ OnIceCandidate(p) \/ HandleICECandidate(p)
    PROVE  NegotiationInv'
<1>1. UNCHANGED <<pageVars, pcVars, crossed>>
    BY DEF ChangeMedia, TakeSeat, SendRoomJoined, TellJoined, JoinElsewhere,
           OnIceCandidate, HandleICECandidate, history
<1>2. \A r \in Page : Same(r)
    BY <1>1 DEF pageVars, pcVars, Same, SamePc
<1>3. \A r \in Page :
          \/ channel'[r] = channel[r]
          \/ channel[r] # <<>> /\ channel'[r] = Tail(channel[r])
          \/ \E t \in {"ice_candidate", "user_joined", "user_left", "room_joined",
                       "elsewhere", "room_left"} :
                 channel'[r] = Append(channel[r], [type |-> t])
  <2>1. channel \in [Page -> Seq(Signal \cup Message)]
      BY DEF Types, QueueTypes
  <2>2. CASE ChangeMedia(p)
      BY <2>2 DEF ChangeMedia
  <2>3. CASE TellJoined(p)
      BY <2>1, <2>3 DEF TellJoined, Tell
  <2>4. CASE JoinElsewhere(p)
      BY <2>4 DEF JoinElsewhere, GiveUpSeat
  <2>5. CASE TakeSeat(p) \/ SendRoomJoined(p)
      BY <2>1, <2>5 DEF TakeSeat, SendRoomJoined, Tell
  <2>6. CASE OnIceCandidate(p)
      BY <2>1, <2>6 DEF OnIceCandidate, Send
  <2>7. CASE HandleICECandidate(p)
      BY <2>1, <2>7 DEF HandleICECandidate, Arrives, Taken
  <2> QED
      BY <2>2, <2>3, <2>4, <2>5, <2>6, <2>7
<1>4. ASSUME NEW r \in Page PROVE Sub(r)
  <2>1. \/ channel'[r] = channel[r]
        \/ channel[r] # <<>> /\ channel'[r] = Tail(channel[r])
        \/ \E m \in Message : channel'[r] = Append(channel[r], m)
      BY <1>3, MessageTypes
  <2>2. ops'[r] = ops[r]
      BY <1>2 DEF Same
  <2> QED
      BY <2>1, <2>2, NothingIsSent
<1> QED
    BY <1>1, <1>2, <1>4, StutterInv

\* The steps that close a connection.
LEMMA CloseStepInv ==
    ASSUME Types, Types', PeerInv, NegotiationInv, NEW p \in Page,
           \/ LeaveRoom(p) \/ OnUserLeft(p) \/ OnRoomChange(p) \/ ConnectionFails(p)
    PROVE  NegotiationInv'
<1>1. ClosePeer(p)
    BY DEF LeaveRoom, OnUserLeft, OnRoomChange, ConnectionFails, CloseAll
<1>2. PICK q \in Page : q = Other(p) /\ q # p /\ \A r \in Page : r = p \/ r = q
    BY TwoPages
<1>3. Same(q)
    BY <1>1, <1>2 DEF ClosePeer, Same, SamePc, Types, PcTypes, QueueTypes
<1>4. ~peer'[p] /\ Idle(p)' /\ life'[p] = life[p] /\ ops'[p] = <<>>
    BY <1>1 DEF ClosePeer, Idle, Types, PcTypes, QueueTypes
<1>5. crossed' = (crossed \ {p}) \cup
                   {r \in {q} : peer[p] /\ peer[r] /\ partner[r] = life[p]}
    BY <1>1, <1>2 DEF ClosePeer
<1>6. \A r \in Page :
          \/ channel'[r] = channel[r]
          \/ channel[r] # <<>> /\ channel'[r] = Tail(channel[r])
          \/ \E t \in {"user_left", "room_left"} :
                 channel'[r] = Append(channel[r], [type |-> t])
  <2>1. channel \in [Page -> Seq(Signal \cup Message)]
      BY DEF Types, QueueTypes
  <2>2. CASE LeaveRoom(p)
      BY <2>2 DEF LeaveRoom, GiveUpSeat
  <2>3. CASE OnUserLeft(p)
      BY <2>1, <2>3 DEF OnUserLeft, Arrives, Taken
  <2>4. CASE OnRoomChange(p)
      BY <2>1, <2>4 DEF OnRoomChange, Arrives, Taken
  <2>5. CASE ConnectionFails(p)
      BY <2>5 DEF ConnectionFails
  <2> QED
      BY <2>2, <2>3, <2>4, <2>5
<1>7. ASSUME NEW r \in Page PROVE Sub(r)
  <2>1. \/ channel'[r] = channel[r]
        \/ channel[r] # <<>> /\ channel'[r] = Tail(channel[r])
        \/ \E m \in Message : channel'[r] = Append(channel[r], m)
      BY <1>6, MessageTypes
  <2>2. ops'[r] = ops[r] \/ ops'[r] = <<>>
      BY <1>2, <1>3, <1>4 DEF Same
  <2> QED
      BY <2>1, <2>2, NothingIsSent
<1>8. Thins(p) /\ Thins(q)
    BY <1>7, SubThins
<1>9. Always(p, q) /\ Always(q, p)
    BY <1>2 DEF NegotiationInv
<1> QED
    BY <1>2, <1>3, <1>4, <1>5, <1>8, <1>9, CloseAlways, PairInv

\* The handlers of signals and of user_joined.
LEMMA MessageStepInv ==
    ASSUME Types, Types', PeerInv, NegotiationInv, NEW p \in Page,
           InitiatePeer(p) \/ HandleOffer(p) \/ HandleAnswer(p)
    PROVE  NegotiationInv'
<1> DEFINE m  == Head(channel[p])
           op == [set |-> "remote", signal |-> m]
<1>1. PICK q \in Page : q # p /\ \A r \in Page : r = p \/ r = q
    BY TwoPages
<1>2. /\ channel[p] # <<>> /\ channel'[p] = Tail(channel[p])
      /\ channel'[q] = channel[q]
      /\ UNCHANGED <<sig, offers, applying, partner, flushing, makingOffer, crossed>>
  <2>1. channel[p] # <<>> /\ channel' = Taken(p)
        /\ UNCHANGED <<sig, offers, applying, partner, flushing, makingOffer, crossed>>
      BY DEF InitiatePeer, HandleOffer, HandleAnswer, Arrives, pcVars, pageVars, history
  <2> QED
      BY <1>1, <2>1 DEF Taken, Types, QueueTypes
<1>3. /\ peer'[q] = peer[q] /\ life'[q] = life[q]
      /\ peer[p] => peer'[p] = peer[p] /\ life'[p] = life[p]
      /\ ~peer[p] => \/ peer'[p] /\ life'[p] = life[p] + 1
                     \/ UNCHANGED <<peer, life>> /\ HandleAnswer(p)
  <2>1. CASE InitiatePeer(p) \/ HandleOffer(p)
      BY <1>1, <2>1, CreateTypes DEF InitiatePeer, HandleOffer
  <2>2. CASE HandleAnswer(p)
      BY <2>2 DEF HandleAnswer, pageVars
  <2> QED
      BY <2>1, <2>2
<1>4. /\ ops'[q] = ops[q]
      /\ \/ ops'[p] = ops[p]
            /\ (HandleOffer(p) => p # Polite /\ (makingOffer[p] \/ sig[p] # "stable"))
         \/ /\ ops'[p] = Append(ops[p], op)
            /\ \/ HandleAnswer(p) /\ peer[p] /\ m.type = "answer"
               \/ /\ HandleOffer(p) /\ m.type = "offer"
                  /\ \/ p = Polite \/ m.sdp # "offer"
                     \/ sig[p] = "stable" /\ ~makingOffer[p]
  <2>1. ops \in [Page -> Seq(Operation)]
      BY DEF Types, QueueTypes
  <2>2. CASE InitiatePeer(p)
    <3>1. ops' = ops
        BY <2>2 DEF InitiatePeer, pcVars
    <3>2. ~HandleOffer(p)
        BY <2>2 DEF InitiatePeer, HandleOffer, Arrives
    <3> QED
        BY <3>1, <3>2
  <2>3. CASE HandleOffer(p)
    <3>1. m.type = "offer"
        BY <2>3 DEF HandleOffer, Arrives
    <3>2. IF p # Polite /\ m.sdp = "offer" /\ Collides(p) THEN ops' = ops
          ELSE Chain(p, op)
        BY <2>3 DEF HandleOffer
    <3>3. Chain(p, op) => ops'[p] = Append(ops[p], op) /\ ops'[q] = ops[q]
        BY <1>1, <2>1 DEF Chain
    <3> QED
        BY <2>3, <3>1, <3>2, <3>3 DEF Collides
  <2>4. CASE HandleAnswer(p)
    <3>1. m.type = "answer" /\ ~HandleOffer(p)
        BY <2>4 DEF HandleAnswer, HandleOffer, Arrives
    <3>2. (peer[p] /\ Chain(p, op)) \/ ops' = ops
        BY <2>4 DEF HandleAnswer
    <3>3. Chain(p, op) => ops'[p] = Append(ops[p], op) /\ ops'[q] = ops[q]
        BY <1>1, <2>1 DEF Chain
    <3> QED
        BY <2>4, <3>1, <3>2, <3>3
  <2> QED
      BY <2>2, <2>3, <2>4
<1>5. Same(q) /\ Sub(q) /\ Thins(q)
  <2>1. Same(q)
      BY <1>2, <1>3, <1>4 DEF Same, SamePc
  <2>2. Sub(q)
      BY <1>2, <1>4, NothingIsSent
  <2> QED
      BY <2>1, <2>2, SubThins
<1>6. Always(p, q) /\ Always(q, p)
      /\ (crossed = {} => Agrees(p, q) /\ Agrees(q, p))
    BY <1>1 DEF NegotiationInv
<1>7. CASE ops'[p] = ops[p]
  <2>1. Sub(p) /\ Thins(p)
    <3>1. Sub(p)
        BY <1>2, <1>7, NothingIsSent
    <3> QED
        BY <3>1, SubThins
  <2>2. CASE peer'[p] = peer[p] /\ life'[p] = life[p]
    <3>1. Same(p)
        BY <1>2, <1>7, <2>2 DEF Same, SamePc
    <3> QED
        BY <1>1, <1>2, <1>5, <2>1, <3>1, StutterInv
  <2>3. CASE ~peer[p] /\ peer'[p] /\ life'[p] = life[p] + 1
    <3>1. ops'[p] = <<>>
        BY <1>7, <2>3 DEF PeerInv, Idle
    <3> QED
        BY <1>1, <1>2, <1>5, <1>6, <2>1, <2>3, <3>1, OpenAlways, PairInv
  <2> QED
      BY <1>3, <2>2, <2>3
<1>8. CASE ops'[p] # ops[p]
  <2>1. /\ ops'[p] = Append(ops[p], op) /\ m.type \in {"offer", "answer"}
        /\ m.type = "offer" => \/ p = Polite \/ m.sdp # "offer"
                               \/ sig[p] = "stable" /\ ~makingOffer[p]
        /\ HandleAnswer(p) => peer[p]
    <3>1. HandleAnswer(p) => ~HandleOffer(p)
        BY DEF HandleAnswer, HandleOffer, Arrives
    <3> QED
        BY <1>4, <1>8, <3>1
  <2>2. m \in Signal
      BY <1>2, <2>1, TakenTypes, MessageTypes
  <2>3. Chained(p)
      BY <1>2, <2>1, ChainIsChained
  <2>4. CASE peer[p]
    <3>1. SamePc(p)
        BY <1>2, <1>3, <2>4 DEF SamePc
    <3> QED
        BY <1>1, <1>2, <1>5, <1>6, <2>1, <2>2, <2>3, <3>1, TakeInv, PairInv
  <2>5. CASE ~peer[p]
    <3>1. peer'[p] /\ life'[p] = life[p] + 1
        BY <1>3, <2>1, <2>5
    <3>2. ops[p] = <<>>
        BY <2>5 DEF PeerInv, Idle
    <3>3. ops'[p] = <<op>>
        BY <2>1, <3>2
    <3>4. Thins(p)
        BY <2>3, ChainedThins
    <3> QED
        BY <1>1, <1>2, <1>5, <1>6, <2>2, <2>5, <3>1, <3>3, <3>4, OpenAlways, PairInv
  <2> QED
      BY <2>4, <2>5
<1> QED
    BY <1>7, <1>8

\* The steps of the connection.
LEMMA LocalStepInv ==
    ASSUME Types, Types', PeerInv, NegotiationInv, NEW p \in Page,
           \/ OnNegotiationNeeded(p) \/ Reply(p) \/ SetLocalOffer(p)
           \/ SetLocalAnswer(p)
    PROVE  NegotiationInv'
<1>1. PICK q \in Page : q = Other(p) /\ q # p /\ \A r \in Page : r = p \/ r = q
    BY TwoPages
<1>2. Always(p, q) /\ Always(q, p)
      /\ (crossed = {} => Agrees(p, q) /\ Agrees(q, p))
    BY <1>1 DEF NegotiationInv
<1>3. ops \in [Page -> Seq(Operation)] /\ channel \in [Page -> Seq(Signal \cup Message)]
    BY DEF Types, QueueTypes
<1>4. NegotiateOp \in Operation /\ ReplyOp \in Operation
      /\ NegotiateOp.set = "local" /\ ReplyOp.set = "local"
    BY DEF NegotiateOp, ReplyOp, Operation
<1>5. CASE OnNegotiationNeeded(p)
  <2>1. /\ ops[p] = <<>> /\ sig[p] = "stable"
        /\ ops' = [ops EXCEPT ![p] = <<NegotiateOp>>]
        /\ makingOffer' = [makingOffer EXCEPT ![p] = TRUE]
        /\ UNCHANGED <<peer, life, flushing, sig, offers, applying, partner, channel,
                       crossed>>
      BY <1>3, <1>5 DEF OnNegotiationNeeded, Chain, NegotiateOp, history
  <2>2. ops'[p] = <<NegotiateOp>> /\ ops'[q] = ops[q] /\ makingOffer'[p]
        /\ makingOffer'[q] = makingOffer[q]
      BY <1>1, <1>3, <2>1 DEF Types, PcTypes
  <2>3. Same(q)
      BY <2>1, <2>2 DEF Same, SamePc
  <2>4. ops'[p] = Append(ops[p], NegotiateOp)
      BY <2>1, <2>2
  <2>5. Sub(p) /\ Sub(q)
    <3>1. Sub(p)
        BY <1>4, <2>1, <2>4, NothingIsSent
    <3>2. Sub(q)
        BY <2>1, <2>2, NothingIsSent
    <3> QED
        BY <3>1, <3>2
  <2> QED
      BY <1>1, <1>2, <2>1, <2>2, <2>3, <2>5, NeedsInv, PairInv
<1>6. CASE Reply(p)
  <2>1. /\ flushing[p] > 0 /\ flushing' = [flushing EXCEPT ![p] = @ - 1]
        /\ ops' = [ops EXCEPT ![p] = Append(@, ReplyOp)]
        /\ UNCHANGED <<peer, life, makingOffer, sig, offers, applying, partner, channel,
                       crossed>>
      BY <1>6 DEF Reply, Chain, ReplyOp, history
  <2>2. /\ ops'[p] = Append(ops[p], ReplyOp) /\ ops'[q] = ops[q]
        /\ flushing'[p] = flushing[p] - 1 /\ flushing'[q] = flushing[q]
      BY <1>1, <1>3, <2>1 DEF Types, PcTypes
  <2>3. Same(q)
      BY <2>1, <2>2 DEF Same, SamePc
  <2>4. Sub(p) /\ Sub(q)
    <3>1. Sub(p)
        BY <1>4, <2>1, <2>2, NothingIsSent
    <3>2. Sub(q)
        BY <2>1, <2>2, NothingIsSent
    <3> QED
        BY <3>1, <3>2
  <2> QED
      BY <1>1, <1>2, <2>1, <2>2, <2>3, <2>4, ReplyInv, PairInv
<1>7. ASSUME SetLocal(p)
      PROVE  /\ ops[p] # <<>> /\ Head(ops[p]).set = "local"
             /\ ops'[p] = Tail(ops[p]) /\ ops'[q] = ops[q]
             /\ makingOffer'[p] <=> makingOffer[p] /\ Head(ops[p]).by = "handleOffer"
             /\ makingOffer'[q] = makingOffer[q]
             /\ UNCHANGED <<peer, life, flushing, partner, applying, crossed>>
    BY <1>1, <1>3, <1>7 DEF SetLocal, Types, PcTypes, history
<1>8. ASSUME NEW s \in Signal, Send(p, s)
      PROVE  /\ channel'[p] = channel[p]
             /\ channel'[q] = channel[q] \/ channel'[q] = Append(channel[q], s)
    BY <1>1, <1>3, <1>8 DEF Send
<1>9. ASSUME NEW s \in Signal, SetLocal(p), Send(p, s)
      PROVE  Sub(p) /\ (Sub(q) \/ Sent(q, s))
  <2>1. Sub(p)
      BY <1>7, <1>8, <1>9, NothingIsSent
  <2>2. channel'[q] = channel[q] => Sub(q)
      BY <1>7, <1>9, NothingIsSent
  <2>3. channel'[q] = Append(channel[q], s) => Sent(q, s)
      BY <1>7, <1>9, SendIsSent
  <2> QED
      BY <1>8, <1>9, <2>1, <2>2, <2>3
<1>10. CASE SetLocalOffer(p)
  <2> DEFINE s == [type |-> Label(Head(ops[p])), sdp |-> "offer",
                   version |-> Media(p), from |-> life[p],
                   offer |-> <<p, life[p], offers[p] + 1>>]
  <2>1. /\ SetLocal(p) /\ Send(p, s) /\ sig[p] # "have-remote-offer"
        /\ sig' = [sig EXCEPT ![p] = "have-local-offer"]
        /\ offers' = [offers EXCEPT ![p] = @ + 1]
      BY <1>10 DEF SetLocalOffer, MakesOffer
  <2>2. /\ sig'[p] = "have-local-offer" /\ sig'[q] = sig[q]
        /\ offers'[p] = offers[p] + 1 /\ offers'[q] = offers[q]
      BY <1>1, <2>1 DEF Types, PcTypes
  <2>3. s \in Signal
    <3>1. <<p, life[p], offers[p] + 1>> \in Offer /\ life[p] \in Nat
        BY SpotTypes DEF Offer
    <3>2. Label(Head(ops[p])) \in {"offer", "answer"}
        BY DEF Label
    <3> QED
        BY <3>1, <3>2, MediaType DEF Signal
  <2>4. /\ s.sdp = "offer" /\ s.from = life[p]
        /\ s.offer = <<p, life[p], offers[p] + 1>>
        /\ s.type = IF Head(ops[p]).by = "handleOffer" THEN "answer" ELSE "offer"
      BY DEF Label
  <2> HIDE DEF s
  <2>5. Same(q)
      BY <1>7, <2>1, <2>2 DEF Same, SamePc
  <2>6. Sub(p) /\ (Sub(q) \/ Sent(q, s))
      BY <1>9, <2>1, <2>3
  <2>7. /\ Always(p, q)' /\ Always(q, p)'
        /\ Agrees(p, q) /\ Agrees(q, p) => Agrees(p, q)' /\ Agrees(q, p)'
      BY <1>1, <1>2, <1>7, <2>1, <2>2, <2>3, <2>4, <2>5, <2>6, OfferInv
  <2> QED
      BY <1>1, <1>2, <1>7, <2>1, <2>7, PairInv
<1>11. CASE SetLocalAnswer(p)
  <2>1. PICK v \in {settled[p], Media(p)} :
            Send(p, [type |-> Label(Head(ops[p])), sdp |-> "answer",
                     version |-> v, from |-> life[p], offer |-> applying[p]])
      BY <1>11 DEF SetLocalAnswer
  <2> DEFINE s == [type |-> Label(Head(ops[p])), sdp |-> "answer",
                   version |-> v, from |-> life[p], offer |-> applying[p]]
  <2>2. /\ SetLocal(p) /\ Send(p, s) /\ sig[p] = "have-remote-offer"
        /\ sig' = [sig EXCEPT ![p] = "stable"] /\ offers' = offers
      BY <1>11, <2>1 DEF SetLocalAnswer, MakesOffer
  <2>3. sig'[p] = "stable" /\ sig'[q] = sig[q]
      BY <1>1, <2>2 DEF Types, PcTypes
  <2>4. s \in Signal
    <3>1. applying[p] \in Offer /\ life[p] \in Nat /\ v \in Version
        BY <2>1, MediaType DEF Types, PcTypes
    <3>2. Label(Head(ops[p])) \in {"offer", "answer"}
        BY DEF Label
    <3> QED
        BY <3>1, <3>2 DEF Signal
  <2>5. /\ s.sdp = "answer" /\ s.from = life[p] /\ s.offer = applying[p]
        /\ s.type = IF Head(ops[p]).by = "handleOffer" THEN "answer" ELSE "offer"
      BY DEF Label
  <2> HIDE DEF s
  <2>6. Same(q)
      BY <1>7, <2>2, <2>3 DEF Same, SamePc
  <2>7. Sub(p) /\ (Sub(q) \/ Sent(q, s))
      BY <1>9, <2>2, <2>4
  <2>8. /\ Always(p, q)' /\ Always(q, p)'
        /\ Agrees(p, q) /\ Agrees(q, p) => Agrees(p, q)' /\ Agrees(q, p)'
      BY <1>1, <1>2, <1>7, <2>2, <2>3, <2>4, <2>5, <2>6, <2>7, AnswerInv
  <2> QED
      BY <1>1, <1>2, <1>7, <2>2, <2>8, PairInv
<1> QED
    BY <1>5, <1>6, <1>10, <1>11

LEMMA RemoteStepInv ==
    ASSUME Types, Types', PeerInv, NegotiationInv, NEW p \in Page, NEW m \in Signals(p),
           SetRemoteOffer(p, m) \/ SetRemoteAnswer(p, m) \/ SetRemoteFails(p, m)
    PROVE  NegotiationInv'
<1>1. PICK q \in Page : q = Other(p) /\ q # p /\ \A r \in Page : r = p \/ r = q
    BY TwoPages
<1>2. Always(p, q) /\ Always(q, p)
      /\ (crossed = {} => Agrees(p, q) /\ Agrees(q, p))
    BY <1>1 DEF NegotiationInv
<1>3. /\ ops' = [ops EXCEPT ![p] = Tail(@)]
      /\ crossed' = IF Belongs(p, m) THEN crossed ELSE crossed \cup {p}
      /\ UNCHANGED <<peer, life, makingOffer, offers, channel>>
    BY DEF SetRemoteOffer, SetRemoteAnswer, SetRemoteFails, SetRemote
<1>4. ops'[p] = Tail(ops[p]) /\ ops'[q] = ops[q]
    BY <1>1, <1>3 DEF Types, QueueTypes
<1>5. /\ p \notin crossed' => p \notin crossed /\ peer[q] /\ m.from = life[q]
      /\ q \in crossed' <=> q \in crossed
      /\ crossed' = {} => crossed = {} /\ Belongs(p, m) /\ peer[q] /\ m.from = life[q]
    BY <1>1, <1>3 DEF Belongs
<1>6. /\ sig'[q] = sig[q] /\ flushing'[q] = flushing[q] /\ applying'[q] = applying[q]
      /\ partner'[q] = partner[q]
      /\ \/ partner'[p] = m.from
         \/ partner'[p] = partner[p] /\ sig'[p] = sig[p] /\ flushing'[p] = flushing[p]
  <2>1. CASE SetRemoteOffer(p, m)
      BY <1>1, <2>1 DEF SetRemoteOffer, Types, PcTypes
  <2>2. CASE SetRemoteAnswer(p, m)
      BY <1>1, <2>2 DEF SetRemoteAnswer, Types, PcTypes
  <2>3. CASE SetRemoteFails(p, m)
      BY <2>3 DEF SetRemoteFails
  <2> QED
      BY <2>1, <2>2, <2>3
<1>7. Same(q) /\ Sub(q)
  <2>1. Same(q)
      BY <1>3, <1>4, <1>6 DEF Same, SamePc
  <2> QED
      BY <1>3, <1>4, <2>1, NothingIsSent
<1>8. Always(p, q)' /\ Always(q, p)' /\ ~makingOffer[p]
    BY <1>1, <1>2, <1>3, <1>4, <1>5, <1>6, <1>7, RemoteAlways
<1>9. ASSUME crossed' = {} PROVE Agrees(p, q)' /\ Agrees(q, p)'
  <2>1. Agrees(p, q) /\ Agrees(q, p) /\ peer[q] /\ m.from = life[q] /\ Belongs(p, m)
        /\ crossed = {}
      BY <1>2, <1>5, <1>9
  <2>2. CASE SetRemoteOffer(p, m)
    <3>1. /\ m.sdp = "offer" /\ sig'[p] = "have-remote-offer" /\ applying'[p] = m.offer
          /\ flushing'[p] = IF m.type = "offer" THEN flushing[p] + 1 ELSE flushing[p]
        BY <2>2 DEF SetRemoteOffer, Types, PcTypes
    <3> QED
        BY <1>1, <1>2, <1>3, <1>4, <1>7, <2>1, <3>1, RemoteOfferAgrees
  <2>3. CASE SetRemoteAnswer(p, m)
    <3>1. /\ m.sdp = "answer" /\ sig[p] = "have-local-offer" /\ sig'[p] = "stable"
          /\ flushing'[p] = flushing[p]
        BY <2>3 DEF SetRemoteAnswer, Types, PcTypes
    <3>2. ~makingOffer'[p]
        BY <1>3, <1>8
    <3> QED
        BY <1>1, <1>2, <1>3, <1>4, <1>7, <2>1, <3>1, <3>2, RemoteAnswerAgrees
  <2>4. CASE SetRemoteFails(p, m)
      BY <2>1, <2>4 DEF SetRemoteFails
  <2> QED
      BY <2>2, <2>3, <2>4
<1> QED
    BY <1>1, <1>8, <1>9, PairInv

LEMMA NegotiationInitInv == Init => NegotiationInv
<1> SUFFICES ASSUME Init, NEW p \in Page, NEW q \in Page, p # q
             PROVE  Always(p, q) /\ Agrees(p, q)
    BY DEF NegotiationInv
<1>1. Len(ops[p]) = 0 /\ Len(channel[p]) = 0 /\ Len(ops[q]) = 0 /\ Len(channel[q]) = 0
      /\ ops[p] = <<>>
    BY DEF Init
<1>2. Spot(p) = {} /\ Spot(q) = {} /\ ~Replies(p)
    BY <1>1 DEF Spot, Replies
<1>3. /\ partner[p] = 0 /\ life[q] = 0 /\ sig[p] = "stable" /\ flushing[p] = 0
      /\ offers[p] = 0 /\ ~makingOffer[p] /\ crossed = {}
    BY DEF Init
<1>4. MakingOK(p) /\ CrossedOK(p, q) /\ FromOK(p, q) /\ FreshOK(p, q)
    BY <1>1, <1>2, <1>3 DEF MakingOK, CrossedOK, FromOK, FreshOK
<1>5. Agrees(p, q)
    BY <1>2, <1>3 DEF Agrees, LabelOK, AnswerOK, ReplyOK, NoReplyOK, OfferOK,
                      ImpoliteOK, TurnOK
<1> QED
    BY <1>4, <1>5 DEF Always

LEMMA NegotiationStepInv ==
    ASSUME Types, Types', PeerInv, NegotiationInv, [Next]_vars
    PROVE  NegotiationInv'
<1>1. CASE UNCHANGED vars
  <2>1. UNCHANGED <<peer, life, sig, offers, applying, partner, flushing, makingOffer,
                    ops, channel, crossed>>
      BY <1>1 DEF vars, pageVars, pcVars, history
  <2>2. \A r \in Page : Same(r)
      BY <2>1 DEF Same, SamePc
  <2>3. \A r \in Page : Sub(r)
      BY <2>1, NothingIsSent
  <2> QED
      BY <2>1, <2>2, <2>3, StutterInv
<1>2. ASSUME NEW p \in Page, Step(p) PROVE NegotiationInv'
    BY <1>2, RoomStepInv, CloseStepInv, MessageStepInv, LocalStepInv, RemoteStepInv
    DEF Step
<1> QED
    BY <1>1, <1>2 DEF Next, Resting

\* What is sent as an answer is one, and answers the offer that is pending when
\* setRemoteDescription takes it: handleOffer's two awaits (webrtc.js:128-148) and
\* handleAnswer's guard are enough for that, however offers collide and pages come
\* and go, as long as no description reaches a connection it is not of.
THEOREM AnswersAreAnswers == Spec => []AnswersAnswer
<1>1. Types /\ NegotiationInv => AnswersAnswer
  <2> SUFFICES ASSUME Types, NegotiationInv, crossed = {}, NEW p \in Page
               PROVE  /\ \A m \in Range(channel[p]) \cap Signal :
                             peer[Other(p)] /\ m.from = life[Other(p)] =>
                                 m.type = m.sdp
                      /\ \A m \in Signals(p) :
                             m.sdp = "answer" /\ Belongs(p, m) =>
                                 /\ sig[p] = "have-local-offer"
                                 /\ m.offer = <<p, life[p], offers[p]>>
      BY DEF AnswersAnswer
  <2>1. PICK q \in Page : q = Other(p) /\ q # p
      BY TwoPages
  <2>2. Agrees(p, q)
      BY <2>1 DEF NegotiationInv
  <2>3. ASSUME NEW m \in Range(channel[p]) \cap Signal, peer[q], m.from = life[q]
        PROVE  m.type = m.sdp
    <3> DEFINE o == Len(ops[p])
               c == Len(channel[p])
    <3>1. PICK i \in 1..c : m = channel[p][i]
        BY QueueFacts DEF Range
    <3>2. o \in Nat /\ c \in Nat
        BY QueueFacts
    <3>4. /\ \A k \in 1..(o + c) :
                 ~(k <= o) /\ channel[p][k - o].type \in {"offer", "answer"}
                     => k \in Spot(p)
          /\ \A k : ~(k <= o) => At(p, k) = channel[p][k - o]
        BY DEF Spot, At
    <3> HIDE DEF o, c
    <3>5. o + i \in 1..(o + c) /\ ~(o + i <= o) /\ (o + i) - o = i
        BY <3>1, <3>2
    <3>6. channel[p][(o + i) - o] = m
        BY <3>1, <3>5
    <3>3. o + i \in Spot(p) /\ At(p, o + i) = m
        BY <2>3, <3>4, <3>5, <3>6, MessageTypes
    <3> QED
        BY <2>2, <2>3, <3>3 DEF Agrees, LabelOK, Live
  <2>4. ASSUME NEW m \in Signals(p), m.sdp = "answer", peer[q], m.from = life[q]
        PROVE  /\ sig[p] = "have-local-offer"
               /\ m.offer = <<p, life[p], offers[p]>>
    <3>1. /\ 1 \in 1..Len(ops[p]) /\ ops[p][1].set = "remote"
          /\ ops[p][1].signal = m
        BY SignalFacts, QueueFacts
    <3> DEFINE o == Len(ops[p])
               c == Len(channel[p])
    <3>2. o \in Nat /\ c \in Nat /\ 1 \in 1..o
        BY <3>1, QueueFacts
    <3>3. /\ \A k \in 1..(o + c) : k <= o /\ ops[p][k].set = "remote" => k \in Spot(p)
          /\ \A k : k <= o => At(p, k) = ops[p][k].signal
        BY DEF Spot, At
    <3> HIDE DEF o, c
    <3>4. 1 <= o /\ 1 \in 1..(o + c)
        BY <3>2
    <3>5. 1 \in Spot(p) /\ At(p, 1) = m
        BY <3>1, <3>3, <3>4
    <3> QED
        BY <2>2, <2>4, <3>5 DEF Agrees, AnswerOK, LiveAnswer, Live
  <2> QED
      BY <2>1, <2>3, <2>4 DEF Belongs
<1> QED
    BY <1>1, NegotiationInitTypes, NegotiationInitInv, NegotiationStepTypes,
       NegotiationStepInv, PTL DEF Spec

(***************************************************************************)
(* What waits for a page.  A message that has the page close its connection *)
(* dooms the signals before it.                                            *)
(***************************************************************************)
Closes(m) == m.type \in {"user_left", "room_joined", "elsewhere", "room_left"}
IsSignal(m) == m.type \in {"offer", "answer"}

ClosesIn(s)   == \E j \in 1..Len(s) : Closes(s[j])
After(s, i)   == \E j \in 1..Len(s) : i <= j /\ Closes(s[j])
SignalsIn(s)  == {s[i] : i \in {j \in 1..Len(s) : IsSignal(s[j])}}
StandingIn(s) == {s[i] : i \in {j \in 1..Len(s) : ~After(s, j)}}
LostIn(s)     == {s[i] : i \in {j \in 1..Len(s) : IsSignal(s[j]) /\ After(s, j)}}
ChainedIn(o)  == {o[i].signal : i \in {j \in 1..Len(o) : o[j].set = "remote"}}

LEMMA MessageKinds ==
    ASSUME NEW m \in Signal \cup Message
    PROVE  /\ IsSignal(m) <=> m \in Signal
           /\ ~(IsSignal(m) /\ Closes(m))
BY MessageTypes DEF IsSignal, Closes, Message, Signal

LEMMA LostFacts ==
    ASSUME NEW s \in Seq(Signal \cup Message)
    PROVE  /\ LostIn(s) \subseteq SignalsIn(s) /\ SignalsIn(s) \subseteq Signal
           /\ ~ClosesIn(s) => LostIn(s) = {}
<1>1. LostIn(s) \subseteq SignalsIn(s)
    BY DEF LostIn, SignalsIn
<1>2. SignalsIn(s) \subseteq Signal
  <2> SUFFICES ASSUME NEW i \in 1..Len(s), IsSignal(s[i]) PROVE s[i] \in Signal
      BY DEF SignalsIn
  <2> QED
      BY MessageKinds
<1>3. ~ClosesIn(s) => LostIn(s) = {}
    BY DEF LostIn, After, ClosesIn
<1> QED
    BY <1>1, <1>2, <1>3

\* The same operators of a channel that a message is put in, or taken from.
LEMMA AppendMessage ==
    ASSUME NEW s \in Seq(Signal \cup Message), NEW m \in Signal \cup Message
    PROVE  /\ ClosesIn(Append(s, m)) <=> ClosesIn(s) \/ Closes(m)
           /\ SignalsIn(Append(s, m)) =
                  SignalsIn(s) \cup (IF IsSignal(m) THEN {m} ELSE {})
           /\ StandingIn(Append(s, m)) =
                  IF Closes(m) THEN {} ELSE StandingIn(s) \cup {m}
           /\ LostIn(Append(s, m)) = IF Closes(m) THEN SignalsIn(s) ELSE LostIn(s)
<1> DEFINE t == Append(s, m)
<1>1. PICK n \in Nat : n = Len(s)
    OBVIOUS
<1>2. /\ 1..Len(t) = 1..n \cup {n + 1} /\ t[n + 1] = m
      /\ \A i \in 1..n : t[i] = s[i] /\ i <= n + 1 /\ i # n + 1 /\ ~(n + 1 <= i)
      /\ 1..Len(s) = 1..n /\ n + 1 \notin 1..n /\ n + 1 <= n + 1
    BY <1>1
<1> HIDE DEF t
<1>3. ClosesIn(t) <=> ClosesIn(s) \/ Closes(m)
    BY <1>2 DEF ClosesIn
<1>4. SignalsIn(t) = SignalsIn(s) \cup (IF IsSignal(m) THEN {m} ELSE {})
  <2>1. \A x : x \in SignalsIn(t) <=> x \in SignalsIn(s) \/ (IsSignal(m) /\ x = m)
      BY <1>2 DEF SignalsIn
  <2> QED
      BY <2>1
<1>5. /\ Closes(m) => \A i \in 1..Len(t) : After(t, i)
      /\ ~Closes(m) => /\ \A i \in 1..n : After(t, i) <=> After(s, i)
                       /\ ~After(t, n + 1)
    BY <1>2 DEF After
<1>6. StandingIn(t) = IF Closes(m) THEN {} ELSE StandingIn(s) \cup {m}
  <2>1. CASE Closes(m)
      BY <1>5, <2>1 DEF StandingIn
  <2>2. CASE ~Closes(m)
    <3>1. \A x : x \in StandingIn(t) <=> x \in StandingIn(s) \/ x = m
        BY <1>2, <1>5, <2>2 DEF StandingIn
    <3> QED
        BY <2>2, <3>1
  <2> QED
      BY <2>1, <2>2
<1>7. LostIn(t) = IF Closes(m) THEN SignalsIn(s) ELSE LostIn(s)
  <2>1. CASE Closes(m)
    <3>1. ~IsSignal(m)
        BY <2>1, MessageKinds
    <3>2. \A x : x \in LostIn(t) <=> x \in SignalsIn(s)
        BY <1>2, <1>5, <2>1, <3>1 DEF LostIn, SignalsIn
    <3> QED
        BY <2>1, <3>2
  <2>2. CASE ~Closes(m)
    <3>1. \A x : x \in LostIn(t) <=> x \in LostIn(s)
        BY <1>2, <1>5, <2>2 DEF LostIn
    <3> QED
        BY <2>2, <3>1
  <2> QED
      BY <2>1, <2>2
<1> QED
    BY <1>3, <1>4, <1>6, <1>7 DEF t

LEMMA TakeMessage ==
    ASSUME NEW s \in Seq(Signal \cup Message), s # <<>>
    PROVE  /\ ClosesIn(s) <=> Closes(Head(s)) \/ ClosesIn(Tail(s))
           /\ SignalsIn(s) =
                  SignalsIn(Tail(s)) \cup (IF IsSignal(Head(s)) THEN {Head(s)} ELSE {})
           /\ StandingIn(s) =
                  StandingIn(Tail(s)) \cup (IF ClosesIn(s) THEN {} ELSE {Head(s)})
           /\ LostIn(s) =
                  LostIn(Tail(s)) \cup
                      (IF IsSignal(Head(s)) /\ ClosesIn(s) THEN {Head(s)} ELSE {})
<1> DEFINE t == Tail(s)
           m == Head(s)
<1>1. PICK n \in Nat : n = Len(t)
    OBVIOUS
<1>2. /\ Len(s) = n + 1 /\ s[1] = m /\ \A i \in 1..n : t[i] = s[i + 1]
      /\ \A i \in 1..n : /\ ~(i + 1 <= 1) /\ 1 <= i + 1
                         /\ \A j \in 1..n : i <= j <=> i + 1 <= j + 1
    BY <1>1
<1>8. \A i : i \in 1..(n + 1) <=> i = 1 \/ \E j \in 1..n : i = j + 1
  <2> TAKE i
  <2>1. ASSUME i \in 1..(n + 1), i # 1 PROVE i - 1 \in 1..n /\ i = (i - 1) + 1
      BY <2>1
  <2>2. ASSUME NEW j \in 1..n PROVE j + 1 \in 1..(n + 1)
      BY <2>2
  <2>3. 1 \in 1..(n + 1)
      OBVIOUS
  <2> QED
      BY <2>1, <2>2, <2>3
<1> HIDE DEF t, m
<1>3. ClosesIn(s) <=> Closes(m) \/ ClosesIn(t)
    BY <1>1, <1>2, <1>8 DEF ClosesIn
<1>4. SignalsIn(s) = SignalsIn(t) \cup (IF IsSignal(m) THEN {m} ELSE {})
  <2>1. \A x : x \in SignalsIn(s) <=> x \in SignalsIn(t) \/ (IsSignal(m) /\ x = m)
      BY <1>1, <1>2, <1>8 DEF SignalsIn
  <2> QED
      BY <2>1
<1>5. /\ After(s, 1) <=> ClosesIn(s)
      /\ \A i \in 1..n : After(s, i + 1) <=> After(t, i)
  <2>1. After(s, 1) <=> ClosesIn(s)
      BY DEF After, ClosesIn
  <2>2. ASSUME NEW i \in 1..n PROVE After(s, i + 1) <=> After(t, i)
    <3>1. ASSUME After(t, i) PROVE After(s, i + 1)
      <4>1. PICK j \in 1..n : i <= j /\ Closes(t[j])
          BY <1>1, <3>1 DEF After
      <4>2. j + 1 \in 1..(n + 1) /\ i + 1 <= j + 1 /\ Closes(s[j + 1])
          BY <1>2, <1>8, <4>1
      <4> QED
          BY <1>2, <4>2 DEF After
    <3>2. ASSUME After(s, i + 1) PROVE After(t, i)
      <4>1. PICK j \in 1..(n + 1) : i + 1 <= j /\ Closes(s[j])
          BY <1>2, <3>2 DEF After
      <4>2. j # 1
          BY <1>2, <4>1
      <4>3. PICK k \in 1..n : j = k + 1
          BY <1>8, <4>2
      <4>4. i <= k /\ Closes(t[k])
          BY <1>2, <4>1, <4>3
      <4> QED
          BY <1>1, <4>4 DEF After
    <3> QED
        BY <3>1, <3>2
  <2> QED
      BY <2>1, <2>2
<1>6. StandingIn(s) = StandingIn(t) \cup (IF ClosesIn(s) THEN {} ELSE {m})
  <2>1. \A x : x \in StandingIn(s) <=> x \in StandingIn(t) \/ (~ClosesIn(s) /\ x = m)
      BY <1>1, <1>2, <1>8, <1>5 DEF StandingIn
  <2> QED
      BY <2>1
<1>7. LostIn(s) = LostIn(t) \cup (IF IsSignal(m) /\ ClosesIn(s) THEN {m} ELSE {})
  <2>1. \A x : x \in LostIn(s) <=>
            x \in LostIn(t) \/ (IsSignal(m) /\ ClosesIn(s) /\ x = m)
      BY <1>1, <1>2, <1>8, <1>5 DEF LostIn
  <2> QED
      BY <2>1
<1> QED
    BY <1>3, <1>4, <1>6, <1>7 DEF t, m

\* What setRemoteDescription still has to take, as the chain of operations changes.
LEMMA ChainEffects ==
    ASSUME NEW o \in Seq(Operation)
    PROVE  /\ ChainedIn(o) \subseteq Signal /\ ChainedIn(<<>>) = {}
           /\ \A op \in Operation :
                  ChainedIn(Append(o, op)) =
                      ChainedIn(o) \cup (IF op.set = "remote" THEN {op.signal} ELSE {})
           /\ o # <<>> => ChainedIn(o) =
                  ChainedIn(Tail(o)) \cup
                      (IF Head(o).set = "remote" THEN {Head(o).signal} ELSE {})
<1>1. ChainedIn(o) \subseteq Signal
  <2> SUFFICES ASSUME NEW i \in 1..Len(o), o[i].set = "remote"
               PROVE  o[i].signal \in Signal
      BY DEF ChainedIn
  <2>1. o[i] \in Operation
      OBVIOUS
  <2> QED
      BY <2>1 DEF Operation
<1>2. ChainedIn(<<>>) = {}
    BY DEF ChainedIn
<1>3. ASSUME NEW op \in Operation
      PROVE  ChainedIn(Append(o, op)) =
                 ChainedIn(o) \cup (IF op.set = "remote" THEN {op.signal} ELSE {})
  <2> DEFINE t == Append(o, op)
  <2>1. PICK n \in Nat : n = Len(o)
      OBVIOUS
  <2>2. /\ 1..Len(t) = 1..n \cup {n + 1} /\ t[n + 1] = op
        /\ \A i \in 1..n : t[i] = o[i]
        /\ 1..Len(o) = 1..n
      BY <2>1
  <2> HIDE DEF t
  <2>3. \A x : x \in ChainedIn(t) <=>
            x \in ChainedIn(o) \/ (op.set = "remote" /\ x = op.signal)
      BY <2>2 DEF ChainedIn
  <2> QED
      BY <2>3 DEF t
<1>4. ASSUME o # <<>>
      PROVE  ChainedIn(o) = ChainedIn(Tail(o)) \cup
                 (IF Head(o).set = "remote" THEN {Head(o).signal} ELSE {})
  <2> DEFINE t == Tail(o)
             m == Head(o)
  <2>1. PICK n \in Nat : n = Len(t)
      BY <1>4
  <2>2. Len(o) = n + 1 /\ o[1] = m /\ \A i \in 1..n : t[i] = o[i + 1]
      BY <1>4, <2>1
  <2>3. \A i : i \in 1..(n + 1) <=> i = 1 \/ \E j \in 1..n : i = j + 1
    <3> TAKE i
    <3>1. ASSUME i \in 1..(n + 1), i # 1 PROVE i - 1 \in 1..n /\ i = (i - 1) + 1
        BY <3>1
    <3>2. ASSUME NEW j \in 1..n PROVE j + 1 \in 1..(n + 1)
        BY <3>2
    <3>3. 1 \in 1..(n + 1)
        OBVIOUS
    <3> QED
        BY <3>1, <3>2, <3>3
  <2> HIDE DEF t, m
  <2>4. \A x : x \in ChainedIn(o) <=>
            x \in ChainedIn(t) \/ (m.set = "remote" /\ x = m.signal)
      BY <2>1, <2>2, <2>3 DEF ChainedIn
  <2> QED
      BY <2>4 DEF t, m
<1> QED
    BY <1>1, <1>2, <1>3, <1>4

\* The room_joined that the hub has still to send to p comes after all of these.
Closing(p)  == p \in entering \/ ClosesIn(channel[p])
Standing(p) == IF p \in entering THEN {} ELSE StandingIn(channel[p])
Waiting(p)  == ChainedIn(ops[p]) \cup SignalsIn(channel[p])
Doomed(p)   ==
    IF p \in entering THEN Waiting(p)
    ELSE LostIn(channel[p])
         \cup (IF ClosesIn(channel[p]) THEN ChainedIn(ops[p]) ELSE {})

\* The same signals as above, without their places.
LEMMA WaitingAtSpots ==
    Types => \A p \in Page : Waiting(p) = {At(p, i) : i \in Spot(p)}
<1> SUFFICES ASSUME Types, NEW p \in Page
             PROVE  \A x : x \in Waiting(p) <=> \E i \in Spot(p) : x = At(p, i)
    OBVIOUS
<1>1. PICK o \in Nat, c \in Nat : o = Len(ops[p]) /\ c = Len(channel[p])
    BY QueueFacts
<1> TAKE x
<1>2. ASSUME x \in ChainedIn(ops[p]) PROVE \E i \in Spot(p) : x = At(p, i)
  <2>1. PICK i \in 1..o : ops[p][i].set = "remote" /\ x = ops[p][i].signal
      BY <1>1, <1>2 DEF ChainedIn
  <2>2. i \in 1..(o + c) /\ i <= o
      BY <2>1
  <2> QED
      BY <1>1, <2>1, <2>2 DEF Spot, At
<1>3. ASSUME x \in SignalsIn(channel[p]) PROVE \E i \in Spot(p) : x = At(p, i)
  <2>1. PICK i \in 1..c : IsSignal(channel[p][i]) /\ x = channel[p][i]
      BY <1>1, <1>3 DEF SignalsIn
  <2>2. o + i \in 1..(o + c) /\ ~(o + i <= o) /\ (o + i) - o = i
      BY <2>1
  <2> QED
      BY <1>1, <2>1, <2>2 DEF Spot, At, IsSignal
<1>4. ASSUME NEW i \in Spot(p), x = At(p, i) PROVE x \in Waiting(p)
  <2>1. i \in 1..(o + c)
      BY <1>1 DEF Spot
  <2>2. CASE i <= o
    <3>1. i \in 1..o
        BY <2>1, <2>2
    <3> QED
        BY <1>1, <1>4, <2>2, <3>1 DEF Spot, At, Waiting, ChainedIn
  <2>3. CASE ~(i <= o)
    <3>1. i - o \in 1..c
        BY <2>1, <2>3
    <3>2. IsSignal(channel[p][i - o]) /\ x = channel[p][i - o]
        BY <1>1, <1>4, <2>3 DEF Spot, At, IsSignal
    <3> QED
        BY <1>1, <3>1, <3>2 DEF Waiting, SignalsIn
  <2> QED
      BY <2>2, <2>3
<1> QED
    BY <1>2, <1>3, <1>4 DEF Waiting

\* What a step does to what waits for p.
Keeps(p) ==
    /\ Closing(p)' <=> Closing(p)
    /\ Standing(p)' = Standing(p)
    /\ Waiting(p)' = Waiting(p)
    /\ Doomed(p)' = Doomed(p)

\* A signal is lost from a queue that has a close in it only if it was doomed.
Thinner(p) ==
    /\ Closing(p)' => Closing(p)
    /\ Standing(p)' \subseteq Standing(p)
    /\ Waiting(p)' \subseteq Waiting(p)
    /\ Doomed(p)' \subseteq Doomed(p)
    /\ Closing(p) => \A m \in Waiting(p) : m \in Doomed(p) \/ m \in Waiting(p)'

LEMMA WaitingFacts ==
    Types => \A p \in Page : /\ Waiting(p) \subseteq Signal
                             /\ Doomed(p) \subseteq Waiting(p)
                             /\ ~Closing(p) => Doomed(p) = {}
BY QueueFacts, LostFacts, ChainEffects DEF Waiting, Doomed, Closing

\* A step that puts a local operation on the chain or takes one off.
LEMMA QueueKept ==
    ASSUME Types, NEW p \in Page, p \in entering' <=> p \in entering,
           channel'[p] = channel[p],
           \/ ops'[p] = ops[p]
           \/ \E op \in Operation : op.set = "local" /\ ops'[p] = Append(ops[p], op)
           \/ ops[p] # <<>> /\ Head(ops[p]).set = "local" /\ ops'[p] = Tail(ops[p])
    PROVE  Keeps(p)
<1>1. ChainedIn(ops'[p]) = ChainedIn(ops[p])
  <2>1. CASE \E op \in Operation : op.set = "local" /\ ops'[p] = Append(ops[p], op)
    <3>1. PICK op \in Operation : op.set = "local" /\ ops'[p] = Append(ops[p], op)
        BY <2>1
    <3>2. ChainedIn(Append(ops[p], op)) =
              ChainedIn(ops[p]) \cup (IF op.set = "remote" THEN {op.signal} ELSE {})
        BY QueueFacts, ChainEffects
    <3> QED
        BY <3>1, <3>2
  <2>2. CASE ops[p] # <<>> /\ Head(ops[p]).set = "local" /\ ops'[p] = Tail(ops[p])
    <3>1. ChainedIn(ops[p]) = ChainedIn(Tail(ops[p])) \cup
              (IF Head(ops[p]).set = "remote" THEN {Head(ops[p]).signal} ELSE {})
        BY <2>2, QueueFacts, ChainEffects
    <3> QED
        BY <2>2, <3>1
  <2> QED
      BY <2>1, <2>2
<1> QED
    BY <1>1 DEF Keeps, Closing, Standing, Waiting, Doomed

\* p is sent a message.
LEMMA QueueTold ==
    ASSUME Types, NEW p \in Page, p \in entering' <=> p \in entering,
           NEW m \in Signal \cup Message,
           ops'[p] = ops[p], channel'[p] = Append(channel[p], m)
    PROVE  /\ Closing(p)' <=> Closing(p) \/ Closes(m)
           /\ Standing(p)' = IF p \in entering \/ Closes(m) THEN {}
                             ELSE Standing(p) \cup {m}
           /\ Waiting(p)' = Waiting(p) \cup (IF IsSignal(m) THEN {m} ELSE {})
           /\ Doomed(p)' = IF p \in entering \/ Closes(m) THEN Waiting(p)'
                           ELSE Doomed(p)
<1>1. channel[p] \in Seq(Signal \cup Message)
    BY QueueFacts
<1>6. /\ ClosesIn(channel'[p]) <=> ClosesIn(channel[p]) \/ Closes(m)
      /\ SignalsIn(channel'[p]) =
             SignalsIn(channel[p]) \cup (IF IsSignal(m) THEN {m} ELSE {})
  <2>1. /\ ClosesIn(Append(channel[p], m)) <=> ClosesIn(channel[p]) \/ Closes(m)
        /\ SignalsIn(Append(channel[p], m)) =
               SignalsIn(channel[p]) \cup (IF IsSignal(m) THEN {m} ELSE {})
      BY <1>1, AppendMessage
  <2>2. channel'[p] = Append(channel[p], m)
      OBVIOUS
  <2> QED
      BY <2>1, <2>2
<1>2. Closing(p)' <=> Closing(p) \/ Closes(m)
    BY <1>6 DEF Closing
<1>3. Standing(p)' = IF p \in entering \/ Closes(m) THEN {} ELSE Standing(p) \cup {m}
    BY <1>1, AppendMessage DEF Standing
<1>4. Waiting(p)' = Waiting(p) \cup (IF IsSignal(m) THEN {m} ELSE {})
    BY <1>6 DEF Waiting
<1>5. Doomed(p)' = IF p \in entering \/ Closes(m) THEN Waiting(p)' ELSE Doomed(p)
  <2>1. CASE p \in entering
      BY <2>1 DEF Doomed
  <2>2. CASE p \notin entering
    <3>1. Closes(m) => Waiting(p)' = Waiting(p)
        BY <1>4, MessageKinds
    <3>2. LostIn(channel'[p]) =
              IF Closes(m) THEN SignalsIn(channel[p]) ELSE LostIn(channel[p])
        BY <1>1, AppendMessage
    <3>3. Doomed(p)' = LostIn(channel'[p]) \cup
                           (IF ClosesIn(channel'[p]) THEN ChainedIn(ops[p]) ELSE {})
        BY <2>2 DEF Doomed
    <3>4. CASE Closes(m)
        BY <1>6, <2>2, <3>1, <3>2, <3>3, <3>4 DEF Waiting
    <3>5. CASE ~Closes(m)
        BY <1>6, <2>2, <3>2, <3>3, <3>5 DEF Doomed
    <3> QED
        BY <3>4, <3>5
  <2> QED
      BY <2>1, <2>2
<1> QED
    BY <1>2, <1>3, <1>4, <1>5

\* p takes a message: a signal goes to the chain or is dropped, a close empties it.
LEMMA QueueTaken ==
    ASSUME Types, NEW p \in Page, p \in entering' <=> p \in entering,
           NEW m, m = Head(channel[p]),
           channel[p] # <<>>, channel'[p] = Tail(channel[p]),
           \/ ops'[p] = ops[p]
           \/ IsSignal(m) /\ ops'[p] = Append(ops[p], [set |-> "remote", signal |-> m])
           \/ Closes(m) /\ ops'[p] = <<>>
    PROVE  /\ m \in Signal \cup Message /\ Thinner(p)
           /\ Closes(m) => Closing(p)
           /\ ~Closes(m) => /\ Closing(p)' <=> Closing(p)
                            /\ \A s \in Waiting(p) : s \in Waiting(p)' \/ s = m
           /\ Closing(p) => Standing(p)' = Standing(p)
           /\ ~Closing(p) => m \in Standing(p)
           /\ \A s \in Standing(p) : s \in Standing(p)' \/ s = m
           /\ IsSignal(m) => m \in Waiting(p) /\ (Closing(p) => m \in Doomed(p))
           /\ ops'[p] = Append(ops[p], [set |-> "remote", signal |-> m])
                  \/ (~IsSignal(m) /\ ~Closes(m))
                  => Waiting(p)' = Waiting(p) /\ Doomed(p)' = Doomed(p)
<1>1. /\ channel[p] \in Seq(Signal \cup Message) /\ ops[p] \in Seq(Operation)
      /\ m \in Signal \cup Message
    BY QueueFacts
<1>2. /\ SignalsIn(channel[p]) =
             SignalsIn(channel'[p]) \cup (IF IsSignal(m) THEN {m} ELSE {})
      /\ ClosesIn(channel[p]) <=> Closes(m) \/ ClosesIn(channel'[p])
      /\ LostIn(channel[p]) = LostIn(channel'[p]) \cup
                        (IF IsSignal(m) /\ ClosesIn(channel[p]) THEN {m} ELSE {})
      /\ StandingIn(channel[p]) =
             StandingIn(channel'[p]) \cup (IF ClosesIn(channel[p]) THEN {} ELSE {m})
    BY <1>1, TakeMessage
<1>14. Closing(p) <=> p \in entering \/ Closes(m) \/ Closing(p)'
    BY <1>2 DEF Closing
<1>15. Standing(p) = Standing(p)' \cup (IF Closing(p) THEN {} ELSE {m})
    BY <1>2 DEF Closing, Standing
<1>3. ~(IsSignal(m) /\ Closes(m))
    BY <1>1, MessageKinds
<1>6. ops'[p] = Append(ops[p], [set |-> "remote", signal |-> m]) =>
          IsSignal(m) /\ ChainedIn(ops'[p]) = ChainedIn(ops[p]) \cup {m}
  <2>1. ASSUME ops'[p] = Append(ops[p], [set |-> "remote", signal |-> m])
        PROVE  IsSignal(m)
      BY <1>1, <2>1
  <2>2. IsSignal(m) => [set |-> "remote", signal |-> m] \in Operation
      BY <1>1, MessageKinds DEF Operation
  <2> QED
      BY <1>1, <2>1, <2>2, ChainEffects
<1>7. ops'[p] = ops[p] => ChainedIn(ops'[p]) = ChainedIn(ops[p])
    OBVIOUS
<1>8. ops'[p] = <<>> => ChainedIn(ops'[p]) = {}
    BY <1>1, ChainEffects
<1>5. \/ ChainedIn(ops'[p]) = ChainedIn(ops[p]) \/ ChainedIn(ops'[p]) = {}
      \/ IsSignal(m) /\ ChainedIn(ops'[p]) = ChainedIn(ops[p]) \cup {m}
    BY <1>6, <1>7, <1>8
<1>4. /\ Waiting(p)' \subseteq Waiting(p)
      /\ IsSignal(m) => m \in Waiting(p)
      /\ ops'[p] = Append(ops[p], [set |-> "remote", signal |-> m])
            \/ (~IsSignal(m) /\ ~Closes(m)) => Waiting(p)' = Waiting(p)
    BY <1>2, <1>5, <1>6, <1>7 DEF Waiting
<1>9. /\ Doomed(p)' \subseteq Doomed(p)
      /\ Closing(p) => \A s \in Waiting(p) : s \in Doomed(p) \/ s \in Waiting(p)'
      /\ IsSignal(m) /\ Closing(p) => m \in Doomed(p)
      /\ ops'[p] = Append(ops[p], [set |-> "remote", signal |-> m])
            \/ (~IsSignal(m) /\ ~Closes(m)) => Doomed(p)' = Doomed(p)
  <2>1. CASE p \in entering
      BY <1>4, <2>1 DEF Doomed
  <2>2. CASE p \notin entering
    <3>1. /\ Doomed(p) = LostIn(channel[p]) \cup
                 (IF ClosesIn(channel[p]) THEN ChainedIn(ops[p]) ELSE {})
          /\ Doomed(p)' = LostIn(channel'[p]) \cup
                 (IF ClosesIn(channel'[p]) THEN ChainedIn(ops'[p]) ELSE {})
          /\ Closing(p) <=> ClosesIn(channel[p])
        BY <2>2 DEF Doomed, Closing
    <3>2. Doomed(p)' \subseteq Doomed(p)
        BY <1>2, <1>5, <3>1
    <3>3. Closing(p) => \A s \in Waiting(p) : s \in Doomed(p) \/ s \in Waiting(p)'
        BY <1>2, <3>1 DEF Waiting
    <3>4. IsSignal(m) /\ Closing(p) => m \in Doomed(p)
        BY <1>2, <3>1
    <3>5. ASSUME ops'[p] = Append(ops[p], [set |-> "remote", signal |-> m])
          PROVE  Doomed(p)' = Doomed(p)
        BY <1>2, <1>3, <1>6, <3>1, <3>5
    <3>6. ASSUME ~IsSignal(m), ~Closes(m) PROVE Doomed(p)' = Doomed(p)
        BY <1>2, <1>7, <3>1, <3>6
    <3> QED
        BY <3>2, <3>3, <3>4, <3>5, <3>6
  <2> QED
      BY <2>1, <2>2
<1>10. ASSUME ~Closes(m), NEW s \in Waiting(p) PROVE s \in Waiting(p)' \/ s = m
    BY <1>2, <1>6, <1>7, <1>10 DEF Waiting
<1>11. Thinner(p)
    BY <1>4, <1>9, <1>14, <1>15 DEF Thinner
<1>12. ~Closes(m) => (Closing(p)' <=> Closing(p))
    BY <1>14 DEF Closing
<1> QED
    BY <1>1, <1>4, <1>9, <1>10, <1>11, <1>12, <1>14, <1>15

\* setRemoteDescription has taken the signal at the head.
LEMMA QueuePopped ==
    ASSUME Types, NEW p \in Page, p \in entering' <=> p \in entering,
           NEW m \in Signals(p), ops'[p] = Tail(ops[p]), channel'[p] = channel[p]
    PROVE  /\ m \in Waiting(p) /\ (Closing(p) => m \in Doomed(p))
           /\ Thinner(p)
           /\ Closing(p)' <=> Closing(p)
           /\ Standing(p)' = Standing(p)
           /\ \A s \in Waiting(p) : s \in Waiting(p)' \/ s = m
<1>1. ChainedIn(ops[p]) = ChainedIn(ops'[p]) \cup {m}
    BY QueueFacts, SignalFacts, ChainEffects
<1>2. Closing(p)' <=> Closing(p)
    BY DEF Closing
<1>3. Standing(p)' = Standing(p)
    BY DEF Standing
<1>4. m \in Waiting(p) /\ (Closing(p) => m \in Doomed(p))
    BY <1>1 DEF Waiting, Doomed, Closing
<1>5. \A s \in Waiting(p) : s \in Waiting(p)' \/ s = m
    BY <1>1 DEF Waiting
<1>6. Waiting(p)' \subseteq Waiting(p) /\ Doomed(p)' \subseteq Doomed(p)
    BY <1>1 DEF Waiting, Doomed
<1> QED
    BY <1>2, <1>3, <1>4, <1>5, <1>6 DEF Thinner

\* The connection has failed: its chain is gone.
LEMMA QueueDropped ==
    ASSUME Types, NEW p \in Page, p \in entering' <=> p \in entering,
           ops'[p] = <<>>, channel'[p] = channel[p]
    PROVE  /\ Thinner(p) /\ Standing(p)' = Standing(p)
           /\ Closing(p)' <=> Closing(p)
<1>1. ChainedIn(ops'[p]) = {}
    BY QueueFacts, ChainEffects
<1>2. Closing(p)' <=> Closing(p)
    BY DEF Closing
<1>3. Standing(p)' = Standing(p)
    BY DEF Standing
<1>4. Waiting(p)' \subseteq Waiting(p) /\ Doomed(p)' \subseteq Doomed(p)
    BY <1>1 DEF Waiting, Doomed
<1>5. Closing(p) => \A s \in Waiting(p) : s \in Doomed(p) \/ s \in Waiting(p)'
    BY DEF Waiting, Doomed, Closing
<1> QED
    BY <1>2, <1>3, <1>4, <1>5 DEF Thinner

\* The user leaves the room: the page closes its connection at once.
LEMMA QueueLeft ==
    ASSUME Types, NEW p \in Page, p \in entering' <=> p \in entering,
           NEW m \in Message, Closes(m),
           ops'[p] = <<>>, channel'[p] = Append(channel[p], m)
    PROVE  Closing(p)' /\ Standing(p)' = {} /\ Waiting(p)' \subseteq Waiting(p)
<1>1. channel[p] \in Seq(Signal \cup Message) /\ ops[p] \in Seq(Operation)
      /\ ~IsSignal(m)
    BY QueueFacts, MessageKinds
<1> QED
    BY <1>1, AppendMessage, ChainEffects DEF Closing, Standing, Waiting

(***************************************************************************)
(* The invariant for what holds when all is quiet.                         *)
(***************************************************************************)
Of(m, p)       == peer[p] /\ m.from = life[p]
OfferOf(m, p)  == Of(m, p) /\ m.sdp = "offer"
AnswerOf(m, p) == Of(m, p) /\ m.sdp = "answer"

Stays(p)       == p \in seated /\ ~Closing(p)
Answered(p, q) == \E m \in Waiting(q) : AnswerOf(m, p)

\* p has a connection, or is going to be told to make one.
Called(p) ==
    \/ peer[p] /\ ~Closing(p)
    \/ \E m \in Standing(p) : m.type = "user_joined"

CallOK == seated = Page /\ ~uncalled => \E p \in Page : p \in telling \/ Called(p)

TellOK(p, q) == p \in telling => q \in seated

\* A member who is alone has no connection, or is told to close it.
CleanOK(p, q) ==
    p \in seated /\ q \notin seated =>
        /\ \A m \in Standing(p) : m.type \notin {"user_joined", "offer"}
        /\ Closing(p) \/ (~peer[p] /\ ~control[p])

\* A member who was there does not call the one that still has to hear room_joined.
EnterOK(p, q) ==
    p \in entering /\ q \in seated =>
        /\ \A m \in Standing(q) : m.type # "user_joined"
        /\ Closing(q) \/ ~control[q]

\* The connection of p was given a description: when the one that it was of is closed,
\* that of p is crossed.
Attached(p) == partner[p] # 0 \/ p \in crossed

\* What a connection that stays has sent is not lost at the other page, and what it
\* was given is of a connection that stays, unless it is going to be crossed.
CutOK(p, q) ==
    (\E m \in Waiting(q) : Of(m, p)) /\ ~Closing(p) =>
        seated = Page /\ (Attached(p) \/ \A m \in Doomed(q) : ~Of(m, p))

PartnerOK(p, q) ==
    partner[q] # 0 /\ q \notin crossed /\ ~Closing(p) =>
        seated = Page /\ (Attached(p) \/ ~Closing(q))

SaysOK(p) == \A m \in Waiting(p) : m.sdp = "answer" => m.type = "answer"

FiredOK(p) == fired[p] /\ sig[p] = "stable" => makingOffer[p]

\* A connection that was made for an offer takes that one first.
MadeOK(p) ==
    peer[p] /\ ~control[p] /\ p \notin crossed /\ partner[p] = 0 =>
        ops[p] # <<>> /\ ops[p][1].set = "remote" /\ ops[p][1].signal.sdp = "offer"

NewOK(p, q) ==
    partner[p] = 0 =>
        /\ settled[p] = 0 /\ got[p] = 0 /\ exchange[p] = NoOffer
        /\ \A m \in Waiting(q) : Of(m, p) => m.version = offered[p]
        /\ partner[q] # 0 /\ q \notin crossed => sig[p] = "have-local-offer"

FirstOK(p, q) ==
    /\ ~Attached(p) /\ sig[p] = "have-local-offer" /\ Stays(p) /\ ~uncalled
    /\ Closing(q)
    => \E m \in Waiting(q) : Of(m, p)

Placed(p, q) == TellOK(p, q) /\ CleanOK(p, q) /\ EnterOK(p, q)

Linked(p, q) ==
    /\ CutOK(p, q) /\ PartnerOK(p, q)
    /\ SaysOK(p) /\ FiredOK(p) /\ MadeOK(p) /\ NewOK(p, q) /\ FirstOK(p, q)

\* The offer that is pending is on its way, or is being answered, or the polite page
\* is going to give it up for one of the other; or the connection is to be crossed.
PendingOK(p, q) ==
    /\ sig[p] = "have-local-offer" /\ Stays(p) /\ ~uncalled
    /\ overlooked => p # Polite
    => \/ \E m \in Waiting(q) : OfferOf(m, p) /\ m.offer[3] = offers[p]
       \/ sig[q] = "have-remote-offer"
       \/ Answered(q, p)
       \/ partner[p] # 0 /\ Closing(q)
       \/ /\ p = Polite /\ seated = Page /\ ~Closing(q)
          /\ makingOffer[q] \/ \E m \in Waiting(p) : OfferOf(m, q)

\* Both have finished the same exchange last, unless an answer is on its way.
ExchangeOK(p, q) ==
    /\ \A m \in Waiting(p) : AnswerOf(m, q) => exchange[q] = m.offer
    /\ Stays(p) => exchange[p] = exchange[q] \/ Answered(p, q) \/ Answered(q, p)

GotOK(p, q) ==
    /\ \A m \in Waiting(p) : AnswerOf(m, q) => m.version = settled[q]
    /\ \A m \in Waiting(p) :
           OfferOf(m, q) /\ m.offer[3] = offers[q] => m.version = offered[q]
    /\ sig[p] = "have-remote-offer" \/ Answered(p, q) => got[p] = offered[q]
    /\ Stays(p) => \/ sig[p] = "have-remote-offer" \/ Answered(p, q)
                   \/ Answered(q, p) \/ got[p] = settled[q]

Settles(p, q) == PendingOK(p, q) /\ ExchangeOK(p, q) /\ GotOK(p, q)

QuietInv ==
    /\ CallOK
    /\ \A p, q \in Page : p # q =>
           /\ Placed(p, q) /\ Linked(p, q)
           /\ crossed = {} => Settles(p, q)

\* What the invariant of the negotiation says of the signals that wait.
Known(p, q) ==
    /\ ~peer[p] => /\ partner[p] = 0 /\ ops[p] = <<>> /\ sig[p] = "stable"
                   /\ ~makingOffer[p]
    /\ makingOffer[p] => ops[p] # <<>> /\ sig[p] = "stable"
    /\ p \in crossed => peer[p]
    /\ p \notin crossed /\ partner[p] # 0 => peer[q] /\ partner[p] = life[q]
    /\ \A m \in Waiting(p) :
           /\ m.sdp \in {"offer", "answer"} /\ m.type \in {"offer", "answer"}
           /\ m.from # 0 /\ m.from # life[q] + 1
           /\ OfferOf(m, q) => m.offer[3] # offers[q] + 1
    /\ partner[p] = 0 =>
           /\ sig[p] # "have-remote-offer"
           /\ sig[p] = "have-local-offer" => offers[p] = 1
           /\ \A m \in Waiting(q) : Of(m, p) =>
                  /\ sig[p] = "have-local-offer"
                  /\ OfferOf(m, p) /\ m.offer[3] = offers[p]

Matched(p, q) ==
    /\ \A m \in Waiting(p) : Of(m, q) => m.type = m.sdp
    /\ \A m \in Waiting(p) : AnswerOf(m, q) =>
           sig[p] = "have-local-offer" /\ m.offer = <<p, life[p], offers[p]>>
    /\ sig[p] = "have-remote-offer" =>
           /\ flushing[p] # 0 \/ ops[p] # <<>>
           /\ sig[q] = "have-local-offer"
           /\ applying[p] = <<q, life[q], offers[q]>>
           /\ ~Answered(p, q)
    /\ Answered(p, q) => \A m \in Waiting(p) : ~Of(m, q)

AllKnown == \A p, q \in Page : p # q => Known(p, q) /\ (crossed = {} => Matched(p, q))

LEMMA InvariantKnows == Types /\ PeerInv /\ NegotiationInv => AllKnown
<1> SUFFICES ASSUME Types, PeerInv, NegotiationInv, NEW p \in Page, NEW q \in Page,
                    p # q
             PROVE  Known(p, q) /\ (crossed = {} => Matched(p, q))
    BY DEF AllKnown
<1>1. /\ Waiting(p) = {At(p, i) : i \in Spot(p)}
      /\ Waiting(q) = {At(q, i) : i \in Spot(q)}
    BY WaitingAtSpots
<1>2. /\ life[p] \in Nat /\ partner[p] \in Nat /\ offers[p] \in Nat
      /\ life[q] \in Nat /\ partner[q] \in Nat /\ offers[q] \in Nat
      /\ peer[p] \in BOOLEAN
    BY DEF Types, PcTypes
<1>3. Always(p, q) /\ (crossed = {} => Agrees(p, q))
    BY DEF NegotiationInv
<1>4. Known(p, q)
  <2>1. ~peer[p] => /\ partner[p] = 0 /\ ops[p] = <<>> /\ sig[p] = "stable"
                    /\ ~makingOffer[p]
      BY DEF PeerInv, Idle
  <2>2. makingOffer[p] => ops[p] # <<>> /\ sig[p] = "stable"
      BY <1>3 DEF Always, MakingOK
  <2>3. /\ p \in crossed => peer[p]
        /\ p \notin crossed /\ partner[p] # 0 => peer[q] /\ partner[p] = life[q]
      BY <1>3 DEF Always, CrossedOK
  <2>4. ASSUME NEW i \in Spot(p)
        PROVE  /\ At(p, i).sdp \in {"offer", "answer"}
               /\ At(p, i).type \in {"offer", "answer"}
               /\ At(p, i).from # 0 /\ At(p, i).from # life[q] + 1
               /\ OfferOf(At(p, i), q) => At(p, i).offer[3] # offers[q] + 1
    <3>1. /\ 1 <= At(p, i).from /\ At(p, i).from <= life[q]
          /\ OfferOf(At(p, i), q) => At(p, i).offer[3] <= offers[q]
        BY <1>3 DEF Always, FromOK, OfferOf, Of, Live
    <3>2. /\ At(p, i).from \in Nat /\ At(p, i).offer[3] \in Nat
          /\ At(p, i).sdp \in {"offer", "answer"}
          /\ At(p, i).type \in {"offer", "answer"}
        BY SpotFacts, SpotTypes
    <3> QED
        BY <1>2, <3>1, <3>2
  <2>5. ASSUME partner[p] = 0
        PROVE  /\ sig[p] # "have-remote-offer"
               /\ sig[p] = "have-local-offer" => offers[p] = 1
      BY <1>3, <2>5 DEF Always, FreshOK
  <2>6. ASSUME partner[p] = 0, NEW i \in Spot(q), Of(At(q, i), p)
        PROVE  /\ sig[p] = "have-local-offer" /\ OfferOf(At(q, i), p)
               /\ At(q, i).offer[3] = offers[p]
    <3>1. /\ sig[p] = "have-local-offer" /\ At(q, i).sdp = "offer" /\ Live(q, p, i)
          /\ offers[p] = 1
        BY <1>3, <2>6 DEF Always, FreshOK, Of, Live
    <3>2. FromOK(q, p)
        BY DEF NegotiationInv, Always
    <3>3. 1 <= At(q, i).offer[3] /\ At(q, i).offer[3] <= offers[p]
        BY <3>1, <3>2 DEF FromOK
    <3>4. At(q, i).offer[3] \in Nat
        BY SpotTypes
    <3> QED
        BY <2>6, <3>1, <3>3, <3>4 DEF OfferOf
  <2> QED
      BY <1>1, <2>1, <2>2, <2>3, <2>4, <2>5, <2>6 DEF Known
<1>5. ASSUME crossed = {} PROVE Matched(p, q)
  <2>1. Agrees(p, q)
      BY <1>3, <1>5
  <2>2. \A i \in Spot(p) : Of(At(p, i), q) => At(p, i).type = At(p, i).sdp
      BY <2>1 DEF Agrees, LabelOK, Of, Live
  <2>3. \A i \in Spot(p) : AnswerOf(At(p, i), q) =>
            sig[p] = "have-local-offer" /\ At(p, i).offer = <<p, life[p], offers[p]>>
      BY <2>1 DEF Agrees, AnswerOK, AnswerOf, Of, LiveAnswer, Live
  <2>4. Answered(p, q) <=> \E i \in Spot(q) : LiveAnswer(q, p, i)
      BY <1>1 DEF Answered, AnswerOf, Of, LiveAnswer, Live
  <2>5. sig[p] = "have-remote-offer" =>
            /\ flushing[p] # 0 \/ ops[p] # <<>>
            /\ sig[q] = "have-local-offer"
            /\ applying[p] = <<q, life[q], offers[q]>>
            /\ ~Answered(p, q)
    <3> SUFFICES ASSUME sig[p] = "have-remote-offer"
                 PROVE  /\ flushing[p] # 0 \/ ops[p] # <<>>
                        /\ sig[q] = "have-local-offer"
                        /\ applying[p] = <<q, life[q], offers[q]>>
                        /\ ~Answered(p, q)
        OBVIOUS
    <3>1. /\ flushing[p] = 1 \/ ops[p] = <<ReplyOp>>
          /\ sig[q] = "have-local-offer"
          /\ applying[p] = <<q, life[q], offers[q]>>
          /\ \A j \in Spot(q) : ~LiveAnswer(q, p, j)
        BY <2>1 DEF Agrees, ReplyOK
    <3> QED
        BY <2>4, <3>1
  <2>6. Answered(p, q) => \A i \in Spot(p) : ~Of(At(p, i), q)
      BY <2>1, <2>4 DEF Agrees, TurnOK, Of, Live
  <2> QED
      BY <1>1, <2>2, <2>3, <2>5, <2>6 DEF Matched
<1> QED
    BY <1>4, <1>5

\* An offer that the impolite page is going to ignore, and that is the pending one,
\* was sent after any answer: the answer is at hand.
LEMMA AnswerBeforeOffer ==
    ASSUME Types, NEW p \in Page, NEW q \in Page, OfferOK(p, q), channel[p] # <<>>,
           NEW m, m = Head(channel[p]), IsSignal(m), OfferOf(m, q),
           m.offer[3] = offers[q], sig[q] = "have-local-offer", Answered(q, p)
    PROVE  AnswerAtHand(p)
<1>1. PICK o \in Nat, c \in Nat : o = Len(ops[p]) /\ c = Len(channel[p])
    BY QueueFacts
<1>2. o + 1 \in Spot(p) /\ At(p, o + 1) = m
  <2>1. c >= 1 /\ channel[p][1] = m
      BY <1>1, QueueFacts
  <2>2. o + 1 \in 1..(o + c) /\ ~(o + 1 <= o) /\ (o + 1) - o = 1
      BY <2>1
  <2> QED
      BY <1>1, <2>1, <2>2 DEF Spot, At, IsSignal
<1>3. LiveOffer(p, q, o + 1) /\ ~(At(p, o + 1).offer[3] < offers[q])
  <2>1. offers[q] \in Nat
      BY DEF Types, PcTypes
  <2> QED
      BY <1>2, <2>1 DEF LiveOffer, Live, OfferOf, Of
<1>4. \A j \in Spot(p) : j <= o + 1
    BY <1>2, <1>3 DEF OfferOK
<1>5. PICK j \in Spot(p) : AnswerOf(At(p, j), q)
    BY WaitingAtSpots DEF Answered
<1>6. j # o + 1
    BY <1>2, <1>5 DEF OfferOf, AnswerOf
<1>7. j \in Nat \ {0} /\ j <= o
    BY <1>4, <1>6, SpotFacts
<1>8. j \in 1..o
    BY <1>7
<1>9. ops[p][j].set = "remote" /\ ops[p][j].signal.sdp = "answer"
    BY <1>1, <1>5, <1>7 DEF Spot, At, AnswerOf
<1>10. j \in DOMAIN ops[p]
    BY <1>1, <1>8, QueueFacts
<1> QED
    BY <1>9, <1>10 DEF AnswerAtHand

\* The invariant for the two pages that there are.
LEMMA QuietPair ==
    ASSUME NEW p \in Page, NEW q \in Page, p # q, \A r \in Page : r = p \/ r = q
    PROVE  /\ QuietInv => /\ CallOK /\ Placed(p, q) /\ Placed(q, p)
                          /\ Linked(p, q) /\ Linked(q, p)
                          /\ crossed = {} => Settles(p, q) /\ Settles(q, p)
           /\ AllKnown => /\ Known(p, q) /\ Known(q, p)
                          /\ crossed = {} => Matched(p, q) /\ Matched(q, p)
<1>1. QuietInv => /\ CallOK /\ Placed(p, q) /\ Placed(q, p)
                  /\ Linked(p, q) /\ Linked(q, p)
                  /\ crossed = {} => Settles(p, q) /\ Settles(q, p)
    BY DEF QuietInv
<1>2. AllKnown => /\ Known(p, q) /\ Known(q, p)
                  /\ crossed = {} => Matched(p, q) /\ Matched(q, p)
    BY DEF AllKnown
<1> QED
    BY <1>1, <1>2

LEMMA QuietPairNext ==
    ASSUME NEW p \in Page, NEW q \in Page, p # q, \A r \in Page : r = p \/ r = q,
           CallOK', Placed(p, q)', Placed(q, p)', Linked(p, q)', Linked(q, p)',
           crossed' = {} => Settles(p, q)' /\ Settles(q, p)'
    PROVE  QuietInv'
<1> SUFFICES ASSUME NEW r \in Page, NEW s \in Page, r # s
             PROVE  /\ Placed(r, s)' /\ Linked(r, s)'
                    /\ crossed' = {} => Settles(r, s)'
    BY DEF QuietInv
<1>1. (r = p /\ s = q) \/ (r = q /\ s = p)
    OBVIOUS
<1> QED
    BY <1>1

LEMMA KnownNext ==
    ASSUME NEW p \in Page, NEW q \in Page, p # q, AllKnown'
    PROVE  /\ Known(p, q)' /\ Known(q, p)'
           /\ crossed' = {} => Matched(p, q)' /\ Matched(q, p)'
BY DEF AllKnown

\* The members and their calls, by a step that makes and closes no connection.
LEMMA RoomSteady ==
    ASSUME NEW p \in Page, NEW q \in Page, p # q, \A r \in Page : r = p \/ r = q,
           seated' = seated, entering' \subseteq entering, telling' = telling,
           uncalled' = uncalled,
           \A r \in Page :
               /\ peer'[r] = peer[r] /\ control'[r] = control[r]
               /\ Closing(r)' <=> Closing(r)
               /\ \A m \in Standing(r)' : m.type = "user_joined" => m \in Standing(r)
               /\ \A m \in Standing(r)' : \/ m \in Standing(r) \/ seated = Page
                                          \/ m.type \notin {"user_joined", "offer"}
               /\ \A m \in Standing(r) : m.type = "user_joined" => m \in Standing(r)',
           CallOK, Placed(p, q), Placed(q, p)
    PROVE  CallOK' /\ Placed(p, q)' /\ Placed(q, p)'
<1>1. \A r \in Page : Called(r) => Called(r)'
    BY DEF Called
<1>2. CallOK'
    BY <1>1 DEF CallOK
<1>3. TellOK(p, q)' /\ TellOK(q, p)'
    BY DEF Placed, TellOK
<1>4. ASSUME NEW r \in Page, NEW s \in Page, CleanOK(r, s), r # s PROVE CleanOK(r, s)'
    BY <1>4 DEF CleanOK
<1>5. ASSUME NEW r \in Page, NEW s \in Page, EnterOK(r, s) PROVE EnterOK(r, s)'
    BY <1>5 DEF EnterOK
<1> QED
    BY <1>2, <1>3, <1>4, <1>5 DEF Placed

\* The same by a step that takes a message.
LEMMA RoomTaken ==
    ASSUME NEW p \in Page, NEW q \in Page, p # q, \A r \in Page : r = p \/ r = q,
           seated' = seated, entering' = entering, telling' = telling,
           uncalled' = uncalled,
           peer'[q] = peer[q], control'[q] = control[q], Keeps(q), NEW m, Thinner(p),
           ~Closes(m) => (Closing(p)' <=> Closing(p)),
           Closes(m) => Closing(p) /\ ~peer'[p] /\ ~control'[p],
           Closing(p) => Standing(p)' = Standing(p), ~Closing(p) => m \in Standing(p),
           \A s \in Standing(p) : s \in Standing(p)' \/ s = m,
           ~Closes(m) => peer'[p] = peer[p]
                         \/ (m.type \in {"user_joined", "offer"} /\ peer'[p]),
           m.type = "user_joined" => peer'[p],
           ~Closes(m) /\ m.type # "user_joined" => control'[p] = control[p],
           CallOK, Placed(p, q), Placed(q, p)
    PROVE  CallOK' /\ Placed(p, q)' /\ Placed(q, p)'
<1>1. Called(q) => Called(q)'
    BY DEF Called, Keeps
<1>2. Called(p) => Called(p)'
  <2>1. CASE Closing(p)
    <3>1. Called(p) => \E s \in Standing(p)' : s.type = "user_joined"
        BY <2>1 DEF Called
    <3> QED
        BY <3>1 DEF Called
  <2>2. CASE ~Closing(p)
    <3>1. ~Closes(m) /\ ~Closing(p)'
        BY <2>2 DEF Thinner
    <3>2. peer[p] => Called(p)'
        BY <3>1 DEF Called
    <3>3. ASSUME NEW s \in Standing(p), s.type = "user_joined" PROVE Called(p)'
      <4>1. CASE s = m
          BY <3>1, <3>3, <4>1 DEF Called
      <4>2. CASE s # m
          BY <3>3, <4>2 DEF Called
      <4> QED
          BY <4>1, <4>2
    <3> QED
        BY <3>2, <3>3 DEF Called
  <2> QED
      BY <2>1, <2>2
<1>3. CallOK'
    BY <1>1, <1>2 DEF CallOK
<1>4. TellOK(p, q)' /\ TellOK(q, p)'
    BY DEF Placed, TellOK
<1>5. CleanOK(q, p)'
    BY DEF CleanOK, Placed, Keeps
<1>6. CleanOK(p, q)'
  <2> SUFFICES ASSUME p \in seated, q \notin seated
               PROVE  /\ \A s \in Standing(p)' : s.type \notin {"user_joined", "offer"}
                      /\ Closing(p)' \/ (~peer'[p] /\ ~control'[p])
      BY DEF CleanOK
  <2>1. /\ \A s \in Standing(p) : s.type \notin {"user_joined", "offer"}
        /\ Closing(p) \/ (~peer[p] /\ ~control[p])
      BY DEF Placed, CleanOK
  <2>2. \A s \in Standing(p)' : s.type \notin {"user_joined", "offer"}
      BY <2>1 DEF Thinner
  <2> QED
      BY <2>1, <2>2
<1>7. EnterOK(p, q)'
    BY DEF EnterOK, Placed, Keeps
<1>8. EnterOK(q, p)'
  <2> SUFFICES ASSUME q \in entering, p \in seated
               PROVE  /\ \A s \in Standing(p)' : s.type # "user_joined"
                      /\ Closing(p)' \/ ~control'[p]
      BY DEF EnterOK
  <2>1. /\ \A s \in Standing(p) : s.type # "user_joined"
        /\ Closing(p) \/ ~control[p]
      BY DEF Placed, EnterOK
  <2>2. \A s \in Standing(p)' : s.type # "user_joined"
      BY <2>1 DEF Thinner
  <2> QED
      BY <2>1, <2>2
<1> QED
    BY <1>3, <1>4, <1>5, <1>6, <1>7, <1>8 DEF Placed

SameConnection(r) ==
    /\ peer'[r] = peer[r] /\ life'[r] = life[r] /\ control'[r] = control[r]
    /\ sig'[r] = sig[r] /\ fired'[r] = fired[r] /\ makingOffer'[r] = makingOffer[r]
    /\ offers'[r] = offers[r] /\ offered'[r] = offered[r]
    /\ settled'[r] = settled[r] /\ got'[r] = got[r] /\ exchange'[r] = exchange[r]
    /\ partner'[r] = partner[r]

SameFirst(r) == ops[r] # <<>> => ops'[r] # <<>> /\ ops'[r][1] = ops[r][1]

SameSignals(r) ==
    /\ Closing(r)' <=> Closing(r)
    /\ Waiting(r)' = Waiting(r)
    /\ Doomed(r)' = Doomed(r)

\* A step that changes no connection and no signal.
LEMMA MuteLinks ==
    ASSUME NEW p \in Page, NEW q \in Page, SameConnection(p), SameConnection(q),
           SameSignals(p), SameSignals(q), SameFirst(p), seated' = seated,
           crossed' = crossed, uncalled => uncalled', overlooked' = overlooked,
           Linked(p, q)
    PROVE  Linked(p, q)' /\ (Settles(p, q) => Settles(p, q)')
<1>2. Stays(p)' <=> Stays(p)
    BY DEF Stays, SameSignals
<1>3. /\ Answered(p, q)' <=> Answered(p, q)
      /\ Answered(q, p)' <=> Answered(q, p)
    BY DEF Answered, AnswerOf, Of, SameConnection, SameSignals
<1>4. CutOK(p, q)' /\ PartnerOK(p, q)'
    BY DEF Linked, CutOK, PartnerOK, Attached, Of, SameConnection, SameSignals
<1>5. SaysOK(p)' /\ FiredOK(p)' /\ MadeOK(p)'
    BY DEF Linked, SaysOK, FiredOK, MadeOK, SameConnection, SameFirst, SameSignals
<1>6. NewOK(p, q)' /\ FirstOK(p, q)'
    BY <1>2 DEF Linked, NewOK, FirstOK, Attached, Of, SameConnection, SameSignals
<1>7. ASSUME Settles(p, q) PROVE Settles(p, q)'
  <2>1. PendingOK(p, q)'
      BY <1>2, <1>3, <1>7
      DEF Settles, PendingOK, OfferOf, Of, SameConnection, SameSignals
  <2>2. ExchangeOK(p, q)'
      BY <1>2, <1>3, <1>7
      DEF Settles, ExchangeOK, AnswerOf, Of, SameConnection, SameSignals
  <2>3. GotOK(p, q)'
      BY <1>2, <1>3, <1>7
      DEF Settles, GotOK, OfferOf, AnswerOf, Of, SameConnection, SameSignals
  <2> QED
      BY <2>1, <2>2, <2>3 DEF Settles
<1> QED
    BY <1>4, <1>5, <1>6, <1>7 DEF Linked

\* A message that is no signal and closes nothing, told or taken.
LEMMA NeutralQueue ==
    ASSUME Types, NEW p \in Page, p \in entering' <=> p \in entering,
           ops'[p] = ops[p], NEW t \in {"ice_candidate", "user_joined"},
           \/ channel'[p] = Append(channel[p], [type |-> t])
           \/ /\ channel[p] # <<>> /\ channel'[p] = Tail(channel[p])
              /\ Head(channel[p]).type = t
    PROVE  /\ SameSignals(p) /\ SameFirst(p)
           /\ \A m \in Standing(p)' : m \in Standing(p) \/ m.type = t
           /\ \A m \in Standing(p) : m \in Standing(p)' \/ m.type = t
           /\ channel'[p] = Append(channel[p], [type |-> t]) /\ p \notin entering =>
                  \E m \in Standing(p)' : m.type = t /\ (Closing(p) \/ ~Closing(p)')
<1>1. SameFirst(p)
    BY DEF SameFirst
<1>2. CASE channel'[p] = Append(channel[p], [type |-> t])
  <2> DEFINE m == [type |-> t]
  <2>1. m \in Message /\ m.type = t
      BY MessageTypes
  <2>2. ~Closes(m) /\ ~IsSignal(m)
      BY <2>1 DEF Closes, IsSignal
  <2> HIDE DEF m
  <2>3. channel'[p] = Append(channel[p], m)
      BY <1>2 DEF m
  <2>4. /\ Closing(p)' <=> Closing(p) \/ Closes(m)
        /\ Standing(p)' = IF p \in entering \/ Closes(m) THEN {}
                          ELSE Standing(p) \cup {m}
        /\ Waiting(p)' = Waiting(p) \cup (IF IsSignal(m) THEN {m} ELSE {})
        /\ Doomed(p)' = IF p \in entering \/ Closes(m) THEN Waiting(p)'
                        ELSE Doomed(p)
      BY <2>1, <2>3, QueueTold
  <2>5. p \in entering => Standing(p) = {} /\ Doomed(p) = Waiting(p)
      BY DEF Standing, Doomed
  <2>6. SameSignals(p)
      BY <2>2, <2>4, <2>5 DEF SameSignals
  <2>7. Standing(p)' = IF p \in entering THEN Standing(p) ELSE Standing(p) \cup {m}
      BY <2>2, <2>4, <2>5
  <2> QED
      BY <1>1, <2>1, <2>6, <2>7 DEF SameSignals
<1>3. CASE /\ channel[p] # <<>> /\ channel'[p] = Tail(channel[p])
           /\ Head(channel[p]).type = t
  <2>1. PICK m : m = Head(channel[p])
      OBVIOUS
  <2>2. ~Closes(m) /\ ~IsSignal(m) /\ m.type = t
      BY <1>3, <2>1 DEF Closes, IsSignal
  <2>3. /\ Closing(p)' <=> Closing(p)
        /\ Waiting(p)' = Waiting(p) /\ Doomed(p)' = Doomed(p) /\ Thinner(p)
        /\ \A s \in Standing(p) : s \in Standing(p)' \/ s = m
      BY <1>3, <2>1, <2>2, QueueTaken
  <2>4. channel'[p] # Append(channel[p], [type |-> t])
    <3>1. [type |-> t] \in Message
        BY MessageTypes
    <3>2. Len(channel'[p]) # Len(Append(channel[p], [type |-> t]))
        BY <1>3, <3>1, QueueFacts
    <3> QED
        BY <3>2
  <2> QED
      BY <1>1, <2>2, <2>3, <2>4 DEF SameSignals, Thinner
<1> QED
    BY <1>2, <1>3

\* A step that takes no message and no description.
LEMMA KeptQueue ==
    ASSUME Types, NEW p \in Page, p \in entering' <=> p \in entering,
           channel'[p] = channel[p],
           \/ ops'[p] = ops[p]
           \/ \E op \in Operation : op.set = "local" /\ ops'[p] = Append(ops[p], op)
    PROVE  Keeps(p) /\ SameSignals(p) /\ SameFirst(p)
<1>1. Keeps(p)
    BY QueueKept
<1>2. SameFirst(p)
  <2>1. CASE \E op \in Operation : op.set = "local" /\ ops'[p] = Append(ops[p], op)
    <3>1. PICK op \in Operation : ops'[p] = Append(ops[p], op)
        BY <2>1
    <3>2. ops[p] \in Seq(Operation)
        BY QueueFacts
    <3> QED
        BY <3>1, <3>2 DEF SameFirst
  <2> QED
      BY <2>1 DEF SameFirst
<1> QED
    BY <1>1, <1>2 DEF Keeps, SameSignals

\* Media changes, candidates, the hub that tells a join, and a flush that is through.
LEMMA MuteQuiet ==
    ASSUME Types, QuietInv, NEW p \in Page,
           \/ ChangeMedia(p) \/ OnIceCandidate(p) \/ HandleICECandidate(p)
           \/ TellJoined(p) \/ Reply(p)
    PROVE  QuietInv'
<1>1. PICK q \in Page : q = Other(p) /\ q # p /\ \A r \in Page : r = p \/ r = q
    BY TwoPages
<1>11. uncalled => uncalled'
    BY ZenonT(30) DEF ChangeMedia, OnIceCandidate, HandleICECandidate,
                      TellJoined, Reply,
           roomVars, history
<1>2. /\ seated' = seated /\ entering' = entering /\ crossed' = crossed
      /\ uncalled => uncalled'
      /\ overlooked' = overlooked
      /\ UNCHANGED <<peer, life, control, sig, fired, makingOffer, offers, offered,
                     settled, got, exchange, partner>>
    BY <1>11 DEF ChangeMedia, OnIceCandidate, HandleICECandidate, TellJoined, Reply,
           roomVars, history, pageVars, pcVars
<1>3. SameConnection(p) /\ SameConnection(q)
    BY <1>2 DEF SameConnection
<1>4. ASSUME NEW r \in Page
      PROVE  \/ /\ channel'[r] = channel[r]
                /\ \/ ops'[r] = ops[r]
                   \/ \E op \in Operation :
                          op.set = "local" /\ ops'[r] = Append(ops[r], op)
             \/ /\ ops'[r] = ops[r]
                /\ \E t \in {"ice_candidate", "user_joined"} :
                     /\ t = "user_joined" => TellJoined(p) /\ r = p
                     /\ \/ channel'[r] = Append(channel[r], [type |-> t])
                        \/ /\ channel[r] # <<>> /\ channel'[r] = Tail(channel[r])
                           /\ Head(channel[r]).type = t
  <2>1. /\ channel \in [Page -> Seq(Signal \cup Message)]
        /\ ops \in [Page -> Seq(Operation)]
      BY DEF Types, QueueTypes
  <2>2. CASE ChangeMedia(p)
      BY <2>2 DEF ChangeMedia, pcVars
  <2>3. CASE OnIceCandidate(p)
      BY <2>1, <2>3 DEF OnIceCandidate, Send, pcVars
  <2>4. CASE HandleICECandidate(p)
      BY <2>1, <2>4 DEF HandleICECandidate, Arrives, Taken, pcVars
  <2>5. CASE TellJoined(p)
      BY <2>1, <2>5 DEF TellJoined, Tell, pcVars
  <2>6. CASE Reply(p)
    <3>1. [set |-> "local", by |-> "handleOffer"] \in Operation
        BY DEF Operation
    <3> QED
        BY <2>1, <2>6, <3>1 DEF Reply, Chain
  <2> QED
      BY <2>2, <2>3, <2>4, <2>5, <2>6
<1>5. ASSUME NEW r \in Page
      PROVE  /\ SameSignals(r) /\ SameFirst(r)
             /\ \A m \in Standing(r)' : \/ m \in Standing(r) \/ m.type = "ice_candidate"
                                        \/ TellJoined(p) /\ r = p
             /\ \A m \in Standing(r) : \/ m \in Standing(r)' \/ m.type = "ice_candidate"
                                       \/ TellJoined(p) /\ r = p
    BY <1>2, <1>4, KeptQueue, NeutralQueue DEF Keeps
<1>6. CallOK' /\ Placed(p, q)' /\ Placed(q, p)'
  <2>1. CASE ~TellJoined(p)
    <3>1. telling' = telling /\ uncalled' = uncalled
        BY <2>1 DEF ChangeMedia, OnIceCandidate, HandleICECandidate, Reply, roomVars,
                    history
    <3>2. \A r \in Page : /\ peer'[r] = peer[r] /\ control'[r] = control[r]
                          /\ (Closing(r)' <=> Closing(r))
        BY <1>2, <1>5 DEF SameSignals
    <3>3. \A r \in Page :
             /\ \A m \in Standing(r)' : m.type = "user_joined" => m \in Standing(r)
             /\ \A m \in Standing(r)' : \/ m \in Standing(r) \/ seated = Page
                                        \/ m.type \notin {"user_joined", "offer"}
             /\ \A m \in Standing(r) : m.type = "user_joined" => m \in Standing(r)'
        BY <1>5, <2>1
    <3> QED
        BY <1>1, <1>2, <3>1, <3>2, <3>3, QuietPair, RoomSteady
  <2>2. CASE TellJoined(p)
    <3>1. p \in telling /\ telling' = telling \ {p} /\ ops'[p] = ops[p]
          /\ channel'[p] = Append(channel[p], [type |-> "user_joined"])
          /\ q \notin entering /\ (p \in entering => uncalled')
        BY <1>1, <2>2 DEF TellJoined, Tell, pcVars, Types, QueueTypes
    <3>2. /\ CallOK /\ Placed(p, q) /\ Placed(q, p)
        BY <1>1, QuietPair
    <3>3. q \in seated
        BY <3>1, <3>2 DEF Placed, TellOK
    <3>4. p \notin entering => Called(p)'
        BY <1>2, <3>1, NeutralQueue DEF Called
    <3>5. CallOK'
        BY <3>1, <3>4 DEF CallOK
    <3>6. TellOK(p, q)' /\ TellOK(q, p)'
        BY <1>2, <3>1, <3>2 DEF Placed, TellOK
    <3>7. CleanOK(p, q)' /\ EnterOK(q, p)'
        BY <1>2, <3>1, <3>3 DEF CleanOK, EnterOK
    <3>8. CleanOK(q, p)' /\ EnterOK(p, q)'
        BY <1>1, <1>2, <1>5, <3>2 DEF Placed, CleanOK, EnterOK, SameSignals
    <3> QED
        BY <3>5, <3>6, <3>7, <3>8 DEF Placed
  <2> QED
      BY <2>1, <2>2
<1>7. Linked(p, q) /\ Linked(q, p) /\ (crossed = {} => Settles(p, q) /\ Settles(q, p))
    BY <1>1, QuietPair
<1>8. /\ Linked(p, q)' /\ Linked(q, p)'
      /\ crossed' = {} => Settles(p, q)' /\ Settles(q, p)'
    BY <1>2, <1>3, <1>5, <1>7, MuteLinks
<1> QED
    BY <1>1, <1>6, <1>8, QuietPairNext

\* A message that has p close its connection dooms all that waits for it.
LEMMA ToldToClose ==
    ASSUME Types, NEW p \in Page, p \in entering' <=> p \in entering,
           NEW t \in {"user_left", "room_joined", "elsewhere", "room_left"},
           ops'[p] = ops[p], channel'[p] = Append(channel[p], [type |-> t])
    PROVE  /\ Closing(p)' /\ Standing(p)' = {}
           /\ Waiting(p)' = Waiting(p) /\ Doomed(p)' = Waiting(p)
<1> DEFINE m == [type |-> t]
<1>1. m \in Message /\ m.type = t
    BY MessageTypes
<1>2. Closes(m) /\ ~IsSignal(m)
    BY <1>1 DEF Closes, IsSignal
<1> HIDE DEF m
<1>3. channel'[p] = Append(channel[p], m)
    BY DEF m
<1>4. /\ Closing(p)' <=> Closing(p) \/ Closes(m)
      /\ Standing(p)' = IF p \in entering \/ Closes(m) THEN {} ELSE Standing(p) \cup {m}
      /\ Waiting(p)' = Waiting(p) \cup (IF IsSignal(m) THEN {m} ELSE {})
      /\ Doomed(p)' = IF p \in entering \/ Closes(m) THEN Waiting(p)' ELSE Doomed(p)
    BY <1>1, <1>3, QueueTold
<1> QED
    BY <1>2, <1>4

\* The user gives the seat up and waits for the other room.
LEMMA MoveQuiet ==
    ASSUME Types, QuietInv, NEW p \in Page, JoinElsewhere(p)
    PROVE  QuietInv'
<1>1. PICK q \in Page : q = Other(p) /\ q # p /\ \A r \in Page : r = p \/ r = q
    BY TwoPages
<1>2. /\ seated' = seated \ {p} /\ entering' = entering /\ p \notin entering
      /\ telling' = telling /\ crossed' = crossed
      /\ uncalled' = uncalled /\ overlooked' = overlooked /\ q \notin telling
      /\ UNCHANGED <<peer, life, control, sig, fired, makingOffer, offers, offered,
                     settled, got, exchange, partner, ops>>
    BY <1>1 DEF JoinElsewhere, GiveUpSeat, pageVars, pcVars
<1>3. SameConnection(p) /\ SameConnection(q)
    BY <1>2 DEF SameConnection
<1>4. /\ channel'[p] = Append(channel[p], [type |-> "elsewhere"])
      /\ q \in seated => channel'[q] = Append(channel[q], [type |-> "user_left"])
      /\ q \notin seated => channel'[q] = channel[q]
    BY <1>1 DEF JoinElsewhere, GiveUpSeat
<1>5. Closing(p)' /\ Waiting(p)' = Waiting(p)
    BY <1>2, <1>4, ToldToClose
<1>6. q \in seated =>
          Closing(q)' /\ Standing(q)' = {} /\ Waiting(q)' = Waiting(q)
    BY <1>2, <1>4, ToldToClose
<1>7. q \notin seated => SameSignals(q)
    BY <1>2, <1>4, KeptQueue
<1>8. /\ CallOK /\ Placed(p, q) /\ Placed(q, p) /\ Linked(p, q) /\ Linked(q, p)
      /\ crossed = {} => Settles(p, q) /\ Settles(q, p)
    BY <1>1, QuietPair
<1>9. Waiting(q)' = Waiting(q)
    BY <1>6, <1>7 DEF SameSignals
<1>10. ~Stays(p)' /\ ~Stays(q)'
    BY <1>2, <1>5, <1>6 DEF Stays
<1>11. CallOK'
    BY <1>2 DEF CallOK
<1>12. Placed(p, q)' /\ Placed(q, p)'
    BY <1>1, <1>2, <1>6, <1>8 DEF Placed, TellOK, CleanOK, EnterOK
<1>13. Linked(p, q)'
  <2>1. CutOK(p, q)' /\ PartnerOK(p, q)' /\ FirstOK(p, q)'
      BY <1>5, <1>10 DEF CutOK, PartnerOK, FirstOK
  <2>2. SaysOK(p)' /\ FiredOK(p)' /\ MadeOK(p)' /\ NewOK(p, q)'
      BY <1>2, <1>3, <1>5, <1>8, <1>9
      DEF Linked, SaysOK, FiredOK, MadeOK, NewOK, Of, SameConnection
  <2> QED
      BY <2>1, <2>2 DEF Linked
<1>14. Linked(q, p)'
  <2>1. CutOK(q, p)' /\ PartnerOK(q, p)'
    <3>1. CASE q \in seated
        BY <1>6, <3>1 DEF CutOK, PartnerOK
    <3>2. CASE q \notin seated
        BY <1>2, <1>3, <1>5, <1>7, <1>8, <3>2
        DEF Linked, CutOK, PartnerOK, Attached, Of, SameConnection, SameSignals
    <3> QED
        BY <3>1, <3>2
  <2>2. FirstOK(q, p)'
      BY <1>10 DEF FirstOK
  <2>3. SaysOK(q)' /\ FiredOK(q)' /\ MadeOK(q)' /\ NewOK(q, p)'
      BY <1>2, <1>3, <1>5, <1>8, <1>9
      DEF Linked, SaysOK, FiredOK, MadeOK, NewOK, Of, SameConnection
  <2> QED
      BY <2>1, <2>2, <2>3 DEF Linked
<1>15. ASSUME crossed' = {} PROVE Settles(p, q)' /\ Settles(q, p)'
  <2>1. Settles(p, q) /\ Settles(q, p)
      BY <1>2, <1>8, <1>15
  <2>2. /\ Answered(p, q)' <=> Answered(p, q)
        /\ Answered(q, p)' <=> Answered(q, p)
      BY <1>3, <1>5, <1>9 DEF Answered, AnswerOf, Of, SameConnection
  <2>3. PendingOK(p, q)' /\ PendingOK(q, p)'
      BY <1>10 DEF PendingOK
  <2>4. ExchangeOK(p, q)' /\ ExchangeOK(q, p)'
      BY <1>3, <1>5, <1>9, <1>10, <2>1
      DEF Settles, ExchangeOK, AnswerOf, Of, SameConnection
  <2>5. GotOK(p, q)' /\ GotOK(q, p)'
      BY <1>3, <1>5, <1>9, <1>10, <2>1, <2>2
      DEF Settles, GotOK, OfferOf, AnswerOf, Of, SameConnection
  <2> QED
      BY <2>3, <2>4, <2>5 DEF Settles
<1> QED
    BY <1>1, <1>11, <1>12, <1>13, <1>14, <1>15, QuietPairNext

\* The user takes a seat, for the first time or again.
LEMMA TakeQuiet ==
    ASSUME Types, QuietInv, AllKnown, NEW p \in Page, TakeSeat(p)
    PROVE  QuietInv'
<1>1. PICK q \in Page : q = Other(p) /\ q # p /\ \A r \in Page : r = p \/ r = q
    BY TwoPages
<1>2. /\ p \notin seated /\ seated' = seated \cup {p} /\ telling' = telling \cup seated
      /\ entering' = entering \cup {p} /\ channel' = channel
      /\ crossed' = crossed /\ uncalled' = uncalled /\ overlooked' = overlooked
      /\ UNCHANGED <<peer, life, control, sig, fired, makingOffer, offers, offered,
                     settled, got, exchange, partner, ops>>
    BY DEF TakeSeat, history, pageVars, pcVars
<1>3. SameConnection(p) /\ SameConnection(q)
    BY <1>2 DEF SameConnection
<1>4. q \in entering' <=> q \in entering
    BY <1>1, <1>2
<1>5. /\ Closing(p)' /\ Standing(p)' = {} /\ Waiting(p)' = Waiting(p)
    BY <1>2 DEF Closing, Standing, Waiting
<1>6. SameSignals(q) /\ Waiting(q)' = Waiting(q) /\ Standing(q)' = Standing(q)
    BY <1>2, <1>4, KeptQueue DEF SameSignals, Keeps
<1>7. /\ CallOK /\ Placed(p, q) /\ Placed(q, p) /\ Linked(p, q) /\ Linked(q, p)
      /\ crossed = {} => Settles(p, q) /\ Settles(q, p)
      /\ Known(p, q) /\ Known(q, p)
    BY <1>1, QuietPair
<1>8. ~Stays(p)' /\ (Stays(q)' <=> Stays(q))
    BY <1>1, <1>2, <1>5, <1>6 DEF Stays, SameSignals
<1>9. Stays(q) => sig[q] = "stable"
    BY <1>2, <1>7 DEF Stays, Placed, CleanOK, Known
<1>10. seated # Page
    BY <1>2
<1>11. CallOK'
  <2>1. seated' = Page => q \in telling'
      BY <1>1, <1>2
  <2> QED
      BY <2>1 DEF CallOK
<1>12. Placed(p, q)' /\ Placed(q, p)'
  <2>1. TellOK(p, q)' /\ TellOK(q, p)' /\ CleanOK(p, q)' /\ CleanOK(q, p)'
      BY <1>1, <1>2, <1>5, <1>7 DEF Placed, TellOK, CleanOK
  <2>2. EnterOK(q, p)'
      BY <1>5 DEF EnterOK
  <2>3. EnterOK(p, q)'
      BY <1>1, <1>2, <1>6, <1>7 DEF Placed, CleanOK, EnterOK, SameSignals
  <2> QED
      BY <2>1, <2>2, <2>3 DEF Placed
<1>13. Linked(p, q)'
  <2>1. CutOK(p, q)' /\ PartnerOK(p, q)' /\ FirstOK(p, q)'
      BY <1>5, <1>8 DEF CutOK, PartnerOK, FirstOK
  <2>2. SaysOK(p)' /\ FiredOK(p)' /\ MadeOK(p)' /\ NewOK(p, q)'
      BY <1>2, <1>3, <1>5, <1>6, <1>7
      DEF Linked, SaysOK, FiredOK, MadeOK, NewOK, Of, SameConnection
  <2> QED
      BY <2>1, <2>2 DEF Linked
<1>14. Linked(q, p)'
  <2>1. CutOK(q, p)' /\ PartnerOK(q, p)'
      BY <1>2, <1>3, <1>5, <1>6, <1>7, <1>10
      DEF Linked, CutOK, PartnerOK, Attached, Of, SameConnection, SameSignals
  <2>2. FirstOK(q, p)'
      BY <1>3, <1>8, <1>9 DEF FirstOK, SameConnection
  <2>3. SaysOK(q)' /\ FiredOK(q)' /\ MadeOK(q)' /\ NewOK(q, p)'
      BY <1>2, <1>3, <1>5, <1>6, <1>7
      DEF Linked, SaysOK, FiredOK, MadeOK, NewOK, Of, SameConnection
  <2> QED
      BY <2>1, <2>2, <2>3 DEF Linked
<1>15. ASSUME crossed' = {} PROVE Settles(p, q)' /\ Settles(q, p)'
  <2>1. Settles(p, q) /\ Settles(q, p)
      BY <1>2, <1>7, <1>15
  <2>2. /\ Answered(p, q)' <=> Answered(p, q)
        /\ Answered(q, p)' <=> Answered(q, p)
      BY <1>3, <1>5, <1>6 DEF Answered, AnswerOf, Of, SameConnection
  <2>3. PendingOK(p, q)' /\ PendingOK(q, p)'
      BY <1>3, <1>8, <1>9 DEF PendingOK, SameConnection
  <2>4. ExchangeOK(p, q)' /\ ExchangeOK(q, p)'
      BY <1>3, <1>5, <1>6, <1>8, <2>1, <2>2
      DEF Settles, ExchangeOK, AnswerOf, Of, SameConnection
  <2>5. GotOK(p, q)' /\ GotOK(q, p)'
      BY <1>3, <1>5, <1>6, <1>8, <2>1, <2>2
      DEF Settles, GotOK, OfferOf, AnswerOf, Of, SameConnection
  <2> QED
      BY <2>3, <2>4, <2>5 DEF Settles
<1> QED
    BY <1>1, <1>11, <1>12, <1>13, <1>14, <1>15, QuietPairNext

\* room_joined is sent: its page was as good as told.
LEMMA EnterQuiet ==
    ASSUME Types, QuietInv, NEW p \in Page, SendRoomJoined(p)
    PROVE  QuietInv'
<1>1. PICK q \in Page : q = Other(p) /\ q # p /\ \A r \in Page : r = p \/ r = q
    BY TwoPages
<1>2. /\ p \in entering /\ entering' = entering \ {p}
      /\ UNCHANGED <<seated, telling, crossed, uncalled, overlooked, peer, life,
                     control, sig, fired, makingOffer, offers, offered, settled, got,
                     exchange, partner, ops>>
    BY DEF SendRoomJoined, history, pageVars, pcVars
<1>3. /\ channel'[p] = Append(channel[p], [type |-> "room_joined"])
      /\ channel'[q] = channel[q]
    BY <1>1 DEF SendRoomJoined, Tell, Types, QueueTypes
<1>4. Keeps(p)
  <2>1. PICK m \in Message : m = [type |-> "room_joined"]
      BY MessageTypes
  <2>2. Closes(m) /\ ~IsSignal(m)
      BY <2>1 DEF Closes, IsSignal
  <2>3. channel[p] \in Seq(Signal \cup Message)
      BY QueueFacts
  <2>4. /\ ClosesIn(channel'[p]) /\ StandingIn(channel'[p]) = {}
        /\ SignalsIn(channel'[p]) = SignalsIn(channel[p])
        /\ LostIn(channel'[p]) = SignalsIn(channel[p])
      BY <1>3, <2>1, <2>2, <2>3, AppendMessage
  <2>5. Waiting(p)' = Waiting(p)
      BY <1>2, <2>4 DEF Waiting
  <2>6. Doomed(p) = Waiting(p) /\ Standing(p) = {} /\ Closing(p)
      BY <1>2 DEF Doomed, Standing, Closing
  <2>7. Doomed(p)' = Waiting(p)
      BY <1>2, <2>4 DEF Doomed, Waiting
  <2>8. Standing(p)' = {} /\ Closing(p)'
      BY <1>2, <2>4 DEF Standing, Closing
  <2> QED
      BY <2>5, <2>6, <2>7, <2>8 DEF Keeps
<1>5. Keeps(q)
    BY <1>1, <1>2, <1>3, KeptQueue
<1>6. \A r \in Page : /\ SameConnection(r) /\ SameSignals(r) /\ SameFirst(r)
                      /\ Standing(r)' = Standing(r) /\ (Closing(r)' <=> Closing(r))
    BY <1>1, <1>2, <1>4, <1>5 DEF SameConnection, SameSignals, SameFirst, Keeps
<1>7. /\ CallOK /\ Placed(p, q) /\ Placed(q, p) /\ Linked(p, q) /\ Linked(q, p)
      /\ crossed = {} => Settles(p, q) /\ Settles(q, p)
    BY <1>1, QuietPair
<1>8. CallOK' /\ Placed(p, q)' /\ Placed(q, p)'
    BY <1>1, <1>2, <1>6, <1>7, RoomSteady
<1>9. /\ Linked(p, q)' /\ Linked(q, p)'
      /\ crossed' = {} => Settles(p, q)' /\ Settles(q, p)'
    BY <1>1, <1>2, <1>6, <1>7, MuteLinks
<1> QED
    BY <1>1, <1>8, <1>9, QuietPairNext

\* p has closed its connection: because it was told to, or it has failed, or the
\* user leaves the room.
Leaves(p, q) ==
    /\ p \notin seated' /\ Closing(p)' /\ (q \in seated' <=> q \in seated)
    /\ q \in seated => Closing(q)'
    /\ q \notin seated => (Closing(q)' <=> Closing(q)) /\ seated' = seated \ {p}

LEMMA CloseLinks ==
    ASSUME NEW p \in Page, NEW q \in Page, p # q,
           ~peer'[p], sig'[p] = "stable", ~fired'[p], settled'[p] = 0, got'[p] = 0,
           exchange'[p] = NoOffer, partner'[p] = 0,
           SameConnection(q), SameFirst(q), uncalled => uncalled',
           crossed' = (crossed \ {p}) \cup
                        {r \in {q} : peer[p] /\ peer[r] /\ partner[r] = life[p]},
           Waiting(p)' \subseteq Waiting(p), Waiting(q)' = Waiting(q),
           \/ /\ seated' = seated /\ Thinner(p) /\ SameSignals(q)
              /\ uncalled' \/ Closing(p)
           \/ Leaves(p, q),
           Linked(p, q), Linked(q, p), Known(p, q), Known(q, p)
    PROVE  /\ Linked(p, q)' /\ Linked(q, p)'
           /\ crossed' = {} => Settles(p, q)' /\ Settles(q, p)'
<1>1. q \notin crossed' => q \notin crossed /\ partner[q] = 0
    BY DEF Known
<1>2. \A m : ~Of(m, p)'
    BY DEF Of
<1>3. Leaves(p, q) => ~Stays(q)'
    BY DEF Leaves, Stays
<1>4. Linked(p, q)'
  <2>1. CutOK(p, q)'
      BY DEF CutOK, Of
  <2>2. PartnerOK(p, q)'
      BY <1>1 DEF PartnerOK, SameConnection
  <2>3. SaysOK(p)' /\ FiredOK(p)' /\ MadeOK(p)'
      BY DEF Linked, SaysOK, FiredOK, MadeOK
  <2>4. NewOK(p, q)' /\ FirstOK(p, q)'
      BY <1>1 DEF NewOK, FirstOK, Of, SameConnection
  <2> QED
      BY <2>1, <2>2, <2>3, <2>4 DEF Linked
<1>5. ASSUME sig[q] = "have-local-offer", q \notin crossed', Stays(q)', ~uncalled'
      PROVE  \/ \E m \in Waiting(p)' : Of(m, q)
             \/ ~Closing(p)
  <2>1. seated' = seated /\ Thinner(p) /\ SameSignals(q) /\ Closing(p)
      BY <1>3, <1>5
  <2>2. Stays(q) /\ ~Closing(q) /\ ~Attached(q)
      BY <1>1, <1>5, <2>1 DEF Stays, SameSignals, Attached
  <2>3. PICK m \in Waiting(p) : Of(m, q)
      BY <1>5, <2>1, <2>2 DEF Linked, FirstOK
  <2>4. m \notin Doomed(p)
      BY <2>2, <2>3 DEF Linked, CutOK
  <2> QED
      BY <2>1, <2>3, <2>4 DEF Thinner
<1>6. Linked(q, p)'
  <2>1. CutOK(q, p)'
    <3>1. CASE Leaves(p, q)
        BY <3>1 DEF Leaves, Linked, CutOK, Attached, Of, SameConnection
    <3>2. CASE ~Leaves(p, q)
        BY <3>2 DEF Linked, CutOK, Attached, Of, SameConnection, SameSignals, Thinner
    <3> QED
        BY <3>1, <3>2
  <2>2. PartnerOK(q, p)'
      BY DEF PartnerOK
  <2>3. SaysOK(q)' /\ FiredOK(q)' /\ MadeOK(q)'
      BY <1>1 DEF Linked, SaysOK, FiredOK, MadeOK, SameConnection, SameFirst
  <2>4. NewOK(q, p)'
      BY DEF Linked, NewOK, Of, SameConnection
  <2>5. FirstOK(q, p)'
    <3>1. Closing(p)' /\ Stays(q)' => Closing(p)
        BY <1>3 DEF Thinner
    <3> QED
        BY <1>5, <3>1 DEF FirstOK, Attached, Of, SameConnection
  <2> QED
      BY <2>1, <2>2, <2>3, <2>4, <2>5 DEF Linked
<1>7. ASSUME crossed' = {} PROVE Settles(p, q)' /\ Settles(q, p)'
  <2>1. partner[q] = 0
      BY <1>1, <1>7
  <2>2. /\ sig[q] # "have-remote-offer"
        /\ \A m \in Waiting(p)' : Of(m, q) =>
               OfferOf(m, q) /\ m.offer[3] = offers[q] /\ m.version = offered[q]
      BY <2>1 DEF Known, Linked, NewOK
  <2>3. \A m \in Waiting(p)' : ~AnswerOf(m, q)
      BY <2>2 DEF OfferOf, AnswerOf
  <2>4. settled[q] = 0 /\ got[q] = 0 /\ exchange[q] = NoOffer
      BY <2>1 DEF Linked, NewOK
  <2>5. ~Answered(p, q)' /\ ~Answered(q, p)'
      BY <2>3 DEF Answered, AnswerOf, Of, SameConnection
  <2>6. PendingOK(p, q)'
      BY DEF PendingOK
  <2>7. PendingOK(q, p)'
    <3> SUFFICES ASSUME sig[q] = "have-local-offer", Stays(q)', ~uncalled'
                 PROVE  \E m \in Waiting(p)' : OfferOf(m, q)' /\ m.offer[3] = offers'[q]
        BY DEF PendingOK, SameConnection
    <3>1. Closing(p)
        BY <1>3
    <3> QED
        BY <1>5, <1>7, <2>2, <3>1 DEF OfferOf, Of, SameConnection
  <2>8. ExchangeOK(p, q)' /\ ExchangeOK(q, p)'
      BY <2>3, <2>4 DEF ExchangeOK, AnswerOf, Of, SameConnection
  <2>9. GotOK(p, q)'
      BY <2>2, <2>3, <2>4, <2>5 DEF GotOK, AnswerOf, OfferOf, Of, SameConnection
  <2>10. GotOK(q, p)'
      BY <2>2, <2>3, <2>4, <2>5 DEF GotOK, AnswerOf, OfferOf, Of, SameConnection
  <2> QED
      BY <2>6, <2>7, <2>8, <2>9, <2>10 DEF Settles
<1> QED
    BY <1>4, <1>6, <1>7

\* What closePeer leaves.
LEMMA ClosedFacts ==
    ASSUME Types, NEW p \in Page, NEW q \in Page, q = Other(p), q # p, ClosePeer(p)
    PROVE  /\ ~peer'[p] /\ ~control'[p] /\ sig'[p] = "stable" /\ ~fired'[p]
           /\ settled'[p] = 0 /\ got'[p] = 0
           /\ exchange'[p] = NoOffer /\ partner'[p] = 0
           /\ SameConnection(q) /\ SameFirst(q) /\ ops'[p] = <<>> /\ ops'[q] = ops[q]
           /\ crossed' = (crossed \ {p}) \cup
                           {r \in {q} : peer[p] /\ peer[r] /\ partner[r] = life[p]}
<1>1. /\ ~peer'[p] /\ ~control'[p] /\ sig'[p] = "stable" /\ ~fired'[p]
      /\ settled'[p] = 0 /\ got'[p] = 0 /\ exchange'[p] = NoOffer /\ partner'[p] = 0
    BY DEF ClosePeer, Types, PcTypes, RoomTypes
<1>2. ops'[p] = <<>> /\ ops'[q] = ops[q]
    BY DEF ClosePeer, Types, QueueTypes
<1>3. SameConnection(q)
    BY DEF ClosePeer, SameConnection, Types, PcTypes, RoomTypes
<1>4. SameFirst(q)
    BY <1>2 DEF SameFirst
<1>5. crossed' = (crossed \ {p}) \cup
                   {r \in {q} : peer[p] /\ peer[r] /\ partner[r] = life[p]}
    BY DEF ClosePeer
<1> QED
    BY <1>1, <1>2, <1>3, <1>4, <1>5

\* The four ways to lose a connection.
LEMMA CloseQuiet ==
    ASSUME Types, QuietInv, AllKnown, NEW p \in Page,
           \/ LeaveRoom(p) \/ OnUserLeft(p) \/ OnRoomChange(p) \/ ConnectionFails(p)
    PROVE  QuietInv'
<1>1. PICK q \in Page : q = Other(p) /\ q # p /\ \A r \in Page : r = p \/ r = q
    BY TwoPages
<1>2. ClosePeer(p)
    BY DEF LeaveRoom, OnUserLeft, OnRoomChange, ConnectionFails, CloseAll
<1>3. /\ ~peer'[p] /\ ~control'[p] /\ sig'[p] = "stable" /\ ~fired'[p]
      /\ settled'[p] = 0 /\ got'[p] = 0 /\ exchange'[p] = NoOffer /\ partner'[p] = 0
      /\ SameConnection(q) /\ SameFirst(q) /\ ops'[p] = <<>> /\ ops'[q] = ops[q]
      /\ crossed' = (crossed \ {p}) \cup
                      {r \in {q} : peer[p] /\ peer[r] /\ partner[r] = life[p]}
    BY <1>1, <1>2, ClosedFacts
<1>4. /\ CallOK /\ Placed(p, q) /\ Placed(q, p) /\ Linked(p, q) /\ Linked(q, p)
      /\ Known(p, q) /\ Known(q, p)
    BY <1>1, QuietPair
<1>5. CASE OnUserLeft(p) \/ OnRoomChange(p)
  <2>1. PICK m : m = Head(channel[p])
      OBVIOUS
  <2>2. /\ channel[p] # <<>> /\ channel'[p] = Tail(channel[p])
        /\ channel'[q] = channel[q]
        /\ m.type \in {"user_left", "room_joined", "elsewhere", "room_left"}
        /\ UNCHANGED <<seated, entering, telling, uncalled>>
    <3>1. channel[p] # <<>> /\ channel' = Taken(p)
          /\ m.type \in {"user_left", "room_joined", "elsewhere", "room_left"}
          /\ UNCHANGED <<seated, entering, telling, uncalled>>
        BY <1>5, <2>1 DEF OnUserLeft, OnRoomChange, Arrives, roomVars
    <3> QED
        BY <1>1, <3>1 DEF Taken, Types, QueueTypes
  <2>3. Closes(m)
      BY <2>2 DEF Closes
  <2>4. /\ Thinner(p) /\ Closing(p)
        /\ Closing(p) => Standing(p)' = Standing(p)
        /\ ~Closing(p) => m \in Standing(p)
        /\ \A s \in Standing(p) : s \in Standing(p)' \/ s = m
      BY <1>3, <2>1, <2>2, <2>3, QueueTaken
  <2>5. Keeps(q) /\ SameSignals(q)
      BY <1>3, <2>2, KeptQueue
  <2>6. CallOK' /\ Placed(p, q)' /\ Placed(q, p)'
    <3>1. m.type # "user_joined" /\ peer'[q] = peer[q] /\ control'[q] = control[q]
        BY <1>3, <2>2 DEF SameConnection
    <3> QED
        BY <1>1, <1>3, <1>4, <2>2, <2>3, <2>4, <2>5, <3>1, RoomTaken
  <2>7. /\ Linked(p, q)' /\ Linked(q, p)'
        /\ crossed' = {} => Settles(p, q)' /\ Settles(q, p)'
    <3>1. Waiting(p)' \subseteq Waiting(p) /\ Waiting(q)' = Waiting(q)
        BY <2>4, <2>5 DEF Thinner, SameSignals
    <3> QED
        BY <1>1, <1>3, <1>4, <2>2, <2>4, <2>5, <3>1, CloseLinks
  <2> QED
      BY <1>1, <2>6, <2>7, QuietPairNext
<1>6. CASE ConnectionFails(p)
  <2>1. channel' = channel /\ uncalled' /\ UNCHANGED <<seated, entering, telling>>
      BY <1>6 DEF ConnectionFails
  <2>2. Thinner(p) /\ Standing(p)' = Standing(p) /\ (Closing(p)' <=> Closing(p))
      BY <1>3, <2>1, QueueDropped
  <2>3. Keeps(q) /\ SameSignals(q)
      BY <1>3, <2>1, KeptQueue
  <2>4. CallOK'
      BY <2>1 DEF CallOK
  <2>5. Placed(p, q)' /\ Placed(q, p)'
      BY <1>3, <1>4, <2>1, <2>2, <2>3
      DEF Placed, TellOK, CleanOK, EnterOK, Keeps, SameConnection
  <2>6. /\ Linked(p, q)' /\ Linked(q, p)'
        /\ crossed' = {} => Settles(p, q)' /\ Settles(q, p)'
    <3>1. Waiting(p)' \subseteq Waiting(p) /\ Waiting(q)' = Waiting(q)
        BY <2>2, <2>3 DEF Thinner, SameSignals
    <3> QED
        BY <1>1, <1>3, <1>4, <2>1, <2>2, <2>3, <3>1, CloseLinks
  <2> QED
      BY <1>1, <2>4, <2>5, <2>6, QuietPairNext
<1>7. CASE LeaveRoom(p)
  <2>1. /\ seated' = seated \ {p} /\ UNCHANGED <<entering, telling, uncalled>>
        /\ p \notin entering /\ q \notin telling
        /\ channel'[p] = Append(channel[p], [type |-> "room_left"])
        /\ q \in seated => channel'[q] = Append(channel[q], [type |-> "user_left"])
        /\ q \notin seated => channel'[q] = channel[q]
      BY <1>1, <1>7 DEF LeaveRoom, GiveUpSeat
  <2>2. Closing(p)' /\ Standing(p)' = {} /\ Waiting(p)' \subseteq Waiting(p)
    <3>1. PICK m \in Message : m = [type |-> "room_left"]
        BY MessageTypes
    <3>2. Closes(m)
        BY <3>1 DEF Closes
    <3> QED
        BY <1>3, <2>1, <3>1, <3>2, QueueLeft
  <2>3. q \in seated => Closing(q)' /\ Standing(q)' = {} /\ Waiting(q)' = Waiting(q)
      BY <1>3, <2>1, ToldToClose
  <2>4. q \notin seated => Waiting(q)' = Waiting(q) /\ (Closing(q)' <=> Closing(q))
      BY <1>3, <2>1, KeptQueue DEF SameSignals
  <2>5. Leaves(p, q)
      BY <1>1, <2>1, <2>2, <2>3, <2>4 DEF Leaves
  <2>6. CallOK'
      BY <2>1 DEF CallOK
  <2>7. Placed(p, q)' /\ Placed(q, p)'
      BY <1>1, <1>3, <1>4, <2>1, <2>3 DEF Placed, TellOK, CleanOK, EnterOK
  <2>8. /\ Linked(p, q)' /\ Linked(q, p)'
        /\ crossed' = {} => Settles(p, q)' /\ Settles(q, p)'
      BY <1>1, <1>3, <1>4, <2>1, <2>2, <2>3, <2>4, <2>5, CloseLinks
  <2> QED
      BY <1>1, <2>6, <2>7, <2>8, QuietPairNext
<1> QED
    BY <1>5, <1>6, <1>7

\* What a handler that takes a message does to the connections.
Takes(p, q) ==
    /\ SameConnection(q) /\ SameFirst(q) /\ SameSignals(q)
    /\ seated' = seated /\ crossed' = crossed /\ uncalled' = uncalled
    /\ overlooked => overlooked'
    /\ sig'[p] = sig[p] /\ fired'[p] = fired[p] /\ makingOffer'[p] = makingOffer[p]
    /\ offers'[p] = offers[p] /\ offered'[p] = offered[p]
    /\ settled'[p] = settled[p] /\ got'[p] = got[p] /\ exchange'[p] = exchange[p]
    /\ partner'[p] = partner[p]
    /\ \/ peer'[p] = peer[p] /\ life'[p] = life[p]
       \/ ~peer[p] /\ peer'[p] /\ life'[p] = life[p] + 1
    /\ Thinner(p) /\ (Closing(p)' <=> Closing(p))

\* Of the links, all are kept if the connection that is made takes an offer first.
LEMMA TakeLinks ==
    ASSUME NEW p \in Page, NEW q \in Page, p # q, Takes(p, q), MadeOK(p)',
           Linked(p, q), Linked(q, p), Known(p, q), Known(q, p)
    PROVE  /\ Linked(p, q)' /\ Linked(q, p)'
           /\ \A s \in Waiting(q) : Of(s, p)' <=> Of(s, p)
<1>1. \A s \in Waiting(q) : Of(s, p)' <=> Of(s, p)
    BY DEF Takes, Of, Known
<1>2. /\ Waiting(q)' = Waiting(q) /\ Doomed(q)' = Doomed(q)
      /\ Doomed(p)' \subseteq Doomed(p)
      /\ (Closing(q)' <=> Closing(q)) /\ (Closing(p)' <=> Closing(p))
      /\ Waiting(p)' \subseteq Waiting(p)
    BY DEF Takes, SameSignals, Thinner
<1>3. (Stays(p)' <=> Stays(p)) /\ (Stays(q)' <=> Stays(q))
    BY <1>2 DEF Stays, Takes
<1>4. Linked(p, q)'
  <2>1. CutOK(p, q)'
    <3> SUFFICES ASSUME NEW s \in Waiting(q), Of(s, p), ~Closing(p)
                 PROVE  /\ seated = Page
                        /\ Attached(p) \/ \A m \in Doomed(q) : ~Of(m, p)'
        BY <1>1, <1>2 DEF CutOK, Attached, Takes
    <3>1. seated = Page /\ (Attached(p) \/ \A m \in Doomed(q) : ~Of(m, p))
        BY DEF Linked, CutOK
    <3>2. peer'[p] = peer[p] /\ life'[p] = life[p]
        BY DEF Takes, Of
    <3> QED
        BY <3>1, <3>2 DEF Of
  <2>2. PartnerOK(p, q)'
      BY <1>2 DEF Linked, PartnerOK, Attached, Takes, SameConnection
  <2>3. SaysOK(p)' /\ FiredOK(p)'
      BY <1>2 DEF Linked, SaysOK, FiredOK, Takes
  <2>4. NewOK(p, q)'
      BY <1>1, <1>2 DEF Linked, NewOK, Takes, SameConnection
  <2>5. FirstOK(p, q)'
      BY <1>1, <1>2, <1>3 DEF Linked, FirstOK, Attached, Takes
  <2> QED
      BY <2>1, <2>2, <2>3, <2>4, <2>5 DEF Linked
<1>5. Linked(q, p)'
  <2>1. CutOK(q, p)'
      BY <1>2 DEF Linked, CutOK, Attached, Of, Takes, SameConnection
  <2>2. PartnerOK(q, p)'
      BY <1>2 DEF Linked, PartnerOK, Attached, Takes, SameConnection
  <2>3. SaysOK(q)' /\ FiredOK(q)' /\ MadeOK(q)'
      BY <1>2 DEF Linked, SaysOK, FiredOK, MadeOK, Takes, SameConnection, SameFirst
  <2>4. NewOK(q, p)'
      BY <1>2 DEF Linked, NewOK, Of, Takes, SameConnection
  <2>5. FirstOK(q, p)'
    <3> SUFFICES ASSUME ~Attached(q), sig[q] = "have-local-offer", Stays(q), ~uncalled,
                        Closing(p)
                 PROVE  \E m \in Waiting(p)' : Of(m, q)
        BY <1>2, <1>3 DEF FirstOK, Attached, Of, Takes, SameConnection
    <3>1. PICK m \in Waiting(p) : Of(m, q)
        BY DEF Linked, FirstOK
    <3>2. m \notin Doomed(p)
        BY <3>1 DEF Linked, CutOK, Stays
    <3> QED
        BY <3>1, <3>2 DEF Takes, Thinner
  <2> QED
      BY <2>1, <2>2, <2>3, <2>4, <2>5 DEF Linked
<1> QED
    BY <1>1, <1>4, <1>5

\* The agreement is kept as well, unless an offer is dropped.
LEMMA TakeSettles ==
    ASSUME NEW p \in Page, NEW q \in Page, p # q, Takes(p, q),
           \A s \in Waiting(q) : Of(s, p)' <=> Of(s, p),
           \A s \in Waiting(p) : AnswerOf(s, q) => s \in Waiting(p)',
           p = Polite => \A s \in Waiting(p) : Of(s, q) => s \in Waiting(p)',
           Settles(p, q), Settles(q, p)
    PROVE  /\ Settles(p, q)'
           /\ PendingOK(q, p)' => Settles(q, p)'
           /\ (\A s \in Waiting(p) : Of(s, q) => s \in Waiting(p)') => PendingOK(q, p)'
           /\ Answered(p, q)' <=> Answered(p, q)
<1>1. /\ Waiting(q)' = Waiting(q) /\ Waiting(p)' \subseteq Waiting(p)
      /\ (Closing(q)' <=> Closing(q)) /\ (Closing(p)' <=> Closing(p))
    BY DEF Takes, SameSignals, Thinner
<1>2. (Stays(p)' <=> Stays(p)) /\ (Stays(q)' <=> Stays(q))
    BY <1>1 DEF Stays, Takes
<1>3. Answered(p, q)' <=> Answered(p, q)
    BY <1>1 DEF Answered, AnswerOf
<1>4. Answered(q, p)' <=> Answered(q, p)
    BY <1>1 DEF Answered, AnswerOf, Of, Takes, SameConnection
<1>5. \A s : Of(s, q)' <=> Of(s, q)
    BY DEF Of, Takes, SameConnection
<1>6. PendingOK(p, q)'
    BY <1>1, <1>2, <1>4 DEF Settles, PendingOK, OfferOf, Takes, SameConnection, Of
<1>7. ExchangeOK(p, q)' /\ ExchangeOK(q, p)'
    BY <1>1, <1>2, <1>3, <1>4
    DEF Settles, ExchangeOK, AnswerOf, Takes, SameConnection, Of
<1>8. GotOK(p, q)' /\ GotOK(q, p)'
    BY <1>1, <1>2, <1>3, <1>4
    DEF Settles, GotOK, AnswerOf, OfferOf, Takes, SameConnection, Of
<1>9. ASSUME \A s \in Waiting(p) : Of(s, q) => s \in Waiting(p)' PROVE PendingOK(q, p)'
    BY <1>1, <1>2, <1>3, <1>9 DEF Settles, PendingOK, OfferOf, Takes, SameConnection, Of
<1> QED
    BY <1>3, <1>6, <1>7, <1>8, <1>9 DEF Settles

\* The impolite page ignores an offer: the polite page's pending one, or not.
LEMMA IgnoreSettles ==
    ASSUME Types, NEW p \in Page, NEW q \in Page, p # q, Takes(p, q), OfferOK(p, q),
           q = Polite, makingOffer[p] \/ sig[p] # "stable",
           AnswerAtHand(p) => overlooked', channel[p] # <<>>,
           NEW m, m = Head(channel[p]), IsSignal(m), Closing(p) => m \in Doomed(p),
           m \in Waiting(p), \A s \in Waiting(p) : s \in Waiting(p)' \/ s = m,
           \A s \in Waiting(q) : Of(s, p)' <=> Of(s, p),
           Answered(p, q)' <=> Answered(p, q), crossed = {},
           Linked(q, p), Settles(p, q), Settles(q, p)
    PROVE  PendingOK(q, p)'
<1>1. /\ Waiting(q)' = Waiting(q) /\ Waiting(p)' \subseteq Waiting(p)
      /\ (Closing(q)' <=> Closing(q)) /\ (Closing(p)' <=> Closing(p))
    BY DEF Takes, SameSignals, Thinner
<1> SUFFICES ASSUME sig[q] = "have-local-offer", Stays(q), ~uncalled, ~overlooked',
                    partner[q] = 0 \/ ~Closing(p)
             PROVE  \/ \E s \in Waiting(p)' : OfferOf(s, q)' /\ s.offer[3] = offers[q]
                    \/ sig[p] = "have-remote-offer"
                    \/ Answered(p, q)
                    \/ /\ seated = Page /\ ~Closing(p)
                       /\ makingOffer[p] \/ \E s \in Waiting(q) : OfferOf(s, p)'
    BY <1>1 DEF PendingOK, Stays, Takes, SameConnection
<1>2. \A s \in Waiting(q) : OfferOf(s, p)' <=> OfferOf(s, p)
    BY DEF OfferOf
<1>3. \/ \E s \in Waiting(p) : OfferOf(s, q) /\ s.offer[3] = offers[q]
      \/ sig[p] = "have-remote-offer"
      \/ Answered(p, q)
      \/ /\ seated = Page /\ ~Closing(p)
         /\ makingOffer[p] \/ \E s \in Waiting(q) : OfferOf(s, p)
    BY DEF Settles, PendingOK, Takes
<1>4. CASE OfferOf(m, q) /\ m.offer[3] = offers[q]
  <2>1. seated = Page /\ (partner[q] = 0 => m \notin Doomed(p))
      BY <1>4 DEF Linked, CutOK, Attached, OfferOf, Stays
  <2>2. ~Closing(p) /\ Stays(p) /\ ~Closing(q)
      BY <2>1 DEF Stays
  <2>3. ASSUME sig[p] = "have-local-offer"
        PROVE  \E s \in Waiting(q) : OfferOf(s, p)
    <3>1. ~Answered(q, p)
        BY <1>4, AnswerBeforeOffer
    <3> QED
        BY <2>2, <2>3, <3>1 DEF Settles, PendingOK, Takes
  <2>4. sig[p] \in {"stable", "have-local-offer", "have-remote-offer"}
      BY DEF Types, PcTypes
  <2> QED
      BY <1>2, <2>1, <2>2, <2>3, <2>4
<1>5. CASE ~(OfferOf(m, q) /\ m.offer[3] = offers[q])
  <2>1. \A s \in Waiting(p) : OfferOf(s, q) /\ s.offer[3] = offers[q] =>
            s \in Waiting(p)' /\ OfferOf(s, q)'
      BY <1>5 DEF OfferOf, Of, Takes, SameConnection
  <2> QED
      BY <1>2, <1>3, <2>1
<1> QED
    BY <1>4, <1>5

\* user_joined, offer and answer arrive.
LEMMA HandlerQuiet ==
    ASSUME Types, QuietInv, AllKnown, NegotiationInv, NEW p \in Page,
           InitiatePeer(p) \/ HandleOffer(p) \/ HandleAnswer(p)
    PROVE  QuietInv'
<1>1. PICK q \in Page : q = Other(p) /\ q # p /\ \A r \in Page : r = p \/ r = q
    BY TwoPages
<1>2. PICK m : m = Head(channel[p])
    OBVIOUS
<1>3. PICK op : op = [set |-> "remote", signal |-> m]
    OBVIOUS
<1>4. /\ channel[p] # <<>> /\ channel'[p] = Tail(channel[p]) /\ channel'[q] = channel[q]
      /\ UNCHANGED <<seated, entering, telling, crossed, uncalled, sig, fired,
                     makingOffer, offers, offered, settled, got, exchange, partner>>
      /\ m.type = IF InitiatePeer(p) THEN "user_joined"
                  ELSE IF HandleOffer(p) THEN "offer" ELSE "answer"
  <2>1. /\ channel[p] # <<>> /\ channel' = Taken(p)
        /\ UNCHANGED <<seated, entering, telling, crossed, uncalled, sig, fired,
                       makingOffer, offers, offered, settled, got, exchange, partner>>
      BY DEF InitiatePeer, HandleOffer, HandleAnswer, Arrives, roomVars, pageVars,
             pcVars, history
  <2>2. /\ InitiatePeer(p) => m.type = "user_joined"
        /\ HandleOffer(p) => m.type = "offer"
        /\ HandleAnswer(p) => m.type = "answer"
      BY <1>2 DEF InitiatePeer, HandleOffer, HandleAnswer, Arrives
  <2> QED
      BY <1>1, <2>1, <2>2 DEF Taken, Types, QueueTypes
<1>5. /\ InitiatePeer(p) \/ HandleOffer(p) =>
             /\ peer'[p]
             /\ \/ peer'[p] = peer[p] /\ life'[p] = life[p]
                \/ ~peer[p] /\ life'[p] = life[p] + 1
      /\ HandleAnswer(p) => peer'[p] = peer[p] /\ life'[p] = life[p]
      /\ peer'[q] = peer[q] /\ life'[q] = life[q] /\ control'[q] = control[q]
      /\ ~InitiatePeer(p) => control'[p] = control[p]
      /\ InitiatePeer(p) => control'[p] = (control[p] \/ ~peer[p])
      /\ ~HandleOffer(p) => overlooked' = overlooked
      /\ overlooked => overlooked'
  <2>1. CASE InitiatePeer(p)
    <3>1. /\ CreatePeer(p) /\ control' = [control EXCEPT ![p] = @ \/ ~peer[p]]
          /\ overlooked' = overlooked /\ ~HandleOffer(p) /\ ~HandleAnswer(p)
        BY <2>1 DEF InitiatePeer, HandleOffer, HandleAnswer, Arrives, history
    <3>2. /\ control'[q] = control[q]
          /\ control'[p] = (control[p] \/ ~peer[p])
        BY <1>1, <3>1 DEF Types, RoomTypes
    <3> QED
        BY <1>1, <2>1, <3>1, <3>2, CreateTypes
  <2>2. CASE HandleOffer(p)
      BY <1>1, <2>2, CreateTypes DEF InitiatePeer, HandleOffer, HandleAnswer, Arrives
  <2>3. CASE HandleAnswer(p)
      BY <2>3 DEF InitiatePeer, HandleOffer, HandleAnswer, Arrives, history, pageVars
  <2> QED
      BY <2>1, <2>2, <2>3
<1>6. /\ ops'[q] = ops[q]
      /\ \/ ops'[p] = ops[p]
         \/ ~InitiatePeer(p) /\ ops'[p] = Append(ops[p], op)
      /\ HandleOffer(p) =>
             \/ ops'[p] = Append(ops[p], op)
             \/ /\ p # Polite /\ (makingOffer[p] \/ sig[p] # "stable")
                /\ AnswerAtHand(p) => overlooked'
      /\ HandleAnswer(p) =>
             \/ ops'[p] = Append(ops[p], op)
             \/ ~peer[p] \/ sig[p] # "have-local-offer"
  <2>1. ops \in [Page -> Seq(Operation)]
      BY DEF Types, QueueTypes
  <2>2. Chain(p, op) => ops'[p] = Append(ops[p], op) /\ ops'[q] = ops[q]
      BY <1>1, <2>1 DEF Chain
  <2>3. CASE InitiatePeer(p)
      BY <1>4, <2>3 DEF InitiatePeer, HandleOffer, HandleAnswer, Arrives, pcVars
  <2>4. CASE HandleOffer(p)
    <3>1. /\ IF p # Polite /\ m.sdp = "offer" /\ Collides(p) THEN ops' = ops
             ELSE Chain(p, op)
          /\ overlooked' = (overlooked \/ (p # Polite /\ m.sdp = "offer" /\ Collides(p)
                                           /\ AnswerAtHand(p)))
        BY <1>2, <1>3, <2>4 DEF HandleOffer
    <3>2. ~InitiatePeer(p) /\ ~HandleAnswer(p)
        BY <2>4 DEF InitiatePeer, HandleOffer, HandleAnswer, Arrives
    <3> QED
        BY <2>2, <3>1, <3>2 DEF Collides
  <2>5. CASE HandleAnswer(p)
    <3>1. IF peer[p] /\ ExpectsAnswer(p) THEN Chain(p, op) ELSE ops' = ops
        BY <1>2, <1>3, <2>5 DEF HandleAnswer
    <3>2. ~InitiatePeer(p) /\ ~HandleOffer(p)
        BY <2>5 DEF InitiatePeer, HandleOffer, HandleAnswer, Arrives
    <3> QED
        BY <2>2, <3>1, <3>2 DEF ExpectsAnswer
  <2> QED
      BY <2>3, <2>4, <2>5
<1>7. ~Closes(m) /\ (IsSignal(m) <=> ~InitiatePeer(p))
    BY <1>4 DEF Closes, IsSignal
<1>8. /\ m \in Signal \cup Message /\ Thinner(p)
      /\ Closing(p)' <=> Closing(p)
      /\ \A s \in Waiting(p) : s \in Waiting(p)' \/ s = m
      /\ Closing(p) => Standing(p)' = Standing(p)
      /\ ~Closing(p) => m \in Standing(p)
      /\ \A s \in Standing(p) : s \in Standing(p)' \/ s = m
      /\ IsSignal(m) => m \in Waiting(p) /\ (Closing(p) => m \in Doomed(p))
      /\ ops'[p] = Append(ops[p], op) \/ InitiatePeer(p) => Waiting(p)' = Waiting(p)
    BY <1>2, <1>3, <1>4, <1>6, <1>7, QueueTaken
<1>9. /\ CallOK /\ Placed(p, q) /\ Placed(q, p) /\ Linked(p, q) /\ Linked(q, p)
      /\ Known(p, q) /\ Known(q, p)
      /\ crossed = {} => /\ Settles(p, q) /\ Settles(q, p)
                         /\ Matched(p, q) /\ Matched(q, p)
    BY <1>1, QuietPair
<1>10. Keeps(q) /\ SameSignals(q) /\ SameFirst(q)
    BY <1>4, <1>6, KeptQueue
<1>11. CallOK' /\ Placed(p, q)' /\ Placed(q, p)'
  <2>1. /\ peer'[p] = peer[p] \/ (m.type \in {"user_joined", "offer"} /\ peer'[p])
        /\ m.type = "user_joined" => peer'[p]
        /\ m.type # "user_joined" => control'[p] = control[p]
      BY <1>4, <1>5
  <2>2. /\ seated' = seated /\ entering' = entering /\ telling' = telling
        /\ uncalled' = uncalled /\ peer'[q] = peer[q] /\ control'[q] = control[q]
      BY <1>4, <1>5
  <2> QED
      BY <1>1, <1>7, <1>8, <1>9, <1>10, <2>1, <2>2, RoomTaken
<1>12. Takes(p, q)
    BY <1>4, <1>5, <1>8, <1>10 DEF Takes, SameConnection
<1>13. HandleOffer(p) => m.sdp = "offer"
    BY <1>4, <1>7, <1>8, <1>9
    DEF Linked, SaysOK, Known, InitiatePeer, HandleOffer, Arrives
<1>14. MadeOK(p)'
  <2> SUFFICES ASSUME peer'[p], ~control'[p], p \notin crossed, partner[p] = 0
               PROVE  /\ ops'[p] # <<>> /\ ops'[p][1].set = "remote"
                      /\ ops'[p][1].signal.sdp = "offer"
      BY <1>4 DEF MadeOK
  <2>1. CASE peer[p]
    <3>1. ops[p] # <<>> /\ ops[p][1].set = "remote" /\ ops[p][1].signal.sdp = "offer"
        BY <1>5, <1>9, <2>1 DEF Linked, MadeOK
    <3>2. ops'[p] = ops[p] \/ ops'[p] = Append(ops[p], op)
        BY <1>6
    <3>3. ops[p] \in Seq(Operation)
        BY QueueFacts
    <3>4. ops'[p] # <<>> /\ ops'[p][1] = ops[p][1]
        BY <3>1, <3>2, <3>3
    <3> QED
        BY <3>1, <3>4
  <2>2. CASE ~peer[p]
    <3>1. HandleOffer(p)
        BY <1>5, <2>2
    <3>2. ops[p] = <<>> /\ ops'[p] = Append(ops[p], op)
        BY <1>6, <1>9, <2>2, <3>1 DEF Known
    <3>3. ops'[p] # <<>> /\ ops'[p][1] = op
        BY <3>2
    <3> QED
        BY <1>3, <1>13, <3>1, <3>3
  <2> QED
      BY <2>1, <2>2
<1>15. /\ Linked(p, q)' /\ Linked(q, p)'
       /\ \A s \in Waiting(q) : Of(s, p)' <=> Of(s, p)
    BY <1>1, <1>9, <1>12, <1>14, TakeLinks
<1>16. ASSUME crossed' = {} PROVE Settles(p, q)' /\ Settles(q, p)'
  <2>1. Settles(p, q) /\ Settles(q, p) /\ Matched(p, q) /\ OfferOK(p, q)
      BY <1>1, <1>4, <1>9, <1>16 DEF NegotiationInv, Agrees
  <2>2. CASE \A s \in Waiting(p) : Of(s, q) => s \in Waiting(p)'
    <3>1. \A s \in Waiting(p) : AnswerOf(s, q) => s \in Waiting(p)'
        BY <2>2 DEF AnswerOf
    <3> QED
        BY <1>1, <1>12, <1>15, <2>1, <2>2, <3>1, TakeSettles
  <2>3. CASE ~(\A s \in Waiting(p) : Of(s, q) => s \in Waiting(p)')
    <3>1. Waiting(p)' # Waiting(p) /\ Of(m, q) /\ ~InitiatePeer(p)
          /\ ops'[p] # Append(ops[p], op)
        BY <1>8, <2>3
    <3>2. HandleOffer(p)
      <4> SUFFICES ASSUME HandleAnswer(p), ~HandleOffer(p) PROVE FALSE
          BY <3>1
      <4>1. m.type = "answer" /\ m \in Waiting(p)
          BY <1>4, <1>7, <1>8, <3>1
      <4>2. AnswerOf(m, q)
          BY <2>1, <3>1, <4>1 DEF Matched, AnswerOf
      <4>3. sig[p] = "have-local-offer" /\ peer[p]
          BY <1>9, <2>1, <4>1, <4>2 DEF Matched, Known
      <4> QED
          BY <1>6, <3>1, <4>3
    <3>3. /\ p # Polite /\ (makingOffer[p] \/ sig[p] # "stable")
          /\ AnswerAtHand(p) => overlooked'
        BY <1>6, <3>1, <3>2
    <3>4. \A s \in Waiting(p) : AnswerOf(s, q) => s \in Waiting(p)'
        BY <1>8, <1>13, <3>2 DEF AnswerOf
    <3>5. /\ Settles(p, q)' /\ (PendingOK(q, p)' => Settles(q, p)')
          /\ Answered(p, q)' <=> Answered(p, q)
        BY <1>1, <1>12, <1>15, <2>1, <3>3, <3>4, TakeSettles
    <3>6. q = Polite
        BY <1>1, <3>3, NegotiationAssumption
    <3>7. PendingOK(q, p)'
      <4>1. /\ channel[p] # <<>> /\ crossed = {}
            /\ makingOffer[p] \/ sig[p] # "stable"
            /\ AnswerAtHand(p) => overlooked'
          BY <1>4, <1>16, <3>3
      <4>2. /\ IsSignal(m) /\ m \in Waiting(p) /\ (Closing(p) => m \in Doomed(p))
            /\ \A s \in Waiting(p) : s \in Waiting(p)' \/ s = m
          BY <1>4, <1>7, <1>8, <3>1, <3>2 DEF HandleOffer, Arrives
      <4> QED
          BY <1>1, <1>2, <1>9, <1>12, <1>15, <2>1, <3>5, <3>6, <4>1, <4>2, IgnoreSettles
    <3> QED
        BY <3>5, <3>7
  <2> QED
      BY <2>2, <2>3
<1> QED
    BY <1>1, <1>11, <1>15, <1>16, QuietPairNext

\* The event fires on p.
LEMMA NeedsQuiet ==
    ASSUME Types, QuietInv, NEW p \in Page, OnNegotiationNeeded(p)
    PROVE  QuietInv'
<1>1. PICK q \in Page : q = Other(p) /\ q # p /\ \A r \in Page : r = p \/ r = q
    BY TwoPages
<1>2. PICK op \in Operation : op = [set |-> "local", by |-> "onnegotiationneeded"]
    BY DEF Operation
<1>3. /\ ops[p] = <<>> /\ sig[p] = "stable" /\ makingOffer'[p]
      /\ ops'[p] = Append(ops[p], op) /\ ops'[q] = ops[q]
      /\ makingOffer'[q] = makingOffer[q] /\ fired'[q] = fired[q]
      /\ UNCHANGED <<seated, entering, telling, uncalled, crossed, overlooked, channel,
                     peer, life, control, sig, offers, offered, settled, got,
                     exchange, partner>>
  <2>1. ops \in [Page -> Seq(Operation)] /\ makingOffer \in [Page -> BOOLEAN]
        /\ fired \in [Page -> BOOLEAN]
      BY DEF Types, QueueTypes, PcTypes
  <2> QED
      BY <1>1, <1>2, <2>1 DEF OnNegotiationNeeded, Chain, roomVars, history
<1>4. Keeps(p) /\ SameSignals(p) /\ Keeps(q) /\ SameSignals(q) /\ SameFirst(q)
    BY <1>2, <1>3, KeptQueue
<1>5. SameConnection(q)
    BY <1>3 DEF SameConnection
<1>6. /\ CallOK /\ Placed(p, q) /\ Placed(q, p) /\ Linked(p, q) /\ Linked(q, p)
      /\ crossed = {} => Settles(p, q) /\ Settles(q, p)
    BY <1>1, QuietPair
<1>7. CallOK' /\ Placed(p, q)' /\ Placed(q, p)'
  <2>1. \A r \in Page :
               /\ peer'[r] = peer[r] /\ control'[r] = control[r]
               /\ Closing(r)' <=> Closing(r)
               /\ \A m \in Standing(r)' : m \in Standing(r)
               /\ \A m \in Standing(r) : m \in Standing(r)'
      BY <1>1, <1>3, <1>4 DEF Keeps
  <2> QED
      BY <1>1, <1>3, <1>6, <2>1, RoomSteady
<1>8. Linked(p, q)'
  <2>1. CutOK(p, q)' /\ PartnerOK(p, q)' /\ SaysOK(p)'
      BY <1>3, <1>4, <1>6
      DEF Linked, CutOK, PartnerOK, Attached, SaysOK, Of, SameSignals
  <2>2. FiredOK(p)' /\ MadeOK(p)'
      BY <1>3, <1>6 DEF Linked, FiredOK, MadeOK
  <2>3. NewOK(p, q)' /\ FirstOK(p, q)'
      BY <1>3, <1>4, <1>6 DEF Linked, NewOK, FirstOK, Attached, Of, SameSignals
  <2> QED
      BY <2>1, <2>2, <2>3 DEF Linked
<1>9. Linked(q, p)'
  <2>1. CutOK(q, p)' /\ PartnerOK(q, p)' /\ SaysOK(q)'
      BY <1>3, <1>4, <1>6
      DEF Linked, CutOK, PartnerOK, Attached, SaysOK, Of, SameSignals
  <2>2. FiredOK(q)' /\ MadeOK(q)'
      BY <1>3, <1>4, <1>6 DEF Linked, FiredOK, MadeOK, SameFirst
  <2>3. NewOK(q, p)' /\ FirstOK(q, p)'
      BY <1>3, <1>4, <1>6 DEF Linked, NewOK, FirstOK, Attached, Of, Stays, SameSignals
  <2> QED
      BY <2>1, <2>2, <2>3 DEF Linked
<1>10. ASSUME crossed' = {} PROVE Settles(p, q)' /\ Settles(q, p)'
  <2>1. Settles(p, q) /\ Settles(q, p)
      BY <1>3, <1>6, <1>10
  <2>2. /\ Answered(p, q)' <=> Answered(p, q)
        /\ Answered(q, p)' <=> Answered(q, p)
        /\ (Stays(p)' <=> Stays(p)) /\ (Stays(q)' <=> Stays(q))
      BY <1>3, <1>4 DEF Answered, AnswerOf, Of, Stays, SameSignals
  <2>3. PendingOK(p, q)' /\ PendingOK(q, p)'
      BY <1>3, <1>4, <2>1, <2>2 DEF Settles, PendingOK, OfferOf, Of, SameSignals
  <2>4. ExchangeOK(p, q)' /\ ExchangeOK(q, p)'
      BY <1>3, <1>4, <2>1, <2>2 DEF Settles, ExchangeOK, AnswerOf, Of, SameSignals
  <2>5. GotOK(p, q)' /\ GotOK(q, p)'
      BY <1>3, <1>4, <2>1, <2>2
      DEF Settles, GotOK, OfferOf, AnswerOf, Of, SameSignals
  <2> QED
      BY <2>3, <2>4, <2>5 DEF Settles
<1> QED
    BY <1>1, <1>7, <1>8, <1>9, <1>10, QuietPairNext

\* The connection of p has made a description, which is sent if q has its seat.
Sends(p, q, m) ==
    /\ SameConnection(q) /\ SameFirst(q) /\ SameSignals(p) /\ Standing(p)' = Standing(p)
    /\ UNCHANGED <<seated, entering, telling, crossed, uncalled, overlooked>>
    /\ (Closing(q)' <=> Closing(q)) /\ (q \notin entering => Doomed(q)' = Doomed(q))
    /\ Waiting(q)' = Waiting(q) \cup (IF seated = Page THEN {m} ELSE {})
    /\ Standing(q) \subseteq Standing(q)'
    /\ Standing(q)' \subseteq Standing(q) \cup (IF seated = Page THEN {m} ELSE {})
    /\ peer[p] /\ peer'[p] /\ life'[p] = life[p] /\ partner'[p] = partner[p]
    /\ control'[p] = control[p] /\ got'[p] = got[p]
    /\ m.from = life[p] /\ (m.sdp = "answer" => m.type = "answer")
    /\ ops[p] # <<>> /\ ops[p][1].set = "local"

LEMMA SendEffects ==
    ASSUME Types, PeerInv, NEW p \in Page, NEW q \in Page, q = Other(p), q # p,
           SetLocal(p), NEW m \in Signal, Send(p, m), m.from = life[p],
           m.sdp = "answer" => m.type = "answer",
           sig'[q] = sig[q], fired'[q] = fired[q], offers'[q] = offers[q],
           offered'[q] = offered[q], settled'[q] = settled[q],
           exchange'[q] = exchange[q]
    PROVE  Sends(p, q, m)
<1>1. /\ ops[p] # <<>> /\ Head(ops[p]).set = "local" /\ ops'[p] = Tail(ops[p])
      /\ ops'[q] = ops[q] /\ makingOffer'[q] = makingOffer[q]
      /\ UNCHANGED <<seated, entering, telling, crossed, uncalled, overlooked, peer,
                     life, control, partner, got>>
    BY DEF SetLocal, roomVars, history, Types, QueueTypes, PcTypes
<1>2. /\ seated = Page => channel'[q] = Append(channel[q], m)
      /\ seated # Page => channel'[q] = channel[q]
      /\ channel'[p] = channel[p]
    BY DEF Send, Types, QueueTypes
<1>3. SameSignals(p) /\ Standing(p)' = Standing(p)
    BY <1>1, <1>2, QueueKept DEF Keeps, SameSignals
<1>4. /\ Closing(q)' <=> Closing(q)
      /\ q \notin entering => Doomed(q)' = Doomed(q)
      /\ Waiting(q)' = Waiting(q) \cup (IF seated = Page THEN {m} ELSE {})
      /\ Standing(q) \subseteq Standing(q)'
      /\ Standing(q)' \subseteq Standing(q) \cup (IF seated = Page THEN {m} ELSE {})
  <2>1. CASE seated = Page
    <3>1. IsSignal(m) /\ ~Closes(m)
        BY MessageKinds
    <3>2. /\ Closing(q)' <=> Closing(q) \/ Closes(m)
          /\ Standing(q)' = IF q \in entering \/ Closes(m) THEN {}
                            ELSE Standing(q) \cup {m}
          /\ Waiting(q)' = Waiting(q) \cup (IF IsSignal(m) THEN {m} ELSE {})
          /\ Doomed(q)' = IF q \in entering \/ Closes(m) THEN Waiting(q)'
                          ELSE Doomed(q)
        BY <1>1, <1>2, <2>1, QueueTold
    <3>3. q \in entering => Standing(q) = {}
        BY DEF Standing
    <3> QED
        BY <2>1, <3>1, <3>2, <3>3
  <2>2. CASE seated # Page
      BY <1>1, <1>2, <2>2, KeptQueue DEF Keeps
  <2> QED
      BY <2>1, <2>2
<1>5. SameFirst(q) /\ SameConnection(q)
    BY <1>1 DEF SameFirst, SameConnection
<1>6. peer[p]
    BY <1>1 DEF PeerInv, Idle
<1>7. ops[p][1].set = "local"
    BY <1>1, QueueFacts
<1> QED
    BY <1>1, <1>3, <1>4, <1>5, <1>6, <1>7 DEF Sends

\* What is sent finds its page there, and does not come after a close.
LEMMA SendLinks ==
    ASSUME Types, NEW p \in Page, NEW q \in Page, p # q, \A r \in Page : r = p \/ r = q,
           NEW m \in Signal, Sends(p, q, m), FiredOK(p)', NewOK(p, q)',
           CallOK, Placed(p, q), Placed(q, p), Linked(p, q), Linked(q, p)
    PROVE  /\ CallOK' /\ Placed(p, q)' /\ Placed(q, p)'
           /\ Linked(p, q)' /\ Linked(q, p)'
           /\ Stays(p) => seated = Page
<1>1. CallOK' /\ Placed(p, q)' /\ Placed(q, p)'
  <2>1. UNCHANGED <<seated, entering, telling, uncalled>>
      BY DEF Sends
  <2>2. \A r \in Page :
            /\ peer'[r] = peer[r] /\ control'[r] = control[r]
            /\ Closing(r)' <=> Closing(r)
            /\ \A s \in Standing(r)' : s \in Standing(r) \/ (seated = Page /\ s = m)
            /\ \A s \in Standing(r) : s \in Standing(r)'
    <3>1. peer'[p] = peer[p] /\ peer'[q] = peer[q] /\ control'[q] = control[q]
        BY DEF Sends, SameConnection, Types, RoomTypes
    <3> QED
        BY <3>1 DEF Sends, SameSignals
  <2>3. m.type # "user_joined"
      BY DEF Signal
  <2> QED
      BY <2>1, <2>2, <2>3, RoomSteady
<1>2. Stays(p) => seated = Page
  <2>1. Stays(p) => q \in seated
      BY DEF Stays, Placed, CleanOK, Sends
  <2> QED
      BY <2>1 DEF Stays, Types, RoomTypes
<1>3. Linked(p, q)'
  <2>1. CutOK(p, q)'
    <3> SUFFICES ASSUME NEW s \in Waiting(q)', Of(s, p), ~Closing(p)
                 PROVE  /\ seated = Page
                        /\ Attached(p) \/ \A d \in Doomed(q)' : ~Of(d, p)
        BY DEF CutOK, Attached, Sends, SameSignals, Of
    <3>1. seated = Page
        BY DEF Linked, CutOK, Sends
    <3>2. CASE q \in entering
      <4>1. ~control[p]
          BY <3>1, <3>2 DEF Placed, EnterOK
      <4>2. p \notin crossed => partner[p] # 0
          BY <4>1 DEF Linked, MadeOK, Sends
      <4> QED
          BY <3>1, <4>2 DEF Attached
    <3>3. CASE q \notin entering
      <4>1. Doomed(q)' = Doomed(q)
          BY <3>3 DEF Sends
      <4>2. CASE \E t \in Waiting(q) : Of(t, p)
          BY <3>1, <4>1, <4>2 DEF Linked, CutOK
      <4>3. CASE ~(\E t \in Waiting(q) : Of(t, p))
          BY <3>1, <4>1, <4>3, WaitingFacts
      <4> QED
          BY <4>2, <4>3
    <3> QED
        BY <3>2, <3>3
  <2>2. PartnerOK(p, q)'
      BY DEF Linked, PartnerOK, Attached, Sends, SameConnection, SameSignals
  <2>3. SaysOK(p)'
      BY DEF Linked, SaysOK, Sends, SameSignals
  <2>4. MadeOK(p)'
      BY DEF Linked, MadeOK, Sends
  <2>5. FirstOK(p, q)'
    <3> SUFFICES ASSUME Stays(p)' PROVE \E s \in Waiting(q)' : Of(s, p)'
        BY DEF FirstOK
    <3>1. seated = Page
        BY <1>2 DEF Stays, Sends, SameSignals
    <3>2. m \in Waiting(q)'
        BY <3>1 DEF Sends
    <3>3. peer'[p] /\ m.from = life'[p]
        BY DEF Sends
    <3> QED
        BY <3>2, <3>3 DEF Of
  <2> QED
      BY <2>1, <2>2, <2>3, <2>4, <2>5 DEF Linked
<1>4. Linked(q, p)'
  <2>1. CutOK(q, p)'
      BY DEF Linked, CutOK, Attached, Of, Sends, SameConnection, SameSignals
  <2>2. PartnerOK(q, p)'
      BY DEF Linked, PartnerOK, Attached, Sends, SameConnection, SameSignals
  <2>3. SaysOK(q)'
      BY DEF Linked, SaysOK, Sends
  <2>4. FiredOK(q)' /\ MadeOK(q)'
      BY DEF Linked, FiredOK, MadeOK, Sends, SameConnection, SameFirst
  <2>5. NewOK(q, p)'
      BY DEF Linked, NewOK, Of, Sends, SameConnection, SameSignals
  <2>6. FirstOK(q, p)'
      BY DEF Linked, FirstOK, Attached, Of, Stays, Sends, SameConnection, SameSignals
  <2> QED
      BY <2>1, <2>2, <2>3, <2>4, <2>5, <2>6 DEF Linked
<1> QED
    BY <1>1, <1>2, <1>3, <1>4

\* An offer is sent: the other has not answered an earlier one.
LEMMA OfferQuiet ==
    ASSUME Types, PeerInv, QuietInv, AllKnown, AllKnown', NEW p \in Page,
           SetLocalOffer(p)
    PROVE  QuietInv'
<1>1. PICK q \in Page : q = Other(p) /\ q # p /\ \A r \in Page : r = p \/ r = q
    BY TwoPages
<1>2. PICK m : m = [type |-> Label(Head(ops[p])), sdp |-> "offer",
                    version |-> Media(p), from |-> life[p],
                    offer |-> <<p, life[p], offers[p] + 1>>]
    OBVIOUS
<1>3. m \in Signal
  <2>1. <<p, life[p], offers[p] + 1>> \in Offer /\ life[p] \in Nat
      BY SpotTypes DEF Offer
  <2>2. Label(Head(ops[p])) \in {"offer", "answer"}
      BY DEF Label
  <2> QED
      BY <1>2, <2>1, <2>2, MediaType DEF Signal
<1>4. /\ m.sdp = "offer" /\ m.from = life[p] /\ m.version = Media(p)
      /\ m.offer[3] = offers[p] + 1
    BY <1>2
<1>5. /\ SetLocal(p) /\ Send(p, m) /\ sig[p] # "have-remote-offer"
      /\ UNCHANGED <<fired, settled, exchange>>
    BY <1>2 DEF SetLocalOffer, MakesOffer
<1>6. /\ sig'[p] = "have-local-offer" /\ sig'[q] = sig[q]
      /\ offers'[p] = offers[p] + 1 /\ offers'[q] = offers[q]
      /\ offered'[p] = Media(p) /\ offered'[q] = offered[q]
      /\ applying' = applying /\ offers[p] \in Nat
    BY <1>1 DEF SetLocalOffer, SetLocal, Types, PcTypes
<1>7. Sends(p, q, m)
    BY <1>1, <1>3, <1>4, <1>5, <1>6, SendEffects
<1>8. /\ CallOK /\ Placed(p, q) /\ Placed(q, p) /\ Linked(p, q) /\ Linked(q, p)
      /\ Known(p, q) /\ Known(q, p)
      /\ crossed = {} => /\ Settles(p, q) /\ Settles(q, p)
                         /\ Matched(p, q) /\ Matched(q, p)
    BY <1>1, QuietPair
<1>9. /\ Known(p, q)' /\ Known(q, p)'
      /\ crossed' = {} => Matched(p, q)' /\ Matched(q, p)'
    BY <1>1, KnownNext
<1>10. FiredOK(p)'
    BY <1>6 DEF FiredOK
<1>11. NewOK(p, q)'
  <2> SUFFICES ASSUME partner[p] = 0
               PROVE  /\ settled[p] = 0 /\ got[p] = 0 /\ exchange[p] = NoOffer
                      /\ \A s \in Waiting(q)' : Of(s, p)' => s.version = offered'[p]
      BY <1>5, <1>6, <1>7 DEF NewOK, Sends
  <2>1. settled[p] = 0 /\ got[p] = 0 /\ exchange[p] = NoOffer
      BY <1>8 DEF Linked, NewOK
  <2>2. offers'[p] = 1
      BY <1>6, <1>7, <1>9 DEF Known, Sends
  <2>3. ASSUME NEW s \in Waiting(q), Of(s, p) PROVE FALSE
    <3>1. offers[p] = 1
        BY <1>8, <2>3 DEF Known
    <3> QED
        BY <1>6, <2>2, <3>1
  <2>4. ASSUME NEW s \in Waiting(q)', Of(s, p)' PROVE s = m
    <3>1. Of(s, p)
        BY <1>7, <2>4 DEF Of, Sends
    <3> QED
        BY <1>7, <2>3, <2>4, <3>1 DEF Sends
  <2> QED
      BY <1>4, <1>6, <2>1, <2>4
<1>12. /\ CallOK' /\ Placed(p, q)' /\ Placed(q, p)' /\ Linked(p, q)' /\ Linked(q, p)'
       /\ Stays(p) => seated = Page
    BY <1>1, <1>3, <1>7, <1>8, <1>10, <1>11, SendLinks
<1>13. ASSUME crossed' = {} PROVE Settles(p, q)' /\ Settles(q, p)'
  <2>1. /\ Settles(p, q) /\ Settles(q, p) /\ Matched(p, q) /\ Matched(q, p)
        /\ Matched(p, q)' /\ Matched(q, p)'
      BY <1>7, <1>8, <1>9, <1>13 DEF Sends
  <2>2. /\ Waiting(q)' = Waiting(q) \cup (IF seated = Page THEN {m} ELSE {})
        /\ Waiting(p)' = Waiting(p) /\ (Closing(p)' <=> Closing(p))
        /\ (Closing(q)' <=> Closing(q))
        /\ UNCHANGED <<seated, crossed, uncalled, overlooked, partner>>
    <3>1. partner' = partner
        BY <1>5 DEF SetLocal
    <3> QED
        BY <1>7, <3>1 DEF Sends, SameSignals
  <2>3. (Stays(p)' <=> Stays(p)) /\ (Stays(q)' <=> Stays(q))
      BY <2>2 DEF Stays
  <2>4. /\ peer'[p] = peer[p] /\ life'[p] = life[p] /\ peer[p]
        /\ peer'[q] = peer[q] /\ life'[q] = life[q]
      BY <1>7 DEF Sends, SameConnection, Types, RoomTypes
  <2>5. /\ Answered(p, q)' <=> Answered(p, q)
        /\ Answered(q, p)' <=> Answered(q, p)
      BY <1>4, <2>2, <2>4 DEF Answered, AnswerOf, Of
  <2>6. /\ makingOffer'[q] = makingOffer[q] /\ got'[p] = got[p] /\ got'[q] = got[q]
      BY <1>7 DEF Sends, SameConnection
  <2>7. PendingOK(p, q)'
    <3> SUFFICES ASSUME Stays(p)'
                 PROVE  \E s \in Waiting(q)' : OfferOf(s, p)' /\ s.offer[3] = offers'[p]
        BY DEF PendingOK
    <3>1. m \in Waiting(q)'
        BY <1>12, <2>2, <2>3
    <3> QED
        BY <1>4, <1>6, <2>4, <3>1 DEF OfferOf, Of
  <2>8. PendingOK(q, p)'
    <3> SUFFICES ASSUME sig[q] = "have-local-offer", Stays(q), ~uncalled,
                        overlooked => q # Polite
                 PROVE  \/ \E s \in Waiting(p) : OfferOf(s, q) /\ s.offer[3] = offers[q]
                        \/ Answered(p, q)
                        \/ partner[q] # 0 /\ Closing(p)
                        \/ /\ q = Polite /\ seated = Page /\ ~Closing(p)
                           /\ \E s \in Waiting(q)' : OfferOf(s, p)
        BY <1>6, <2>2, <2>3, <2>4, <2>5 DEF PendingOK, OfferOf, Of
    <3>1. \/ \E s \in Waiting(p) : OfferOf(s, q) /\ s.offer[3] = offers[q]
          \/ Answered(p, q)
          \/ partner[q] # 0 /\ Closing(p)
          \/ q = Polite /\ seated = Page /\ ~Closing(p)
        BY <1>5, <2>1 DEF Settles, PendingOK
    <3>2. seated = Page => m \in Waiting(q)' /\ OfferOf(m, p)
        BY <1>4, <2>2, <2>4 DEF OfferOf, Of
    <3> QED
        BY <3>1, <3>2
  <2>9. ExchangeOK(p, q)' /\ ExchangeOK(q, p)'
      BY <1>4, <1>5, <2>1, <2>2, <2>3, <2>4, <2>5 DEF Settles, ExchangeOK, AnswerOf, Of
  <2>10. GotOK(p, q)'
      BY <1>5, <1>6, <2>1, <2>2, <2>3, <2>4, <2>5, <2>6
      DEF Settles, GotOK, OfferOf, AnswerOf, Of
  <2>11. GotOK(q, p)'
    <3>1. \A s \in Waiting(q)' : AnswerOf(s, p)' => s.version = settled'[p]
        BY <1>4, <1>5, <2>1, <2>2, <2>4 DEF Settles, GotOK, AnswerOf, Of
    <3>2. \A s \in Waiting(q)' :
              OfferOf(s, p)' /\ s.offer[3] = offers'[p] => s.version = offered'[p]
        BY <1>4, <1>6, <1>8, <2>2, <2>4 DEF Known, OfferOf, Of
    <3>3. sig[q] # "have-remote-offer"
      <4> SUFFICES ASSUME sig[q] = "have-remote-offer" PROVE FALSE
          OBVIOUS
      <4>1. applying[q] = <<p, life[p], offers[p]>>
          BY <2>1 DEF Matched
      <4>2. applying'[q] = <<p, life'[p], offers'[p]>>
          BY <1>6, <2>1 DEF Matched
      <4> QED
          BY <1>6, <4>1, <4>2
    <3>4. ~Answered(q, p)
      <4> SUFFICES ASSUME NEW s \in Waiting(p), AnswerOf(s, q) PROVE FALSE
          BY DEF Answered
      <4>1. s.offer = <<p, life[p], offers[p]>>
          BY <2>1 DEF Matched
      <4>2. s \in Waiting(p)' /\ AnswerOf(s, q)'
          BY <2>2, <2>4 DEF AnswerOf, Of
      <4>3. s.offer = <<p, life'[p], offers'[p]>>
          BY <2>1, <4>2 DEF Matched
      <4> QED
          BY <1>6, <4>1, <4>3
    <3>5. Stays(q)' => \/ sig'[q] = "have-remote-offer" \/ Answered(q, p)'
                       \/ Answered(p, q)' \/ got'[q] = settled'[p]
        BY <1>5, <1>6, <2>1, <2>3, <2>5, <2>6 DEF Settles, GotOK
    <3> QED
        BY <1>6, <2>5, <3>1, <3>2, <3>3, <3>4, <3>5 DEF GotOK
  <2> QED
      BY <2>7, <2>8, <2>9, <2>10, <2>11 DEF Settles
<1> QED
    BY <1>1, <1>12, <1>13, QuietPairNext

\* An answer is sent, to a page that has its offer pending.
LEMMA AnswerQuiet ==
    ASSUME Types, PeerInv, NegotiationInv, QuietInv, AllKnown, NEW p \in Page,
           SetLocalAnswer(p)
    PROVE  QuietInv'
<1>1. PICK q \in Page : q = Other(p) /\ q # p /\ \A r \in Page : r = p \/ r = q
    BY TwoPages
<1>2. PICK v \in {settled[p], Media(p)} :
          /\ settled' = [settled EXCEPT ![p] = v]
          /\ Send(p, [type |-> Label(Head(ops[p])), sdp |-> "answer",
                      version |-> v, from |-> life[p], offer |-> applying[p]])
    BY DEF SetLocalAnswer
<1>3. PICK m : m = [type |-> Label(Head(ops[p])), sdp |-> "answer",
                    version |-> v, from |-> life[p], offer |-> applying[p]]
    OBVIOUS
<1>4. m \in Signal
  <2>1. applying[p] \in Offer /\ life[p] \in Nat /\ v \in Version
      BY <1>2, MediaType DEF Types, PcTypes
  <2>2. Label(Head(ops[p])) \in {"offer", "answer"}
      BY DEF Label
  <2> QED
      BY <1>3, <2>1, <2>2 DEF Signal
<1>5. /\ SetLocal(p) /\ Send(p, m) /\ sig[p] = "have-remote-offer"
      /\ UNCHANGED <<offers, offered>>
    BY <1>2, <1>3 DEF SetLocalAnswer, MakesOffer
<1>6. /\ sig'[p] = "stable" /\ sig'[q] = sig[q] /\ ~fired'[p] /\ fired'[q] = fired[q]
      /\ exchange'[p] = applying[p] /\ exchange'[q] = exchange[q]
      /\ settled'[p] = v /\ settled'[q] = settled[q]
    BY <1>1, <1>2 DEF SetLocalAnswer, Types, PcTypes
<1>7. /\ m.sdp = "answer" /\ m.type = "answer" /\ m.from = life[p] /\ m.version = v
      /\ m.offer = applying[p]
  <2>1. MakingOK(p)
      BY <1>1 DEF NegotiationInv, Always
  <2>2. /\ ops[p] # <<>> /\ Head(ops[p]) = ops[p][1] /\ ops[p][1] \in Operation
        /\ Head(ops[p]).set = "local"
      BY <1>5, QueueFacts DEF SetLocal
  <2>3. ops[p][1] # NegotiateOp
      BY <1>5, <2>1, <2>2 DEF MakingOK
  <2>4. Head(ops[p]).by = "handleOffer"
      BY <2>2, <2>3, OperationFacts
  <2> QED
      BY <1>3, <2>4 DEF Label
<1>8. Sends(p, q, m)
    BY <1>1, <1>4, <1>5, <1>6, <1>7, SendEffects
<1>9. /\ CallOK /\ Placed(p, q) /\ Placed(q, p) /\ Linked(p, q) /\ Linked(q, p)
      /\ Known(p, q) /\ Known(q, p)
      /\ crossed = {} => /\ Settles(p, q) /\ Settles(q, p)
                         /\ Matched(p, q) /\ Matched(q, p)
    BY <1>1, QuietPair
<1>10. FiredOK(p)'
    BY <1>6 DEF FiredOK
<1>11. partner[p] # 0 /\ NewOK(p, q)'
  <2>1. partner[p] # 0
      BY <1>5, <1>9 DEF Known
  <2> QED
      BY <1>8, <2>1 DEF NewOK, Sends
<1>12. /\ CallOK' /\ Placed(p, q)' /\ Placed(q, p)' /\ Linked(p, q)' /\ Linked(q, p)'
       /\ Stays(p) => seated = Page
    BY <1>1, <1>4, <1>8, <1>9, <1>10, <1>11, SendLinks
<1>13. ASSUME crossed' = {} PROVE Settles(p, q)' /\ Settles(q, p)'
  <2>1. /\ Settles(p, q) /\ Settles(q, p) /\ Matched(p, q) /\ Matched(q, p)
        /\ crossed = {}
      BY <1>8, <1>9, <1>13 DEF Sends
  <2>2. /\ Waiting(q)' = Waiting(q) \cup (IF seated = Page THEN {m} ELSE {})
        /\ Waiting(p)' = Waiting(p) /\ (Closing(p)' <=> Closing(p))
        /\ (Closing(q)' <=> Closing(q))
        /\ UNCHANGED <<seated, crossed, uncalled, overlooked, partner>>
    <3>1. partner' = partner
        BY <1>5 DEF SetLocal
    <3> QED
        BY <1>8, <3>1 DEF Sends, SameSignals
  <2>3. (Stays(p)' <=> Stays(p)) /\ (Stays(q)' <=> Stays(q))
      BY <2>2 DEF Stays
  <2>4. /\ peer'[p] = peer[p] /\ life'[p] = life[p] /\ peer[p]
        /\ peer'[q] = peer[q] /\ life'[q] = life[q]
      BY <1>8 DEF Sends, SameConnection, Types, RoomTypes
  <2>5. ~Answered(p, q) /\ (Answered(q, p)' <=> Answered(q, p))
      BY <1>5, <2>1, <2>2, <2>4 DEF Matched, Answered, AnswerOf, Of
  <2>6. got'[p] = got[p] /\ got'[q] = got[q]
      BY <1>8 DEF Sends, SameConnection
  <2>7. Stays(p) \/ Stays(q) => Answered(p, q)'
    <3>1. Stays(q) => seated = Page
        BY <1>9, <1>11, <2>1 DEF Linked, PartnerOK, Stays
    <3>2. seated = Page => m \in Waiting(q)'
        BY <2>2
    <3>3. AnswerOf(m, p)'
        BY <1>7, <2>4 DEF AnswerOf, Of
    <3> QED
        BY <1>12, <3>1, <3>2, <3>3 DEF Answered
  <2>8. \A s \in Waiting(q)' : AnswerOf(s, p)' => s = m
      BY <2>2, <2>4, <2>5 DEF Answered, AnswerOf, Of
  <2>9. \A s \in Waiting(q)' : OfferOf(s, p)' => s \in Waiting(q) /\ OfferOf(s, p)
      BY <1>7, <2>2, <2>4 DEF OfferOf, Of
  <2>10. PendingOK(p, q)' /\ PendingOK(q, p)'
      BY <1>6, <2>3, <2>7 DEF PendingOK
  <2>11. ExchangeOK(p, q)'
      BY <1>6, <2>1, <2>2, <2>3, <2>4, <2>7 DEF Settles, ExchangeOK, AnswerOf, Of
  <2>12. ExchangeOK(q, p)'
      BY <1>6, <1>7, <2>3, <2>7, <2>8 DEF ExchangeOK
  <2>13. GotOK(p, q)'
    <3>1. /\ \A s \in Waiting(p)' : AnswerOf(s, q)' => s.version = settled'[q]
          /\ \A s \in Waiting(p)' :
                 OfferOf(s, q)' /\ s.offer[3] = offers'[q] => s.version = offered'[q]
        BY <1>5, <1>6, <2>1, <2>2, <2>4 DEF Settles, GotOK, OfferOf, AnswerOf, Of
    <3>2. got'[p] = offered'[q]
        BY <1>5, <2>1, <2>6 DEF Settles, GotOK
    <3> QED
        BY <2>3, <2>7, <3>1, <3>2 DEF GotOK
  <2>14. GotOK(q, p)'
    <3>1. /\ \A s \in Waiting(q)' : AnswerOf(s, p)' => s.version = settled'[p]
          /\ \A s \in Waiting(q)' :
                 OfferOf(s, p)' /\ s.offer[3] = offers'[p] => s.version = offered'[p]
        BY <1>5, <1>6, <1>7, <2>1, <2>8, <2>9 DEF Settles, GotOK
    <3>2. sig'[q] = "have-remote-offer" \/ Answered(q, p)' => got'[q] = offered'[p]
        BY <1>5, <1>6, <2>1, <2>5, <2>6 DEF Settles, GotOK
    <3> QED
        BY <2>3, <2>7, <3>1, <3>2 DEF GotOK
  <2> QED
      BY <2>10, <2>11, <2>12, <2>13, <2>14 DEF Settles
<1> QED
    BY <1>1, <1>12, <1>13, QuietPairNext

\* The connection of p has taken the signal m, or has refused it.
Pops(p, q, m) ==
    /\ SameConnection(q) /\ SameFirst(q) /\ SameSignals(q) /\ Standing(q)' = Standing(q)
    /\ UNCHANGED <<seated, entering, telling, uncalled>>
    /\ peer[p] /\ peer'[p] /\ life'[p] = life[p] /\ control'[p] = control[p]
    /\ makingOffer'[p] = makingOffer[p]
    /\ offers'[p] = offers[p] /\ offered'[p] = offered[p]
    /\ ops[p] # <<>> /\ ops[p][1].signal = m
    /\ m \in Waiting(p) /\ (Closing(p) => m \in Doomed(p))
    /\ Thinner(p) /\ (Closing(p)' <=> Closing(p)) /\ Standing(p)' = Standing(p)
    /\ \A s \in Waiting(p) : s \in Waiting(p)' \/ s = m
    /\ crossed \subseteq crossed' /\ crossed' \subseteq crossed \cup {p}
    /\ p \notin crossed' => Of(m, q)

LEMMA PopEffects ==
    ASSUME Types, NEW p \in Page, NEW q \in Page, q = Other(p), q # p,
           \A r \in Page : r = p \/ r = q, Known(p, q),
           NEW m \in Signals(p), SetRemote(p, m),
           sig'[q] = sig[q], fired'[q] = fired[q], settled'[q] = settled[q],
           got'[q] = got[q], exchange'[q] = exchange[q], partner'[q] = partner[q]
    PROVE  Pops(p, q, m)
<1>1. /\ ops'[p] = Tail(ops[p]) /\ ops'[q] = ops[q]
      /\ UNCHANGED <<seated, entering, telling, uncalled, peer, life, control,
                     makingOffer, offers, offered, channel>>
      /\ crossed' = IF Belongs(p, m) THEN crossed ELSE crossed \cup {p}
    BY DEF SetRemote, roomVars, Types, QueueTypes
<1>2. ops[p] # <<>> /\ ops[p][1].signal = m
    BY QueueFacts, SignalFacts
<1>3. peer[p]
    BY <1>2 DEF Known, Types, RoomTypes
<1>4. p \notin crossed' => Of(m, q)
    BY <1>1 DEF Belongs, Of
<1>5. /\ m \in Waiting(p) /\ (Closing(p) => m \in Doomed(p))
      /\ Thinner(p) /\ (Closing(p)' <=> Closing(p)) /\ Standing(p)' = Standing(p)
      /\ \A s \in Waiting(p) : s \in Waiting(p)' \/ s = m
    BY <1>1, QueuePopped
<1>6. SameFirst(q) /\ SameSignals(q) /\ Standing(q)' = Standing(q)
    BY <1>1, KeptQueue DEF Keeps
<1>7. SameConnection(q)
    BY <1>1 DEF SameConnection
<1> QED
    BY <1>1, <1>2, <1>3, <1>4, <1>5, <1>6, <1>7 DEF Pops

\* A description of the connection at the other end makes it the partner.
LEMMA PopLinks ==
    ASSUME Types, NEW p \in Page, NEW q \in Page, p # q, \A r \in Page : r = p \/ r = q,
           NEW m, Pops(p, q, m),
           \/ partner'[p] = m.from /\ (sig'[p] = "stable" => ~fired'[p])
           \/ SameConnection(p) /\ (p \in crossed' \/ m.sdp = "answer"),
           CallOK, Placed(p, q), Placed(q, p), Linked(p, q), Linked(q, p),
           Known(p, q), Known(q, p)
    PROVE  /\ CallOK' /\ Placed(p, q)' /\ Placed(q, p)'
           /\ Linked(p, q)' /\ Linked(q, p)'
<1>1. CallOK' /\ Placed(p, q)' /\ Placed(q, p)'
  <2>1. UNCHANGED <<seated, entering, telling, uncalled>>
      BY DEF Pops
  <2>2. \A r \in Page :
            /\ peer'[r] = peer[r] /\ control'[r] = control[r]
            /\ Closing(r)' <=> Closing(r)
            /\ \A s \in Standing(r)' : s \in Standing(r)
            /\ \A s \in Standing(r) : s \in Standing(r)'
    <3>1. /\ peer'[p] = peer[p] /\ peer'[q] = peer[q]
          /\ control'[p] = control[p] /\ control'[q] = control[q]
        BY DEF Pops, SameConnection, Types, RoomTypes
    <3> QED
        BY <3>1 DEF Pops, SameSignals
  <2> QED
      BY <2>1, <2>2, RoomSteady
<1>2. partner'[p] # 0 \/ SameConnection(p)
    BY DEF Pops, Known
<1>5. Attached(p) => Attached(p)'
    BY <1>2 DEF Attached, Pops, SameConnection
<1>3. Linked(p, q)'
  <2>1. CutOK(p, q)'
      BY <1>5 DEF Linked, CutOK, Of, Pops, SameSignals
  <2>2. PartnerOK(p, q)'
      BY <1>5 DEF Linked, PartnerOK, Pops, SameConnection, SameSignals
  <2>3. SaysOK(p)'
      BY DEF Linked, SaysOK, Pops, Thinner
  <2>4. FiredOK(p)'
      BY DEF Linked, FiredOK, SameConnection
  <2>5. MadeOK(p)'
    <3>1. CASE partner'[p] # 0
        BY <3>1 DEF MadeOK
    <3>2. CASE partner'[p] = 0
      <4>1. SameConnection(p) /\ (p \in crossed' \/ m.sdp = "answer")
          BY <3>2 DEF Pops, Known
      <4>2. peer[p] /\ ~control[p] /\ p \notin crossed /\ partner[p] = 0 =>
                m.sdp = "offer"
          BY DEF Linked, MadeOK, Pops
      <4> QED
          BY <4>1, <4>2 DEF MadeOK, Pops, SameConnection
    <3> QED
        BY <3>1, <3>2
  <2>6. NewOK(p, q)' /\ FirstOK(p, q)'
    <3>1. CASE partner'[p] # 0
        BY <3>1 DEF NewOK, FirstOK, Attached
    <3>2. CASE SameConnection(p)
      <4>1. NewOK(p, q)'
          BY <3>2 DEF Linked, NewOK, Of, Pops, SameConnection, SameSignals
      <4>2. FirstOK(p, q)'
          BY <3>2
          DEF Linked, FirstOK, Attached, Of, Stays, Pops, SameConnection, SameSignals
      <4> QED
          BY <4>1, <4>2
    <3> QED
        BY <1>2, <3>1, <3>2
  <2> QED
      BY <2>1, <2>2, <2>3, <2>4, <2>5, <2>6 DEF Linked
<1>4. Linked(q, p)'
  <2>1. CutOK(q, p)'
      BY DEF Linked, CutOK, Attached, Of, Pops, SameConnection, SameSignals, Thinner
  <2>2. PartnerOK(q, p)'
    <3> SUFFICES ASSUME p \notin crossed', ~Closing(q)
                 PROVE  seated = Page /\ (Attached(q) \/ ~Closing(p))
        BY DEF PartnerOK, Attached, Pops, SameConnection, SameSignals
    <3>1. m \in Waiting(p) /\ Of(m, q) /\ (Closing(p) => m \in Doomed(p))
        BY DEF Pops
    <3> QED
        BY <3>1 DEF Linked, CutOK
  <2>3. SaysOK(q)'
      BY DEF Linked, SaysOK, Pops, SameSignals
  <2>4. FiredOK(q)'
      BY DEF Linked, FiredOK, Pops, SameConnection
  <2>5. MadeOK(q)'
    <3>1. q \in crossed' <=> q \in crossed
        BY DEF Pops
    <3> QED
        BY <3>1 DEF Linked, MadeOK, Pops, SameConnection, SameFirst
  <2>6. NewOK(q, p)'
    <3> SUFFICES ASSUME partner[q] = 0
                 PROVE  /\ settled[q] = 0 /\ got[q] = 0 /\ exchange[q] = NoOffer
                        /\ \A s \in Waiting(p) : Of(s, q) => s.version = offered[q]
                        /\ p \notin crossed' => sig[q] = "have-local-offer"
        BY DEF NewOK, Of, Pops, SameConnection, Thinner
    <3>1. p \notin crossed' => m \in Waiting(p) /\ Of(m, q)
        BY DEF Pops
    <3> QED
        BY <3>1 DEF Linked, NewOK, Known
  <2>7. FirstOK(q, p)'
    <3> SUFFICES ASSUME ~Attached(q), sig[q] = "have-local-offer", Stays(q), ~uncalled,
                        Closing(p)
                 PROVE  \E s \in Waiting(p)' : Of(s, q)
        BY DEF FirstOK, Attached, Stays, Of, Pops, SameConnection, SameSignals
    <3>1. PICK s \in Waiting(p) : Of(s, q)
        BY DEF Linked, FirstOK
    <3>2. s \notin Doomed(p)
        BY <3>1 DEF Linked, CutOK, Stays
    <3> QED
        BY <3>1, <3>2 DEF Pops, Thinner
  <2> QED
      BY <2>1, <2>2, <2>3, <2>4, <2>5, <2>6, <2>7 DEF Linked
<1> QED
    BY <1>1, <1>3, <1>4

\* setRemoteDescription: an offer, an answer, or an error.
LEMMA RemoteQuiet ==
    ASSUME Types, QuietInv, AllKnown, AllKnown', NEW p \in Page, NEW m \in Signals(p),
           SetRemoteOffer(p, m) \/ SetRemoteAnswer(p, m) \/ SetRemoteFails(p, m)
    PROVE  QuietInv'
<1>1. PICK q \in Page : q = Other(p) /\ q # p /\ \A r \in Page : r = p \/ r = q
    BY TwoPages
<1>2. SetRemote(p, m)
    BY DEF SetRemoteOffer, SetRemoteAnswer, SetRemoteFails
<1>3. /\ sig'[q] = sig[q] /\ fired'[q] = fired[q] /\ settled'[q] = settled[q]
      /\ got'[q] = got[q] /\ exchange'[q] = exchange[q] /\ partner'[q] = partner[q]
    BY <1>1 DEF SetRemoteOffer, SetRemoteAnswer, SetRemoteFails, Types, PcTypes
<1>4. /\ CallOK /\ Placed(p, q) /\ Placed(q, p) /\ Linked(p, q) /\ Linked(q, p)
      /\ Known(p, q) /\ Known(q, p)
      /\ crossed = {} => /\ Settles(p, q) /\ Settles(q, p)
                         /\ Matched(p, q) /\ Matched(q, p)
    BY <1>1, QuietPair
<1>5. Pops(p, q, m)
    BY <1>1, <1>2, <1>3, <1>4, PopEffects
<1>6. crossed' = {} => Matched(p, q)' /\ Matched(q, p)'
    BY <1>1, KnownNext
<1>7. SetRemoteOffer(p, m) =>
          /\ m.sdp = "offer" /\ sig'[p] = "have-remote-offer" /\ fired'[p] = fired[p]
          /\ settled'[p] = settled[p] /\ got'[p] = m.version
          /\ exchange'[p] = exchange[p] /\ applying'[p] = m.offer
          /\ partner'[p] = m.from
    BY DEF SetRemoteOffer, Types, PcTypes
<1>8. SetRemoteAnswer(p, m) =>
          /\ m.sdp = "answer" /\ sig[p] = "have-local-offer" /\ sig'[p] = "stable"
          /\ ~fired'[p] /\ settled'[p] = offered[p] /\ got'[p] = m.version
          /\ exchange'[p] = m.offer /\ partner'[p] = m.from /\ overlooked' = overlooked
    BY DEF SetRemoteAnswer, Types, PcTypes
<1>9. SetRemoteFails(p, m) => /\ SameConnection(p)
                              /\ p \in crossed' \/ m.sdp = "answer"
                              /\ crossed' # {}
  <2> SUFFICES ASSUME SetRemoteFails(p, m)
               PROVE  /\ SameConnection(p) /\ (p \in crossed' \/ m.sdp = "answer")
                      /\ crossed' # {}
      OBVIOUS
  <2>1. SameConnection(p)
      BY DEF SetRemoteFails, SetRemote, SameConnection
  <2>2. ~Belongs(p, m) => p \in crossed'
      BY <1>2 DEF SetRemote
  <2>3. crossed \subseteq crossed'
      BY <1>5 DEF Pops
  <2> QED
      BY <2>1, <2>2, <2>3 DEF SetRemoteFails
<1>10. /\ CallOK' /\ Placed(p, q)' /\ Placed(q, p)'
       /\ Linked(p, q)' /\ Linked(q, p)'
  <2>1. \/ partner'[p] = m.from /\ (sig'[p] = "stable" => ~fired'[p])
        \/ SameConnection(p) /\ (p \in crossed' \/ m.sdp = "answer")
      BY <1>7, <1>8, <1>9
  <2> QED
      BY <1>1, <1>4, <1>5, <2>1, PopLinks
<1>11. ASSUME crossed' = {} PROVE Settles(p, q)' /\ Settles(q, p)'
  <2>1. /\ Settles(p, q) /\ Settles(q, p) /\ Matched(p, q) /\ Matched(q, p)
        /\ Matched(p, q)' /\ Matched(q, p)'
    <3>1. crossed = {}
        BY <1>5, <1>11 DEF Pops
    <3> QED
        BY <1>4, <1>6, <1>11, <3>1
  <2>2. /\ Waiting(q)' = Waiting(q) /\ Waiting(p)' \subseteq Waiting(p)
        /\ (Closing(p)' <=> Closing(p)) /\ (Closing(q)' <=> Closing(q))
        /\ \A s \in Waiting(p) : s \in Waiting(p)' \/ s = m
        /\ m \in Waiting(p) /\ Of(m, q) /\ UNCHANGED <<seated, uncalled>>
      BY <1>5, <1>11 DEF Pops, SameSignals, Thinner
  <2>3. (Stays(p)' <=> Stays(p)) /\ (Stays(q)' <=> Stays(q))
      BY <2>2 DEF Stays
  <2>4. /\ peer'[p] = peer[p] /\ life'[p] = life[p]
        /\ peer'[q] = peer[q] /\ life'[q] = life[q]
        /\ makingOffer'[p] = makingOffer[p] /\ makingOffer'[q] = makingOffer[q]
        /\ offers'[p] = offers[p] /\ offers'[q] = offers[q]
        /\ offered'[p] = offered[p] /\ offered'[q] = offered[q]
      BY <1>5 DEF Pops, SameConnection, Types, RoomTypes
  <2>5. Answered(p, q)' <=> Answered(p, q)
      BY <2>2, <2>4 DEF Answered, AnswerOf, Of
  <2>6. CASE SetRemoteOffer(p, m)
    <3>1. OfferOf(m, q) /\ m.offer[3] = offers[q] /\ ~Answered(p, q)
          /\ sig[q] = "have-local-offer"
      <4>1. /\ applying'[p] = <<q, life'[q], offers'[q]>> /\ ~Answered(p, q)'
            /\ sig'[q] = "have-local-offer"
          BY <1>7, <2>1, <2>6 DEF Matched
      <4> QED
          BY <1>3, <1>7, <2>2, <2>4, <2>5, <2>6, <4>1 DEF OfferOf
    <3>2. \A s \in Waiting(p) : AnswerOf(s, q) => s \in Waiting(p)'
        BY <2>2, <3>1 DEF OfferOf, AnswerOf
    <3>3. Answered(q, p)' <=> Answered(q, p)
        BY <2>2, <2>4, <3>2 DEF Answered, AnswerOf, Of
    <3>4. PendingOK(p, q)' /\ PendingOK(q, p)'
        BY <1>7, <2>6 DEF PendingOK
    <3>5. ExchangeOK(p, q)' /\ ExchangeOK(q, p)'
        BY <1>3, <1>7, <2>1, <2>2, <2>3, <2>4, <2>5, <2>6, <3>3
        DEF Settles, ExchangeOK, AnswerOf, Of
    <3>6. GotOK(p, q)'
      <4>1. /\ \A s \in Waiting(p)' : AnswerOf(s, q)' => s.version = settled'[q]
            /\ \A s \in Waiting(p)' :
                   OfferOf(s, q)' /\ s.offer[3] = offers'[q] => s.version = offered'[q]
          BY <1>3, <2>1, <2>2, <2>4 DEF Settles, GotOK, OfferOf, AnswerOf, Of
      <4>2. got'[p] = offered'[q]
          BY <1>7, <2>1, <2>2, <2>4, <2>6, <3>1 DEF Settles, GotOK
      <4> QED
          BY <1>7, <2>6, <4>1, <4>2 DEF GotOK
    <3>7. GotOK(q, p)'
        BY <1>3, <1>7, <2>1, <2>2, <2>3, <2>4, <2>5, <2>6, <3>1, <3>3
        DEF Settles, GotOK, OfferOf, AnswerOf, Of
    <3> QED
        BY <3>4, <3>5, <3>6, <3>7 DEF Settles
  <2>7. CASE SetRemoteAnswer(p, m)
    <3>1. AnswerOf(m, q) /\ Answered(q, p)
        BY <1>8, <2>2, <2>7 DEF Answered, AnswerOf
    <3>2. \A s \in Waiting(q) : ~Of(s, p)
        BY <2>1, <3>1 DEF Matched
    <3>3. ~Answered(p, q)
        BY <3>2 DEF Answered, AnswerOf
    <3>4. \A s \in Waiting(p)' : ~AnswerOf(s, q)'
        BY <1>8, <2>1, <2>7 DEF Matched
    <3>5. ~Answered(q, p)'
        BY <3>4 DEF Answered
    <3>6. PendingOK(p, q)'
        BY <1>8, <2>7 DEF PendingOK
    <3>7. PendingOK(q, p)'
      <4>1. \A s \in Waiting(p) : OfferOf(s, q) => s \in Waiting(p)' /\ OfferOf(s, q)'
          BY <2>2, <2>4, <3>1 DEF OfferOf, AnswerOf, Of
      <4>2. sig[p] # "have-remote-offer"
          BY <1>8, <2>7
      <4> SUFFICES ASSUME sig[q] = "have-local-offer", Stays(q), ~uncalled,
                          overlooked => q # Polite
                   PROVE  \/ \E s \in Waiting(p)' :
                                 OfferOf(s, q)' /\ s.offer[3] = offers[q]
                          \/ partner[q] # 0 /\ Closing(p)
                          \/ /\ q = Polite /\ seated = Page /\ ~Closing(p)
                             /\ makingOffer[p] \/ \E s \in Waiting(q) : OfferOf(s, p)
          BY <1>3, <1>8, <2>2, <2>3, <2>4, <2>7 DEF PendingOK, OfferOf, Of
      <4> QED
          BY <2>1, <3>3, <4>1, <4>2 DEF Settles, PendingOK
    <3>8. exchange'[p] = exchange'[q]
        BY <1>3, <1>8, <2>1, <2>2, <2>7, <3>1 DEF Settles, ExchangeOK
    <3>9. ExchangeOK(p, q)' /\ ExchangeOK(q, p)'
        BY <2>2, <2>5, <3>3, <3>4, <3>8 DEF ExchangeOK, Answered
    <3>10. GotOK(p, q)'
      <4>1. \A s \in Waiting(p)' :
                OfferOf(s, q)' /\ s.offer[3] = offers'[q] => s.version = offered'[q]
          BY <2>1, <2>2, <2>4 DEF Settles, GotOK, OfferOf, Of
      <4>2. got'[p] = settled'[q]
          BY <1>3, <1>8, <2>1, <2>2, <2>7, <3>1 DEF Settles, GotOK
      <4> QED
          BY <1>8, <2>5, <2>7, <3>3, <3>4, <4>1, <4>2 DEF GotOK
    <3>11. GotOK(q, p)'
      <4>1. \A s \in Waiting(q)' : ~OfferOf(s, p)' /\ ~AnswerOf(s, p)'
          BY <2>2, <2>4, <3>2 DEF OfferOf, AnswerOf, Of
      <4>2. got'[q] = offered'[p] /\ got'[q] = settled'[p]
          BY <1>3, <1>8, <2>1, <2>4, <2>7, <3>1 DEF Settles, GotOK
      <4> QED
          BY <4>1, <4>2 DEF GotOK
    <3> QED
        BY <3>6, <3>7, <3>9, <3>10, <3>11 DEF Settles
  <2>8. CASE SetRemoteFails(p, m)
      BY <1>9, <1>11, <2>8
  <2> QED
      BY <2>6, <2>7, <2>8
<1> QED
    BY <1>1, <1>10, <1>11, QuietPairNext

LEMMA QuietInit == Init => QuietInv
<1> SUFFICES ASSUME Init PROVE QuietInv
    OBVIOUS
<1>1. \A p \in Page : Waiting(p) = {}
  <2> SUFFICES ASSUME NEW p \in Page PROVE Waiting(p) = {}
      OBVIOUS
  <2>1. ops[p] = <<>> /\ channel[p] = <<>>
      BY DEF Init
  <2>2. 1..Len(<<>>) = {}
      OBVIOUS
  <2> QED
      BY <2>1, <2>2 DEF Waiting, ChainedIn, SignalsIn
<1>2. CallOK
  <2>1. seated # Page
      BY NegotiationAssumption DEF Init
  <2> QED
      BY <2>1 DEF CallOK
<1>3. ASSUME NEW p \in Page, NEW q \in Page, p # q
      PROVE  Placed(p, q) /\ Linked(p, q) /\ Settles(p, q)
  <2>1. Placed(p, q)
      BY DEF Init, Placed, TellOK, CleanOK, EnterOK
  <2>2. CutOK(p, q) /\ PartnerOK(p, q) /\ SaysOK(p) /\ FiredOK(p) /\ MadeOK(p)
      BY <1>1 DEF Init, CutOK, PartnerOK, SaysOK, FiredOK, MadeOK
  <2>3. NewOK(p, q) /\ FirstOK(p, q)
      BY <1>1 DEF Init, NewOK, FirstOK, Attached
  <2>4. PendingOK(p, q)
      BY DEF Init, PendingOK
  <2>5. ExchangeOK(p, q)
      BY <1>1 DEF Init, ExchangeOK
  <2>6. GotOK(p, q)
      BY <1>1 DEF Init, GotOK, Answered
  <2> QED
      BY <2>1, <2>2, <2>3, <2>4, <2>5, <2>6 DEF Linked, Settles
<1> QED
    BY <1>2, <1>3 DEF QuietInv

LEMMA QuietStutter ==
    ASSUME QuietInv, UNCHANGED vars
    PROVE  QuietInv'
<1>1. UNCHANGED <<seated, entering, telling, peer, life, control, makingOffer, sig,
                  fired, ops, offers, offered, settled, got, exchange, partner, channel,
                  overlooked, crossed, uncalled>>
    BY DEF vars, roomVars, pageVars, pcVars, history
<1>2. \A p \in Page : SameConnection(p) /\ SameFirst(p) /\ SameSignals(p)
                      /\ Standing(p)' = Standing(p)
    BY <1>1 DEF SameConnection, SameFirst, SameSignals, Closing, Standing, Waiting,
                Doomed
<1>3. CallOK'
    BY <1>1, <1>2 DEF QuietInv, CallOK, Called, SameSignals
<1>4. ASSUME NEW p \in Page, NEW q \in Page, p # q
      PROVE  /\ Placed(p, q)' /\ Linked(p, q)'
             /\ crossed' = {} => Settles(p, q)'
  <2>1. Placed(p, q) /\ Linked(p, q) /\ (crossed = {} => Settles(p, q))
      BY <1>4 DEF QuietInv
  <2>2. Placed(p, q)'
      BY <1>1, <1>2, <2>1 DEF Placed, TellOK, CleanOK, EnterOK, SameSignals
  <2>3. Linked(p, q)' /\ (Settles(p, q) => Settles(p, q)')
      BY <1>1, <1>2, <1>4, <2>1, MuteLinks
  <2> QED
      BY <1>1, <2>1, <2>2, <2>3
<1> QED
    BY <1>3, <1>4 DEF QuietInv

LEMMA QuietStep ==
    ASSUME Types, PeerInv, NegotiationInv, AllKnown, AllKnown', QuietInv, [Next]_vars
    PROVE  QuietInv'
<1>1. CASE UNCHANGED vars
    BY <1>1, QuietStutter
<1>2. ASSUME NEW p \in Page, Step(p) PROVE QuietInv'
  <2>1. CASE \/ ChangeMedia(p) \/ OnIceCandidate(p) \/ HandleICECandidate(p)
             \/ TellJoined(p) \/ Reply(p)
      BY <2>1, MuteQuiet
  <2>2. CASE JoinElsewhere(p) \/ TakeSeat(p) \/ SendRoomJoined(p)
      BY <2>2, MoveQuiet, TakeQuiet, EnterQuiet
  <2>3. CASE LeaveRoom(p) \/ OnUserLeft(p) \/ OnRoomChange(p) \/ ConnectionFails(p)
      BY <2>3, CloseQuiet
  <2>4. CASE InitiatePeer(p) \/ HandleOffer(p) \/ HandleAnswer(p)
      BY <2>4, HandlerQuiet
  <2>5. CASE OnNegotiationNeeded(p) \/ SetLocalOffer(p) \/ SetLocalAnswer(p)
      BY <2>5, NeedsQuiet, OfferQuiet, AnswerQuiet
  <2>6. CASE \E m \in Signals(p) : \/ SetRemoteOffer(p, m) \/ SetRemoteAnswer(p, m)
                                   \/ SetRemoteFails(p, m)
      BY <2>6, RemoteQuiet
  <2> QED
      BY <1>2, <2>1, <2>2, <2>3, <2>4, <2>5, <2>6 DEF Step
<1> QED
    BY <1>1, <1>2 DEF Next, Resting

\* When nothing waits, each disjunct of the invariant that speaks of a signal is out.
LEMMA QuietIsEnough == Types /\ AllKnown /\ QuietInv => QuietIsAgreed
<1> SUFFICES ASSUME Types, AllKnown, QuietInv, Quiet, ~overlooked, crossed = {},
                    ~uncalled, NEW p \in Page
             PROVE  IF seated = Page THEN Connected(p) ELSE p \in seated => ~peer[p]
    BY DEF QuietIsAgreed
<1>1. PICK q \in Page : q = Other(p) /\ q # p /\ \A r \in Page : r = p \/ r = q
    BY TwoPages
<1>2. ASSUME NEW r \in Page
      PROVE  /\ Waiting(r) = {} /\ Standing(r) = {} /\ ~Closing(r)
             /\ ops[r] = <<>> /\ flushing[r] = 0
  <2>1. ops[r] = <<>> /\ channel[r] = <<>> /\ flushing[r] = 0 /\ r \notin entering
      BY DEF Quiet
  <2>2. 1..Len(<<>>) = {}
      OBVIOUS
  <2> QED
      BY <2>1, <2>2 DEF Waiting, Standing, Closing, ChainedIn, SignalsIn, StandingIn,
                        ClosesIn
<1>3. ASSUME seated # Page, p \in seated PROVE ~peer[p]
  <2>1. q \notin seated
      BY <1>1, <1>3 DEF Types, RoomTypes
  <2> QED
      BY <1>1, <1>2, <1>3, <2>1 DEF QuietInv, Placed, CleanOK
<1>4. ASSUME seated = Page PROVE Connected(p)
  <2>1. \A r \in Page : Stays(r) /\ ~makingOffer[r] /\ sig[r] # "have-remote-offer"
    <3> SUFFICES ASSUME NEW r \in Page
                 PROVE  Stays(r) /\ ~makingOffer[r] /\ sig[r] # "have-remote-offer"
        OBVIOUS
    <3>1. PICK s \in Page : r # s
        BY <1>1
    <3>2. Known(r, s) /\ Matched(r, s)
        BY <3>1 DEF AllKnown
    <3> QED
        BY <1>2, <1>4, <3>2 DEF Stays, Known, Matched
  <2>2. \A r, s \in Page : ~Answered(r, s)
      BY <1>2 DEF Answered
  <2>3. ASSUME NEW r \in Page, NEW s \in Page, r # s
        PROVE  /\ sig[r] = "stable"
               /\ peer[r] => /\ settled[r] = Media(r)
                             /\ peer[s] /\ partner[r] = life[s]
               /\ exchange[r] = exchange[s] /\ got[r] = settled[s]
    <3>1. /\ Known(r, s) /\ Matched(r, s) /\ Linked(r, s)
          /\ PendingOK(r, s) /\ ExchangeOK(r, s) /\ GotOK(r, s)
        BY <2>3 DEF AllKnown, QuietInv, Settles
    <3>2. sig[r] = "stable"
      <4>1. sig[r] # "have-local-offer"
          BY <1>2, <2>1, <2>2, <3>1 DEF PendingOK
      <4> QED
          BY <2>1, <4>1 DEF Types, PcTypes
    <3>3. peer[r] => settled[r] = Media(r)
        BY <2>1, <3>1, <3>2 DEF Quiet, Linked, FiredOK
    <3>4. peer[r] => partner[r] # 0
      <4> SUFFICES ASSUME peer[r], partner[r] = 0 PROVE FALSE
          OBVIOUS
      <4>1. Media(r) = 0
          BY <3>1, <3>3 DEF Linked, NewOK
      <4>2. media[r] \in Nat
          BY NegotiationAssumption DEF Types, RoomTypes
      <4>3. ~control[r]
          BY <4>1, <4>2 DEF Media
      <4> QED
          BY <1>2, <3>1, <4>3 DEF Linked, MadeOK
    <3>5. peer[r] => peer[s] /\ partner[r] = life[s]
        BY <3>1, <3>4 DEF Known
    <3>6. exchange[r] = exchange[s] /\ got[r] = settled[s]
        BY <2>1, <2>2, <3>1 DEF ExchangeOK, GotOK
    <3> QED
        BY <3>2, <3>3, <3>5, <3>6
  <2>4. PICK r \in Page : peer[r]
      BY <1>2, <1>4 DEF QuietInv, CallOK, Called, Quiet
  <2>5. peer[p] /\ peer[q]
      BY <1>1, <2>3, <2>4
  <2> QED
      BY <1>1, <2>3, <2>5 DEF Connected
<1> QED
    BY <1>3, <1>4

\* When all is quiet the two members are connected, to each other's connection of now,
\* and each has the other's media as it is now: perfect negotiation (webrtc.js:2-4)
\* ends in agreement whatever media change, members leave and come back, and offers
\* collide, unless an answer at hand was overlooked, a description reached the wrong
\* connection, or nobody calls again: a connection failed, or
\* a user_joined overtook its receiver's room_joined.
THEOREM QuietPagesAgree == Spec => []QuietIsAgreed
<1>1. Types /\ PeerInv /\ NegotiationInv /\ QuietInv /\ AllKnown /\ AllKnown'
          /\ [Next]_vars => QuietInv'
    BY QuietStep
<1>2. Types /\ PeerInv /\ NegotiationInv => AllKnown
    BY InvariantKnows
<1> QED
    BY <1>1, <1>2, QuietInit, QuietIsEnough, NegotiationInitTypes, NegotiationInitInv,
       NegotiationStepTypes, NegotiationStepInv, PTL DEF Spec

(***************************************************************************)
(* Files over the connection's channels.                                   *)
(***************************************************************************)
USE DEF senderVars, channelVars, linkVars, receiverVars

Begun(t) == phase[t] \notin {"new", "opening", "refused"}

\* What a sender may find in its buffer where it is: only one that has just come
\* from a read looks at the amount.
BufferInv ==
    /\ phase \in [Transfer -> {"new", "opening", "reading", "paused", "flushing",
                               "done", "failed", "refused"}]
    /\ offset \in [Transfer -> Nat]
    /\ buffer \in [Transfer -> Seq(Int)]
    /\ \A t \in Transfer :
          /\ ~Begun(t) => buffer[t] = <<>>
          /\ phase[t] = "reading" => Len(buffer[t]) <= MaxBuffer
          /\ phase[t] = "paused" => Len(buffer[t]) <= MaxBuffer + 1
          /\ Len(buffer[t]) <= MaxBuffer + 2

LEMMA BufferInit == TransferInit => BufferInv
BY FileTransferAssumption DEF TransferInit, BufferInv, Begun

\* A sender goes on from a buffer that holds at most one message too many.
LEMMA ProceedKeeps ==
    ASSUME BufferInv, NEW t \in Transfer, NEW n \in Nat, NEW b \in Seq(Int),
           Len(b) <= MaxBuffer + 1, Proceed(t, n, b)
    PROVE  BufferInv'
<1>1. MaxBuffer \in Nat /\ Len(b) \in Nat
    BY FileTransferAssumption
<1>2. Append(b, End) \in Seq(Int) /\ Len(Append(b, End)) = Len(b) + 1
    BY DEF End
<1>3. CASE More(t, n)
  <2>1. /\ buffer' = [buffer EXCEPT ![t] = b]
        /\ phase' = [phase EXCEPT ![t] = IF TooFull(b) THEN "paused" ELSE "reading"]
        /\ offset' = [offset EXCEPT ![t] = n]
      BY <1>3 DEF Proceed, Goto
  <2>2. TooFull(b) \/ Len(b) <= MaxBuffer
      BY <1>1 DEF TooFull
  <2> QED
      BY <1>1, <2>1, <2>2 DEF BufferInv, Begun
<1>4. CASE ~More(t, n)
  <2>1. /\ buffer' = [buffer EXCEPT ![t] = Append(b, End)]
        /\ phase' = [phase EXCEPT ![t] = "flushing"]
        /\ offset' = [offset EXCEPT ![t] = n]
      BY <1>4 DEF Proceed, Goto
  <2> QED
      BY <1>1, <1>2, <2>1 DEF BufferInv, Begun
<1> QED
    BY <1>3, <1>4

LEMMA BufferStep ==
    ASSUME BufferInv, [TransferNext]_transferVars
    PROVE  BufferInv'
<1>1. ASSUME NEW t \in Transfer, SendFile(t) PROVE BufferInv'
    BY <1>1 DEF SendFile, Goto, BufferInv, Begun
<1>2. ASSUME NEW t \in Transfer, OnOpen(t) PROVE BufferInv'
  <2>1. <<Meta>> \in Seq(Int) /\ Len(<<Meta>>) = 1
      BY DEF Meta
  <2>2. Len(<<Meta>>) <= MaxBuffer + 1
      BY <2>1, FileTransferAssumption
  <2> QED
      BY <1>2, <2>1, <2>2, ProceedKeeps DEF OnOpen
<1>3. ASSUME NEW t \in Transfer, ChunkRead(t) PROVE BufferInv'
  <2> DEFINE n == offset[t] + 1
             b == Append(buffer[t], n)
  <2>1. CASE readyState[t] = "open"
    <3>1. n \in Nat /\ buffer[t] \in Seq(Int) /\ Len(buffer[t]) <= MaxBuffer
        BY <1>3 DEF ChunkRead, BufferInv
    <3>2. b \in Seq(Int) /\ Len(b) = Len(buffer[t]) + 1
        BY <3>1
    <3>3. Len(b) <= MaxBuffer + 1
        BY <3>1, <3>2, FileTransferAssumption
    <3>4. Proceed(t, n, b)
        BY <1>3, <2>1 DEF ChunkRead
    <3> QED
        BY <3>1, <3>2, <3>3, <3>4, ProceedKeeps
  <2>2. CASE readyState[t] # "open"
      BY <1>3, <2>2 DEF ChunkRead, Goto, BufferInv, Begun
  <2> QED
      BY <2>1, <2>2
<1>4. ASSUME NEW t \in Transfer, ReadFails(t) \/ CloseChannel(t) PROVE BufferInv'
    BY <1>4 DEF ReadFails, CloseChannel, Goto, BufferInv, Begun
<1>5. ASSUME NEW t \in Transfer, Drain(t) PROVE BufferInv'
  <2>1. /\ buffer[t] \in Seq(Int) /\ buffer[t] # <<>>
        /\ buffer' = [buffer EXCEPT ![t] = Tail(buffer[t])]
        /\ offset' = offset
        /\ phase' = [phase EXCEPT ![t] =
                         IF phase[t] = "paused" /\ FallsLow(buffer[t])
                         THEN "reading" ELSE phase[t]]
      BY <1>5 DEF Drain, Goto, BufferInv
  <2>2. /\ Tail(buffer[t]) \in Seq(Int)
        /\ Len(Tail(buffer[t])) = Len(buffer[t]) - 1 /\ Len(buffer[t]) \in Nat
      BY <2>1
  <2>3. FallsLow(buffer[t]) => Len(Tail(buffer[t])) <= MaxBuffer
      BY <2>2, FileTransferAssumption DEF FallsLow
  <2>4. MaxBuffer \in Nat
      BY FileTransferAssumption
  <2> QED
      BY <2>1, <2>2, <2>3, <2>4 DEF BufferInv, Begun
<1>6. CASE UNCHANGED <<phase, offset, buffer>>
    BY <1>6 DEF BufferInv, Begun
<1> QED
    BY <1>1, <1>2, <1>3, <1>4, <1>5, <1>6
    DEF TransferNext, transferVars, Closed, OnMessage, OnMeta, OnChunk, OnEnd,
        Consume, Break, SenderClosesPeer, TransportEnds, CloseChannels

\* However slowly the channel drains, and whenever it stops, a sender keeps at
\* most one chunk and the end above MAX_BUFFER in it (filetransfer.js:75-81).
THEOREM BufferNeverOverruns == TransferSpec => []BufferBounded
<1>1. BufferInv => BufferBounded
    BY DEF BufferInv, BufferBounded
<1> QED
    BY <1>1, BufferInit, BufferStep, PTL DEF TransferSpec

-----------------------------------------------------------------------------
(* The stream: the messages of a transfer have the places 0, 1, ... Size + 1 *)

Place(t, m) == IF m = End THEN Size[t] + 1 ELSE m

\* The receiver: before the meta message, in the file, or after its end.
Fresh(t) == ~meta[t] /\ chunks[t] = <<>> /\ received[t] = <<>>
Midway(t) == meta[t] /\ received[t] = <<>>
Ended(t) == ~meta[t] /\ chunks[t] = <<>> /\ received[t] = <<WholeFile(t)>>

\* The place of the message the receiver is to see next.
NextPlace(t) == IF meta[t] THEN Len(chunks[t]) + 1
            ELSE IF received[t] = <<>> THEN 0 ELSE Size[t] + 2

\* The place of the message the sender is to give to the channel next.
SentPlace(t) == IF ~Begun(t) THEN 0
            ELSE IF phase[t] \in {"reading", "paused"} THEN offset[t] + 1
            ELSE Size[t] + 2

StreamTypes ==
    /\ phase \in [Transfer -> {"new", "opening", "reading", "paused", "flushing",
                               "done", "failed", "refused"}]
    /\ offset \in [Transfer -> Nat]
    /\ buffer \in [Transfer -> Seq(Int)]
    /\ wire \in [Transfer -> Seq(Int)]
    /\ broken \in BOOLEAN
    /\ meta \in [Transfer -> BOOLEAN]
    /\ chunks \in [Transfer -> Seq(Nat)]
    /\ received \in [Transfer -> Seq(Seq(Nat))]

\* What is on its way follows what has come, what is in the buffer follows what
\* is on its way, and what is still to be sent follows both.
Receiving(t) ==
    /\ Fresh(t) \/ Midway(t) \/ Ended(t)
    /\ \A i \in 1..Len(chunks[t]) : chunks[t][i] = i

InPlace(t) ==
    /\ Receiving(t)
    /\ broken => wire[t] = <<>>
    /\ phase[t] \in {"reading", "paused"} => offset[t] < Size[t]
    /\ ~broken =>
          /\ \A i \in 1..Len(wire[t]) : Place(t, wire[t][i]) = NextPlace(t) + i - 1
          /\ \A i \in 1..Len(buffer[t]) :
                 Place(t, buffer[t][i]) = NextPlace(t) + Len(wire[t]) + i - 1
          /\ phase[t] # "failed" =>
                 SentPlace(t) = NextPlace(t) + Len(wire[t]) + Len(buffer[t])
          /\ NextPlace(t) + Len(wire[t]) + Len(buffer[t]) <= Size[t] + 2

StreamInv == StreamTypes /\ \A t \in Transfer : InPlace(t)

LEMMA StreamInit == TransferInit => StreamInv
<1> SUFFICES ASSUME TransferInit PROVE StreamInv
    OBVIOUS
<1>1. StreamTypes
  <2>1. <<>> \in Seq(Int) /\ <<>> \in Seq(Nat) /\ <<>> \in Seq(Seq(Nat))
      OBVIOUS
  <2> QED
      BY <2>1 DEF TransferInit, StreamTypes
<1>2. ASSUME NEW t \in Transfer PROVE InPlace(t)
    BY FileTransferAssumption
    DEF TransferInit, InPlace, Receiving, Fresh, NextPlace, SentPlace, Begun
<1> QED
    BY <1>1, <1>2 DEF StreamInv

\* A step that leaves a transfer's part of the state alone leaves it in place.
LEMMA OthersKept ==
    ASSUME NEW u \in Transfer, InPlace(u),
           phase'[u] = phase[u], offset'[u] = offset[u], buffer'[u] = buffer[u],
           wire'[u] = wire[u], broken' = broken, meta'[u] = meta[u],
           chunks'[u] = chunks[u], received'[u] = received[u]
    PROVE  InPlace(u)'
BY DEF InPlace, Receiving, Fresh, Midway, Ended, NextPlace, SentPlace, Begun, Place,
       WholeFile

\* The sender adds the message whose turn it is, and the end after the last.
LEMMA ProceedInPlace ==
    ASSUME StreamInv, NEW t \in Transfer, NEW n \in Nat, NEW m \in Int,
           n <= Size[t], ~broken, m = n, Proceed(t, n, Append(buffer[t], m)),
           phase[t] # "failed", SentPlace(t) = n,
           UNCHANGED <<wire, broken, receiverVars>>
    PROVE  StreamInv'
<1> DEFINE b == Append(buffer[t], m)
<1>0. Size[t] \in Nat
    BY FileTransferAssumption
<1>1. /\ buffer[t] \in Seq(Int) /\ wire[t] \in Seq(Int)
      /\ chunks[t] \in Seq(Nat) /\ meta[t] \in BOOLEAN
      /\ InPlace(t)
    BY DEF StreamInv, StreamTypes
<1>2. /\ b \in Seq(Int) /\ Len(b) = Len(buffer[t]) + 1 /\ b[Len(b)] = m
      /\ \A i \in 1..Len(buffer[t]) : b[i] = buffer[t][i]
    BY <1>1
<1>3. NextPlace(t) \in Nat /\ Len(wire[t]) \in Nat /\ Len(buffer[t]) \in Nat
    BY <1>0, <1>1 DEF NextPlace
<1>4. n = NextPlace(t) + Len(wire[t]) + Len(buffer[t])
    BY <1>1 DEF InPlace
<1>5. Place(t, m) = n
    BY DEF Place, End
<1>6. \A i \in 1..Len(b) : Place(t, b[i]) = NextPlace(t) + Len(wire[t]) + i - 1
  <2> TAKE i \in 1..Len(b)
  <2>1. CASE i \in 1..Len(buffer[t])
      BY <1>1, <1>2, <2>1 DEF InPlace
  <2>2. CASE i = Len(b)
      BY <1>2, <1>3, <1>4, <1>5, <2>2
  <2> QED
      BY <1>2, <1>3, <2>1, <2>2
<1>7. NextPlace(t)' = NextPlace(t) /\ Receiving(t)'
    BY <1>1 DEF NextPlace, InPlace, Receiving, Fresh, Midway, Ended, WholeFile
<1>8. CASE More(t, n)
  <2>1. /\ buffer' = [buffer EXCEPT ![t] = b]
        /\ phase' = [phase EXCEPT ![t] = IF TooFull(b) THEN "paused" ELSE "reading"]
        /\ offset' = [offset EXCEPT ![t] = n]
      BY <1>8 DEF Proceed, Goto
  <2>2. StreamTypes'
      BY <1>2, <2>1 DEF StreamInv, StreamTypes
  <2>3. phase'[t] \in {"reading", "paused"} /\ offset'[t] = n /\ buffer'[t] = b
      BY <2>1 DEF StreamInv, StreamTypes
  <2>4. SentPlace(t)' = n + 1 /\ n < Size[t]
      BY <1>8, <2>3 DEF SentPlace, Begun, More
  <2>5. InPlace(t)'
    <3>1. \A i \in 1..Len(buffer'[t]) :
              Place(t, buffer'[t][i]) = NextPlace(t)' + Len(wire'[t]) + i - 1
        BY <1>6, <1>7, <2>3
    <3>2. SentPlace(t)' = NextPlace(t)' + Len(wire'[t]) + Len(buffer'[t])
        BY <1>2, <1>3, <1>4, <1>7, <2>3, <2>4
    <3>3. NextPlace(t)' + Len(wire'[t]) + Len(buffer'[t]) <= Size[t] + 2
        BY <1>0, <2>4, <3>2
    <3> QED
        BY <1>1, <1>7, <2>3, <2>4, <3>1, <3>2, <3>3 DEF InPlace, Place
  <2>6. ASSUME NEW u \in Transfer, u # t PROVE InPlace(u)'
      BY <2>1, <2>6, OthersKept DEF StreamInv, StreamTypes
  <2> QED
      BY <2>2, <2>5, <2>6 DEF StreamInv
<1>9. CASE ~More(t, n)
  <2> DEFINE e == Append(b, End)
  <2>1. /\ buffer' = [buffer EXCEPT ![t] = e]
        /\ phase' = [phase EXCEPT ![t] = "flushing"]
        /\ offset' = [offset EXCEPT ![t] = n]
      BY <1>9 DEF Proceed, Goto
  <2>2. End \in Int /\ Place(t, End) = Size[t] + 1 /\ n = Size[t]
      BY <1>0, <1>9 DEF Place, End, More
  <2>3. /\ e \in Seq(Int) /\ Len(e) = Len(b) + 1 /\ e[Len(e)] = End
        /\ \A i \in 1..Len(b) : e[i] = b[i]
      BY <1>2, <2>2
  <2>4. \A i \in 1..Len(e) : Place(t, e[i]) = NextPlace(t) + Len(wire[t]) + i - 1
    <3> TAKE i \in 1..Len(e)
    <3>1. CASE i \in 1..Len(b)
        BY <1>6, <2>3, <3>1
    <3>2. CASE i = Len(e)
        BY <1>2, <1>3, <1>4, <2>2, <2>3, <3>2
    <3> QED
        BY <1>2, <1>3, <2>3, <3>1, <3>2
  <2>5. StreamTypes'
      BY <2>1, <2>3 DEF StreamInv, StreamTypes
  <2>6. phase'[t] = "flushing" /\ offset'[t] = n /\ buffer'[t] = e
      BY <2>1 DEF StreamInv, StreamTypes
  <2>7. SentPlace(t)' = Size[t] + 2
      BY <2>6 DEF SentPlace, Begun
  <2>8. InPlace(t)'
    <3>1. \A i \in 1..Len(buffer'[t]) :
              Place(t, buffer'[t][i]) = NextPlace(t)' + Len(wire'[t]) + i - 1
        BY <1>7, <2>4, <2>6
    <3>2. SentPlace(t)' = NextPlace(t)' + Len(wire'[t]) + Len(buffer'[t])
      <4>1. Len(buffer'[t]) = Len(buffer[t]) + 2
          BY <1>2, <1>3, <2>3, <2>6
      <4>2. NextPlace(t)' + Len(wire'[t]) = NextPlace(t) + Len(wire[t])
          BY <1>7
      <4>3. SentPlace(t)' = n + 2
          BY <2>2, <2>7
      <4> HIDE DEF e, b
      <4> QED
          BY <1>3, <1>4, <4>1, <4>2, <4>3
    <3>3. NextPlace(t)' + Len(wire'[t]) + Len(buffer'[t]) <= Size[t] + 2
        BY <1>0, <2>7, <3>2
    <3> QED
        BY <1>1, <1>7, <2>6, <3>1, <3>2, <3>3 DEF InPlace, Place
  <2>9. ASSUME NEW u \in Transfer, u # t PROVE InPlace(u)'
      BY <2>1, <2>9, OthersKept DEF StreamInv, StreamTypes
  <2> QED
      BY <2>5, <2>8, <2>9 DEF StreamInv
<1> QED
    BY <1>8, <1>9

\* What a sender that is unaware of the break adds, nobody hears.
LEMMA ProceedUnheard ==
    ASSUME StreamInv, NEW t \in Transfer, NEW n \in Nat, NEW b \in Seq(Int),
           n <= Size[t], broken, Proceed(t, n, b),
           UNCHANGED <<wire, broken, receiverVars>>
    PROVE  StreamInv'
<1>1. Append(b, End) \in Seq(Int) /\ Size[t] \in Nat
    BY FileTransferAssumption DEF End
<1>2. /\ offset' = [offset EXCEPT ![t] = n]
      /\ \E e \in Seq(Int) : buffer' = [buffer EXCEPT ![t] = e]
      /\ \E p \in {"reading", "paused", "flushing"} :
            /\ phase' = [phase EXCEPT ![t] = p]
            /\ p \in {"reading", "paused"} => n < Size[t]
    BY <1>1 DEF Proceed, Goto, More
<1>3. StreamTypes'
    BY <1>2 DEF StreamInv, StreamTypes
<1>4. InPlace(t)'
    BY <1>2 DEF StreamInv, StreamTypes, InPlace, Receiving, Fresh, Midway, Ended,
                WholeFile
<1>5. ASSUME NEW u \in Transfer, u # t PROVE InPlace(u)'
    BY <1>2, <1>5, OthersKept DEF StreamInv, StreamTypes
<1> QED
    BY <1>3, <1>4, <1>5 DEF StreamInv

LEMMA StreamSender ==
    ASSUME StreamInv, NEW t \in Transfer,
           \/ SendFile(t) \/ OnOpen(t) \/ ChunkRead(t) \/ ReadFails(t)
           \/ CloseChannel(t)
    PROVE  StreamInv'
<1>0. Size[t] \in Nat /\ InPlace(t) /\ StreamTypes
    BY FileTransferAssumption DEF StreamInv
<1>00. /\ buffer[t] \in Seq(Int) /\ wire[t] \in Seq(Int)
       /\ Len(buffer[t]) \in Nat /\ Len(wire[t]) \in Nat
       /\ NextPlace(t) \in Nat /\ offset[t] \in Nat
    BY <1>0 DEF StreamTypes, NextPlace
<1>1. ASSUME NEW p \in {"opening", "refused", "failed", "done"},
             phase' = [phase EXCEPT ![t] = p],
             p \in {"opening", "refused"} => ~Begun(t),
             p = "done" => phase[t] = "flushing",
             UNCHANGED <<offset, buffer, wire, broken, receiverVars>>
      PROVE  StreamInv'
  <2>1. StreamTypes'
      BY <1>0, <1>1 DEF StreamTypes
  <2>2. phase'[t] = p
      BY <1>0, <1>1 DEF StreamTypes
  <2>3. InPlace(t)'
      BY <1>0, <1>1, <2>2
      DEF InPlace, Receiving, Fresh, Midway, Ended, WholeFile, NextPlace, SentPlace,
          Begun, Place
  <2>4. ASSUME NEW u \in Transfer, u # t PROVE InPlace(u)'
      BY <1>0, <1>1, <2>4, OthersKept DEF StreamInv, StreamTypes
  <2> QED
      BY <2>1, <2>3, <2>4 DEF StreamInv
<1>2. CASE SendFile(t)
    BY <1>1, <1>2 DEF SendFile, Goto, Begun
<1>3. CASE OnOpen(t)
  <2>1. SentPlace(t) = 0 /\ ~broken
      BY <1>3 DEF OnOpen, SentPlace, Begun
  <2>2. Len(buffer[t]) = 0
      BY <1>0, <1>00, <1>3, <2>1 DEF InPlace, OnOpen
  <2>3. <<Meta>> = Append(buffer[t], 0)
      BY <1>00, <2>2 DEF Meta
  <2>4. Proceed(t, 0, <<Meta>>) /\ phase[t] # "failed"
      BY <1>3 DEF OnOpen
  <2>5. Proceed(t, 0, Append(buffer[t], 0))
      BY <2>3, <2>4, Zenon
  <2>6. UNCHANGED <<wire, broken, receiverVars>>
      BY <1>3 DEF OnOpen
  <2>7. 0 <= Size[t] /\ 0 \in Nat /\ 0 \in Int
      BY <1>0
  <2> QED
      BY <2>1, <2>4, <2>5, <2>6, <2>7, ProceedInPlace
<1>4. CASE ChunkRead(t) /\ readyState[t] = "open"
  <2> DEFINE n == offset[t] + 1
  <2>1. n \in Nat /\ n \in Int /\ n <= Size[t] /\ phase[t] = "reading"
      BY <1>0, <1>00, <1>4 DEF ChunkRead, InPlace
  <2>2. Append(buffer[t], n) \in Seq(Int) /\ SentPlace(t) = n
      BY <1>00, <2>1 DEF SentPlace, Begun
  <2>3. /\ Proceed(t, n, Append(buffer[t], n))
        /\ UNCHANGED <<wire, broken, receiverVars>>
      BY <1>4 DEF ChunkRead
  <2>4. CASE broken
      BY <2>1, <2>2, <2>3, <2>4, ProceedUnheard
  <2>5. CASE ~broken
      BY <2>1, <2>2, <2>3, <2>5, ProceedInPlace
  <2> QED
      BY <2>4, <2>5
<1>5. CASE ChunkRead(t) /\ readyState[t] # "open"
    BY <1>1, <1>5 DEF ChunkRead, Goto
<1>6. CASE ReadFails(t)
    BY <1>1, <1>6 DEF ReadFails, Goto
<1>7. CASE CloseChannel(t)
    BY <1>1, <1>7 DEF CloseChannel, Goto
<1> QED
    BY <1>2, <1>3, <1>4, <1>5, <1>6, <1>7

LEMMA StreamChannel ==
    ASSUME StreamInv,
           \/ \E t \in Transfer : Drain(t) \/ Closed(t)
           \/ Break \/ SenderClosesPeer \/ TransportEnds
    PROVE  StreamInv'
<1>1. ASSUME NEW t \in Transfer, Drain(t) PROVE StreamInv'
  <2> DEFINE m == Head(buffer[t])
  <2>1. /\ buffer[t] \in Seq(Int) /\ buffer[t] # <<>> /\ wire[t] \in Seq(Int)
        /\ chunks[t] \in Seq(Nat) /\ Size[t] \in Nat /\ InPlace(t) /\ ~broken
      BY <1>1, FileTransferAssumption DEF StreamInv, StreamTypes, Drain
  <2>2. /\ buffer' = [buffer EXCEPT ![t] = Tail(buffer[t])]
        /\ wire' = [wire EXCEPT ![t] = Append(wire[t], m)]
        /\ phase' = [phase EXCEPT ![t] =
                         IF phase[t] = "paused" /\ FallsLow(buffer[t])
                         THEN "reading" ELSE phase[t]]
        /\ UNCHANGED <<offset, broken, receiverVars>>
      BY <1>1 DEF Drain, Goto
  <2>3. /\ m \in Int /\ m = buffer[t][1]
        /\ Tail(buffer[t]) \in Seq(Int) /\ Append(wire[t], m) \in Seq(Int)
        /\ Len(buffer[t]) \in Nat /\ Len(buffer[t]) >= 1 /\ Len(wire[t]) \in Nat
        /\ Len(Tail(buffer[t])) = Len(buffer[t]) - 1
        /\ \A i \in 1..Len(Tail(buffer[t])) : Tail(buffer[t])[i] = buffer[t][i + 1]
        /\ Len(Append(wire[t], m)) = Len(wire[t]) + 1
        /\ Append(wire[t], m)[Len(wire[t]) + 1] = m
        /\ \A i \in 1..Len(wire[t]) : Append(wire[t], m)[i] = wire[t][i]
      BY <2>1
  <2>4. StreamTypes'
      BY <2>2, <2>3 DEF StreamInv, StreamTypes
  <2>5a. /\ phase \in [Transfer -> {"new", "opening", "reading", "paused",
                                     "flushing", "done", "failed", "refused"}]
         /\ buffer \in [Transfer -> Seq(Int)] /\ wire \in [Transfer -> Seq(Int)]
      BY DEF StreamInv, StreamTypes
  <2>5. /\ buffer'[t] = Tail(buffer[t]) /\ wire'[t] = Append(wire[t], m)
        /\ \/ phase'[t] = phase[t]
           \/ phase[t] = "paused" /\ phase'[t] = "reading"
    <3> HIDE DEF m
    <3> QED
        BY <2>2, <2>5a
  <2>6a. SentPlace(t)' = SentPlace(t)
      BY <2>2, <2>5 DEF SentPlace, Begun
  <2>6b. NextPlace(t)' = NextPlace(t) /\ NextPlace(t) \in Nat
      BY <2>1, <2>2 DEF NextPlace
  <2>6c. Receiving(t)'
      BY <2>1, <2>2 DEF InPlace, Receiving, Fresh, Midway, Ended, WholeFile
  <2>6. /\ NextPlace(t)' = NextPlace(t) /\ NextPlace(t) \in Nat
        /\ Receiving(t)' /\ SentPlace(t)' = SentPlace(t)
      BY <2>6a, <2>6b, <2>6c
  <2>7. \A i \in 1..Len(wire'[t]) : Place(t, wire'[t][i]) = NextPlace(t)' + i - 1
    <3> TAKE i \in 1..Len(wire'[t])
    <3>1. CASE i \in 1..Len(wire[t])
        BY <2>1, <2>3, <2>5, <2>6, <3>1 DEF InPlace
    <3>2. CASE i = Len(wire[t]) + 1
      <4>1. Place(t, m) = NextPlace(t) + Len(wire[t]) + 1 - 1
          BY <2>1, <2>3 DEF InPlace
      <4> QED
          BY <2>3, <2>5, <2>6, <3>2, <4>1
    <3> QED
        BY <2>3, <2>5, <3>1, <3>2
  <2>8. \A i \in 1..Len(buffer'[t]) :
            Place(t, buffer'[t][i]) = NextPlace(t)' + Len(wire'[t]) + i - 1
    <3> TAKE i \in 1..Len(buffer'[t])
    <3>1. i + 1 \in 1..Len(buffer[t]) /\ buffer'[t][i] = buffer[t][i + 1]
        BY <2>3, <2>5
    <3>2. Place(t, buffer[t][i + 1]) = NextPlace(t) + Len(wire[t]) + (i + 1) - 1
        BY <2>1, <3>1 DEF InPlace
    <3> QED
        BY <2>3, <2>5, <2>6, <3>1, <3>2
  <2>9. phase'[t] # "failed" =>
            SentPlace(t)' = NextPlace(t)' + Len(wire'[t]) + Len(buffer'[t])
      BY <2>1, <2>3, <2>5, <2>6 DEF InPlace
  <2>10. InPlace(t)'
    <3>1. NextPlace(t)' + Len(wire'[t]) + Len(buffer'[t]) <= Size[t] + 2
        BY <2>1, <2>3, <2>5, <2>6 DEF InPlace
    <3> QED
        BY <2>1, <2>2, <2>5, <2>6, <2>7, <2>8, <2>9, <3>1 DEF InPlace, Place
  <2>11. ASSUME NEW u \in Transfer, u # t PROVE InPlace(u)'
      BY <2>2, <2>11, OthersKept DEF StreamInv, StreamTypes
  <2> QED
      BY <2>4, <2>10, <2>11 DEF StreamInv
<1>2. ASSUME NEW t \in Transfer, Closed(t) PROVE StreamInv'
  <2>1. UNCHANGED <<phase, offset, buffer, wire, broken, receiverVars>>
      BY <1>2 DEF Closed
  <2>2. \A u \in Transfer : InPlace(u)'
      BY <2>1, OthersKept DEF StreamInv
  <2> QED
      BY <2>1, <2>2 DEF StreamInv, StreamTypes
<1>3. CASE Break \/ SenderClosesPeer \/ TransportEnds
  <2>1. /\ UNCHANGED <<phase, offset, buffer, receiverVars>>
        /\ broken' = TRUE /\ wire' = [t \in Transfer |-> <<>>]
      BY <1>3 DEF Break, SenderClosesPeer, TransportEnds, CloseChannels
  <2>2. StreamTypes'
      BY <2>1 DEF StreamInv, StreamTypes
  <2>3. ASSUME NEW u \in Transfer PROVE InPlace(u)'
      BY <2>1, <2>3
      DEF StreamInv, InPlace, Receiving, Fresh, Midway, Ended, WholeFile
  <2> QED
      BY <2>2, <2>3 DEF StreamInv
<1> QED
    BY <1>1, <1>2, <1>3

\* What the receiver takes off the wire is the message it is to see next.
LEMMA ArrivalIsNext ==
    ASSUME StreamInv, NEW t \in Transfer, OnWire(t)
    PROVE  /\ ~broken
           /\ Place(t, Head(wire[t])) = NextPlace(t)
           /\ Tail(wire[t]) \in Seq(Int)
           /\ Len(Tail(wire[t])) = Len(wire[t]) - 1 /\ Len(wire[t]) \in Nat
           /\ \A i \in 1..Len(Tail(wire[t])) :
                  Place(t, Tail(wire[t])[i]) = NextPlace(t) + 1 + i - 1
<1>1. wire[t] \in Seq(Int) /\ wire[t] # <<>> /\ ~broken /\ InPlace(t)
    BY DEF StreamInv, StreamTypes, OnWire, InPlace
<1>2. /\ Head(wire[t]) = wire[t][1] /\ Len(wire[t]) \in Nat /\ Len(wire[t]) >= 1
      /\ Tail(wire[t]) \in Seq(Int) /\ Len(Tail(wire[t])) = Len(wire[t]) - 1
      /\ \A i \in 1..Len(Tail(wire[t])) : Tail(wire[t])[i] = wire[t][i + 1]
    BY <1>1
<1>3. NextPlace(t) \in Nat
    BY FileTransferAssumption DEF StreamInv, StreamTypes, NextPlace
<1>4. Place(t, Head(wire[t])) = NextPlace(t)
  <2>1. Place(t, wire[t][1]) = NextPlace(t) + 1 - 1
      BY <1>1, <1>2 DEF InPlace
  <2> QED
      BY <1>2, <1>3, <2>1
<1>5. ASSUME NEW i \in 1..Len(Tail(wire[t]))
      PROVE  Place(t, Tail(wire[t])[i]) = NextPlace(t) + 1 + i - 1
  <2>1. i + 1 \in 1..Len(wire[t])
      BY <1>2
  <2>2. Place(t, wire[t][i + 1]) = NextPlace(t) + (i + 1) - 1
      BY <1>1, <2>1 DEF InPlace
  <2> QED
      BY <1>2, <1>3, <2>2
<1> QED
    BY <1>1, <1>2, <1>3, <1>4, <1>5

\* A receiver that has moved one place on leaves the stream in order.
LEMMA ReceiverMoves ==
    ASSUME StreamInv, NEW t \in Transfer, OnWire(t), Consume(t), StreamTypes',
           Receiving(t)', NextPlace(t)' = NextPlace(t) + 1,
           UNCHANGED broken,
           \A u \in Transfer \ {t} :
               /\ meta'[u] = meta[u] /\ chunks'[u] = chunks[u]
               /\ received'[u] = received[u]
    PROVE  StreamInv'
<1>1. /\ UNCHANGED <<phase, offset, buffer>>
      /\ wire' = [wire EXCEPT ![t] = Tail(wire[t])]
      /\ InPlace(t) /\ wire'[t] = Tail(wire[t])
    BY DEF Consume, StreamInv, StreamTypes
<1>2. NextPlace(t) \in Nat /\ Len(buffer[t]) \in Nat
  <2>1. buffer[t] \in Seq(Int) /\ Size[t] \in Nat /\ Len(chunks[t]) \in Nat
      BY FileTransferAssumption DEF StreamInv, StreamTypes
  <2> QED
      BY <2>1 DEF NextPlace
<1>3. \A i \in 1..Len(wire'[t]) : Place(t, wire'[t][i]) = NextPlace(t)' + i - 1
    BY <1>1, ArrivalIsNext
<1>4. /\ NextPlace(t)' + Len(wire'[t]) = NextPlace(t) + Len(wire[t])
      /\ Len(wire[t]) \in Nat
  <2>1. Len(wire'[t]) = Len(wire[t]) - 1 /\ Len(wire[t]) \in Nat
      BY <1>1, ArrivalIsNext
  <2>2. NextPlace(t)' = NextPlace(t) + 1
      OBVIOUS
  <2> QED
      BY <1>2, <2>1, <2>2
<1>5. \A i \in 1..Len(buffer'[t]) :
          Place(t, buffer'[t][i]) = NextPlace(t)' + Len(wire'[t]) + i - 1
  <2> TAKE i \in 1..Len(buffer'[t])
  <2>1. Place(t, buffer[t][i]) = NextPlace(t) + Len(wire[t]) + i - 1
      BY <1>1, ArrivalIsNext DEF InPlace
  <2> QED
      BY <1>1, <1>2, <1>4, <2>1
<1>6. phase'[t] # "failed" =>
          SentPlace(t)' = NextPlace(t)' + Len(wire'[t]) + Len(buffer'[t])
  <2>1. SentPlace(t)' = SentPlace(t)
      BY <1>1 DEF SentPlace, Begun
  <2>2. phase[t] # "failed" =>
            SentPlace(t) = NextPlace(t) + Len(wire[t]) + Len(buffer[t])
      BY <1>1, ArrivalIsNext DEF InPlace
  <2> QED
      BY <1>1, <1>2, <1>4, <2>1, <2>2
<1>7. InPlace(t)'
  <2>1. NextPlace(t)' + Len(wire'[t]) + Len(buffer'[t]) <= Size[t] + 2
      BY <1>1, <1>2, <1>4, ArrivalIsNext DEF InPlace
  <2> QED
      BY <1>1, <1>3, <1>5, <1>6, <2>1, ArrivalIsNext DEF InPlace, Place
<1>8. ASSUME NEW u \in Transfer, u # t PROVE InPlace(u)'
    BY <1>1, <1>8, OthersKept DEF StreamInv, StreamTypes
<1> QED
    BY <1>7, <1>8 DEF StreamInv

LEMMA StreamReceiver ==
    ASSUME StreamInv, NEW t \in Transfer, OnMessage(t)
    PROVE  StreamInv'
<1> DEFINE m == Head(wire[t])
<1>1. /\ OnWire(t) /\ Consume(t) /\ UNCHANGED <<phase, offset, buffer, broken>>
      /\ wire' = [wire EXCEPT ![t] = Tail(wire[t])]
    BY DEF OnMessage, OnMeta, OnChunk, OnEnd, Consume
<1>2. /\ StreamTypes /\ Receiving(t) /\ Size[t] \in Nat
      /\ chunks[t] \in Seq(Nat) /\ Len(chunks[t]) \in Nat
      /\ meta[t] \in BOOLEAN /\ received[t] \in Seq(Seq(Nat))
    BY FileTransferAssumption DEF StreamInv, StreamTypes, InPlace
<1>3. Place(t, m) = NextPlace(t) /\ NextPlace(t) \in Nat /\ NextPlace(t) <= Size[t] + 1
  <2>1. NextPlace(t) \in Nat
      BY <1>2 DEF NextPlace
  <2>2. Len(wire[t]) \in Nat /\ Len(wire[t]) >= 1 /\ Len(buffer[t]) \in Nat
      BY <1>1 DEF StreamInv, StreamTypes, OnWire
  <2>3. NextPlace(t) + Len(wire[t]) + Len(buffer[t]) <= Size[t] + 2
      BY <1>1, ArrivalIsNext DEF StreamInv, InPlace
  <2> QED
      BY <1>1, <1>2, <2>1, <2>2, <2>3, ArrivalIsNext
<1>4. wire' \in [Transfer -> Seq(Int)]
    BY <1>1, <1>2, ArrivalIsNext DEF StreamTypes
<1>5. CASE OnMeta(t)
  <2>1. /\ meta' = [meta EXCEPT ![t] = TRUE]
        /\ chunks' = [chunks EXCEPT ![t] = <<>>]
        /\ received' = received /\ m = 0
      BY <1>5 DEF OnMeta, Meta
  <2>2. NextPlace(t) = 0 /\ received[t] = <<>>
      BY <1>2, <1>3, <2>1 DEF Place, End, NextPlace
  <2>3. meta'[t] = TRUE /\ chunks'[t] = <<>>
      BY <1>2, <2>1 DEF StreamTypes
  <2>4. StreamTypes'
      BY <1>1, <1>2, <1>4, <2>1 DEF StreamTypes
  <2>5. Receiving(t)' /\ NextPlace(t)' = NextPlace(t) + 1
      BY <2>1, <2>2, <2>3 DEF Receiving, Midway, NextPlace
  <2> QED
      BY <1>1, <2>1, <2>4, <2>5, ReceiverMoves DEF StreamInv, StreamTypes
<1>6. CASE OnChunk(t)
  <2>1. /\ chunks' = [chunks EXCEPT ![t] = Append(chunks[t], m)]
        /\ meta' = meta /\ received' = received /\ m > 0 /\ m \in Int
      BY <1>1, <1>6 DEF OnChunk, StreamInv, StreamTypes, OnWire
  <2>2. meta[t] /\ m = Len(chunks[t]) + 1
      BY <1>2, <1>3, <2>1 DEF Place, End, NextPlace
  <2>3. /\ Append(chunks[t], m) \in Seq(Nat)
        /\ Len(Append(chunks[t], m)) = Len(chunks[t]) + 1
        /\ \A i \in 1..Len(Append(chunks[t], m)) : Append(chunks[t], m)[i] = i
    <3>1. m \in Nat
        BY <2>1
    <3> HIDE DEF m
    <3>2. \A i \in 1..Len(chunks[t]) : chunks[t][i] = i
        BY <1>2 DEF Receiving
    <3> QED
        BY <1>2, <2>2, <3>1, <3>2
  <2>4. chunks'[t] = Append(chunks[t], m)
      BY <1>2, <2>1 DEF StreamTypes
  <2>5. StreamTypes'
      BY <1>1, <1>2, <1>4, <2>1, <2>3 DEF StreamTypes
  <2>6. Receiving(t)' /\ NextPlace(t)' = NextPlace(t) + 1
      BY <1>2, <2>1, <2>2, <2>3, <2>4
      DEF Receiving, Fresh, Midway, Ended, NextPlace
  <2> QED
      BY <1>1, <2>1, <2>5, <2>6, ReceiverMoves DEF StreamInv, StreamTypes
<1>7. CASE OnEnd(t)
  <2>1. m = End /\ NextPlace(t) = Size[t] + 1
      BY <1>3, <1>7 DEF OnEnd, Place
  <2>2. meta[t] /\ Len(chunks[t]) = Size[t] /\ received[t] = <<>>
      BY <1>2, <2>1 DEF NextPlace, Receiving, Fresh, Midway, Ended
  <2>3. chunks[t] = WholeFile(t)
      BY <1>2, <2>2 DEF Receiving, WholeFile
  <2>4. /\ meta' = [meta EXCEPT ![t] = FALSE]
        /\ chunks' = [chunks EXCEPT ![t] = <<>>]
        /\ received' = [received EXCEPT ![t] = <<chunks[t]>>]
      BY <1>7, <2>2 DEF OnEnd
  <2>5. StreamTypes'
    <3>1. <<chunks[t]>> \in Seq(Seq(Nat)) /\ <<>> \in Seq(Nat)
        BY <1>2
    <3> QED
        BY <1>1, <1>2, <1>4, <2>4, <3>1 DEF StreamTypes
  <2>6. meta'[t] = FALSE /\ chunks'[t] = <<>> /\ received'[t] = <<WholeFile(t)>>
      BY <1>2, <2>3, <2>4 DEF StreamTypes
  <2>7. Receiving(t)' /\ NextPlace(t)' = NextPlace(t) + 1
    <3>1. NextPlace(t)' = Size[t] + 2
        BY <2>6 DEF NextPlace
    <3>2. Receiving(t)'
        BY <2>6 DEF Receiving, Ended, WholeFile
    <3> QED
        BY <1>2, <2>1, <3>1, <3>2
  <2> QED
      BY <1>1, <2>4, <2>5, <2>7, ReceiverMoves DEF StreamInv, StreamTypes
<1> QED
    BY <1>5, <1>6, <1>7 DEF OnMessage

\* A file is shown as received once and whole, whatever breaks, fails or closes
\* while it is under way (filetransfer.js:108-134).
THEOREM WholeFilesOnly == TransferSpec => []OnlyWholeFiles
<1>1. StreamInv => OnlyWholeFiles
    BY DEF StreamInv, InPlace, Receiving, Fresh, Midway, Ended, OnlyWholeFiles
<1>2. ASSUME StreamInv, [TransferNext]_transferVars PROVE StreamInv'
  <2>1. CASE UNCHANGED transferVars
    <3>1. \A t \in Transfer : InPlace(t)'
        BY <1>2, <2>1, OthersKept DEF StreamInv, transferVars
    <3> QED
        BY <1>2, <2>1, <3>1 DEF StreamInv, StreamTypes, transferVars
  <2> QED
      BY <1>2, <2>1, StreamSender, StreamChannel, StreamReceiver DEF TransferNext
<1> QED
    BY <1>1, <1>2, StreamInit, PTL DEF TransferSpec

=============================================================================
