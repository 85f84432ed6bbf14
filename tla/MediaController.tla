-------------------------- MODULE MediaController ---------------------------
(***************************************************************************)
(* The media of one page: the controls of static/js/media-controller.js,   *)
(* the tracks and senders of static/js/webrtc.js behind them, the local    *)
(* tiles, and the tile that another member of the room has for this page.  *)
(*                                                                         *)
(* A browser may take any time to grant a capture, and the page goes on    *)
(* meanwhile: it takes clicks, leaves its room and joins another.  What it *)
(* does between two awaits is one step.  The negotiation that follows a    *)
(* change of senders (module PerfectNegotiation) is one step here, and a   *)
(* video_stopped message arrives in the step that sends it.                *)
(***************************************************************************)
EXTENDS Integers, SequencesExt

CONSTANTS
    Mic, Cam, Screen,  \* what the browser may capture, each at most once
    Sound,             \* the screens captured with their sound
    MaxAsks,           \* bound: captures asked for
    None               \* no capture

Capture == Mic \cup Cam \cup Screen

ASSUME MediaAssumption ==
    /\ Mic \cap Cam = {} /\ Mic \cap Screen = {} /\ Cam \cap Screen = {}
    /\ Sound \subseteq Screen
    /\ None \notin Capture
    /\ MaxAsks \in Nat

VARIABLES
    hasAudio, audioMuted, hasVideo, hasScreen,  \* the controls
    screenAutoStartedAudio,
    request,     \* of each capture: not asked for, being asked for, answered
    fallbackFor, \* the screen share that asked for the microphone
    live,        \* captures that run
    muted,       \* running microphones whose track is not enabled
    localStream, \* the captures whose tracks it has
    screenStream,
    micTrack,
    rnnoise,     \* the microphone whose track is processed
    enabling,    \* where enableRnnoise is
    unreplaced,  \* the replacements it has still to ask for
    inRoom,      \* the page shows a room
    peer,        \* there is a connection to the other member
    senders,     \* its senders, by the track they were made for: what they send
    chain,       \* replaceTrack operations the connection has not done yet
    onEnded,     \* running screens with a listener for their end
    tiles,       \* the local tiles
    announced,   \* the senders the other member's connection knows of
    remoteTile,  \* the other member shows a tile for this page
    strays,      \* history: asked for in a room view that is gone
    unnoticed,   \* history: screens that ended without a listener
    replaced,    \* history: shares that another one took the place of
    doubled,     \* history: two microphones have run at once
    mixed        \* history: noise suppression met other audio senders, or was
                 \* on, or just off, when the microphone was stopped

controls == <<hasAudio, audioMuted, hasVideo, hasScreen, screenAutoStartedAudio>>
requests == <<request, fallbackFor>>
captures == <<live, muted, localStream, screenStream, micTrack>>
noise    == <<rnnoise, enabling, unreplaced>>
link     == <<peer, senders, chain>>
shown    == <<tiles, onEnded>>
remote   == <<announced, remoteTile>>
history  == <<strays, unnoticed, replaced, doubled, mixed>>
vars == <<controls, requests, captures, noise, inRoom, link, shown, remote, history>>

Track == [of : Capture, kind : {"audio", "video", "processed"}]

\* replaceTrack of a sender.
Replacement == [sender : Track, track : Track]

NoSenders == [t \in {} |-> None]

TypeOK ==
    /\ {hasAudio, audioMuted, hasVideo, hasScreen, screenAutoStartedAudio,
        inRoom, peer, remoteTile, doubled, mixed} \subseteq BOOLEAN
    /\ request \in [Capture -> {"none", "asked", "answered"}]
    /\ fallbackFor \in [Mic -> Screen \cup {None}]
    /\ live \subseteq {c \in Capture : request[c] = "answered"}
    /\ muted \subseteq Mic
    /\ localStream \subseteq Mic \cup Cam
    /\ screenStream \in Screen \cup {None}
    /\ {micTrack, rnnoise} \subseteq Mic \cup {None}
    /\ enabling \in {"off", "loading", "replacing"}
    /\ DOMAIN senders \subseteq Track /\ Range(senders) \subseteq Track
    /\ unreplaced \subseteq Replacement
    /\ chain \in Seq(Replacement)
    /\ onEnded \subseteq Screen
    /\ tiles \subseteq {"local", "local-screen"}
    /\ announced \subseteq Track
    /\ strays \subseteq Capture
    /\ unnoticed \subseteq Screen /\ replaced \subseteq Screen

Init ==
    /\ hasAudio = FALSE /\ audioMuted = FALSE
    /\ hasVideo = FALSE /\ hasScreen = FALSE
    /\ screenAutoStartedAudio = FALSE
    /\ request = [c \in Capture |-> "none"]
    /\ fallbackFor = [m \in Mic |-> None]
    /\ live = {} /\ muted = {} /\ localStream = {}
    /\ screenStream = None /\ micTrack = None
    /\ rnnoise = None /\ enabling = "off" /\ unreplaced = {}
    /\ inRoom = FALSE
    /\ peer = FALSE /\ senders = NoSenders /\ chain = <<>>
    /\ onEnded = {} /\ tiles = {}
    /\ announced = {} /\ remoteTile = FALSE
    /\ strays = {} /\ unnoticed = {} /\ replaced = {}
    /\ doubled = FALSE /\ mixed = FALSE

-----------------------------------------------------------------------------
(* Tracks and senders *)

Audio(c) == [of |-> c, kind |-> "audio"]
Video(c) == [of |-> c, kind |-> "video"]

\* What RNNoise makes of a microphone's track.
Processed(m) == [of |-> m, kind |-> "processed"]

TracksOf(c) ==
    {Audio(d) : d \in {c} \cap (Mic \cup Sound)}
        \cup {Video(d) : d \in {c} \cap (Cam \cup Screen)}

IsAudio(t) == t.kind # "video"

\* What stands for the raw track of a microphone.
Outgoing(t) ==
    IF micTrack # None /\ rnnoise # None /\ t = Audio(micTrack)
    THEN Processed(rnnoise) ELSE t

\* What a new connection is given.
LocalTracks ==
    {Outgoing(t) : t \in UNION {TracksOf(c) : c \in localStream}}
        \cup TracksOf(screenStream)

\* addTrack, for the connection if there is one.
MutWithTracks(T) == senders
WithTracks(T) ==
    IF peer THEN [t \in DOMAIN senders \cup T |->
                     IF t \in DOMAIN senders THEN senders[t] ELSE t]
    ELSE senders

\* _removeSenderTrack: for each track one sender that sends it.
SendersOf(T) ==
    {CHOOSE s \in DOMAIN senders : senders[s] = t : t \in T \cap Range(senders)}

WithoutTracks(T) == Restrict(senders, DOMAIN senders \ SendersOf(T))

\* _hasActiveVideo, once the given captures are stopped.
MutActiveVideo(stopped) == (localStream \cap Cam \cap live) \ stopped # {}
ActiveVideo(stopped) ==
    ((localStream \cup {screenStream}) \cap (Cam \cup Screen) \cap live) \ stopped # {}

\* The tile at the other member, when the given captures are stopped and
\* video_stopped is sent unless other video runs.
TileAfter(stopped) == remoteTile /\ ActiveVideo(stopped)

-----------------------------------------------------------------------------
(* Rooms and members *)

\* closeAll: what stops with the room.
MutStopped == localStream
Stopped == localStream \cup {screenStream}

\* webrtc.closeAll and media.reset, and the video grid is emptied.
Reset ==
    /\ live' = live \ Stopped
    /\ localStream' = {} /\ screenStream' = None /\ micTrack' = None
    /\ rnnoise' = None
    /\ peer' = FALSE /\ senders' = NoSenders /\ chain' = <<>>
    /\ hasAudio' = FALSE /\ audioMuted' = FALSE
    /\ hasVideo' = FALSE /\ hasScreen' = FALSE
    /\ screenAutoStartedAudio' = FALSE
    /\ tiles' = {}
    /\ announced' = {} /\ remoteTile' = FALSE
    \* A replaceTrack of a closed connection fails, and enableRnnoise with it.
    /\ enabling' = IF enabling = "replacing" THEN "off" ELSE enabling
    /\ unreplaced' = {}
    /\ muted' = {} /\ onEnded' = onEnded \ Stopped
    /\ strays' = {c \in Capture : request[c] = "asked"}
    /\ replaced' = replaced \cap live'
    /\ unnoticed' = {} /\ doubled' = FALSE /\ mixed' = FALSE
    /\ UNCHANGED requests

\* room_joined.
EnterRoom ==
    /\ inRoom' = TRUE
    /\ Reset

\* _resetRoom: leaving, logging out, a refused session.
LeaveRoom ==
    /\ inRoom
    /\ inRoom' = FALSE
    /\ Reset

\* initiatePeer or handleOffer: _createPeer.
CreatePeer ==
    /\ inRoom /\ ~peer
    /\ peer' = TRUE
    /\ senders' = [t \in LocalTracks |-> t]
    /\ UNCHANGED <<controls, requests, captures, noise, inRoom, chain, shown,
                   remote, history>>

\* closePeer: the member leaves, or the connection fails.
ClosePeer ==
    /\ peer
    /\ peer' = FALSE /\ senders' = NoSenders /\ chain' = <<>>
    /\ announced' = {} /\ remoteTile' = FALSE
    /\ enabling' = IF enabling = "replacing" THEN "off" ELSE enabling
    /\ unreplaced' = {}
    /\ mixed' = FALSE
    /\ UNCHANGED <<controls, requests, captures, rnnoise, inRoom, shown, strays,
                   unnoticed, replaced, doubled>>

\* The negotiation is over: ontrack, and onRemoteStream adds the tile.
Negotiated ==
    /\ announced # DOMAIN senders
    /\ announced' = DOMAIN senders
    /\ remoteTile' = (remoteTile \/ ~(DOMAIN senders \subseteq announced))
    /\ UNCHANGED <<controls, requests, captures, noise, inRoom, link, shown,
                   history>>

-----------------------------------------------------------------------------
(* Asking for captures *)

Unasked(c) ==
    /\ request[c] = "none"
    /\ Cardinality({d \in Capture : request[d] # "none"}) < MaxAsks

Ask(c) == request' = [request EXCEPT ![c] = "asked"]

Answer(c) ==
    /\ request[c] = "asked"
    /\ request' = [request EXCEPT ![c] = "answered"]

ToggleAudioOn(m) ==
    /\ inRoom /\ ~hasAudio /\ Unasked(m)
    /\ Ask(m)
    /\ UNCHANGED <<controls, fallbackFor, captures, noise, inRoom, link, shown,
                   remote, history>>

ToggleVideoOn(v) ==
    /\ inRoom /\ ~hasVideo /\ Unasked(v)
    /\ Ask(v)
    /\ UNCHANGED <<controls, fallbackFor, captures, noise, inRoom, link, shown,
                   remote, history>>

ToggleScreenOn(s) ==
    /\ inRoom /\ ~hasScreen /\ Unasked(s)
    /\ Ask(s)
    /\ UNCHANGED <<controls, fallbackFor, captures, noise, inRoom, link, shown,
                   remote, history>>

\* A toast, and nothing else.
Denied(c) ==
    /\ Answer(c)
    /\ c \in Mic => fallbackFor[c] = None
    /\ UNCHANGED <<controls, fallbackFor, captures, noise, inRoom, link, shown,
                   remote, history>>

\* startAudio, and the controls.
AudioStarts(m) ==
    /\ live' = live \cup {m}
    /\ localStream' = localStream \cup {m}
    /\ micTrack' = m
    /\ senders' = WithTracks(TracksOf(m))
    /\ hasAudio' = TRUE
    /\ audioMuted' = FALSE
    /\ doubled' = (doubled \/ live \cap Mic # {})
    /\ UNCHANGED <<hasVideo, hasScreen, muted, screenStream, noise, inRoom, peer,
                   chain, tiles, remote, strays, unnoticed, replaced, mixed>>

AudioGranted(m) ==
    /\ Answer(m)
    /\ fallbackFor[m] = None
    /\ AudioStarts(m)
    /\ UNCHANGED <<screenAutoStartedAudio, fallbackFor, onEnded>>

VideoGranted(v) ==
    /\ Answer(v)
    /\ live' = live \cup {v}
    /\ localStream' = localStream \cup {v}
    /\ senders' = WithTracks(TracksOf(v))
    /\ hasVideo' = TRUE
    /\ tiles' = tiles \cup {"local"}
    /\ UNCHANGED <<hasAudio, audioMuted, hasScreen, screenAutoStartedAudio,
                   fallbackFor, muted, screenStream, micTrack, noise, inRoom,
                   peer, chain, onEnded, remote, history>>

\* The share starts.  Without sound, and without a microphone, it asks for one
\* before it listens for its end.
ScreenGranted(s) ==
    /\ request[s] = "asked"
    /\ live' = live \cup {s}
    /\ screenStream' = s
    /\ replaced' = replaced \cup ({screenStream} \ {None})
    /\ senders' = WithTracks(TracksOf(s))
    /\ hasScreen' = TRUE
    /\ tiles' = tiles \cup {"local-screen"}
    /\ IF s \in Sound \/ hasAudio
       THEN /\ Answer(s)
            /\ onEnded' = onEnded \cup {s}
            /\ UNCHANGED <<fallbackFor, strays>>
       ELSE /\ \E m \in Mic :
                  /\ Unasked(m)
                  /\ request' = [request EXCEPT ![s] = "answered", ![m] = "asked"]
                  /\ fallbackFor' = [fallbackFor EXCEPT ![m] = s]
                  /\ strays' = IF s \in strays THEN strays \cup {m} ELSE strays
            /\ UNCHANGED onEnded
    /\ UNCHANGED <<hasAudio, audioMuted, hasVideo, screenAutoStartedAudio, muted,
                   localStream, micTrack, noise, inRoom, peer, chain, remote,
                   unnoticed, doubled, mixed>>

\* _startFallbackAudio; the share goes on.
FallbackGranted(m) ==
    /\ Answer(m)
    /\ fallbackFor[m] # None
    /\ AudioStarts(m)
    /\ screenAutoStartedAudio' = TRUE
    /\ onEnded' = onEnded \cup {fallbackFor[m]}
    /\ fallbackFor' = [fallbackFor EXCEPT ![m] = None]

FallbackDenied(m) ==
    /\ Answer(m)
    /\ fallbackFor[m] # None
    /\ onEnded' = onEnded \cup {fallbackFor[m]}
    /\ fallbackFor' = [fallbackFor EXCEPT ![m] = None]
    /\ UNCHANGED <<controls, captures, noise, inRoom, link, tiles, remote, history>>

-----------------------------------------------------------------------------
(* Muting and stopping *)

\* The track is flipped, whatever the control says; the control follows it.
MutMuteTarget == IF rnnoise = None THEN micTrack ELSE None
MuteTarget == micTrack

ToggleMute ==
    /\ inRoom /\ hasAudio
    /\ IF MuteTarget \in muted
       THEN muted' = muted \ {MuteTarget} /\ audioMuted' = FALSE
       ELSE muted' = muted \cup {MuteTarget} /\ audioMuted' = TRUE
    /\ UNCHANGED <<hasAudio, hasVideo, hasScreen, screenAutoStartedAudio, requests,
                   live, localStream, screenStream, micTrack, noise, inRoom, link,
                   shown, remote, history>>

ToggleVideoOff ==
    LET cams == localStream \cap Cam IN
    /\ inRoom /\ hasVideo
    /\ live' = live \ cams
    /\ localStream' = localStream \ cams
    /\ senders' = WithoutTracks({Video(v) : v \in cams})
    /\ remoteTile' = TileAfter(cams)
    /\ hasVideo' = FALSE
    /\ tiles' = tiles \ {"local"}
    /\ UNCHANGED <<hasAudio, audioMuted, hasScreen, screenAutoStartedAudio, requests,
                   muted, screenStream, micTrack, noise, inRoom, peer, chain,
                   onEnded, announced, history>>

\* The operations by which disableRnnoise gives the raw track back.
Restorations ==
    {[sender |-> s, track |-> Audio(micTrack)] :
        s \in {t \in DOMAIN senders : rnnoise # None /\ senders[t] = Processed(rnnoise)}}

\* Nobody awaits them.  Which one is chained first makes no difference.
Chained(ops) == chain \o SetToSeq(ops)

\* The microphones that stop with a share.
MutShareMics == localStream \cap Mic
ShareMics == IF screenAutoStartedAudio THEN localStream \cap Mic ELSE {}

\* _stopScreenShare: with the share stops the microphone it started.  What of
\* the microphone's senders still has the processed track is not found.
StopScreenShare(ended) ==
    /\ live' = live \ ({screenStream} \cup ShareMics \cup ended)
    /\ localStream' = localStream \ ShareMics
    /\ muted' = muted \ ShareMics
    /\ onEnded' = onEnded \ ({screenStream} \cup ended)
    /\ screenStream' = None
    /\ senders' = WithoutTracks(TracksOf(screenStream)
                                   \cup {Audio(m) : m \in ShareMics})
    /\ remoteTile' = IF screenStream = None THEN remoteTile
                     ELSE TileAfter({screenStream} \cup ended)
    /\ hasScreen' = FALSE
    /\ tiles' = tiles \ {"local-screen"}
    /\ IF screenAutoStartedAudio
       THEN /\ micTrack' = None
            /\ rnnoise' = None
            /\ chain' = Chained(Restorations)
            /\ mixed' = (mixed \/ rnnoise # None \/ chain # <<>>)
            /\ hasAudio' = FALSE /\ audioMuted' = FALSE
            /\ screenAutoStartedAudio' = FALSE
       ELSE UNCHANGED <<micTrack, rnnoise, chain, mixed, hasAudio, audioMuted,
                        screenAutoStartedAudio>>
    /\ UNCHANGED <<hasVideo, requests, enabling, unreplaced, inRoom, peer,
                   announced, strays, replaced, doubled>>

ToggleScreenOff ==
    /\ inRoom /\ hasScreen
    /\ StopScreenShare({})
    /\ UNCHANGED unnoticed

\* The user ends the capture in the browser.
ScreenEnds(s) ==
    /\ s \in live \cap Screen
    /\ s \in onEnded
    /\ StopScreenShare({s})
    /\ UNCHANGED unnoticed

ScreenEndsUnnoticed(s) ==
    /\ s \in live \cap Screen
    /\ s \notin onEnded
    /\ live' = live \ {s}
    /\ unnoticed' = unnoticed \cup {s}
    /\ UNCHANGED <<controls, requests, muted, localStream, screenStream, micTrack,
                   noise, inRoom, link, shown, remote, strays, replaced,
                   doubled, mixed>>

-----------------------------------------------------------------------------
(* Noise suppression *)

\* The button is disabled while enableRnnoise runs.
ToggleNoiseSuppression ==
    /\ inRoom /\ hasAudio /\ enabling = "off"
    /\ IF rnnoise # None
       THEN /\ chain' = Chained(Restorations)
            /\ rnnoise' = None
            /\ UNCHANGED enabling
       ELSE /\ enabling' = "loading"
            /\ UNCHANGED <<chain, rnnoise>>
    /\ UNCHANGED <<controls, requests, captures, unreplaced, inRoom, peer, senders,
                   shown, remote, history>>

AudioSenders == {s \in DOMAIN senders : IsAudio(senders[s])}

\* Worklet and module are there.  The microphone may be gone, or be another one.
RnnoiseLoaded ==
    /\ enabling = "loading"
    /\ IF micTrack = None
       THEN enabling' = "off" /\ UNCHANGED <<rnnoise, unreplaced, mixed>>
       ELSE /\ rnnoise' = micTrack
            /\ unreplaced' = [sender : AudioSenders, track : {Processed(micTrack)}]
            /\ enabling' = "replacing"
            /\ mixed' = (mixed \/ \E s \in AudioSenders : senders[s] # Audio(micTrack))
    /\ UNCHANGED <<controls, requests, captures, inRoom, link, shown, remote,
                   strays, unnoticed, replaced, doubled>>

RnnoiseFails ==
    /\ enabling = "loading"
    /\ enabling' = "off"
    /\ UNCHANGED <<controls, requests, captures, rnnoise, unreplaced, inRoom, link,
                   shown, remote, history>>

\* One sender after the other is awaited.
ReplaceNext ==
    /\ enabling = "replacing" /\ chain = <<>>
    /\ \/ /\ unreplaced = {}
          /\ enabling' = "off"
          /\ UNCHANGED <<unreplaced, chain>>
       \/ \E op \in unreplaced :
             /\ unreplaced' = unreplaced \ {op}
             /\ chain' = Append(chain, op)
             /\ UNCHANGED enabling
    /\ UNCHANGED <<controls, requests, captures, rnnoise, inRoom, peer, senders,
                   shown, remote, history>>

\* The connection does the first replaceTrack; of a removed sender nobody sees it.
Replaced ==
    /\ chain # <<>>
    /\ senders' = IF Head(chain).sender \in DOMAIN senders
                  THEN [senders EXCEPT ![Head(chain).sender] = Head(chain).track]
                  ELSE senders
    /\ chain' = Tail(chain)
    /\ UNCHANGED <<controls, requests, captures, noise, inRoom, peer, shown, remote,
                   history>>

-----------------------------------------------------------------------------
Next ==
    \/ EnterRoom \/ LeaveRoom
    \/ CreatePeer \/ ClosePeer \/ Negotiated
    \/ \E m \in Mic :
          \/ ToggleAudioOn(m) \/ AudioGranted(m)
          \/ FallbackGranted(m) \/ FallbackDenied(m)
    \/ \E v \in Cam : ToggleVideoOn(v) \/ VideoGranted(v)
    \/ \E s \in Screen :
          \/ ToggleScreenOn(s) \/ ScreenGranted(s)
          \/ ScreenEnds(s) \/ ScreenEndsUnnoticed(s)
    \/ \E c \in Capture : Denied(c)
    \/ ToggleMute \/ ToggleVideoOff \/ ToggleScreenOff
    \/ ToggleNoiseSuppression \/ RnnoiseLoaded \/ RnnoiseFails
    \/ ReplaceNext \/ Replaced

Spec == Init /\ [][Next]_vars

-----------------------------------------------------------------------------
(* Properties *)

LiveMics == live \cap Mic
LiveCams == live \cap Cam

\* The controls tell what is captured (media-controller.js:2 "Owns local media
\* state and the controls that reflect it"), whichever of several requests is
\* answered when, and in which room.  The exception is a share that ends while
\* it still waits for its fallback microphone: nobody listens, and the control
\* goes on showing it.
ControlsTellWhatIsCaptured ==
    /\ hasAudio <=> LiveMics # {}
    /\ hasVideo <=> LiveCams # {}
    /\ hasScreen <=> screenStream # None
    /\ screenStream # None => screenStream \in live \cup unnoticed

\* A page without a room captures nothing and shows no tile (ui.js:251-252
\* "local tiles (camera/screen) never linger across channels"), except for what
\* was asked for in a room and granted after it was left, and for a share that
\* another one replaced: closeAll cannot reach it.
NothingRunsOutsideARoom ==
    ~inRoom => /\ live \subseteq strays \cup replaced
               /\ tiles # {} => strays # {}

\* The mute button tells whether the microphone is muted, and while it is nothing
\* of it is sent, neither raw nor through the noise suppression, which goes on with
\* the muted track (webrtc.js:202-203).  Of two microphones (two clicks before the
\* first is granted) only the last one is muted, and the other is heard.
MutedIsSilent ==
    hasAudio /\ ~doubled =>
        /\ audioMuted <=> LiveMics \subseteq muted
        /\ audioMuted => \A t \in Range(senders) : t.of \notin LiveMics \ muted

\* When nothing is under way the other member is sent exactly what is captured,
\* with the processed track for the microphone when noise suppression is on
\* (webrtc.js:393-394), whatever was started, stopped and reconnected before.
\* Exceptions: two microphones; a share that another one replaced; and `mixed':
\* enableRnnoise also takes the senders of a screen's sound (webrtc.js:256, :274).
PeerIsSentWhatIsCaptured ==
    peer /\ chain = <<>> /\ enabling = "off"
         /\ ~doubled /\ ~mixed
    => {t \in Range(senders) : t.of \notin replaced} = LocalTracks

\* While a camera or a share is sent, the other member has a tile for it: the
\* video_stopped of one of them does not take the tile of the other.
VideoHasATile ==
    /\ peer /\ announced = DOMAIN senders
    /\ \E c \in (LiveCams \cup {screenStream}) \cap live : Video(c) \in DOMAIN senders
    => remoteTile

=============================================================================
