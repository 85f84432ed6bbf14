----------------------- MODULE MediaControllerProofs ------------------------
(***************************************************************************)
(* For any captures, in any order of clicks, grants and endings: the       *)
(* controls tell what is captured, nothing goes on outside a room, a muted *)
(* microphone is silent, the other member is sent what is captured and has *)
(* a tile for it.                                                          *)
(***************************************************************************)
EXTENDS MediaController, FiniteSetTheorems, TLAPS

(***************************************************************************)
(* Types of what the invariants below speak about.                         *)
(***************************************************************************)
Asking == {c \in Capture : request[c] = "asked"}
Answered == {c \in Capture : request[c] = "answered"}

CaptureTypes ==
    /\ request \in [Capture -> {"none", "asked", "answered"}]
    /\ fallbackFor \in [Mic -> Screen \cup {None}]
    /\ live \subseteq Answered
    /\ muted \subseteq Mic
    /\ localStream \subseteq Mic \cup Cam
    /\ screenStream \in Screen \cup {None}
    /\ micTrack \in Mic \cup {None}
    /\ rnnoise \in Mic \cup {None}
    /\ replaced \subseteq Screen \cap Answered
    /\ screenStream # None => screenStream \in Answered

\* The steps that neither grant nor stop a capture.
Elsewhere ==
    \/ CreatePeer \/ ClosePeer \/ Negotiated
    \/ \E m \in Mic : ToggleAudioOn(m) \/ FallbackDenied(m)
    \/ \E v \in Cam : ToggleVideoOn(v)
    \/ \E s \in Screen : ToggleScreenOn(s)
    \/ \E c \in Capture : Denied(c)
    \/ ToggleNoiseSuppression \/ RnnoiseLoaded \/ RnnoiseFails
    \/ ReplaceNext \/ Replaced

LEMMA NextCases ==
    ASSUME [Next]_vars
    PROVE  \/ EnterRoom \/ LeaveRoom
           \/ \E m \in Mic : AudioGranted(m) \/ FallbackGranted(m)
           \/ \E v \in Cam : VideoGranted(v)
           \/ \E s \in Screen :
                 \/ ScreenGranted(s) \/ ScreenEnds(s) \/ ScreenEndsUnnoticed(s)
           \/ ToggleMute \/ ToggleVideoOff \/ ToggleScreenOff
           \/ Elsewhere \/ UNCHANGED vars
BY DEF Next, Elsewhere

LEMMA ElsewhereKeeps ==
    ASSUME Elsewhere
    PROVE  UNCHANGED <<controls, live, muted, localStream, screenStream,
                       micTrack, tiles, inRoom, unnoticed, replaced, doubled,
                       strays>>
<1>1. CASE CreatePeer \/ ClosePeer \/ Negotiated
    BY <1>1 DEF CreatePeer, ClosePeer, Negotiated, captures, shown, history
<1>2. CASE \E m \in Mic : ToggleAudioOn(m) \/ FallbackDenied(m)
    BY <1>2 DEF ToggleAudioOn, FallbackDenied, captures, shown, history
<1>3. CASE \/ \E v \in Cam : ToggleVideoOn(v)
           \/ \E s \in Screen : ToggleScreenOn(s)
           \/ \E c \in Capture : Denied(c)
    BY <1>3 DEF ToggleVideoOn, ToggleScreenOn, Denied, captures, shown, history
<1>4. CASE \/ ToggleNoiseSuppression \/ RnnoiseLoaded \/ RnnoiseFails
           \/ ReplaceNext \/ Replaced
    BY <1>4 DEF ToggleNoiseSuppression, RnnoiseLoaded, RnnoiseFails, ReplaceNext,
                Replaced, captures, shown, history
<1> QED
    BY <1>1, <1>2, <1>3, <1>4 DEF Elsewhere

LEMMA RequestStep ==
    ASSUME CaptureTypes, [Next]_vars
    PROVE  /\ request' \in [Capture -> {"none", "asked", "answered"}]
           /\ fallbackFor' \in [Mic -> Screen \cup {None}]
           /\ Answered \subseteq Answered'
<1> USE MediaAssumption DEF CaptureTypes, Answered, Capture
<1>1. CASE UNCHANGED requests
    BY <1>1 DEF requests
<1>2. ASSUME NEW c \in Capture, Ask(c), request[c] = "none", UNCHANGED fallbackFor
      PROVE  /\ request' \in [Capture -> {"none", "asked", "answered"}]
             /\ fallbackFor' \in [Mic -> Screen \cup {None}]
             /\ Answered \subseteq Answered'
    BY <1>2 DEF Ask
<1>3. ASSUME NEW c \in Capture, Answer(c),
             \/ UNCHANGED fallbackFor
             \/ \E m \in Mic : fallbackFor' = [fallbackFor EXCEPT ![m] = None]
      PROVE  /\ request' \in [Capture -> {"none", "asked", "answered"}]
             /\ fallbackFor' \in [Mic -> Screen \cup {None}]
             /\ Answered \subseteq Answered'
    BY <1>3 DEF Answer
<1>4. ASSUME NEW s \in Screen, ScreenGranted(s)
      PROVE  /\ request' \in [Capture -> {"none", "asked", "answered"}]
             /\ fallbackFor' \in [Mic -> Screen \cup {None}]
             /\ Answered \subseteq Answered'
  <2>1. CASE s \in Sound \/ hasAudio
    <3>1. s \in Capture /\ Answer(s) /\ UNCHANGED fallbackFor
        BY <1>4, <2>1 DEF ScreenGranted
    <3> QED
        BY <3>1 DEF Answer
  <2>2. CASE ~(s \in Sound \/ hasAudio)
    <3>1. PICK m \in Mic :
              /\ request' = [request EXCEPT ![s] = "answered", ![m] = "asked"]
              /\ fallbackFor' = [fallbackFor EXCEPT ![m] = s]
              /\ request[m] = "none" /\ request[s] = "asked"
        BY <1>4, <2>2 DEF ScreenGranted, Unasked
    <3> QED
        BY <3>1
  <2> QED
      BY <2>1, <2>2
<1>5. CASE Elsewhere
    BY <1>1, <1>2, <1>3, <1>5
    DEF Elsewhere, CreatePeer, ClosePeer, Negotiated, ToggleAudioOn,
        FallbackDenied, ToggleVideoOn, ToggleScreenOn, Denied, Unasked,
        ToggleNoiseSuppression, RnnoiseLoaded, RnnoiseFails, ReplaceNext,
        Replaced, requests
<1>6. ASSUME NEW m \in Mic, AudioGranted(m) \/ FallbackGranted(m)
      PROVE  /\ request' \in [Capture -> {"none", "asked", "answered"}]
             /\ fallbackFor' \in [Mic -> Screen \cup {None}]
             /\ Answered \subseteq Answered'
    BY <1>3, <1>6 DEF AudioGranted, FallbackGranted
<1>7. ASSUME NEW v \in Cam, VideoGranted(v)
      PROVE  /\ request' \in [Capture -> {"none", "asked", "answered"}]
             /\ fallbackFor' \in [Mic -> Screen \cup {None}]
             /\ Answered \subseteq Answered'
    BY <1>3, <1>7 DEF VideoGranted
<1>8. CASE \/ EnterRoom \/ LeaveRoom
           \/ \E s \in Screen : ScreenEnds(s) \/ ScreenEndsUnnoticed(s)
           \/ ToggleMute \/ ToggleVideoOff \/ ToggleScreenOff \/ UNCHANGED vars
    BY <1>1, <1>8
    DEF EnterRoom, LeaveRoom, Reset, ScreenEnds, ScreenEndsUnnoticed,
        StopScreenShare, ToggleMute, ToggleVideoOff, ToggleScreenOff, vars
<1> QED
    BY <1>4, <1>5, <1>6, <1>7, <1>8, NextCases

-----------------------------------------------------------------------------
(***************************************************************************)
(* What the page captures, what its two streams hold and what its controls *)
(* say, together inductive.                                                *)
(***************************************************************************)
StreamInv ==
    /\ localStream = live \cap (Mic \cup Cam)
    /\ screenStream # None => screenStream \in live \cup unnoticed
    /\ screenStream \notin replaced
    /\ live \cap Screen \subseteq replaced \cup {screenStream}

ControlInv ==
    /\ hasVideo <=> live \cap Cam # {}
    /\ hasScreen <=> screenStream # None
    /\ hasAudio <=> micTrack # None
    /\ micTrack # None => micTrack \in live
    /\ live \cap Mic # {} => hasAudio

\* A microphone can be muted while it runs; of one alone the control tells it.
MuteInv ==
    /\ muted \subseteq live \cap Mic
    /\ ~doubled => live \cap Mic \subseteq {micTrack}
    /\ ~doubled /\ hasAudio => (audioMuted <=> micTrack \in muted)

\* What is asked for outside a room was asked for in the room before.
OutsideInv ==
    ~inRoom => /\ Asking \subseteq strays
               /\ live \subseteq strays \cup replaced
               /\ tiles # {} => strays # {}

MediaInv == CaptureTypes /\ StreamInv /\ ControlInv /\ MuteInv /\ OutsideInv

LEMMA MediaInit == Init => MediaInv
BY MediaAssumption
DEF Init, MediaInv, CaptureTypes, StreamInv, ControlInv, MuteInv, OutsideInv,
    Asking, Answered, Capture

LEMMA ResetStep ==
    ASSUME MediaInv, [Next]_vars, EnterRoom \/ LeaveRoom
    PROVE  MediaInv'
<1> USE MediaAssumption
<1>1. /\ live' = live \ (localStream \cup {screenStream})
      /\ localStream' = {} /\ screenStream' = None /\ micTrack' = None
      /\ rnnoise' = None /\ muted' = {} /\ tiles' = {}
      /\ replaced' = replaced \cap live'
      /\ request' = request /\ fallbackFor' = fallbackFor
      /\ strays' = Asking
    BY DEF EnterRoom, LeaveRoom, Reset, Stopped, requests, Asking
<1>2. ~hasAudio' /\ ~hasVideo' /\ ~hasScreen' /\ ~audioMuted'
    BY DEF EnterRoom, LeaveRoom, Reset
<1>3. live' \cap (Mic \cup Cam) = {} /\ live' \subseteq replaced
    BY <1>1 DEF MediaInv, CaptureTypes, StreamInv, Answered, Capture
<1>4. CaptureTypes'
    BY <1>1 DEF MediaInv, CaptureTypes, Answered
<1>5. StreamInv' /\ ControlInv' /\ MuteInv'
    BY <1>1, <1>2, <1>3 DEF StreamInv, ControlInv, MuteInv, MediaInv, CaptureTypes,
                            Capture
<1>6. OutsideInv'
    BY <1>1, <1>3 DEF OutsideInv, Asking
<1> QED
    BY <1>4, <1>5, <1>6 DEF MediaInv

LEMMA AudioStep ==
    ASSUME MediaInv, [Next]_vars,
           NEW m \in Mic, AudioGranted(m) \/ FallbackGranted(m)
    PROVE  MediaInv'
<1> USE MediaAssumption
<1>1. /\ live' = live \cup {m} /\ localStream' = localStream \cup {m}
      /\ micTrack' = m
      /\ UNCHANGED <<muted, screenStream, rnnoise, tiles, inRoom, strays,
                     unnoticed, replaced>>
    BY DEF AudioGranted, FallbackGranted, AudioStarts, noise
<1>2. /\ hasAudio' = TRUE /\ audioMuted' = FALSE
      /\ doubled' = (doubled \/ live \cap Mic # {})
      /\ UNCHANGED <<hasVideo, hasScreen>>
    BY DEF AudioGranted, FallbackGranted, AudioStarts
<1>3. request[m] = "asked" /\ request' = [request EXCEPT ![m] = "answered"]
    BY DEF AudioGranted, FallbackGranted, Answer
<1>4. CaptureTypes'
    BY <1>1, <1>3, RequestStep DEF MediaInv, CaptureTypes, Answered, Capture
<1>5. StreamInv'
    BY <1>1 DEF MediaInv, StreamInv
<1>6. ControlInv'
    BY <1>1, <1>2 DEF MediaInv, ControlInv, Capture
<1>7. m \notin live
    BY <1>3 DEF MediaInv, CaptureTypes, Answered, Capture
<1>8. MuteInv'
    BY <1>1, <1>2, <1>7 DEF MediaInv, MuteInv
<1>9. OutsideInv'
  <2>1. Asking' \subseteq Asking /\ m \in Asking
      BY <1>3 DEF Asking, Capture, MediaInv, CaptureTypes
  <2> QED
      BY <1>1, <2>1 DEF MediaInv, OutsideInv
<1> QED
    BY <1>4, <1>5, <1>6, <1>8, <1>9 DEF MediaInv

LEMMA VideoStep ==
    ASSUME MediaInv, [Next]_vars, NEW v \in Cam, VideoGranted(v)
    PROVE  MediaInv'
<1> USE MediaAssumption
<1>1. /\ live' = live \cup {v} /\ localStream' = localStream \cup {v}
      /\ hasVideo' = TRUE
      /\ UNCHANGED <<hasAudio, audioMuted, hasScreen, muted, screenStream,
                     micTrack, rnnoise, inRoom, strays, unnoticed, replaced,
                     doubled>>
    BY DEF VideoGranted, noise, history
<1>2. request[v] = "asked" /\ request' = [request EXCEPT ![v] = "answered"]
    BY DEF VideoGranted, Answer
<1>3. CaptureTypes'
    BY <1>1, <1>2, RequestStep DEF MediaInv, CaptureTypes, Answered, Capture
<1>4. StreamInv' /\ ControlInv' /\ MuteInv'
    BY <1>1 DEF MediaInv, StreamInv, ControlInv, MuteInv
<1>5. OutsideInv'
  <2>1. Asking' \subseteq Asking /\ v \in Asking
      BY <1>2 DEF Asking, Capture, MediaInv, CaptureTypes
  <2> QED
      BY <1>1, <2>1 DEF MediaInv, OutsideInv
<1> QED
    BY <1>3, <1>4, <1>5 DEF MediaInv

LEMMA ScreenStep ==
    ASSUME MediaInv, [Next]_vars, NEW s \in Screen, ScreenGranted(s)
    PROVE  MediaInv'
<1> USE MediaAssumption
<1>1. /\ live' = live \cup {s} /\ screenStream' = s
      /\ replaced' = replaced \cup ({screenStream} \ {None})
      /\ hasScreen' = TRUE
      /\ request[s] = "asked"
      /\ UNCHANGED <<hasAudio, audioMuted, hasVideo, muted, localStream,
                     micTrack, rnnoise, inRoom, unnoticed, doubled>>
    BY DEF ScreenGranted, noise
<1>2. s \in Asking /\ s \in Answered' /\ s \notin Answered /\ s # None
  <2>1. s \in Capture /\ s # None
      BY DEF Capture
  <2>2. request'[s] = "answered"
    <3>1. CASE s \in Sound \/ hasAudio
        BY <2>1, <3>1 DEF ScreenGranted, Answer, MediaInv, CaptureTypes
    <3>2. CASE ~(s \in Sound \/ hasAudio)
        BY <2>1, <3>2 DEF ScreenGranted, MediaInv, CaptureTypes, Capture
    <3> QED
        BY <3>1, <3>2
  <2> QED
      BY <1>1, <2>1, <2>2 DEF Asking, Answered
<1>3. CaptureTypes'
    BY <1>1, <1>2, RequestStep DEF MediaInv, CaptureTypes
<1>4. s \notin live /\ s \notin replaced
    BY <1>2 DEF MediaInv, CaptureTypes
<1>5. s # screenStream
    BY <1>2 DEF MediaInv, CaptureTypes
<1>6. StreamInv'
    BY <1>1, <1>2, <1>4, <1>5 DEF MediaInv, StreamInv, Capture
<1>7. ControlInv' /\ MuteInv'
    BY <1>1, <1>2 DEF MediaInv, ControlInv, MuteInv
<1>8. OutsideInv'
  <2>1. ASSUME ~inRoom
        PROVE  Asking' \subseteq strays' /\ strays \subseteq strays'
    <3>1. CASE s \in Sound \/ hasAudio
        BY <2>1, <3>1
        DEF ScreenGranted, Answer, MediaInv, CaptureTypes, OutsideInv, Asking
    <3>2. CASE ~(s \in Sound \/ hasAudio)
      <4>1. PICK m \in Mic :
              /\ request' = [request EXCEPT ![s] = "answered", ![m] = "asked"]
              /\ strays' = IF s \in strays THEN strays \cup {m} ELSE strays
          BY <3>2 DEF ScreenGranted
      <4>2. s \in strays
          BY <1>2, <2>1 DEF MediaInv, OutsideInv
      <4>3. Asking' \subseteq Asking \cup {m}
          BY <4>1 DEF Asking, MediaInv, CaptureTypes
      <4> QED
          BY <2>1, <4>1, <4>2, <4>3 DEF MediaInv, OutsideInv
    <3> QED
        BY <3>1, <3>2
  <2> QED
      BY <1>1, <1>2, <2>1 DEF MediaInv, OutsideInv
<1> QED
    BY <1>3, <1>6, <1>7, <1>8 DEF MediaInv

LEMMA StopScreenStep ==
    ASSUME MediaInv, [Next]_vars,
           NEW ended \in SUBSET Screen, StopScreenShare(ended), UNCHANGED unnoticed
    PROVE  MediaInv'
<1> USE MediaAssumption
<1>1. /\ live' = live \ ({screenStream} \cup ShareMics \cup ended)
      /\ localStream' = localStream \ ShareMics
      /\ muted' = muted \ ShareMics
      /\ screenStream' = None /\ hasScreen' = FALSE
      /\ tiles' \subseteq tiles
      /\ request' = request /\ fallbackFor' = fallbackFor
      /\ UNCHANGED <<hasVideo, inRoom, strays, replaced, doubled>>
    BY DEF StopScreenShare, requests
<1>2. CASE screenAutoStartedAudio
  <2>1. /\ micTrack' = None /\ rnnoise' = None
        /\ hasAudio' = FALSE /\ audioMuted' = FALSE
        /\ ShareMics = localStream \cap Mic
      BY <1>2 DEF StopScreenShare, ShareMics
  <2>2. CaptureTypes'
      BY <1>1, <2>1 DEF MediaInv, CaptureTypes, Answered
  <2>3. StreamInv' /\ ControlInv' /\ MuteInv'
      BY <1>1, <2>1
      DEF MediaInv, CaptureTypes, StreamInv, ControlInv, MuteInv, Answered, Capture
  <2> QED
      BY <1>1, <2>2, <2>3 DEF MediaInv, OutsideInv, Asking
<1>3. CASE ~screenAutoStartedAudio
  <2>1. /\ UNCHANGED <<micTrack, rnnoise, hasAudio, audioMuted>>
        /\ ShareMics = {}
      BY <1>3 DEF StopScreenShare, ShareMics
  <2>2. CaptureTypes'
      BY <1>1, <2>1 DEF MediaInv, CaptureTypes, Answered
  <2>3. StreamInv' /\ ControlInv' /\ MuteInv'
      BY <1>1, <2>1
      DEF MediaInv, CaptureTypes, StreamInv, ControlInv, MuteInv, Answered, Capture
  <2> QED
      BY <1>1, <2>2, <2>3 DEF MediaInv, OutsideInv, Asking
<1> QED
    BY <1>2, <1>3

LEMMA OtherMediaSteps ==
    ASSUME MediaInv, [Next]_vars,
           \/ \E s \in Screen : ScreenEndsUnnoticed(s)
           \/ ToggleMute \/ ToggleVideoOff \/ Elsewhere \/ UNCHANGED vars
    PROVE  MediaInv'
<1> USE MediaAssumption
<1>1. CASE \E s \in Screen : ScreenEndsUnnoticed(s)
  <2>1. PICK s \in Screen :
            /\ live' = live \ {s} /\ unnoticed' = unnoticed \cup {s}
            /\ request' = request /\ fallbackFor' = fallbackFor
            /\ UNCHANGED <<controls, muted, localStream, screenStream, micTrack,
                           rnnoise, inRoom, tiles, strays, replaced, doubled>>
      BY <1>1 DEF ScreenEndsUnnoticed, requests, noise, shown
  <2>2. CaptureTypes'
      BY <2>1 DEF MediaInv, CaptureTypes, Answered
  <2>3. StreamInv' /\ OutsideInv'
      BY <2>1 DEF MediaInv, StreamInv, OutsideInv, Asking
  <2>4. live' \cap Mic = live \cap Mic /\ live' \cap Cam = live \cap Cam
      BY <2>1
  <2>5. ControlInv' /\ MuteInv'
      BY <2>1, <2>4 DEF MediaInv, CaptureTypes, ControlInv, MuteInv, controls
  <2> QED
      BY <2>2, <2>3, <2>5 DEF MediaInv
<1>2. CASE ToggleMute
  <2>1. /\ hasAudio
        /\ micTrack \in muted => muted' = muted \ {micTrack} /\ audioMuted' = FALSE
        /\ micTrack \notin muted =>
               muted' = muted \cup {micTrack} /\ audioMuted' = TRUE
        /\ request' = request /\ fallbackFor' = fallbackFor
        /\ UNCHANGED <<hasAudio, hasVideo, hasScreen, live, localStream,
                       screenStream, micTrack, rnnoise, inRoom, tiles, strays,
                       unnoticed, replaced, doubled>>
      BY <1>2 DEF ToggleMute, MuteTarget, requests, noise, shown, history
  <2>2. micTrack \in Mic /\ micTrack \in live
      BY <2>1 DEF MediaInv, CaptureTypes, ControlInv
  <2>3. CaptureTypes'
      BY <2>1, <2>2 DEF MediaInv, CaptureTypes, Answered
  <2>4. StreamInv' /\ ControlInv' /\ OutsideInv'
      BY <2>1 DEF MediaInv, StreamInv, ControlInv, OutsideInv, Asking
  <2>5. MuteInv'
      BY <2>1, <2>2 DEF MediaInv, MuteInv
  <2> QED
      BY <2>3, <2>4, <2>5 DEF MediaInv
<1>3. CASE ToggleVideoOff
  <2>1. /\ live' = live \ (localStream \cap Cam)
        /\ localStream' = localStream \ (localStream \cap Cam)
        /\ hasVideo' = FALSE /\ tiles' \subseteq tiles
        /\ request' = request /\ fallbackFor' = fallbackFor
        /\ UNCHANGED <<hasAudio, audioMuted, hasScreen, muted, screenStream,
                       micTrack, rnnoise, inRoom, strays, unnoticed, replaced,
                       doubled>>
      BY <1>3 DEF ToggleVideoOff, requests, noise, history
  <2>2. CaptureTypes'
      BY <2>1 DEF MediaInv, CaptureTypes, Answered
  <2>3. StreamInv' /\ ControlInv' /\ MuteInv' /\ OutsideInv'
      BY <2>1 DEF MediaInv, CaptureTypes, StreamInv, ControlInv, MuteInv,
                  OutsideInv, Asking
  <2> QED
      BY <2>2, <2>3 DEF MediaInv
<1>4. CASE Elsewhere
  <2>1. /\ UNCHANGED <<controls, live, muted, localStream, screenStream, micTrack,
                       tiles, inRoom, unnoticed, replaced, doubled, strays>>
      BY <1>4, ElsewhereKeeps
  <2>2. rnnoise' \in {rnnoise, None, micTrack}
      BY <1>4
      DEF Elsewhere, CreatePeer, ClosePeer, Negotiated, ToggleAudioOn, noise,
          FallbackDenied, ToggleVideoOn, ToggleScreenOn, Denied,
          ToggleNoiseSuppression, RnnoiseLoaded, RnnoiseFails, ReplaceNext, Replaced
  <2>3. CaptureTypes'
      BY <2>1, <2>2, RequestStep DEF MediaInv, CaptureTypes
  <2>4. StreamInv' /\ ControlInv' /\ MuteInv'
      BY <2>1 DEF MediaInv, StreamInv, ControlInv, MuteInv, controls
  <2>5. ~inRoom => Asking' \subseteq Asking
      BY <1>4
      DEF Elsewhere, CreatePeer, ClosePeer, Negotiated, ToggleAudioOn, Asking,
          FallbackDenied, ToggleVideoOn, ToggleScreenOn, Denied, Answer,
          ToggleNoiseSuppression, RnnoiseLoaded, RnnoiseFails, ReplaceNext,
          Replaced, requests, MediaInv, CaptureTypes
  <2> QED
      BY <2>1, <2>3, <2>4, <2>5 DEF MediaInv, OutsideInv
<1>5. CASE UNCHANGED vars
    BY <1>5
    DEF vars, controls, requests, captures, noise, shown, history, MediaInv,
        CaptureTypes, StreamInv, ControlInv, MuteInv, OutsideInv, Asking, Answered
<1> QED
    BY <1>1, <1>2, <1>3, <1>4, <1>5

LEMMA MediaStep ==
    ASSUME MediaInv, [Next]_vars
    PROVE  MediaInv'
<1>1. ASSUME NEW s \in Screen, ScreenEnds(s)
      PROVE  MediaInv'
    BY <1>1, StopScreenStep DEF ScreenEnds
<1>2. ASSUME ToggleScreenOff
      PROVE  MediaInv'
    BY <1>2, StopScreenStep DEF ToggleScreenOff
<1> QED
    BY <1>1, <1>2, NextCases, ResetStep, AudioStep, VideoStep, ScreenStep,
       OtherMediaSteps

LEMMA MediaInvariant == Spec => []MediaInv
BY MediaInit, MediaStep, PTL DEF Spec

\* The controls of the page tell what is captured, in any order of grants.
THEOREM ControlsAreRight == Spec => []ControlsTellWhatIsCaptured
<1>1. MediaInv => ControlsTellWhatIsCaptured
    BY DEF MediaInv, CaptureTypes, StreamInv, ControlInv,
           ControlsTellWhatIsCaptured, LiveMics, LiveCams
<1> QED
    BY <1>1, MediaInvariant, PTL

\* Outside a room nothing is captured and no tile shown, but for what was asked
\* for before and for replaced shares.
THEOREM NothingOutsideARoom == Spec => []NothingRunsOutsideARoom
<1>1. MediaInv => NothingRunsOutsideARoom
    BY DEF MediaInv, OutsideInv, NothingRunsOutsideARoom
<1> QED
    BY <1>1, MediaInvariant, PTL

\* The mute button tells whether the microphone is muted, and what is muted is
\* not sent, raw or processed.
THEOREM MutedSendsNothing == Spec => []MutedIsSilent
<1>1. MediaInv => MutedIsSilent
  <2> SUFFICES ASSUME MediaInv, hasAudio, ~doubled
               PROVE  /\ audioMuted <=> LiveMics \subseteq muted
                      /\ audioMuted =>
                             \A t \in Range(senders) : t.of \notin LiveMics \ muted
      BY DEF MutedIsSilent
  <2>1. LiveMics = {micTrack} /\ (audioMuted <=> micTrack \in muted)
      BY MediaAssumption
      DEF MediaInv, CaptureTypes, ControlInv, MuteInv, LiveMics, Capture
  <2> QED
      BY <2>1
<1> QED
    BY <1>1, MediaInvariant, PTL

-----------------------------------------------------------------------------
(***************************************************************************)
(* The other member's tile.  What it knows of was captured before, so what *)
(* starts now is new to it.                                                *)
(***************************************************************************)
TileInv ==
    /\ \A t \in DOMAIN senders \cup announced : t.of \in Answered
    /\ rnnoise # None => rnnoise \in Answered
    /\ \A c \in ((localStream \cap Cam) \cup {screenStream}) \cap live :
           Video(c) \in announced => remoteTile

LEMMA AddedTracks ==
    ASSUME NEW T
    PROVE  DOMAIN WithTracks(T) \subseteq DOMAIN senders \cup T
BY DEF WithTracks

LEMMA RemovedTracks ==
    ASSUME NEW T
    PROVE  DOMAIN WithoutTracks(T) \subseteq DOMAIN senders
BY DEF WithoutTracks, Restrict

LEMMA OfTracks ==
    ASSUME NEW c, NEW t \in TracksOf(c)
    PROVE  t.of = c
BY DEF TracksOf, Audio, Video

LEMMA OfLocalTracks ==
    ASSUME MediaInv, TileInv, NEW t \in LocalTracks
    PROVE  t.of \in Answered
<1>1. CASE t \in TracksOf(screenStream)
  <2>1. t.of = screenStream
      BY <1>1, OfTracks
  <2>2. screenStream # None
      BY <1>1, MediaAssumption DEF TracksOf, Capture
  <2> QED
      BY <2>1, <2>2 DEF MediaInv, CaptureTypes
<1>2. CASE t \notin TracksOf(screenStream)
  <2>1. PICK u \in UNION {TracksOf(c) : c \in localStream} : t = Outgoing(u)
      BY <1>2 DEF LocalTracks
  <2>2. PICK c \in localStream : u \in TracksOf(c)
      OBVIOUS
  <2>3. u.of \in Answered
      BY <2>2, OfTracks DEF MediaInv, StreamInv, CaptureTypes
  <2>4. t = u \/ (t = Processed(rnnoise) /\ rnnoise # None)
      BY <2>1 DEF Outgoing
  <2> QED
      BY <2>3, <2>4 DEF Processed, TileInv
<1> QED
    BY <1>1, <1>2

\* A capture that is granted has no tracks yet.
LEMMA NewCapture ==
    ASSUME MediaInv, MediaInv', TileInv, [Next]_vars,
           NEW c \in Capture, request[c] = "asked", request'[c] = "answered",
           senders' = WithTracks(TracksOf(c)),
           UNCHANGED <<announced, remoteTile, rnnoise>>,
           live' \subseteq live \cup {c},
           localStream' \subseteq localStream \cup {c},
           screenStream' \in {screenStream, c}
    PROVE  TileInv'
<1>1. Answered \subseteq Answered' /\ c \in Answered' /\ c \notin Answered
    BY RequestStep DEF MediaInv, Answered
<1>2. \A t \in DOMAIN senders' \cup announced' : t.of \in Answered'
    BY <1>1, AddedTracks, OfTracks DEF TileInv
<1>3. Video(c) \notin announced
    BY <1>1 DEF TileInv, Video
<1>4. ASSUME NEW d \in ((localStream' \cap Cam) \cup {screenStream'}) \cap live',
             Video(d) \in announced'
      PROVE  remoteTile'
    BY <1>3, <1>4 DEF TileInv
<1>5. rnnoise' # None => rnnoise' \in Answered'
    BY <1>1 DEF TileInv
<1> QED
    BY <1>2, <1>4, <1>5 DEF TileInv

LEMMA TileStep ==
    ASSUME MediaInv, MediaInv', TileInv, [Next]_vars
    PROVE  TileInv'
<1> USE MediaAssumption
<1>1. Answered \subseteq Answered'
    BY RequestStep DEF MediaInv
<1>2. CASE EnterRoom \/ LeaveRoom
  <2>1. senders' = NoSenders /\ announced' = {} /\ rnnoise' = None
      BY <1>2 DEF EnterRoom, LeaveRoom, Reset
  <2> QED
      BY <2>1 DEF TileInv, NoSenders
<1>3. ASSUME NEW m \in Mic, AudioGranted(m) \/ FallbackGranted(m)
      PROVE  TileInv'
  <2>1. m \in Capture
      BY DEF Capture
  <2>2. /\ request[m] = "asked" /\ request'[m] = "answered"
        /\ senders' = WithTracks(TracksOf(m))
        /\ live' = live \cup {m} /\ localStream' = localStream \cup {m}
        /\ UNCHANGED <<announced, remoteTile, rnnoise, screenStream>>
      BY <1>3, <2>1
      DEF AudioGranted, FallbackGranted, AudioStarts, Answer, noise, remote,
          MediaInv, CaptureTypes
  <2> QED
      BY <2>1, <2>2, NewCapture
<1>4. ASSUME NEW v \in Cam, VideoGranted(v)
      PROVE  TileInv'
  <2>1. v \in Capture
      BY DEF Capture
  <2>2. /\ request[v] = "asked" /\ request'[v] = "answered"
        /\ senders' = WithTracks(TracksOf(v))
        /\ live' = live \cup {v} /\ localStream' = localStream \cup {v}
        /\ UNCHANGED <<announced, remoteTile, rnnoise, screenStream>>
      BY <1>4, <2>1 DEF VideoGranted, Answer, noise, remote, MediaInv, CaptureTypes
  <2> QED
      BY <2>1, <2>2, NewCapture
<1>5. ASSUME NEW s \in Screen, ScreenGranted(s)
      PROVE  TileInv'
  <2>1. s \in Capture
      BY DEF Capture
  <2>2. /\ request[s] = "asked"
        /\ senders' = WithTracks(TracksOf(s))
        /\ live' = live \cup {s} /\ localStream' = localStream
        /\ screenStream' = s
        /\ UNCHANGED <<announced, remoteTile, rnnoise>>
      BY <1>5 DEF ScreenGranted, noise, remote
  <2>3. request'[s] = "answered"
    <3>1. CASE s \in Sound \/ hasAudio
        BY <1>5, <2>1, <3>1 DEF ScreenGranted, Answer, MediaInv, CaptureTypes
    <3>2. CASE ~(s \in Sound \/ hasAudio)
        BY <1>5, <2>1, <3>2 DEF ScreenGranted, MediaInv, CaptureTypes, Capture
    <3> QED
        BY <3>1, <3>2
  <2> QED
      BY <2>1, <2>2, <2>3, NewCapture
<1>6. ASSUME NEW ended \in SUBSET Screen, StopScreenShare(ended)
      PROVE  TileInv'
  <2>1. /\ DOMAIN senders' \subseteq DOMAIN senders
        /\ announced' = announced
        /\ rnnoise' = None \/ rnnoise' = rnnoise
      BY <1>6, RemovedTracks DEF StopScreenShare
  <2>2. /\ live' = live \ ({screenStream} \cup ShareMics \cup ended)
        /\ localStream' = localStream \ ShareMics
        /\ screenStream' = None
        /\ remoteTile' = IF screenStream = None THEN remoteTile
                         ELSE TileAfter({screenStream} \cup ended)
      BY <1>6 DEF StopScreenShare
  <2>3. ASSUME NEW c \in ((localStream' \cap Cam) \cup {screenStream'}) \cap live',
               Video(c) \in announced'
        PROVE  remoteTile'
    <3>1. /\ c \in localStream \cap Cam /\ c \in live
          /\ c \notin {screenStream} \cup ended
        BY <2>2, <2>3 DEF MediaInv, CaptureTypes, Answered, Capture
    <3>2. remoteTile
        BY <2>1, <2>3, <3>1 DEF TileInv
    <3> QED
        BY <2>2, <3>1, <3>2 DEF TileAfter, ActiveVideo
  <2> QED
      BY <1>1, <2>1, <2>3 DEF TileInv
<1>7. CASE ToggleVideoOff
  <2>1. /\ DOMAIN senders' \subseteq DOMAIN senders
        /\ announced' = announced /\ rnnoise' = rnnoise
        /\ live' = live \ (localStream \cap Cam)
        /\ localStream' = localStream \ (localStream \cap Cam)
        /\ screenStream' = screenStream
        /\ remoteTile' = TileAfter(localStream \cap Cam)
      BY <1>7, RemovedTracks DEF ToggleVideoOff, noise
  <2>2. ASSUME NEW c \in ((localStream' \cap Cam) \cup {screenStream'}) \cap live',
               Video(c) \in announced'
        PROVE  remoteTile'
    <3>1. c = screenStream /\ c \in live /\ c \in Screen
        BY <2>1, <2>2 DEF MediaInv, CaptureTypes, Answered, Capture
    <3>2. remoteTile /\ c \notin localStream \cap Cam
        BY <2>1, <2>2, <3>1 DEF TileInv
    <3> QED
        BY <2>1, <3>1, <3>2 DEF TileAfter, ActiveVideo
  <2> QED
      BY <1>1, <2>1, <2>2 DEF TileInv
<1>8. CASE \/ \E s \in Screen : ScreenEndsUnnoticed(s)
           \/ ToggleMute \/ UNCHANGED vars
  <2>1. /\ live' \subseteq live
        /\ UNCHANGED <<localStream, screenStream, senders, announced, remoteTile,
                       rnnoise>>
      BY <1>8
      DEF ScreenEndsUnnoticed, ToggleMute, vars, noise, remote, link, captures
  <2> QED
      BY <1>1, <2>1 DEF TileInv
<1>9. CASE Elsewhere
  <2>1. UNCHANGED <<live, localStream, screenStream, micTrack>>
      BY <1>9, ElsewhereKeeps
  <2>2. rnnoise' # None => rnnoise' \in Answered'
    <3>1. rnnoise' \in {rnnoise, None, micTrack}
        BY <1>9
        DEF Elsewhere, CreatePeer, ClosePeer, Negotiated, ToggleAudioOn, noise,
            FallbackDenied, ToggleVideoOn, ToggleScreenOn, Denied,
            ToggleNoiseSuppression, RnnoiseLoaded, RnnoiseFails, ReplaceNext,
            Replaced
    <3>2. micTrack # None => micTrack \in Answered
        BY DEF MediaInv, CaptureTypes, ControlInv
    <3> QED
        BY <1>1, <3>1, <3>2 DEF TileInv
  <2>3. CASE CreatePeer
    <3>1. DOMAIN senders' = LocalTracks /\ UNCHANGED <<announced, remoteTile>>
        BY <2>3 DEF CreatePeer, remote
    <3> QED
        BY <1>1, <2>1, <2>2, <3>1, OfLocalTracks DEF TileInv
  <2>4. CASE ClosePeer
    <3>1. senders' = NoSenders /\ announced' = {}
        BY <2>4 DEF ClosePeer
    <3> QED
        BY <2>2, <3>1 DEF TileInv, NoSenders
  <2>5. CASE Negotiated
    <3>1. /\ announced' = DOMAIN senders /\ senders' = senders
          /\ remoteTile' = (remoteTile \/ ~(DOMAIN senders \subseteq announced))
        BY <2>5 DEF Negotiated, link
    <3> QED
        BY <1>1, <2>1, <2>2, <3>1 DEF TileInv
  <2>6. CASE ~CreatePeer /\ ~ClosePeer /\ ~Negotiated
    <3>1. UNCHANGED <<announced, remoteTile>>
        BY <1>9, <2>6
        DEF Elsewhere, ToggleAudioOn, FallbackDenied, ToggleVideoOn,
            ToggleScreenOn, Denied, ToggleNoiseSuppression, RnnoiseLoaded,
            RnnoiseFails, ReplaceNext, Replaced, remote
    <3>2. DOMAIN senders' = DOMAIN senders
        BY <1>9, <2>6
        DEF Elsewhere, ToggleAudioOn, FallbackDenied, ToggleVideoOn,
            ToggleScreenOn, Denied, ToggleNoiseSuppression, RnnoiseLoaded,
            RnnoiseFails, ReplaceNext, Replaced, link
    <3> QED
        BY <1>1, <2>1, <2>2, <3>1, <3>2 DEF TileInv
  <2> QED
      BY <2>3, <2>4, <2>5, <2>6
<1>10. ASSUME NEW s \in Screen, ScreenEnds(s)
       PROVE  TileInv'
    BY <1>6, <1>10 DEF ScreenEnds
<1>11. CASE ToggleScreenOff
    BY <1>6, <1>11 DEF ToggleScreenOff
<1> QED
    BY <1>2, <1>3, <1>4, <1>5, <1>7, <1>8, <1>9, <1>10, <1>11, NextCases

\* While a camera or a share is sent the other member has a tile, whichever of
\* them was started, stopped or negotiated first.
THEOREM SentVideoHasATile == Spec => []VideoHasATile
<1>1. Init => TileInv
    BY DEF Init, TileInv, NoSenders
<1>2. MediaInv /\ TileInv /\ MediaInv' /\ [Next]_vars => TileInv'
    BY TileStep
<1>3. MediaInv /\ TileInv => VideoHasATile
    BY DEF MediaInv, StreamInv, TileInv, VideoHasATile, LiveCams
<1> QED
    BY <1>1, <1>2, <1>3, MediaInvariant, PTL DEF Spec

-----------------------------------------------------------------------------
(***************************************************************************)
(* What the other member is sent.  Cameras and screens go out as they are, *)
(* and the microphone through one sender, whose track is the right one, or *)
(* is about to be: the connection has the replacement, or enableRnnoise    *)
(* has still to ask for it.                                                *)
(***************************************************************************)
MicSenders == {k \in DOMAIN senders : k.of \in Mic}
OtherSenders == DOMAIN senders \ MicSenders

\* What stands for the microphone.
MicSent == IF rnnoise = None THEN Audio(micTrack) ELSE Processed(micTrack)

NoiseInv ==
    /\ ~peer => senders = NoSenders /\ chain = <<>> /\ unreplaced = {}
    /\ enabling = "loading" => rnnoise = None
    /\ ~mixed /\ enabling = "replacing" => rnnoise # None
    /\ rnnoise # None => micTrack # None
    /\ ~doubled => rnnoise \in {None, micTrack}

OthersInv ==
    /\ \A s \in OtherSenders : senders[s] = s
    /\ {s \in OtherSenders : s.of \notin replaced} =
           {Video(v) : v \in localStream \cap Cam} \cup TracksOf(screenStream)

Steady ==
    /\ chain = <<>> /\ unreplaced = {}
    /\ \A k \in MicSenders : senders[k] = MicSent

\* Noise suppression that is switched off finds the processed track.
Underway ==
    /\ unreplaced = {}
    /\ \E k \in MicSenders :
          /\ chain = <<[sender |-> k, track |-> MicSent]>>
          /\ IF rnnoise = None THEN senders[k] = Processed(micTrack)
             ELSE enabling = "replacing"

Waiting ==
    /\ chain = <<>> /\ rnnoise # None /\ enabling = "replacing"
    /\ unreplaced # {}
    /\ unreplaced \subseteq {[sender |-> k, track |-> MicSent] : k \in MicSenders}

OneMicSender ==
    /\ \A k \in MicSenders :
          /\ k.of = micTrack
          /\ senders[k] \in {Audio(micTrack), Processed(micTrack)}
    /\ \A j, k \in MicSenders : j = k
    /\ micTrack # None => MicSenders # {}

SendersInv ==
    peer /\ ~doubled /\ ~mixed =>
        OthersInv /\ OneMicSender /\ (Steady \/ Underway \/ Waiting)

\* SetToSeq of the sets that occur.
LEMMA EmptyToSeq == SetToSeq({}) = <<>>
<1>1. Cardinality({}) = 0
    BY FS_EmptySet
<1>2. \A f \in [1..0 -> {}] : f = <<>>
    OBVIOUS
<1>3. <<>> \in [1..0 -> {}] /\ IsInjective(<<>>)
    BY DEF IsInjective
<1> QED
    BY <1>1, <1>2, <1>3 DEF SetToSeq

LEMMA OneToSeq ==
    ASSUME NEW x
    PROVE  SetToSeq({x}) = <<x>>
<1>1. Cardinality({x}) = 1
    BY FS_Singleton
<1>2. \A f \in [1..1 -> {x}] : f = <<x>>
    OBVIOUS
<1>3. <<x>> \in [1..1 -> {x}] /\ IsInjective(<<x>>)
    BY DEF IsInjective
<1> QED
    BY <1>1, <1>2, <1>3 DEF SetToSeq

LEMMA NothingChained ==
    ASSUME chain = <<>>
    PROVE  Chained({}) = <<>>
<1>1. <<>> \o <<>> = <<>>
    OBVIOUS
<1> QED
    BY <1>1, EmptyToSeq DEF Chained

LEMMA OneChained ==
    ASSUME NEW op, chain = <<>>
    PROVE  Chained({op}) = <<op>>
<1>1. <<>> \o <<op>> = <<op>>
    OBVIOUS
<1> QED
    BY <1>1, OneToSeq DEF Chained

LEMMA OneReplacement ==
    ASSUME NEW s, NEW t
    PROVE  [sender : {s}, track : {t}] = {[sender |-> s, track |-> t]}
<1>1. \A op \in [sender : {s}, track : {t}] : op = [sender |-> s, track |-> t]
    OBVIOUS
<1>2. [sender |-> s, track |-> t] \in [sender : {s}, track : {t}]
    OBVIOUS
<1> QED
    BY <1>1, <1>2

LEMMA OneToDo ==
    ASSUME NEW op
    PROVE  <<op>> # <<>> /\ Head(<<op>>) = op /\ Tail(<<op>>) = <<>>
OBVIOUS

LEMMA TracksOfKinds ==
    /\ \A m \in Mic : TracksOf(m) = {Audio(m)}
    /\ \A v \in Cam : TracksOf(v) = {Video(v)}
    /\ \A s \in Screen : TracksOf(s) =
           IF s \in Sound THEN {Audio(s), Video(s)} ELSE {Video(s)}
    /\ TracksOf(None) = {}
BY MediaAssumption DEF TracksOf, Capture

LEMMA SendersAreDistinct ==
    ASSUME OthersInv, OneMicSender
    PROVE  \A s, t \in DOMAIN senders : senders[s] = senders[t] => s = t
<1> SUFFICES ASSUME NEW s \in DOMAIN senders, NEW t \in DOMAIN senders,
                    senders[s] = senders[t]
             PROVE  s = t
    OBVIOUS
<1>1. \A k \in MicSenders : senders[k].of \in Mic
    BY DEF OneMicSender, MicSenders, Audio, Processed
<1>2. \A k \in OtherSenders : senders[k] = k /\ k.of \notin Mic
    BY DEF OthersInv, OtherSenders, MicSenders
<1>3. CASE s \in MicSenders /\ t \in MicSenders
    BY <1>3 DEF OneMicSender
<1>4. CASE s \in OtherSenders \/ t \in OtherSenders
    BY <1>1, <1>2, <1>4 DEF OtherSenders
<1> QED
    BY <1>3, <1>4 DEF OtherSenders

LEMMA Removed ==
    ASSUME OthersInv, OneMicSender, NEW T
    PROVE  /\ DOMAIN WithoutTracks(T) = {s \in DOMAIN senders : senders[s] \notin T}
           /\ \A s \in DOMAIN WithoutTracks(T) : WithoutTracks(T)[s] = senders[s]
<1>1. SendersOf(T) = {s \in DOMAIN senders : senders[s] \in T}
  <2>1. ASSUME NEW t \in T \cap Range(senders)
        PROVE  /\ (CHOOSE s \in DOMAIN senders : senders[s] = t) \in DOMAIN senders
               /\ senders[CHOOSE s \in DOMAIN senders : senders[s] = t] = t
      BY DEF Range
  <2>2. ASSUME NEW s \in DOMAIN senders, senders[s] \in T
        PROVE  s = CHOOSE u \in DOMAIN senders : senders[u] = senders[s]
      BY SendersAreDistinct
  <2>3. ASSUME NEW s \in SendersOf(T)
        PROVE  s \in DOMAIN senders /\ senders[s] \in T
      BY <2>1, <2>3 DEF SendersOf
  <2>4. ASSUME NEW s \in DOMAIN senders, senders[s] \in T
        PROVE  s \in SendersOf(T)
      BY <2>2, <2>4 DEF SendersOf, Range
  <2> QED
      BY <2>3, <2>4
<1> QED
    BY <1>1 DEF WithoutTracks, Restrict

-----------------------------------------------------------------------------
LEMMA NoiseStep ==
    ASSUME MediaInv, NoiseInv, [Next]_vars
    PROVE  NoiseInv'
<1> USE MediaAssumption
<1>1. CASE EnterRoom \/ LeaveRoom
    BY <1>1 DEF EnterRoom, LeaveRoom, Reset, NoiseInv
<1>2. ASSUME NEW m \in Mic, AudioGranted(m) \/ FallbackGranted(m)
      PROVE  NoiseInv'
  <2>1. /\ micTrack' = m
        /\ senders' = WithTracks(TracksOf(m))
        /\ UNCHANGED <<rnnoise, enabling, unreplaced, peer, chain, mixed>>
      BY <1>2 DEF AudioGranted, FallbackGranted, AudioStarts, noise
  <2>2. doubled' = (doubled \/ live \cap Mic # {})
      BY <1>2 DEF AudioGranted, FallbackGranted, AudioStarts
  <2>3. m # None
      BY DEF Capture
  <2>4. ~doubled' => micTrack = None
      BY <2>2 DEF MediaInv, CaptureTypes, ControlInv
  <2> QED
      BY <2>1, <2>2, <2>3, <2>4 DEF NoiseInv, WithTracks
<1>3. ASSUME NEW v \in Cam, VideoGranted(v)
      PROVE  NoiseInv'
    BY <1>3 DEF VideoGranted, noise, history, NoiseInv, WithTracks
<1>4. ASSUME NEW s \in Screen, ScreenGranted(s)
      PROVE  NoiseInv'
    BY <1>4 DEF ScreenGranted, noise, NoiseInv, WithTracks
<1>5. ASSUME NEW ended \in SUBSET Screen, StopScreenShare(ended)
      PROVE  NoiseInv'
  <2>1. peer' = peer /\ (~peer => senders' = NoSenders)
    <3>1. senders = NoSenders => \A T : WithoutTracks(T) = NoSenders
        BY DEF WithoutTracks, NoSenders, Restrict
    <3> QED
        BY <1>5, <3>1 DEF StopScreenShare, NoiseInv
  <2>2. ~peer => chain' = <<>>
    <3>1. ~peer => Restorations = {}
        BY DEF NoiseInv, NoSenders, Restorations
    <3>2. ~peer => Chained(Restorations) = <<>>
        BY <3>1, NothingChained DEF NoiseInv
    <3> QED
        BY <1>5, <3>2 DEF StopScreenShare, NoiseInv
  <2>3. UNCHANGED <<enabling, unreplaced, doubled>>
      BY <1>5 DEF StopScreenShare
  <2>4. \/ micTrack' = None /\ rnnoise' = None
           /\ (mixed' = (mixed \/ rnnoise # None \/ chain # <<>>))
        \/ UNCHANGED <<micTrack, rnnoise, mixed>>
      BY <1>5 DEF StopScreenShare
  <2> QED
      BY <2>1, <2>2, <2>3, <2>4 DEF NoiseInv
<1>6. CASE ToggleVideoOff
  <2>1. senders = NoSenders => \A T : WithoutTracks(T) = NoSenders
      BY DEF WithoutTracks, NoSenders, Restrict
  <2> QED
      BY <1>6, <2>1 DEF ToggleVideoOff, NoiseInv, noise, history
<1>7. CASE \/ \E s \in Screen : ScreenEndsUnnoticed(s)
           \/ ToggleMute \/ UNCHANGED vars
    BY <1>7
    DEF ScreenEndsUnnoticed, ToggleMute, vars, noise, link, history, captures,
        NoiseInv
<1>8. CASE Elsewhere
  <2>1. micTrack' = micTrack /\ doubled' = doubled
      BY <1>8, ElsewhereKeeps
  <2>2. CASE CreatePeer \/ ClosePeer
      BY <2>1, <2>2 DEF CreatePeer, ClosePeer, NoiseInv, noise, history
  <2>3. CASE ToggleNoiseSuppression
    <3>1. /\ UNCHANGED <<unreplaced, peer, senders, mixed>>
          /\ IF rnnoise # None
             THEN chain' = Chained(Restorations) /\ rnnoise' = None
                    /\ enabling' = enabling
             ELSE enabling' = "loading" /\ chain' = chain /\ rnnoise' = rnnoise
          /\ enabling = "off"
        BY <2>3 DEF ToggleNoiseSuppression, history
    <3>2. ~peer => Restorations = {}
        BY DEF NoiseInv, NoSenders, Restorations
    <3>3. ~peer => Chained(Restorations) = <<>>
        BY <3>2, NothingChained DEF NoiseInv
    <3> QED
        BY <2>1, <3>1, <3>3 DEF NoiseInv
  <2>4. CASE RnnoiseLoaded
    <3>1. UNCHANGED <<peer, senders, chain>> /\ enabling = "loading"
        BY <2>4 DEF RnnoiseLoaded, link
    <3>2. CASE micTrack = None
        BY <2>1, <2>4, <3>1, <3>2 DEF RnnoiseLoaded, NoiseInv
    <3>3. CASE micTrack # None
      <4>1. /\ rnnoise' = micTrack /\ enabling' = "replacing"
            /\ unreplaced' = [sender : AudioSenders, track : {Processed(micTrack)}]
          BY <2>4, <3>3 DEF RnnoiseLoaded
      <4>2. ~peer => AudioSenders = {}
          BY DEF NoiseInv, NoSenders, AudioSenders
      <4>3. ~peer => unreplaced' = {}
          BY <4>1, <4>2
      <4> QED
          BY <2>1, <3>1, <3>3, <4>1, <4>3 DEF NoiseInv
    <3> QED
        BY <3>2, <3>3
  <2>5. CASE ReplaceNext
    <3>1. /\ UNCHANGED <<rnnoise, peer, senders, mixed>>
          /\ enabling = "replacing" /\ enabling' \in {"off", "replacing"}
          /\ unreplaced = {} => unreplaced' = unreplaced /\ chain' = chain
        BY <2>5 DEF ReplaceNext, history
    <3> QED
        BY <2>1, <3>1 DEF NoiseInv
  <2>6. CASE Replaced
    <3>1. /\ UNCHANGED <<rnnoise, enabling, unreplaced, peer, mixed>>
          /\ chain # <<>>
        BY <2>6 DEF Replaced, noise, history
    <3> QED
        BY <2>1, <3>1 DEF NoiseInv
  <2>7. CASE RnnoiseFails
      BY <2>1, <2>7 DEF RnnoiseFails, link, history, NoiseInv
  <2>8. CASE ~(\/ CreatePeer \/ ClosePeer \/ ToggleNoiseSuppression
               \/ RnnoiseLoaded \/ ReplaceNext \/ Replaced \/ RnnoiseFails)
    <3>1. UNCHANGED <<noise, link, history>>
        BY <1>8, <2>8
        DEF Elsewhere, Negotiated, ToggleAudioOn, FallbackDenied, ToggleVideoOn,
            ToggleScreenOn, Denied
    <3> QED
        BY <2>1, <3>1 DEF noise, link, history, NoiseInv
  <2> QED
      BY <2>2, <2>3, <2>4, <2>5, <2>6, <2>7, <2>8
<1>9. ASSUME NEW s \in Screen, ScreenEnds(s)
      PROVE  NoiseInv'
    BY <1>5, <1>9 DEF ScreenEnds
<1>10. CASE ToggleScreenOff
    BY <1>5, <1>10 DEF ToggleScreenOff
<1> QED
    BY <1>1, <1>2, <1>3, <1>4, <1>6, <1>7, <1>8, <1>9, <1>10, NextCases

-----------------------------------------------------------------------------
(* A step that leaves the microphone's sender, or the others, alone. *)

LEMMA MicSenderKept ==
    ASSUME OneMicSender, Steady \/ Underway \/ Waiting,
           MicSenders' = MicSenders,
           \A k \in MicSenders : senders'[k] = senders[k],
           UNCHANGED <<micTrack, rnnoise, chain, unreplaced, enabling>>
    PROVE  OneMicSender' /\ (Steady \/ Underway \/ Waiting)'
<1>1. OneMicSender'
    BY DEF OneMicSender
<1>2. MicSent' = MicSent
    BY DEF MicSent, Audio, Processed
<1>3. Steady => Steady'
    BY <1>2 DEF Steady
<1>4. Underway => Underway'
    BY <1>2 DEF Underway
<1>5. Waiting => Waiting'
    BY <1>2 DEF Waiting
<1> QED
    BY <1>1, <1>3, <1>4, <1>5

LEMMA OtherSendersKept ==
    ASSUME OthersInv,
           OtherSenders' = OtherSenders,
           \A s \in OtherSenders : senders'[s] = senders[s],
           localStream' \cap Cam = localStream \cap Cam,
           UNCHANGED <<screenStream, replaced>>
    PROVE  OthersInv'
BY DEF OthersInv

\* What a capture's tracks add, to senders that do not have them.
LEMMA Added ==
    ASSUME TileInv, peer, NEW c \in Capture, c \notin Answered,
           senders' = WithTracks(TracksOf(c))
    PROVE  /\ DOMAIN senders' = DOMAIN senders \cup TracksOf(c)
           /\ DOMAIN senders \cap TracksOf(c) = {}
           /\ \A t \in DOMAIN senders : senders'[t] = senders[t]
           /\ \A t \in TracksOf(c) : senders'[t] = t
BY OfTracks DEF TileInv, WithTracks

LEMMA SendersAudioStep ==
    ASSUME MediaInv, MediaInv', TileInv, NoiseInv, SendersInv, [Next]_vars,
           NEW m \in Mic, AudioGranted(m) \/ FallbackGranted(m)
    PROVE  SendersInv'
<1> USE MediaAssumption
<1>1. /\ senders' = WithTracks(TracksOf(m)) /\ micTrack' = m
      /\ localStream' = localStream \cup {m}
      /\ UNCHANGED <<rnnoise, enabling, unreplaced, peer, chain, mixed,
                     screenStream, replaced>>
    BY DEF AudioGranted, FallbackGranted, AudioStarts, noise
<1>2. doubled' = (doubled \/ live \cap Mic # {})
    BY DEF AudioGranted, FallbackGranted, AudioStarts
<1>3. m \in Capture /\ m \notin Answered
    BY DEF AudioGranted, FallbackGranted, Answer, Capture, Answered
<1> SUFFICES ASSUME peer', ~doubled', ~mixed'
             PROVE  OthersInv' /\ OneMicSender' /\ Steady'
    BY DEF SendersInv
<1>4. peer /\ ~doubled /\ ~mixed /\ live \cap Mic = {}
    BY <1>1, <1>2
<1>5. micTrack = None /\ rnnoise = None
    BY <1>4 DEF MediaInv, CaptureTypes, ControlInv, NoiseInv
<1>6. /\ DOMAIN senders' = DOMAIN senders \cup {Audio(m)}
      /\ Audio(m) \notin DOMAIN senders
      /\ \A t \in DOMAIN senders : senders'[t] = senders[t]
      /\ senders'[Audio(m)] = Audio(m)
    BY <1>1, <1>3, <1>4, Added, TracksOfKinds
<1>7. MicSenders = {} /\ OtherSenders = DOMAIN senders
    BY <1>4, <1>5 DEF SendersInv, OneMicSender, MicSenders, OtherSenders, Capture
<1>8. Audio(m).of = m
    BY DEF Audio
<1>9. MicSenders' = {Audio(m)} /\ OtherSenders' = OtherSenders
    BY <1>6, <1>7, <1>8 DEF MicSenders, OtherSenders
<1>10. OthersInv'
  <2>1. localStream' \cap Cam = localStream \cap Cam
      BY <1>1
  <2> QED
      BY <1>1, <1>4, <1>6, <1>7, <1>9, <2>1, OtherSendersKept DEF SendersInv
<1>11. OneMicSender'
    BY <1>1, <1>6, <1>8, <1>9 DEF OneMicSender
<1>12. Steady'
  <2>1. chain = <<>> /\ unreplaced = {}
      BY <1>4, <1>5, <1>7 DEF SendersInv, Steady, Underway, Waiting
  <2>2. MicSent' = Audio(m)
      BY <1>1, <1>5 DEF MicSent, Audio
  <2> QED
      BY <1>1, <1>6, <1>9, <2>1, <2>2 DEF Steady
<1> QED
    BY <1>10, <1>11, <1>12

LEMMA SendersVideoStep ==
    ASSUME MediaInv, MediaInv', TileInv, SendersInv, [Next]_vars,
           NEW v \in Cam, VideoGranted(v)
    PROVE  SendersInv'
<1> USE MediaAssumption
<1>1. /\ senders' = WithTracks(TracksOf(v))
      /\ localStream' = localStream \cup {v}
      /\ UNCHANGED <<micTrack, rnnoise, enabling, unreplaced, peer, chain, mixed,
                     screenStream, replaced, doubled>>
    BY DEF VideoGranted, noise, history
<1>2. v \in Capture /\ v \notin Answered
    BY DEF VideoGranted, Answer, Capture, Answered
<1> SUFFICES ASSUME peer', ~doubled', ~mixed'
             PROVE  OthersInv' /\ OneMicSender' /\ (Steady \/ Underway \/ Waiting)'
    BY DEF SendersInv
<1>3. OthersInv /\ OneMicSender /\ (Steady \/ Underway \/ Waiting) /\ peer
    BY <1>1 DEF SendersInv
<1>4. /\ DOMAIN senders' = DOMAIN senders \cup {Video(v)}
      /\ \A t \in DOMAIN senders : senders'[t] = senders[t]
      /\ senders'[Video(v)] = Video(v)
    BY <1>1, <1>2, <1>3, Added, TracksOfKinds
<1>5. Video(v).of = v
    BY DEF Video
<1>6. MicSenders' = MicSenders /\ OtherSenders' = OtherSenders \cup {Video(v)}
    BY <1>4, <1>5 DEF MicSenders, OtherSenders
<1>7. OthersInv'
  <2>1. localStream' \cap Cam = (localStream \cap Cam) \cup {v}
      BY <1>1
  <2>2. {Video(c) : c \in localStream' \cap Cam} =
            {Video(c) : c \in localStream \cap Cam} \cup {Video(v)}
      BY <2>1
  <2>3. TracksOf(screenStream)' = TracksOf(screenStream)
      BY <1>1 DEF TracksOf, Audio, Video
  <2>4. v \notin replaced'
      BY <1>1 DEF MediaInv, CaptureTypes
  <2>5. {s \in OtherSenders' : s.of \notin replaced'} =
            {s \in OtherSenders : s.of \notin replaced} \cup {Video(v)}
      BY <1>1, <1>5, <1>6, <2>4
  <2>6. \A s \in OtherSenders' : senders'[s] = s
      BY <1>3, <1>4, <1>6 DEF OthersInv, OtherSenders
  <2> QED
      BY <1>3, <2>2, <2>3, <2>5, <2>6 DEF OthersInv
<1>8. \A k \in MicSenders : senders'[k] = senders[k]
    BY <1>4 DEF MicSenders
<1> QED
    BY <1>1, <1>3, <1>6, <1>7, <1>8, MicSenderKept

LEMMA SendersScreenStep ==
    ASSUME MediaInv, MediaInv', TileInv, SendersInv, [Next]_vars,
           NEW s \in Screen, ScreenGranted(s)
    PROVE  SendersInv'
<1> USE MediaAssumption
<1>1. /\ senders' = WithTracks(TracksOf(s)) /\ screenStream' = s
      /\ replaced' = replaced \cup ({screenStream} \ {None})
      /\ UNCHANGED <<micTrack, rnnoise, enabling, unreplaced, peer, chain, mixed,
                     localStream, doubled>>
    BY DEF ScreenGranted, noise
<1>2. s \in Capture /\ s \notin Answered
    BY DEF ScreenGranted, Capture, Answered
<1> SUFFICES ASSUME peer', ~doubled', ~mixed'
             PROVE  OthersInv' /\ OneMicSender' /\ (Steady \/ Underway \/ Waiting)'
    BY DEF SendersInv
<1>3. OthersInv /\ OneMicSender /\ (Steady \/ Underway \/ Waiting) /\ peer
    BY <1>1 DEF SendersInv
<1>4. /\ DOMAIN senders' = DOMAIN senders \cup TracksOf(s)
      /\ \A t \in DOMAIN senders : senders'[t] = senders[t]
      /\ \A t \in TracksOf(s) : senders'[t] = t
    BY <1>1, <1>2, <1>3, Added
<1>5. \A t \in TracksOf(s) : t.of = s
    BY OfTracks
<1>6. MicSenders' = MicSenders /\ OtherSenders' = OtherSenders \cup TracksOf(s)
    BY <1>4, <1>5 DEF MicSenders, OtherSenders
<1>7. OthersInv'
  <2>1. \A t \in OtherSenders' : senders'[t] = t
      BY <1>3, <1>4, <1>6 DEF OthersInv, OtherSenders
  <2>2. s \notin replaced'
      BY <1>1 DEF MediaInv, StreamInv
  <2>3. {t \in OtherSenders' : t.of \notin replaced'} =
            {t \in OtherSenders : t.of \notin replaced /\ t.of # screenStream}
                \cup TracksOf(s)
    <3>1. \A t \in OtherSenders : t.of # None
        BY DEF OtherSenders, TileInv, Answered
    <3> QED
        BY <1>1, <1>5, <1>6, <2>2, <3>1
  <2>4. {t \in OtherSenders : t.of \notin replaced /\ t.of # screenStream} =
            {Video(v) : v \in localStream \cap Cam}
    <3>1. \A t \in TracksOf(screenStream) : t.of = screenStream
        BY OfTracks
    <3>2. \A t \in {Video(v) : v \in localStream \cap Cam} : t.of # screenStream
        BY DEF Video, MediaInv, CaptureTypes, Capture
    <3> QED
        BY <1>3, <3>1, <3>2 DEF OthersInv
  <2>5. TracksOf(screenStream)' = TracksOf(s)
      BY <1>1 DEF TracksOf, Audio, Video
  <2> QED
      BY <1>1, <2>1, <2>3, <2>4, <2>5 DEF OthersInv
<1>8. \A k \in MicSenders : senders'[k] = senders[k]
    BY <1>4 DEF MicSenders
<1> QED
    BY <1>1, <1>3, <1>6, <1>7, <1>8, MicSenderKept

LEMMA SendersVideoOffStep ==
    ASSUME MediaInv, MediaInv', SendersInv, [Next]_vars, ToggleVideoOff
    PROVE  SendersInv'
<1> USE MediaAssumption
<1> DEFINE cams == localStream \cap Cam
           T == {Video(v) : v \in cams}
<1>1. /\ senders' = WithoutTracks(T)
      /\ localStream' = localStream \ cams
      /\ UNCHANGED <<micTrack, rnnoise, enabling, unreplaced, peer, chain, mixed,
                     screenStream, replaced, doubled>>
    BY DEF ToggleVideoOff, noise, history
<1> SUFFICES ASSUME peer', ~doubled', ~mixed'
             PROVE  OthersInv' /\ OneMicSender' /\ (Steady \/ Underway \/ Waiting)'
    BY DEF SendersInv
<1>2. OthersInv /\ OneMicSender /\ (Steady \/ Underway \/ Waiting)
    BY <1>1 DEF SendersInv
<1>3. /\ DOMAIN senders' = {s \in DOMAIN senders : senders[s] \notin T}
      /\ \A s \in DOMAIN senders' : senders'[s] = senders[s]
    BY <1>1, <1>2, Removed
<1>4. \A t \in T : t.of \in cams
    BY DEF Video
<1>5. \A k \in MicSenders : senders[k] \notin T
  <2>1. \A k \in MicSenders : senders[k].of \in Mic
      BY <1>2 DEF OneMicSender, MicSenders, Audio, Processed
  <2> QED
      BY <1>4, <2>1
<1>6. /\ MicSenders' = MicSenders
      /\ OtherSenders' = OtherSenders \ T
    BY <1>2, <1>3, <1>5 DEF MicSenders, OtherSenders, OthersInv
<1>7. OthersInv'
  <2>1. \A s \in OtherSenders' : senders'[s] = s
      BY <1>2, <1>3, <1>6 DEF OthersInv, OtherSenders
  <2>3. {Video(v) : v \in localStream' \cap Cam} = {}
      BY <1>1
  <2>4. \A t \in TracksOf(screenStream) : t \notin T
    <3>1. \A t \in TracksOf(screenStream) : t.of = screenStream
        BY OfTracks
    <3>2. screenStream \notin cams
        BY DEF MediaInv, CaptureTypes, Capture
    <3> QED
        BY <1>4, <3>1, <3>2
  <2>5. TracksOf(screenStream)' = TracksOf(screenStream)
      BY <1>1 DEF TracksOf, Audio, Video
  <2>6. {s \in OtherSenders' : s.of \notin replaced'} = TracksOf(screenStream)
      BY <1>1, <1>2, <1>6, <2>4 DEF OthersInv
  <2> QED
      BY <2>1, <2>3, <2>5, <2>6 DEF OthersInv
<1>8. \A k \in MicSenders : senders'[k] = senders[k]
    BY <1>3, <1>6 DEF MicSenders
<1> QED
    BY <1>1, <1>2, <1>6, <1>7, <1>8, MicSenderKept

LEMMA SendersStopStep ==
    ASSUME MediaInv, MediaInv', NoiseInv, SendersInv, [Next]_vars,
           NEW ended \in SUBSET Screen, StopScreenShare(ended)
    PROVE  SendersInv'
<1> USE MediaAssumption
<1> DEFINE T == TracksOf(screenStream) \cup {Audio(m) : m \in ShareMics}
<1>1. /\ senders' = WithoutTracks(T)
      /\ localStream' = localStream \ ShareMics
      /\ screenStream' = None
      /\ UNCHANGED <<enabling, unreplaced, peer, replaced, doubled>>
    BY DEF StopScreenShare
<1>2. mixed => mixed'
    BY DEF StopScreenShare
<1>3. ShareMics \subseteq Mic
    BY DEF ShareMics
<1> SUFFICES ASSUME peer', ~doubled', ~mixed'
             PROVE  OthersInv' /\ OneMicSender' /\ (Steady \/ Underway \/ Waiting)'
    BY DEF SendersInv
<1>4. OthersInv /\ OneMicSender /\ (Steady \/ Underway \/ Waiting) /\ ~doubled
    BY <1>1, <1>2 DEF SendersInv
<1>5. /\ DOMAIN senders' = {s \in DOMAIN senders : senders[s] \notin T}
      /\ \A s \in DOMAIN senders' : senders'[s] = senders[s]
    BY <1>1, <1>4, Removed
<1>6. /\ \A t \in TracksOf(screenStream) : t.of = screenStream
      /\ \A t \in {Audio(m) : m \in ShareMics} : t.of \in Mic
      /\ screenStream \notin Mic \cup Cam
    BY <1>3, OfTracks DEF Audio, MediaInv, CaptureTypes, Capture
<1>7. /\ \A k \in MicSenders : senders[k].of = micTrack /\ micTrack \in Mic
      /\ \A k \in OtherSenders : k.of \notin Mic /\ senders[k] = k
    BY <1>4 DEF OneMicSender, OthersInv, MicSenders, OtherSenders, Audio, Processed
<1>8. OtherSenders' = OtherSenders \ TracksOf(screenStream)
    BY <1>5, <1>6, <1>7 DEF OtherSenders, MicSenders
<1>9. OthersInv'
  <2>1. \A s \in OtherSenders' : senders'[s] = s
      BY <1>5, <1>7, <1>8 DEF OtherSenders
  <2>2. localStream' \cap Cam = localStream \cap Cam
      BY <1>1, <1>3
  <2>3. TracksOf(screenStream)' = {}
      BY <1>1, TracksOfKinds DEF TracksOf, Audio, Video
  <2>4. \A t \in {Video(v) : v \in localStream \cap Cam} :
            t \notin TracksOf(screenStream)
      BY <1>6 DEF Video
  <2>5. {s \in OtherSenders' : s.of \notin replaced'} =
            {Video(v) : v \in localStream \cap Cam}
      BY <1>1, <1>4, <1>8, <2>4 DEF OthersInv
  <2> QED
      BY <2>1, <2>2, <2>3, <2>5 DEF OthersInv
<1>10. CASE ~screenAutoStartedAudio
  <2>1. /\ UNCHANGED <<micTrack, rnnoise, chain>>
        /\ ShareMics = {}
      BY <1>10 DEF StopScreenShare, ShareMics
  <2>2. \A k \in MicSenders : senders[k] \notin T
      BY <1>6, <1>7, <2>1
  <2>3. MicSenders' = MicSenders
      BY <1>5, <2>2 DEF MicSenders
  <2>4. \A k \in MicSenders : senders'[k] = senders[k]
      BY <1>5, <2>3 DEF MicSenders
  <2> QED
      BY <1>1, <1>4, <1>9, <2>1, <2>3, <2>4, MicSenderKept
<1>11. CASE screenAutoStartedAudio
  <2>1. /\ micTrack' = None /\ rnnoise' = None
        /\ chain' = Chained(Restorations)
        /\ rnnoise = None /\ chain = <<>>
        /\ ShareMics = localStream \cap Mic
      BY <1>11 DEF StopScreenShare, ShareMics
  <2>2. Steady
      BY <1>4, <2>1 DEF Underway, Waiting
  <2>3. chain' = <<>>
    <3>1. Restorations = {}
        BY <2>1 DEF Restorations
    <3> QED
        BY <2>1, <3>1, NothingChained
  <2>4. \A k \in MicSenders : senders[k] \in T
    <3> SUFFICES ASSUME NEW k \in MicSenders
                 PROVE  senders[k] \in T
        OBVIOUS
    <3>1. senders[k] = Audio(micTrack)
        BY <2>1, <2>2 DEF Steady, MicSent
    <3>2. micTrack \in ShareMics
        BY <1>7, <2>1 DEF MediaInv, ControlInv, StreamInv, Capture
    <3> QED
        BY <3>1, <3>2
  <2>5. MicSenders' = {}
      BY <1>5, <2>4 DEF MicSenders
  <2>6. OneMicSender' /\ Steady'
      BY <1>1, <2>1, <2>2, <2>3, <2>5 DEF OneMicSender, Steady
  <2> QED
      BY <1>9, <2>6
<1> QED
    BY <1>10, <1>11

-----------------------------------------------------------------------------
(* The connection, and noise suppression *)

LEMMA LocalTracksAre ==
    ASSUME MediaInv, NoiseInv, ~doubled
    PROVE  LocalTracks = {MicSent : m \in {micTrack} \ {None}}
                             \cup {Video(v) : v \in localStream \cap Cam}
                             \cup TracksOf(screenStream)
<1> USE MediaAssumption
<1>0. /\ localStream \cap Mic = {micTrack} \ {None}
      /\ micTrack \in Mic \cup {None}
      /\ rnnoise \in {None, micTrack}
      /\ localStream \subseteq Mic \cup Cam
    BY DEF MediaInv, CaptureTypes, StreamInv, ControlInv, MuteInv, NoiseInv, Capture
<1>1. ASSUME NEW c \in localStream \cap Mic
      PROVE  TracksOf(c) = {Audio(micTrack)} /\ Outgoing(Audio(micTrack)) = MicSent
    BY <1>0, TracksOfKinds DEF Outgoing, MicSent
<1>2. ASSUME NEW c \in localStream \cap Cam
      PROVE  TracksOf(c) = {Video(c)} /\ Outgoing(Video(c)) = Video(c)
    BY TracksOfKinds DEF Outgoing, Audio, Video
<1>3. {Outgoing(t) : t \in UNION {TracksOf(c) : c \in localStream}} =
          {MicSent : m \in {micTrack} \ {None}}
              \cup {Video(v) : v \in localStream \cap Cam}
  <2>1. ASSUME NEW t \in UNION {TracksOf(c) : c \in localStream}
        PROVE  Outgoing(t) \in {MicSent : m \in {micTrack} \ {None}}
                   \cup {Video(v) : v \in localStream \cap Cam}
    <3>1. PICK c \in localStream : t \in TracksOf(c)
        OBVIOUS
    <3>2. CASE c \in Mic
        BY <1>0, <1>1, <3>1, <3>2
    <3>3. CASE c \in Cam
        BY <1>2, <3>1, <3>3
    <3> QED
        BY <1>0, <3>2, <3>3
  <2>2. ASSUME micTrack # None
        PROVE  MicSent \in {Outgoing(t) : t \in UNION {TracksOf(c) : c \in localStream}}
    <3>1. micTrack \in localStream \cap Mic
        BY <1>0, <2>2
    <3>2. Audio(micTrack) \in UNION {TracksOf(c) : c \in localStream}
        BY <1>1, <3>1
    <3> QED
        BY <1>1, <3>1, <3>2
  <2>3. ASSUME NEW v \in localStream \cap Cam
        PROVE  Video(v) \in {Outgoing(t) : t \in UNION {TracksOf(c) : c \in localStream}}
    <3>1. Video(v) \in UNION {TracksOf(c) : c \in localStream}
        BY <1>2
    <3> QED
        BY <1>2, <3>1
  <2> QED
      BY <2>1, <2>2, <2>3
<1> QED
    BY <1>3 DEF LocalTracks

LEMMA SendersCreateStep ==
    ASSUME MediaInv, MediaInv', TileInv, NoiseInv, SendersInv, [Next]_vars,
           CreatePeer
    PROVE  SendersInv'
<1> USE MediaAssumption
<1>1. /\ senders' = [t \in LocalTracks |-> t]
      /\ ~peer /\ chain = <<>> /\ unreplaced = {}
      /\ UNCHANGED <<micTrack, rnnoise, enabling, unreplaced, chain, mixed,
                     localStream, screenStream, replaced, doubled>>
    BY DEF CreatePeer, NoiseInv, noise, captures, history
<1> SUFFICES ASSUME peer', ~doubled', ~mixed'
             PROVE  OthersInv' /\ OneMicSender' /\ Steady'
    BY DEF SendersInv
<1>2. /\ localStream \cap Mic = {micTrack} \ {None}
      /\ micTrack \in Mic \cup {None}
      /\ rnnoise \in {None, micTrack}
      /\ screenStream \notin Mic \cup Cam
      /\ localStream \subseteq Mic \cup Cam
      /\ screenStream \notin replaced
    BY <1>1 DEF MediaInv, CaptureTypes, StreamInv, ControlInv, MuteInv, NoiseInv,
                Capture
<1>3. LocalTracks = {MicSent : m \in {micTrack} \ {None}}
                        \cup {Video(v) : v \in localStream \cap Cam}
                        \cup TracksOf(screenStream)
    BY <1>1, LocalTracksAre
<1>4. /\ MicSent.of = micTrack
      /\ \A t \in {Video(v) : v \in localStream \cap Cam} \cup TracksOf(screenStream) :
             t.of \notin Mic /\ t.of \notin replaced
  <2>1. MicSent.of = micTrack
      BY DEF MicSent, Audio, Processed
  <2>2. \A t \in TracksOf(screenStream) : t.of = screenStream
      BY OfTracks
  <2>3. \A t \in {Video(v) : v \in localStream \cap Cam} : t.of \in Cam
      BY DEF Video
  <2> QED
      BY <1>2, <2>1, <2>2, <2>3 DEF MediaInv, CaptureTypes
<1>5. /\ MicSenders' = {MicSent : m \in {micTrack} \ {None}}
      /\ OtherSenders' = {Video(v) : v \in localStream \cap Cam}
                             \cup TracksOf(screenStream)
    BY <1>1, <1>2, <1>3, <1>4 DEF MicSenders, OtherSenders
<1>6. \A t \in DOMAIN senders' : senders'[t] = t
    BY <1>1
<1>7. OthersInv'
  <2>1. \A t \in OtherSenders' : senders'[t] = t
      BY <1>6 DEF OtherSenders
  <2>2. {t \in OtherSenders' : t.of \notin replaced'} = OtherSenders'
      BY <1>1, <1>4, <1>5
  <2> QED
      BY <1>1, <1>5, <2>1, <2>2 DEF OthersInv
<1>8. MicSent' = MicSent
    BY <1>1 DEF MicSent, Audio, Processed
<1>9. \A t \in MicSenders' : senders'[t] = MicSent
    BY <1>5, <1>6 DEF MicSenders
<1>10. OneMicSender'
  <2>1. MicSent \in {Audio(micTrack), Processed(micTrack)}
      BY DEF MicSent
  <2> QED
      BY <1>1, <1>4, <1>5, <1>9, <2>1 DEF OneMicSender, Audio, Processed
<1>11. Steady'
    BY <1>1, <1>8, <1>9 DEF Steady
<1> QED
    BY <1>7, <1>10, <1>11

LEMMA SendersToggleStep ==
    ASSUME NoiseInv, SendersInv, [Next]_vars, ToggleNoiseSuppression
    PROVE  SendersInv'
<1>1. /\ enabling = "off"
      /\ UNCHANGED <<micTrack, unreplaced, mixed, localStream, screenStream,
                     replaced, doubled, peer, senders>>
    BY DEF ToggleNoiseSuppression, captures, history
<1> SUFFICES ASSUME peer', ~doubled', ~mixed'
             PROVE  OthersInv' /\ OneMicSender' /\ (Steady \/ Underway \/ Waiting)'
    BY DEF SendersInv
<1>2. /\ OthersInv /\ OneMicSender /\ (Steady \/ Underway \/ Waiting)
      /\ rnnoise \in {None, micTrack}
    BY <1>1 DEF SendersInv, NoiseInv
<1>3. MicSenders' = MicSenders /\ OtherSenders' = OtherSenders
    BY <1>1 DEF MicSenders, OtherSenders
<1>4. OthersInv' /\ OneMicSender'
    BY <1>1, <1>2, <1>3 DEF OthersInv, OneMicSender
<1>5. CASE rnnoise = None
  <2>1. rnnoise' = None /\ chain' = chain
      BY <1>5 DEF ToggleNoiseSuppression
  <2>2. MicSent' = MicSent
      BY <1>1, <1>5, <2>1 DEF MicSent, Audio, Processed
  <2>3. Steady => Steady'
      BY <1>1, <1>3, <2>1, <2>2 DEF Steady
  <2>4. Underway => Underway'
      BY <1>1, <1>3, <1>5, <2>1, <2>2 DEF Underway
  <2> QED
      BY <1>2, <1>4, <1>5, <2>3, <2>4 DEF Waiting
<1>6. CASE rnnoise # None
  <2>1. rnnoise' = None /\ chain' = Chained(Restorations) /\ rnnoise = micTrack
      BY <1>2, <1>6 DEF ToggleNoiseSuppression
  <2>2. Steady
      BY <1>1, <1>2, <1>6 DEF Underway, Waiting
  <2>3. PICK k \in MicSenders : TRUE
      BY <1>2, <1>6, <2>1 DEF OneMicSender
  <2>4. senders[k] = Processed(micTrack) /\ k \in DOMAIN senders
      BY <1>6, <2>2 DEF Steady, MicSent, MicSenders
  <2>5. Restorations = {[sender |-> k, track |-> Audio(micTrack)]}
    <3>1. \A s \in DOMAIN senders : senders[s] = Processed(micTrack) => s = k
        BY <1>2, <2>4, SendersAreDistinct
    <3> QED
        BY <1>6, <2>1, <2>4, <3>1 DEF Restorations
  <2>6. chain' = <<[sender |-> k, track |-> Audio(micTrack)]>>
      BY <2>1, <2>2, <2>5, OneChained DEF Steady
  <2>7. MicSent' = Audio(micTrack)
      BY <1>1, <2>1 DEF MicSent, Audio
  <2>8. senders'[k] = Processed(micTrack)'
      BY <1>1, <2>4 DEF Processed
  <2>9. Underway'
      BY <1>1, <1>3, <2>1, <2>2, <2>6, <2>7, <2>8 DEF Underway, Steady
  <2> QED
      BY <1>4, <2>9
<1> QED
    BY <1>5, <1>6

LEMMA SendersLoadedStep ==
    ASSUME MediaInv, NoiseInv, SendersInv, [Next]_vars, RnnoiseLoaded
    PROVE  SendersInv'
<1> USE MediaAssumption
<1>1. /\ enabling = "loading" /\ rnnoise = None
      /\ UNCHANGED <<micTrack, localStream, screenStream, replaced, doubled, peer,
                     senders, chain>>
    BY DEF RnnoiseLoaded, captures, link, NoiseInv
<1>2. mixed => mixed'
    BY DEF RnnoiseLoaded
<1> SUFFICES ASSUME peer', ~doubled', ~mixed'
             PROVE  OthersInv' /\ OneMicSender' /\ (Steady \/ Underway \/ Waiting)'
    BY DEF SendersInv
<1>3. OthersInv /\ OneMicSender /\ (Steady \/ Underway \/ Waiting)
    BY <1>1, <1>2 DEF SendersInv
<1>4. MicSenders' = MicSenders /\ OtherSenders' = OtherSenders
    BY <1>1 DEF MicSenders, OtherSenders
<1>5. OthersInv' /\ OneMicSender'
    BY <1>1, <1>3, <1>4 DEF OthersInv, OneMicSender
<1>6. CASE micTrack = None
  <2>1. MicSenders = {}
      BY <1>3, <1>6 DEF OneMicSender, MicSenders, Capture
  <2>2. Steady
      BY <1>1, <1>3, <2>1 DEF Underway, Waiting
  <2>3. unreplaced' = unreplaced
      BY <1>6 DEF RnnoiseLoaded
  <2>4. Steady'
      BY <1>1, <1>4, <2>1, <2>2, <2>3 DEF Steady
  <2> QED
      BY <1>5, <2>4
<1>7. CASE micTrack # None
  <2>1. /\ rnnoise' = micTrack /\ enabling' = "replacing"
        /\ unreplaced' = [sender : AudioSenders, track : {Processed(micTrack)}]
        /\ \A s \in AudioSenders : senders[s] = Audio(micTrack)
      BY <1>7 DEF RnnoiseLoaded
  <2>2. Audio(micTrack) # Processed(micTrack)
      BY DEF Audio, Processed
  <2>3. \A k \in MicSenders : k \in AudioSenders
      BY <1>3 DEF OneMicSender, MicSenders, AudioSenders, IsAudio, Audio, Processed
  <2>4. Steady
      BY <1>1, <1>3, <2>1, <2>2, <2>3 DEF Underway, Waiting
  <2>5. PICK k \in MicSenders : TRUE
      BY <1>3, <1>7 DEF OneMicSender
  <2>6. AudioSenders = {k}
    <3>1. senders[k] = Audio(micTrack)
        BY <2>1, <2>3, <2>5
    <3>2. \A s \in AudioSenders : s = k
        BY <1>3, <2>1, <3>1, SendersAreDistinct DEF AudioSenders, MicSenders
    <3> QED
        BY <2>3, <3>2
  <2>7. unreplaced' = {[sender |-> k, track |-> Processed(micTrack)]}
      BY <2>1, <2>6, OneReplacement
  <2>8. MicSent' = Processed(micTrack)
      BY <1>1, <1>7, <2>1 DEF MicSent, Processed
  <2>9. Waiting'
      BY <1>1, <1>4, <1>7, <2>1, <2>4, <2>7, <2>8 DEF Waiting, Steady
  <2> QED
      BY <1>5, <2>9
<1> QED
    BY <1>6, <1>7

LEMMA SendersReplaceStep ==
    ASSUME NoiseInv, SendersInv, [Next]_vars, ReplaceNext \/ Replaced
    PROVE  SendersInv'
<1>1. UNCHANGED <<micTrack, rnnoise, mixed, localStream, screenStream, replaced,
                  doubled, peer>>
    BY DEF ReplaceNext, Replaced, captures, noise, history
<1> SUFFICES ASSUME peer', ~doubled', ~mixed'
             PROVE  OthersInv' /\ OneMicSender' /\ (Steady \/ Underway \/ Waiting)'
    BY DEF SendersInv
<1>2. OthersInv /\ OneMicSender /\ (Steady \/ Underway \/ Waiting)
    BY <1>1 DEF SendersInv
<1>3. MicSent' = MicSent
    BY <1>1 DEF MicSent, Audio, Processed
<1>4. CASE ReplaceNext
  <2>1. senders' = senders /\ enabling = "replacing" /\ chain = <<>>
      BY <1>4 DEF ReplaceNext
  <2>2. MicSenders' = MicSenders /\ OtherSenders' = OtherSenders
      BY <2>1 DEF MicSenders, OtherSenders
  <2>3. OthersInv' /\ OneMicSender'
      BY <1>1, <1>2, <2>1, <2>2 DEF OthersInv, OneMicSender
  <2>4. CASE unreplaced = {}
    <3>1. unreplaced' = {} /\ chain' = chain
        BY <1>4, <2>4 DEF ReplaceNext
    <3>2. Steady
        BY <1>2, <2>1, <2>4 DEF Underway, Waiting
    <3> QED
        BY <1>3, <2>1, <2>2, <2>3, <3>1, <3>2 DEF Steady
  <2>5. CASE unreplaced # {}
    <3>1. Waiting
        BY <1>2, <2>5 DEF Steady, Underway
    <3>2. PICK op \in unreplaced :
              /\ unreplaced' = unreplaced \ {op} /\ chain' = Append(chain, op)
              /\ enabling' = enabling
        BY <1>4, <2>5 DEF ReplaceNext
    <3>3. PICK k \in MicSenders : op = [sender |-> k, track |-> MicSent]
        BY <3>1, <3>2 DEF Waiting
    <3>4. unreplaced' = {}
        BY <1>2, <3>1, <3>2, <3>3 DEF Waiting, OneMicSender
    <3>5. chain' = <<op>>
        BY <2>1, <3>2
    <3>6. Underway'
        BY <1>1, <1>3, <2>1, <2>2, <3>1, <3>2, <3>3, <3>4, <3>5
        DEF Underway, Waiting
    <3> QED
        BY <2>3, <3>6
  <2> QED
      BY <2>4, <2>5
<1>5. CASE Replaced
  <2>1. Underway
      BY <1>2, <1>5 DEF Replaced, Steady, Waiting
  <2>2. PICK k \in MicSenders : chain = <<[sender |-> k, track |-> MicSent]>>
      BY <2>1 DEF Underway
  <2>3. k \in DOMAIN senders
      BY DEF MicSenders
  <2>4. /\ senders' = [senders EXCEPT ![k] = MicSent]
        /\ chain' = <<>> /\ unreplaced' = {}
    <3>1. Head(chain) = [sender |-> k, track |-> MicSent] /\ Tail(chain) = <<>>
        BY <2>2, OneToDo
    <3>2. Head(chain).sender = k /\ Head(chain).track = MicSent
        BY <3>1
    <3>3. senders' = [senders EXCEPT ![k] = MicSent]
        BY <1>5, <2>3, <3>2 DEF Replaced
    <3> QED
        BY <1>5, <2>1, <3>1, <3>3 DEF Replaced, Underway, noise
  <2>5. MicSenders' = MicSenders /\ OtherSenders' = OtherSenders
      BY <2>4 DEF MicSenders, OtherSenders
  <2>6. OthersInv'
    <3>1. \A s \in OtherSenders : senders'[s] = senders[s]
        BY <2>2, <2>4 DEF OtherSenders
    <3> QED
        BY <1>1, <1>2, <2>5, <3>1, OtherSendersKept
  <2>7. \A j \in MicSenders : senders'[j] = MicSent
      BY <1>2, <2>3, <2>4 DEF OneMicSender
  <2>8. OneMicSender'
    <3>1. MicSent \in {Audio(micTrack), Processed(micTrack)}
        BY DEF MicSent
    <3> QED
        BY <1>1, <1>2, <2>5, <2>7, <3>1 DEF OneMicSender, Audio, Processed
  <2>9. Steady'
      BY <1>3, <2>4, <2>5, <2>7 DEF Steady
  <2> QED
      BY <2>6, <2>8, <2>9
<1> QED
    BY <1>4, <1>5

LEMMA SendersUnchanged ==
    ASSUME SendersInv,
           UNCHANGED <<senders, replaced, screenStream, localStream, micTrack,
                       rnnoise, chain, unreplaced, enabling, peer, mixed, doubled>>
    PROVE  SendersInv'
<1> SUFFICES ASSUME peer', ~doubled', ~mixed'
             PROVE  OthersInv' /\ OneMicSender' /\ (Steady \/ Underway \/ Waiting)'
    BY DEF SendersInv
<1>1. OthersInv /\ OneMicSender /\ (Steady \/ Underway \/ Waiting)
    BY DEF SendersInv
<1>2. MicSenders' = MicSenders /\ OtherSenders' = OtherSenders
    BY DEF MicSenders, OtherSenders
<1> QED
    BY <1>1, <1>2, MicSenderKept, OtherSendersKept

LEMMA SendersStep ==
    ASSUME MediaInv, MediaInv', TileInv, NoiseInv, SendersInv, [Next]_vars
    PROVE  SendersInv'
<1>1. CASE EnterRoom \/ LeaveRoom \/ ClosePeer
    BY <1>1 DEF EnterRoom, LeaveRoom, Reset, ClosePeer, SendersInv
<1>2. ASSUME NEW s \in Screen, ScreenEnds(s)
      PROVE  SendersInv'
    BY <1>2, SendersStopStep DEF ScreenEnds
<1>3. CASE ToggleScreenOff
    BY <1>3, SendersStopStep DEF ToggleScreenOff
<1>4. CASE \/ \E s \in Screen : ScreenEndsUnnoticed(s)
           \/ ToggleMute \/ UNCHANGED vars
    BY <1>4, SendersUnchanged
    DEF ScreenEndsUnnoticed, ToggleMute, vars, noise, link, history, captures
<1>5. CASE RnnoiseFails
  <2>1. /\ enabling = "loading" /\ enabling' = "off"
        /\ UNCHANGED <<senders, replaced, screenStream, localStream, micTrack,
                       rnnoise, chain, unreplaced, peer, mixed, doubled>>
      BY <1>5 DEF RnnoiseFails, captures, link, history
  <2> SUFFICES ASSUME peer', ~doubled', ~mixed'
               PROVE  OthersInv' /\ OneMicSender' /\ (Steady \/ Underway)'
      BY DEF SendersInv
  <2>2. OthersInv /\ OneMicSender /\ (Steady \/ Underway \/ Waiting)
      BY <2>1 DEF SendersInv
  <2>3. MicSenders' = MicSenders /\ OtherSenders' = OtherSenders
      BY <2>1 DEF MicSenders, OtherSenders
  <2>4. OthersInv' /\ OneMicSender'
      BY <2>1, <2>2, <2>3 DEF OthersInv, OneMicSender
  <2>5. MicSent' = MicSent
      BY <2>1 DEF MicSent, Audio, Processed
  <2>6. rnnoise = None
      BY <2>1 DEF NoiseInv
  <2>7. Steady => Steady'
      BY <2>1, <2>3, <2>5 DEF Steady
  <2>8. Underway => Underway'
      BY <2>1, <2>3, <2>5, <2>6 DEF Underway
  <2> QED
      BY <2>2, <2>4, <2>6, <2>7, <2>8 DEF Waiting
<1>6. CASE \/ Negotiated
           \/ \E m \in Mic : ToggleAudioOn(m) \/ FallbackDenied(m)
           \/ \E v \in Cam : ToggleVideoOn(v)
           \/ \E s \in Screen : ToggleScreenOn(s)
           \/ \E c \in Capture : Denied(c)
  <2>1. UNCHANGED <<senders, replaced, screenStream, localStream, micTrack,
                    rnnoise, chain, unreplaced, enabling, peer, mixed, doubled>>
      BY <1>6
      DEF Negotiated, ToggleAudioOn, FallbackDenied, ToggleVideoOn, ToggleScreenOn,
          Denied, captures, noise, link, history
  <2> QED
      BY <2>1, SendersUnchanged
<1>7. CASE Elsewhere
    BY <1>1, <1>5, <1>6, <1>7, SendersCreateStep, SendersToggleStep,
       SendersLoadedStep, SendersReplaceStep DEF Elsewhere
<1> QED
    BY <1>1, <1>2, <1>3, <1>4, <1>7, NextCases, SendersAudioStep,
       SendersVideoStep, SendersScreenStep, SendersVideoOffStep

LEMMA SentIsCaptured ==
    ASSUME MediaInv, TileInv, NoiseInv, SendersInv
    PROVE  PeerIsSentWhatIsCaptured
<1> USE MediaAssumption
<1> SUFFICES ASSUME peer, chain = <<>>, enabling = "off", ~doubled, ~mixed
             PROVE  {t \in Range(senders) : t.of \notin replaced} = LocalTracks
    BY DEF PeerIsSentWhatIsCaptured
<1>1. OthersInv /\ OneMicSender /\ Steady
    BY DEF SendersInv, Underway, Waiting
<1>2. \A k \in MicSenders : senders[k] = MicSent
    BY <1>1 DEF Steady
<1>3. MicSenders # {} <=> micTrack # None
    BY <1>1 DEF OneMicSender, MicSenders, Capture
<1>4. MicSent.of \notin replaced \/ micTrack = None
  <2>1. MicSent.of = micTrack
      BY DEF MicSent, Audio, Processed
  <2> QED
      BY <2>1 DEF MediaInv, CaptureTypes, Capture
<1>5. \A s \in OtherSenders : senders[s] = s
    BY <1>1 DEF OthersInv
<1>6. {t \in Range(senders) : t.of \notin replaced} =
          {MicSent : m \in {micTrack} \ {None}}
              \cup {s \in OtherSenders : s.of \notin replaced}
  <2>1. Range(senders) = {MicSent : m \in {micTrack} \ {None}} \cup OtherSenders
    <3>1. DOMAIN senders = MicSenders \cup OtherSenders
        BY DEF MicSenders, OtherSenders
    <3>2. \A t : t \in Range(senders) <=>
                     (MicSenders # {} /\ t = MicSent) \/ t \in OtherSenders
        BY <1>2, <1>5, <3>1 DEF Range
    <3> QED
        BY <1>3, <3>2
  <2> QED
      BY <1>4, <2>1
<1> QED
    BY <1>1, <1>6, LocalTracksAre DEF OthersInv

\* When nothing is under way the other member is sent what is captured, the
\* processed microphone included, after any starts, stops and reconnections.
THEOREM SendersFollowCaptures == Spec => []PeerIsSentWhatIsCaptured
<1>1. Init => TileInv /\ NoiseInv /\ SendersInv
    BY DEF Init, TileInv, NoiseInv, SendersInv, NoSenders
<1>2. /\ MediaInv /\ MediaInv' /\ TileInv /\ NoiseInv /\ SendersInv /\ [Next]_vars
      => TileInv' /\ NoiseInv' /\ SendersInv'
    BY TileStep, NoiseStep, SendersStep
<1>3. MediaInv /\ TileInv /\ NoiseInv /\ SendersInv => PeerIsSentWhatIsCaptured
    BY SentIsCaptured
<1> QED
    BY <1>1, <1>2, <1>3, MediaInvariant, PTL DEF Spec

=============================================================================
