SPECIFICATION Spec
CONSTANTS
    m1 = m1
    m2 = m2
    v1 = v1
    s1 = s1
    s2 = s2
    None = None
    MaxAsks = 3
    Mic = {m1, m2}
    Cam = {v1}
    Screen = {s1, s2}
    Sound = {s1}
CHECK_DEADLOCK FALSE
INVARIANTS
    ControlsTellWhatIsCaptured
    NothingRunsOutsideARoom
    MutedIsSilent
    PeerIsSentWhatIsCaptured
    VideoHasATile
