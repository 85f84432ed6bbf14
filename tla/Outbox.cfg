SPECIFICATION FairSpec
CONSTANTS
    c1 = c1
    c2 = c2
    Conn = {c1, c2}
    SendBufSize = 2
    MaxSends = 4
CHECK_DEADLOCK FALSE
INVARIANTS
    NeverSilentlyDropped
PROPERTIES
    AskedIsClosed
    PumpsEnd
