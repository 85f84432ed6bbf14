SPECIFICATION Spec
CONSTANTS
    tab1 = tab1
    tab2 = tab2
    ann = ann
    ben = ben
    t1 = t1
    t2 = t2
    c1 = c1
    c2 = c2
    NoTab = NoTab
    NoConn = NoConn
    NoName = NoName
    NoToken = NoToken
    NoFrame = NoFrame
    Tab = {tab1, tab2}
    Conn = {c1, c2}
    Name = {ann}
    Token = {t1, t2}
    TTL = 1
    MaxEvents = 1
    MaxAsked = 2
    MaxAttempts = 1
CHECK_DEADLOCK FALSE
SYMMETRY Symmetry
INVARIANTS
    OnlyLogoutOrExpiryEndsASession
    RegistryIsConnected
    SignedInPageComesBack
    OneSocketPerTab
    PageTellsWhoIsSignedIn
PROPERTIES
    LogoutStopsLaterResumes
