SPECIFICATION Spec
CONSTANTS
    NoConn = NoConn
    NoUser = NoUser
    NoRoom = NoRoom
    c1 = c1
    c2 = c2
    c3 = c3
    u1 = u1
    u2 = u2
    u3 = u3
    r1 = r1
    r2 = r2
    Conn = {c1, c2}
    User = {u1}
    RoomId = {r1}
    Accounts <- TwoTabs
    FoldedName <- OneName
    MaxRooms = 2
    MaxRoomSize = 1
    Buffered = 1
PROPERTIES
    CleanupTakesOwnSeats
