SPECIFICATION Spec
CONSTANTS
    ann = ann
    ben = ben
    cat = cat
    r1 = r1
    r2 = r2
    NoRoom = NoRoom
    User = {ann, ben, cat}
    r3 = r3
    Room = {r1, r2, r3}
    FirstRooms = {r1, r2}
    MaxRoomSize = 1
    MaxMoves = 3
SYMMETRY Symmetry
CHECK_DEADLOCK FALSE
INVARIANTS
    ListsNotOvertakenAreCurrent
