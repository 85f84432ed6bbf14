SPECIFICATION Spec
CONSTANTS
    ann = ann
    ben = ben
    cat = cat
    r1 = r1
    r2 = r2
    NoRoom = NoRoom
    User = {ann, ben, cat}
    Room = {r1, r2}
    MaxRoomSize = 2
    MaxMoves = 4
SYMMETRY Symmetry
CHECK_DEADLOCK FALSE
INVARIANTS
    UndisturbedSeesMembers
    UndisturbedAreCalled
    PageInItsSeat
