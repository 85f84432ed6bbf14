SPECIFICATION Spec
CONSTANTS
    ann = ann
    ben = ben
    cat = cat
    User = {ann, ben}
    MaxHistory = 1
    MaxPosts = 2
    MaxMoves = 3
SYMMETRY Symmetry
CHECK_DEADLOCK FALSE
INVARIANTS
    EachOnceUnlessRacing
    AuthorsStayInOrder
    TableStaysSmall
