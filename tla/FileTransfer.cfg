SPECIFICATION FairSpec
CONSTANTS
    small = small
    large = large
    Transfer = {small, large}
    Size <- MCSize
    MaxBuffer = 2
    LowWater = 1
CHECK_DEADLOCK FALSE
INVARIANTS
    OnlyWholeFiles
    BufferBounded
PROPERTY BegunFilesArrive
