\* A script with a global string and a global list, as the compiler lays them
\* out; every interleaving of heap calls and stack moves.
CONSTANTS
    HR = 4
    TM = 73
    Statics <- StringAndList
    SentinelAt = 42
    ScalarSizes = {4, 12}
    ListShapes <- Shapes
    StackTops = {60, 72}
    MaxRefs = 2
    RefHalf = 4
SPECIFICATION FairSpec
INVARIANTS TypeOK Tiling HeapBelowStack CountsExact NoDangling SavedWhole
PROPERTIES HeldBlocksStay CollisionOnlyWhenFull OperationsEnd ImplementsStore
CHECK_DEADLOCK FALSE
