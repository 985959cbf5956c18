SPECIFICATION FairSpec
CONSTANTS
    Code <- WhileLoop
    Entry = 1
    MaxFrames = 2
    Wrap = 3
PROPERTIES
    LoopIsLeft
CHECK_DEADLOCK FALSE
