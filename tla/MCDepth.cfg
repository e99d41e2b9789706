SPECIFICATION Spec
CONSTANTS
    WordBits = 4
    HalfWord = 8
    ByteSize = 2
    Programs <- Control
    StackLimit = 2
    MemLimit = 4
    MaxOutput = 2
    MainLength = 3
INVARIANT
    FramesBounded
CHECK_DEADLOCK FALSE
