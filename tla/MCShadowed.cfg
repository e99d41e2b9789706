SPECIFICATION CSpec
CONSTANTS
    WordBits = 7
    HalfWord = 64
    ByteSize = 2
    Programs = {}
    Sources <- MCShadowed
    Levels = {0, 2}
    StackLimit = 8
    MemLimit = 8
    MaxOutput = 16
    MainLength = 0
INVARIANTS
    MeaningKept
CHECK_DEADLOCK FALSE
