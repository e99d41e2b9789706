SPECIFICATION CFairSpec
CONSTANTS
    WordBits = 7
    HalfWord = 64
    ByteSize = 2
    Programs = {}
    Sources <- MCSources
    Levels = {0, 1, 2}
    StackLimit = 8
    MemLimit = 8
    MaxOutput = 16
    MainLength = 2
INVARIANTS
    AcceptedIsBuilt
    TypesHold
    MeaningKept
    CodeAddsUp
PROPERTIES
    CompiledProgramsEnd
CHECK_DEADLOCK FALSE
