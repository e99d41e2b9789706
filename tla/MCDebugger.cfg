SPECIFICATION DFairSpec
CONSTANTS
    WordBits = 4
    HalfWord = 8
    ByteSize = 2
    Programs <- MCPrograms
    StackLimit = 2
    MemLimit = 3
    MaxOutput = 1
    MainLength = 3
    Breakable <- MCBreakable
INVARIANT
    DTypeOK
PROPERTIES
    KeepsSession
    CommandsReturn
CHECK_DEADLOCK FALSE
