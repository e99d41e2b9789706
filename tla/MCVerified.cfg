SPECIFICATION VSpec
CONSTANTS
    WordBits = 4
    HalfWord = 8
    ByteSize = 2
    Programs <- MCPrograms
    Certified <- MCCertified
    StackLimit = 4
    MemLimit = 4
    MaxOutput = 2
    MainLength = 3
INVARIANTS
    StackAddsUp
    NeverUnderflows
PROPERTIES
    OperandsIsolated
    ImplementsCalls
CHECK_DEADLOCK FALSE
