SPECIFICATION FairSpec
CONSTANTS
    WordBits = 4
    HalfWord = 8
    ByteSize = 4
    Programs <- MCPrograms
    StackLimit = 4
    MemLimit = 3
    MaxOutput = 2
    MainLength = 3
INVARIANTS
    TypeOK
    StackBounded
    RunningHasFrame
    TraceIndexesFunctions
    PointersInHeap
PROPERTIES
    FollowsRegistry
    OverflowOnlyWhenPushing
    CallersUntouched
    ForwardProgramsEnd
CHECK_DEADLOCK FALSE
