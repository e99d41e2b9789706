SPECIFICATION Spec
CONSTANTS
    Magic = 9
    MinorVersions = 4
    Version = 6
    Opcodes = {0, 1, 2, 5}
    HaltOp = 5
    MaxCount = 4
    User = {u1, u2}
    Compiled <- MCCompiled
    NoModule = none
    Leftovers <- MCLeftovers
    FlushSize = 3
    ReadSize = 5
    Together = 2
INVARIANT
    RunsOwnProgram
CHECK_DEADLOCK FALSE
