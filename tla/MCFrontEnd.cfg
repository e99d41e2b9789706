SPECIFICATION FSpec
CONSTANTS
    WordBits = 4
    HalfWord = 8
    ByteSize = 2
    Inputs <- MCInputs
    TextLength = 4
    SoupLength = 3
INVARIANTS
    TokensTile
    LexingEnds
    PositionsRight
    ReadsBack
    NothingLost
