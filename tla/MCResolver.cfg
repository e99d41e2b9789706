SPECIFICATION FairSpec
CONSTANTS
    Name <- MCName
    Main = "__main__"
    File <- MCFile
    NoFile = "none"
    Projects <- MCProjects
    MaxBuilds = 1
INVARIANTS
    TypeOK
    DepsFirst
    NothingOverlooked
    GraphIsClosure
PROPERTIES
    CallsEnd
    KeepsPromise
CHECK_DEADLOCK FALSE
