SPECIFICATION Spec
CONSTANTS
    Name <- MCName
    Main = "__main__"
    File <- MCFile
    NoFile = "none"
    Projects <- Nested
    MaxBuilds = 1
INVARIANT CyclesAreReal
CHECK_DEADLOCK FALSE
