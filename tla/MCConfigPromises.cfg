CONSTANTS
    Strings <- AllStrings
    Trim <- StringTable
    Fold <- FoldTable
    Addrs = {"addr"}
    DefaultName <- DefaultNames
    Rank <- Alphabet
    Files <- SomeFiles
    Boot <- TwoNamed
    Names = {"a", ""}
    Keys = {"k3"}
    Editors = {e1, e2}
    MaxServers = 3
    MaxEdits = 1
    MaxTurns = 3
SYMMETRY Symmetry
SPECIFICATION Spec
CHECK_DEADLOCK FALSE
INVARIANT EditorPromises
