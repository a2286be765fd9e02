SPECIFICATION Spec
CONSTANTS
    w1 = w1
    w2 = w2
    c1 = c1
    c2 = c2
    c3 = c3
    NoId = NoId
    Ids = {w1, c1, c2, c3}
    Original = {w1}
    InitialEntries <- MatrixBases
    Experiments = {"clean", "onelp", "capture7e", "matrix", "unmatrix"}
    MatrixTests <- BaselineAndMbec
    Sessions = {s1}
    Faults = {"hard", "file"}
INVARIANTS MadeEntriesOwned DangerNeedsMenu
PROPERTIES ThrownScriptsDisarm DefaultKeepsBooting
