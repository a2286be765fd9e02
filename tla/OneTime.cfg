SPECIFICATION Spec
CONSTANTS
    w1 = w1
    w2 = w2
    c1 = c1
    c2 = c2
    c3 = c3
    NoId = NoId
    Ids = {w1, w2, c1}
    Original = {w1, w2}
    InitialEntries <- OneTimeEntries
    Experiments = {"safe", "testboot", "clean", "onelp", "novapic", "control", "cancel", "madtonce"}
    MatrixTests <- BaselineAndMbec
    Sessions = {s1}
    Faults = {"hard", "soft", "parse", "file", "late", "stop"}
INVARIANTS IInv ReturnsToSafe ControlIsBaseline
PROPERTIES DefaultKeepsBooting
