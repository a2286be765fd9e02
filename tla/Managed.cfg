SPECIFICATION Spec
CONSTANTS
    w1 = w1
    w2 = w2
    c1 = c1
    c2 = c2
    NoId = NoId
    Ids = {w1, w2, c1, c2}
    Original = {w1, w2}
    InitialEntries <- MCInitialEntries
    Sessions = {s1}
    Faults = {"hard", "soft", "file", "stop"}
INVARIANTS FullInv NoOrphans
PROPERTIES RemoveLeavesNoTrace
