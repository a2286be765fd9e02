SPECIFICATION Spec
CONSTANTS
    w1 = w1
    w2 = w2
    c1 = c1
    c2 = c2
    NoId = NoId
    Ids = {w1, c1, c2}
    Original = {w1}
    InitialEntries <- MCInitialEntries
    Sessions = {s1, s2}
    Faults = {"hard", "soft", "parse", "file", "stop"}
INVARIANTS IInv ManagedPassesAudit CurrentSurvives
PROPERTIES NeverBricked DefaultStaysOff KeepsPromise

