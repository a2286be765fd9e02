SPECIFICATION Spec
CONSTANTS
    Builds = {1, 2, 3}
    Alike = {{1, 2}}
    Faults = {"fs", "cut"}
INVARIANTS IInv FptKept FailureUndone RestWhole
PROPERTIES RestoreKeepsTree
