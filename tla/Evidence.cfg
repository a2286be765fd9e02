SPECIFICATION Spec
CONSTANTS
    Uids <- TwoUids
    Wildcard <- AllProcessors
    Firmwares <- AllFirmwares
INVARIANTS IInv ActiveBypassIsReal BypassNeverClean AffectedIsReal ExitCodeExact
