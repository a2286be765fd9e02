SPECIFICATION FairSpec
CONSTANTS
    N = 2
    Wildcard <- AllProcessors
    Tables <- SomeTables
    Firmwares <- SomeFirmwares
INVARIANTS IInv PatchLands ParsersAgree CureFitsDiagnosis
PROPERTY WalkEnds
