SPECIFICATION FairSpec
CONSTANTS
    Cpus <- TwoCpus
    Values <- TwoValues
    Absent <- NoRegister
    MaxEvents = 2
    Machines <- SomeMachines
INVARIANTS IInv IdenticalIsUniform GroupsAgreeWithDiff CpuZeroSpeaks
PROPERTY CollectionEnds
