SPECIFICATION Spec
CONSTANT MaxBoots = 2
INVARIANTS IInv EvidenceHolds
