SPECIFICATION Spec
CONSTANT MaxBoots = 1
INVARIANT ProbeErrorMeansAvx
