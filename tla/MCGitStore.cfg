SPECIFICATION Spec
CONSTANTS
  Procs = {p, q}
  NoRef = NoRef
  Torn = Torn
  MaxBatches = 2
  MaxGen = 3
  MaxLosses = 1
SYMMETRY MCSymmetry
INVARIANTS
  TypeOK
  CheckpointObjectsDurable
  RecoveryComplete
  CheckpointKept
PROPERTIES
  AppliedKept
