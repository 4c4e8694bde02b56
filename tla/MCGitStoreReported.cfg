SPECIFICATION Spec
CONSTANTS
  Procs = {p}
  NoRef = NoRef
  Torn = Torn
  MaxBatches = 3
  MaxGen = 4
  MaxLosses = 2
INVARIANTS
  ReportedDurableKept
