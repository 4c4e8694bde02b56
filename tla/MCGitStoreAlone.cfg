SPECIFICATION FairSpec
CONSTANTS
  Procs = {p}
  NoRef = NoRef
  Torn = Torn
  MaxBatches = 3
  MaxGen = 4
  MaxLosses = 2
PROPERTIES
  DurableLogSpec
  SettlesDurable
