SPECIFICATION StoredSpec
CONSTANTS
  Open = 99
  Algs = {0, 1}
  Genesis = 0
  MaxCount = 3
  MaxToggles <- MCToggles
  ByteValues = 2
INVARIANTS
  TypeOK
  EpochsValid
  EvolutionAccepted
  StoresMirrorTimeline
  BackendsReadAlike
  MemoryAndGitAgree
  FjallAgreesOnPlainBatches
  
PROPERTIES
  PastTimelineFixed
