SPECIFICATION Spec
CONSTANTS
  Arity = 2
  Open = 99
  Algs = {0, 1}
  Payloads <- MCPayloads
  MaxSize = 5
  MaxWrites = 2
INVARIANTS
  CacheIsReference
  ProofsVerify
  SealKeepsRoots
CHECK_DEADLOCK FALSE
