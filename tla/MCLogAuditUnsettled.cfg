SPECIFICATION AuditSpec
CONSTANTS
  Arity = 2
  Open = 99
  Algs = {0, 1}
  Genesis = 0
  MaxCount = 4
  MaxToggles <- MCToggles
  Offer <- MCOffer
INVARIANTS
  HonestLogVerifies
CHECK_DEADLOCK FALSE
