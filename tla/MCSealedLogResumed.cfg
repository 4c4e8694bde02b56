SPECIFICATION SealSpec
CONSTANTS
  Arity = 2
  Open = 99
  Algs = {0, 1}
  Genesis = 0
  MaxCount = 5
  MaxToggles <- MCToggles
  Offer <- MCOffer
INVARIANTS
  ResumptionReplays
