SPECIFICATION Spec
CONSTANTS
  Arity = 3
  Open = 99
  Algs = {0, 1}
  Genesis = 0
  MaxCount = 9
  MaxToggles <- MCTogglesLong
  Offer <- MCOfferDistinct
INVARIANTS
  InclusionProofsVerify
  ConsistencyProofsVerify
  WitnessesDurable
  CouplingOpensShownRoots
  ActivityProvable
