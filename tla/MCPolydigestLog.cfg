SPECIFICATION Spec
CONSTANTS
  Arity = 2
  Open = 99
  Algs = {0, 1}
  Genesis = 0
  MaxCount = 6
  MaxToggles <- MCToggles
  Offer <- MCOffer
INVARIANTS
  FrontierIsReference
  StoredNodesComplete
  ReopenLossless
  OutgrownRootsFixed
  NullRunsAreTheInactivePositions
PROPERTIES
  StoredNodesFixed
  TimelineSpec
