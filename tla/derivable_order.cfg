SPECIFICATION FairSpec
CONSTANTS
  NumNonterms = 4
  Grammars <- OptionalPair
INVARIANTS
  OrderRequirement
CHECK_DEADLOCK FALSE
