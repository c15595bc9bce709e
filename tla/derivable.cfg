SPECIFICATION FairSpec
CONSTANTS
  NumNonterms = 5
  Grammars <- MCGrammars
INVARIANTS
  DerivableSound
  SettledComplete
  CyclesFound
  OrderFollowsDerivable
PROPERTIES
  AnalysisEnds
CHECK_DEADLOCK FALSE
