SPECIFICATION ListSpec
CONSTANTS
  NtIndex <- MCNtIndex
  ProdIndex <- MCProdIndex
  ProdInfo <- MCProdInfo
  NontermOrder <- MCNontermOrder
  Column = {0, 1}
  MaxArrivals = 4
  RackSize = 2
  NDebug = TRUE
INVARIANTS
  EachPathInOnePlace
  QueueSorted
  TiesInArrivalOrder
PROPERTIES
  ImplementsPathQueue
CHECK_DEADLOCK FALSE
