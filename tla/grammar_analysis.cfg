SPECIFICATION MCSpec
CONSTANTS
  Inputs <- MCInputs
  HashOrders <- MCHashOrders
  Builds <- MCBuilds
  MaxIndex = 3
INVARIANTS
  TypeOK
  FirstFollowExact
  AutomatonExact
  LookaheadsExact
  DoneHasPropagated
  ConflictsResolved
  ConflictsCounted
  QueriesAgree
  ForbiddenNotReduced
  TablesAsRecorded
