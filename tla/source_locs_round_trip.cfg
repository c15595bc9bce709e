SPECIFICATION Spec
CONSTANTS
  LongLine = 3
  MarkerPeriod = 2
  Names <- MCNames
  Disks <- MCDisks
  StaticLoc <- MCStaticLoc
  NoLoc <- MCNoLoc
  InitLoc <- MCInitLoc
  MaxStatics = 3
  MaxCol = 8
INVARIANTS
  RoundTrip
