SPECIFICATION Spec
CONSTANTS
  Ids <- ThreeRows
  Kinds = 2
  KindOf <- PlaceOrRoute
  Cap <- Caps
  Of <- SharedByTwo
  Limit = 2
  Overlap = 2
  TxLife = 1
  TTL = 3
  MaxTime = 8
  MaxWrites = 2
  MaxLosses = 1
INVARIANTS TypeOK NothingSkipped
PROPERTY CatchesUp
