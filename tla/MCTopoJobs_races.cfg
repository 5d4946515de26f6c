CONSTANTS
  h1 = h1
  h2 = h2
  d1 = d1
  d2 = d2
  j1 = j1
  r1 = r1
  r2 = r2
  s1 = s1
  Starts <- TwoStarts
  Deletes <- TwoDeletes
  Joins <- OneJoin
  Reapers <- TwoReapers
  Sweeps <- OneSweep
  Bytes = 1
  Elsewhere = 1
  LongRequests = FALSE
SYMMETRY Symmetry
SPECIFICATION Spec
INVARIANTS TypeOK ChargedForWhatIsThere OutputsKept NothingLeft
PROPERTIES KeepsLifecycle
CHECK_DEADLOCK FALSE
