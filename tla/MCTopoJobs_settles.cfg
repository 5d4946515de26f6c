CONSTANTS
  h1 = h1
  h2 = h2
  d1 = d1
  d2 = d2
  j1 = j1
  r1 = r1
  r2 = r2
  s1 = s1
  Starts = {h1}
  Deletes = {d1}
  Joins <- OneJoin
  Reapers = {r1}
  Sweeps <- OneSweep
  Bytes = 1
  Elsewhere = 0
  LongRequests = TRUE
SPECIFICATION FairSpec
PROPERTIES Settles
CHECK_DEADLOCK FALSE
