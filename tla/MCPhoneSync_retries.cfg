CONSTANTS
  p1 = p1  p2 = p2  t1 = t1
  NoPlace = NoPlace  Unset = Unset  None = None
  Places = {p1}
  Trips = {}
  Known = {}
  MaxSeq = 3
  MaxStamp = 2
  BatchMax = 2
  GiveUp = 2
  Refusals = {"temporary"}
  Allowance <- RetryAllowance
SPECIFICATION FairSpec
PROPERTIES Converges
CHECK_DEADLOCK FALSE
