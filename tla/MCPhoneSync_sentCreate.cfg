CONSTANTS
  p1 = p1  p2 = p2  t1 = t1
  NoPlace = NoPlace  Unset = Unset  None = None
  Places = {p1}
  Trips = {}
  Known = {}
  MaxSeq = 3
  MaxStamp = 3
  BatchMax = 2
  GiveUp = 2
  Refusals = {"final"}
  Allowance <- FaultAllowance
SPECIFICATION Spec
INVARIANT EditKeptInSentCreate
CHECK_DEADLOCK FALSE
