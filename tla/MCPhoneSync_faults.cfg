CONSTANTS
  p1 = p1  p2 = p2  t1 = t1
  NoPlace = NoPlace  Unset = Unset  None = None
  Places = {p1}
  Trips = {}
  Known = {}
  MaxSeq = 4
  MaxStamp = 3
  BatchMax = 2
  GiveUp = 2
  Refusals = {"final"}
  Allowance <- FaultAllowance
SPECIFICATION Spec
INVARIANTS TypeOK EditKept   PendingShown 
PROPERTIES ParkedWaits
CHECK_DEADLOCK FALSE
