CONSTANTS
  p1 = p1  p2 = p2  t1 = t1
  NoPlace = NoPlace  Unset = Unset  None = None
  Places = {p1,p2}
  Trips = {}
  Known = {p1}
  MaxSeq = 3
  MaxStamp = 2
  BatchMax = 2
  GiveUp = 2
  Refusals = {"final"}
  Allowance <- OtherDeviceAllowance
SPECIFICATION Spec
INVARIANTS EditKept NoResurrection ReplacedTextKept CursorHonest
CHECK_DEADLOCK FALSE
