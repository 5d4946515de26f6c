SPECIFICATION Spec
CONSTANTS
  ann = ann
  bob = bob
  t1 = t1
  t2 = t2
  t3 = t3
  request = request
  mount = mount
  f1 = f1
  f2 = f2
  None = None
  Mount = mount
  Users <- TwoUsers
  Tokens <- ThreeTokens
  Callers <- TwoCallers
  Flights <- TwoFlights
INVARIANTS TypeOK SessionKept  OwnToken NobodyWaitsInVain
SYMMETRY Symmetry
