SPECIFICATION FairSpec
CONSTANTS
  ib = ib
  ic = ic
  None = None
  Broker = {b1, b2}
  Controller = {c1, c2}
  Ca = {ib, ic, x, y}
  Internal <- OwnCa
  Faults = {}
  MaxChanges = 2
  MaxSans = 1
  MaxElections = 1
  MaxFailures = 1
CHECK_DEADLOCK FALSE
INVARIANT TrustInv
PROPERTY RotationEnds
