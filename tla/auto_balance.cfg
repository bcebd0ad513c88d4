SPECIFICATION FairSpec
CONSTANTS
  Unit = {u1, u2, u3}
  First = {u1, u2}
  MinReplicas = 2
  u1 = u1
  u2 = u2
  u3 = u3
  Rack <- MCRack
  NoRack = NoRack
  Faults = {}
  MaxChanges = 2
  MaxElections = 1
  MaxFailures = 1
  MaxActions = 1
  MaxRefills = 2
CHECK_DEADLOCK FALSE
INVARIANT TypeOK
PROPERTIES CapacityKeptWhileHolding DetachEnds BalanceConverges
