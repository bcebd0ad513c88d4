SPECIFICATION Spec
CONSTANTS
  Unit = {u1, u2, u3}
  Faults = {"hookFails", "depart"}
  RunsController = FALSE
  MaxChanges = 1
  MaxFaults = 2
  MaxElections = 2
CHECK_DEADLOCK FALSE
SYMMETRY Symmetry
INVARIANTS TypeOK AtMostOneGrant NoTwoRestarts RestartOwnsLock
PROPERTY GrantKeptUntilReleased
