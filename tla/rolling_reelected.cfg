SPECIFICATION FairSpec
CONSTANTS
  Unit = {u1, u2}
  Faults = {"leaderLoss", "inactive", "unhealthy", "rerequest"}
  RunsController = TRUE
  MaxChanges = 1
  MaxFaults = 1
  MaxElections = 2
CHECK_DEADLOCK FALSE
PROPERTY EveryUnitRestarts
