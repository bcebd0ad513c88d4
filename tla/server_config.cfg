SPECIFICATION FairSpec
CONSTANTS
  NumUnits = 2
  RoleSets <- MCRoleSets
  BasePorts <- MCBasePorts
  MaxExtra = 2
  Planned <- MCPlanned
  Deployed <- MCDeployed
  Faults = {}
  MaxChanges = 1
  MaxFailures = 1
  MaxLosses = 1
CHECK_DEADLOCK FALSE
INVARIANT FileInv
PROPERTIES StartSafety ConfigurationArrives
