SPECIFICATION MCSpec
CONSTANTS
  Unit = {u1, u2}
  Request = {c1}
  Mtls = {c1}
  LongName = {c1}
  Starred = {}
  Roles <- BothRoles
  Faults = {}
  MaxElections = 1
  MaxCrashes = 1
CHECK_DEADLOCK FALSE
INVARIANT CredentialsInv
PROPERTIES EveryClientServed EveryUserRemoved
