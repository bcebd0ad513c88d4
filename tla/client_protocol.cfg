SPECIFICATION Spec
CONSTANTS
  Unit = {k1, k2}
  ClientUnit = {c1}
  Request = {plain, secured}
  Mtls = {secured}
  Entity = {secured}
  Faults = {}
  MaxEvents = 3
  MaxElections = 2
CHECK_DEADLOCK FALSE
INVARIANT ProtocolInv
PROPERTIES EveryClientIsCurrent AclsFollowTheCertificate
