SPECIFICATION Spec
CONSTANTS
  s1 = s1
  s2 = s2
  s3 = s3
  None = None
  Unit = {k1, k2}
  Owner = k1
  Plain = {p}
  Secret = {s1, s2, s3}
  Requested = {s1, s2}
  GroupOf <- MCGroupOf
  Value = {v1, v2}
  Faults = {}
  MaxHooks = 3
  MaxWrites = 3
  MaxElections = 1
CHECK_DEADLOCK FALSE
INVARIANT SecretsInv
PROPERTY ImplementsFieldStore
