SPECIFICATION FairSpec
CONSTANTS
  Broker = {b1}
  Controller = {c1, c2}
  Faults = {}
  MaxPasswords = 1
  MaxAdmins = 1
  MaxElections = 1
CHECK_DEADLOCK FALSE
INVARIANT PasswordInv
PROPERTIES EveryUnitStarts PasswordsConverge
