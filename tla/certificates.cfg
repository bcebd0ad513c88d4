SPECIFICATION Spec
CONSTANTS
  NumKeys = 2
  Encoded = {2}
  Attr = {a1, a2}
  Transferred = {t1}
  None = None
  Faults = {}
  MaxChanges = 2
CHECK_DEADLOCK FALSE
INVARIANTS HooksSucceed CertificatesInv
PROPERTIES CertificatesBecomeCurrent ClientsAreTrusted
