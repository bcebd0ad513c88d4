SPECIFICATION Spec
CONSTANTS
  Unit = {k1, k2}
  Loki <- MCLoki
  Files <- MCFiles
  LokiRules = {2}
  Invalid = {2}
  Deployments = {{"metrics"}, {"dashboards"}, {"logging"}}
  Faults = {}
  MaxChanges = 3
CHECK_DEADLOCK FALSE
SYMMETRY Symmetry
INVARIANTS PrometheusInv GrafanaInv LogTargetsMatch
PROPERTY LogsKeepFlowing
