SPECIFICATION Spec
CONSTANTS
  hist = hist
  counter = counter
  label = label
  value = value
  group = group
  other = other
  env = env
  Empty = Empty
  Scopes <- MCScopes
  TaskLabels <- MCTaskLabels
  MetricNames = {hist, counter}
  Strings = {label, value}
  length <- MCLength
  Responses <- MCResponses
  NumAddresses = 2
  DefaultLimits <- MCDefaultLimits
  StoredLimits <- MCStoredLimits
  MetricRequests <- MCMetricRequests
  TargetRequests <- MCTargetRequests
  None = None
  MaxEdits = 2
INVARIANTS
  ReportIsExact
  AlarmsAreExact
  AlarmsAreShown
  RulesWereInForce
