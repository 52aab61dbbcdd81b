SPECIFICATION Spec
CONSTANTS
  Requests = {r1, r2}
  SpecPaths <- MCPaths
  Calls <- MCCalls
  Claims = {"name", "role"}
  Confs <- MCConfs
  MaxTemplate = 6
SYMMETRY Symmetry
CHECK_DEADLOCK FALSE
INVARIANTS
  GaugeIsInFlight
  RecordedIsSent
  LabelsAgree
  ClaimsReachHandler
  ExpandsByOffsets
