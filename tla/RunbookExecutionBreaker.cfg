SPECIFICATION Spec
CONSTANTS
  MaxExecutions = 2
  Clients = {c1, c2}
  Operations <- OverrideOperations
  Requests <- FreeRequests
  BatchLimit = 2
  Steps = 1
  FailureThreshold = 2
  MaxCrashes = 0
  MaxStops = 1
SYMMETRY ClientSymmetry
INVARIANT ThresholdTrips
