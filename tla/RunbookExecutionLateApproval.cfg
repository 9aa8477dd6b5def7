SPECIFICATION Spec
CONSTANTS
  MaxExecutions = 1
  Clients = {c1}
  Operations <- DecisionOperations
  Requests <- GatedRequests
  BatchLimit = 1
  Steps = 1
  FailureThreshold = 2
  MaxCrashes = 0
  MaxStops = 0
INVARIANT ApprovedCanBePickedUp
