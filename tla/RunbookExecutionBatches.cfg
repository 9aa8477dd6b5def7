SPECIFICATION FairSpec
CONSTANTS
  MaxExecutions = 2
  Clients = {c1}
  Operations <- BatchOperations
  Requests <- GatedRequests
  BatchLimit = 1
  Steps = 1
  FailureThreshold = 1
  MaxCrashes = 1
  MaxStops = 0
PROPERTY KeepsPromise
PROPERTY ReadyEventuallyEnds
PROPERTY OverdueEventuallyLeaves
