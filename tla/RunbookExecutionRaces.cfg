SPECIFICATION Spec
CONSTANTS
  MaxExecutions = 1
  Clients = {c1, c2}
  Operations <- DecisionOperations
  Requests <- MixedRequests
  BatchLimit = 1
  Steps = 2
  FailureThreshold = 2
  MaxCrashes = 1
  MaxStops = 1
SYMMETRY ClientSymmetry
INVARIANT TypeOK
INVARIANT NoRunWithoutAuthority
INVARIANT OneRunPerBoot
INVARIANT TalliesWithinRuns
PROPERTY OutcomeChangedByStaleRequestOnly
