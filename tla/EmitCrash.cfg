SPECIFICATION Spec
CONSTANTS
  NumRuns = 1
  NumSteps = 6
  Kind <- DispatchTemplate
  Sessions = {w}
  Nobody = Nobody
  BatchLimit = 1
  ExecutionModes = {"queued"}
  MaxCrashes = 1
  MaxOverruns = 0
  MaxCancels = 0
  MaxRequests = 0
INVARIANT EmittedIsPersisted
