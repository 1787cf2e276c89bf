SPECIFICATION Spec
CONSTANTS
  NumRuns = 1
  NumSteps = 4
  Kind <- ScanTemplate
  Sessions = {w}
  Nobody = Nobody
  BatchLimit = 1
  ExecutionModes = {"queued"}
  MaxCrashes = 0
  MaxOverruns = 0
  MaxCancels = 1
  MaxRequests = 0
PROPERTY CancelIsFinal
