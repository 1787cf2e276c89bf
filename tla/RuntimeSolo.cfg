SPECIFICATION Spec
CONSTANTS
  NumRuns = 2
  NumSteps = 6
  Kind <- DispatchTemplate
  Sessions = {w}
  Nobody = Nobody
  BatchLimit = 2
  ExecutionModes = {"queued"}
  MaxCrashes = 1
  MaxOverruns = 1
  MaxCancels = 1
  MaxRequests = 0
PROPERTIES
  CompletedStepStays
  RecordedCallIsFinal
