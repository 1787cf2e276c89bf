SPECIFICATION FairSpec
CONSTANTS
  NumRuns = 2
  NumSteps = 6
  Kind <- DispatchTemplate
  Sessions = {w}
  Nobody = Nobody
  BatchLimit = 2
  ExecutionModes = {"queued", "sync"}
  MaxCrashes = 0
  MaxOverruns = 1
  MaxCancels = 1
  MaxRequests = 0
INVARIANTS
  SuccessIsComplete
  EmittedIsPersisted
PROPERTIES
  RunsSettle
  SettledIsAnnounced
