SPECIFICATION Spec
CONSTANTS
  NumRuns = 1
  NumSteps = 4
  Kind <- ScanTemplate
  Sessions = {s1, s2}
  Nobody = Nobody
  BatchLimit = 1
  ExecutionModes = {"queued"}
  MaxCrashes = 0
  MaxOverruns = 0
  MaxCancels = 0
  MaxRequests = 0
INVARIANT LeaseIsExclusive
