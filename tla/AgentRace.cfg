SPECIFICATION FairSpec
CONSTANTS
  NumRuns = 1
  NumSteps = 2
  Kind <- AgentTemplate
  Sessions = {s1, s2}
  Nobody = Nobody
  BatchLimit = 1
  ExecutionModes = {"queued", "sync"}
  MaxCrashes = 1
  MaxOverruns = 0
  MaxCancels = 0
  MaxRequests = 0
INVARIANT
  RunningHasLease
PROPERTY
  LeasesRecovered
