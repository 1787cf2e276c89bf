SPECIFICATION Spec
CONSTANTS
  NumRuns = 1
  NumSteps = 6
  Kind <- DispatchTemplate
  Sessions = {s1, s2}
  Nobody = Nobody
  BatchLimit = 1
  ExecutionModes = {"queued", "sync"}
  MaxCrashes = 0
  MaxOverruns = 1
  MaxCancels = 0
  MaxRequests = 4
CONSTRAINT FewRequests
SYMMETRY Symmetry
INVARIANTS
  TypeOK
  ExternalWritesGated
  StatusesEarned
PROPERTY
  ImplementsGovernedRuns
