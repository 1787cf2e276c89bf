SPECIFICATION MCSpec
SYMMETRY Symmetry
CHECK_DEADLOCK FALSE
CONSTANTS
    Foci = {github, mcp, "launch", "oauth", "schedules", "graph", "agent", "providers", "upserts", "secrets", "demo"}
    Changes = {c1}
    Hooks = {github, mcp}
    JsonStackHooks = {github}
    EffectfulHooks = {github}
    Reqs = {r1, r2}
    Nothing = Nothing
    MaxBoxes = 2
    MaxCalls = 2
    MaxSent = 2
    OReqs = {r1, r2}
    MaxFlows = 2
    MaxTokens = 2
    Templates = {scan}
    Customs = {mine}
    SReqs = {r1, r2}
    TickLimit = 1
    MaxNow = 1
    MaxEdits = 2
    EdgeIds = {e1}
    MaxNodes = 3
    MaxLinks = 3
    Sizes = {0, 1, 2, 3}
    DocCap = 2
    TotalCap = 3
    MaxDocs = 3
    MaxItems = 2
    MaxWire = 4
    XReqs = {r1, r2}
    MaxUpserts = 2
    MaxVersions = 2
INVARIANT
    TypeOK
    ComponentsTypeOK
    AppliedIsTraced
    ReplayOnceRecorded
    WritesAccounted
    StatusTracksColumns
    ExitCodeIsTheContainers
    LeftoverIsReplayed
    CallbackMatches
    StoredTokenIsNewest
    ConfigurationSurvives
    GraphsAreOrders
    FindingsNameTheirSource
    SuccessIsBacked
    StreamIsWhole
    EffectsAreApproved
    SentWithSecret
    GateIsAnswered
PROPERTY
    ImplementsLifecycle
