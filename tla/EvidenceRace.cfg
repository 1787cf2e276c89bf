SPECIFICATION Spec
CONSTANTS
    Sessions = {s1, s2}
    Nobody = Nobody
    Runs = {r1, r2}
    Payloads = {x}
    MaxEvents = 3
    Uuid <- ThreeShuffled
    Limit = 2
    MaxPublishes = 2
    MaxCrashes = 1
    MaxOutages = 1
SYMMETRY Symmetry
INVARIANT TypeOK
INVARIANT EvidenceBacked
INVARIANT ChainGrounded
INVARIANT ChainLinear
INVARIANT ReadsInOrder
INVARIANT AckAfterEvidence
INVARIANT ConsumedOnce
PROPERTY ImplementsAuditLog
