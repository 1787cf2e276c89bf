SPECIFICATION Spec
CONSTANTS
    Sessions = {s1, s2}
    Nobody = Nobody
    Runs = {r1}
    Payloads = {x}
    MaxEvents = 1
    Uuid <- OneId
    Limit = 1
    MaxPublishes = 1
    MaxCrashes = 0
    MaxOutages = 0
SYMMETRY Symmetry
INVARIANT AckedIsEvidenced
