SPECIFICATION FairSpec
CONSTANTS
    Sessions = {s1}
    Nobody = Nobody
    Runs = {r1, r2}
    Payloads = {x, y}
    MaxEvents = 4
    Uuid <- Shuffled
    Limit = 2
    MaxPublishes = 3
    MaxCrashes = 0
    MaxOutages = 0
PROPERTY EventsAreEvidenced
