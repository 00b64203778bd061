CONSTANTS
    None = None
    Entries <- SomeEntries
    Histories <- SomeHistories
    RoundModulus = 10
    MaxEntries = 2
    MaxLost = 1
    MaxOwn = 1
    Markers = {{5}, {33, 63}}
    MaxMeasured = 1
    MaxFlaws = 2
SPECIFICATION MCSpec
INVARIANTS
    ReportsTypeOK
    
    ReportsAgree
    HealthEarned
PROPERTIES
    GainsNeverCost
CHECK_DEADLOCK FALSE
