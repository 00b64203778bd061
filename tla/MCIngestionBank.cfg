CONSTANTS
    f1 = f1  f2 = f2  a1 = a1  a2 = a2  w1 = w1  w2 = w2  q1 = q1  q2 = q2
    Vertical = "bank"
    Uploads = {f1, f2}
    LastDay = 3
    Accounts = {a1, a2}
    Workers = {w1, w2}
    Requests = {q1, q2}
    Markers = {{1}, {1, 2}}
    MaxLost = 1
    Null = Null
SPECIFICATION MCSpec
INVARIANTS
    StoredOnceByOne
    AccountsSoundByOne
    MarkersAppliedApart
    StagedIsTrackedWhileUp
PROPERTIES
    FairUploadSettles
CHECK_DEADLOCK FALSE
