CONSTANTS
    Vertical = "ecommerce"
    Uploads = {f1, f2}
    LastDay = 2
    Accounts = {a1}
    Workers = {w1, w2}
    Requests = {q1, q2}
    Markers = {}
    MaxLost = 1
    Null = Null
SPECIFICATION OrdersSpec
SYMMETRY Symmetry
INVARIANTS
    
    ReadyIsStored
CHECK_DEADLOCK FALSE
