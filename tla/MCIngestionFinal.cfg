CONSTANTS
    Vertical = "ecommerce"
    Uploads = {f1}
    LastDay = 1
    Accounts = {a1}
    Workers = {w1}
    Requests = {q1}
    Markers = {}
    MaxLost = 1
    Null = Null
SPECIFICATION ReliableSpec
PROPERTIES
    ReadyIsFinal
CHECK_DEADLOCK FALSE
