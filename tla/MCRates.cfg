CONSTANTS
    p1 = p1  c1 = c1  c2 = c2  c3 = c3  r1 = r1  r2 = r2  u1 = u1  s1 = s1
    Absent = Absent
    Nothing = Nothing
    Processes = {p1}
    Keys <- AllKeys
    Callers = {c1, c2}
    ProcessOf <- OneProcess
    Limit = 1
    MaxCount = 3
    LimitKey <- LimiterKey
    LockKey <- LocksKey
    Users = {u1}
    Requests = {r1, r2}
    HostOf <- OneHost
    Passwords = {pw1}
    Secrets = {k1, k2}
    Ids = {i1, i2}
    States = {s1}
    MaxAttempts = 1
    Pricings = {j1}
    Syncs = {y1}
    LastDay = 3
    Answers = {"rate", "refusal", "outage"}
SPECIFICATION PricingSpec
INVARIANTS
    RateIsCurrent
CHECK_DEADLOCK FALSE
