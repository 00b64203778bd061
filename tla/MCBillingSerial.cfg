CONSTANTS
    Users = {u1}
    Refs = {r1, r2}
    Sessions = {s1}
    Gateways = {"paystack", "flutterwave"}
    Recurring <- BasicPlans
    Null = Null
SPECIFICATION ReliableSpec
INVARIANTS
    TierInSync
    StatusMatchesTier
PROPERTIES
    KeepsPromise
    CancellationEndsFree
