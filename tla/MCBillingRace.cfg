CONSTANTS
    Users = {u1}
    Refs = {r1, r2}
    Sessions = {s1, s2}
    Gateways = {"paystack"}
    Recurring <- NoPlans
    Null = Null
SPECIFICATION ReliableSpec
PROPERTIES
    RaceIsRetried
