CONSTANTS
    Users = {u1, u2}
    Verticals = {"ecommerce", "bank"}
    Roles = {"viewer"}
    Invites = {i1, i2}
    Sessions = {s1, s2}
    MaxCalls = 4
    Null = Null
SPECIFICATION MCSpec
SYMMETRY Symmetry
INVARIANTS
    ForeignRolesInvited
    OnePendingApart
PROPERTIES
    OwnersStay
    GrantsArePendingApart
    HomeStaysApart
CHECK_DEADLOCK FALSE
