CONSTANTS
    d1 = d1  d2 = d2  d3 = d3  c1 = c1  c2 = c2  c3 = c3
    a1 = a1  a2 = a2
    Users = {p1, p2}
    Refs = {r1}
    Sessions = {s1, s2}
    Gateways = {"paystack", "flutterwave"}
    Recurring <- AllPlans
    Null = Null
    Members = {m1}
    Inquiries = {q1}
    MaxChanges = 1
    NoRole = NoRole
    Words = {"total", "amt", "memo"}
    FieldOrder <- FieldsInOrder
    Exact <- Synonyms
    Money = {"amount"}
    Tables <- SomeTables
    Files <- SomeFiles
    Uploads = {p1, p2}
    Clients = {s1, s2}
    Cells <- SomeCells
    Amounts <- SomeAmounts
    Unset = Unset
    Rows = {d1, d2, c1}
    Accounts = {a1, a2}
    AccountOf <- TwoAccounts
    Compatible <- Shared
    Processes = {p1, p2}
    Requests = {s1, s2}
    Unseen = Unseen
    Debits = {d1, d2, d3}
    Credits = {c1, c2, c3}
SPECIFICATION MCSpec
SYMMETRY Symmetry
INVARIANTS
    RoutesTypeOK
    PaidForTier
    SuccessIsPaid
    CodeIsOwn
    AnswerWasAllowed
    WriteWasAllowed
    
    
    
    FlaggedHasPartner
    AnalysedIsScanned
    LoopsFindScan
CHECK_DEADLOCK FALSE
