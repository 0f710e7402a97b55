CONSTANTS
    Clients = {c1, c2, c3}
    NotAnIP = NotAnIP
    Proxy = Proxy
    TrustProxy = TRUE
    Forgeries <- Lies
    Burst = 1
    Cost = 3
    IdleTTL = 3
    MaxLimiters = 2
    MaxTime = 5
SPECIFICATION FairSpec
INVARIANTS
    TypeOK
    WithinRate
    TableBounded
PROPERTIES
    RefusedOnlyWithCause
    CreditChangesOnlyByGrant
    IdleIsForgotten
