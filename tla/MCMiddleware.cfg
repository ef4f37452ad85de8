\* 33 fractions a millisecond: three milliseconds fill a token up to the
\* epsilon, so truncated waits and a bucket below zero both happen.
CONSTANTS
    Callers = {c1, c2}
    Units = 100
    Epsilon = 1
    Rate = 33
    Capacity = 2
    TokensPerRequest = 1
    MaxWaitTimeout = 2
    MaxGrants = 4
    MaxTime = 6
    MaxRequests = 5
    Requests = {r1, r2}
    NoUser = NoUser
SPECIFICATION SuiteSpec
SYMMETRY Symmetry
INVARIANTS
    SuiteTypeOK
    RateBound
    
    AnswersFaithful
    RetriesJustified
PROPERTIES
    RefusalsJustified
CHECK_DEADLOCK FALSE
