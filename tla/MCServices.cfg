\* Two concurrent callers, thresholds of 2, and requests enough for
\* closed -> open -> half-open -> open -> half-open -> closed.
CONSTANTS
    Callers = {c1, c2}
    FailureThreshold = 2
    SuccessThreshold = 2
    RecoveryTimeout = 2
    MaxRequests = 6
    MaxTime = 4
    Keys = {k1, k2, k3}
SPECIFICATION SuiteSpec
SYMMETRY Symmetry
INVARIANTS
    SuiteTypeOK
    CountersMatchState
    CacheSound
    BudgetEnforced
    
    RoutedSound
    
    
PROPERTIES
    ImplementsProtocol
CHECK_DEADLOCK FALSE
