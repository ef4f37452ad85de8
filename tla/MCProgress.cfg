\* Small instances: the strongly connected parts of the graph are searched for
\* behaviours that never get anywhere.
SPECIFICATION SuiteSpec
PROPERTIES
    RequestsReturn
    ShutdownReturns
    ReopensAndRecovers
    VerdictsFollow
CHECK_DEADLOCK FALSE
