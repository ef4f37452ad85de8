CONSTANTS
    Agents = {a1}
    heartbeatTimeout = 2
    MaxWait = 2
SPECIFICATION FairSpec
PROPERTY StopStops
CHECK_DEADLOCK FALSE
