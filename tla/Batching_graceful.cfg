CONSTANTS
    Callers = {c1, c2}
    Deadlined = {}
    MaxBatchSize = 2
    MaxQueueSize = 2
SPECIFICATION FairSpec
PROPERTY GracefulShutdown
CHECK_DEADLOCK FALSE
