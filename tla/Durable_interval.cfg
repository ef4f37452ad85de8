CONSTANTS
    Configs <- LocalManual
    Interval = 2
    MaxSteps = 4
    MaxCheckpoints = 2
    MaxTime = 0
    MaxCount = 1
SPECIFICATION Spec
INVARIANT CheckpointsEveryN
CHECK_DEADLOCK FALSE
