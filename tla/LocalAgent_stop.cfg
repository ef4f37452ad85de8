CONSTANTS
    Clients = {c1, c2}
SPECIFICATION FairSpec
PROPERTY StopStops
CHECK_DEADLOCK FALSE
