SPECIFICATION SuiteSpec
PROPERTIES
    
    ServersStop
CHECK_DEADLOCK FALSE
