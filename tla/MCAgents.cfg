SPECIFICATION SuiteSpec
INVARIANTS
    SuiteTypeOK
    
    
    
PROPERTIES
    
    AgentsReturn
CHECK_DEADLOCK FALSE
