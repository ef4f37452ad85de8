SPECIFICATION SuiteSpec
INVARIANTS
    SuiteTypeOK
    
    SearchesSound
    
    RecordingsSound

    
CHECK_DEADLOCK FALSE
