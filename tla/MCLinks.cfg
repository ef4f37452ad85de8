SPECIFICATION SuiteSpec
INVARIANTS
    SuiteTypeOK
    OwnAnswer
    StreamTellsResponse
    ConversationAsked
    TrailComplete
    
PROPERTIES
    DroppedOnlyWhenLost
CHECK_DEADLOCK FALSE
