SPECIFICATION FairSpec
CONSTANTS
    DegradedAfter = 1
    BaseDelay = 1
    MaxDelay = 30
    FailureCap = 7
INVARIANTS OneHeartbeat OpenFeedNotDisconnected DelayMatchesFailures
PROPERTIES Reconnects DisconnectEndsStream StaleIsPublished
