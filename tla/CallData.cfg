SPECIFICATION MCSpec
CONSTANTS
    None = None
    r1 = r1
    Calls = {1, 2}
    Requests = {r1}
    Recorded = {1, 2}
    Batch = 1
    PurgeBatch = 1
    MaxFaults = 1
INVARIANTS
    ErasedLeavesNothing
    PurgedIsGone
    EndedCallsAreErased
PROPERTIES
    RecordingSettles
    ExpiredIsPurged
CHECK_DEADLOCK FALSE
