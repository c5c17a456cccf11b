SPECIFICATION FairSpec
CONSTANTS
    Schema <- MCSchema
    Event <- MoreRecords
    History <- OnceUsed
    MaxEvents = 4
    MaxCrashes = 1
    MaxLookups = 1
    Lasting <- NoneLast
    PageSize = 2
    WritesFail = FALSE
    HcsEnabled = FALSE
    MaxCalls = 1
    MaxTopics = 1
INVARIANTS HistoryIsComplete
PROPERTIES RevocationsStick EventuallyIndexed
