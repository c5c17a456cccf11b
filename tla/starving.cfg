SPECIFICATION FairSpec
CONSTANTS
    Schema <- MCSchema
    Event <- WithDelegates
    History <- OneSchema
    MaxEvents = 4
    MaxCrashes = 0
    MaxLookups = 1
    Lasting <- NoneLast
    PageSize = 2
    WritesFail = FALSE
    HcsEnabled = FALSE
    MaxCalls = 1
    MaxTopics = 1
PROPERTIES EventuallyIndexed
