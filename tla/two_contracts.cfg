SPECIFICATION Spec
CONSTANTS
    Schema <- MCSchema
    Event <- TwoSchemas
    History <- NoHistory
    MaxEvents = 3
    MaxCrashes = 0
    MaxLookups = 1
    Lasting <- NoneLast
    PageSize = 3
    WritesFail = FALSE
    HcsEnabled = FALSE
    MaxCalls = 1
    MaxTopics = 1
INVARIANTS HistoryIsComplete
