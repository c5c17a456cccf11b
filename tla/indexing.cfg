SPECIFICATION Spec
CONSTANTS
    Schema <- MCSchema
    Event <- OneRevocation
    History <- OnceUsed
    MaxEvents = 3
    MaxCrashes = 0
    MaxLookups = 0
    Lasting <- AllLast
    PageSize = 2
    WritesFail = TRUE
    HcsEnabled = TRUE
    MaxCalls = 2
    MaxTopics = 1
INVARIANTS IndexerTypeOK DatabaseSaysWhatHappened AuditFollowsDatabase
