SPECIFICATION DeployedSpec
CONSTANTS
    alice = alice
    wallet = wallet
    text = text
    Account = {alice}
    Deployer = alice
    Definition = {text}
    Contract = {}
    Conforming = {}
    NoResolver = NoResolver
    Subject = {wallet}
    Payload = {text}
    Metadata = {text}
    Expiration = {2}
    MaxTime = 3
    MaxEvents = 3
    MaxCrashes = 1
    MaxLookups = 0
    PageSize = 2
    WritesFail = FALSE
    HcsEnabled = FALSE
    MaxCalls = 1
    MaxTopics = 1
INVARIANTS RowsAreOnChain
PROPERTIES FollowsTheContracts
