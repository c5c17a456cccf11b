SPECIFICATION SystemSpec
CONSTANTS
    alice = alice
    bob = bob
    wallet = wallet
    text = text
    hbar = hbar
    gold = gold
    feeResolver = feeResolver
    whitelistResolver = whitelistResolver
    tokenGatedResolver = tokenGatedResolver
    tokenRewardResolver = tokenRewardResolver
    crossContractResolver = crossContractResolver
    Account = {alice, bob}
    Deployer = alice
    Definition = {text}
    Contract = {feeResolver, whitelistResolver, tokenGatedResolver, tokenRewardResolver, crossContractResolver}
    Conforming = {crossContractResolver}
    NoResolver = NoResolver
    Subject = {wallet}
    Payload = {text}
    Metadata = {}
    Expiration = {0}
    MaxTime = 1
    MaxEvents = 3
    Fee = {1}
    Amount = {2}
    MaxBalance = 2
    Candidate = {bob}
    Token = {hbar}
    Minimum = {1}
    MaxHolding = 1
    RewardToken = {gold}
    Reward = {1}
    Int64Max = 3
    InitialPool = 1
    Pipeline <- Pipelines
INVARIANTS ResolversTypeOK OnlyPipelinesBlockRevocation RewardsAreConserved
PROPERTIES AttestersPayTheFee GatesHold
