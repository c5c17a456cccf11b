SPECIFICATION Spec
CONSTANTS
    alice = alice
    bob = bob
    carol = carol
    wallet = wallet
    registry = registry
    text = text
    Account = {alice, bob}
    Deployer = alice
    Definition = {text}
    Contract = {registry}
    Conforming = {}
    NoResolver = NoResolver
    Subject = {wallet}
    Payload = {text}
    Metadata = {text, wallet}
    Expiration = {0, 2}
    MaxTime = 3
    MaxEvents = 4
INVARIANTS UIDsAreUsedUp NoncesCountAttestations DelegateListMatchesMap LogReplaysToState
PROPERTIES RecordsOnlyGetRevoked ViewIsLifecycle LogIsEventStream VerificationCoversMetadata
