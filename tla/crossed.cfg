SPECIFICATION Spec
CONSTANTS
    Message <- MCMessage
    Protocol <- MCProtocol
    Peer <- MCPeer
    Thread <- MCThread
    Workload <- OnlyRelay
    MaxClears = 1
    Requester = {"verifier"}
    MaxInbound = 2
    MaxRestarts = 0
INVARIANTS OldestIsTheAnswered
