SPECIFICATION FairSpec
CONSTANTS
    Message <- MCMessage
    Protocol <- MCProtocol
    Peer <- MCPeer
    Thread <- MCThread
    Workload <- RelayOrServe
    MaxClears = 1
    Requester = {"verifier"}
    MaxInbound = 3
    MaxRestarts = 1
INVARIANTS AgentsTypeOK PendingCallsWait RequestsAcceptedOnce ForgottenStaysForgotten ConversationsAreApart XmtpInOrder
PROPERTIES ImplementsAnswerService 
