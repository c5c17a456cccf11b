SPECIFICATION Spec
CONSTANTS
    Call = {1, 2}
    Workload <- MCWorkload
    Topics <- MCTopics
    Resolvers <- MCResolvers
    Faults = TRUE
INVARIANTS ClientsTypeOK AuditsAreTrue ExitCodeTells
PROPERTIES ImplementsOperation EverythingSettles
CHECK_DEADLOCK FALSE
