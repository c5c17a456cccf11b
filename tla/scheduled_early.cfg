SPECIFICATION Spec
CONSTANTS
    Attestation = {"a1"}
    MaxTime = 2
    MaxSchedules = 1
INVARIANTS ExecutesAtTheSpecifiedTime
CHECK_DEADLOCK FALSE
