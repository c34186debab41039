CONSTANTS
    Runs = {r1}
    Initial = Initial
    Legacy = Legacy
    None = None
    MaxFaults = 1
SPECIFICATION Spec
INVARIANTS
    BootSucceeds
CHECK_DEADLOCK FALSE
