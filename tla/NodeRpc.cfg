CONSTANTS
    Calls = {c1, c2}
    None = None
    Registration = Registration
    Window = 1
SPECIFICATION FairSpec
INVARIANTS
    ReplyIsMine
    ReadLoopNeverBlocks
    NoPendingLeak
    WaiterReachable
PROPERTIES
    ImplementsCallContract
    CallReturns
    CloseReleasesCallers
CHECK_DEADLOCK FALSE
