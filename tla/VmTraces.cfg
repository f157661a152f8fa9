SPECIFICATION Spec
CONSTANTS
    Lives = 2
    Calls = 2
    Setups = {{"removesLogs"}, {"json", "vsock"}}
INVARIANTS
    TypeOK
    SocketIsFresh
    LivingVmKeepsItsFiles
    OnlyLeftoversRemain
    BroughtSnapshotSurvives
PROPERTIES
    SnapshotOnlyRemoved
    CleanupReturns
CHECK_DEADLOCK FALSE
