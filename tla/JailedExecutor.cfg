SPECIFICATION Spec
CONSTANTS
    Outer = {o1, o2}
    Inner = {i1, i2}
    None = None
    MaxPaths = 2
    Attempts = 2
SYMMETRY Names
INVARIANTS
    TypeOK
    JailHoldsResources
    SourcesIntact
    HardLinkDetectsCollisions
    CleanupLeavesNothing
    PrepareNeverStuck
PROPERTIES
    PreparedJailIsStable
    ImplementsExecutor
CHECK_DEADLOCK FALSE
