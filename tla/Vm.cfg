\* One launch, every configuration, shutdown with no, one or two methods.
SPECIFICATION VmSpec
CONSTANTS
    Pid = {p1}
    NoPid = NoPid
    Detachments = {FALSE}
    MinMethods = 0
    MaxMethods = 2
INVARIANTS
    VmTypeOK
    TrackedPause
    ShutdownOkMeansDead
    StartOkMeansBooted
    PausedBeforeKill
PROPERTIES
    LastWaitEnds
    ImplementsLifecycle
