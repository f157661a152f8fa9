\* The whole lifecycle, with and without privilege escalation, two launches.
SPECIFICATION Spec
CONSTANTS
    Pid = {p1, p2}
    NoPid = NoPid
    Detachments = {TRUE, FALSE}
INVARIANTS
    TypeOK
    ChildExpectHolds
    OneVmm
    VmmInReadyEnv
PROPERTIES
    ExitIsFinal
    OutputPipesDelivered
    KilledWaitReturns
