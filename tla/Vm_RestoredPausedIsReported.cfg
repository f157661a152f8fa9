SPECIFICATION VmSpec
CONSTANTS
    Pid = {p1}
    NoPid = NoPid
    Detachments = {FALSE}
    MinMethods = 0
    MaxMethods = 2
INVARIANT RestoredPausedIsReported
