SPECIFICATION Spec
CONSTANTS
    Pid = {p1, p2}
    NoPid = NoPid
    Detachments = {FALSE}
INVARIANT DeadChildMeansDeadVmm
