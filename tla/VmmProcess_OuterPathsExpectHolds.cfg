SPECIFICATION Spec
CONSTANTS
    Pid = {p1, p2}
    NoPid = NoPid
    Detachments = {TRUE, FALSE}
INVARIANT OuterPathsExpectHolds
