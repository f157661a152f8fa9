SPECIFICATION Spec
CONSTANTS
    Outer = {o1, o2}
    Inner = {i1, i2}
    None = None
    MaxPaths = 2
    Attempts = 1
INVARIANT UniqueNamesAreEnough
CHECK_DEADLOCK FALSE
