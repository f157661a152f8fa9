SPECIFICATION Spec
CONSTANTS
    None = None
    NoOverride = NoOverride
    Disable = Disable
INVARIANT FromInetFindsSubnet
