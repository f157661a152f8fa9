SPECIFICATION Spec
CONSTANTS
    None = None
    NoOverride = NoOverride
    Disable = Disable
INVARIANTS
    SubnetsFit
    AddressesStayInSubnet
    CommandSaysArguments
    ReplaceOrderIrrelevant
    FcnetSaysConfiguration
