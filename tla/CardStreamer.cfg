SPECIFICATION Spec
CONSTANTS
    MaxStreamers = 2
    MaxVersion = 3
    MaxCalls = 2
    Kinds <- AllKinds
INVARIANTS
    CardInv
PROPERTIES
    CardNeverGoesBack
    TextIsShown
CHECK_DEADLOCK FALSE
