SPECIFICATION DisturbFairSpec
CONSTANTS
    Types <- MCTypes
    Supported <- MCSupported
    MaxCmds = 3
    MaxDisturb = 2
    QSize = 1
CHECK_DEADLOCK FALSE
INVARIANTS
    TypeOK
    SingleBaton
    OneInFlight
PROPERTIES
    BuffersIntact
    EveryCommandAnswered
    ImplementsChannel
    MaskReleased
    NeverWedged
