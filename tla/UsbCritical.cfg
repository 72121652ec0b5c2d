SPECIFICATION Spec
CONSTANTS
    Types <- MCTypes
    Supported <- MCSupported
    MaxCmds = 2
    MaxDisturb = 0
    QSize = 16
CHECK_DEADLOCK FALSE
INVARIANTS
    InterruptStatePreserved
