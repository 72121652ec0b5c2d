CONSTANTS
    AddressBits = {1, 2}
    MaxRequests = 2
    MaxResets = 2
SPECIFICATION Spec
CHECK_DEADLOCK FALSE
INVARIANT EnabledForSetup
