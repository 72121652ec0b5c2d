SPECIFICATION Spec
CONSTANTS
    Ports <- MCPorts
    Width = 2
    MaxPin = 2
    Wire <- MCWire
    MaxSet = 2
    MaxBatches = 2
    MaxErrors = 1
CHECK_DEADLOCK FALSE
INVARIANT OutputsHeld
