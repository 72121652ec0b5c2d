SPECIFICATION Spec
CONSTANTS
    WordLen = 2
    Regs <- MCRegs
    Commands <- MCUsb
    Images <- MCImages
    Lossy = FALSE
    MaxPost = 2
    MaxSet = 2
    MaxCommands = 2
    MaxPolls = 2
CHECK_DEADLOCK FALSE
INVARIANT SelectionRestored
