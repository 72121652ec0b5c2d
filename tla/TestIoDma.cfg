SPECIFICATION Spec
CONSTANTS
    ByteBits = 2
    Words <- MCWords
    Commands <- MCAll
    Images <- MCImages
    MaxSet = 1
    MaxCommands = 1
    MaxPolls = 2
CHECK_DEADLOCK FALSE
INVARIANT ReachesDevice
