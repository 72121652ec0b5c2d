SPECIFICATION FairSpec
CONSTANTS
    ByteBits = 2
    Words <- MCWords
    Commands <- MCRouted
    Images <- MCImages
    MaxSet = 2
    MaxCommands = 2
    MaxPolls = 2
CHECK_DEADLOCK FALSE
INVARIANTS
    TypeOK
    DoneAsAsked
    NoOverlap
PROPERTIES
    OnlyTouchedBytes
    BatchEnds
