SPECIFICATION FairSpec
CONSTANTS
    WordLen = 2
    Regs <- MCRegs
    Commands <- MCRouted
    Images <- MCImages
    Lossy = TRUE
    MaxPost = 2
    MaxSet = 2
    MaxCommands = 2
    MaxPolls = 2
CHECK_DEADLOCK FALSE
INVARIANTS
    TypeOK
    DoneAsAsked
    DefaultSelected
PROPERTIES
    OnlyNamedWords
    BatchEnds
