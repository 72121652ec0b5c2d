SPECIFICATION Spec
CONSTANTS
    Half = 2
    BlockPages = 2
    BasePage = 2
    ImagePages = 3
    Payloads = {a, b}
    Erased = Erased
    Corrupt = Corrupt
    MaxCrashes = 1
SYMMETRY Symmetry
INVARIANTS
    TypeOK
    AckedPagesPresent
PROPERTIES
    NeverOverprogrammed
