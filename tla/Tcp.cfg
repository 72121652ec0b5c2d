CONSTANTS
    A = A
    B = B
    Clients = {A, B}
    Port <- MCPort
    Tasks = {t1}
    MaxSendPkts = 2
    ResendAfter = 0
    CloseAfter = 0
    GiveUpAfter = 2
    TimeWaitLimit = 0
    CloseTries = 1
    SeqSpace = 16
    MaxEpochs = 2
    Isn <- MCIsn
    Plans <- MCPlans
SPECIFICATION FairSpec
INVARIANTS TypeOK SocketsPaired StreamIntact AckedBeforeFreed WindowExact NoLostWakeup
PROPERTIES CallsReturn HalfOpenEnds
