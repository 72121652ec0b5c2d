CONSTANTS
    AddressBits = {1}
    MaxRequests = 3
    MaxResets = 3
SPECIFICATION FairSpec
CHECK_DEADLOCK FALSE
INVARIANTS TypeOK RequestIntact PacketForStage AddressAgreed WaitsForSetup
PROPERTIES RequestsCompleted ResetRecovers
