SPECIFICATION ReceiverSpec
CONSTANTS
    RCSWITCH_MAX_CHANGES = 11
    UintMod = 65536
    UlongMod = 16
    SYNC_MIN = 5000
    Codes <- MCCodes
    Skews <- MCSkews
    Gaps <- MCGaps
    MaxPulses = 2
    MaxSends = 1
INVARIANTS
    ReceiverTypeOK
    FrameReadable
    NothingReceived
    ReceiverRearmed
