SPECIFICATION TransferFairSpec
CONSTANTS
    Apps <- TwoApps
    Messages <- Mixed
    MaxFrag = 1
    MfgCap = 3
    FileCap = 3
    CmdCacheData = 1
    MfgVerdicts = {"OK", "BUSY", "OTHER"}
    FileVerdicts = {"OK", "BAD_PAYLOAD"}
    OfflineAfter = 2
    MaxFaults = 2
    MaxTransfers = 2
INVARIANTS
    BuffersBounded
    WholeMessage
    FinishedIsDelivered
    LossHarmless
PROPERTIES
    AbortForgets
    Delivers
