SPECIFICATION Spec
CONSTANTS
    k1 = k1
    k2 = k2
    DefaultKey = dk
    NoKey = nokey
    Keys = {k1}
    ScbkInit = {k1}
    ScbkDInit = {nokey}
    Cmds <- PollOut
    Selectors = {1}
    Addresses = {1}
    PdAddresses = {1}
    ReplyTimeout = 0
    OfflineTimeout = 1
    PdOfflineTimeout = 1
    GivesUp = FALSE
    MaxIds = 2
    MaxNonces = 1
    MaxRegisters = 1
    MaxWire = 1
    Faults = {"lose", "corrupt"}
    Verdicts = {"OK", "BUSY", "OTHER"}
    ReplyFits = {TRUE}
    MaxPdRestarts = 0
INVARIANTS
    TypeOK
    ChainRecoverable
    AtMostOnce
