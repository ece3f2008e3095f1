SPECIFICATION Spec
CONSTANTS
    k1 = k1
    k2 = k2
    DefaultKey = dk
    NoKey = nokey
    Keys = {k2}
    ScbkInit = {nokey}
    ScbkDInit = {nokey}
    Cmds <- KeysetPoll
    Selectors = {1}
    Addresses = {1}
    PdAddresses = {1}
    ReplyTimeout = 0
    OfflineTimeout = 1
    PdOfflineTimeout = 1
    GivesUp = FALSE
    MaxIds = 2
    MaxNonces = 1
    MaxRegisters = 0
    MaxWire = 1
    Faults = {}
    Verdicts = {"OK", "NOT_SUPPORTED"}
    ReplyFits = {TRUE}
    MaxPdRestarts = 0
PROPERTIES
    KeysetOnlyOnAck
