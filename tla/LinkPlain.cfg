SPECIFICATION Spec
CONSTANTS
    k1 = k1
    k2 = k2
    DefaultKey = dk
    NoKey = nokey
    Keys = {k1}
    ScbkInit = {nokey}
    ScbkDInit = {nokey}
    Cmds <- ComsetOut
    Selectors = {}
    Addresses = {1}
    PdAddresses = {1}
    ReplyTimeout = 0
    OfflineTimeout = 1
    PdOfflineTimeout = 1
    GivesUp = FALSE
    MaxIds = 5
    MaxNonces = 1
    MaxRegisters = 0
    MaxWire = 2
    Faults = {}
    Verdicts = {"OK", "NOT_SUPPORTED"}
    ReplyFits = {TRUE, FALSE}
    MaxPdRestarts = 0
INVARIANTS
    ReplyAnswers
    OneAnswer
PROPERTIES
    AddressAnnounced
    ImplementsRpc
