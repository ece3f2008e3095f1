SPECIFICATION FairSpec
CONSTANTS
    k1 = k1
    k2 = k2
    DefaultKey = dk
    NoKey = nokey
    Keys = {k1}
    ScbkInit = {k1}
    ScbkDInit = {nokey}
    Cmds <- IdOnly
    Selectors = {1}
    Addresses = {1}
    PdAddresses = {1}
    ReplyTimeout = 0
    OfflineTimeout = 1
    PdOfflineTimeout = 1
    GivesUp = TRUE
    MaxIds = 2
    MaxNonces = 1
    MaxRegisters = 0
    MaxWire = 1
    Faults = {"lose"}
    Verdicts = {"OK"}
    ReplyFits = {TRUE}
    MaxPdRestarts = 1
INVARIANTS
    EventsTellPhase
    EstablishedIsOnline
PROPERTIES
    Unblocks
    HalfOpenDetected
    HandshakeResolves
