SPECIFICATION Spec
CONSTANTS
    k1 = k1
    k2 = k2
    DefaultKey = dk
    NoKey = nokey
    Keys = {k2}
    ScbkInit = {nokey}
    ScbkDInit = {dk}
    Cmds <- KeysetPoll
    Selectors = {0, 1}
    Addresses = {1}
    PdAddresses = {1}
    ReplyTimeout = 0
    OfflineTimeout = 1
    PdOfflineTimeout = 1
    GivesUp = TRUE
    MaxIds = 2
    MaxNonces = 2
    MaxRegisters = 0
    MaxWire = 1
    Faults = {"short"}
    Verdicts = {"OK"}
    ReplyFits = {TRUE}
    MaxPdRestarts = 0
INVARIANTS
    SessionAgreement
    SecureReplyAnswers
PROPERTIES
    DisplacedOnlyIfGivenUp
