SPECIFICATION MCSpec
CONSTANTS
    Refused = Refused
    BufferCalls <- Bindings
    RecordCalls <- Lists
    Requests <- Commands
    Receivers = {0, 600}
    ItemCounts = {70}
    MaxCalls = 4
    MaxCommands = 2
INVARIANTS
    ReportSorted
    ReplayGenuine
    CodecRoundTrip
PROPERTIES
    PromisedFrameReceived
    FragmentFits
CHECK_DEADLOCK FALSE
