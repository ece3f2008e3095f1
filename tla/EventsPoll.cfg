SPECIFICATION EventsSpec
CONSTANTS
    Sizes = {1, 3}
    EventCap = 9
    ScratchLen = 2
    PdOfflineTimeout = 1
    MaxEvents = 5
    MaxFlight = 2
INVARIANTS
    BufferHoldsRecords
    EventsInOrder
    NoEventForgotten
PROPERTIES
    OutageDiscards
