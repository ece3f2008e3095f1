SPECIFICATION StreamSpec
CONSTANTS
    Templates <- Both
    Som = 9
    HeaderLen = 3
    MinLen = 4
    MinLenCrc = 5
    MaxLen = 8
    BufferLen = 8
    ChunkLen = 2
    Interchar = 2
    Silence = 6
    Bursts = {2, 5}
    MaxFrames = 3
    MaxLost = 1
INVARIANTS
    StreamTypeOK
    DecodedInOrder
    DecodeProgress
    CleanFrameDecoded
