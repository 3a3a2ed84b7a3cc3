SPECIFICATION Spec
CONSTANTS
    Base = 3
    HeaderSize = 2
    Weight <- MCWeight
    MaxPayload = 3
    BufferSize = 8
    Frames <- MCFrames
    MaxFrames = 3
INVARIANT FramesArriveWhole
CHECK_DEADLOCK FALSE
