CONSTANTS
    Slot = {"one frame", "all frames"}
    HeaderSize = 2
    LengthRange = 4
    MaxRetries = 1
    BodySizes = {1, 2, 4}
    MaxFrames = 3
SPECIFICATION FairSpec
INVARIANT TypeOK
PROPERTIES QueueOfFrames KeepsUp
CHECK_DEADLOCK FALSE
