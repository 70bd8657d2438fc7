CONSTANTS
    Slot = {"one frame", "all frames"}
    HeaderSize = 2
    LengthRange = 4
    MaxRetries = 1
    BodySizes = {1, 2}
    MaxFrames = 2
SPECIFICATION Spec
PROPERTY GivesUpOnlyWithoutData
CHECK_DEADLOCK FALSE
