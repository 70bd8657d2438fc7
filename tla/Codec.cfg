CONSTANTS
    ByteRange = 4
    UuidSize = 1
    WordSize = 2
    LengthRange = 24
    MaxLength = 3
    Characters <- MCCharacters
    Messages <- MCMessages
SPECIFICATION Spec
INVARIANTS TypeOK LengthIsBytes Arrives
CHECK_DEADLOCK FALSE
