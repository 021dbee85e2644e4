\* Files whose data contains the byte that marks the end.
SPECIFICATION Spec
CONSTANTS
    Byte = {1, 255}
    SEGMENT_EOF = 255
    Files <- MCFiles
    MaxLength = 6
    MaximumBytes = 2
    PathCapacity = 2
CHECK_DEADLOCK FALSE
INVARIANTS
    FinalSegmentReceived
