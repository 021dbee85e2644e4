\* Every file up to six bytes in segments of two; any segment may be lost.
\* The transfer ends, or the server waits for a lost last segment.
SPECIFICATION FairSpec
CONSTANTS
    Byte = {1, 255}
    SEGMENT_EOF = 255
    Files <- MCFiles
    MaxLength = 6
    MaximumBytes = 2
    PathCapacity = 2
CHECK_DEADLOCK FALSE
INVARIANTS
    TypeOK
    CopyLacksOnlyLost
    StopsAtFinalSegment
PROPERTIES
    ServerEnds
