\* Eight segments, the last one short; frames lost anywhere, and dropped where a
\* path is full.  A finished transfer stops, and so does a stalled one.
SPECIFICATION FairSpec
CONSTANTS
    Length = 15
    Byte <- MCByte
    File <- MCFile
    Segments <- MCSegments
    MaximumBytes = 2
    PathCapacity = 6
    MaxLosses = 3
CHECK_DEADLOCK FALSE
INVARIANTS
    TypeOK
    AckedIsWritten
    HandshakeInOrder
    AcksEndSegments
PROPERTIES
    ImplementsTransfer
    CompletesUnlessDropped
    RepairedOrStalled
