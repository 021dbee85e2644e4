\* One lost frame: the SYN is not repeated.
SPECIFICATION FairSpec
CONSTANTS
    Length = 5
    Byte <- MCByte
    File <- MCFile
    Segments <- MCSegments
    MaximumBytes = 2
    PathCapacity = 4
    MaxLosses = 1
CHECK_DEADLOCK FALSE
PROPERTIES
    SynIsRepeated
