\* Every non-empty file up to five bytes.  The function returns and then stops.
SPECIFICATION FairSpec
CONSTANTS
    Byte = {1, 2}
    Files <- MCFiles
    Maxima <- MCMaxima
    MinLength = 1
    MaxLength = 5
CHECK_DEADLOCK FALSE
INVARIANTS
    TypeOK
    ReturnsSegments
    ReturnsCut
    NeverBeyondEnd
PROPERTIES
    Terminates
