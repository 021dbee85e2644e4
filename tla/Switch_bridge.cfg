\* Two interfaces, two hosts behind one of them.
\* The process may crash on a bad read, and then stops.
SPECIFICATION FairSpec
CONSTANTS
    a = a
    b = b
    c = c
    Connected = 2
    Macs = {a, b, c}
    BroadcastMac = BroadcastMac
    Attached <- MCAttached2
    Frames <- MCFrames
    QueueLength = 1
    Reserved = 3
    Unwritten = Unwritten
    NoFrame = NoFrame
CONSTRAINT
    BeforeRace
CHECK_DEADLOCK FALSE
INVARIANTS
    TypeOK
    TableSound
    ListedUnlessRaced
PROPERTIES
    ImplementsFairBridge
