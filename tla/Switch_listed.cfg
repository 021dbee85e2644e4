\* Two receivers that list their first address at the same time.
\* The process may crash on a bad read, and then stops.
SPECIFICATION Spec
CONSTANTS
    a = a
    b = b
    c = c
    Connected = 2
    Macs = {a, b, c}
    BroadcastMac = BroadcastMac
    Attached <- MCAttached2
    Frames <- MCFrames
    QueueLength = 1
    Reserved = 3
    Unwritten = Unwritten
    NoFrame = NoFrame
CHECK_DEADLOCK FALSE
INVARIANTS
    SenderIsListed
