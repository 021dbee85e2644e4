\* Two hosts and the gateway; uses of the switch's table may overlap.
\* Every frame is sent once, and the process may crash on a bad read.
SPECIFICATION FairNetSpec
CONSTANTS
    alice = alice
    bob = bob
    gw = gw
    Connected = 3
    Macs = {alice, bob, gw}
    BroadcastMac = BroadcastMac
    Attached <- MCAttached
    Gateway = 2
    Frames <- MCFrames
    QueueLength = 1
    StationLength = 1
    Reserved = 3
    Unwritten = Unwritten
    NoFrame = NoFrame
CHECK_DEADLOCK FALSE
INVARIANTS
    EntriesTruthful
PROPERTIES
    ImplementsPaths
    LoneFrameArrives
