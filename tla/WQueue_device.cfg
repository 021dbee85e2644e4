\* A queue as the devices use it: several producers, one consumer.
SPECIFICATION FairSpec
CONSTANTS
    Producers = {p1, p2}
    Consumers = {c1}
    Items = {a, b}
    MaxEntries = 2
    SpuriousWakeups = FALSE
    NoThread = NoThread
    Nothing = Nothing
INVARIANTS
    TypeOK
PROPERTIES
    AddReturns
    ImplementsFairQueue
