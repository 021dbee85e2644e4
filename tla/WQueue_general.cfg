\* The general queue: several consumers and spurious wakeups.
\* A remove() from an empty list ends its thread, so the system may stop.
SPECIFICATION Spec
CONSTANTS
    Producers = {p1, p2}
    Consumers = {c1, c2, c3}
    Items = {a, b}
    MaxEntries = 3
    SpuriousWakeups = TRUE
    NoThread = NoThread
    Nothing = Nothing
SYMMETRY MCSymmetry
CHECK_DEADLOCK FALSE
INVARIANTS
    NoLostWakeup
    NoEmptyPop
PROPERTIES
    ImplementsQueue
