\* The scheduler idles when no trigger fires.
CONSTANTS
    t1 = t1
    t2 = t2
    t3 = t3
    NoItem = NoItem
    Trigger = {t1, t2, t3}
    Info <- MCInfo
    MaxConcurrent = 2
    MaxFires = 5
SPECIFICATION Spec
CHECK_DEADLOCK FALSE
INVARIANTS TypeOK RejectRunsOnce UrgentFirst FifoWithinPriority
PROPERTY QueueMoves
