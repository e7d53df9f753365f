\* The scheduler idles when no trigger fires.
CONSTANTS
    t1 = t1
    t2 = t2
    t3 = t3
    NoItem = NoItem
    Trigger = {t1, t2}
    Info <- AppInfo
    MaxConcurrent = 1
    MaxFires = 3
SPECIFICATION Spec
CHECK_DEADLOCK FALSE
PROPERTY QueueDrains
