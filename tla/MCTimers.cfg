CONSTANTS
    t1 = t1
    t2 = t2
    Timers <- MCTimers
    Durations <- MCDurations
    Points <- MCPoints
    Instants <- MCInstants
    Wrap = 1600000000
    Horizon = 4000000
SPECIFICATION Spec
INVARIANTS TypeOK Punctual
PROPERTIES WholeSecondsInOrder
CHECK_DEADLOCK FALSE
