CONSTANTS
    t1 = t1
    t2 = t2
    Timers <- MCTimers
    Durations <- ExampleDurations
    Points <- MCPoints
    Instants <- ExampleInstants
    Wrap = 1600000000
    Horizon = 4000000
SPECIFICATION Spec
INVARIANTS NeverEarly
CHECK_DEADLOCK FALSE
