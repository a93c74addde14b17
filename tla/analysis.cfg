\* Three rows of any kind; two days of two hours.
CONSTANTS
    t1 = t1
    t2 = t2
    t3 = t3
    u1 = u1
    Tasks = {t1, t2, t3}
    Users = {u1}
    NoTask = NoTask
    Null = Null
    Hours = 2
    Horizon = 3
    Zones <- MCZones
SPECIFICATION Spec
SYMMETRY Symmetry
INVARIANTS PercentagesAddUp DaysAddUpToTotal AdjacentPeriodsAddUp
CHECK_DEADLOCK FALSE
