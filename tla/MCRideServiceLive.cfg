CONSTANTS
    Trips = {t1}
    Drivers = {d1, d2}
    Points = {0, 2}
    Distances = {0}
    Handlers = {h1}
    Nil = Nil
    MatchRadius = 1
    InfraFaults = FALSE
SPECIFICATION FairSpec
PROPERTY DriverAssignedTakesEffect
CHECK_DEADLOCK FALSE
