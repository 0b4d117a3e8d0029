CONSTANTS
    Trips = {t1, t2}
    Drivers = {d1, d2}
    Points = {0, 2}
    Distances = {0}
    Handlers = {h1}
    Nil = Nil
    MatchRadius = 1
    InfraFaults = TRUE
SPECIFICATION Spec
SYMMETRY MCSymmetry
CHECK_DEADLOCK FALSE
INVARIANT FailedMatchRedelivered
