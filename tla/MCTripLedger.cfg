CONSTANTS
    Trips = {t1, t2}
    Drivers = {d1, d2}
    Points = {0, 5}
    Distances = {0, 1}
    Handlers = {h1, h2}
    Nil = Nil
SPECIFICATION LedgerSpec
SYMMETRY MCSymmetry
INVARIANT TypeOK
INVARIANT CompletedEventsAgree
PROPERTY StatusFollowsLifecycle
PROPERTY DriverFixedOnceAssigned
CHECK_DEADLOCK FALSE
