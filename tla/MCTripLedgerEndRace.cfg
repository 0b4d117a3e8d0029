CONSTANTS
    Trips = {t1, t2}
    Drivers = {d1, d2}
    Points = {0, 5}
    Distances = {0, 1}
    Handlers = {h1, h2}
    Nil = Nil
SPECIFICATION LedgerSpec
CHECK_DEADLOCK FALSE
PROPERTY CompletionIsConditional
