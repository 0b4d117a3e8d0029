CONSTANTS
    Conns = {c1, c2, c3}
    Broadcasters = {b1}
    Nil = Nil
SPECIFICATION HubSpec
SYMMETRY MCSymmetry
INVARIANT SubscribersExact
CHECK_DEADLOCK FALSE
