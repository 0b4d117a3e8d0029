CONSTANTS
    Conns = {c1, c2, c3}
    Broadcasters = {b1}
    Nil = Nil
SPECIFICATION HubSpec
INVARIANT BroadcastReachesSnapshot
CHECK_DEADLOCK FALSE
