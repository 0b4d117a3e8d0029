CONSTANTS
    Emails = {e1, e2}
    Phones = {p1, p2}
    Passwords = {w1, w2}
    Handlers = {h1, h2, h3}
    DbFaults = TRUE
    Nil = Nil
SPECIFICATION AccountsSpec


INVARIANT ConflictMeansTaken
CHECK_DEADLOCK FALSE
