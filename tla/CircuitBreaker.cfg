CONSTANTS
    c1 = c1
    c2 = c2
    c3 = c3
    Callers = {c1, c2, c3}
    Threshold = 2
    Timeout = 2
SPECIFICATION FairSpec
INVARIANTS
    NoMissedTrip
    HalfOpenIsOnTrial
PROPERTIES
    Settles
