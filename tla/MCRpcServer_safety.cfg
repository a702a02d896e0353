\* Three connections of two clients, whatever each of them sends.
SPECIFICATION Spec
CONSTANTS
    Requests = {r1, r2, r3}
    Clients = {c1, c2}
    Ssl = FALSE
    NoRequest = NoRequest
SYMMETRY MCSymmetry
INVARIANTS TypeOK NoLostUpdate MutexHeld TurnedAwayForOwnFault NoGhostInTar
CHECK_DEADLOCK FALSE
PROPERTIES ImplementsSerial OneAnswer
