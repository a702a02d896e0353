\* Two bad attempts of one client.
SPECIFICATION Spec
CONSTANTS
    Requests = {r1, r2}
    Clients = {c1}
    Ssl = FALSE
    NoRequest = NoRequest
INVARIANT PittedIsStuck
CHECK_DEADLOCK FALSE
