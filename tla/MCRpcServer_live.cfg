\* Two connections to a server with ssl, under the fairness of the threads.
SPECIFICATION FairSpec
CONSTANTS
    Requests = {r1, r2}
    Clients = {c1, c2}
    Ssl = TRUE
    NoRequest = NoRequest
PROPERTIES EveryRequestAnswered TarpitEnds ShutsDown
CHECK_DEADLOCK FALSE
