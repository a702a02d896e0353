----------------------------- MODULE RpcServer -----------------------------
(***************************************************************************)
(* targetd/main.py and the tarpit of targetd/utils.py: the main thread     *)
(* accepts connections, one handler thread per connection runs do_POST,    *)
(* a mutex serializes the calls, and a client that showed bad credentials  *)
(* is held in a tarpit.  A connection carries one request (HTTP/1.0).      *)
(* With ssl the listening socket is wrapped, so that accept() itself makes *)
(* the TLS handshake, without a timeout: the main thread waits for what    *)
(* the client sends.                                                       *)
(*                                                                         *)
(* What a called method does is the business of Block and the other        *)
(* component modules; here it reads what all methods share and writes it   *)
(* back ("many things we are calling into are not thread safe").           *)
(***************************************************************************)
EXTENDS Naturals, FiniteSets

CONSTANTS
    Requests,       \* bound: the connections ever made, each with its thread
    Clients,        \* client addresses
    Ssl,            \* config["ssl"]
    NoRequest       \* the holder of a free mutex

ASSUME NoRequestAssumption == NoRequest \notin Requests
ASSUME SslAssumption == Ssl \in BOOLEAN
ASSUME FiniteAssumption == IsFiniteSet(Requests)

\* What a client sends, by the first thing do_POST finds wrong with it.  A
\* stalled client may stop sending anywhere: in a handshake, a header, a body.
Faults == {"malformed", "bad_creds", "bad_path", "too_big", "stalled",
           "unparsable", "invalid", "no_method"}
Kinds == Faults \cup {"call"}

\* How a method ends.  Its KeyError and that of mapping[method] are one.
Outcomes == {"result", "KeyError", "TypeError", "TargetdError", "Exception"}

ErrorCode == [KeyError |-> "-32601", TypeError |-> "-32602",
              TargetdError |-> "td.error", Exception |-> "-1"]

NoAnswer == [status |-> 0, body |-> "none"]

VARIABLES
    run,        \* RUN, until SIGINT
    main,       \* the main thread: about to test RUN, in handle_request,
                \* in a client's TLS handshake, out
    pc,         \* where each handler thread is in do_POST
    from,       \* the address of a request's client
    kind,       \* what the request is
    answer,     \* what the client was sent: a status line, a JSON-RPC body
    tar,        \* tar.client: the clients in the tarpit
    mutex,      \* the request whose thread holds the mutex
    seen,       \* what a running method read of the shared state
    store       \* the shared state: the calls whose effects it has

server == <<run, main>>
request == <<from, kind>>
calls == <<mutex, seen, store>>
vars == <<run, main, pc, from, kind, answer, tar, mutex, seen, store>>

Init ==
    /\ run = TRUE /\ main = "test"
    /\ pc = [r \in Requests |-> "new"]
    /\ from \in [Requests -> Clients]
    /\ kind \in [Requests -> Kinds]
    /\ answer = [r \in Requests |-> NoAnswer]
    /\ tar = {}
    /\ mutex = NoRequest
    /\ seen = [r \in Requests |-> 0]
    /\ store = 0

-----------------------------------------------------------------------------
(* The main thread.                                                        *)

\* SIGINT may come at any time.
Interrupt ==
    /\ run /\ run' = FALSE
    /\ UNCHANGED <<main, pc, request, answer, tar, calls>>

\* Slip: RUN is not tested.
TestNothing ==
    /\ main = "test"
    /\ main' = "accept"
    /\ UNCHANGED <<run, pc, request, answer, tar, calls>>

\* while RUN; past it the listening socket is closed.
TestRun ==
    /\ main = "test"
    /\ main' = IF run THEN "accept" ELSE "closed"
    /\ UNCHANGED <<run, pc, request, answer, tar, calls>>

\* handle_request gives a connection a thread, with ssl after a handshake ...
Accept(r) ==
    /\ main = "accept" /\ pc[r] = "new"
    /\ \/ ~Ssl /\ main' = "test" /\ pc' = [pc EXCEPT ![r] = "auth"]
       \/ Ssl /\ main' = "handshake" /\ pc' = [pc EXCEPT ![r] = "handshake"]
    /\ UNCHANGED <<run, request, answer, tar, calls>>

\* ... that fails or is made ...
Handshake(r) ==
    /\ main = "handshake" /\ pc[r] = "handshake"
    /\ main' = "test"
    /\ \E there \in {"auth", "gone"} : pc' = [pc EXCEPT ![r] = there]
    /\ UNCHANGED <<run, request, answer, tar, calls>>

\* ... or finds no connection within half a second.
AcceptTimeout ==
    /\ main = "accept"
    /\ main' = "test"
    /\ UNCHANGED <<run, pc, request, answer, tar, calls>>

-----------------------------------------------------------------------------
(* do_POST, one thread.                                                    *)

At(r, here, next) == pc[r] = here /\ pc' = [pc EXCEPT ![r] = next]

SendError(r, code) == answer' = [answer EXCEPT ![r].status = code]

\* The Authorization header is decoded.
Authorization(r) ==
    /\ \/ kind[r] = "malformed" /\ At(r, "auth", "done") /\ SendError(r, 400)
       \/ kind[r] # "malformed" /\ At(r, "auth", "stuck") /\ UNCHANGED answer
    /\ UNCHANGED <<server, request, tar, calls>>

\* Slip: the 503 does not end do_POST.
IsStuckGoesOn(r) ==
    /\ At(r, "stuck", "creds")
    /\ \/ from[r] \in tar /\ SendError(r, 503)
       \/ from[r] \notin tar /\ UNCHANGED answer
    /\ UNCHANGED <<server, request, tar, calls>>

\* tar.is_stuck, under tar.lock.
IsStuck(r) ==
    /\ \/ from[r] \in tar /\ At(r, "stuck", "done") /\ SendError(r, 503)
       \/ from[r] \notin tar /\ At(r, "stuck", "creds") /\ UNCHANGED answer
    /\ UNCHANGED <<server, request, tar, calls>>

Credentials(r) ==
    /\ \/ kind[r] = "bad_creds" /\ At(r, "creds", "enter") /\ UNCHANGED answer
       \/ kind[r] = "bad_path" /\ At(r, "creds", "done") /\ SendError(r, 404)
       \/ kind[r] \notin {"bad_creds", "bad_path"} /\ At(r, "creds", "read") /\ UNCHANGED answer
    /\ UNCHANGED <<server, request, tar, calls>>

\* Slip: one client's bad credentials put every client into the tarpit.
EnterPitAll(r) ==
    /\ At(r, "enter", "pitted")
    /\ tar' = Clients
    /\ UNCHANGED <<server, request, answer, calls>>

\* Slip: the tarpit is keyed by connection.
EnterPitConnection(r) ==
    /\ At(r, "enter", "pitted")
    /\ tar' = tar \cup {r}
    /\ UNCHANGED <<server, request, answer, calls>>

\* Pit.__enter__, under tar.lock.
EnterPit(r) ==
    /\ At(r, "enter", "pitted")
    /\ tar' = tar \cup {from[r]}
    /\ UNCHANGED <<server, request, answer, calls>>

\* The two seconds are over.
Pitted(r) ==
    /\ At(r, "pitted", "leave")
    /\ SendError(r, 401)
    /\ UNCHANGED <<server, request, tar, calls>>

\* Slip: the client stays in the tarpit.
LeavePitNot(r) ==
    /\ At(r, "leave", "done")
    /\ UNCHANGED <<server, request, answer, tar, calls>>

\* Pit.__exit__, under tar.lock: `del` of a client that is not there raises,
\* and socketserver logs what a handler raises.
LeavePit(r) ==
    /\ \/ from[r] \in tar /\ At(r, "leave", "done") /\ tar' = tar \ {from[r]}
       \/ from[r] \notin tar /\ At(r, "leave", "raised") /\ UNCHANGED tar
    /\ UNCHANGED <<server, request, answer, calls>>

\* The body is read and checked; what is raised but no ValueError, say by a
\* missing content-length, is a "jsonrpc error".  A stalled client may never send it all, or
\* hang up, which leaves half a body.  The status line of the 200 goes out
\* between parsing the body and looking into it.
ReadRequest(r) ==
    /\ \/ kind[r] = "too_big" /\ At(r, "read", "done") /\ SendError(r, 413)
       \/ /\ kind[r] \in {"unparsable", "stalled"} /\ At(r, "read", "done")
          /\ \E code \in {"-32700", "-1"} : answer' = [answer EXCEPT ![r].body = code]
       \/ /\ kind[r] = "invalid" /\ At(r, "read", "done")
          /\ \E code \in {"-32600", "-1"} :
                answer' = [answer EXCEPT ![r] = [status |-> 200, body |-> code]]
       \/ kind[r] \in {"no_method", "call"} /\ At(r, "read", "acquire") /\ SendError(r, 200)
    /\ UNCHANGED <<server, request, tar, calls>>

\* Slip: the mutex is not waited for.
AcquireFree(r) ==
    /\ At(r, "acquire", "call")
    /\ mutex' = r
    /\ UNCHANGED <<server, request, answer, tar, seen, store>>

\* mutex.acquire blocks.
Acquire(r) ==
    /\ mutex = NoRequest
    /\ At(r, "acquire", "call")
    /\ mutex' = r
    /\ UNCHANGED <<server, request, answer, tar, seen, store>>

\* Slip: the method is looked up before the try whose finally releases.
CallOutsideTry(r) ==
    /\ \/ /\ kind[r] = "no_method" /\ At(r, "call", "done")
          /\ answer' = [answer EXCEPT ![r].body = ErrorCode["KeyError"]]
          /\ UNCHANGED seen
       \/ /\ kind[r] = "call" /\ At(r, "call", "work")
          /\ seen' = [seen EXCEPT ![r] = store]
          /\ UNCHANGED answer
    /\ UNCHANGED <<server, request, tar, mutex, store>>

\* mapping[method] is called, or is missing.
Call(r) ==
    /\ \/ /\ kind[r] = "no_method" /\ At(r, "call", "release")
          /\ answer' = [answer EXCEPT ![r].body = ErrorCode["KeyError"]]
          /\ UNCHANGED seen
       \/ /\ kind[r] = "call" /\ At(r, "call", "work")
          /\ seen' = [seen EXCEPT ![r] = store]
          /\ UNCHANGED answer
    /\ UNCHANGED <<server, request, tar, mutex, store>>

\* The method ends; one that raises has done its work in part or in full.
Finish(r, outcome) ==
    /\ At(r, "work", "release")
    /\ store' = seen[r] + 1
    /\ answer' = [answer EXCEPT ![r].body =
                     IF outcome = "result" THEN "result" ELSE ErrorCode[outcome]]
    /\ UNCHANGED <<server, request, tar, mutex, seen>>

\* finally: mutex.release(), and the body is written.
Release(r) ==
    /\ At(r, "release", "done")
    /\ mutex' = NoRequest
    /\ UNCHANGED <<server, request, answer, tar, seen, store>>

Step(r) ==
    \/ Authorization(r) \/ IsStuck(r) \/ Credentials(r)
    \/ EnterPit(r) \/ Pitted(r) \/ LeavePit(r)
    \/ ReadRequest(r) \/ Acquire(r) \/ Call(r) \/ Release(r)
    \/ \E outcome \in Outcomes : Finish(r, outcome)

Next ==
    \/ Interrupt \/ TestRun \/ AcceptTimeout
    \/ \E r \in Requests : Accept(r) \/ Handshake(r) \/ Step(r)

Spec == Init /\ [][Next]_vars

\* The main loop runs, and so does every thread, but where it waits for a stalled
\* client; the methods end.  No SIGINT need come, nor any connection.
Waits(r) == kind[r] = "stalled" /\ pc[r] \in {"handshake", "auth", "read"}

Fairness ==
    /\ WF_vars(TestRun) /\ WF_vars(AcceptTimeout \/ \E r \in Requests : Accept(r))
    /\ \A r \in Requests : WF_vars((Handshake(r) \/ Step(r)) /\ ~Waits(r))

FairSpec == Spec /\ Fairness

-----------------------------------------------------------------------------
(* What has to be true.                                                    *)

\* Where a connection has no thread: not made, in its handshake, or failed there.
Outside == {"new", "handshake", "gone"}

Places == Outside \cup
    {"auth", "stuck", "creds", "enter", "pitted", "leave", "read",
     "acquire", "call", "work", "release", "done", "raised"}

Statuses == {0, 200, 400, 401, 404, 413, 503}
Bodies == {"none", "result", "-1", "-32700", "-32600", "-32601", "-32602", "td.error"}

Ended(r) == pc[r] \in {"done", "raised"}

TypeOK ==
    /\ run \in BOOLEAN
    /\ main \in {"test", "accept", "handshake", "closed"}
    /\ pc \in [Requests -> Places]
    /\ from \in [Requests -> Clients]
    /\ kind \in [Requests -> Kinds]
    /\ answer \in [Requests -> [status : Statuses, body : Bodies]]
    /\ tar \in SUBSET Clients
    /\ mutex \in Requests \cup {NoRequest}
    /\ seen \in [Requests -> Nat]
    /\ store \in Nat

\* "We will process things one at a time": no call's effects are lost to
\* another call that ran beside it.
Executed == {r \in Requests : kind[r] = "call" /\ pc[r] \in {"release", "done"}
                              /\ answer[r].body # "none"}

NoLostUpdate == store = Cardinality(Executed)

\* How far a request has come, to who sees no threads.
Phase(r) ==
    IF pc[r] \in Outside THEN "away"
    ELSE IF r \in Executed THEN IF pc[r] = "done" THEN "answered" ELSE "executed"
    ELSE IF pc[r] \in {"done", "raised"} THEN "turned away" ELSE "waiting"

OutcomeOf(r) ==
    IF r \notin Executed THEN "none"
    ELSE IF answer[r].body = "result" THEN "result" ELSE "error"

\* "Handle rpc requests concurrently, but process them sequentially": whatever
\* the threads do, each call takes effect at one moment.
Serial == INSTANCE SerialServer
    WITH open    <- main # "closed",
         calls   <- {r \in Requests : kind[r] = "call"},
         phase   <- [r \in Requests |-> Phase(r)],
         outcome <- [r \in Requests |-> OutcomeOf(r)],
         store   <- store

ImplementsSerial == Serial!Spec

\* The mutex is held by a request between acquire and release, and only then:
\* no error path leaves it locked.
MutexHeld == \A r \in Requests : mutex = r <=> pc[r] \in {"call", "work", "release"}

\* A client is turned away only while, or because, one of its own requests
\* showed bad credentials; nobody brute-forcing the password locks out others.
TurnedAwayForOwnFault ==
    \A r \in Requests : answer[r].status = 503 =>
        \E q \in Requests \ {r} : from[q] = from[r] /\ kind[q] = "bad_creds" /\ pc[q] \notin Outside

\* Nobody stays in the tarpit without a request that is in it.
NoGhostInTar ==
    \A c \in tar : \E r \in Requests : from[r] = c /\ pc[r] \in {"pitted", "leave"}

\* On every way through do_POST, by return or by exception, a request is sent one
\* answer: no second status line, nothing after the body, and something at all.
OneAnswer ==
    [][\A r \in Requests :
          /\ answer[r].status # 0 => answer'[r].status = answer[r].status
          /\ answer[r].body # "none" => answer'[r] = answer[r]
          /\ pc'[r] \in {"done", "raised"} => answer'[r] # NoAnswer]_vars

\* Once accepted, a request is answered, SIGINT or not, other clients' bad
\* credentials or stalled requests or not.
EveryRequestAnswered ==
    \A r \in Requests :
        pc[r] = "auth" /\ kind[r] # "stalled" ~> Ended(r) /\ answer[r] # NoAnswer

\* A client gets out of the tarpit.
TarpitEnds == \A c \in Clients : c \in tar ~> c \notin tar

\* After SIGINT the server stops listening, however many connections come, but as
\* long as a stalled client keeps the main thread in its TLS handshake.
ShutsDown ==
    ~run ~> \/ main = "closed"
            \/ \E r \in Requests : pc[r] = "handshake" /\ kind[r] = "stalled"

-----------------------------------------------------------------------------
(* What the comments say and the code does not do.                         *)

\* "This client already has a failed authentication attempt": a client whose
\* failed attempt is being held up is stuck.
PittedIsStuck == \A r \in Requests : pc[r] \in {"pitted", "leave"} => from[r] \in tar
=============================================================================
