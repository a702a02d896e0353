---------------------------- MODULE SerialServer ----------------------------
(***************************************************************************)
(* What targetd's server promises, without threads, mutex and tarpit: it   *)
(* takes requests in, and each call among them takes effect at one moment, *)
(* after it came in and before it is answered, at most once, on the shared *)
(* state as the call before it left it.  Or the request is turned away,    *)
(* and has no effect.                                                      *)
(*                                                                         *)
(* That a call is one step is what Block, Zfs, Btrfs, LvmPools and Nfs     *)
(* start from.                                                             *)
(***************************************************************************)
EXTENDS Naturals

CONSTANT Requests

VARIABLES
    open,       \* does the server listen?
    calls,      \* the requests that are calls of a method by who may call it
    phase,      \* how far each request has come
    outcome,    \* how each call ended
    store       \* the shared state: the number of calls that took effect

vars == <<open, calls, phase, outcome, store>>

Init ==
    /\ open = TRUE
    /\ calls \in SUBSET Requests
    /\ phase = [r \in Requests |-> "away"]
    /\ outcome = [r \in Requests |-> "none"]
    /\ store = 0

Move(r, here, there) == phase[r] = here /\ phase' = [phase EXCEPT ![r] = there]

Arrive(r) ==
    /\ open
    /\ Move(r, "away", "waiting")
    /\ UNCHANGED <<open, calls, outcome, store>>

\* A call may be turned away, too: another request of its client is in the tarpit.
TurnAway(r) ==
    /\ Move(r, "waiting", "turned away")
    /\ UNCHANGED <<open, calls, outcome, store>>

\* One call after the other: the one before has let go of the shared state.
Execute(r) ==
    /\ r \in calls
    /\ \A q \in Requests : phase[q] # "executed"
    /\ Move(r, "waiting", "executed")
    /\ \E how \in {"result", "error"} : outcome' = [outcome EXCEPT ![r] = how]
    /\ store' = store + 1
    /\ UNCHANGED <<open, calls>>

Answer(r) ==
    /\ Move(r, "executed", "answered")
    /\ UNCHANGED <<open, calls, outcome, store>>

\* Requests that are in are still served.
Close ==
    /\ open /\ open' = FALSE
    /\ UNCHANGED <<calls, phase, outcome, store>>

Next ==
    \/ Close
    \/ \E r \in Requests : Arrive(r) \/ TurnAway(r) \/ Execute(r) \/ Answer(r)

Spec == Init /\ [][Next]_vars

=============================================================================
