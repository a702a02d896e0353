-------------------------- MODULE RpcServerProofs --------------------------
(***************************************************************************)
(* RpcServer for any number of connections and clients.  The mutex is held *)
(* exactly between acquire and release, on every path; so a method that    *)
(* runs finds the shared state as it read it; so no call's effects are     *)
(* lost to a call that ran beside it.                                      *)
(***************************************************************************)
EXTENDS RpcServer, FiniteSetTheorems, TLAPS

\* MutexHeld alone is inductive only for typed states.
Held == TypeOK /\ MutexHeld

\* Nothing is written between a method's read and its write.
SeesStore == \A r \in Requests : pc[r] = "work" => kind[r] = "call" /\ seen[r] = store

\* A call has no body before its method is done, so Executed counts it once.
NoBodyYet ==
    \A r \in Requests :
        kind[r] = "call" /\ pc[r] \notin {"release", "done"} => answer[r].body = "none"

Inv == Held /\ SeesStore /\ NoBodyYet /\ NoLostUpdate

USE DEF server, request, calls, Outside

\* A connection comes closer to having its thread, or is lost.
Admit(r) == Accept(r) \/ Handshake(r)

LEMMA AdmitIs ==
    ASSUME NEW r \in Requests, Admit(r)
    PROVE  /\ pc[r] \in {"new", "handshake"} /\ main # "closed"
           /\ main' \in {"test", "handshake"}
           /\ \E there \in {"handshake", "auth", "gone"} : pc' = [pc EXCEPT ![r] = there]
           /\ UNCHANGED <<run, request, answer, tar, calls>>
BY DEF Admit, Accept, Handshake

LEMMA ExecutedFinite == IsFiniteSet(Executed)
BY FiniteAssumption, FS_Subset DEF Executed

\* The server starts with the mutex free and nothing executed.
LEMMA InitInv == Init => Inv
<1>. SUFFICES ASSUME Init PROVE Inv
    OBVIOUS
<1>1. Held
    BY NoRequestAssumption
    DEF Init, Held, TypeOK, MutexHeld, Places, Kinds, Faults, NoAnswer, Statuses, Bodies
<1>2. SeesStore /\ NoBodyYet
    BY DEF Init, SeesStore, NoBodyYet, NoAnswer
<1>3. Executed = {}
    BY DEF Init, Executed
<1>4. NoLostUpdate
    BY <1>3, FS_EmptySet DEF Init, NoLostUpdate
<1>. QED  BY <1>1, <1>2, <1>4 DEF Inv

\* Who leaves the set of executed calls as it is, and the state, loses none.
LEMMA SameExecuted ==
    ASSUME NoLostUpdate, Executed' = Executed, store' = store
    PROVE  NoLostUpdate'
BY DEF NoLostUpdate

\* The steps of the main thread touch neither mutex nor state.
LEMMA MainInv ==
    ASSUME Inv, \/ Interrupt \/ TestRun \/ AcceptTimeout \/ \E r \in Requests : Admit(r)
    PROVE  Inv'
<1>. USE DEF Inv, Held, SeesStore, NoBodyYet, TypeOK, MutexHeld, Executed
<1>1. CASE Interrupt \/ TestRun \/ AcceptTimeout
  <2>1. UNCHANGED <<pc, request, answer, tar, calls>> /\ run' \in BOOLEAN
        /\ main' \in {"test", "accept", "handshake", "closed"}
      BY <1>1 DEF Interrupt, TestRun, AcceptTimeout
  <2>2. Executed' = Executed /\ store' = store
      BY <2>1
  <2>3. NoLostUpdate'
      BY <2>2, SameExecuted
  <2>4. Held' /\ SeesStore' /\ NoBodyYet'
      BY <2>1
  <2>. QED  BY <2>3, <2>4
<1>2. CASE \E r \in Requests : Admit(r)
  <2>0. PICK r \in Requests : Admit(r)
      BY <1>2
  <2>1. /\ pc[r] \in {"new", "handshake"} /\ main' \in {"test", "handshake"}
        /\ \E there \in {"handshake", "auth", "gone"} : pc' = [pc EXCEPT ![r] = there]
        /\ UNCHANGED <<run, request, answer, tar, calls>>
      BY <2>0, AdmitIs
  <2>2. Executed' = Executed /\ store' = store
      BY <2>1
  <2>3. NoLostUpdate'
      BY <2>2, SameExecuted
  <2>4. Held' /\ SeesStore' /\ NoBodyYet'
      BY <2>1 DEF Places
  <2>. QED  BY <2>3, <2>4
<1>. QED  BY <1>1, <1>2

\* The part of do_POST that comes before the mutex, one thread.
Before(r) ==
    \/ Authorization(r) \/ IsStuck(r) \/ Credentials(r)
    \/ EnterPit(r) \/ Pitted(r) \/ LeavePit(r) \/ ReadRequest(r)

\* A status line is no body.
LEMMA SendErrorOK ==
    ASSUME TypeOK, NEW r \in Requests, NEW code \in Statuses, SendError(r, code)
    PROVE  /\ answer' \in [Requests -> [status : Statuses, body : Bodies]]
           /\ \A q \in Requests : answer'[q].body = answer[q].body
BY DEF TypeOK, SendError

\* A body for what is no call leaves the bodies of the calls.
LEMMA ReadRequestOK ==
    ASSUME TypeOK, NEW r \in Requests, ReadRequest(r)
    PROVE  /\ answer' \in [Requests -> [status : Statuses, body : Bodies]]
           /\ \A q \in Requests :
                 q # r \/ kind[r] = "call" => answer'[q].body = answer[q].body
<1>1. CASE SendError(r, 200) \/ SendError(r, 413)
    BY <1>1, SendErrorOK DEF Statuses
<1>2. ASSUME kind[r] # "call", NEW code \in {"-32700", "-1"},
             answer' = [answer EXCEPT ![r].body = code]
      PROVE  /\ answer' \in [Requests -> [status : Statuses, body : Bodies]]
             /\ \A q \in Requests : q # r => answer'[q].body = answer[q].body
    BY <1>2 DEF TypeOK, Bodies
<1>3. ASSUME kind[r] # "call", NEW code \in {"-32600", "-1"},
             answer' = [answer EXCEPT ![r] = [status |-> 200, body |-> code]]
      PROVE  /\ answer' \in [Requests -> [status : Statuses, body : Bodies]]
             /\ \A q \in Requests : q # r => answer'[q].body = answer[q].body
    BY <1>3 DEF TypeOK, Bodies, Statuses
<1>. QED  BY <1>1, <1>2, <1>3 DEF ReadRequest

\* What each of these steps does: it moves its thread on below the mutex, and
\* gives a body only to what is no call.
LEMMA BeforeStep ==
    ASSUME TypeOK, NEW r \in Requests, Before(r)
    PROVE  /\ pc[r] \in {"auth", "stuck", "creds", "enter", "pitted", "leave", "read"}
           /\ \E there \in {"stuck", "creds", "enter", "pitted", "leave", "read",
                            "acquire", "done", "raised"} :
                 pc' = [pc EXCEPT ![r] = there]
           /\ answer' \in [Requests -> [status : Statuses, body : Bodies]]
           /\ \A q \in Requests :
                 q # r \/ kind[r] = "call" => answer'[q].body = answer[q].body
           /\ tar' \in SUBSET Clients
           /\ UNCHANGED <<server, request, calls>>
<1>1. /\ pc[r] \in {"auth", "stuck", "creds", "enter", "pitted", "leave", "read"}
      /\ \E there \in {"stuck", "creds", "enter", "pitted", "leave", "read",
                       "acquire", "done", "raised"} :
            pc' = [pc EXCEPT ![r] = there]
    BY DEF Before, Authorization, IsStuck, Credentials, EnterPit, Pitted, LeavePit,
           ReadRequest, At
<1>2. /\ tar' \in SUBSET Clients
      /\ UNCHANGED <<server, request, calls>>
    BY DEF TypeOK, Before, Authorization, IsStuck, Credentials, EnterPit, Pitted,
           LeavePit, ReadRequest
<1>3. \/ UNCHANGED answer
      \/ \E code \in Statuses : SendError(r, code)
      \/ ReadRequest(r)
    BY DEF Before, Authorization, IsStuck, Credentials, EnterPit, Pitted, LeavePit, Statuses
<1>4. /\ answer' \in [Requests -> [status : Statuses, body : Bodies]]
      /\ \A q \in Requests :
            q # r \/ kind[r] = "call" => answer'[q].body = answer[q].body
    BY <1>3, SendErrorOK, ReadRequestOK DEF TypeOK
<1>. QED  BY <1>1, <1>2, <1>4

\* Refusing a request, at whatever point, needs no mutex and leaves it alone.
LEMMA BeforeInv ==
    ASSUME Inv, NEW r \in Requests, Before(r)
    PROVE  Inv'
<1>. USE DEF Inv, Held, SeesStore, NoBodyYet, TypeOK, MutexHeld
<1>1. PICK there \in {"stuck", "creds", "enter", "pitted", "leave", "read",
                      "acquire", "done", "raised"} : pc' = [pc EXCEPT ![r] = there]
    BY BeforeStep
<1>2. pc[r] \in {"auth", "stuck", "creds", "enter", "pitted", "leave", "read"}
    BY BeforeStep
<1>3. /\ answer' \in [Requests -> [status : Statuses, body : Bodies]]
      /\ \A q \in Requests : q # r \/ kind[r] = "call" => answer'[q].body = answer[q].body
    BY BeforeStep
<1>4. tar' \in SUBSET Clients /\ UNCHANGED <<server, request, calls>>
    BY BeforeStep
<1>5. Held'
    BY <1>1, <1>2, <1>3, <1>4 DEF Places
<1>6. SeesStore' /\ NoBodyYet'
    BY <1>1, <1>2, <1>3, <1>4
<1>7. Executed' = Executed /\ store' = store
    BY <1>1, <1>2, <1>3, <1>4 DEF Executed
<1>. QED  BY <1>5, <1>6, <1>7, SameExecuted

\* A method's end: the one step that writes the state and counts.
LEMMA FinishInv ==
    ASSUME Inv, NEW r \in Requests, NEW outcome \in Outcomes, Finish(r, outcome)
    PROVE  Inv'
<1>. USE DEF Inv, Held, SeesStore, NoBodyYet, TypeOK, MutexHeld, Finish, At
<1>1. mutex = r /\ \A q \in Requests : pc[q] = "work" => q = r
    OBVIOUS
<1>2. DEFINE body == IF outcome = "result" THEN "result" ELSE ErrorCode[outcome]
<1>3. body \in Bodies \ {"none"}
    BY DEF Outcomes, ErrorCode, Bodies
<1>4. /\ answer' \in [Requests -> [status : Statuses, body : Bodies]]
      /\ answer'[r].body = body
      /\ \A q \in Requests \ {r} : answer'[q] = answer[q]
    BY <1>3
<1>. HIDE DEF body
<1>5. Held'
    BY <1>4 DEF Places
<1>6. SeesStore' /\ NoBodyYet'
    BY <1>1, <1>4
<1>7. kind[r] = "call"
    OBVIOUS
<1>8. Executed' = Executed \cup {r} /\ r \notin Executed
    BY <1>3, <1>4, <1>7 DEF Executed
<1>9. Cardinality(Executed') = Cardinality(Executed) + 1
    BY <1>8, ExecutedFinite, FS_AddElement
<1>10. NoLostUpdate'
    BY <1>9 DEF NoLostUpdate
<1>. QED  BY <1>5, <1>6, <1>10

\* Acquire, the look-up of the method and release, which write no state.
LEMMA MutexInv ==
    ASSUME Inv, NEW r \in Requests, Acquire(r) \/ Call(r) \/ Release(r)
    PROVE  Inv'
<1>. USE DEF Inv, Held, SeesStore, NoBodyYet, TypeOK, MutexHeld, At
<1>1. CASE Acquire(r)
  <2>1. Held' /\ SeesStore' /\ NoBodyYet'
      BY <1>1, NoRequestAssumption DEF Acquire, Places
  <2>2. Executed' = Executed /\ store' = store
      BY <1>1 DEF Acquire, Executed
  <2>. QED  BY <2>1, <2>2, SameExecuted
<1>2. CASE Call(r)
  <2>1. /\ answer' \in [Requests -> [status : Statuses, body : Bodies]]
        /\ \A q \in Requests :
              q # r \/ kind[r] = "call" => answer'[q].body = answer[q].body
      BY <1>2 DEF Call, ErrorCode, Bodies
  <2>2. Held'
      BY <1>2, <2>1 DEF Call, Places
  <2>3. SeesStore'
      BY <1>2 DEF Call
  <2>4. NoBodyYet'
      BY <1>2, <2>1 DEF Call
  <2>5. Executed' = Executed /\ store' = store
      BY <1>2, <2>1 DEF Call, Executed
  <2>. QED  BY <2>2, <2>3, <2>4, <2>5, SameExecuted
<1>3. CASE Release(r)
  <2>1. Held' /\ SeesStore' /\ NoBodyYet'
      BY <1>3, NoRequestAssumption DEF Release, Places
  <2>2. Executed' = Executed /\ store' = store
      BY <1>3 DEF Release, Executed
  <2>. QED  BY <2>1, <2>2, SameExecuted
<1>. QED  BY <1>1, <1>2, <1>3

LEMMA NextInv == Inv /\ [Next]_vars => Inv'
<1>. SUFFICES ASSUME Inv, [Next]_vars
     PROVE  Inv'
    OBVIOUS
<1>1. CASE UNCHANGED vars
    BY <1>1 DEF vars, Inv, Held, SeesStore, NoBodyYet, TypeOK, MutexHeld, NoLostUpdate, Executed
<1>2. CASE Interrupt \/ TestRun \/ AcceptTimeout \/ \E r \in Requests : Admit(r)
    BY <1>2, MainInv
<1>3. ASSUME NEW r \in Requests, Step(r)
      PROVE  Inv'
    BY <1>3, BeforeInv, MutexInv, FinishInv DEF Step, Before
<1>. QED  BY <1>1, <1>2, <1>3 DEF Next, Admit

\* Every state of the server has its type.
THEOREM ServerTyped == Spec => []TypeOK
<1>1. Inv => TypeOK
    BY DEF Inv, Held
<1>. QED  BY InitInv, NextInv, <1>1, PTL DEF Spec

\* do_POST's mutex is held by the request that is between acquire and release
\* and by no other, whatever ends the call: the finally at main.py:174 is
\* reached on every path that acquired.
THEOREM CallsOneAtATime == Spec => []MutexHeld
<1>1. Inv => MutexHeld
    BY DEF Inv, Held
<1>. QED  BY InitInv, NextInv, <1>1, PTL DEF Spec

\* The state has the effects of exactly the calls that were executed, in any
\* interleaving of any number of handler threads.
THEOREM EveryCallCounts == Spec => []NoLostUpdate
<1>1. Inv => NoLostUpdate
    BY DEF Inv
<1>. QED  BY InitInv, NextInv, <1>1, PTL DEF Spec

-----------------------------------------------------------------------------
(* The tarpit.                                                             *)

\* Only who showed bad credentials comes near the tarpit.
BadInPit == \A r \in Requests : pc[r] \in {"enter", "pitted", "leave"} => kind[r] = "bad_creds"

PitInv == NoGhostInTar /\ BadInPit /\ TurnedAwayForOwnFault

\* A step that leaves the tarpit alone and moves its thread neither into it nor
\* out of it, and turns nobody away.
Aside(r) ==
    /\ tar' = tar /\ from' = from /\ kind' = kind
    /\ pc[r] \notin {"leave"}
    /\ \E there \in Places \ (Outside \cup {"enter", "pitted"}) :
          /\ pc' = [pc EXCEPT ![r] = there]
          /\ pc[r] = "pitted" <=> there = "leave"
    /\ \A q \in Requests : answer'[q].status = 503 => answer[q].status = 503

LEMMA AsideInv ==
    ASSUME TypeOK, PitInv, NEW r \in Requests, Aside(r) PROVE PitInv'
<1>. USE DEF PitInv, TypeOK, Aside
<1>1. PICK there \in Places \ (Outside \cup {"enter", "pitted"}) :
        pc' = [pc EXCEPT ![r] = there] /\ (pc[r] = "pitted" <=> there = "leave")
    OBVIOUS
<1>2. NoGhostInTar'
    BY <1>1 DEF NoGhostInTar
<1>3. BadInPit'
    BY <1>1 DEF BadInPit
<1>4. TurnedAwayForOwnFault'
    BY <1>1 DEF TurnedAwayForOwnFault
<1>. QED  BY <1>2, <1>3, <1>4

\* No status line but that of is_stuck is 503.
LEMMA SendErrorAside ==
    ASSUME TypeOK, NEW r \in Requests, NEW code \in Statuses \ {503}, SendError(r, code)
    PROVE  \A q \in Requests : answer'[q].status = 503 => answer[q].status = 503
BY DEF TypeOK, SendError

LEMMA BodyAside ==
    ASSUME TypeOK, NEW r \in Requests, NEW code, answer' = [answer EXCEPT ![r].body = code]
    PROVE  \A q \in Requests : answer'[q].status = 503 => answer[q].status = 503
BY DEF TypeOK

LEMMA ReadAside ==
    ASSUME TypeOK, NEW r \in Requests, ReadRequest(r) PROVE Aside(r)
<1>1. \A q \in Requests : answer'[q].status = 503 => answer[q].status = 503
  <2>1. CASE SendError(r, 200) \/ SendError(r, 413)
      BY <2>1, SendErrorAside DEF Statuses
  <2>2. CASE \E code : answer' = [answer EXCEPT ![r].body = code]
      BY <2>2, BodyAside
  <2>3. CASE \E code : answer' = [answer EXCEPT ![r] = [status |-> 200, body |-> code]]
      BY <2>3 DEF TypeOK
  <2>. QED  BY <2>1, <2>2, <2>3 DEF ReadRequest
<1>. QED  BY <1>1 DEF Aside, ReadRequest, At, Places, request

LEMMA PittedAside ==
    ASSUME TypeOK, NEW r \in Requests, Pitted(r) PROVE Aside(r)
<1>1. SendError(r, 401) /\ 401 \in Statuses \ {503}
    BY DEF Pitted, Statuses
<1>2. \A q \in Requests : answer'[q].status = 503 => answer[q].status = 503
    BY <1>1, SendErrorAside
<1>. QED  BY <1>2 DEF Aside, Pitted, At, Places, request

LEMMA CallAside ==
    ASSUME TypeOK, NEW r \in Requests,
           Acquire(r) \/ Call(r) \/ Release(r) \/ \E outcome \in Outcomes : Finish(r, outcome)
    PROVE  Aside(r)
<1>1. \/ answer' = answer
      \/ \E code : answer' = [answer EXCEPT ![r].body = code]
    BY DEF Acquire, Call, Release, Finish
<1>2. \A q \in Requests : answer'[q].status = 503 => answer[q].status = 503
    BY <1>1, BodyAside
<1>. QED  BY <1>2 DEF Aside, Acquire, Call, Release, Finish, At, Places, request

LEMMA CredentialsInv ==
    ASSUME TypeOK, PitInv, NEW r \in Requests, Authorization(r) \/ Credentials(r)
    PROVE  PitInv'
<1>1. \A q \in Requests : answer'[q].status = 503 => answer[q].status = 503
    BY SendErrorAside DEF Authorization, Credentials, Statuses
<1>2. CASE kind[r] = "bad_creds" /\ At(r, "creds", "enter")
    BY <1>1, <1>2
    DEF Authorization, Credentials, At, PitInv, NoGhostInTar, BadInPit,
        TurnedAwayForOwnFault, TypeOK, request
<1>3. CASE ~(kind[r] = "bad_creds" /\ At(r, "creds", "enter"))
  <2>1. Aside(r)
      BY <1>1, <1>3 DEF Aside, Authorization, Credentials, At, Places, request
  <2>. QED  BY <2>1, AsideInv
<1>. QED  BY <1>2, <1>3

\* A client that is turned away has somebody else's request, its own, in the pit.
LEMMA IsStuckInv ==
    ASSUME TypeOK, PitInv, NEW r \in Requests, IsStuck(r) PROVE PitInv'
<1>. USE DEF IsStuck, At, TypeOK, request
<1>1. CASE from[r] \notin tar
  <2>1. Aside(r)
      BY <1>1 DEF Aside, Places
  <2>. QED  BY <2>1, AsideInv
<1>2. CASE from[r] \in tar
  <2>1. PICK q \in Requests : from[q] = from[r] /\ pc[q] \in {"pitted", "leave"}
      BY <1>2 DEF PitInv, NoGhostInTar
  <2>2. q # r /\ kind[q] = "bad_creds"
      BY <2>1 DEF PitInv, BadInPit
  <2>3. /\ pc' = [pc EXCEPT ![r] = "done"] /\ pc[r] = "stuck"
        /\ \A p \in Requests \ {r} : answer'[p] = answer[p]
      BY <1>2 DEF SendError
  <2>4. TurnedAwayForOwnFault'
      BY <2>1, <2>2, <2>3 DEF PitInv, TurnedAwayForOwnFault
  <2>5. NoGhostInTar' /\ BadInPit'
      BY <2>3 DEF PitInv, NoGhostInTar, BadInPit
  <2>. QED  BY <2>4, <2>5 DEF PitInv
<1>. QED  BY <1>1, <1>2

LEMMA EnterLeaveInv ==
    ASSUME TypeOK, PitInv, NEW r \in Requests, EnterPit(r) \/ LeavePit(r)
    PROVE  PitInv'
<1>. USE DEF PitInv, TypeOK, At, request
<1>1. CASE EnterPit(r)
  <2>1. NoGhostInTar'
      BY <1>1 DEF EnterPit, NoGhostInTar
  <2>2. BadInPit'
      BY <1>1 DEF EnterPit, BadInPit
  <2>3. TurnedAwayForOwnFault'
      BY <1>1 DEF EnterPit, TurnedAwayForOwnFault
  <2>. QED  BY <2>1, <2>2, <2>3
<1>2. CASE LeavePit(r)
  <2>1. NoGhostInTar'
      BY <1>2 DEF LeavePit, NoGhostInTar
  <2>2. BadInPit'
      BY <1>2 DEF LeavePit, BadInPit
  <2>3. TurnedAwayForOwnFault'
      BY <1>2 DEF LeavePit, TurnedAwayForOwnFault
  <2>. QED  BY <2>1, <2>2, <2>3
<1>. QED  BY <1>1, <1>2

LEMMA PitNext == TypeOK /\ PitInv /\ [Next]_vars => PitInv'
<1>. SUFFICES ASSUME TypeOK, PitInv, [Next]_vars PROVE PitInv'
    OBVIOUS
<1>1. CASE UNCHANGED vars
    BY <1>1 DEF vars, PitInv, NoGhostInTar, BadInPit, TurnedAwayForOwnFault
<1>2. CASE Interrupt \/ TestRun \/ AcceptTimeout
    BY <1>2 DEF Interrupt, TestRun, AcceptTimeout, PitInv, NoGhostInTar, BadInPit,
                TurnedAwayForOwnFault, request
<1>3. ASSUME NEW r \in Requests, Admit(r) PROVE PitInv'
  <2>1. /\ pc[r] \in {"new", "handshake"}
        /\ \E there \in {"handshake", "auth", "gone"} : pc' = [pc EXCEPT ![r] = there]
        /\ UNCHANGED <<request, answer, tar>>
      BY <1>3, AdmitIs
  <2>. QED  BY <2>1 DEF PitInv, NoGhostInTar, BadInPit, TurnedAwayForOwnFault, TypeOK
<1>4. ASSUME NEW r \in Requests, Step(r) PROVE PitInv'
    BY <1>4, AsideInv, ReadAside, PittedAside, CallAside, CredentialsInv, IsStuckInv,
       EnterLeaveInv DEF Step
<1>. QED  BY <1>1, <1>2, <1>3, <1>4 DEF Next, Admit

LEMMA PitInit == Init => PitInv
BY DEF Init, PitInv, NoGhostInTar, BadInPit, TurnedAwayForOwnFault, NoAnswer

\* However attempts of one client overlap in the tarpit, an entry of tar.client
\* goes with the last of them at the latest.
THEOREM TarHoldsTheFailing == Spec => []NoGhostInTar
<1>1. PitInv => NoGhostInTar
    BY DEF PitInv
<1>. QED  BY PitInit, PitNext, ServerTyped, <1>1, PTL DEF Spec

\* 503 goes only to clients that showed bad credentials in another request, for
\* any number of connections and clients.
THEOREM NobodyElseLockedOut == Spec => []TurnedAwayForOwnFault
<1>1. PitInv => TurnedAwayForOwnFault
    BY DEF PitInv
<1>. QED  BY PitInit, PitNext, ServerTyped, <1>1, PTL DEF Spec
-----------------------------------------------------------------------------
(* The server implements SerialServer.                                     *)

USE DEF Phase, OutcomeOf

\* What steps that execute nothing do: they take no call back and rewrite no
\* answer of an executed one.
Settled ==
    /\ Executed' = Executed
    /\ \A q \in Executed : answer'[q].body = answer[q].body
    /\ kind' = kind /\ store' = store

LEMMA BeforeSettled ==
    ASSUME Inv, NEW r \in Requests, Before(r)
    PROVE  Settled
<1>. USE DEF Inv, Held, TypeOK, NoBodyYet, Executed
<1>1. /\ pc[r] \in {"auth", "stuck", "creds", "enter", "pitted", "leave", "read"}
      /\ \E there \in {"stuck", "creds", "enter", "pitted", "leave", "read",
                       "acquire", "done", "raised"} :
            pc' = [pc EXCEPT ![r] = there]
    BY BeforeStep
<1>2. /\ \A q \in Requests : q # r \/ kind[r] = "call" => answer'[q].body = answer[q].body
      /\ UNCHANGED <<request, calls>>
    BY BeforeStep
<1>. QED  BY <1>1, <1>2 DEF Settled

LEMMA MutexSettled ==
    ASSUME Inv, NEW r \in Requests, Acquire(r) \/ Call(r) \/ Release(r)
    PROVE  Settled
<1>. USE DEF Inv, Held, TypeOK, NoBodyYet, Executed, At, Settled
<1>1. CASE Acquire(r)
    BY <1>1 DEF Acquire
<1>2. CASE Call(r)
  <2>1. \A q \in Requests : q # r \/ kind[r] = "call" => answer'[q].body = answer[q].body
      BY <1>2 DEF Call
  <2>. QED  BY <1>2, <2>1 DEF Call
<1>3. CASE Release(r)
    BY <1>3 DEF Release
<1>. QED  BY <1>1, <1>2, <1>3

\* A thread that moves on where nothing is executed answers its request, turns
\* it away, or has it wait.
LEMMA SettledSerial ==
    ASSUME TypeOK, Settled, main' = main, NEW r \in Requests,
           pc[r] \notin Outside \cup {"done", "raised"},
           NEW there \in Places \ Outside, pc' = [pc EXCEPT ![r] = there],
           pc[r] = "release" => there = "done",
           there = "raised" => r \notin Executed
    PROVE  [Serial!Next]_(Serial!vars)
<1>. USE DEF TypeOK, Settled
<1>1. \A q \in Requests : OutcomeOf(q)' = OutcomeOf(q)
    OBVIOUS
<1>2. \A q \in Requests \ {r} : Phase(q)' = Phase(q)
    OBVIOUS
<1>3. r \in Executed => pc[r] = "release"
    BY DEF Executed
<1>4. \/ Phase(r)' = Phase(r)
      \/ Phase(r) = "waiting" /\ Phase(r)' = "turned away"
      \/ Phase(r) = "executed" /\ Phase(r)' = "answered"
    BY <1>3
<1>5. /\ [q \in Requests |-> OutcomeOf(q)]' = [q \in Requests |-> OutcomeOf(q)]
      /\ {q \in Requests : kind[q] = "call"}' = {q \in Requests : kind[q] = "call"}
      /\ (main # "closed")' = (main # "closed")
      /\ store' = store
    BY <1>1
<1>. HIDE DEF Phase, OutcomeOf
<1>6. [q \in Requests |-> Phase(q)]'
          = [[q \in Requests |-> Phase(q)] EXCEPT ![r] = Phase(r)']
    BY <1>2
<1>7. CASE Phase(r)' = Phase(r)
    BY <1>2, <1>5, <1>7 DEF Serial!vars
<1>8. CASE Phase(r) = "waiting" /\ Phase(r)' = "turned away"
    BY <1>5, <1>6, <1>8 DEF Serial!Next, Serial!TurnAway, Serial!Move
<1>9. CASE Phase(r) = "executed" /\ Phase(r)' = "answered"
    BY <1>5, <1>6, <1>9 DEF Serial!Next, Serial!Answer, Serial!Move
<1>. QED  BY <1>4, <1>7, <1>8, <1>9

\* The main thread takes requests in, and closes.
LEMMA MainSerial ==
    ASSUME Inv, \/ Interrupt \/ TestRun \/ AcceptTimeout \/ \E r \in Requests : Admit(r)
    PROVE  [Serial!Next]_(Serial!vars)
<1>. USE DEF Inv, Held, TypeOK, Executed
<1>1. ASSUME UNCHANGED <<pc, kind, answer, store>>
      PROVE  UNCHANGED <<[r \in Requests |-> Phase(r)], [r \in Requests |-> OutcomeOf(r)],
                         {r \in Requests : kind[r] = "call"}, store>>
    BY <1>1
<1>2. CASE Interrupt \/ AcceptTimeout
  <2>1. (main # "closed")' = (main # "closed") /\ UNCHANGED <<pc, kind, answer, store>>
      BY <1>2 DEF Interrupt, AcceptTimeout
  <2>. QED  BY <1>1, <2>1 DEF Serial!vars
<1>3. CASE TestRun
  <2>1. UNCHANGED <<pc, kind, answer, store>> /\ main # "closed"
      BY <1>3 DEF TestRun
  <2>2. CASE main' = "closed"
      BY <1>1, <2>1, <2>2 DEF Serial!Next, Serial!Close
  <2>3. CASE main' # "closed"
      BY <1>1, <2>1, <2>3 DEF Serial!vars
  <2>. QED  BY <2>2, <2>3
<1>4. ASSUME NEW r \in Requests, Admit(r)
      PROVE  [Serial!Next]_(Serial!vars)
  <2>1. /\ pc[r] \in {"new", "handshake"} /\ main # "closed" /\ main' # "closed"
        /\ \E there \in {"handshake", "auth", "gone"} : pc' = [pc EXCEPT ![r] = there]
        /\ UNCHANGED <<request, answer, calls>>
      BY <1>4, AdmitIs
  <2>2. /\ Phase(r) = "away" /\ Phase(r)' \in {"away", "waiting"}
        /\ \A q \in Requests \ {r} : Phase(q)' = Phase(q)
        /\ \A q \in Requests : OutcomeOf(q)' = OutcomeOf(q)
        /\ {q \in Requests : kind[q] = "call"}' = {q \in Requests : kind[q] = "call"}
        /\ store' = store
      BY <2>1
  <2>. HIDE DEF Phase, OutcomeOf
  <2>3. [q \in Requests |-> Phase(q)]'
            = [[q \in Requests |-> Phase(q)] EXCEPT ![r] = Phase(r)']
      BY <2>2
  <2>4. CASE Phase(r)' = "waiting"
    <3>1. Serial!Move(r, "away", "waiting")
        BY <2>2, <2>3, <2>4 DEF Serial!Move
    <3>2. /\ (main # "closed")' = (main # "closed")
          /\ [q \in Requests |-> OutcomeOf(q)]' = [q \in Requests |-> OutcomeOf(q)]
        BY <2>1, <2>2
    <3>3. Serial!Arrive(r)
        BY <2>1, <2>2, <3>1, <3>2 DEF Serial!Arrive
    <3>. QED  BY <3>3 DEF Serial!Next
  <2>5. CASE Phase(r)' = "away"
      BY <2>1, <2>2, <2>3, <2>5 DEF Serial!vars
  <2>. QED  BY <2>2, <2>4, <2>5
<1>. QED  BY <1>2, <1>3, <1>4

\* The end of a method is the moment its call takes effect: its thread has the
\* mutex, so it has read the state as it is, and no other is done and not released.
LEMMA FinishSerial ==
    ASSUME Inv, NEW r \in Requests, NEW how \in Outcomes, Finish(r, how)
    PROVE  Serial!Next
<1>. USE DEF Inv, Held, SeesStore, NoBodyYet, TypeOK, MutexHeld, Finish, At
<1>1. /\ kind[r] = "call" /\ store' = store + 1 /\ main' = main /\ kind' = kind
      /\ r \notin Executed
      /\ \A q \in Requests : pc[q] # "release"
    BY DEF Executed
<1>2. DEFINE body == IF how = "result" THEN "result" ELSE ErrorCode[how]
<1>3. body \in Bodies \ {"none"}
    BY DEF Outcomes, ErrorCode, Bodies
<1>4. answer'[r].body = body /\ \A q \in Requests \ {r} : answer'[q] = answer[q]
    BY <1>3
<1>. HIDE DEF body
<1>5. Executed' = Executed \cup {r}
    BY <1>1, <1>3, <1>4 DEF Executed
<1>6. /\ Phase(r) = "waiting" /\ Phase(r)' = "executed"
      /\ \A q \in Requests \ {r} : Phase(q)' = Phase(q) /\ OutcomeOf(q)' = OutcomeOf(q)
      /\ OutcomeOf(r)' \in {"result", "error"}
    BY <1>1, <1>4, <1>5
<1>7. \A q \in Requests : Phase(q) # "executed"
    BY <1>1 DEF Executed
<1>. HIDE DEF Phase, OutcomeOf
<1>8. [q \in Requests |-> Phase(q)]'
          = [[q \in Requests |-> Phase(q)] EXCEPT ![r] = Phase(r)']
    BY <1>6
<1>9. [q \in Requests |-> OutcomeOf(q)]'
          = [[q \in Requests |-> OutcomeOf(q)] EXCEPT ![r] = OutcomeOf(r)']
    BY <1>6
<1>10. Serial!Execute(r)
    BY <1>1, <1>6, <1>7, <1>8, <1>9 DEF Serial!Execute, Serial!Move
<1>. QED  BY <1>10 DEF Serial!Next

LEMMA NextSerial == Inv /\ [Next]_vars => [Serial!Next]_(Serial!vars)
<1>. SUFFICES ASSUME Inv, [Next]_vars
     PROVE  [Serial!Next]_(Serial!vars)
    OBVIOUS
<1>1. CASE UNCHANGED vars
    BY <1>1 DEF vars, Serial!vars, Executed
<1>2. CASE Interrupt \/ TestRun \/ AcceptTimeout \/ \E r \in Requests : Admit(r)
    BY <1>2, MainSerial
<1>3. ASSUME NEW r \in Requests, Before(r)
      PROVE  [Serial!Next]_(Serial!vars)
  <2>1. PICK there \in {"stuck", "creds", "enter", "pitted", "leave", "read",
                        "acquire", "done", "raised"} : pc' = [pc EXCEPT ![r] = there]
      BY <1>3, BeforeStep DEF Inv, Held
  <2>2. /\ pc[r] \in {"auth", "stuck", "creds", "enter", "pitted", "leave", "read"}
        /\ main' = main
      BY <1>3, BeforeStep DEF Inv, Held
  <2>3. r \notin Executed
      BY <2>2 DEF Executed
  <2>4. Settled
      BY <1>3, BeforeSettled
  <2>5. there \in Places \ Outside
      BY <2>1 DEF Places
  <2>. HIDE DEF Phase, OutcomeOf
  <2>. QED  BY <2>1, <2>2, <2>3, <2>4, <2>5, SettledSerial DEF Inv, Held
<1>4. ASSUME NEW r \in Requests, Acquire(r) \/ Call(r) \/ Release(r)
      PROVE  [Serial!Next]_(Serial!vars)
  <2>1. PICK there \in {"call", "release", "work", "done"} :
           /\ pc' = [pc EXCEPT ![r] = there]
           /\ pc[r] = "release" => there = "done"
      BY <1>4 DEF Acquire, Call, Release, At
  <2>2. pc[r] \notin Outside \cup {"done", "raised"} /\ main' = main
      BY <1>4 DEF Acquire, Call, Release, At
  <2>3. Settled
      BY <1>4, MutexSettled
  <2>4. there \in Places \ Outside
      BY <2>1 DEF Places
  <2>. HIDE DEF Phase, OutcomeOf
  <2>. QED  BY <2>1, <2>2, <2>3, <2>4, SettledSerial DEF Inv, Held
<1>5. ASSUME NEW r \in Requests, NEW how \in Outcomes, Finish(r, how)
      PROVE  [Serial!Next]_(Serial!vars)
    BY <1>5, FinishSerial
<1>. QED  BY <1>1, <1>2, <1>3, <1>4, <1>5 DEF Next, Step, Before, Admit

\* "Process them sequentially by using a mutex": however many threads there are
\* and however calls end, every call takes effect at one moment between its
\* arrival and its answer, once, on what the call before it left.
THEOREM ServerIsSerial == Spec => ImplementsSerial
<1>1. Init => Serial!Init
    BY DEF Init, Serial!Init, Executed
<1>2. Inv /\ [Next]_vars => [Serial!Next]_(Serial!vars)
    BY NextSerial
<1>. QED  BY InitInv, NextInv, <1>1, <1>2, PTL DEF Spec, ImplementsSerial, Serial!Spec

-----------------------------------------------------------------------------
(* What a request is sent.                                                 *)

\* Up to reading the body nothing is sent but the 401 at the end of the pit, and
\* a call waits for the mutex with the status line sent and the body not.
SentAt(here, sent) ==
    /\ here \in Outside \cup {"auth", "stuck", "creds", "enter", "pitted", "read"} => sent = NoAnswer
    /\ here \in {"acquire", "call", "work"} => sent = [status |-> 200, body |-> "none"]
    /\ here \in {"leave", "release", "done", "raised"} => sent # NoAnswer

Sent == \A r \in Requests : SentAt(pc[r], answer[r])

\* The answer of one request moves on, its status line only where there is none.
Sends(r) ==
    /\ pc' \in [Requests -> Places] /\ \A q \in Requests \ {r} : pc'[q] = pc[q]
    /\ \A q \in Requests \ {r} : answer'[q] = answer[q]
    /\ SentAt(pc'[r], answer'[r])
    /\ answer[r].status # 0 => answer'[r].status = answer[r].status
    /\ answer[r].body # "none" => answer'[r] = answer[r]

\* What the body's answer does to a record of status line and body.
LEMMA BodySent ==
    ASSUME TypeOK, NEW r \in Requests, NEW code \in Bodies,
           answer' = [answer EXCEPT ![r].body = code]
    PROVE  /\ answer'[r] = [status |-> answer[r].status, body |-> code]
           /\ \A q \in Requests \ {r} : answer'[q] = answer[q]
BY DEF TypeOK

LEMMA StatusSent ==
    ASSUME TypeOK, NEW r \in Requests, NEW code \in Statuses, SendError(r, code)
    PROVE  /\ answer'[r] = [status |-> code, body |-> answer[r].body]
           /\ \A q \in Requests \ {r} : answer'[q] = answer[q]
BY DEF TypeOK, SendError

LEMMA ReadSends ==
    ASSUME TypeOK, Sent, NEW r \in Requests, ReadRequest(r)
    PROVE  Sends(r)
<1>. USE DEF TypeOK, NoAnswer, SentAt
<1>0. answer[r] = NoAnswer /\ pc[r] = "read"
    BY DEF Sent, ReadRequest, At
<1>1. ASSUME NEW code \in {200, 413}, SendError(r, code),
             pc' = [pc EXCEPT ![r] = IF code = 200 THEN "acquire" ELSE "done"]
      PROVE  Sends(r)
  <2>1. code \in Statuses
      BY DEF Statuses
  <2>2. /\ answer'[r] = [status |-> code, body |-> "none"]
        /\ \A q \in Requests \ {r} : answer'[q] = answer[q]
      BY <1>0, <1>1, <2>1, StatusSent
  <2>3. pc'[r] = IF code = 200 THEN "acquire" ELSE "done"
      BY <1>1
  <2>4. SentAt(pc'[r], answer'[r])
      BY <2>2, <2>3
  <2>. QED  BY <1>0, <1>1, <2>2, <2>4 DEF Sends, Places
<1>2. ASSUME NEW code \in {"-32700", "-1"}, answer' = [answer EXCEPT ![r].body = code],
             pc' = [pc EXCEPT ![r] = "done"]
      PROVE  Sends(r)
  <2>1. code \in Bodies
      BY DEF Bodies
  <2>. QED  BY <1>0, <1>2, <2>1, BodySent DEF Sends, Places
<1>3. ASSUME NEW code \in {"-32600", "-1"},
             answer' = [answer EXCEPT ![r] = [status |-> 200, body |-> code]],
             pc' = [pc EXCEPT ![r] = "done"]
      PROVE  Sends(r)
    BY <1>0, <1>3 DEF Sends, Places
<1>. QED  BY <1>1, <1>2, <1>3 DEF ReadRequest, At

LEMMA StepSends ==
    ASSUME TypeOK, Sent, NEW r \in Requests, Step(r)
    PROVE  Sends(r)
<1>. USE DEF TypeOK, At, NoAnswer, SentAt
<1>0. SentAt(pc[r], answer[r])
    BY DEF Sent
<1>1. CASE Authorization(r) \/ IsStuck(r) \/ Credentials(r) \/ Pitted(r)
  <2>0. answer[r] = NoAnswer
      BY <1>0, <1>1 DEF Authorization, IsStuck, Credentials, Pitted
  <2>1. ASSUME NEW code \in Statuses \ {0}, SendError(r, code),
               NEW there \in {"done", "leave"}, pc' = [pc EXCEPT ![r] = there]
        PROVE  Sends(r)
    <3>1. /\ answer'[r] = [status |-> code, body |-> "none"]
          /\ \A q \in Requests \ {r} : answer'[q] = answer[q]
        BY <2>0, <2>1, StatusSent
    <3>. QED  BY <2>0, <2>1, <3>1 DEF Sends, Places
  <2>2. ASSUME NEW there \in {"stuck", "creds", "enter", "read"}, UNCHANGED answer,
               pc' = [pc EXCEPT ![r] = there]
        PROVE  Sends(r)
      BY <2>0, <2>2 DEF Sends, Places
  <2>. QED
      BY <1>1, <2>1, <2>2 DEF Authorization, IsStuck, Credentials, Pitted, Statuses
<1>2. CASE EnterPit(r) \/ LeavePit(r) \/ Acquire(r) \/ Release(r)
    BY <1>0, <1>2 DEF EnterPit, LeavePit, Acquire, Release, Sends, Places
<1>3. CASE Call(r)
  <2>1. ErrorCode["KeyError"] \in Bodies
      BY DEF ErrorCode, Bodies
  <2>2. answer[r] = [status |-> 200, body |-> "none"]
      BY <1>0, <1>3 DEF Call
  <2>3. CASE /\ answer' = [answer EXCEPT ![r].body = ErrorCode["KeyError"]]
             /\ pc' = [pc EXCEPT ![r] = "release"]
    <3>1. /\ answer'[r] = [status |-> 200, body |-> ErrorCode["KeyError"]]
          /\ \A q \in Requests \ {r} : answer'[q] = answer[q]
        BY <2>1, <2>2, <2>3, BodySent
    <3>. QED  BY <2>2, <2>3, <3>1 DEF Sends, Places
  <2>4. CASE UNCHANGED answer /\ pc' = [pc EXCEPT ![r] = "work"]
      BY <2>2, <2>4 DEF Sends, Places
  <2>. QED  BY <1>3, <2>3, <2>4 DEF Call
<1>4. ASSUME NEW how \in Outcomes, Finish(r, how)
      PROVE  Sends(r)
  <2>. DEFINE body == IF how = "result" THEN "result" ELSE ErrorCode[how]
  <2>1. body \in Bodies
      BY DEF Outcomes, ErrorCode, Bodies
  <2>2. answer' = [answer EXCEPT ![r].body = body] /\ pc[r] = "work"
        /\ pc' = [pc EXCEPT ![r] = "release"]
      BY <1>4 DEF Finish
  <2>. HIDE DEF body
  <2>. QED  BY <1>0, <2>1, <2>2, BodySent DEF Sends, Places
<1>. QED  BY <1>1, <1>2, <1>3, <1>4, ReadSends DEF Step

LEMMA NextSends ==
    TypeOK /\ Sent /\ [Next]_vars =>
        Sent' /\ \A r \in Requests :
                     /\ answer[r].status # 0 => answer'[r].status = answer[r].status
                     /\ answer[r].body # "none" => answer'[r] = answer[r]
                     /\ pc'[r] \in {"done", "raised"} => answer'[r] # NoAnswer
<1>. SUFFICES ASSUME TypeOK, Sent, [Next]_vars
     PROVE  Sent' /\ \A r \in Requests :
                         /\ answer[r].status # 0 => answer'[r].status = answer[r].status
                         /\ answer[r].body # "none" => answer'[r] = answer[r]
                         /\ pc'[r] \in {"done", "raised"} => answer'[r] # NoAnswer
    OBVIOUS
<1>1. CASE UNCHANGED <<pc, answer>>
    BY <1>1 DEF Sent, SentAt
<1>2. CASE Interrupt \/ TestRun \/ AcceptTimeout \/ UNCHANGED vars
    BY <1>1, <1>2 DEF Interrupt, TestRun, AcceptTimeout, vars
<1>3. ASSUME NEW r \in Requests, Admit(r) \/ Step(r)
      PROVE  Sent' /\ \A q \in Requests :
                          /\ answer[q].status # 0 => answer'[q].status = answer[q].status
                          /\ answer[q].body # "none" => answer'[q] = answer[q]
                          /\ pc'[q] \in {"done", "raised"} => answer'[q] # NoAnswer
  <2>1. Admit(r) => Sends(r)
      BY AdmitIs DEF TypeOK, Sent, SentAt, Sends, Places
  <2>2. Sends(r)
      BY <1>3, <2>1, StepSends
  <2>. QED  BY <2>2 DEF Sends, Sent, SentAt
<1>. QED  BY <1>2, <1>3 DEF Next, Admit

\* However a request ends, refused, stalled, raised or served, it is sent one
\* status line at most, nothing after a body, and not nothing.
THEOREM OneAnswerEach == Spec => OneAnswer
<1>1. Init => Sent
    BY DEF Init, Sent, SentAt
<1>. QED  BY <1>1, NextSends, ServerTyped, PTL DEF Spec, OneAnswer
=============================================================================
