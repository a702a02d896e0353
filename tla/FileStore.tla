----------------------------- MODULE FileStore ------------------------------
(***************************************************************************)
(* What the file system calls promise, whichever backend serves them: file *)
(* systems under names, each with snapshots of its own.  A call answered   *)
(* "ok" made, copied or destroyed one thing, except that some backends may *)
(* skip the deletion of a snapshot and say "ok"; one that failed has at    *)
(* worst made something nobody uses or destroyed snapshots of one file     *)
(* system.                                                                 *)
(***************************************************************************)
EXTENDS Naturals

CONSTANTS
    Names, Uuids,
    SkipsDeletes    \* TRUE or FALSE: the deletion of a snapshot may be skipped

VARIABLES
    fs,         \* the uuid of the file system of each name, or 0
    snaps,      \* the snapshots: of which file system, called what, uuid
    reply       \* "ok" or "failed"

vars == <<fs, snaps, reply>>

Init == fs = [n \in Names |-> 0] /\ snaps = {} /\ reply = "ok"

Answers == reply' \in {"ok", "failed"}

Fresh(u) ==
    /\ u \in Uuids
    /\ \A n \in Names : fs[n] # u
    /\ \A s \in snaps : s.guid # u

SnapsOf(n) == {s \in snaps : s.fs = fs[n]}

\* A new snapshot of n, of a name that n has no snapshot of yet.
NewSnap(n, s) ==
    /\ Fresh(s.guid) /\ s.fs = fs[n]
    /\ \A t \in SnapsOf(n) : t.name # s.name

Refuse == reply' = "failed" /\ UNCHANGED <<fs, snaps>>

\* A file system, empty or the copy of another one, under a free name.  The copy
\* may keep a snapshot of what it was made from.
Make(new) ==
    /\ fs[new] = 0
    /\ \E u \in Uuids : Fresh(u) /\ fs' = [fs EXCEPT ![new] = u]
    /\ \/ snaps' = snaps
       \/ \E n \in Names : fs[n] # 0 /\ \E s \in snaps' \ snaps :
            /\ NewSnap(n, s) /\ s.guid # fs'[new]
            /\ snaps' = snaps \cup {s}
    /\ Answers

Snapshot(n) ==
    /\ fs[n] # 0
    /\ \E s \in snaps' \ snaps : NewSnap(n, s) /\ snaps' = snaps \cup {s}
    /\ Answers
    /\ UNCHANGED fs

DeleteSnap(n) ==
    /\ \E s \in SnapsOf(n) :
        \/ snaps' = snaps \ {s}
        \/ SkipsDeletes /\ snaps' = snaps
    /\ reply' = "ok"
    /\ UNCHANGED fs

\* A call fails that was to destroy snapshots of n, or to clone one: some are gone.
DestroyInPart(n) ==
    /\ reply' = "failed"
    /\ snaps' \subseteq snaps
    /\ snaps \ snaps' \subseteq SnapsOf(n)
    /\ UNCHANGED fs

\* A file system goes with all its snapshots, or not at all.
Destroy(n) ==
    /\ fs[n] # 0
    /\ fs' = [fs EXCEPT ![n] = 0]
    /\ snaps' = snaps \ SnapsOf(n)
    /\ reply' = "ok"

Next ==
    \/ Refuse
    \/ \E n \in Names :
        Make(n) \/ Snapshot(n) \/ DeleteSnap(n) \/ DestroyInPart(n) \/ Destroy(n)

Spec == Init /\ [][Next]_vars
=============================================================================
