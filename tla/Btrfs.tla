------------------------------- MODULE Btrfs --------------------------------
(***************************************************************************)
(* targetd/backends/btrfs.py in one mounted pool, reached by the calls of  *)
(* targetd/fs.py.  A file system is the subvolume targetd_fs/<name>, its   *)
(* snapshots are subvolumes in targetd_ss/<name>, itself a subvolume made  *)
(* with the first of them.  Nothing but that name ties them together.      *)
(* The calls run one at a time, so a call is one step, to where it ended,  *)
(* failed or was killed.                                                   *)
(***************************************************************************)
EXTENDS Naturals, FiniteSets

CONSTANTS
    Names,      \* of file systems
    SnapNames,  \* the names fs_snapshot is given
    NoSnap,     \* fs_clone without a snapshot_id
    MaxUuid     \* bound: how many file systems and snapshots are made

ASSUME MaxUuidAssumption == MaxUuid \in Nat
ASSUME NoSnapAssumption == NoSnap \notin 1 .. MaxUuid

VARIABLES
    sub,        \* targetd_fs/<name>: the uuid of the subvolume, or 0
    base,       \* the names for which targetd_ss/<name> exists
    snaps,      \* the snapshots: directory, name, uuid, uuid they were taken of
    made,       \* the uuids given out are 1 .. made
    reply       \* how the last call ended

vars == <<sub, base, snaps, made, reply>>

Uuids == 1 .. MaxUuid

Init ==
    /\ sub = [n \in Names |-> 0]
    /\ base = {} /\ snaps = {} /\ made = 0
    /\ reply = "ok"

-----------------------------------------------------------------------------
\* A call that ends before it has changed anything.
Fail(code) == reply' = code /\ UNCHANGED <<sub, base, snaps, made>>

\* The btrfs command failed; a listing also after five answers of "no device".
CommandFails == Fail("UNEXPECTED_EXIT_CODE")

Exists(n) == sub[n] # 0

\* What ss lists: nothing when the directory is missing.
Listed(n) == {s \in snaps : s.dir = n /\ n \in base}

\* _get_fs_by_uuid and _get_ss_by_uuid.
FsByUuid(u) == {n \in Names : Exists(n) /\ sub[n] = u}
SnapByUuid(n, ss) == {s \in Listed(n) : s.guid = ss}

NoFs(u) == CommandFails \/ (FsByUuid(u) = {} /\ Fail("NOT_FOUND_FS"))

NewSubvolume(n) ==
    /\ made < MaxUuid
    /\ sub' = [sub EXCEPT ![n] = made + 1]
    /\ made' = made + 1
    /\ reply' = "ok"
    /\ UNCHANGED <<base, snaps>>

-----------------------------------------------------------------------------
(* The calls.  A pool that is not configured is INVALID_POOL.              *)

FsCreate(n) ==
    \/ Fail("INVALID_POOL") \/ CommandFails
    \/ Exists(n) /\ Fail("EXISTS_FS_NAME")
    \/ ~Exists(n) /\ NewSubvolume(n)

\* The directory is made first and stays whatever comes of the snapshot.
SnapshotOf(n, name) ==
    \/ CommandFails
    \/ /\ base' = base \cup {n}
       /\ \/ /\ reply' = IF \E s \in snaps : s.dir = n /\ s.name = name
                         THEN "EXISTS_FS_NAME" ELSE "UNEXPECTED_EXIT_CODE"
             /\ UNCHANGED <<snaps, made>>
          \/ /\ \A s \in snaps : ~(s.dir = n /\ s.name = name)
             /\ made < MaxUuid
             /\ snaps' = snaps \cup {[dir |-> n, name |-> name, guid |-> made + 1,
                                      of |-> sub[n]]}
             /\ made' = made + 1
             /\ reply' = "ok"
       /\ UNCHANGED sub

FsSnapshot(u, name) == NoFs(u) \/ \E n \in FsByUuid(u) : SnapshotOf(n, name)

\* Slip: the directory of snapshots is deleted in place of the snapshot.
FsSnapshotDeleteBase(u, ss) ==
    \E n \in FsByUuid(u) :
        /\ SnapByUuid(n, ss) # {}
        /\ snaps' = {s \in snaps : s.dir # n}
        /\ base' = base \ {n}
        /\ reply' = "ok"
        /\ UNCHANGED <<sub, made>>

FsSnapshotDelete(u, ss) ==
    \/ NoFs(u)
    \/ \E n \in FsByUuid(u) :
         \/ SnapByUuid(n, ss) = {} /\ Fail("NOT_FOUND_SS")
         \/ \E s \in SnapByUuid(n, ss) :
              /\ snaps' = snaps \ {s}
              /\ reply' = "ok"
              /\ UNCHANGED <<sub, base, made>>

\* Slip: the subvolume is deleted before its snapshots and their directory.
DestroyFsFirst(n) ==
    \E gone \in SUBSET Listed(n) :
        /\ sub' = [sub EXCEPT ![n] = 0]
        /\ snaps' = snaps \ gone
        /\ base' = IF gone = Listed(n) THEN base \ {n} ELSE base
        /\ reply' = IF gone = Listed(n) THEN "ok" ELSE "UNEXPECTED_EXIT_CODE"
        /\ UNCHANGED made

\* Snapshots in the order they are listed in, then their directory, which must
\* be empty, then the subvolume; it may end after any of them.
Destroy(n) ==
    \E gone \in SUBSET Listed(n) :
        /\ snaps' = snaps \ gone
        /\ \/ /\ reply' = "UNEXPECTED_EXIT_CODE"
              /\ UNCHANGED <<sub, base>>
           \/ /\ gone = Listed(n)
              /\ base' = base \ {n}
              /\ \/ reply' = "UNEXPECTED_EXIT_CODE" /\ UNCHANGED sub
                 \/ reply' = "ok" /\ sub' = [sub EXCEPT ![n] = 0]
        /\ UNCHANGED made

FsDestroy(u) == NoFs(u) \/ \E n \in FsByUuid(u) : Destroy(n)

\* Slip: the clone is made among the snapshots, where its source was.
CloneInPlace(n, new) ==
    /\ made < MaxUuid
    /\ snaps' = snaps \cup {[dir |-> new, name |-> n, guid |-> made + 1, of |-> sub[n]]}
    /\ made' = made + 1
    /\ reply' = "ok"
    /\ UNCHANGED <<sub, base>>

\* Of a snapshot or of the file system itself, the copy is a subvolume like any.
CloneTo(n, new) ==
    \/ CommandFails
    \/ Exists(new) /\ Fail("EXISTS_CLONE_NAME")
    \/ ~Exists(new) /\ NewSubvolume(new)

FsClone(u, new, ss) ==
    \/ NoFs(u)
    \/ \E n \in FsByUuid(u) :
         \/ ss # NoSnap /\ SnapByUuid(n, ss) = {} /\ Fail("NOT_FOUND_SS")
         \/ (ss = NoSnap \/ SnapByUuid(n, ss) # {}) /\ CloneTo(n, new)

-----------------------------------------------------------------------------
Next ==
    \/ \E n \in Names : FsCreate(n)
    \/ \E u \in Uuids :
        \/ FsDestroy(u)
        \/ \E name \in SnapNames : FsSnapshot(u, name)
        \/ \E ss \in Uuids : FsSnapshotDelete(u, ss)
        \/ \E new \in Names, ss \in Uuids \cup {NoSnap} : FsClone(u, new, ss)

Spec == Init /\ [][Next]_vars

-----------------------------------------------------------------------------
(* Properties.                                                             *)

Codes == {"ok", "UNEXPECTED_EXIT_CODE", "INVALID_POOL", "EXISTS_FS_NAME",
          "EXISTS_CLONE_NAME", "NOT_FOUND_FS", "NOT_FOUND_SS"}

\* Types; snapshots lie in directories that exist, of file systems that exist.
TypeOK ==
    /\ made \in 0 .. MaxUuid
    /\ sub \in [Names -> 0 .. made]
    /\ base \subseteq {n \in Names : Exists(n)}
    /\ snaps \subseteq [dir : base, name : SnapNames, guid : 1 .. made, of : 1 .. made]
    /\ reply \in Codes

\* A snapshot is of the file system that now has its name.  fs_destroy may fail
\* half way and be called again, and the name be used again; the new file system
\* must never come by snapshots of the old one.
SnapshotsOfTheirFs == \A s \in snaps : sub[s.dir] = s.of

\* The backend keeps the promises of FileStore.
Store == INSTANCE FileStore WITH
    SkipsDeletes <- FALSE,
    fs <- sub,
    snaps <- {[fs |-> s.of, name |-> s.name, guid |-> s.guid] : s \in snaps},
    reply <- IF reply = "ok" THEN "ok" ELSE "failed"

ImplementsFileStore == Store!Spec
=============================================================================
