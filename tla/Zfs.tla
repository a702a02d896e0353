-------------------------------- MODULE Zfs --------------------------------
(***************************************************************************)
(* targetd/backends/zfs.py below one parent dataset, reached by the file   *)
(* system calls of targetd/fs.py, which name a file system or a snapshot   *)
(* by its uuid, and by the volume calls of targetd/block.py, which name a  *)
(* volume.  One dataset may serve as block pool and as file system pool,   *)
(* so the two kinds share the names.  A copy is a snapshot and a clone of  *)
(* it: two zfs commands of which either may fail, and a third to tidy up.  *)
(* What is there is asked of zfs get, and an answer that fails reads as    *)
(* "not there".  Exports of volumes are Block's business, and sizes do not *)
(* matter here.                                                            *)
(***************************************************************************)
EXTENDS Naturals, FiniteSets

CONSTANTS
    VolNames, FsNames,  \* the names in volume and in file system calls
    SnapNames,          \* the names fs_snapshot is given
    Times,              \* the seconds int(time()) may read
    NoSnap,             \* fs_clone without a snapshot_id
    MaxGuid             \* bound: how many datasets and snapshots are made

Names == VolNames \cup FsNames

ASSUME MaxGuidAssumption == MaxGuid \in Nat
ASSUME NoSnapAssumption == NoSnap \notin 1 .. MaxGuid

VARIABLES
    ds,         \* the dataset of each name: kind, uuid, snapshot it clones
    snaps,      \* the snapshots: of which name, called what, uuid
    made,       \* the uuids given out are 1 .. made
    zfs_enable_copy,
    reply,      \* how the last call ended
    fsReply     \* ghost: whether the last file system call was answered "ok"

vars == <<ds, snaps, made, zfs_enable_copy, reply, fsReply>>

Uuids == 1 .. MaxGuid

Absent == [kind |-> "none", guid |-> 0, origin |-> 0]

Init ==
    /\ ds = [n \in Names |-> Absent]
    /\ snaps = {}
    /\ made = 0
    /\ zfs_enable_copy \in BOOLEAN
    /\ reply = "ok"
    /\ fsReply = "ok"

-----------------------------------------------------------------------------
(* The zfs command, as far as targetd relies on it.                        *)

IsVolume(n) == ds[n].kind = "volume"
IsFs(n) == ds[n].kind = "filesystem"

SnapsOf(n) == {s \in snaps : s.of = n}

Cloned(s) == \E n \in Names : ds[n].origin = s.guid

\* Slip: the uuid and the origin are read in the wrong order.
NewDatasetSwapped(n, kind, guid, origin) ==
    [ds EXCEPT ![n] = [kind |-> kind, guid |-> origin, origin |-> guid]]

\* zfs create, zfs clone: a dataset under a free name.
NewDataset(n, kind, guid, origin) ==
    [ds EXCEPT ![n] = [kind |-> kind, guid |-> guid, origin |-> origin]]

NewSnap(n, name) == [of |-> n, name |-> name, guid |-> made + 1]

-----------------------------------------------------------------------------
(* How a call ends.                                                        *)

Fail(code) == reply' = code /\ UNCHANGED <<ds, snaps, made>>

\* The zfs command failed; or it said "dataset is busy" three times, and
\* _zfs_exec_command returned nothing to unpack: a TypeError to main.py.
CommandFails == Fail("UNEXPECTED_EXIT_CODE") \/ Fail("INVALID_ARGUMENT")

\* A file system that is made but cannot be mounted: it stays, zfs has failed.
ReplyMade(kind) ==
    \/ reply' = "ok"
    \/ kind = "filesystem" /\ reply' = "UNEXPECTED_EXIT_CODE"

Create(n, kind) ==
    /\ ds[n] = Absent /\ made < MaxGuid
    /\ ds' = NewDataset(n, kind, made + 1, 0)
    /\ made' = made + 1
    /\ ReplyMade(kind)
    /\ UNCHANGED snaps

\* zfs destroy -r: it refuses if a snapshot is cloned, for a volume as
\* INVALID_ARGUMENT.  Then it destroys the snapshots and the dataset, and may
\* fail in between, as for a file system that is in use.
Destroy(n) ==
    \/ CommandFails
    \/ /\ \A s \in SnapsOf(n) : ~Cloned(s)
       /\ \/ /\ \E gone \in SUBSET SnapsOf(n) : snaps' = snaps \ gone
             /\ reply' \in {"UNEXPECTED_EXIT_CODE", "INVALID_ARGUMENT"}
             /\ UNCHANGED ds
          \/ /\ ds' = [ds EXCEPT ![n] = Absent]
             /\ snaps' = snaps \ SnapsOf(n)
             /\ reply' = "ok"
       /\ UNCHANGED made

\* Slip: tidying up takes the clones of the snapshot along (destroy -R).
CloneFailsHard(s, all, last) ==
    /\ ds' = [n \in Names |-> IF ds[n].origin = s.guid THEN Absent ELSE ds[n]]
    /\ snaps' = all \ ({s} \cup {t \in all : ds[t.of].origin = s.guid})
    /\ made' = last
    /\ reply' = "UNEXPECTED_EXIT_CODE"

\* Snapshot s cannot be cloned, and is tidied up, unless something clones it
\* already or the tidying up fails too.  It stays as well when zfs was busy
\* (INVALID_ARGUMENT), and when targetd is killed after taking it.
CloneFails(s, all, last) ==
    /\ \/ reply' = "UNEXPECTED_EXIT_CODE" /\ ~Cloned(s) /\ snaps' = all \ {s}
       \/ reply' \in {"UNEXPECTED_EXIT_CODE", "INVALID_ARGUMENT"} /\ snaps' = all
    /\ made' = last
    /\ UNCHANGED ds

\* The clone of snapshot s under the name new, where `all` are the snapshots
\* by then and `last` the last uuid.
Clone(s, new, all, last) ==
    \/ CloneFails(s, all, last)
    \/ /\ ds[new] = Absent /\ last < MaxGuid
       /\ ds' = NewDataset(new, ds[s.of].kind, last + 1, s.guid)
       /\ snaps' = all
       /\ made' = last + 1
       /\ ReplyMade(ds[s.of].kind)

\* Slip: what is tidied up is the snapshot of that name, whoever took it.
SnapAndCloneTidied(n, new, t) ==
    LET s == NewSnap(n, <<new, t>>)
        old == {o \in SnapsOf(n) : o.name = s.name}
    IN  \/ \E o \in old : CloneFails(o, snaps, made)
        \/ old = {} /\ made < MaxGuid /\ Clone(s, new, snaps \cup {s}, made + 1)

\* The snapshot of n that a copy to new takes at the second t, and its clone.
SnapAndClone(n, new, t) ==
    /\ \A s \in SnapsOf(n) : s.name # <<new, t>>
    /\ made < MaxGuid
    /\ LET s == NewSnap(n, <<new, t>>)
       IN  Clone(s, new, snaps \cup {s}, made + 1)

\* _copy: of the snapshot given, or of one taken now.  That the new name is taken
\* may also show when zfs refuses to clone.
Copy(n, new, kind, given) ==
    \/ ~zfs_enable_copy /\ Fail("NO_SUPPORT")
    \/ zfs_enable_copy /\ ds[new].kind = kind /\ Fail("NAME_CONFLICT")
    \/ zfs_enable_copy /\ \E s \in given : Clone(s, new, snaps, made)
    \/ /\ zfs_enable_copy /\ given = {}
       /\ CommandFails \/ \E t \in Times : SnapAndClone(n, new, t)

-----------------------------------------------------------------------------
(* Volume calls.  A look-up that fails finds no volume.                    *)

VolCreate(n) ==
    \/ IsVolume(n) /\ Fail("NAME_CONFLICT")
    \/ CommandFails
    \/ Create(n, "volume")

\* Slip: check_vol_exists is not asked before the name is destroyed, and
\* zfs destroy takes a dataset of either kind.
VolDestroyAny(n) == Destroy(n)

VolDestroy(n) ==
    \/ Fail("NOT_FOUND_VOLUME") \/ Fail("INVALID_ARGUMENT")
    \/ IsVolume(n) /\ Destroy(n)

VolCopy(n, new) ==
    \/ Fail("NOT_FOUND_VOLUME")
    \/ Fail("INVALID_ARGUMENT")      \* no larger than n, or zfs get is busy
    \/ IsVolume(n) /\ Copy(n, new, "volume", {})

-----------------------------------------------------------------------------
(* File system calls.                                                      *)

\* _get_fs_by_uuid and _get_ss_by_uuid, when zfs get succeeds.
FsByUuid(u) == {n \in Names : IsFs(n) /\ ds[n].guid = u}
SnapByUuid(n, ss) == {s \in SnapsOf(n) : s.guid = ss}

\* No file system has the uuid, or zfs get failed, or found everything busy.
NoFs == Fail("NOT_FOUND_FS") \/ Fail("INVALID_ARGUMENT")

FsCreate(n) ==
    \/ IsFs(n) /\ Fail("EXISTS_FS_NAME")
    \/ CommandFails
    \/ Create(n, "filesystem")

FsDestroy(u) == NoFs \/ \E n \in FsByUuid(u) : Destroy(n)

FsSnapshot(u, name) ==
    \/ NoFs
    \/ \E n \in FsByUuid(u) :
         \/ (\E s \in SnapsOf(n) : s.name = name) /\ Fail("EXISTS_FS_NAME")
         \/ CommandFails
         \/ /\ \A s \in SnapsOf(n) : s.name # name
            /\ made < MaxGuid
            /\ snaps' = snaps \cup {NewSnap(n, name)}
            /\ made' = made + 1
            /\ reply' = "ok"
            /\ UNCHANGED ds

\* Slip: zfs destroy -R, which takes the clones of the snapshot along.
FsSnapshotDeleteHard(u, ss) ==
    \E n \in FsByUuid(u) : \E s \in SnapByUuid(n, ss) :
        /\ ds' = [m \in Names |-> IF ds[m].origin = ss THEN Absent ELSE ds[m]]
        /\ snaps' = snaps \ ({s} \cup {t \in snaps : ds[t.of].origin = ss})
        /\ reply' = "ok"
        /\ UNCHANGED made

\* The snapshot is looked up twice, by its uuid and by its name.  If the second
\* look-up fails, nothing is deleted, and the answer is ok.
FsSnapshotDelete(u, ss) ==
    \/ NoFs
    \/ FsByUuid(u) # {} /\ Fail("NOT_FOUND_SS")
    \/ \E n \in FsByUuid(u) : \E s \in SnapByUuid(n, ss) :
         \/ CommandFails
         \/ /\ \/ snaps' = snaps
               \/ ~Cloned(s) /\ snaps' = snaps \ {s}
            /\ reply' = "ok"
            /\ UNCHANGED <<ds, made>>

CloneFs(n, new, given) ==
    \/ IsFs(new) /\ Fail("EXISTS_CLONE_NAME")
    \/ Copy(n, new, "filesystem", given)

FsClone(u, new, ss) ==
    \/ NoFs
    \/ \E n \in FsByUuid(u) :
         \/ ss = NoSnap /\ CloneFs(n, new, {})
         \/ ss # NoSnap /\ Fail("NOT_FOUND_SS")
         \/ SnapByUuid(n, ss) # {} /\ CloneFs(n, new, SnapByUuid(n, ss))

-----------------------------------------------------------------------------
VolCall ==
    \E n \in VolNames :
        VolCreate(n) \/ VolDestroy(n) \/ \E new \in VolNames : VolCopy(n, new)

FsCall ==
    \/ \E n \in FsNames : FsCreate(n)
    \/ \E u \in Uuids :
        \/ FsDestroy(u)
        \/ \E name \in SnapNames : FsSnapshot(u, name)
        \/ \E ss \in Uuids : FsSnapshotDelete(u, ss)
        \/ \E new \in FsNames, ss \in Uuids \cup {NoSnap} : FsClone(u, new, ss)

\* The administrator edits the configuration and restarts targetd.
Restart == zfs_enable_copy' \in BOOLEAN /\ UNCHANGED <<ds, snaps, made, reply>>

FsAnswer == fsReply' = IF reply' = "ok" THEN "ok" ELSE "failed"

Next ==
    \/ VolCall /\ UNCHANGED <<zfs_enable_copy, fsReply>>
    \/ FsCall /\ FsAnswer /\ UNCHANGED zfs_enable_copy
    \/ Restart /\ UNCHANGED fsReply

Spec == Init /\ [][Next]_vars

-----------------------------------------------------------------------------
(* Properties.                                                             *)

Kinds == {"none", "volume", "filesystem"}

Codes == {"ok", "UNEXPECTED_EXIT_CODE", "INVALID_ARGUMENT", "NO_SUPPORT",
          "NAME_CONFLICT", "NOT_FOUND_VOLUME", "EXISTS_FS_NAME",
          "EXISTS_CLONE_NAME", "NOT_FOUND_FS", "NOT_FOUND_SS"}

\* Types; every uuid is one that was given out, and every dataset has one.
TypeOK ==
    /\ made \in 0 .. MaxGuid
    /\ ds \in [Names -> [kind : Kinds, guid : 0 .. made, origin : 0 .. made]]
    /\ \A n \in Names : ds[n].guid = 0 => ds[n] = Absent
    /\ snaps \subseteq [of : Names, name : SnapNames \cup Names \X Times, guid : 1 .. made]
    /\ zfs_enable_copy \in BOOLEAN
    /\ reply \in Codes
    /\ fsReply \in {"ok", "failed"}

\* A step changes or destroys a dataset of that kind, or a snapshot of one.
Touched(kind) ==
    \/ \E n \in Names : ds[n].kind = kind /\ ds'[n] # ds[n]
    \/ \E s \in snaps \ snaps' : ds[s.of].kind = kind

\* When the block pool and the file system pool are one dataset, the names of
\* volumes and of file systems meet.  Volume calls nevertheless leave file
\* systems and their snapshots alone, and file system calls volumes.
KindsKept ==
    [][/\ Touched("filesystem") => ~VolCall
       /\ Touched("volume") => ~FsCall]_vars

\* A call that fails, at whichever of its zfs commands, has destroyed and
\* replaced no dataset, in its tidying up neither.
ErrorKeepsDatasets ==
    [][reply' # "ok" => \A n \in Names : ds[n] # Absent => ds'[n] = ds[n]]_vars

\* Two snapshots go in one step only with the dataset that both are of, or when
\* zfs fails to destroy that dataset half way: never by deleting a snapshot.
SnapshotsGoAlone ==
    [][\A s, t \in snaps \ snaps' : s # t =>
          s.of = t.of /\ (ds'[s.of] = Absent \/ reply' # "ok")]_vars

\* The step is one of a call that copies, of one of the sources.
CopyStep(sources) ==
    \/ \E n, new \in VolNames : VolCopy(n, new)
    \/ \E u \in Uuids, new \in FsNames, ss \in sources : FsClone(u, new, ss)

\* A copy that is given no snapshot tidies up none but the one it has taken now,
\* though earlier copies, failed or repeated within the second, have left some of
\* the same name.
CopiesTakeNoSnapshots == [][~(snaps \subseteq snaps') => ~CopyStep({NoSnap})]_vars

\* What the tidying up of a failed copy (zfs.py:419) is for: the snapshot the
\* copy made itself.  A snapshot that was there before the copy stays.
FailedCopyKeepsSnapshots ==
    [][~(snaps \subseteq snaps') => ~(CopyStep(Uuids \cup {NoSnap}) /\ reply' # "ok")]_vars

\* To those who only make file system calls, the backend keeps the promises of
\* FileStore, whatever happens to volumes beside them.
Store == INSTANCE FileStore WITH
    SkipsDeletes <- TRUE,
    fs <- [n \in Names |-> IF IsFs(n) THEN ds[n].guid ELSE 0],
    snaps <- {[fs |-> ds[s.of].guid, name |-> s.name, guid |-> s.guid] :
                 s \in {t \in snaps : IsFs(t.of)}},
    reply <- fsReply

ImplementsFileStore == Store!Spec
=============================================================================
