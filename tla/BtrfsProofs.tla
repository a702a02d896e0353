---------------------------- MODULE BtrfsProofs -----------------------------
(***************************************************************************)
(* Theorems about Btrfs: its types, whose the snapshots are, and that it   *)
(* implements FileStore, for any names and any number of subvolumes.       *)
(***************************************************************************)
EXTENDS Btrfs, TLAPS

\* No two subvolumes have the same uuid.
UuidsUnique ==
    /\ \A m, n \in Names : Exists(m) /\ sub[m] = sub[n] => m = n
    /\ \A n \in Names, s \in snaps : sub[n] # s.guid
    /\ \A s, t \in snaps : s.guid = t.guid => s = t

Inv == TypeOK /\ SnapshotsOfTheirFs /\ UuidsUnique

-----------------------------------------------------------------------------
(* What a step does, leaving aside which call it is of.                    *)

Failed == reply' \in Codes \ {"ok"} /\ UNCHANGED <<sub, base, snaps, made>>

MadeDir(n) ==
    /\ Exists(n) /\ base' = base \cup {n}
    /\ reply' \in {"EXISTS_FS_NAME", "UNEXPECTED_EXIT_CODE"}
    /\ UNCHANGED <<sub, snaps, made>>

Taken(n, name) ==
    /\ Exists(n) /\ base' = base \cup {n}
    /\ \A s \in snaps : ~(s.dir = n /\ s.name = name)
    /\ made < MaxUuid
    /\ snaps' = snaps \cup {[dir |-> n, name |-> name, guid |-> made + 1, of |-> sub[n]]}
    /\ made' = made + 1
    /\ reply' = "ok"
    /\ UNCHANGED sub

Deleted(n, s) ==
    /\ Exists(n) /\ s \in Listed(n)
    /\ snaps' = snaps \ {s}
    /\ reply' = "ok"
    /\ UNCHANGED <<sub, base, made>>

\* Every step ends a call with nothing done but perhaps the snapshots' directory
\* made, makes one subvolume, deletes one, or is one of fs_destroy.
LEMMA StepKinds ==
    ASSUME Next
    PROVE  \/ Failed
           \/ \E n \in Names : ~Exists(n) /\ NewSubvolume(n)
           \/ \E n \in Names : MadeDir(n)
           \/ \E n \in Names, name \in SnapNames : Taken(n, name)
           \/ \E n \in Names, s \in snaps : Deleted(n, s)
           \/ \E n \in Names : Exists(n) /\ Destroy(n)
<1>1. ASSUME NEW code \in Codes \ {"ok"}, Fail(code) PROVE Failed
  BY <1>1 DEF Fail, Failed
<1>2. CommandFails => Failed
  BY <1>1 DEF CommandFails, Codes
<1>3. ASSUME NEW u, NoFs(u) PROVE Failed
  BY <1>1, <1>2, <1>3 DEF NoFs, Codes
<1>4. ASSUME NEW n \in Names, FsCreate(n) PROVE Failed \/ (~Exists(n) /\ NewSubvolume(n))
  BY <1>1, <1>2, <1>4 DEF FsCreate, Codes
<1>5. ASSUME NEW u \in Uuids, FsDestroy(u)
      PROVE  Failed \/ \E n \in Names : Exists(n) /\ Destroy(n)
  BY <1>3, <1>5 DEF FsDestroy, FsByUuid
<1>6. ASSUME NEW u \in Uuids, NEW name \in SnapNames, FsSnapshot(u, name)
      PROVE  \/ Failed
             \/ \E n \in Names : MadeDir(n) \/ Taken(n, name)
  <2>1. ASSUME NEW n \in FsByUuid(u), SnapshotOf(n, name)
        PROVE  Failed \/ (n \in Names /\ (MadeDir(n) \/ Taken(n, name)))
    BY <1>2, <2>1 DEF SnapshotOf, FsByUuid, MadeDir, Taken
  <2> QED BY <1>3, <1>6, <2>1 DEF FsSnapshot
<1>7. ASSUME NEW u \in Uuids, NEW ss \in Uuids, FsSnapshotDelete(u, ss)
      PROVE  Failed \/ \E n \in Names, s \in snaps : Deleted(n, s)
  <2>1. ASSUME NEW n \in FsByUuid(u), NEW s \in SnapByUuid(n, ss),
               snaps' = snaps \ {s}, reply' = "ok", UNCHANGED <<sub, base, made>>
        PROVE  n \in Names /\ s \in snaps /\ Deleted(n, s)
    BY <2>1 DEF FsByUuid, SnapByUuid, Listed, Deleted
  <2>2. Fail("NOT_FOUND_SS") => Failed
    BY <1>1 DEF Codes
  <2> QED BY <1>3, <1>7, <2>1, <2>2 DEF FsSnapshotDelete
<1>8. ASSUME NEW u \in Uuids, NEW new \in Names, NEW ss, FsClone(u, new, ss)
      PROVE  Failed \/ (~Exists(new) /\ NewSubvolume(new))
  <2>1. CloneTo(0, new) => Failed \/ (~Exists(new) /\ NewSubvolume(new))
    BY <1>1, <1>2 DEF CloneTo, Codes
  <2>2. \A n : CloneTo(n, new) => CloneTo(0, new)
    BY DEF CloneTo
  <2>3. Fail("NOT_FOUND_SS") => Failed
    BY <1>1 DEF Codes
  <2> QED BY <1>3, <1>8, <2>1, <2>2, <2>3 DEF FsClone
<1> QED BY <1>4, <1>5, <1>6, <1>7, <1>8 DEF Next

-----------------------------------------------------------------------------
(* The invariant.                                                          *)

LEMMA InvInit == Init => Inv
  BY MaxUuidAssumption
     DEF Init, Inv, TypeOK, SnapshotsOfTheirFs, UuidsUnique, Exists, Codes

LEMMA InvNewSubvolume ==
    ASSUME Inv, NEW n \in Names, ~Exists(n), NewSubvolume(n) PROVE Inv'
<1> USE MaxUuidAssumption DEF Inv, TypeOK, NewSubvolume, Exists
<1>1. TypeOK'
  <2>1. made + 1 \in 0 .. MaxUuid /\ 1 .. made \subseteq 1 .. made + 1
    OBVIOUS
  <2>2. sub' \in [Names -> 0 .. made']
    BY <2>1
  <2>3. base \subseteq {m \in Names : sub'[m] # 0}
    BY <2>1
  <2>4. snaps \subseteq [dir : base, name : SnapNames, guid : 1 .. made', of : 1 .. made']
    BY <2>1
  <2> QED BY <2>1, <2>2, <2>3, <2>4 DEF Codes
<1>2. SnapshotsOfTheirFs'
  <2>1. \A s \in snaps : s.dir # n
    OBVIOUS
  <2> QED BY <2>1 DEF SnapshotsOfTheirFs
<1>3. UuidsUnique'
  BY DEF UuidsUnique
<1> QED BY <1>1, <1>2, <1>3

LEMMA InvTaken ==
    ASSUME Inv, NEW n \in Names, NEW name \in SnapNames, Taken(n, name) PROVE Inv'
<1> DEFINE new == [dir |-> n, name |-> name, guid |-> made + 1, of |-> sub[n]]
<1> USE MaxUuidAssumption DEF Inv, TypeOK, Taken, Exists
<1>1. made + 1 \in 0 .. MaxUuid /\ sub[n] \in 1 .. made
  OBVIOUS
<1>2. TypeOK'
  <2>1. new \in [dir : base', name : SnapNames, guid : 1 .. made', of : 1 .. made']
    BY <1>1
  <2>2. snaps \subseteq [dir : base', name : SnapNames, guid : 1 .. made', of : 1 .. made']
    BY <1>1
  <2>3. sub' \in [Names -> 0 .. made']
    BY <1>1
  <2> QED BY <1>1, <2>1, <2>2, <2>3 DEF Codes
<1>3. SnapshotsOfTheirFs'
  BY DEF SnapshotsOfTheirFs
<1>4. UuidsUnique'
  <2>1. \A s \in snaps : s.guid \in 1 .. made
    OBVIOUS
  <2>2. \A m \in Names : sub[m] # made + 1
    BY <1>1
  <2> QED BY <1>1, <2>1, <2>2 DEF UuidsUnique
<1> QED BY <1>2, <1>3, <1>4

\* Snapshots only go, and a file system with all of its own.
LEMMA InvFewer ==
    ASSUME Inv, NEW n \in Names, snaps' \subseteq snaps, made' = made, reply' \in Codes,
           \/ UNCHANGED <<sub, base>>
           \/ /\ base' = base \ {n}
              /\ \A s \in snaps' : s.dir # n
              /\ sub' = sub \/ sub' = [sub EXCEPT ![n] = 0]
    PROVE  Inv'
<1> USE DEF Inv, TypeOK, Exists
<1>1. TypeOK'
  <2>1. sub' \in [Names -> 0 .. made']
    OBVIOUS
  <2>2. base' \subseteq {m \in Names : sub'[m] # 0}
    OBVIOUS
  <2>3. \A s \in snaps' : s \in [dir : base', name : SnapNames, guid : 1 .. made', of : 1 .. made']
    OBVIOUS
  <2> QED BY <2>1, <2>2, <2>3
<1>2. SnapshotsOfTheirFs'
  BY DEF SnapshotsOfTheirFs
<1>3. UuidsUnique'
  BY DEF UuidsUnique
<1> QED BY <1>1, <1>2, <1>3

LEMMA InvDestroy == ASSUME Inv, NEW n \in Names, Destroy(n) PROVE Inv'
<1>1. PICK gone \in SUBSET Listed(n) :
        /\ snaps' = snaps \ gone /\ made' = made
        /\ \/ reply' = "UNEXPECTED_EXIT_CODE" /\ UNCHANGED <<sub, base>>
           \/ /\ gone = Listed(n)
              /\ base' = base \ {n}
              /\ reply' \in {"ok", "UNEXPECTED_EXIT_CODE"}
              /\ sub' = sub \/ sub' = [sub EXCEPT ![n] = 0]
  BY DEF Destroy
<1>2. gone = Listed(n) => \A s \in snaps' : s.dir # n
  BY <1>1 DEF Listed, Inv, TypeOK
<1> QED BY <1>1, <1>2, InvFewer DEF Codes

LEMMA InvStep == Inv /\ [Next]_vars => Inv'
<1> SUFFICES ASSUME Inv, [Next]_vars PROVE Inv'
  OBVIOUS
<1>1. CASE Failed \/ UNCHANGED vars
  BY <1>1 DEF Failed, vars, Inv, TypeOK, SnapshotsOfTheirFs, UuidsUnique, Exists
<1>2. ASSUME NEW n \in Names, MadeDir(n) PROVE Inv'
  BY <1>2 DEF MadeDir, Inv, TypeOK, SnapshotsOfTheirFs, UuidsUnique, Exists, Codes
<1>3. ASSUME NEW n \in Names, NEW s \in snaps, Deleted(n, s) PROVE Inv'
  BY <1>3, InvFewer DEF Deleted, Codes
<1> QED BY <1>1, <1>2, <1>3, StepKinds, InvNewSubvolume, InvTaken, InvDestroy

THEOREM InvHolds == Spec => []Inv
  BY InvInit, InvStep, PTL DEF Spec

\* Every reachable state has its type: snapshots lie in directories that exist,
\* and those in turn belong to file systems that exist.
THEOREM TypeCorrect == Spec => []TypeOK
<1>1. Inv => TypeOK
  BY DEF Inv
<1> QED BY <1>1, InvHolds, PTL

\* No file system inherits the snapshots of an earlier one of its name, however
\* often fs_destroy (btrfs.py:149) fails half way.
THEOREM SnapshotsStayTheirs == Spec => []SnapshotsOfTheirFs
<1>1. Inv => SnapshotsOfTheirFs
  BY DEF Inv
<1> QED BY <1>1, InvHolds, PTL

-----------------------------------------------------------------------------
(* The refinement.                                                         *)

\* A snapshot as FileStore sees it.
Abs(s) == [fs |-> s.of, name |-> s.name, guid |-> s.guid]

AbsSnaps == {Abs(s) : s \in snaps}

AbsReply == IF reply = "ok" THEN "ok" ELSE "failed"

LEMMA AbsVars ==
    /\ AbsSnaps = {[fs |-> s.of, name |-> s.name, guid |-> s.guid] : s \in snaps}
    /\ AbsReply' \in {"ok", "failed"}
  BY DEF AbsSnaps, AbsReply, Abs

\* The uuid that is given out next is nobody's.
LEMMA NextFresh ==
    ASSUME Inv, made < MaxUuid PROVE Store!Fresh(made + 1)
<1>1. made + 1 \in Uuids
  BY MaxUuidAssumption DEF Inv, TypeOK, Uuids
<1>2. \A n \in Names : sub[n] # made + 1
  BY DEF Inv, TypeOK
<1>3. \A s \in AbsSnaps : s.guid # made + 1
  BY DEF AbsSnaps, Abs, Inv, TypeOK
<1> QED BY <1>1, <1>2, <1>3, AbsVars DEF Store!Fresh

\* The snapshots of the file system are those in its directory.
LEMMA SnapsOfDir ==
    ASSUME Inv, NEW n \in Names, Exists(n)
    PROVE  /\ \A s \in snaps : s.of = sub[n] <=> s.dir = n
           /\ \A s \in snaps : s.dir = n <=> s \in Listed(n)
           /\ Store!SnapsOf(n) = {Abs(s) : s \in Listed(n)}
<1>1. \A s \in snaps : s.dir \in Names /\ s.dir \in base /\ Exists(s.dir) /\ sub[s.dir] = s.of
  BY DEF Inv, TypeOK, SnapshotsOfTheirFs
<1>2. \A s \in snaps : s.of = sub[n] <=> s.dir = n
  BY <1>1 DEF Inv, UuidsUnique
<1>3. \A s \in snaps : s.dir = n <=> s \in Listed(n)
  BY <1>1 DEF Listed
<1>4. Listed(n) \subseteq snaps
  BY DEF Listed
<1>5. \A s : Abs(s).fs = s.of
  BY DEF Abs
<1>6. Store!SnapsOf(n) = {s \in AbsSnaps : s.fs = sub[n]}
  BY AbsVars DEF Store!SnapsOf
<1>7. {s \in AbsSnaps : s.fs = sub[n]} = {Abs(s) : s \in Listed(n)}
  BY <1>2, <1>3, <1>4, <1>5 DEF AbsSnaps
<1> QED BY <1>2, <1>3, <1>6, <1>7

\* What goes of the snapshots goes of what FileStore sees of them.
LEMMA AbsMinus ==
    ASSUME Inv, NEW gone \in SUBSET snaps
    PROVE  {Abs(s) : s \in snaps \ gone} = AbsSnaps \ {Abs(s) : s \in gone}
<1>1. \A s, t \in snaps : Abs(s) = Abs(t) => s = t
  BY DEF Abs, Inv, UuidsUnique
<1> QED BY <1>1 DEF AbsSnaps

LEMMA RefuseStep ==
    ASSUME UNCHANGED <<sub, snaps>>, reply' # "ok" PROVE Store!Next
<1>1. Store!Refuse
  BY DEF Store!Refuse
<1> QED BY <1>1 DEF Store!Next

LEMMA MakeStep ==
    ASSUME Inv, NEW n \in Names, ~Exists(n), NewSubvolume(n) PROVE Store!Next
<1>1. made < MaxUuid /\ sub' = [sub EXCEPT ![n] = made + 1] /\ snaps' = snaps
  BY DEF NewSubvolume
<1>2. made + 1 \in Uuids /\ Store!Fresh(made + 1)
  BY <1>1, NextFresh DEF Store!Fresh
<1>3. Store!Answers
  BY DEF Store!Answers
<1>4. AbsSnaps' = AbsSnaps
  BY <1>1 DEF AbsSnaps
<1>5. Store!Make(n)
  BY <1>1, <1>2, <1>3, <1>4 DEF Store!Make, AbsSnaps, Abs, Exists
<1> QED BY <1>5 DEF Store!Next

LEMMA SnapshotStep ==
    ASSUME Inv, NEW n \in Names, NEW name \in SnapNames, Taken(n, name) PROVE Store!Next
<1> DEFINE new == [dir |-> n, name |-> name, guid |-> made + 1, of |-> sub[n]]
<1>1. /\ Exists(n) /\ sub' = sub /\ snaps' = snaps \cup {new}
      /\ \A s \in snaps : ~(s.dir = n /\ s.name = name)
      /\ made < MaxUuid
  BY DEF Taken
<1>2. AbsSnaps' = AbsSnaps \cup {Abs(new)}
  BY <1>1 DEF AbsSnaps
<1>3. Abs(new) = [fs |-> sub[n], name |-> name, guid |-> made + 1]
  BY DEF Abs
<1>4. Store!Fresh(made + 1)
  BY <1>1, NextFresh
<1>5. Store!NewSnap(n, Abs(new))
  <2>1. \A t \in Store!SnapsOf(n) : t.name # name
    <3>1. \A s \in Listed(n) : s \in snaps /\ s.dir = n
      BY DEF Listed
    <3>2. \A s : Abs(s).name = s.name
      BY DEF Abs
    <3>3. Store!SnapsOf(n) = {Abs(s) : s \in Listed(n)}
      BY <1>1, SnapsOfDir
    <3> QED BY <1>1, <3>1, <3>2, <3>3
  <2> QED BY <2>1, <1>3, <1>4 DEF Store!NewSnap
<1>6. Abs(new) \in AbsSnaps' \ AbsSnaps
  <2>1. \A s \in AbsSnaps : s.guid # made + 1
    BY <1>4, AbsVars DEF Store!Fresh
  <2> QED BY <2>1, <1>2, <1>3
<1>7. Store!Snapshot(n)
  BY <1>1, <1>2, <1>5, <1>6 DEF Store!Snapshot, Store!Answers, AbsSnaps, Abs, Exists
<1> QED BY <1>7 DEF Store!Next

LEMMA DeleteStep ==
    ASSUME Inv, NEW n \in Names, NEW s \in snaps, Deleted(n, s) PROVE Store!Next
<1>1. Exists(n) /\ s \in Listed(n) /\ sub' = sub /\ snaps' = snaps \ {s}
  BY DEF Deleted
<1>2. AbsSnaps' = AbsSnaps \ {Abs(s)}
  BY <1>1, AbsMinus DEF AbsSnaps
<1>3. Abs(s) \in Store!SnapsOf(n)
  BY <1>1, SnapsOfDir
<1>4. Store!DeleteSnap(n)
  BY <1>1, <1>2, <1>3 DEF Deleted, Store!DeleteSnap, AbsSnaps, Abs
<1> QED BY <1>4 DEF Store!Next

\* fs_destroy: all of it, or some snapshots of this file system and a failure.
LEMMA DestroyStep ==
    ASSUME Inv, NEW n \in Names, Exists(n), Destroy(n) PROVE Store!Next
<1>1. PICK gone \in SUBSET Listed(n) :
        /\ snaps' = snaps \ gone
        /\ \/ reply' # "ok" /\ sub' = sub
           \/ gone = Listed(n) /\ reply' = "ok" /\ sub' = [sub EXCEPT ![n] = 0]
  BY DEF Destroy
<1>2. gone \subseteq snaps
  BY DEF Listed
<1>3. AbsSnaps' = AbsSnaps \ {Abs(s) : s \in gone}
  BY <1>1, <1>2, AbsMinus DEF AbsSnaps
<1>4. Store!SnapsOf(n) = {Abs(s) : s \in Listed(n)}
  BY SnapsOfDir
<1>5. CASE reply' # "ok" /\ sub' = sub
  <2>1. AbsSnaps' \subseteq AbsSnaps /\ AbsSnaps \ AbsSnaps' \subseteq Store!SnapsOf(n)
    BY <1>3, <1>4
  <2>2. Store!DestroyInPart(n)
    BY <1>5, <2>1 DEF Store!DestroyInPart, AbsSnaps, Abs
  <2> QED BY <2>2 DEF Store!Next
<1>6. CASE gone = Listed(n) /\ reply' = "ok" /\ sub' = [sub EXCEPT ![n] = 0]
  <2>1. AbsSnaps' = AbsSnaps \ Store!SnapsOf(n)
    BY <1>3, <1>4, <1>6
  <2>2. Store!Destroy(n)
    BY <1>6, <2>1 DEF Store!Destroy, AbsSnaps, Abs, Exists
  <2> QED BY <2>2 DEF Store!Next
<1> QED BY <1>1, <1>5, <1>6

LEMMA StoreStep == Inv /\ [Next]_vars => [Store!Next]_(Store!vars)
<1> SUFFICES ASSUME Inv, [Next]_vars PROVE [Store!Next]_(Store!vars)
  OBVIOUS
<1>1. CASE UNCHANGED vars
  BY <1>1 DEF vars, Store!vars
<1>2. CASE Failed \/ \E n \in Names : MadeDir(n)
  BY <1>2, RefuseStep DEF Failed, MadeDir
<1> QED BY <1>1, <1>2, StepKinds, MakeStep, SnapshotStep, DeleteStep, DestroyStep

\* Whatever calls come and fail, the backend is a store of file systems, each
\* with snapshots of its own: every call does what FileStore promises of it.
THEOREM BtrfsIsFileStore == Spec => ImplementsFileStore
<1>1. Init => Store!Init
  BY DEF Init, Store!Init
<1> QED BY <1>1, InvHolds, StoreStep, PTL DEF Spec, ImplementsFileStore, Store!Spec
=============================================================================
