----------------------------- MODULE ZfsProofs ------------------------------
(***************************************************************************)
(* Theorems about Zfs, for any names, times and number of datasets: types, *)
(* that the calls keep to datasets of their kind, which snapshots a step   *)
(* may take, and that Zfs implements FileStore.                            *)
(***************************************************************************)
EXTENDS Zfs, FiniteSetTheorems, TLAPS

\* A snapshot is of a dataset that is there.
SnapsOfDatasets == \A s \in snaps : ds[s.of] # Absent

\* No two datasets or snapshots have the same uuid, but for the origin of a clone.
UuidsUnique ==
    /\ \A m, n \in Names : ds[m] # Absent /\ ds[m].guid = ds[n].guid => m = n
    /\ \A n \in Names, s \in snaps : ds[n].guid # s.guid
    /\ \A s, t \in snaps : s.guid = t.guid => s = t

Inv == TypeOK /\ SnapsOfDatasets /\ UuidsUnique

-----------------------------------------------------------------------------
(* What a call does, leaving aside which call it is.                       *)

Same == UNCHANGED <<ds, snaps>> /\ made' \in {made, made + 1} /\ made' <= MaxGuid

Skipped(n, kind) ==
    /\ ds[n].kind = kind /\ SnapsOf(n) # {}
    /\ ds' = ds /\ snaps' = snaps /\ made' = made /\ reply' = "ok"

Created(n, kind) ==
    /\ ds[n] = Absent /\ made < MaxGuid
    /\ ds' = NewDataset(n, kind, made + 1, 0)
    /\ made' = made + 1 /\ snaps' = snaps

Destroyed(n, kind) ==
    /\ ds[n].kind = kind
    /\ ds' = [ds EXCEPT ![n] = Absent]
    /\ snaps' = snaps \ SnapsOf(n)
    /\ made' = made /\ reply' = "ok"

Thinned(n, kind) ==
    /\ ds[n].kind = kind
    /\ snaps' \subseteq snaps /\ snaps \ snaps' \subseteq SnapsOf(n)
    /\ made' = made /\ ds' = ds /\ reply' # "ok"

Snapped(n, kind, name) ==
    /\ ds[n].kind = kind /\ made < MaxGuid
    /\ \A s \in SnapsOf(n) : s.name # name
    /\ snaps' = snaps \cup {NewSnap(n, name)}
    /\ made' = made + 1 /\ ds' = ds

Unsnapped(s, kind) ==
    /\ ds[s.of].kind = kind
    /\ snaps' = snaps \ {s}
    /\ made' = made /\ ds' = ds

CloneMade(s, new, kind) ==
    /\ ds[s.of].kind = kind /\ ds[new] = Absent /\ made < MaxGuid
    /\ ds' = NewDataset(new, kind, made + 1, s.guid)
    /\ made' = made + 1 /\ snaps' = snaps

CopyMade(n, new, kind, name) ==
    /\ ds[n].kind = kind /\ ds[new] = Absent /\ made + 1 < MaxGuid
    /\ \A s \in SnapsOf(n) : s.name # name
    /\ ds' = NewDataset(new, kind, made + 2, made + 1)
    /\ snaps' = snaps \cup {NewSnap(n, name)}
    /\ made' = made + 2

SnapNamesAll == SnapNames \cup Names \X Times

\* The effects of a call for datasets of one kind.
Effect(kind) ==
    \/ Same /\ reply' # "ok"
    \/ \E n \in Names : Skipped(n, kind)
    \/ \E n \in Names : Created(n, kind)
    \/ \E n \in Names : Destroyed(n, kind)
    \/ \E n \in Names : Thinned(n, kind)
    \/ \E n \in Names, name \in SnapNamesAll : Snapped(n, kind, name)
    \/ \E s \in snaps : Unsnapped(s, kind)
    \/ \E s \in snaps, new \in Names : CloneMade(s, new, kind)
    \/ \E n, new \in Names, name \in SnapNamesAll : CopyMade(n, new, kind, name)

LEMMA FailEffect ==
    ASSUME TypeOK, NEW code \in Codes \ {"ok"}, NEW kind, Fail(code)
    PROVE  reply' \in Codes /\ Effect(kind)
  BY MaxGuidAssumption DEF Fail, Effect, Same, TypeOK

LEMMA CommandFailsEffect ==
    ASSUME TypeOK, NEW kind, CommandFails PROVE reply' \in Codes /\ Effect(kind)
  BY FailEffect DEF CommandFails, Codes

LEMMA CreateEffect ==
    ASSUME NEW n \in Names, NEW kind, Create(n, kind) PROVE reply' \in Codes /\ Effect(kind)
  BY DEF Create, ReplyMade, Effect, Created, Codes

LEMMA DestroyEffect ==
    ASSUME TypeOK, NEW n \in Names, Destroy(n)
    PROVE  reply' \in Codes /\ Effect(ds[n].kind)
<1>1. CASE CommandFails
  BY <1>1, CommandFailsEffect
<1>2. ASSUME NEW gone \in SUBSET SnapsOf(n), snaps' = snaps \ gone, ds' = ds, made' = made,
             reply' \in {"UNEXPECTED_EXIT_CODE", "INVALID_ARGUMENT"}
      PROVE  reply' \in Codes /\ Effect(ds[n].kind)
  <2>1. Thinned(n, ds[n].kind)
    BY <1>2 DEF Thinned
  <2> QED BY <1>2, <2>1 DEF Effect, Codes
<1>3. ASSUME ds' = [ds EXCEPT ![n] = Absent], snaps' = snaps \ SnapsOf(n), made' = made,
             reply' = "ok"
      PROVE  reply' \in Codes /\ Effect(ds[n].kind)
  <2>1. Destroyed(n, ds[n].kind)
    BY <1>3 DEF Destroyed
  <2> QED BY <1>3, <2>1 DEF Effect, Codes
<1> QED BY <1>1, <1>2, <1>3 DEF Destroy

\* A snapshot taken now is none of those that were there.
LEMMA NewSnapNew ==
    ASSUME TypeOK, NEW n \in Names, NEW name
    PROVE  NewSnap(n, name) \notin snaps /\ NewSnap(n, name).guid = made + 1
           /\ NewSnap(n, name).of = n /\ NewSnap(n, name).name = name
  BY DEF TypeOK, NewSnap

\* The three commands of a copy, up to whichever succeeds.
LEMMA CopyEffect ==
    ASSUME TypeOK, NEW n \in Names, NEW new \in Names, NEW kind, ds[n].kind = kind,
           NEW given \in SUBSET SnapsOf(n), Copy(n, new, kind, given)
    PROVE  reply' \in Codes /\ Effect(kind)
<1>1. CASE Fail("NO_SUPPORT") \/ Fail("NAME_CONFLICT")
  BY <1>1, FailEffect DEF Codes
<1>2. ASSUME NEW s \in given, Clone(s, new, snaps, made)
      PROVE  reply' \in Codes /\ Effect(kind)
  <2>1. s \in snaps /\ s.of = n
    BY DEF SnapsOf
  <2>2. CASE CloneFails(s, snaps, made)
    <3>1. (Same /\ reply' # "ok") \/ Unsnapped(s, kind)
      BY <2>1, <2>2, MaxGuidAssumption DEF CloneFails, Same, Unsnapped, TypeOK
    <3> QED BY <2>1, <2>2, <3>1 DEF Effect, CloneFails, Codes
  <2>3. CASE ~CloneFails(s, snaps, made)
    <3>1. CloneMade(s, new, kind) /\ ReplyMade(kind)
      BY <1>2, <2>1, <2>3 DEF Clone, CloneMade
    <3> QED BY <2>1, <3>1 DEF Effect, ReplyMade, Codes
  <2> QED BY <2>2, <2>3
<1>3. ASSUME CommandFails PROVE reply' \in Codes /\ Effect(kind)
  BY <1>3, CommandFailsEffect
<1>4. ASSUME NEW t \in Times, \A s \in SnapsOf(n) : s.name # <<new, t>>, made < MaxGuid,
             Clone(NewSnap(n, <<new, t>>), new, snaps \cup {NewSnap(n, <<new, t>>)}, made + 1)
      PROVE  reply' \in Codes /\ Effect(kind)
  <2> DEFINE s == NewSnap(n, <<new, t>>)
  <2>1. s \notin snaps /\ s.of = n /\ s.guid = made + 1 /\ <<new, t>> \in SnapNamesAll
    BY NewSnapNew DEF SnapNamesAll
  <2>2. CASE CloneFails(s, snaps \cup {s}, made + 1)
    <3>1. (Same /\ reply' # "ok") \/ Snapped(n, kind, <<new, t>>)
      <4>1. CASE snaps' = snaps \cup {s}
        BY <1>4, <2>2, <4>1 DEF CloneFails, Snapped
      <4>2. CASE snaps' = (snaps \cup {s}) \ {s}
        <5>1. snaps' = snaps
          BY <2>1, <4>2
        <5> QED BY <1>4, <2>2, <5>1, MaxGuidAssumption DEF CloneFails, Same, TypeOK
      <4> QED BY <2>2, <4>1, <4>2 DEF CloneFails
    <3> QED BY <2>1, <2>2, <3>1 DEF Effect, CloneFails, Codes
  <2>3. CASE ~CloneFails(s, snaps \cup {s}, made + 1)
    <3>1. /\ ds[new] = Absent /\ made + 1 < MaxGuid
          /\ ds' = NewDataset(new, kind, made + 1 + 1, made + 1)
          /\ snaps' = snaps \cup {s} /\ made' = made + 1 + 1 /\ ReplyMade(kind)
      BY <1>4, <2>1, <2>3 DEF Clone
    <3>2. CopyMade(n, new, kind, <<new, t>>)
      <4>1. made + 1 + 1 = made + 2
        BY DEF TypeOK
      <4> QED BY <1>4, <3>1, <4>1 DEF CopyMade
    <3> QED BY <2>1, <3>1, <3>2 DEF Effect, ReplyMade, Codes
  <2> QED BY <2>2, <2>3
<1> QED BY <1>1, <1>2, <1>3, <1>4 DEF Copy, SnapAndClone

LEMMA VolCallEffect == ASSUME TypeOK, VolCall PROVE reply' \in Codes /\ Effect("volume")
<1>1. \A code \in Codes \ {"ok"} : Fail(code) => reply' \in Codes /\ Effect("volume")
  BY FailEffect
<1>2. ASSUME NEW n \in VolNames, VolCreate(n) PROVE reply' \in Codes /\ Effect("volume")
  BY <1>1, <1>2, CommandFailsEffect, CreateEffect DEF VolCreate, Codes, Names
<1>3. ASSUME NEW n \in VolNames, VolDestroy(n) PROVE reply' \in Codes /\ Effect("volume")
  BY <1>1, <1>3, DestroyEffect DEF VolDestroy, Codes, Names, IsVolume
<1>4. ASSUME NEW n \in VolNames, NEW new \in VolNames, VolCopy(n, new)
      PROVE  reply' \in Codes /\ Effect("volume")
  <2>1. CASE IsVolume(n) /\ Copy(n, new, "volume", {})
    BY <2>1, CopyEffect DEF IsVolume, Names
  <2> QED BY <1>1, <1>4, <2>1 DEF VolCopy, Codes
<1> QED BY <1>2, <1>3, <1>4 DEF VolCall

LEMMA FsCallEffect == ASSUME TypeOK, FsCall PROVE reply' \in Codes /\ Effect("filesystem")
<1> DEFINE Ok == reply' \in Codes /\ Effect("filesystem")
<1>1. ASSUME NEW code \in Codes \ {"ok"}, Fail(code) PROVE Ok
  BY <1>1, FailEffect
<1>2. ASSUME CommandFails PROVE Ok
  BY <1>2, CommandFailsEffect
<1>3. ASSUME NoFs PROVE Ok
  BY <1>1, <1>3 DEF NoFs, Codes
<1>4. ASSUME NEW n \in FsNames, FsCreate(n) PROVE Ok
  <2>1. CASE Create(n, "filesystem")
    BY <2>1, CreateEffect DEF Names
  <2> QED BY <1>1, <1>2, <1>4, <2>1 DEF FsCreate, Codes
<1>5. ASSUME NEW u \in Uuids, FsDestroy(u) PROVE Ok
  <2>1. ASSUME NEW n \in FsByUuid(u), Destroy(n) PROVE Ok
    BY <2>1, DestroyEffect DEF FsByUuid, IsFs
  <2> QED BY <1>3, <1>5, <2>1 DEF FsDestroy
<1>6. ASSUME NEW u \in Uuids, NEW name \in SnapNames, FsSnapshot(u, name) PROVE Ok
  <2>1. ASSUME NEW n \in FsByUuid(u),
               \A s \in SnapsOf(n) : s.name # name, made < MaxGuid,
               snaps' = snaps \cup {NewSnap(n, name)}, made' = made + 1,
               reply' = "ok", ds' = ds
        PROVE  Ok
    <3>1. n \in Names /\ Snapped(n, "filesystem", name)
      BY <2>1 DEF FsByUuid, IsFs, Snapped
    <3> QED BY <2>1, <3>1 DEF Effect, SnapNamesAll, Codes
  <2> QED BY <1>1, <1>2, <1>3, <1>6, <2>1 DEF FsSnapshot, Codes
<1>7. ASSUME NEW u \in Uuids, NEW ss \in Uuids, FsSnapshotDelete(u, ss) PROVE Ok
  <2>1. ASSUME NEW n \in FsByUuid(u), NEW s \in SnapByUuid(n, ss),
               snaps' = snaps \ {s}, reply' = "ok", ds' = ds, made' = made
        PROVE  Ok
    <3>1. s \in snaps /\ Unsnapped(s, "filesystem")
      BY <2>1 DEF FsByUuid, IsFs, SnapByUuid, SnapsOf, Unsnapped
    <3> QED BY <2>1, <3>1 DEF Effect, Codes
  <2>2. ASSUME NEW n \in FsByUuid(u), NEW s \in SnapByUuid(n, ss),
               snaps' = snaps, reply' = "ok", ds' = ds, made' = made
        PROVE  Ok
    <3>1. n \in Names /\ Skipped(n, "filesystem")
      BY <2>2 DEF FsByUuid, IsFs, SnapByUuid, Skipped
    <3> QED BY <2>2, <3>1 DEF Effect, Codes
  <2> QED BY <1>1, <1>2, <1>3, <1>7, <2>1, <2>2 DEF FsSnapshotDelete, Codes
<1>8. ASSUME NEW u \in Uuids, NEW new \in FsNames, NEW ss, FsClone(u, new, ss) PROVE Ok
  <2>1. ASSUME NEW n \in FsByUuid(u), NEW given \in SUBSET SnapsOf(n), CloneFs(n, new, given)
        PROVE  Ok
    <3>1. n \in Names /\ new \in Names /\ ds[n].kind = "filesystem"
      BY DEF FsByUuid, IsFs, Names
    <3>2. CASE Copy(n, new, "filesystem", given)
      BY <3>1, <3>2, CopyEffect
    <3> QED BY <1>1, <2>1, <3>2 DEF CloneFs, Codes
  <2>2. \A n : SnapByUuid(n, ss) \subseteq SnapsOf(n)
    BY DEF SnapByUuid
  <2> QED BY <1>1, <1>3, <1>8, <2>1, <2>2 DEF FsClone, Codes
<1> QED BY <1>4, <1>5, <1>6, <1>7, <1>8 DEF FsCall

-----------------------------------------------------------------------------
(* The invariant.                                                          *)

\* What one can say of the datasets and snapshots when their types are right.
DatasetsTyped ==
    /\ made \in 0 .. MaxGuid
    /\ ds \in [Names -> [kind : Kinds, guid : 0 .. made, origin : 0 .. made]]
    /\ \A n \in Names : ds[n].guid = 0 => ds[n] = Absent
    /\ snaps \subseteq [of : Names, name : SnapNamesAll, guid : 1 .. made]

State == DatasetsTyped /\ SnapsOfDatasets /\ UuidsUnique

LEMMA InvIsState ==
    /\ Inv <=> State /\ zfs_enable_copy \in BOOLEAN /\ reply \in Codes
               /\ fsReply \in {"ok", "failed"}
    /\ Inv' <=> State' /\ zfs_enable_copy' \in BOOLEAN /\ reply' \in Codes
                /\ fsReply' \in {"ok", "failed"}
  BY DEF Inv, State, TypeOK, DatasetsTyped, SnapNamesAll

LEMMA InitInv == Init => Inv
  BY MaxGuidAssumption
     DEF Init, Inv, TypeOK, SnapsOfDatasets, UuidsUnique, Absent,
         Kinds, Codes

\* What does not depend on the datasets' steps: the types grow with `made`.
LEMMA TypesGrow ==
    ASSUME DatasetsTyped, NEW m \in Nat, made <= m, m <= MaxGuid
    PROVE  /\ m \in 0 .. MaxGuid
           /\ ds \in [Names -> [kind : Kinds, guid : 0 .. m, origin : 0 .. m]]
           /\ snaps \subseteq [of : Names, name : SnapNamesAll, guid : 1 .. m]
<1> USE MaxGuidAssumption DEF DatasetsTyped
<1>1. made \in Nat /\ 0 .. made \subseteq 0 .. m /\ 1 .. made \subseteq 1 .. m
  OBVIOUS
<1>2. ds \in [Names -> [kind : Kinds, guid : 0 .. m, origin : 0 .. m]]
  BY <1>1
<1>3. snaps \subseteq [of : Names, name : SnapNamesAll, guid : 1 .. m]
  BY <1>1
<1> QED BY <1>2, <1>3

LEMMA SameState == ASSUME State, Same PROVE State'
<1>1. made \in Nat /\ made' \in Nat /\ made <= made' /\ made' <= MaxGuid
  BY MaxGuidAssumption DEF State, DatasetsTyped, Same
<1>2. DatasetsTyped'
  BY <1>1, TypesGrow DEF State, DatasetsTyped, Same
<1> QED BY <1>2 DEF State, Same, SnapsOfDatasets, UuidsUnique

\* A dataset under a free name, and possibly a snapshot of another one.
LEMMA NewDatasetState ==
    ASSUME State, NEW new \in Names, NEW kind \in Kinds \ {"none"}, NEW g, NEW origin,
           ds[new] = Absent, ds' = NewDataset(new, kind, g, origin),
           snaps \subseteq snaps', DatasetsTyped',
           g \in Nat, g > made,
           \A s \in snaps' : s.of # new /\ s.guid # g,
           SnapsOfDatasets', 
           \A s, t \in snaps' : s.guid = t.guid => s = t,
           \A n \in Names, s \in snaps' : ds[n].guid # s.guid
    PROVE  State'
<1>1. \A n \in Names : ds'[n] = IF n = new THEN [kind |-> kind, guid |-> g, origin |-> origin]
                                           ELSE ds[n]
  BY DEF NewDataset, State, DatasetsTyped
<1>2. \A n \in Names : ds[n].guid # g
  BY DEF State, DatasetsTyped
<1>3. UuidsUnique'
  BY <1>1, <1>2 DEF UuidsUnique, State
<1> QED BY <1>3 DEF State

LEMMA CreatedState ==
    ASSUME State, NEW n \in Names, NEW kind \in Kinds \ {"none"}, Created(n, kind)
    PROVE  State'
<1>1. made \in Nat /\ made + 1 \in 0 .. MaxGuid
  BY MaxGuidAssumption DEF State, DatasetsTyped, Created
<1>2. DatasetsTyped'
  <2>1. ds \in [Names -> [kind : Kinds, guid : 0 .. made', origin : 0 .. made']]
        /\ snaps \subseteq [of : Names, name : SnapNamesAll, guid : 1 .. made']
    BY <1>1, TypesGrow DEF State, Created
  <2> QED BY <1>1, <2>1 DEF State, DatasetsTyped, Created, NewDataset
<1>3. \A s \in snaps : s.of # n /\ s.guid # made + 1
  BY DEF State, SnapsOfDatasets, DatasetsTyped, Created
<1>4. SnapsOfDatasets'
  BY <1>3 DEF State, SnapsOfDatasets, DatasetsTyped, Created, NewDataset
<1> QED BY <1>1, <1>2, <1>3, <1>4, NewDatasetState
        DEF State, UuidsUnique, Created

LEMMA CloneMadeState ==
    ASSUME State, NEW s \in snaps, NEW new \in Names, NEW kind \in Kinds \ {"none"},
           CloneMade(s, new, kind)
    PROVE  State'
<1>1. made \in Nat /\ made + 1 \in 0 .. MaxGuid
  BY MaxGuidAssumption DEF State, DatasetsTyped, CloneMade
<1>2. DatasetsTyped'
  <2>1. ds \in [Names -> [kind : Kinds, guid : 0 .. made', origin : 0 .. made']]
        /\ snaps \subseteq [of : Names, name : SnapNamesAll, guid : 1 .. made']
    BY <1>1, TypesGrow DEF State, CloneMade
  <2>2. s.guid \in 0 .. made'
    BY <1>1 DEF State, DatasetsTyped, CloneMade
  <2> QED BY <1>1, <2>1, <2>2 DEF State, DatasetsTyped, CloneMade, NewDataset
<1>3. \A t \in snaps : t.of # new /\ t.guid # made + 1
  BY DEF State, SnapsOfDatasets, DatasetsTyped, CloneMade
<1>4. SnapsOfDatasets'
  BY <1>3 DEF State, SnapsOfDatasets, DatasetsTyped, CloneMade, NewDataset
<1> QED BY <1>1, <1>2, <1>3, <1>4, NewDatasetState DEF State, UuidsUnique, CloneMade

\* The snapshot of a step that takes one, and those that were there.
LEMMA SnapTaken ==
    ASSUME State, NEW n \in Names, NEW name \in SnapNamesAll, ds[n] # Absent,
           made < MaxGuid, snaps' = snaps \cup {NewSnap(n, name)}
    PROVE  /\ made \in Nat
           /\ snaps' \subseteq [of : Names, name : SnapNamesAll, guid : 1 .. made + 1]
           /\ \A s \in snaps' : ds[s.of] # Absent
           /\ \A s, t \in snaps' : s.guid = t.guid => s = t
           /\ \A m \in Names, s \in snaps' : ds[m].guid # s.guid
<1> USE MaxGuidAssumption DEF State, DatasetsTyped
<1>1. made \in Nat /\ made + 1 \in Nat /\ made <= made + 1 /\ made + 1 <= MaxGuid
  OBVIOUS
<1>2. snaps' \subseteq [of : Names, name : SnapNamesAll, guid : 1 .. made + 1]
  <2>1. snaps \subseteq [of : Names, name : SnapNamesAll, guid : 1 .. made + 1]
    BY <1>1, TypesGrow
  <2> QED BY <1>1, <2>1 DEF NewSnap
<1>3. \A s \in snaps' : ds[s.of] # Absent
  BY DEF SnapsOfDatasets, NewSnap
<1>4. \A s \in snaps : s.guid # made + 1
  BY <1>1
<1>5. \A s, t \in snaps' : s.guid = t.guid => s = t
  BY <1>4 DEF UuidsUnique, NewSnap
<1>6. \A m \in Names, s \in snaps' : ds[m].guid # s.guid
  <2>1. \A m \in Names : ds[m].guid # made + 1
    BY <1>1
  <2> QED BY <2>1 DEF UuidsUnique, NewSnap
<1> QED BY <1>1, <1>2, <1>3, <1>5, <1>6

LEMMA SnappedState ==
    ASSUME State, NEW n \in Names, NEW kind \in Kinds \ {"none"}, NEW name \in SnapNamesAll,
           Snapped(n, kind, name)
    PROVE  State'
<1>1. ds[n] # Absent
  BY DEF Snapped, Absent
<1>2. /\ made \in Nat
      /\ snaps' \subseteq [of : Names, name : SnapNamesAll, guid : 1 .. made + 1]
      /\ \A s \in snaps' : ds[s.of] # Absent
      /\ \A s, t \in snaps' : s.guid = t.guid => s = t
      /\ \A m \in Names, s \in snaps' : ds[m].guid # s.guid
  BY <1>1, SnapTaken DEF Snapped
<1>3. DatasetsTyped'
  <2>1. made + 1 \in 0 .. MaxGuid
        /\ ds \in [Names -> [kind : Kinds, guid : 0 .. made + 1, origin : 0 .. made + 1]]
    BY <1>2, TypesGrow, MaxGuidAssumption DEF State, Snapped
  <2> QED BY <1>2, <2>1 DEF State, DatasetsTyped, Snapped
<1> QED BY <1>2, <1>3 DEF State, SnapsOfDatasets, UuidsUnique, Snapped

LEMMA CopyMadeState ==
    ASSUME State, NEW n \in Names, NEW new \in Names, NEW kind \in Kinds \ {"none"},
           NEW name \in SnapNamesAll, CopyMade(n, new, kind, name)
    PROVE  State'
<1>1. ds[n] # Absent /\ n # new
  BY DEF CopyMade, Absent
<1>2. /\ made \in Nat /\ made + 1 < MaxGuid
      /\ made < MaxGuid /\ made + 2 \in Nat /\ made <= made + 2 /\ made + 2 <= MaxGuid
  BY MaxGuidAssumption DEF State, DatasetsTyped, CopyMade
<1>3. /\ snaps' \subseteq [of : Names, name : SnapNamesAll, guid : 1 .. made + 1]
      /\ \A s \in snaps' : ds[s.of] # Absent
      /\ \A s, t \in snaps' : s.guid = t.guid => s = t
      /\ \A m \in Names, s \in snaps' : ds[m].guid # s.guid
  BY <1>1, <1>2, SnapTaken DEF CopyMade
<1>4. DatasetsTyped'
  <2>1. ds \in [Names -> [kind : Kinds, guid : 0 .. made + 2, origin : 0 .. made + 2]]
    BY <1>2, TypesGrow DEF State
  <2>2. ds' \in [Names -> [kind : Kinds, guid : 0 .. made + 2, origin : 0 .. made + 2]]
    BY <1>2, <2>1 DEF CopyMade, NewDataset
  <2>3. \A m \in Names : ds'[m].guid = 0 => ds'[m] = Absent
    BY <1>2, <2>1 DEF CopyMade, NewDataset, State, DatasetsTyped
  <2>4. snaps' \subseteq [of : Names, name : SnapNamesAll, guid : 1 .. made + 2]
    BY <1>2, <1>3
  <2> QED BY <1>2, <2>2, <2>3, <2>4 DEF DatasetsTyped, CopyMade
<1>5. \A s \in snaps' : s.of \in Names /\ s.of # new /\ s.guid # made + 2
  BY <1>2, <1>3 DEF CopyMade
<1>6. SnapsOfDatasets'
  BY <1>3, <1>5 DEF SnapsOfDatasets, CopyMade, NewDataset, State, DatasetsTyped
<1> QED BY <1>2, <1>3, <1>4, <1>5, <1>6, NewDatasetState DEF CopyMade

LEMMA FewerState ==
    ASSUME State, ds' = ds, made' = made, snaps' \subseteq snaps PROVE State'
  BY DEF State, DatasetsTyped, SnapsOfDatasets, UuidsUnique

LEMMA DestroyedState ==
    ASSUME State, NEW n \in Names, NEW kind, Destroyed(n, kind) PROVE State'
<1>1. \A m \in Names : ds'[m] = IF m = n THEN Absent ELSE ds[m]
  BY DEF Destroyed, State, DatasetsTyped
<1>2. \A s \in snaps' : s \in snaps /\ s.of \in Names /\ s.of # n
  BY DEF Destroyed, SnapsOf, State, DatasetsTyped
<1>3. DatasetsTyped'
  <2>1. Absent \in [kind : Kinds, guid : 0 .. made, origin : 0 .. made]
    BY MaxGuidAssumption DEF Absent, Kinds, State, DatasetsTyped
  <2>2. ds' \in [Names -> [kind : Kinds, guid : 0 .. made, origin : 0 .. made]]
    BY <2>1 DEF State, DatasetsTyped, Destroyed
  <2> QED BY <1>1, <2>2 DEF State, DatasetsTyped, Destroyed
<1>4. SnapsOfDatasets'
  BY <1>1, <1>2 DEF State, SnapsOfDatasets
<1>5. UuidsUnique'
  <2>1. \A s \in snaps : s.guid # 0
    BY DEF State, DatasetsTyped
  <2>2. \A m \in Names : ds[m] # Absent => ds[m].guid # 0
    BY DEF State, DatasetsTyped
  <2> QED BY <1>1, <1>2, <2>1, <2>2 DEF State, UuidsUnique, Absent
<1> QED BY <1>3, <1>4, <1>5 DEF State

LEMMA EffectState ==
    ASSUME State, NEW kind \in {"volume", "filesystem"}, Effect(kind) PROVE State'
<1>1. kind \in Kinds \ {"none"}
  BY DEF Kinds
<1>2. CASE \/ \E n \in Names : Skipped(n, kind) \/ Thinned(n, kind)
           \/ \E s \in snaps : Unsnapped(s, kind)
  BY <1>2, FewerState DEF Skipped, Thinned, Unsnapped
<1> QED BY <1>1, <1>2, SameState, CreatedState, DestroyedState, SnappedState,
           CloneMadeState, CopyMadeState DEF Effect

LEMMA NextInv == Inv /\ [Next]_vars => Inv'
<1> SUFFICES ASSUME Inv, [Next]_vars PROVE Inv'
  OBVIOUS
<1>1. CASE VolCall /\ UNCHANGED <<zfs_enable_copy, fsReply>>
  BY <1>1, VolCallEffect, EffectState, InvIsState DEF Inv
<1>2. CASE FsCall /\ FsAnswer /\ UNCHANGED zfs_enable_copy
  <2>1. fsReply' \in {"ok", "failed"}
    BY <1>2 DEF FsAnswer
  <2> QED BY <1>2, <2>1, FsCallEffect, EffectState, InvIsState DEF Inv
<1>3. CASE Restart /\ UNCHANGED fsReply
  <2>1. Same
    BY <1>3, MaxGuidAssumption DEF Restart, Same, Inv, TypeOK
  <2> QED BY <1>3, <2>1, SameState, InvIsState DEF Restart
<1>4. CASE UNCHANGED vars
  BY <1>4 DEF vars, Inv, TypeOK, SnapsOfDatasets, UuidsUnique
<1> QED BY <1>1, <1>2, <1>3, <1>4 DEF Next

THEOREM InvHolds == Spec => []Inv
  BY InitInv, NextInv, PTL DEF Spec

\* Every reachable state has its type.
THEOREM DatasetsHaveTypes == Spec => []TypeOK
<1>1. Inv => TypeOK
  BY DEF Inv
<1> QED BY <1>1, InvHolds, PTL

-----------------------------------------------------------------------------
(* What a step may not do.                                                 *)

\* An effect on one kind leaves alone what is of the other.
LEMMA EffectTouches ==
    ASSUME TypeOK, NEW kind, NEW other \in {"volume", "filesystem"}, other # kind,
           Effect(kind)
    PROVE  ~Touched(other)
<1> USE DEF TypeOK, Touched
<1>1. \A n \in Names : ds[n] = Absent => ds[n].kind # other
  BY DEF Absent
<1>2. \A n \in Names : ds[n].kind = other => ds'[n] = ds[n]
  BY <1>1 DEF Effect, Same, Skipped, Created, Destroyed, Thinned, Snapped, Unsnapped,
              CloneMade, CopyMade, NewDataset
<1>3. \A s \in snaps \ snaps' : ds[s.of].kind = kind
  BY DEF Effect, Same, Skipped, Created, Destroyed, Thinned, Snapped, Unsnapped,
         CloneMade, CopyMade, SnapsOf
<1> QED BY <1>2, <1>3

\* Volume calls leave file systems and their snapshots alone and file system calls
\* volumes, in whatever order they use a name.
THEOREM CallsKeepToTheirKind == Spec => KindsKept
<1>1. ASSUME Inv PROVE VolCall => ~Touched("filesystem")
  BY <1>1, VolCallEffect, EffectTouches DEF Inv
<1>2. ASSUME Inv PROVE FsCall => ~Touched("volume")
  BY <1>2, FsCallEffect, EffectTouches DEF Inv
<1> QED BY <1>1, <1>2, InvHolds, PTL DEF Spec, KindsKept

\* Every step of the specification, by its effects.
LEMMA NextEffect ==
    ASSUME TypeOK, Next
    PROVE  UNCHANGED <<ds, snaps>> \/ \E kind \in {"volume", "filesystem"} : Effect(kind)
<1>1. CASE Restart
  BY <1>1 DEF Restart
<1> QED BY <1>1, VolCallEffect, FsCallEffect DEF Next

\* No dataset is lost or replaced by a call that fails, in its tidying up neither.
THEOREM FailuresKeepDatasets == Spec => ErrorKeepsDatasets
<1>1. ASSUME TypeOK, NEW kind, Effect(kind), reply' # "ok", NEW n \in Names, ds[n] # Absent
      PROVE  ds'[n] = ds[n]
  BY <1>1 DEF TypeOK, Effect, Same, Skipped, Created, Destroyed, Thinned, Snapped,
              Unsnapped, CloneMade, CopyMade, NewDataset
<1>2. ASSUME Inv, [Next]_vars
      PROVE  [reply' # "ok" => \A n \in Names : ds[n] # Absent => ds'[n] = ds[n]]_vars
  BY <1>1, <1>2, NextEffect DEF Inv
<1> QED BY <1>2, InvHolds, PTL DEF Spec, ErrorKeepsDatasets

\* Two snapshots go in one step only with their dataset, or when zfs fails to
\* destroy that dataset half way.
THEOREM OneSnapshotAtATime == Spec => SnapshotsGoAlone
<1>1. ASSUME TypeOK, NEW kind, Effect(kind), NEW s \in snaps \ snaps',
             NEW t \in snaps \ snaps', s # t
      PROVE  s.of = t.of /\ (ds'[s.of] = Absent \/ reply' # "ok")
  <2>1. ASSUME NEW n \in Names, Destroyed(n, kind)
        PROVE  s.of = n /\ t.of = n /\ ds'[n] = Absent
    BY <1>1, <2>1 DEF Destroyed, SnapsOf, TypeOK
  <2>2. ASSUME NEW n \in Names, Thinned(n, kind)
        PROVE  s.of = n /\ t.of = n /\ reply' # "ok"
    BY <2>2 DEF Thinned, SnapsOf
  <2>3. (\E n \in Names : Destroyed(n, kind)) \/ (\E n \in Names : Thinned(n, kind))
    BY <1>1 DEF Effect, Same, Skipped, Created, Snapped, Unsnapped, CloneMade, CopyMade
  <2> QED BY <2>1, <2>2, <2>3
<1>2. ASSUME Inv, [Next]_vars
      PROVE  [\A s, t \in snaps \ snaps' : s # t =>
                 s.of = t.of /\ (ds'[s.of] = Absent \/ reply' # "ok")]_vars
  BY <1>1, <1>2, NextEffect DEF Inv
<1> QED BY <1>2, InvHolds, PTL DEF Spec, SnapshotsGoAlone

\* A copy that is given no snapshot destroys none but the one it has taken.
LEMMA CopyOfNoneKeeps ==
    ASSUME TypeOK, NEW n \in Names, NEW new, NEW kind, Copy(n, new, kind, {})
    PROVE  snaps \subseteq snaps'
<1>1. CASE Fail("NO_SUPPORT") \/ Fail("NAME_CONFLICT") \/ CommandFails
  BY <1>1 DEF Fail, CommandFails
<1>2. ASSUME NEW t, SnapAndClone(n, new, t) PROVE snaps \subseteq snaps'
  <2> DEFINE s == NewSnap(n, <<new, t>>)
  <2>1. s \notin snaps
    BY NewSnapNew
  <2>2. snaps' = snaps \cup {s} \/ snaps' = (snaps \cup {s}) \ {s}
    BY <1>2 DEF SnapAndClone, Clone, CloneFails
  <2> QED BY <2>1, <2>2
<1> QED BY <1>1, <1>2 DEF Copy

\* However often copies fail, or are repeated within the second, one that is given
\* no snapshot takes away none that was there before it.
THEOREM CopiesTidyTheirOwn == Spec => CopiesTakeNoSnapshots
<1>1. ASSUME TypeOK, NEW n \in VolNames, NEW new, VolCopy(n, new) PROVE snaps \subseteq snaps'
  BY <1>1, CopyOfNoneKeeps DEF VolCopy, Fail, Names
<1>2. ASSUME TypeOK, NEW u, NEW new, FsClone(u, new, NoSnap) PROVE snaps \subseteq snaps'
  <2>1. ASSUME NEW n \in FsByUuid(u), CloneFs(n, new, {}) PROVE snaps \subseteq snaps'
    BY <1>2, <2>1, CopyOfNoneKeeps DEF CloneFs, Fail, FsByUuid
  <2>2. \A n : SnapByUuid(n, NoSnap) = {}
    BY <1>2, NoSnapAssumption, MaxGuidAssumption DEF SnapByUuid, SnapsOf, TypeOK
  <2> QED BY <1>2, <2>1, <2>2 DEF FsClone, NoFs, Fail
<1>3. ASSUME Inv, [Next]_vars
      PROVE  [~(snaps \subseteq snaps') => ~CopyStep({NoSnap})]_vars
  BY <1>1, <1>2, <1>3 DEF CopyStep, Inv
<1> QED BY <1>3, InvHolds, PTL DEF Spec, CopiesTakeNoSnapshots

-----------------------------------------------------------------------------
(* The refinement.                                                         *)

\* What FileStore sees: file systems, and their snapshots.
AbsFs == [n \in Names |-> IF IsFs(n) THEN ds[n].guid ELSE 0]

FsSnaps == {t \in snaps : IsFs(t.of)}

AbsSnap(s) == [fs |-> ds[s.of].guid, name |-> s.name, guid |-> s.guid]

AbsSnaps == {AbsSnap(s) : s \in FsSnaps}

LEMMA AbsVars ==
    AbsSnaps = {[fs |-> ds[s.of].guid, name |-> s.name, guid |-> s.guid] :
                   s \in {t \in snaps : IsFs(t.of)}}
  BY DEF AbsSnaps, FsSnaps, AbsSnap

LEMMA AbsAnswers == ASSUME FsAnswer PROVE Store!Answers
  BY DEF FsAnswer, Store!Answers

\* A uuid above all that were given out, and one that only a file system has.
LEMMA AboveFresh ==
    ASSUME Inv, NEW u \in Nat, u > made, u <= MaxGuid PROVE u \in Uuids /\ Store!Fresh(u)
<1>1. made \in Nat /\ u \in Uuids
  BY MaxGuidAssumption DEF Inv, TypeOK, Uuids
<1>2. \A n \in Names : AbsFs[n] # u
  BY <1>1 DEF AbsFs, Inv, TypeOK
<1>3. \A s \in AbsSnaps : s.guid # u
  BY <1>1 DEF AbsSnaps, FsSnaps, AbsSnap, Inv, TypeOK
<1> QED BY <1>1, <1>2, <1>3, AbsVars DEF Store!Fresh, AbsFs

\* The snapshots of a file system, by name and by uuid.
LEMMA FsSnapsOf ==
    ASSUME Inv, NEW n \in Names, IsFs(n)
    PROVE  /\ AbsFs[n] = ds[n].guid /\ AbsFs[n] # 0
           /\ SnapsOf(n) \subseteq FsSnaps
           /\ Store!SnapsOf(n) = {AbsSnap(s) : s \in SnapsOf(n)}
<1>1. AbsFs[n] = ds[n].guid /\ ds[n].guid # 0 /\ ds[n] # Absent
  BY DEF AbsFs, IsFs, Inv, TypeOK, Absent
<1>2. \A s \in snaps : s.of \in Names
  BY DEF Inv, TypeOK
<1>3. \A s \in snaps : ds[s.of].guid = ds[n].guid <=> s.of = n
  BY <1>1, <1>2 DEF Inv, UuidsUnique
<1>4. SnapsOf(n) \subseteq FsSnaps
  BY DEF SnapsOf, FsSnaps
<1>5. Store!SnapsOf(n) = {s \in AbsSnaps : s.fs = ds[n].guid}
  BY <1>1, AbsVars DEF Store!SnapsOf, AbsFs
<1>6. \A s : AbsSnap(s).fs = ds[s.of].guid
  BY DEF AbsSnap
<1>7. {s \in AbsSnaps : s.fs = ds[n].guid} = {AbsSnap(s) : s \in SnapsOf(n)}
  BY <1>3, <1>4, <1>6 DEF AbsSnaps, SnapsOf, FsSnaps
<1> QED BY <1>1, <1>4, <1>5, <1>7

\* A file system call that changes no file system and no snapshot of one has failed.
LEMMA RefuseStep ==
    ASSUME AbsFs' = AbsFs, AbsSnaps' = AbsSnaps, fsReply' = "failed" PROVE Store!Next
<1>1. Store!Refuse
  BY DEF Store!Refuse, AbsFs, AbsSnaps, FsSnaps, AbsSnap
<1> QED BY <1>1 DEF Store!Next

\* FileStore does not see a step for volumes.
LEMMA VolumeStep ==
    ASSUME Inv, Effect("volume"), fsReply' = fsReply PROVE UNCHANGED Store!vars
<1> USE DEF Inv, TypeOK
<1>1. ~Touched("filesystem")
  BY EffectTouches
<1>2. \A n \in Names : IsFs(n)' <=> IsFs(n)
  BY <1>1 DEF Touched, IsFs, Effect, Same, Skipped, Created, Destroyed, Thinned,
              Snapped, Unsnapped, CloneMade, CopyMade, NewDataset, Absent
<1>3. \A n \in Names : IsFs(n) => ds'[n] = ds[n]
  BY <1>1 DEF Touched, IsFs
<1>4. AbsFs' = AbsFs
  BY <1>2, <1>3 DEF AbsFs, IsFs
<1>5. \A s \in snaps \ snaps' : ~IsFs(s.of)
  BY <1>1 DEF Touched, IsFs
<1>6. \A s \in snaps' \ snaps : s.of \in Names /\ ~IsFs(s.of)
  BY DEF IsFs, Effect, Same, Skipped, Created, Destroyed, Thinned, Snapped, Unsnapped,
         CloneMade, CopyMade, NewSnap
<1>7. FsSnaps' = FsSnaps
  BY <1>2, <1>5, <1>6 DEF FsSnaps
<1>8. \A s \in FsSnaps : s.of \in Names /\ AbsSnap(s)' = AbsSnap(s)
  BY <1>3 DEF FsSnaps, AbsSnap
<1>9. AbsSnaps' = AbsSnaps
  BY <1>7, <1>8 DEF AbsSnaps
<1> QED BY <1>4, <1>9 DEF Store!vars, AbsFs, AbsSnaps, FsSnaps, AbsSnap

\* A new file system, as FileStore sees it, and the snapshots there were.
LEMMA NewFs ==
    ASSUME Inv, NEW new \in Names, ds[new] = Absent, NEW g, NEW origin,
           ds' = NewDataset(new, "filesystem", g, origin)
    PROVE  /\ AbsFs[new] = 0
           /\ AbsFs' = [AbsFs EXCEPT ![new] = g]
           /\ \A s \in snaps : s.of \in Names /\ s.of # new /\ ds'[s.of] = ds[s.of]
<1> USE DEF Inv, TypeOK
<1>1. \A n \in Names : ds'[n] = IF n = new
        THEN [kind |-> "filesystem", guid |-> g, origin |-> origin] ELSE ds[n]
  BY DEF NewDataset
<1>2. AbsFs[new] = 0
  BY DEF AbsFs, IsFs, Absent
<1>3. AbsFs' = [AbsFs EXCEPT ![new] = g]
  <2>1. \A n \in Names : AbsFs'[n] = IF n = new THEN g ELSE AbsFs[n]
    BY <1>1 DEF AbsFs, IsFs
  <2>2. AbsFs = [n \in Names |-> AbsFs[n]] /\ AbsFs' = [n \in Names |-> AbsFs'[n]]
    BY DEF AbsFs
  <2> QED BY <2>1, <2>2
<1>4. \A s \in snaps : s.of \in Names /\ s.of # new
  BY DEF SnapsOfDatasets
<1> QED BY <1>1, <1>2, <1>3, <1>4

\* A new file system beside the snapshots there were.
LEMMA MakeStep ==
    ASSUME Inv, NEW new \in Names, ds[new] = Absent, made < MaxGuid, NEW origin,
           ds' = NewDataset(new, "filesystem", made + 1, origin), snaps' = snaps,
           FsAnswer
    PROVE  Store!Next
<1>1. /\ AbsFs[new] = 0 /\ AbsFs' = [AbsFs EXCEPT ![new] = made + 1]
      /\ \A s \in snaps : ds'[s.of] = ds[s.of]
  BY NewFs
<1>2. AbsSnaps' = AbsSnaps
  <2>1. FsSnaps' = FsSnaps
    BY <1>1 DEF FsSnaps, IsFs
  <2>2. \A s \in FsSnaps : AbsSnap(s)' = AbsSnap(s)
    BY <1>1 DEF FsSnaps, AbsSnap
  <2> QED BY <2>1, <2>2 DEF AbsSnaps
<1>3. made + 1 \in Uuids /\ Store!Fresh(made + 1)
  BY AboveFresh, MaxGuidAssumption DEF Inv, TypeOK
<1>4. Store!Make(new)
  BY <1>1, <1>2, <1>3, AbsAnswers DEF Store!Make, AbsFs, AbsSnaps, FsSnaps, AbsSnap
<1> QED BY <1>4 DEF Store!Next

\* A snapshot taken of a file system, as FileStore sees it.
LEMMA NewFsSnap ==
    ASSUME Inv, NEW n \in Names, IsFs(n), NEW name, made < MaxGuid,
           \A s \in SnapsOf(n) : s.name # name,
           snaps' = snaps \cup {NewSnap(n, name)},
           \A s \in snaps' : ds'[s.of] = ds[s.of]
    PROVE  LET s == AbsSnap(NewSnap(n, name))
           IN  /\ s.guid = made + 1
               /\ Store!NewSnap(n, s)
               /\ AbsSnaps' = AbsSnaps \cup {s}
               /\ s \notin AbsSnaps
<1> DEFINE c == NewSnap(n, name)
           s == AbsSnap(c)
<1>1. c.of = n /\ c.name = name /\ c.guid = made + 1
  BY DEF NewSnap
<1>2. s = [fs |-> ds[n].guid, name |-> name, guid |-> made + 1]
  BY <1>1 DEF AbsSnap
<1>3. Store!Fresh(made + 1)
  BY AboveFresh, MaxGuidAssumption DEF Inv, TypeOK
<1>4. AbsSnaps' = AbsSnaps \cup {s}
  <2>1. FsSnaps' = FsSnaps \cup {c}
    BY <1>1 DEF FsSnaps, IsFs
  <2>2. \A t \in snaps' : AbsSnap(t)' = AbsSnap(t)
    BY DEF AbsSnap
  <2>3. FsSnaps' \subseteq snaps'
    BY DEF FsSnaps
  <2> QED BY <2>1, <2>2, <2>3 DEF AbsSnaps
<1>5. s \notin AbsSnaps
  <2>1. \A t \in AbsSnaps : t.guid # made + 1
    BY <1>3, AbsVars DEF Store!Fresh
  <2> QED BY <2>1, <1>2
<1>6. \A t \in Store!SnapsOf(n) : t.name # name
  <2>1. Store!SnapsOf(n) = {AbsSnap(t) : t \in SnapsOf(n)}
    BY FsSnapsOf
  <2>2. \A t : AbsSnap(t).name = t.name
    BY DEF AbsSnap
  <2> QED BY <2>1, <2>2
<1>7. Store!NewSnap(n, s)
  <2>1. AbsFs[n] = ds[n].guid
    BY FsSnapsOf
  <2> QED BY <2>1, <1>2, <1>3, <1>6 DEF Store!NewSnap, AbsFs
<1> QED BY <1>2, <1>4, <1>5, <1>7

LEMMA SnapshotStep ==
    ASSUME Inv, NEW n \in Names, NEW name, Snapped(n, "filesystem", name), FsAnswer
    PROVE  Store!Next
<1> DEFINE s == AbsSnap(NewSnap(n, name))
<1>1. IsFs(n) /\ made < MaxGuid /\ ds' = ds /\ snaps' = snaps \cup {NewSnap(n, name)}
      /\ \A t \in SnapsOf(n) : t.name # name
  BY DEF Snapped, IsFs
<1>2. Store!NewSnap(n, s) /\ AbsSnaps' = AbsSnaps \cup {s} /\ s \notin AbsSnaps
  BY <1>1, NewFsSnap
<1>3. AbsFs' = AbsFs /\ AbsFs[n] # 0
  BY <1>1, FsSnapsOf DEF AbsFs, IsFs
<1> HIDE DEF s
<1>4. Store!Snapshot(n)
  BY <1>2, <1>3, AbsAnswers DEF Store!Snapshot, AbsFs, AbsSnaps, FsSnaps, AbsSnap
<1> QED BY <1>4 DEF Store!Next

\* A copy that keeps the snapshot it was made from.
LEMMA CopyStepIsMake ==
    ASSUME Inv, NEW n \in Names, NEW new \in Names, NEW name,
           CopyMade(n, new, "filesystem", name), FsAnswer
    PROVE  Store!Next
<1> DEFINE s == AbsSnap(NewSnap(n, name))
<1>1. /\ IsFs(n) /\ n # new /\ made + 1 < MaxGuid /\ made < MaxGuid
      /\ snaps' = snaps \cup {NewSnap(n, name)}
      /\ \A t \in SnapsOf(n) : t.name # name
      /\ made \in Nat
  BY MaxGuidAssumption DEF CopyMade, IsFs, Absent, Inv, TypeOK
<1>2. /\ AbsFs[new] = 0 /\ AbsFs' = [AbsFs EXCEPT ![new] = made + 2]
      /\ \A t \in snaps : ds'[t.of] = ds[t.of]
  BY NewFs DEF CopyMade
<1>3. \A t \in snaps' : ds'[t.of] = ds[t.of]
  <2>1. ds'[n] = ds[n]
    BY <1>1 DEF CopyMade, NewDataset, Inv, TypeOK
  <2> QED BY <1>1, <1>2, <2>1 DEF NewSnap
<1>4. /\ s.guid = made + 1 /\ Store!NewSnap(n, s)
      /\ AbsSnaps' = AbsSnaps \cup {s} /\ s \notin AbsSnaps
  BY <1>1, <1>3, NewFsSnap
<1>5. made + 2 \in Uuids /\ Store!Fresh(made + 2)
  BY <1>1, AboveFresh, MaxGuidAssumption
<1>6. AbsFs[n] # 0 /\ AbsFs'[new] = made + 2
  BY <1>1, <1>2, FsSnapsOf DEF AbsFs
<1> HIDE DEF s
<1>7. s \in AbsSnaps' \ AbsSnaps /\ s.guid # AbsFs'[new]
  BY <1>1, <1>4, <1>6
<1>8. Store!Make(new)
  BY <1>2, <1>4, <1>5, <1>6, <1>7, AbsAnswers
     DEF Store!Make, AbsFs, AbsSnaps, FsSnaps, AbsSnap
<1> QED BY <1>8 DEF Store!Next

\* What goes of the snapshots goes of what FileStore sees of them.
LEMMA AbsMinus ==
    ASSUME Inv, NEW gone \in SUBSET FsSnaps
    PROVE  {AbsSnap(s) : s \in FsSnaps \ gone} = AbsSnaps \ {AbsSnap(s) : s \in gone}
<1>1. \A s, t \in snaps : AbsSnap(s) = AbsSnap(t) => s = t
  BY DEF AbsSnap, Inv, UuidsUnique
<1> QED BY <1>1 DEF AbsSnaps, FsSnaps

\* A snapshot goes: the one to be deleted, or the source of a clone that fails.
LEMMA DeleteStep ==
    ASSUME Inv, NEW s \in snaps, Unsnapped(s, "filesystem"), FsAnswer PROVE Store!Next
<1>1. /\ s.of \in Names /\ IsFs(s.of) /\ s \in SnapsOf(s.of) /\ s \in FsSnaps
      /\ ds' = ds /\ snaps' = snaps \ {s}
  BY DEF Unsnapped, IsFs, SnapsOf, FsSnaps, Inv, TypeOK
<1>2. AbsSnaps' = AbsSnaps \ {AbsSnap(s)}
  <2>1. FsSnaps' = FsSnaps \ {s}
    BY <1>1 DEF FsSnaps, IsFs
  <2>2. \A t : AbsSnap(t)' = AbsSnap(t)
    BY <1>1 DEF AbsSnap
  <2>3. AbsSnaps' = {AbsSnap(t) : t \in FsSnaps \ {s}}
    BY <2>1, <2>2 DEF AbsSnaps
  <2>4. {AbsSnap(t) : t \in {s}} = {AbsSnap(s)}
    OBVIOUS
  <2> QED BY <1>1, <2>3, <2>4, AbsMinus
<1>3. AbsSnap(s) \in Store!SnapsOf(s.of) /\ AbsFs' = AbsFs
  BY <1>1, FsSnapsOf DEF AbsFs, IsFs
<1>4. CASE reply' = "ok"
  <2>1. Store!DeleteSnap(s.of)
    BY <1>2, <1>3, <1>4
       DEF Store!DeleteSnap, FsAnswer, AbsFs, AbsSnaps, FsSnaps, AbsSnap
  <2> QED BY <1>1, <2>1 DEF Store!Next
<1>5. CASE reply' # "ok"
  <2>1. AbsSnaps' \subseteq AbsSnaps /\ AbsSnaps \ AbsSnaps' \subseteq Store!SnapsOf(s.of)
    BY <1>2, <1>3
  <2>2. Store!DestroyInPart(s.of)
    BY <1>3, <1>5, <2>1
       DEF Store!DestroyInPart, FsAnswer, AbsFs, AbsSnaps, FsSnaps, AbsSnap
  <2> QED BY <1>1, <2>2 DEF Store!Next
<1> QED BY <1>4, <1>5

\* A file system fails to be destroyed: some of its snapshots are gone.
LEMMA ThinStep ==
    ASSUME Inv, NEW n \in Names, Thinned(n, "filesystem"), FsAnswer PROVE Store!Next
<1>1. IsFs(n) /\ ds' = ds /\ snaps' \subseteq snaps /\ snaps \ snaps' \subseteq SnapsOf(n)
      /\ fsReply' = "failed"
  BY DEF Thinned, IsFs, FsAnswer
<1>2. AbsFs' = AbsFs
  BY <1>1 DEF AbsFs, IsFs
<1>3. AbsSnaps' = {AbsSnap(t) : t \in {u \in snaps' : IsFs(u.of)}}
  BY <1>1 DEF AbsSnaps, FsSnaps, AbsSnap, IsFs
<1>4. AbsSnaps' \subseteq AbsSnaps
  BY <1>1, <1>3 DEF AbsSnaps, FsSnaps
<1>5. AbsSnaps \ AbsSnaps' \subseteq {AbsSnap(t) : t \in SnapsOf(n)}
  BY <1>1, <1>3 DEF AbsSnaps, FsSnaps
<1>6. Store!SnapsOf(n) = {AbsSnap(t) : t \in SnapsOf(n)}
  BY <1>1, FsSnapsOf
<1>7. Store!DestroyInPart(n)
  BY <1>1, <1>2, <1>4, <1>5, <1>6
     DEF Store!DestroyInPart, AbsFs, AbsSnaps, FsSnaps, AbsSnap
<1> QED BY <1>7 DEF Store!Next

\* The snapshot to be deleted could not be read, and stays.
LEMMA SkipStep ==
    ASSUME Inv, NEW n \in Names, Skipped(n, "filesystem"), FsAnswer PROVE Store!Next
<1>1. IsFs(n) /\ ds' = ds /\ snaps' = snaps /\ fsReply' = "ok" /\ SnapsOf(n) # {}
  BY DEF Skipped, IsFs, FsAnswer
<1>2. AbsFs' = AbsFs /\ AbsSnaps' = AbsSnaps
  BY <1>1 DEF AbsFs, AbsSnaps, FsSnaps, AbsSnap, IsFs
<1>3. Store!SnapsOf(n) # {}
  BY <1>1, FsSnapsOf
<1>4. Store!DeleteSnap(n)
  BY <1>1, <1>2, <1>3 DEF Store!DeleteSnap, AbsFs, AbsSnaps, FsSnaps, AbsSnap
<1> QED BY <1>4 DEF Store!Next

LEMMA DestroyStep ==
    ASSUME Inv, NEW n \in Names, Destroyed(n, "filesystem"), FsAnswer PROVE Store!Next
<1> USE DEF Inv, TypeOK
<1>1. IsFs(n) /\ snaps' = snaps \ SnapsOf(n) /\ fsReply' = "ok"
      /\ \A m \in Names : ds'[m] = IF m = n THEN Absent ELSE ds[m]
  BY DEF Destroyed, IsFs, FsAnswer
<1>2. AbsFs' = [AbsFs EXCEPT ![n] = 0]
  <2>1. \A m \in Names : AbsFs'[m] = IF m = n THEN 0 ELSE AbsFs[m]
    BY <1>1 DEF AbsFs, IsFs, Absent
  <2>2. AbsFs = [m \in Names |-> AbsFs[m]] /\ AbsFs' = [m \in Names |-> AbsFs'[m]]
    BY DEF AbsFs
  <2> QED BY <2>1, <2>2
<1>3. \A s \in snaps' : s \in snaps /\ s.of \in Names /\ ds'[s.of] = ds[s.of]
  BY <1>1 DEF SnapsOf
<1>4. AbsSnaps' = AbsSnaps \ Store!SnapsOf(n)
  <2>1. FsSnaps' = FsSnaps \ SnapsOf(n)
    BY <1>1, <1>3 DEF FsSnaps, IsFs
  <2>2. \A s \in snaps' : AbsSnap(s)' = AbsSnap(s)
    BY <1>3 DEF AbsSnap
  <2>3. AbsSnaps' = {AbsSnap(s) : s \in FsSnaps \ SnapsOf(n)}
    BY <2>1, <2>2 DEF AbsSnaps, FsSnaps
  <2>4. SnapsOf(n) \subseteq FsSnaps /\ Store!SnapsOf(n) = {AbsSnap(s) : s \in SnapsOf(n)}
    BY <1>1, FsSnapsOf
  <2> QED BY <2>3, <2>4, AbsMinus
<1>5. AbsFs[n] # 0
  BY <1>1, FsSnapsOf
<1>6. Store!Destroy(n)
  BY <1>1, <1>2, <1>4, <1>5 DEF Store!Destroy, AbsFs, AbsSnaps, FsSnaps, AbsSnap
<1> QED BY <1>6 DEF Store!Next

LEMMA FsStep == ASSUME Inv, Effect("filesystem"), FsAnswer PROVE Store!Next
<1>1. CASE Same /\ reply' # "ok"
  BY <1>1, RefuseStep DEF Same, FsAnswer, AbsFs, AbsSnaps, FsSnaps, AbsSnap, IsFs
<1>2. ASSUME NEW n \in Names, Created(n, "filesystem") PROVE Store!Next
  BY <1>2, MakeStep DEF Created
<1>3. ASSUME NEW s \in snaps, NEW new \in Names, CloneMade(s, new, "filesystem")
      PROVE  Store!Next
  BY <1>3, MakeStep DEF CloneMade
<1> QED BY <1>1, <1>2, <1>3, SkipStep, ThinStep, SnapshotStep, DeleteStep, DestroyStep,
           CopyStepIsMake DEF Effect

LEMMA StoreStep == Inv /\ [Next]_vars => [Store!Next]_(Store!vars)
<1> SUFFICES ASSUME Inv, [Next]_vars PROVE [Store!Next]_(Store!vars)
  OBVIOUS
<1>1. CASE UNCHANGED vars
  BY <1>1 DEF vars, Store!vars, IsFs
<1>2. CASE VolCall /\ fsReply' = fsReply
  BY <1>2, VolCallEffect, VolumeStep DEF Inv
<1>3. CASE FsCall /\ FsAnswer
  BY <1>3, FsCallEffect, FsStep DEF Inv
<1>4. CASE Restart /\ fsReply' = fsReply
  BY <1>4 DEF Restart, Store!vars, IsFs
<1> QED BY <1>1, <1>2, <1>3, <1>4 DEF Next

\* Whatever volume calls come in between, and at whichever zfs command a call
\* fails, the file system calls are those of FileStore.
THEOREM ZfsIsFileStore == Spec => ImplementsFileStore
<1>1. Init => Store!Init
  <2> SUFFICES ASSUME Init PROVE Store!Init
    OBVIOUS
  <2>1. AbsFs = [n \in Names |-> 0]
    BY DEF Init, AbsFs, IsFs, Absent
  <2>2. AbsSnaps = {}
    BY DEF Init, AbsSnaps, FsSnaps
  <2> QED BY <2>1, <2>2, AbsVars DEF Init, Store!Init, AbsFs
<1> QED BY <1>1, InvHolds, StoreStep, PTL DEF Spec, ImplementsFileStore, Store!Spec
=============================================================================
