----------------------------- MODULE LioLemmas -----------------------------
(***************************************************************************)
(* What the operators of Lio preserve: each yields a tree from a tree, and *)
(* a rooted tree from a rooted one.                                        *)
(***************************************************************************)
EXTENDS Lio, TLAPS

\* No tree at all is a tree, and rooted: what a fresh machine starts with.
LEMMA EmptyCfsOK == EmptyCfs \in Cfs /\ Rooted(EmptyCfs)
BY DEF EmptyCfs, Cfs, Rooted, StorageObjects

\* Looking the target up creates it when it is missing.
LEMMA GetTpgOK ==
    ASSUME NEW c \in Cfs, Rooted(c)
    PROVE  /\ GetTpg(c) \in Cfs
           /\ Rooted(GetTpg(c))
           /\ GetTpg(c).tpg # "absent"
BY DEF GetTpg, Cfs, Rooted, StorageObjects

\* export_create and access_group_map_create enable the portal group.
LEMMA EnableTpgOK ==
    ASSUME NEW c \in Cfs, Rooted(c)
    PROVE  /\ EnableTpg(c) \in Cfs
           /\ Rooted(EnableTpg(c))
           /\ EnableTpg(c).tpg = "enabled"
BY DEF EnableTpg, Cfs, Rooted, StorageObjects

\* A NodeACL needs a portal group above it.
LEMMA GetAclOK ==
    ASSUME NEW c \in Cfs, Rooted(c), c.tpg # "absent", NEW i \in Initiators
    PROVE  /\ GetAcl(c, i) \in Cfs
           /\ Rooted(GetAcl(c, i))
           /\ GetAcl(c, i).tpg = c.tpg
           /\ i \in GetAcl(c, i).acl
BY DEF GetAcl, Cfs, Rooted, StorageObjects

\* Tagging a NodeACL moves no mapping.
LEMMA SetTagOK ==
    ASSUME NEW c \in Cfs, Rooted(c), NEW i \in Initiators, NEW g \in Groups
    PROVE  SetTag(c, i, g) \in Cfs /\ Rooted(SetTag(c, i, g))
BY DEF SetTag, Cfs, Rooted, StorageObjects

\* _tpg_lun_of: a storage object, of whatever identity,
LEMMA GetStorageObjectOK ==
    ASSUME NEW c \in Cfs, Rooted(c), NEW v \in Vols, NEW id \in Nat \cup {Generated}, id # 0
    PROVE  LET d == GetStorageObject(c, v, id)
           IN  /\ d \in Cfs
               /\ Rooted(d)
               /\ d.tpg = c.tpg /\ d.acl = c.acl /\ d.tag = c.tag /\ d.map = c.map
               /\ d.luns = c.luns
               /\ StorageObjects(d) = StorageObjects(c) \cup {v}
BY DEF GetStorageObject, Cfs, Rooted, StorageObjects

\* and a LUN that comes with it.
LEMMA GetLunOK ==
    ASSUME NEW c \in Cfs, Rooted(c), c.tpg # "absent",
           NEW v \in Vols, NEW id \in Nat \cup {Generated}, id # 0
    PROVE  LET d == GetLun(GetStorageObject(c, v, id), v)
           IN  /\ d \in Cfs
               /\ Rooted(d)
               /\ d.tpg = c.tpg /\ d.acl = c.acl /\ d.tag = c.tag /\ d.map = c.map
               /\ d.luns = c.luns \cup {v}
               /\ StorageObjects(d) = StorageObjects(c) \cup {v}
<1> DEFINE e == GetStorageObject(c, v, id)
<1>1. /\ e \in Cfs /\ Rooted(e) /\ e.tpg = c.tpg /\ e.acl = c.acl /\ e.tag = c.tag
      /\ e.map = c.map /\ e.luns = c.luns /\ StorageObjects(e) = StorageObjects(c) \cup {v}
  BY GetStorageObjectOK
<1> HIDE DEF e
<1>2. /\ GetLun(e, v) \in Cfs /\ Rooted(GetLun(e, v))
      /\ GetLun(e, v).tpg = e.tpg /\ GetLun(e, v).acl = e.acl /\ GetLun(e, v).tag = e.tag
      /\ GetLun(e, v).map = e.map /\ GetLun(e, v).luns = e.luns \cup {v}
      /\ StorageObjects(GetLun(e, v)) = StorageObjects(e)
  BY <1>1 DEF GetLun, Cfs, Rooted, StorageObjects
<1> QED
  BY <1>1, <1>2 DEF e

\* Credentials move no mapping.
LEMMA SetChapOK ==
    ASSUME NEW c \in Cfs, Rooted(c), NEW i \in Initiators, NEW s \in {"none", "set", "mixed"}
    PROVE  LET d == [c EXCEPT !.chap[i] = s]
           IN  /\ d \in Cfs /\ Rooted(d) /\ d.wwn = c.wwn
               /\ d.map = c.map /\ d.acl = c.acl /\ d.tag = c.tag
               /\ \A j \in Initiators : d.chap[j] = IF j = i THEN s ELSE c.chap[j]
BY DEF Cfs, Rooted, StorageObjects

\* Mapped LUNs between NodeACLs and LUNs of an enabled portal group.
LEMMA AddMapsOK ==
    ASSUME NEW c \in Cfs, Rooted(c),
           NEW S \in SUBSET (c.acl \X LunIds \X c.luns),
           S # {} => c.tpg = "enabled"
    PROVE  AddMaps(c, S) \in Cfs /\ Rooted(AddMaps(c, S))
BY DEF AddMaps, Cfs, Rooted, StorageObjects

LEMMA DeleteMapsOK ==
    ASSUME NEW c \in Cfs, Rooted(c), NEW S
    PROVE  DeleteMaps(c, S) \in Cfs /\ Rooted(DeleteMaps(c, S))
BY DEF DeleteMaps, Cfs, Rooted, StorageObjects

\* A storage object takes its LUN, and the LUN its mapped LUNs, with it.
LEMMA DeleteStorageObjectOK ==
    ASSUME NEW c \in Cfs, Rooted(c), NEW v \in Vols
    PROVE  LET d == DeleteStorageObject(c, v)
           IN  /\ d \in Cfs
               /\ Rooted(d)
               /\ StorageObjects(d) = StorageObjects(c) \ {v}
BY DEF DeleteStorageObject, DeleteLun, MapsTo, Cfs, Rooted, StorageObjects

\* A NodeACL takes its mapped LUNs with it.
LEMMA DeleteAclsOK ==
    ASSUME NEW c \in Cfs, Rooted(c), NEW S \in SUBSET Initiators
    PROVE  /\ DeleteAcls(c, S) \in Cfs
           /\ Rooted(DeleteAcls(c, S))
           /\ DeleteAcls(c, S).wwn = c.wwn
BY DEF DeleteAcls, Cfs, Rooted, StorageObjects

\* The portal group takes everything but the storage objects with it.
LEMMA DeleteTpgOK ==
    ASSUME NEW c \in Cfs
    PROVE  DeleteTpg(c) \in Cfs /\ Rooted(DeleteTpg(c)) /\ DeleteTpg(c).wwn = c.wwn
BY DEF DeleteTpg, EmptyCfs, Cfs, Rooted, StorageObjects

\* A newcomer takes the mapped LUNs of a member.
LEMMA JoinGroupOK ==
    ASSUME NEW c \in Cfs, Rooted(c), c.tpg # "absent",
           NEW i \in Initiators, NEW g \in Groups, NEW model \in Initiators
    PROVE  LET d == JoinGroup(c, i, g, model)
           IN  d \in Cfs /\ Rooted(d) /\ d.wwn = c.wwn
<1> DEFINE d == SetTag(GetAcl(c, i), i, g)
           S == {<<i, m[2], m[3]>> : m \in MapsOf(c, model)}
<1>1. d \in Cfs /\ Rooted(d)
  BY GetAclOK, SetTagOK
<1>2. i \in d.acl /\ d.luns = c.luns /\ d.tpg = c.tpg /\ d.wwn = c.wwn
  BY DEF SetTag, GetAcl, Cfs
<1>3. S \in SUBSET (d.acl \X LunIds \X d.luns)
  <2>1. c.map \subseteq Initiators \X LunIds \X Vols
    BY DEF Cfs
  <2>2. \A m \in MapsOf(c, model) : m[2] \in LunIds /\ m[3] \in c.luns
    BY <2>1 DEF MapsOf, Rooted
  <2> QED
    BY <1>2, <2>2
<1>4. S # {} => d.tpg = "enabled"
  BY <1>2 DEF MapsOf, Rooted
<1>5. AddMaps(d, S) \in Cfs /\ Rooted(AddMaps(d, S))
  <2> HIDE DEF d, S
  <2> QED
    BY <1>1, <1>3, <1>4, AddMapsOK
<1>6. AddMaps(d, S).wwn = d.wwn
  BY <1>1 DEF AddMaps, Cfs
<1> QED
  BY <1>2, <1>5, <1>6 DEF JoinGroup

\* A boot restores a rooted tree from a rooted one, over devices that are there.
LEMMA RestoreOK ==
    ASSUME NEW c \in Cfs, Rooted(c), NEW present \in SUBSET Vols
    PROVE  LET d == Restore(c, present)
           IN  d \in Cfs /\ Rooted(d) /\ StorageObjects(d) \subseteq present
BY DEF Restore, Cfs, Rooted, StorageObjects

=============================================================================
