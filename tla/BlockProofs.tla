---------------------------- MODULE BlockProofs ----------------------------
(***************************************************************************)
(* Block for every pool, every set of initiators and groups, and any       *)
(* number of lost saves and reboots: no export dangles.                    *)
(*                                                                         *)
(* NoDanglingExport is not inductive alone: the saved tree has to be as    *)
(* rooted as the live one, for a reboot replaces one by the other, and a   *)
(* volume in the pool has to have a uuid, for a storage object is found    *)
(* by having one.                                                          *)
(***************************************************************************)
EXTENDS Block, LioLemmas

\* A tree a call may leave behind, in the pool as it is.
Sound(c) == c \in Cfs /\ Rooted(c) /\ StorageObjects(c) \subseteq Existing

Inv ==
    /\ StateOK
    /\ Sound(cfs)
    /\ Rooted(saved)
    /\ \A v \in Vols : vol[v] # 0 => gen[v] # 0

-----------------------------------------------------------------------------
(* How a call ends.                                                        *)

\* A call that leaves a sound tree and does not save it preserves Inv.
LEMMA ReplyOK ==
    ASSUME Inv, NEW c, Sound(c), NEW code \in Codes, Reply(c, code)
    PROVE  Inv'
BY DEF Inv, Sound, StateOK, Reply, Existing, Exists, StorageObjects, Rooted

\* So does one that saves a sound tree, even when the save is lost.
LEMMA SaveOK ==
    ASSUME Inv, NEW c, Sound(c), Save(c)
    PROVE  Inv'
<1>1. "ok" \in Codes /\ "lost" \in Codes
  BY DEF Codes
<1>2. lost' \in 0 .. MaxLost
  BY BoundsAssumption DEF Inv, StateOK, Save
<1> QED
  BY <1>1, <1>2 DEF Inv, Sound, StateOK, Save, Existing, Exists, StorageObjects, Rooted

\* So does one that gives a volume a size, or takes away one without a storage
\* object.
LEMMA SetSizeOK ==
    ASSUME Inv, NEW v \in Vols, NEW size \in Sizes \cup {0}, NEW code \in Codes,
           SetSize(v, size, code),
           gen' \in [Vols -> 0 .. MaxGen],
           \A w \in Vols : vol'[w] # 0 => gen'[w] # 0,
           size = 0 => v \notin StorageObjects(cfs)
    PROVE  Inv'
<1>1. StateOK'
  BY DEF Inv, StateOK, SetSize
<1>2. Sound(cfs)'
  BY DEF Inv, Sound, SetSize, Existing, Exists, StorageObjects, StateOK, Rooted
<1>3. Rooted(saved)'
  BY DEF Inv, SetSize, Rooted, StorageObjects
<1> QED
  BY <1>1, <1>2, <1>3 DEF Inv

\* Every answer is a code.
LEMMA CodesOK ==
    /\ "ok" \in Codes /\ "lost" \in Codes /\ "boot" \in Codes /\ "ERROR" \in Codes
    /\ "INVALID_POOL" \in Codes /\ "INVALID_ARGUMENT" \in Codes
    /\ "NAME_CONFLICT" \in Codes /\ "NO_SUPPORT" \in Codes
    /\ "NOT_FOUND_VOLUME" \in Codes /\ "VOLUME_MASKED" \in Codes
    /\ "NOT_FOUND_VOLUME_EXPORT" \in Codes /\ "EXISTS_INITIATOR" \in Codes
    /\ "NOT_FOUND_ACCESS_GROUP" \in Codes /\ "NO_FREE_HOST_LUN_ID" \in Codes
    /\ "UNEXPECTED_EXIT_CODE" \in Codes
BY DEF Codes

-----------------------------------------------------------------------------
(* The trees calls build are sound.                                        *)

\* The portal group, looked up or enabled.
LEMMA GetTpgSound ==
    ASSUME Inv
    PROVE  /\ Sound(GetTpg(cfs)) /\ GetTpg(cfs).tpg # "absent"
           /\ Sound(EnableTpg(cfs)) /\ EnableTpg(cfs).tpg = "enabled"
<1>1. cfs \in Cfs /\ Rooted(cfs) /\ StorageObjects(cfs) \subseteq Existing
  BY DEF Inv, Sound
<1>2. GetTpg(cfs).wwn = cfs.wwn /\ EnableTpg(cfs).wwn = cfs.wwn
  BY <1>1 DEF GetTpg, EnableTpg, Cfs
<1> QED
  BY <1>1, <1>2, GetTpgOK, EnableTpgOK DEF Sound, StorageObjects

\* The NodeACL export_create, export_destroy and initiator_set_auth make.
LEMMA GetAclSound ==
    ASSUME NEW c, Sound(c), c.tpg # "absent", NEW i \in Initiators
    PROVE  /\ Sound(GetAcl(c, i))
           /\ GetAcl(c, i).tpg = c.tpg
           /\ i \in GetAcl(c, i).acl
<1>1. c \in Cfs /\ Rooted(c) /\ StorageObjects(c) \subseteq Existing
  BY DEF Sound
<1>2. GetAcl(c, i).wwn = c.wwn
  BY <1>1 DEF GetAcl, Cfs
<1> QED
  BY <1>1, <1>2, GetAclOK DEF Sound, StorageObjects

\* The tag that puts a NodeACL into a group.
LEMMA SetTagSound ==
    ASSUME NEW c, Sound(c), NEW i \in Initiators, NEW g \in Groups
    PROVE  Sound(SetTag(c, i, g))
<1>1. c \in Cfs /\ Rooted(c) /\ StorageObjects(c) \subseteq Existing
  BY DEF Sound
<1>2. SetTag(c, i, g).wwn = c.wwn
  BY <1>1 DEF SetTag, Cfs
<1> QED
  BY <1>1, <1>2, SetTagOK DEF Sound, StorageObjects

\* _tpg_lun_of makes a storage object only of a volume the pool has.
LEMMA StorageObjectSound ==
    ASSUME Inv, NEW c, Sound(c), NEW v \in Vols, Exists(v), NEW id \in {gen[v], Generated}
    PROVE  Sound(GetStorageObject(c, v, id))
<1>1. c \in Cfs /\ Rooted(c) /\ StorageObjects(c) \subseteq Existing
  BY DEF Sound
<1>2. v \in Existing /\ id \in Nat \cup {Generated} /\ id # 0
  BY BoundsAssumption, GeneratedAssumption DEF Existing, Exists, Inv, StateOK
<1>3. LET d == GetStorageObject(c, v, id)
      IN  d \in Cfs /\ Rooted(d) /\ StorageObjects(d) = StorageObjects(c) \cup {v}
  <2> HIDE DEF Sound
  <2> QED
    BY <1>1, <1>2, GetStorageObjectOK
<1> QED
  BY <1>1, <1>2, <1>3 DEF Sound

\* So _tpg_lun_of gives a LUN to no other.
LEMMA TpgLunOfSound ==
    ASSUME Inv, NEW c, Sound(c), c.tpg # "absent", NEW v, HasTpgLun(v)
    PROVE  LET d == TpgLunOf(c, v)
           IN  /\ Sound(d)
               /\ d.tpg = c.tpg /\ d.acl = c.acl /\ d.tag = c.tag /\ d.map = c.map
               /\ d.luns = c.luns \cup {v}
<1>1. c \in Cfs /\ Rooted(c) /\ StorageObjects(c) \subseteq Existing
  BY DEF Sound
<1>2. v \in Vols /\ v \in Existing /\ gen[v] \in Nat /\ gen[v] # 0
  BY BoundsAssumption DEF HasTpgLun, Existing, Exists, Inv, StateOK
<1> QED
  BY <1>1, <1>2, GetLunOK DEF TpgLunOf, Sound

\* Mappings between NodeACLs and LUNs that are there.
LEMMA AddMapsSound ==
    ASSUME NEW c, Sound(c), NEW S \in SUBSET (c.acl \X LunIds \X c.luns),
           S # {} => c.tpg = "enabled"
    PROVE  Sound(AddMaps(c, S))
<1>1. c \in Cfs /\ Rooted(c) /\ StorageObjects(c) \subseteq Existing
  BY DEF Sound
<1>2. AddMaps(c, S).wwn = c.wwn
  BY <1>1 DEF AddMaps, Cfs
<1> QED
  BY <1>1, <1>2, AddMapsOK DEF Sound, StorageObjects

\* Taking mapped LUNs away.
LEMMA DeleteMapsSound ==
    ASSUME NEW c, Sound(c), NEW S
    PROVE  Sound(DeleteMaps(c, S))
<1>1. c \in Cfs /\ Rooted(c) /\ StorageObjects(c) \subseteq Existing
  BY DEF Sound
<1>2. DeleteMaps(c, S).wwn = c.wwn
  BY <1>1 DEF DeleteMaps, Cfs
<1> QED
  BY <1>1, <1>2, DeleteMapsOK DEF Sound, StorageObjects

\* The tidying of export_destroy and access_group_map_destroy.
LEMMA DropUnmappedSound ==
    ASSUME NEW c, Sound(c), NEW v \in Vols
    PROVE  Sound(DropUnmapped(c, v))
<1>1. c \in Cfs /\ Rooted(c) /\ StorageObjects(c) \subseteq Existing
  BY DEF Sound
<1>2. Sound(DeleteStorageObject(c, v))
  BY <1>1, DeleteStorageObjectOK DEF Sound
<1> QED
  BY <1>2 DEF DropUnmapped

\* access_group_destroy and access_group_init_del.
LEMMA DeleteAclsSound ==
    ASSUME NEW c, Sound(c), NEW S \in SUBSET Initiators
    PROVE  Sound(DeleteAcls(c, S))
<1>1. c \in Cfs /\ Rooted(c) /\ StorageObjects(c) \subseteq Existing
  BY DEF Sound
<1> QED
  BY <1>1, DeleteAclsOK DEF Sound, StorageObjects

\* export_destroy's clean-up, which may delete the portal group.
LEMMA PruneSound ==
    ASSUME NEW c, Sound(c), NEW i \in Initiators
    PROVE  Sound(Prune(c, i))
<1> DEFINE d == DeleteAcls(c, {i})
<1>1. Sound(d)
  BY DeleteAclsSound
<1>2. d \in Cfs /\ StorageObjects(d) \subseteq Existing
  BY <1>1 DEF Sound
<1>3. Sound(DeleteTpg(d))
  <2> HIDE DEF d
  <2> QED
    BY <1>2, DeleteTpgOK DEF Sound, StorageObjects
<1> QED
  BY <1>1, <1>3 DEF Prune

\* A newcomer to a group with members.
LEMMA JoinGroupSound ==
    ASSUME NEW c, Sound(c), c.tpg # "absent",
           NEW i \in Initiators, NEW g \in Groups, NEW model \in Initiators
    PROVE  Sound(JoinGroup(c, i, g, model))
<1>1. c \in Cfs /\ Rooted(c) /\ StorageObjects(c) \subseteq Existing
  BY DEF Sound
<1> QED
  BY <1>1, JoinGroupOK DEF Sound, StorageObjects

-----------------------------------------------------------------------------
(* One lemma per group of calls.                                           *)

\* vol_create, vol_destroy, vol_copy and vol_resize preserve Inv: vol_destroy
\* needs the pool's refusal to remove a device in use.
LEMMA VolCallOK == Inv /\ VolCall => Inv'
<1> SUFFICES ASSUME Inv, VolCall PROVE Inv'
  OBVIOUS
<1>0. Sound(cfs) /\ StateOK
  BY DEF Inv
<1>1. \A code \in Codes : Reply(cfs, code) => Inv'
  BY <1>0, ReplyOK
<1>2. ASSUME NEW v \in AnyVol, NEW size \in Sizes, VolCreate(v, size)
      PROVE  Inv'
  <2>1. CASE v \in Vols /\ ~Exists(v) /\ gen[v] < MaxGen
             /\ gen' = [gen EXCEPT ![v] = @ + 1] /\ SetSize(v, size, "ok")
    <3>1. gen[v] \in Nat /\ gen[v] + 1 \in 0 .. MaxGen /\ gen[v] + 1 # 0
      BY <1>0, <2>1, BoundsAssumption DEF StateOK
    <3>2. gen' \in [Vols -> 0 .. MaxGen]
      BY <1>0, <2>1, <3>1 DEF StateOK
    <3>3. \A w \in Vols : vol'[w] # 0 => gen'[w] # 0
      BY <1>0, <2>1, <3>1 DEF StateOK, SetSize, Inv
    <3> QED
      BY <2>1, <3>2, <3>3, SetSizeOK, CodesOK, SizesAssumption
  <2> QED
    BY <1>1, <1>2, <2>1, CodesOK DEF VolCreate, PoolError
<1>3. ASSUME NEW v \in AnyVol, VolDestroy(v)
      PROVE  Inv'
  <2>1. CASE v \in Vols /\ v \notin StorageObjects(cfs) /\ SetSize(v, 0, "ok")
             /\ UNCHANGED gen
    <3>1. \A w \in Vols : vol'[w] # 0 => gen'[w] # 0
      BY <1>0, <2>1 DEF StateOK, SetSize, Inv
    <3> QED
      BY <1>0, <2>1, <3>1, SetSizeOK, CodesOK DEF StateOK
  <2> QED
    BY <1>1, <1>3, <2>1, CodesOK DEF VolDestroy, PoolError, Missing
<1>4. ASSUME NEW v \in AnyVol, NEW new \in Vols, NEW size \in Sizes \cup {NoSize},
             VolCopy(v, new, size)
      PROVE  Inv'
  <2>1. ASSUME v \in Vols, Exists(v), gen[new] < MaxGen,
               gen' = [gen EXCEPT ![new] = @ + 1],
               NEW s \in Sizes, NEW code \in {"ok", "UNEXPECTED_EXIT_CODE"},
               SetSize(new, s, code)
        PROVE  Inv'
    <3>1. gen[new] \in Nat /\ gen[new] + 1 \in 0 .. MaxGen /\ gen[new] + 1 # 0
      BY <1>0, <2>1, BoundsAssumption DEF StateOK
    <3>2. gen' \in [Vols -> 0 .. MaxGen]
      BY <1>0, <2>1, <3>1 DEF StateOK
    <3>3. \A w \in Vols : vol'[w] # 0 => gen'[w] # 0
      BY <1>0, <2>1, <3>1 DEF StateOK, SetSize, Inv
    <3>4. s # 0
      BY SizesAssumption
    <3> QED
      BY <2>1, <3>2, <3>3, <3>4, SetSizeOK, CodesOK
  <2>2. v \in Vols /\ Exists(v) => vol[v] \in Sizes
    BY <1>0 DEF StateOK, Exists
  <2> QED
    BY <1>1, <1>4, <2>1, <2>2, CodesOK DEF VolCopy, PoolError, Missing
<1>5. ASSUME NEW v \in AnyVol, NEW size \in Sizes, VolResize(v, size)
      PROVE  Inv'
  <2>1. CASE v \in Vols /\ Exists(v) /\ SetSize(v, size, "ok") /\ UNCHANGED gen
    <3>1. \A w \in Vols : vol'[w] # 0 => gen'[w] # 0
      BY <1>0, <2>1 DEF StateOK, SetSize, Inv, Exists
    <3> QED
      BY <1>0, <2>1, <3>1, SetSizeOK, CodesOK, SizesAssumption DEF StateOK
  <2> QED
    BY <1>1, <1>5, <2>1, CodesOK DEF VolResize, PoolError, Missing
<1> QED
  BY <1>2, <1>3, <1>4, <1>5 DEF VolCall

\* How _tpg_lun_of fails, in a call that left a sound tree until then.
LEMMA TpgLunOfFailsOK ==
    ASSUME Inv, NEW c, Sound(c), NEW v, TpgLunOfFails(c, v)
    PROVE  Inv'
<1>1. CASE Reply(c, "INVALID_POOL") \/ Reply(c, "ERROR")
  BY <1>1, ReplyOK, CodesOK
<1>2. ASSUME v \in Vols, Exists(v), NEW id \in {gen[v], Generated},
             Reply(GetStorageObject(c, v, id), "ERROR")
      PROVE  Inv'
  BY <1>2, StorageObjectSound, ReplyOK, CodesOK
<1> QED
  BY <1>1, <1>2 DEF TpgLunOfFails

\* export_create, export_destroy and initiator_set_auth preserve Inv.
LEMMA ExportCallOK == Inv /\ (ExportCall \/ AuthCall) => Inv'
<1> SUFFICES ASSUME Inv, ExportCall \/ AuthCall PROVE Inv'
  OBVIOUS
<1> DEFINE t == GetTpg(cfs)
           e == EnableTpg(cfs)
<1>0. Sound(cfs) /\ Sound(t) /\ t.tpg # "absent" /\ Sound(e) /\ e.tpg = "enabled"
  BY GetTpgSound DEF Inv
<1>a. ASSUME NEW c, Sound(c), NEW i, AclRefused(c, i)
      PROVE  Inv'
  BY <1>a, ReplyOK, CodesOK DEF AclRefused
<1>1. ASSUME NEW i \in Initiators, NEW v \in AnyVol, NEW l \in LunIds \cup {BadLunId},
             ExportCreate(v, i, l)
      PROVE  Inv'
  <2> DEFINE c == GetAcl(e, i)
             d == TpgLunOf(c, v)
             S == {<<i, l, v>>}
  <2> HIDE DEF t, e
  <2>1. Sound(c) /\ c.tpg = "enabled" /\ i \in c.acl
    BY <1>0, GetAclSound
  <2>2. CASE TpgLunOfFails(c, v)
    BY <2>1, <2>2, TpgLunOfFailsOK
  <2>3. CASE HasTpgLun(v) /\ (Reply(d, "ERROR") \/ (l # BadLunId /\ Save(AddMaps(d, S))))
    <3> HIDE DEF c
    <3>1. Sound(d) /\ d.tpg = "enabled" /\ i \in d.acl /\ v \in d.luns
      BY <2>1, <2>3, TpgLunOfSound
    <3>2. l # BadLunId => Sound(AddMaps(d, S))
      <4> HIDE DEF d
      <4> SUFFICES ASSUME l \in LunIds PROVE Sound(AddMaps(d, S))
        OBVIOUS
      <4>1. S \in SUBSET (d.acl \X LunIds \X d.luns)
        BY <3>1
      <4> QED
        BY <3>1, <4>1, AddMapsSound
    <3> HIDE DEF d, S
    <3> QED
      BY <2>3, <3>1, <3>2, ReplyOK, SaveOK, CodesOK
  <2> QED
    BY <1>0, <1>1, <1>a, <2>2, <2>3 DEF ExportCreate, e
<1>2. ASSUME NEW i \in Initiators, NEW v \in AnyVol, ExportDestroy(v, i)
      PROVE  Inv'
  <2> DEFINE c == GetAcl(t, i)
  <2>1. Sound(c)
    <3> HIDE DEF t
    <3> QED
      BY <1>0, GetAclSound
  <2>2. CASE PoolError(v)
    BY <1>0, <2>2, ReplyOK, CodesOK DEF PoolError
  <2>3. CASE Reply(c, "NOT_FOUND_VOLUME_EXPORT")
    BY <2>1, <2>3, ReplyOK, CodesOK
  <2>4. ASSUME v \in Vols, NEW m,
               Save(Prune(DropUnmapped(DeleteMaps(c, {m}), v), i))
        PROVE  Inv'
    <3> HIDE DEF c
    <3>1. Sound(DropUnmapped(DeleteMaps(c, {m}), v))
      BY <2>1, <2>4, DeleteMapsSound, DropUnmappedSound
    <3>2. Sound(Prune(DropUnmapped(DeleteMaps(c, {m}), v), i))
      BY <3>1, PruneSound
    <3> QED
      BY <2>4, <3>2, SaveOK
  <2>5. CASE AclRefused(t, i)
    BY <1>0, <1>a, <2>5
  <2> QED
    BY <1>2, <2>2, <2>3, <2>4, <2>5 DEF ExportDestroy
<1>3. ASSUME NEW i \in Initiators, NEW on \in BOOLEAN, InitiatorSetAuth(i, on)
      PROVE  Inv'
  <2> DEFINE c == GetAcl(t, i)
  <2>1. Sound(c)
    <3> HIDE DEF t
    <3> QED
      BY <1>0, GetAclSound
  <2>2. \A s \in {"none", "set", "mixed"} : Sound(SetChap(c, i, s))
    <3> HIDE DEF c
    <3>1. c \in Cfs /\ Rooted(c) /\ StorageObjects(c) \subseteq Existing
      BY <2>1 DEF Sound
    <3> QED
      BY <3>1, SetChapOK DEF SetChap, Sound, StorageObjects
  <2>3. CASE AclRefused(t, i)
    BY <1>0, <1>a, <2>3
  <2>4. ASSUME NEW s \in {"none", "set", "mixed"},
               Reply(SetChap(c, i, s), "ERROR") \/ Save(SetChap(c, i, s))
        PROVE  Inv'
    BY <2>2, <2>4, ReplyOK, SaveOK, CodesOK
  <2>5. CASE Reply(c, "ERROR")
    BY <2>1, <2>5, ReplyOK, CodesOK
  <2> HIDE DEF c, t
  <2>6. \/ AclRefused(t, i)
        \/ Reply(c, "ERROR")
        \/ Reply(SetChap(c, i, "mixed"), "ERROR")
        \/ Save(SetChap(c, i, IF on THEN "set" ELSE "none"))
    BY <1>3 DEF InitiatorSetAuth, c, t
  <2>7. (IF on THEN "set" ELSE "none") \in {"none", "set", "mixed"}
    OBVIOUS
  <2> QED
    BY <2>3, <2>4, <2>5, <2>6, <2>7
<1> QED
  BY <1>1, <1>2, <1>3, InitsAssumption DEF ExportCall, AuthCall

\* The access_group_* calls preserve Inv.
LEMMA AgCallOK == Inv /\ (GroupCall \/ MapCall) => Inv'
<1> SUFFICES ASSUME Inv, GroupCall \/ MapCall PROVE Inv'
  OBVIOUS
<1> DEFINE t == GetTpg(cfs)
           e == EnableTpg(cfs)
<1>0. Sound(cfs) /\ Sound(t) /\ t.tpg # "absent" /\ Sound(e) /\ e.tpg = "enabled"
  BY GetTpgSound DEF Inv
<1>1. \A code \in Codes : Reply(cfs, code) \/ Reply(t, code) => Inv'
  BY <1>0, ReplyOK
<1>2. ASSUME NEW g \in Groups, NEW i \in Initiators, Save(SetTag(GetAcl(t, i), i, g))
      PROVE  Inv'
  <2> HIDE DEF t
  <2> QED
    BY <1>0, <1>2, GetAclSound, SetTagSound, SaveOK
<1>3. ASSUME NEW S \in SUBSET Initiators, Save(DeleteAcls(t, S))
      PROVE  Inv'
  BY <1>0, <1>3, DeleteAclsSound, SaveOK
<1>4. ASSUME NEW g \in Groups, NEW i \in Initiators, NEW type,
             AgCreate(g, i, type) \/ AgInitAdd(g, i, type) \/ AgInitDel(g, i, type)
      PROVE  Inv'
  <2>0. AclRefused(t, i) => Inv'
    BY <1>1, CodesOK DEF AclRefused
  <2>1. CASE AgCreate(g, i, type)
    BY <1>1, <1>2, <2>0, <2>1, CodesOK DEF AgCreate
  <2>2. CASE AgInitAdd(g, i, type)
    <3>1. ASSUME NEW model \in Members(t, g), Save(JoinGroup(t, i, g, model))
          PROVE  Inv'
      <4>1. model \in Initiators
        BY <1>0 DEF Members, Sound, Cfs
      <4> HIDE DEF t
      <4> QED
        BY <1>0, <3>1, <4>1, JoinGroupSound, SaveOK
    <3> QED
      BY <1>1, <1>2, <2>0, <2>2, <3>1, CodesOK DEF AgInitAdd
  <2>3. CASE AgInitDel(g, i, type)
    BY <1>1, <1>3, <2>3, CodesOK DEF AgInitDel
  <2> QED
    BY <1>4, <2>1, <2>2, <2>3
<1>5. ASSUME NEW g \in Groups, AgDestroy(g)
      PROVE  Inv'
  <2>1. Members(cfs, g) \in SUBSET Initiators
    BY <1>0 DEF Members, Sound, Cfs
  <2> QED
    BY <1>3, <1>5, <2>1 DEF AgDestroy
<1>6. ASSUME NEW g \in Groups, NEW v \in AnyVol, NEW h \in LunIds \cup {NoLunId, BadLunId},
             AgMapCreate(v, g, h)
      PROVE  Inv'
  <2> DEFINE d == TpgLunOf(e, v)
  <2> HIDE DEF e
  <2>1. TpgLunOfFails(e, v) => Inv'
    BY <1>0, TpgLunOfFailsOK
  <2>2. CASE HasTpgLun(v)
    <3>1. /\ Sound(d) /\ d.tpg = "enabled" /\ d.acl = e.acl /\ d.tag = e.tag
          /\ d.luns = e.luns \cup {v}
      BY <1>0, <2>2, TpgLunOfSound
    <3> HIDE DEF d
    <3>2. \A code \in Codes : Reply(d, code) => Inv'
      BY <3>1, ReplyOK
    <3>3. ASSUME NEW l \in LunIds, NEW S \in SUBSET Members(d, g)
          PROVE  Sound(AddMaps(d, S \X {l} \X {v}))
      <4>1. S \X {l} \X {v} \in SUBSET (d.acl \X LunIds \X d.luns)
        BY <3>1 DEF Members
      <4> QED
        BY <3>1, <4>1, AddMapsSound
    <3>4. ASSUME NEW l \in LunIds \cup {BadLunId}, MapGroup(d, v, g, l)
          PROVE  Inv'
      <4>0. CASE Reply(d, "ERROR")
        BY <3>2, <4>0, CodesOK
      <4>1. ASSUME l \in LunIds, Save(AddMaps(d, Members(d, g) \X {l} \X {v}))
            PROVE  Inv'
        BY <3>3, <4>1, SaveOK
      <4>2. ASSUME l \in LunIds, NEW clash,
                   NEW done \in SUBSET (Members(d, g) \ clash),
                   Reply(AddMaps(d, done \X {l} \X {v}), "ERROR")
            PROVE  Inv'
        BY <3>3, <4>2, ReplyOK, CodesOK
      <4>3. l \in LunIds \/ \A i \in Members(d, g) : ~LunTaken(d, i, l)
        BY <3>1, LunIdsAssumption DEF Sound, Cfs, LunTaken, MapsOf
      <4> QED
        BY <3>4, <4>0, <4>1, <4>2, <4>3 DEF MapGroup
    <3>5. HostLunIds(e, v, h) \subseteq LunIds \cup {BadLunId}
      BY DEF HostLunIds
    <3>6. \A l \in HostLunIds(e, v, h) : MapGroup(d, v, g, l) => Inv'
      BY <3>4, <3>5
    <3> QED
      BY <1>6, <2>1, <3>2, <3>6, CodesOK DEF AgMapCreate, d, e
  <2> QED
    BY <1>6, <2>1, <2>2 DEF AgMapCreate, e
<1>7. ASSUME NEW g \in Groups, NEW v \in AnyVol, AgMapDestroy(v, g)
      PROVE  Inv'
  <2> DEFINE d == TpgLunOf(t, v)
  <2>1. TpgLunOfFails(t, v) => Inv'
    BY <1>0, TpgLunOfFailsOK
  <2>2. CASE HasTpgLun(v)
    <3>1. Sound(d) /\ v \in Vols
      <4> HIDE DEF t
      <4> QED
        BY <1>0, <2>2, TpgLunOfSound DEF HasTpgLun
    <3>2. \A S : Save(DropUnmapped(DeleteMaps(d, S), v)) => Inv'
      <4> HIDE DEF d
      <4> QED
        BY <3>1, DeleteMapsSound, DropUnmappedSound, SaveOK
    <3>3. Save(DropUnmapped(d, v)) => Inv'
      <4> HIDE DEF d
      <4> QED
        BY <3>1, DropUnmappedSound, SaveOK
    <3> QED
      BY <1>7, <2>1, <3>2, <3>3 DEF AgMapDestroy
  <2> QED
    BY <1>7, <2>1, <2>2 DEF AgMapDestroy
<1> QED
  BY <1>4, <1>5, <1>6, <1>7, InitsAssumption DEF GroupCall, MapCall

\* The boot restores a sound tree: the devices the saved one needs are there,
\* or it is restored without them.
LEMMA RebootOK == Inv /\ Reboot => Inv'
<1> SUFFICES ASSUME Inv, Reboot PROVE Inv'
  OBVIOUS
<1> DEFINE d == Restore(saved, Existing)
<1>1. d \in Cfs /\ Rooted(d) /\ StorageObjects(d) \subseteq Existing
  BY RestoreOK DEF Inv, StateOK, Existing
<1>2. "boot" \in Codes
  BY CodesOK
<1> HIDE DEF d
<1>3. cfs' = d
  BY DEF Reboot, d
<1> QED
  BY <1>1, <1>2, <1>3 DEF Inv, Sound, StateOK, Reboot, Existing, Exists,
                          StorageObjects, Rooted

-----------------------------------------------------------------------------
(* The theorems.                                                           *)

\* Inv holds at the start and every step keeps it.
THEOREM InvInvariant == Spec => []Inv
<1>1. Init => Inv
  <2> SUFFICES ASSUME Init PROVE Inv
    OBVIOUS
  <2>1. StateOK
    BY EmptyCfsOK, BoundsAssumption, CodesOK DEF Init, StateOK
  <2>2. StorageObjects(EmptyCfs) = {}
    BY DEF StorageObjects, EmptyCfs
  <2> QED
    BY <2>1, <2>2, EmptyCfsOK DEF Init, Inv, Sound
<1>2. Inv /\ [Next]_vars => Inv'
  <2> SUFFICES ASSUME Inv, [Next]_vars PROVE Inv'
    OBVIOUS
  <2>1. CASE VolCall
    BY <2>1, VolCallOK
  <2>2. CASE ExportCall \/ AuthCall
    BY <2>2, ExportCallOK
  <2>3. CASE GroupCall \/ MapCall
    BY <2>3, AgCallOK
  <2>4. CASE ListCall
    BY <2>4, GetTpgSound, ReplyOK, CodesOK DEF ListCall
  <2>5. CASE Reboot
    BY <2>5, RebootOK
  <2>6. CASE UNCHANGED vars
    BY <2>6 DEF vars, Inv, StateOK, Sound, Rooted, StorageObjects, Existing, Exists
  <2> QED
    BY <2>1, <2>2, <2>3, <2>4, <2>5, <2>6 DEF Next, ListOrReboot
<1> QED
  BY <1>1, <1>2, PTL DEF Spec

\* The two records hold groups, volumes and initiators only.
LEMMA RecordsOK ==
    ASSUME Inv, Inv', TypeOK, [Next]_vars
    PROVE  uneven' \subseteq Groups \X AnyVol /\ unsaved' \subseteq Initiators
<1>1. ASSUME NEW pair \in SUBSET ((Groups \cup {NoTag}) \X AnyVol), Mark(pair)
      PROVE  uneven' \subseteq Groups \X AnyVol
  <2>1. GroupNames(cfs') \subseteq Groups /\ GroupNames(saved') \subseteq Groups
    BY DEF Inv, StateOK, Cfs, GroupNames
  <2>2. uneven \subseteq Groups \X AnyVol
    BY DEF TypeOK
  <2> QED
    BY <1>1, <2>1, <2>2 DEF Mark
<1>2. ASSUME NEW S \in SUBSET Initiators, Note(S)
      PROVE  unsaved' \subseteq Initiators
  BY <1>2 DEF TypeOK, Note
<1>3. cfs.tag \in [Initiators -> Groups \cup {NoTag}] /\ cfs.acl \subseteq Initiators
  BY DEF Inv, Sound, Cfs
<1>4. CASE VolCall \/ GroupCall \/ ListOrReboot
  BY <1>1, <1>2, <1>4 DEF VolCall, GroupCall, ListOrReboot
<1>5. CASE ExportCall
  <2>1. PICK i \in ExportInits, v \in AnyVol : Mark({<<cfs.tag[i], v>>}) /\ Note({})
    BY <1>5 DEF ExportCall
  <2>2. {<<cfs.tag[i], v>>} \in SUBSET ((Groups \cup {NoTag}) \X AnyVol)
    BY <1>3, <2>1, InitsAssumption
  <2> QED
    BY <1>1, <1>2, <2>1, <2>2
<1>6. CASE AuthCall
  <2>1. PICK i \in AuthInits : Mark({}) /\ Note({i})
    BY <1>6 DEF AuthCall
  <2> QED
    BY <1>1, <1>2, <2>1, InitsAssumption
<1>7. CASE MapCall
  <2>1. PICK g \in Groups, v \in AnyVol :
            Mark(IF reply' = "ERROR" THEN {<<g, v>>} ELSE {}) /\ Note(Members(cfs, g))
    BY <1>7 DEF MapCall
  <2>2. (IF reply' = "ERROR" THEN {<<g, v>>} ELSE {})
            \in SUBSET ((Groups \cup {NoTag}) \X AnyVol)
    OBVIOUS
  <2>3. Members(cfs, g) \in SUBSET Initiators
    BY <1>3 DEF Members
  <2> QED
    BY <1>1, <1>2, <2>1, <2>2, <2>3
<1>8. CASE UNCHANGED vars
  BY <1>8 DEF vars, TypeOK
<1> QED
  BY <1>4, <1>5, <1>6, <1>7, <1>8 DEF Next

\* Every call leaves a volume a size a client asked for, and the two trees trees.
THEOREM TypeCorrect == Spec => []TypeOK
<1>1. Inv /\ Init => TypeOK
  BY DEF Inv, Init, TypeOK
<1>2. Inv /\ Inv' /\ TypeOK /\ [Next]_vars => TypeOK'
  <2> SUFFICES ASSUME Inv, Inv', TypeOK, [Next]_vars PROVE TypeOK'
    OBVIOUS
  <2>1. StateOK'
    BY DEF Inv
  <2> QED
    BY <2>1, RecordsOK DEF TypeOK, AnyVol
<1> QED
  BY <1>1, <1>2, InvInvariant, PTL DEF Spec

\* vol_destroy never takes a volume from under an export, whatever failed calls,
\* lost saves and reboots came before it.
THEOREM NoExportDangles == Spec => []NoDanglingExport
<1>1. Inv => NoDanglingExport
  BY DEF Inv, Sound, NoDanglingExport
<1> QED
  BY <1>1, InvInvariant, PTL

=============================================================================
