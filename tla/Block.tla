------------------------------- MODULE Block -------------------------------
(***************************************************************************)
(* targetd/block.py: volumes of one configured block pool, exports of      *)
(* volumes to single initiators, and access groups.  targetd itself keeps  *)
(* no state between two calls: a volume lives in the pool, an export in    *)
(* the kernel target's tree (Lio), and what a reboot restores in the file  *)
(* RTSRoot().save_to_file() writes.  main.py runs one call at a time (see  *)
(* RpcServer), so one call is one step here; what a call leaves behind     *)
(* when it fails half way is part of its step.                             *)
(***************************************************************************)
EXTENDS Lio

CONSTANTS
    ExportInits,    \* initiators named in export_*
    AuthInits,      \* initiators named in initiator_set_auth
    AgInits,        \* initiators named in access_group_* calls
    LegalNames,     \* the group names name_check accepts
    Stray,          \* a volume of a pool targetd was not configured with
    InitTypes,      \* "iscsi" and others
    NoLunId,        \* access_group_map_create without an h_lun_id
    BadLunId,       \* a LUN id rtslib refuses
    Sizes,          \* volume sizes a client asks for
    NoSize,         \* vol_copy without a size
    MaxGen,         \* bound: how often a volume of one name is created
    MaxLost         \* bound: how many saves of the tree are lost

ASSUME InitsAssumption ==
    ExportInits \subseteq Initiators /\ AuthInits \subseteq Initiators /\ AgInits \subseteq Initiators
ASSUME StrayAssumption == Stray \notin Vols
ASSUME SizesAssumption == Sizes \subseteq Nat \ {0} /\ NoSize \notin Nat
ASSUME LunIdsAssumption == NoLunId \notin LunIds /\ BadLunId \notin LunIds \cup {NoLunId}
ASSUME BoundsAssumption == MaxGen \in Nat /\ MaxLost \in Nat

VARIABLES
    vol,        \* the size of each volume in the pool, 0 where there is none
    gen,        \* the uuid of each volume: how often the name was created
    cfs,        \* the kernel target's tree
    saved,      \* the tree in the saved configuration file
    reply,      \* how the last call ended
    lost,       \* the saves lost so far
    uneven,     \* auxiliary: <<g, v>> where g's members may see v differently
    unsaved     \* auxiliary: whose rights a failing call changed and left unsaved

vars == <<vol, gen, cfs, saved, reply, lost, uneven, unsaved>>

Codes == {"ok", "lost", "boot", "ERROR", "INVALID_POOL", "INVALID_ARGUMENT",
          "NAME_CONFLICT", "NO_SUPPORT", "NOT_FOUND_VOLUME", "VOLUME_MASKED",
          "NOT_FOUND_VOLUME_EXPORT", "EXISTS_INITIATOR",
          "NOT_FOUND_ACCESS_GROUP", "NO_FREE_HOST_LUN_ID",
          "UNEXPECTED_EXIT_CODE"}

Init ==
    /\ vol = [v \in Vols |-> 0]
    /\ gen = [v \in Vols |-> 0]
    /\ cfs = EmptyCfs
    /\ saved = EmptyCfs
    /\ reply = "ok"
    /\ lost = 0
    /\ uneven = {}
    /\ unsaved = {}

-----------------------------------------------------------------------------
(* Helpers: how a call ends, and the two lookups of block.py.              *)

Exists(v) == vol[v] # 0

Existing == {v \in Vols : Exists(v)}

\* The call answers `code` and leaves the tree at c, without saving it.
Reply(c, code) ==
    /\ cfs' = c
    /\ reply' = code
    /\ UNCHANGED <<vol, gen, saved, lost>>

\* Slip: the file is written before the tree is changed.
SaveFirst(c) ==
    /\ cfs' = c /\ saved' = cfs /\ reply' = "ok"
    /\ UNCHANGED <<vol, gen, lost>>

\* The call reaches RTSRoot().save_to_file() with the tree at c.  The save is
\* lost when targetd is killed before it or the file cannot be written.
Save(c) ==
    /\ cfs' = c
    /\ UNCHANGED <<vol, gen>>
    /\ \/ saved' = c /\ reply' = "ok" /\ UNCHANGED lost
       \/ /\ lost < MaxLost
          /\ lost' = lost + 1
          /\ reply' = "lost"
          /\ UNCHANGED saved

\* The call changes the pool, not the tree.
SetSize(v, size, code) ==
    /\ vol' = [vol EXCEPT ![v] = size]
    /\ reply' = code
    /\ UNCHANGED <<cfs, saved, lost>>

\* check_vol_exists, and the pool_module call before it.
PoolError(v) == v \notin Vols /\ Reply(cfs, "INVALID_POOL")

Missing(v) == v \in Vols /\ ~Exists(v) /\ Reply(cfs, "NOT_FOUND_VOLUME")

\* _tpg_lun_of: the LUN of v, with the storage object below it.
TpgLunOf(c, v) == GetLun(GetStorageObject(c, v, gen[v]), v)

\* How _tpg_lun_of fails, with the tree at c: pool_module knows no such pool;
\* vol_info finds no such volume; the storage object cannot be made; it is made
\* but does not take the volume's identity, and keeps the generated one; or
\* there it is, and the LUN cannot be made.
TpgLunOfFails(c, v) ==
    \/ v \notin Vols /\ Reply(c, "INVALID_POOL")
    \/ v \in Vols /\ ~Exists(v) /\ Reply(c, "ERROR")
    \/ /\ v \in Vols /\ Exists(v) /\ c.wwn[v] = 0
       /\ Reply(c, "ERROR") \/ Reply(GetStorageObject(c, v, Generated), "ERROR")
    \/ /\ v \in Vols /\ Exists(v) /\ v \notin c.luns
       /\ Reply(GetStorageObject(c, v, gen[v]), "ERROR")

\* Slip: vol_info is not asked whether the volume is there.
HasTpgLunUnasked(v) == v \in Vols

HasTpgLun(v) == v \in Vols /\ Exists(v)

\* Slip: the LUN is tidied up while others are mapped to it.
DropAlways(c, v) == DeleteStorageObject(c, v)

DropUnmapped(c, v) == IF MapsTo(c, v) = {} THEN DeleteStorageObject(c, v) ELSE c

\* NodeACL(): rtslib refuses to make a NodeACL of a malformed initiator name.
AclRefused(c, i) == i \notin c.acl /\ Reply(c, "ERROR")

\* "Clean up tree if branch has no leaf."
Prune(c, i) ==
    LET d == DeleteAcls(c, {i})
    IN  IF MapsOf(c, i) # {} THEN c ELSE IF d.acl # {} THEN d ELSE DeleteTpg(d)

-----------------------------------------------------------------------------
(* Volumes.                                                                *)

VolCreate(v, size) ==
    \/ PoolError(v)
    \/ v \in Vols /\ Exists(v) /\ Reply(cfs, "NAME_CONFLICT")
    \/ v \in Vols /\ ~Exists(v) /\ Reply(cfs, "UNEXPECTED_EXIT_CODE")
    \/ /\ v \in Vols /\ ~Exists(v) /\ gen[v] < MaxGen
       /\ gen' = [gen EXCEPT ![v] = @ + 1]
       /\ SetSize(v, size, "ok")

\* Slip: a leaked storage object does not keep its device from removal.
VolDestroyHeld(v) ==
    \/ PoolError(v)
    \/ Missing(v)
    \/ v \in Vols /\ Exists(v) /\ v \notin cfs.luns /\ SetSize(v, 0, "ok") /\ UNCHANGED gen

\* The volume is checked for a LUN, not for an initiator that sees the LUN.
\* The pool refuses to remove a device some storage object holds open.
VolDestroy(v) ==
    \/ PoolError(v)
    \/ Missing(v)
    \/ v \in Vols /\ Exists(v) /\ v \in cfs.luns /\ Reply(cfs, "VOLUME_MASKED")
    \/ v \in Vols /\ Exists(v) /\ v \notin cfs.luns /\ Reply(cfs, "UNEXPECTED_EXIT_CODE")
    \/ /\ v \in Vols /\ Exists(v) /\ v \notin cfs.luns
       /\ v \notin StorageObjects(cfs)
       /\ SetSize(v, 0, "ok")
       /\ UNCHANGED gen

\* With a size, LVM copies first and grows the copy second: a copy that could
\* not be grown is left behind.
VolCopy(v, new, size) ==
    \/ PoolError(v)
    \/ Missing(v)
    \/ /\ v \in Vols /\ Exists(v) /\ size # NoSize /\ vol[v] >= size
       /\ Reply(cfs, "INVALID_ARGUMENT")
    \/ /\ v \in Vols /\ Exists(v) /\ (size # NoSize => vol[v] < size)
       /\ \/ Exists(new) /\ Reply(cfs, "NAME_CONFLICT")
          \/ ~Exists(new) /\ Reply(cfs, "UNEXPECTED_EXIT_CODE")
          \/ /\ ~Exists(new) /\ gen[new] < MaxGen
             /\ gen' = [gen EXCEPT ![new] = @ + 1]
             /\ \/ SetSize(new, IF size = NoSize THEN vol[v] ELSE size, "ok")
                \/ size # NoSize /\ SetSize(new, vol[v], "UNEXPECTED_EXIT_CODE")

VolResize(v, size) ==
    \/ PoolError(v)
    \/ Missing(v)
    \/ v \in Vols /\ Exists(v) /\ vol[v] >= size /\ Reply(cfs, "INVALID_ARGUMENT")
    \/ v \in Vols /\ Exists(v) /\ vol[v] < size /\ Reply(cfs, "UNEXPECTED_EXIT_CODE")
    \/ /\ v \in Vols /\ Exists(v) /\ vol[v] < size
       /\ SetSize(v, size, "ok")
       /\ UNCHANGED gen

-----------------------------------------------------------------------------
(* Exports to one initiator.                                               *)

\* The portal group and the NodeACL are there before anything can fail, and the
\* LUN before the mapped LUN can.
ExportCreate(v, i, l) ==
    LET c == GetAcl(EnableTpg(cfs), i)
        mine == <<i, l, v>> \in c.map
    IN  \/ AclRefused(EnableTpg(cfs), i)
        \/ TpgLunOfFails(c, v)
        \/ /\ HasTpgLun(v) /\ ~mine /\ (LunTaken(c, i, l) \/ l = BadLunId)
           /\ Reply(TpgLunOf(c, v), "ERROR")
        \/ /\ HasTpgLun(v) /\ l # BadLunId /\ (LunTaken(c, i, l) => mine)
           /\ Save(AddMaps(TpgLunOf(c, v), {<<i, l, v>>}))

\* One mapped LUN of the volume goes, whichever mapped_luns lists first.
ExportDestroy(v, i) ==
    LET c == GetAcl(GetTpg(cfs), i)
        mine == MapsOf(c, i) \cap MapsTo(c, v)
    IN  \/ PoolError(v)
        \/ v \in Vols /\ AclRefused(GetTpg(cfs), i)
        \/ v \in Vols /\ mine = {} /\ Reply(c, "NOT_FOUND_VOLUME_EXPORT")
        \/ /\ v \in Vols
           /\ \E m \in mine : Save(Prune(DropUnmapped(DeleteMaps(c, {m}), v), i))

SetChap(c, i, state) == [c EXCEPT !.chap[i] = state]

\* Slip: the save is left out.
InitiatorSetAuthUnsaved(i, on) ==
    Reply(SetChap(GetAcl(GetTpg(cfs), i), i, IF on THEN "set" ELSE "none"), "ok")

\* Credentials are set, or cleared when a name or a password is missing, in four
\* writes.  The first to raise leaves those before it in force, and unsaved.
InitiatorSetAuth(i, on) ==
    LET c == GetAcl(GetTpg(cfs), i)
    IN  \/ AclRefused(GetTpg(cfs), i)
        \/ Reply(c, "ERROR")
        \/ (on \/ c.chap[i] # "none") /\ Reply(SetChap(c, i, "mixed"), "ERROR")
        \/ Save(SetChap(c, i, IF on THEN "set" ELSE "none"))

\* initiator_list, access_group_list, access_group_map_list: a read, but it
\* creates the target and the portal group it looks into.
ListCall == Reply(GetTpg(cfs), "ok")

-----------------------------------------------------------------------------
(* Access groups.                                                          *)

\* Slip: the NodeACL is tagged before the initiator is checked.
AgCreateTagged(g, i, type) ==
    /\ type = "iscsi" /\ g \in LegalNames
    /\ g \notin GroupNames(cfs) /\ i \in cfs.acl
    /\ Reply(SetTag(cfs, i, g), "EXISTS_INITIATOR")

AgCreate(g, i, type) ==
    LET c == GetTpg(cfs)
    IN  \/ type # "iscsi" /\ Reply(cfs, "NO_SUPPORT")
        \/ type = "iscsi" /\ g \notin LegalNames /\ Reply(cfs, "INVALID_ARGUMENT")
        \/ /\ type = "iscsi" /\ g \in LegalNames
           /\ \/ g \in GroupNames(c) /\ Reply(c, "NAME_CONFLICT")
              \/ g \notin GroupNames(c) /\ i \in c.acl /\ Reply(c, "EXISTS_INITIATOR")
              \/ g \notin GroupNames(c) /\ AclRefused(c, i)
              \/ /\ g \notin GroupNames(c) /\ i \notin c.acl
                 /\ Save(SetTag(GetAcl(c, i), i, g))

AgDestroy(g) == Save(DeleteAcls(GetTpg(cfs), Members(cfs, g)))

\* A group that does not exist is created, its name unchecked.
AgInitAdd(g, i, type) ==
    LET c == GetTpg(cfs)
    IN  \/ type # "iscsi" /\ Reply(cfs, "NO_SUPPORT")
        \/ type = "iscsi" /\ i \in Members(c, g) /\ Reply(c, "ok")
        \/ type = "iscsi" /\ i \in c.acl \ Members(c, g) /\ Reply(c, "EXISTS_INITIATOR")
        \/ type = "iscsi" /\ AclRefused(c, i)
        \/ /\ type = "iscsi" /\ i \notin c.acl
           /\ \/ Members(c, g) = {} /\ Save(SetTag(GetAcl(c, i), i, g))
              \/ \E model \in Members(c, g) : Save(JoinGroup(c, i, g, model))

AgInitDel(g, i, type) ==
    LET c == GetTpg(cfs)
    IN  \/ type # "iscsi" /\ Reply(cfs, "NO_SUPPORT")
        \/ type = "iscsi" /\ i \notin Members(c, g) /\ Reply(c, "ok")
        \/ type = "iscsi" /\ i \in Members(c, g) /\ Save(DeleteAcls(c, {i}))

\* Slip: None is passed on as a LUN id.
HostLunIdsNone(c, v, h) == {h}

\* The host LUN ids a call may end up with: the one asked for, or any id no
\* initiator sees this volume at.
HostLunIds(c, v, h) ==
    IF h = NoLunId THEN LunIds \ {m[2] : m \in MapsTo(c, v)} ELSE {h}

\* Slip: a LUN id in use is used again.
MapGroupClash(c, v, g, l) ==
    l # BadLunId /\ Save(AddMaps(c, Members(c, g) \X {l} \X {v}))

\* Slip: every NodeACL with the id free is mapped, of whatever group.
MapGroupAll(c, v, g, l) ==
    l # BadLunId /\ Save(AddMaps(c, {i \in c.acl : ~LunTaken(c, i, l)} \X {l} \X {v}))

\* NodeACLGroup.mapped_lun_group: one mapped LUN per member, in some order,
\* until a member has the id in use.  Those mapped until then stay mapped, and
\* nothing is saved.
MapGroup(c, v, g, l) ==
    LET clash == {i \in Members(c, g) : LunTaken(c, i, l)}
    IN  \/ l = BadLunId /\ Reply(c, "ERROR")
        \/ l # BadLunId /\ clash = {} /\ Save(AddMaps(c, Members(c, g) \X {l} \X {v}))
        \/ /\ clash # {}
           /\ \E done \in SUBSET (Members(c, g) \ clash) :
                  Reply(AddMaps(c, done \X {l} \X {v}), "ERROR")

\* A group's mapped LUNs are read off its first member, whichever that is.
AgMapCreate(v, g, h) ==
    LET c == EnableTpg(cfs)
        d == TpgLunOf(c, v)
    IN  \/ TpgLunOfFails(c, v)
        \/ HasTpgLun(v) /\ Members(c, g) = {} /\ Reply(d, "NOT_FOUND_ACCESS_GROUP")
        \/ /\ HasTpgLun(v)
           /\ \E first \in Members(c, g) :
                \/ MapsOf(c, first) \cap MapsTo(c, v) # {} /\ Reply(d, "ok")
                \/ /\ MapsOf(c, first) \cap MapsTo(c, v) = {}
                   /\ \/ HostLunIds(c, v, h) = {} /\ Reply(d, "NO_FREE_HOST_LUN_ID")
                      \/ \E l \in HostLunIds(c, v, h) : MapGroup(d, v, g, l)

\* Slip: only the first member's mapping is deleted.
AgMapDestroyFirst(v, g) ==
    \E first \in Members(cfs, g) : Save(DeleteMaps(cfs, MapsOf(cfs, first) \cap MapsTo(cfs, v)))

AgMapDestroy(v, g) ==
    LET c == GetTpg(cfs)
        d == TpgLunOf(c, v)
        ids(first) == {m[2] : m \in MapsOf(c, first) \cap MapsTo(c, v)}
    IN  \/ TpgLunOfFails(c, v)
        \/ HasTpgLun(v) /\ Members(c, g) = {} /\ Save(DropUnmapped(d, v))
        \/ /\ HasTpgLun(v)
           /\ \E first \in Members(c, g) :
                Save(DropUnmapped(DeleteMaps(d, Members(c, g) \X ids(first) \X Vols), v))

-----------------------------------------------------------------------------
(* The machine reboots: the boot restores the saved configuration.         *)

Reboot ==
    /\ cfs' = Restore(saved, Existing)
    /\ reply' = "boot"
    /\ UNCHANGED <<vol, gen, saved, lost>>

-----------------------------------------------------------------------------
(* Two records the properties need and the calls never read.               *)

RightsOf(c, i) == [map |-> MapsOf(c, i), chap |-> c.chap[i], group |-> c.tag[i]]

\* A change of mappings may have made the group and volume of `pair` uneven; a
\* group without members, in the saved tree too, is even.
Mark(pair) ==
    uneven' = {p \in IF cfs'.map = cfs.map THEN uneven ELSE uneven \cup pair :
                  p[1] \in GroupNames(cfs') \cup GroupNames(saved')}

\* A call that raises half way may have changed the rights of some of S.
Note(S) ==
    unsaved' = IF saved' = cfs' THEN {}
               ELSE unsaved \cup {i \in S : /\ reply' = "ERROR"
                                            /\ RightsOf(cfs', i) # RightsOf(cfs, i)}

-----------------------------------------------------------------------------
AnyVol == Vols \cup {Stray}

VolCall ==
    /\ \E v \in AnyVol :
          \/ \E size \in Sizes : VolCreate(v, size) \/ VolResize(v, size)
          \/ VolDestroy(v)
          \/ \E new \in Vols, size \in Sizes \cup {NoSize} : VolCopy(v, new, size)
    /\ Mark({}) /\ Note({})

ExportCall ==
    \E i \in ExportInits, v \in AnyVol :
        /\ (\E l \in LunIds \cup {BadLunId} : ExportCreate(v, i, l)) \/ ExportDestroy(v, i)
        /\ Mark({<<cfs.tag[i], v>>}) /\ Note({})

AuthCall ==
    \E i \in AuthInits :
        (\E on \in BOOLEAN : InitiatorSetAuth(i, on)) /\ Mark({}) /\ Note({i})

GroupCall ==
    /\ \E g \in Groups :
          \/ \E i \in AgInits, type \in InitTypes :
                AgCreate(g, i, type) \/ AgInitAdd(g, i, type) \/ AgInitDel(g, i, type)
          \/ AgDestroy(g)
          \/ \E v \in AnyVol : AgMapDestroy(v, g)
    /\ Mark({}) /\ Note({})

MapCall ==
    \E g \in Groups, v \in AnyVol :
        /\ \E h \in LunIds \cup {NoLunId, BadLunId} : AgMapCreate(v, g, h)
        /\ Mark(IF reply' = "ERROR" THEN {<<g, v>>} ELSE {}) /\ Note(Members(cfs, g))

ListOrReboot ==
    /\ \/ ListCall /\ Note({})
       \/ Reboot /\ unsaved' = {}
    /\ Mark({})

Next == VolCall \/ ExportCall \/ AuthCall \/ GroupCall \/ MapCall \/ ListOrReboot

Spec == Init /\ [][Next]_vars

-----------------------------------------------------------------------------
(* What has to be true.                                                    *)

StateOK ==
    /\ vol \in [Vols -> Sizes \cup {0}]
    /\ gen \in [Vols -> 0 .. MaxGen]
    /\ cfs \in Cfs
    /\ saved \in Cfs
    /\ reply \in Codes
    /\ lost \in 0 .. MaxLost

TypeOK == StateOK /\ uneven \subseteq Groups \X AnyVol /\ unsaved \subseteq Initiators

\* Whatever calls, failed calls, lost saves and reboots came before, no
\* initiator is shown a volume that is gone: vol_destroy's check of the LUNs
\* covers every mapping, and each storage object has its device.
NoDanglingExport ==
    /\ Rooted(cfs)
    /\ StorageObjects(cfs) \subseteq Existing

\* The LUN ids initiator i sees volume v at.
IdsOf(c, i, v) == {m[2] : m \in MapsOf(c, i) \cap MapsTo(c, v)}

\* Initiators of one access group see a volume at the same LUN ids, also in the
\* tree the next reboot restores, unless since the group has members that volume
\* was exported to, or withdrawn from, a single one of them, or an
\* access_group_map_create of it failed half way.  What is done to one volume of
\* a group so never spreads to another.
GroupUniform ==
    \A c \in {cfs, saved} : \A i, j \in c.acl :
        c.tag[i] = c.tag[j] /\ c.tag[i] # NoTag =>
            \A v \in Vols : <<c.tag[i], v>> \notin uneven => IdsOf(c, i, v) = IdsOf(c, j, v)

\* The identity initiators see of a volume (so.wwn, "vpd83 info") is never that
\* of a volume of the name destroyed before: it is the volume's own, or one rtslib
\* made up and no volume has.  Only a lost save lets a reboot bring an old one back.
SoWwnNeverStale ==
    lost = 0 => \A v \in StorageObjects(cfs) : cfs.wwn[v] \in {gen[v], Generated}

\* A LUN id shows an initiator one volume.
OneVolumePerLun ==
    \A m, n \in cfs.map : m[1] = n[1] /\ m[2] = n[2] => m = n

\* As long as no save is lost, a reboot at any moment shows nobody more than
\* before, and gives everybody their mappings, membership and credentials back,
\* except those whom an initiator_set_auth or an access_group_map_create that
\* failed half way concerned since the last save.
RebootKeepsRights ==
    LET restored == Restore(saved, Existing)
    IN  lost = 0 =>
            /\ restored.map \subseteq cfs.map
            /\ \A i \in Initiators \ unsaved : RightsOf(restored, i) = RightsOf(cfs, i)

\* A call that answers with an error takes no volume and no membership from
\* anybody, and changes the credentials of one initiator at most; with one of
\* targetd's own errors it has changed no right at all, whatever NodeACLs, LUNs
\* and storage objects it made.
FailedCallRevokesNothing ==
    [][reply' \notin {"ok", "lost", "boot"} =>
           /\ cfs.map \subseteq cfs'.map
           /\ cfs.tag = cfs'.tag /\ cfs.acl \subseteq cfs'.acl
           /\ \A i, j \in Initiators :
                  cfs.chap[i] # cfs'.chap[i] /\ cfs.chap[j] # cfs'.chap[j] => i = j
           /\ reply' # "ERROR" => cfs.map = cfs'.map /\ cfs.chap = cfs'.chap]_vars

\* No call takes a volume from a bystander: what one step takes away, it takes
\* from one initiator or from the members of one group ("delete unused tpg lun
\* mappings" deletes no used one).
LossIsLocal ==
    [][LET losers == {m[1] : m \in cfs.map \ cfs'.map}
       IN  losers # {} /\ reply' # "boot" =>
               \/ \E i \in Initiators : losers \subseteq {i}
               \/ \E g \in Groups : losers \subseteq Members(cfs, g)]_vars

\* No call shows a volume to a bystander, when it fails half way neither: it shows
\* one volume that exists at one LUN id to one initiator or to members of one
\* group, or to a group's newcomer what a member sees.
GainIsLocal ==
    [][LET gained == cfs'.map \ cfs.map
       IN  gained # {} /\ reply' # "boot" =>
               \/ \E l \in LunIds, v \in Existing :
                      \/ \E i \in Initiators : gained = {<<i, l, v>>}
                      \/ \E g \in Groups : gained \subseteq Members(cfs, g) \X {l} \X {v}
               \/ \E i \in Initiators \ cfs.acl, g \in Groups :
                      \E model \in Members(cfs, g) :
                          gained = {<<i, m[2], m[3]>> : m \in MapsOf(cfs, model)}]_vars

\* All of this is a set of volumes, who may reach them, and what was last kept
\* of it; groups come in only where their members were treated singly.
Durable == INSTANCE DurableMasking
    WITH vols   <- Existing,
         access <- {<<m[1], m[3]>> : m \in cfs.map},
         kept   <- {<<m[1], m[3]>> : m \in saved.map},
         group  <- cfs.tag

ImplementsDurableMasking == Durable!DurableSpec

-----------------------------------------------------------------------------
(* What the documents say and the code does not do.                        *)

\* "If LUN is not masked to any access group or initiator remove LUN
\* instance": a LUN, which vol_destroy refuses a volume for, is in use.
LunMeansExported == \A v \in cfs.luns : MapsTo(cfs, v) # {}

\* access_group_map_create without an h_lun_id, of a volume that has its LUN,
\* fails for want of an id only when the group's members have no id left ("the
\* next available one").
AutoLunFindsFreeId ==
    [][\A v \in cfs.luns, g \in Groups :
           HasTpgLun(v) /\ AgMapCreate(v, g, NoLunId) /\ reply' = "ERROR" =>
               \A l \in LunIds : \E i \in Members(cfs, g) : LunTaken(cfs, i, l)]_vars

=============================================================================
