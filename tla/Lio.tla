-------------------------------- MODULE Lio --------------------------------
(***************************************************************************)
(* The kernel target's configuration tree, as rtslib_fb shows it to        *)
(* targetd.  rtslib and the kernel are not in this repository: every       *)
(* operator here is external, and says what targetd/block.py relies on.    *)
(*                                                                         *)
(* A tree is one record.  A TPG LUN and a storage object are named by the  *)
(* volume that backs them, because block.py finds both by the storage      *)
(* object's name, which it derives from the volume's.                      *)
(*                                                                         *)
(*   tpg   the target and its portal group 1: "absent", "created", or      *)
(*         "enabled" (with its portals)                                    *)
(*   acl   the initiators that have a NodeACL                              *)
(*   tag   the access group a NodeACL is tagged with, or NoTag             *)
(*   chap  the login credentials of a NodeACL: none, those of one call, or *)
(*         a mixture of those of several                                   *)
(*   luns  the volumes that have a LUN in the portal group                 *)
(*   wwn   the identity a block storage object was given after it was      *)
(*         created, or the one rtslib generated while creating it; 0 where *)
(*         there is no storage object                                      *)
(*   map   the mapped LUNs: <<i, l, v>> shows volume v to i as LUN l       *)
(***************************************************************************)
EXTENDS Naturals

CONSTANTS
    Initiators,     \* initiator names
    Groups,         \* access group names
    Vols,           \* the volume names of one configured block pool
    LunIds,         \* host LUN ids, block.py's 0 .. MAX_LUN
    NoTag,          \* the tag of a NodeACL of no group
    Generated       \* an identity rtslib made up

ASSUME NoTagAssumption == NoTag \notin Groups
ASSUME GeneratedAssumption == Generated \notin Nat

Cfs ==
    [ tpg  : {"absent", "created", "enabled"},
      acl  : SUBSET Initiators,
      tag  : [Initiators -> Groups \cup {NoTag}],
      chap : [Initiators -> {"none", "set", "mixed"}],
      luns : SUBSET Vols,
      wwn  : [Vols -> Nat \cup {Generated}],
      map  : SUBSET (Initiators \X LunIds \X Vols) ]

EmptyCfs ==
    [ tpg  |-> "absent",
      acl  |-> {},
      tag  |-> [i \in Initiators |-> NoTag],
      chap |-> [i \in Initiators |-> "none"],
      luns |-> {},
      wwn  |-> [v \in Vols |-> 0],
      map  |-> {} ]

-----------------------------------------------------------------------------
(* Looking the tree up. *)

StorageObjects(c) == {v \in Vols : c.wwn[v] # 0}

\* NodeACLGroup(tpg, g).wwns
Members(c, g) == {i \in c.acl : c.tag[i] = g}

\* tpg.node_acl_groups: a group exists as long as some NodeACL has its tag.
GroupNames(c) == {c.tag[i] : i \in c.acl} \ {NoTag}

\* na.mapped_luns of a NodeACL, mapped_luns of a TPG LUN.
MapsOf(c, i) == {m \in c.map : m[1] = i}
MapsTo(c, v) == {m \in c.map : m[3] = v}

LunTaken(c, i, l) == \E m \in MapsOf(c, i) : m[2] = l

-----------------------------------------------------------------------------
(* Changing it.  The constructors of rtslib look an object up and create   *)
(* it where it is missing, a MappedLUN excepted: LunTaken says where       *)
(* creating one raises.                                                    *)

GetTpg(c) == IF c.tpg = "absent" THEN [c EXCEPT !.tpg = "created"] ELSE c

EnableTpg(c) == [c EXCEPT !.tpg = "enabled"]

GetAcl(c, i) == [c EXCEPT !.acl = @ \cup {i}]

SetTag(c, i, g) == [c EXCEPT !.tag[i] = g]

GetStorageObject(c, v, id) ==
    IF c.wwn[v] = 0 THEN [c EXCEPT !.wwn[v] = id] ELSE c

GetLun(c, v) == [c EXCEPT !.luns = @ \cup {v}]

AddMaps(c, S) == [c EXCEPT !.map = @ \cup S]

DeleteMaps(c, S) == [c EXCEPT !.map = @ \ S]

\* Deleting a TPG LUN deletes the mapped LUNs that show it.
DeleteLun(c, v) ==
    [c EXCEPT !.luns = @ \ {v}, !.map = @ \ MapsTo(c, v)]

DeleteStorageObject(c, v) == [DeleteLun(c, v) EXCEPT !.wwn[v] = 0]

\* Deleting a NodeACL deletes its mapped LUNs, its tag and its credentials.
DeleteAcls(c, S) ==
    [c EXCEPT !.acl  = @ \ S,
              !.tag  = [i \in Initiators |-> IF i \in S THEN NoTag ELSE @[i]],
              !.chap = [i \in Initiators |-> IF i \in S THEN "none" ELSE @[i]],
              !.map  = {m \in @ : m[1] \notin S}]

\* Deleting the portal group deletes all below it; storage objects are not.
DeleteTpg(c) == [EmptyCfs EXCEPT !.wwn = c.wwn]

\* NodeACLGroup.add_acl: a new NodeACL takes the mapped LUNs of a member.
JoinGroup(c, i, g, model) ==
    AddMaps(SetTag(GetAcl(c, i), i, g),
            {<<i, m[2], m[3]>> : m \in MapsOf(c, model)})

\* What a boot restores of a saved tree: a storage object whose device is
\* gone cannot be created, nor a LUN that needs it.
Restore(c, present) ==
    [c EXCEPT !.luns = @ \cap present,
              !.wwn  = [v \in Vols |-> IF v \in present THEN @[v] ELSE 0],
              !.map  = {m \in @ : m[3] \in present}]

-----------------------------------------------------------------------------
\* A tree hangs together: a mapped LUN has its NodeACL and its TPG LUN, a LUN
\* its storage object, and there is nothing at all without a portal group.
Rooted(c) ==
    /\ \A m \in c.map : m[1] \in c.acl /\ m[3] \in c.luns
    /\ c.luns \subseteq StorageObjects(c)
    /\ c.map # {} => c.tpg = "enabled"
    /\ c.tpg = "absent" => c.acl = {} /\ c.luns = {}

=============================================================================
