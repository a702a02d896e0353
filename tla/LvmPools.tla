------------------------------ MODULE LvmPools ------------------------------
(***************************************************************************)
(* targetd/backends/lvm.py with several pools: volume groups, or thin      *)
(* pools written vg/pool, of which one volume group may have more than     *)
(* one.  The names of all logical volumes of a group are one name space,   *)
(* in which the thin pools themselves lie.  Volumes are named by pool and  *)
(* name in the calls, by group and name in the kernel's target and in the  *)
(* mappings to one access group, which block.py asks lvm.py to translate.  *)
(***************************************************************************)
EXTENDS Naturals, FiniteSets

CONSTANTS
    VGs,        \* volume groups
    ThinPools,  \* the names of the thin pools that each group has
    VolNames,   \* names in the volume calls
    NoPool,     \* the thin pool part of a pool that is a volume group
    LunIds,
    Configs     \* the configurations of the block pools there may be

ASSUME NoPoolAssumption == NoPool \notin ThinPools
ASSUME NamesAssumption == {"none", "linear", "pool"} \cap ThinPools = {}

VARIABLES
    pools,      \* block_pools of the configuration
    vg_name_2_pool_name_dict,
    lv,         \* what each name is in each volume group
    luns,       \* the volumes, by volume group and name, with a LUN in the target
    maps,       \* the mappings: volume group, volume, LUN id, and the pool name of
                \* the call that made it
    reply,      \* how the last call ended
    asked       \* the pool that call was for

vars == <<pools, vg_name_2_pool_name_dict, lv, luns, maps, reply, asked>>

\* What a caller may write: known or not, get_vg_lv splits it.
PoolNames == [vg : VGs, thin : ThinPools \cup {NoPool}]

ASSUME ConfigsAssumption == Configs \subseteq SUBSET PoolNames

LvNames == VolNames \cup ThinPools

\* check_pools_access: a group and a thin pool of it exclude each other.
Accepted(config) == \A p, q \in config : p.vg = q.vg /\ p # q => p.thin # NoPool

\* Slip: the dictionary gives the volume group for the name of the pool.
DictOfGroups(config) ==
    {[v \in {p.vg : p \in config} |-> [vg |-> v, thin |-> NoPool]]}

\* initialize: of the pools of one group the last one stays in the dictionary.
DictOf(config) ==
    {d \in [{p.vg : p \in config} -> config] : \A v \in DOMAIN d : d[v].vg = v}

\* Thin pools are LVs, and one may have a name that a caller gives a volume.
Init ==
    /\ pools \in {c \in Configs : Accepted(c)}
    /\ vg_name_2_pool_name_dict \in DictOf(pools)
    /\ lv = [v \in VGs |-> [n \in LvNames |-> IF n \in ThinPools THEN "pool" ELSE "none"]]
    /\ luns = {} /\ maps = {}
    /\ reply = "ok" /\ asked \in pools

-----------------------------------------------------------------------------
Fail(code) == reply' = code /\ UNCHANGED <<lv, luns, maps>>

HasPool(p) == \E q \in pools : q.vg = p.vg

\* What a volume made in p is, unless creating it fell back.
Kind(p) == IF p.thin = NoPool THEN "linear" ELSE p.thin

\* Slip: volumes of all thin pools of the group are listed.
ListedAnyThin(p, n) ==
    IF p.thin = NoPool THEN lv[p.vg][n] = "linear" ELSE lv[p.vg][n] \in ThinPools

\* volumes: what vol_list of p shows.
Listed(p, n) == lv[p.vg][n] = Kind(p)

Taken(p, n) == lv[p.vg][n] # "none"

\* A new LV; LVM refuses a name that its volume group has.
NewLv(p, n, kind) ==
    /\ ~Taken(p, n)
    /\ lv' = [lv EXCEPT ![p.vg][n] = kind]
    /\ UNCHANGED <<luns, maps>>

RemoveLv(p, n) ==
    /\ lv' = [lv EXCEPT ![p.vg][n] = "none"]
    /\ reply' = "ok"
    /\ UNCHANGED <<luns, maps>>

PoolError(p) == ~HasPool(p) /\ Fail("INVALID_POOL")

\* create: a thin volume, or a linear one if that fails (an unknown or full
\* thin pool), or neither.
VolCreate(p, n) ==
    \/ PoolError(p)
    \/ HasPool(p) /\ Listed(p, n) /\ Fail("NAME_CONFLICT")
    \/ HasPool(p) /\ ~Listed(p, n) /\ Fail("INVALID")
    \/ HasPool(p) /\ p.thin # NoPool /\ NewLv(p, n, Kind(p)) /\ reply' = "ok"
    \/ HasPool(p) /\ NewLv(p, n, "linear") /\ reply' = "ok"

\* Slip: check_vol_exists is not asked, and lvremove takes any LV.
VolDestroyAny(p, n) ==
    /\ HasPool(p) /\ Taken(p, n)
    /\ <<p.vg, n>> \notin luns
    /\ RemoveLv(p, n)

\* Slip: the name of the storage object is looked for with the pool's in it.
VolDestroyByPool(p, n) ==
    /\ HasPool(p) /\ Listed(p, n)
    /\ p # vg_name_2_pool_name_dict[p.vg] \/ <<p.vg, n>> \notin luns
    /\ RemoveLv(p, n)

\* block.py looks for the name among the LUNs of the whole volume group.
VolDestroy(p, n) ==
    \/ PoolError(p)
    \/ HasPool(p) /\ ~Listed(p, n) /\ Fail("NOT_FOUND_VOLUME")
    \/ HasPool(p) /\ Listed(p, n) /\ <<p.vg, n>> \in luns /\ Fail("VOLUME_MASKED")
    \/ HasPool(p) /\ Listed(p, n) /\ <<p.vg, n>> \notin luns /\ Fail("INVALID")
    \/ HasPool(p) /\ Listed(p, n) /\ <<p.vg, n>> \notin luns /\ RemoveLv(p, n)

\* copy: a snapshot in the thin pool; it stays if it cannot be grown.
VolCopy(p, n, new) ==
    \/ PoolError(p)
    \/ HasPool(p) /\ ~Listed(p, n) /\ Fail("NOT_FOUND_VOLUME")
    \/ HasPool(p) /\ Listed(p, n) /\ Fail("INVALID_ARGUMENT")     \* not larger
    \/ HasPool(p) /\ Listed(p, n) /\ Listed(p, new) /\ Fail("NAME_CONFLICT")
    \/ /\ HasPool(p) /\ Listed(p, n) /\ ~Listed(p, new)
       /\ \/ p.thin = NoPool /\ Fail("INVALID")
          \/ p.thin # NoPool /\ Fail("UNEXPECTED_EXIT_CODE")
          \/ /\ p.thin # NoPool
             /\ NewLv(p, new, Kind(p))
             /\ reply' \in {"ok", "UNEXPECTED_EXIT_CODE"}

\* resize: sizes are not modelled, only which volume it takes.
VolResize(p, n) ==
    \/ PoolError(p)
    \/ HasPool(p) /\ ~Listed(p, n) /\ Fail("NOT_FOUND_VOLUME")
    \/ /\ HasPool(p) /\ Listed(p, n)
       /\ \E code \in {"ok", "INVALID_ARGUMENT", "UNEXPECTED_EXIT_CODE"} : Fail(code)

-----------------------------------------------------------------------------
(* Mappings to one access group with one member.                           *)

IdsInUse == {m.lun : m \in maps}

\* What access_group_map_list shows of a mapping: where its volume seems to be.
ListedAs(m) == <<vg_name_2_pool_name_dict[m.vg], m.vol>>

\* vol_info looks in the group, whichever pool the volume is of; a thin pool has
\* no device to export.
NoDevice(p, n) == HasPool(p) /\ lv[p.vg][n] \in {"none", "pool"} /\ Fail("INVALID")
HasDevice(p, n) == HasPool(p) /\ lv[p.vg][n] \notin {"none", "pool"}

\* The LUN is made first.  There may be no such group, or the LUN id, the
\* caller's or the one chosen, may be taken.
AccessGroupMapCreate(p, n) ==
    \/ PoolError(p)
    \/ NoDevice(p, n)
    \/ /\ HasDevice(p, n)
       /\ luns' = luns \cup {<<p.vg, n>>}
       /\ \/ /\ \E m \in maps : ListedAs(m) = <<p, n>>
             /\ reply' = "ok"
             /\ UNCHANGED maps
          \/ /\ \A m \in maps : ListedAs(m) # <<p, n>>
             /\ \/ reply' = "NOT_FOUND_ACCESS_GROUP" /\ UNCHANGED maps
                \/ IdsInUse # {} /\ reply' = "INVALID" /\ UNCHANGED maps
                \/ \E id \in LunIds \ IdsInUse :
                     /\ maps' = maps \cup {[vg |-> p.vg, vol |-> n, lun |-> id, by |-> p]}
                     /\ reply' = "ok"
       /\ UNCHANGED lv

AccessGroupMapDestroy(p, n) ==
    \/ PoolError(p)
    \/ NoDevice(p, n)
    \/ /\ HasDevice(p, n)
       /\ luns' = luns \ {<<p.vg, n>>}
       /\ maps' = {m \in maps : ~(m.vg = p.vg /\ m.vol = n)}
       /\ reply' = "ok"
       /\ UNCHANGED lv

-----------------------------------------------------------------------------
VolCall(p) ==
    \E n \in LvNames :
        \/ VolCreate(p, n) \/ VolDestroy(p, n) \/ VolResize(p, n)
        \/ \E new \in LvNames : VolCopy(p, n, new)

MapCall(p) ==
    \E n \in LvNames : AccessGroupMapCreate(p, n) \/ AccessGroupMapDestroy(p, n)

Next ==
    /\ \E p \in PoolNames : (VolCall(p) \/ MapCall(p)) /\ asked' = p
    /\ UNCHANGED <<pools, vg_name_2_pool_name_dict>>

Spec == Init /\ [][Next]_vars

-----------------------------------------------------------------------------
(* Properties.                                                             *)

Codes == {"ok", "INVALID", "INVALID_POOL", "INVALID_ARGUMENT", "NAME_CONFLICT",
          "NOT_FOUND_VOLUME", "VOLUME_MASKED", "UNEXPECTED_EXIT_CODE",
          "NOT_FOUND_ACCESS_GROUP"}

\* Types; the thin pools, logical volumes like others, stay what they are.
TypeOK ==
    /\ pools \subseteq PoolNames
    /\ vg_name_2_pool_name_dict \in [{p.vg : p \in pools} -> PoolNames]
    /\ lv \in [VGs -> [LvNames -> {"none", "linear", "pool"} \cup ThinPools]]
    /\ \A v \in VGs, t \in ThinPools : lv[v][t] = "pool"
    /\ luns \subseteq VGs \X LvNames
    /\ maps \subseteq [vg : VGs, vol : LvNames, lun : LunIds, by : PoolNames]
    /\ reply \in Codes /\ asked \in PoolNames

\* A pool's volumes are only destroyed by calls for that pool, though
\* LVM is given nothing but the volume group and the name, and though a group's
\* thin pools, the configured ones and others, share its names.
CallsStayInPool ==
    [][\A p \in PoolNames, n \in LvNames :
          lv[p.vg][n] = Kind(p) /\ lv'[p.vg][n] # Kind(p) => asked' = p]_vars

\* Whichever of its pool names a volume was exported by, it is not destroyed by
\* another: LUNs and mappings show volumes that are there.
LunsShowVolumes ==
    /\ \A l \in luns : lv[l[1]][l[2]] \notin {"none", "pool"}
    /\ \A m \in maps : <<m.vg, m.vol>> \in luns

\* The only configured pool of its volume group.
OnlyPool(p) == p \in pools /\ \A q \in pools : q.vg = p.vg => q = p

\* access_group_map_create can be called again: by a pool that shares its group
\* with no other, a volume is mapped once.
MappedOnce ==
    \A m, o \in maps :
        m.vg = o.vg /\ m.vol = o.vol /\ m.by = o.by /\ OnlyPool(m.by) => m = o

\* Whatever pools there are and whichever of their names calls use, all of this
\* is a set of volumes, by volume group and name, and which of them the group of
\* initiators may reach: no pool's call destroys a volume that is mapped through
\* another, or makes one in the place of another's.
Promise == INSTANCE Masking
    WITH Initiators <- {"member"},
         Vols       <- VGs \X LvNames,
         vols       <- {x \in VGs \X LvNames : lv[x[1]][x[2]] \notin {"none", "pool"}},
         access     <- {<<"member", <<m.vg, m.vol>>>> : m \in maps}

ImplementsMasking == Promise!Spec
=============================================================================
