--------------------------- MODULE LvmPoolsProofs ---------------------------
(***************************************************************************)
(* Theorems about LvmPools, for any volume groups, thin pools, names and   *)
(* configurations.                                                         *)
(***************************************************************************)
EXTENDS LvmPools, TLAPS

\* The dictionary has one of the pools of each volume group.
DictTyped == vg_name_2_pool_name_dict \in DictOf(pools)

Inv == TypeOK /\ DictTyped /\ LunsShowVolumes /\ MappedOnce

-----------------------------------------------------------------------------
(* What a call does to the volumes.                                        *)

Made(p, n) ==
    /\ lv[p.vg][n] = "none"
    /\ \E kind \in {"linear"} \cup ThinPools : lv' = [lv EXCEPT ![p.vg][n] = kind]
    /\ UNCHANGED <<luns, maps>>

Removed(p, n) ==
    /\ lv[p.vg][n] = Kind(p) /\ <<p.vg, n>> \notin luns
    /\ lv' = [lv EXCEPT ![p.vg][n] = "none"]
    /\ UNCHANGED <<luns, maps>>

\* Every volume call leaves all volumes, makes one where there was none, or
\* removes one of the pool it was called for, which is not exported.
LEMMA VolCallKinds ==
    ASSUME NEW p \in PoolNames, VolCall(p)
    PROVE  /\ reply' \in Codes
           /\ \/ UNCHANGED <<lv, luns, maps>>
              \/ \E n \in LvNames : Made(p, n) \/ Removed(p, n)
<1> USE DEF Fail, PoolError, Codes
<1>1. ASSUME NEW n, NEW kind, NewLv(p, n, kind), kind \in {"linear", Kind(p)}
      PROVE  Made(p, n)
  <2>1. kind \in {"linear"} \cup ThinPools
    BY <1>1 DEF Kind, PoolNames
  <2> QED BY <1>1, <2>1 DEF NewLv, Taken, Made
<1>2. ASSUME NEW n \in LvNames, VolCreate(p, n)
      PROVE  reply' \in Codes /\ (UNCHANGED <<lv, luns, maps>> \/ Made(p, n))
  BY <1>1, <1>2 DEF VolCreate
<1>3. ASSUME NEW n \in LvNames, VolDestroy(p, n)
      PROVE  reply' \in Codes /\ (UNCHANGED <<lv, luns, maps>> \/ Removed(p, n))
  BY <1>3 DEF VolDestroy, RemoveLv, Removed, Listed
<1>4. ASSUME NEW n \in LvNames, NEW new \in LvNames, VolCopy(p, n, new)
      PROVE  reply' \in Codes /\ (UNCHANGED <<lv, luns, maps>> \/ Made(p, new))
  BY <1>1, <1>4 DEF VolCopy
<1>5. ASSUME NEW n \in LvNames, VolResize(p, n)
      PROVE  reply' \in Codes /\ UNCHANGED <<lv, luns, maps>>
  BY <1>5 DEF VolResize
<1> QED BY <1>2, <1>3, <1>4, <1>5 DEF VolCall

\* Two pools of one volume group have volumes of different kinds.
LEMMA KindsDiffer ==
    ASSUME NEW p \in PoolNames, NEW q \in PoolNames, p.vg = q.vg, Kind(p) = Kind(q)
    PROVE  p = q
<1>1. p.thin = q.thin
  BY NamesAssumption DEF Kind, PoolNames
<1> QED BY <1>1 DEF PoolNames

-----------------------------------------------------------------------------
(* The invariant.                                                          *)

LEMMA InitInv == Init => Inv
<1> SUFFICES ASSUME Init PROVE Inv
  OBVIOUS
<1>1. pools \subseteq PoolNames
  BY ConfigsAssumption DEF Init
<1>2. vg_name_2_pool_name_dict \in [{p.vg : p \in pools} -> PoolNames]
  BY <1>1 DEF Init, DictOf
<1>3. lv \in [VGs -> [LvNames -> {"none", "linear", "pool"} \cup ThinPools]]
  BY DEF Init
<1>4. \A v \in VGs, t \in ThinPools : lv[v][t] = "pool"
  BY DEF Init, LvNames
<1>5. asked \in PoolNames /\ reply \in Codes
  BY <1>1 DEF Init, Codes
<1> QED BY <1>1, <1>2, <1>3, <1>4, <1>5
        DEF Init, Inv, TypeOK, DictTyped, LunsShowVolumes, MappedOnce

LEMMA MadeInv ==
    ASSUME Inv, NEW p \in PoolNames, NEW n \in LvNames, Made(p, n)
    PROVE  /\ lv' \in [VGs -> [LvNames -> {"none", "linear", "pool"} \cup ThinPools]]
           /\ \A v \in VGs, t \in ThinPools : lv'[v][t] = "pool"
           /\ LunsShowVolumes'
<1>1. PICK kind \in {"linear"} \cup ThinPools : lv' = [lv EXCEPT ![p.vg][n] = kind]
  BY DEF Made
<1>2. p.vg \in VGs
  BY DEF PoolNames
<1>3. \A v \in VGs, m \in LvNames :
        lv'[v][m] = IF v = p.vg /\ m = n THEN kind ELSE lv[v][m]
  BY <1>1, <1>2 DEF Inv, TypeOK
<1>4. lv' \in [VGs -> [LvNames -> {"none", "linear", "pool"} \cup ThinPools]]
  BY <1>1, <1>2 DEF Inv, TypeOK
<1>5. \A v \in VGs, t \in ThinPools : lv'[v][t] = "pool"
  BY <1>2, <1>3 DEF Made, Inv, TypeOK, LvNames
<1>6. LunsShowVolumes'
  <2>1. \A l \in luns : l[1] \in VGs /\ l[2] \in LvNames /\ lv[l[1]][l[2]] \notin {"none", "pool"}
    BY DEF Inv, TypeOK, LunsShowVolumes
  <2>2. \A l \in luns : lv'[l[1]][l[2]] \notin {"none", "pool"}
    BY <2>1, <1>3, NamesAssumption
  <2> QED BY <2>2 DEF Made, Inv, LunsShowVolumes
<1> QED BY <1>4, <1>5, <1>6

LEMMA RemovedInv ==
    ASSUME Inv, NEW p \in PoolNames, NEW n \in LvNames, Removed(p, n)
    PROVE  /\ lv' \in [VGs -> [LvNames -> {"none", "linear", "pool"} \cup ThinPools]]
           /\ \A v \in VGs, t \in ThinPools : lv'[v][t] = "pool"
           /\ LunsShowVolumes'
<1>1. p.vg \in VGs /\ lv' = [lv EXCEPT ![p.vg][n] = "none"]
  BY DEF PoolNames, Removed
<1>2. \A v \in VGs, m \in LvNames :
        lv'[v][m] = IF v = p.vg /\ m = n THEN "none" ELSE lv[v][m]
  BY <1>1 DEF Inv, TypeOK
<1>3. lv' \in [VGs -> [LvNames -> {"none", "linear", "pool"} \cup ThinPools]]
  BY <1>1 DEF Inv, TypeOK
<1>4. n \notin ThinPools
  <2>1. Kind(p) # "pool"
    BY NamesAssumption DEF Kind, PoolNames
  <2> QED BY <1>1, <2>1 DEF Removed, Inv, TypeOK
<1>5. \A v \in VGs, t \in ThinPools : lv'[v][t] = "pool"
  BY <1>2, <1>4 DEF Inv, TypeOK, LvNames
<1>6. LunsShowVolumes'
  <2>1. \A l \in luns : l \in VGs \X LvNames /\ l # <<p.vg, n>>
    BY DEF Removed, Inv, TypeOK
  <2>2. \A l \in luns : l[1] \in VGs /\ l[2] \in LvNames /\ ~(l[1] = p.vg /\ l[2] = n)
    BY <2>1
  <2>3. \A l \in luns : lv'[l[1]][l[2]] = lv[l[1]][l[2]]
    BY <2>2, <1>2
  <2> QED BY <2>3 DEF Removed, Inv, LunsShowVolumes
<1> QED BY <1>3, <1>5, <1>6

LEMMA VolCallInv ==
    ASSUME Inv, NEW p \in PoolNames, VolCall(p), asked' = p,
           UNCHANGED <<pools, vg_name_2_pool_name_dict>>
    PROVE  Inv'
<1>1. reply' \in Codes /\ UNCHANGED <<luns, maps>>
  BY VolCallKinds DEF Made, Removed
<1>2. /\ lv' \in [VGs -> [LvNames -> {"none", "linear", "pool"} \cup ThinPools]]
      /\ \A v \in VGs, t \in ThinPools : lv'[v][t] = "pool"
      /\ LunsShowVolumes'
  <2>1. CASE UNCHANGED <<lv, luns, maps>>
    BY <2>1 DEF Inv, TypeOK, LunsShowVolumes
  <2> QED BY <2>1, VolCallKinds, MadeInv, RemovedInv
<1> QED BY <1>1, <1>2 DEF Inv, TypeOK, DictTyped, MappedOnce, OnlyPool

\* A pool alone in its volume group finds the mappings made through it.
LEMMA OnlyPoolListed ==
    ASSUME Inv, NEW p \in PoolNames, OnlyPool(p)
    PROVE  vg_name_2_pool_name_dict[p.vg] = p
<1>1. vg_name_2_pool_name_dict[p.vg] \in pools /\ vg_name_2_pool_name_dict[p.vg].vg = p.vg
  BY DEF Inv, DictTyped, DictOf, OnlyPool
<1> QED BY <1>1 DEF OnlyPool

LEMMA MapCreateInv ==
    ASSUME Inv, NEW p \in PoolNames, NEW n \in LvNames, AccessGroupMapCreate(p, n),
           asked' = p, UNCHANGED <<pools, vg_name_2_pool_name_dict>>
    PROVE  Inv'
<1>1. CASE PoolError(p) \/ NoDevice(p, n)
  <2>1. UNCHANGED <<lv, luns, maps>> /\ reply' \in Codes
    BY <1>1 DEF PoolError, NoDevice, Fail, Codes
  <2> QED BY <2>1 DEF Inv, TypeOK, DictTyped, LunsShowVolumes, MappedOnce, OnlyPool
<1>2. CASE ~(PoolError(p) \/ NoDevice(p, n))
  <2>1. /\ HasDevice(p, n) /\ luns' = luns \cup {<<p.vg, n>>} /\ lv' = lv
        /\ reply' \in Codes
        /\ \/ maps' = maps
           \/ /\ \A m \in maps : ListedAs(m) # <<p, n>>
              /\ \E id \in LunIds :
                   maps' = maps \cup {[vg |-> p.vg, vol |-> n, lun |-> id, by |-> p]}
    BY <1>2 DEF AccessGroupMapCreate, Codes
  <2>2. p.vg \in VGs
    BY DEF PoolNames
  <2>3. TypeOK'
    <3>1. maps' \subseteq [vg : VGs, vol : LvNames, lun : LunIds, by : PoolNames]
      BY <2>1, <2>2 DEF Inv, TypeOK
    <3> QED BY <2>1, <2>2, <3>1 DEF Inv, TypeOK
  <2>4. LunsShowVolumes'
    BY <2>1 DEF HasDevice, Inv, LunsShowVolumes
  <2>5. MappedOnce'
    <3>1. CASE maps' = maps
      BY <3>1 DEF Inv, MappedOnce, OnlyPool
    <3>2. ASSUME NEW id \in LunIds, \A m \in maps : ListedAs(m) # <<p, n>>,
                 maps' = maps \cup {[vg |-> p.vg, vol |-> n, lun |-> id, by |-> p]}
          PROVE  MappedOnce'
      <4>1. OnlyPool(p) => \A m \in maps : ~(m.vg = p.vg /\ m.vol = n)
        BY <3>2, OnlyPoolListed DEF ListedAs
      <4> QED BY <3>2, <4>1 DEF Inv, MappedOnce, OnlyPool
    <3> QED BY <2>1, <3>1, <3>2
  <2> QED BY <2>3, <2>4, <2>5 DEF Inv, DictTyped
<1> QED BY <1>1, <1>2

LEMMA MapDestroyInv ==
    ASSUME Inv, NEW p \in PoolNames, NEW n \in LvNames, AccessGroupMapDestroy(p, n),
           asked' = p, UNCHANGED <<pools, vg_name_2_pool_name_dict>>
    PROVE  Inv'
<1>1. /\ lv' = lv /\ reply' \in Codes
      /\ \/ UNCHANGED <<luns, maps>>
         \/ /\ luns' = luns \ {<<p.vg, n>>}
            /\ maps' = {m \in maps : ~(m.vg = p.vg /\ m.vol = n)}
  BY DEF AccessGroupMapDestroy, PoolError, NoDevice, Fail, Codes
<1>2. LunsShowVolumes'
  BY <1>1 DEF Inv, LunsShowVolumes
<1> QED BY <1>1, <1>2 DEF Inv, TypeOK, DictTyped, MappedOnce, OnlyPool

LEMMA NextInv == Inv /\ [Next]_vars => Inv'
<1> SUFFICES ASSUME Inv, [Next]_vars PROVE Inv'
  OBVIOUS
<1>1. CASE UNCHANGED vars
  BY <1>1 DEF vars, Inv, TypeOK, DictTyped, LunsShowVolumes, MappedOnce, OnlyPool
<1> QED BY <1>1, VolCallInv, MapCreateInv, MapDestroyInv DEF Next, MapCall

THEOREM InvHolds == Spec => []Inv
  BY InitInv, NextInv, PTL DEF Spec

\* Every reachable state has its type, and no call destroys a thin pool, which is
\* a logical volume that lvremove would take.
THEOREM PoolsTyped == Spec => []TypeOK
<1>1. Inv => TypeOK
  BY DEF Inv
<1> QED BY <1>1, InvHolds, PTL

\* Whatever pools share a volume group, what is exported is there.
THEOREM ExportsShowVolumes == Spec => []LunsShowVolumes
<1>1. Inv => LunsShowVolumes
  BY DEF Inv
<1> QED BY <1>1, InvHolds, PTL

\* Calling access_group_map_create again makes no second mapping, if the pool
\* has its volume group to itself: then lvm.py:126 has its name.
THEOREM NoSecondMapping == Spec => []MappedOnce
<1>1. Inv => MappedOnce
  BY DEF Inv
<1> QED BY <1>1, InvHolds, PTL

\* A volume goes only by a call for its own pool, in any configuration.
THEOREM OtherPoolsKept == Spec => CallsStayInPool
<1>1. ASSUME Inv, [Next]_vars
      PROVE  [\A p \in PoolNames, n \in LvNames :
                lv[p.vg][n] = Kind(p) /\ lv'[p.vg][n] # Kind(p) => asked' = p]_vars
  <2>1. ASSUME NEW q \in PoolNames, VolCall(q), asked' = q,
               NEW p \in PoolNames, NEW n \in LvNames,
               lv[p.vg][n] = Kind(p), lv'[p.vg][n] # Kind(p)
        PROVE  p = q
    <3>1. PICK m \in LvNames : Made(q, m) \/ Removed(q, m)
      BY <2>1, VolCallKinds
    <3>2. p.vg \in VGs /\ q.vg \in VGs
      BY DEF PoolNames
    <3>3. p.vg = q.vg /\ n = m
      <4>1. PICK kind : lv' = [lv EXCEPT ![q.vg][m] = kind]
        BY <3>1 DEF Made, Removed
      <4>2. \A v \in VGs, l \in LvNames : ~(v = q.vg /\ l = m) => lv'[v][l] = lv[v][l]
        BY <3>2, <4>1 DEF Inv, TypeOK
      <4> QED BY <2>1, <3>2, <4>2
    <3>4. Kind(p) # "none"
      BY NamesAssumption DEF Kind, PoolNames
    <3>5. Kind(p) = Kind(q)
      BY <2>1, <3>1, <3>3, <3>4 DEF Made, Removed
    <3> QED BY <3>3, <3>5, KindsDiffer
  <2>2. ASSUME NEW q \in PoolNames, MapCall(q) PROVE lv' = lv
    BY <2>2 DEF MapCall, AccessGroupMapCreate, AccessGroupMapDestroy, PoolError,
                NoDevice, Fail
  <2> QED BY <1>1, <2>1, <2>2 DEF Next, vars
<1> QED BY <1>1, InvHolds, PTL DEF Spec, CallsStayInPool

-----------------------------------------------------------------------------
(* LvmPools implements Masking.                                            *)

There == {x \in VGs \X LvNames : lv[x[1]][x[2]] \notin {"none", "pool"}}
Reached == {<<"member", <<m.vg, m.vol>>>> : m \in maps}

\* One name of one group changes.
LEMMA LvChange ==
    ASSUME Inv, NEW p \in PoolNames, NEW n \in LvNames,
           NEW kind \in {"none", "linear"} \cup ThinPools,
           lv' = [lv EXCEPT ![p.vg][n] = kind]
    PROVE  /\ <<p.vg, n>> \in VGs \X LvNames
           /\ kind = "none" => There' = There \ {<<p.vg, n>>}
           /\ kind # "none" => There' = There \cup {<<p.vg, n>>}
<1>1. p.vg \in VGs /\ kind # "pool"
  BY NamesAssumption DEF PoolNames
<1>2. \A x \in VGs \X LvNames :
        lv'[x[1]][x[2]] = IF x = <<p.vg, n>> THEN kind ELSE lv[x[1]][x[2]]
  BY <1>1 DEF Inv, TypeOK
<1> QED BY <1>1, <1>2 DEF There

\* A call makes or destroys a volume by the pool's name that nobody reaches, ...
LEMMA VolCallMasked ==
    ASSUME Inv, NEW p \in PoolNames, VolCall(p)
    PROVE  [Promise!Next]_(Promise!vars)
<1>1. ASSUME NEW n \in LvNames, Made(p, n)
      PROVE  Promise!Create(<<p.vg, n>>) /\ <<p.vg, n>> \in VGs \X LvNames
  <2>1. PICK kind \in {"linear"} \cup ThinPools : lv' = [lv EXCEPT ![p.vg][n] = kind]
    BY <1>1 DEF Made
  <2>2. kind # "none" /\ kind \in {"none", "linear"} \cup ThinPools
    BY <2>1, NamesAssumption
  <2>3. There' = There \cup {<<p.vg, n>>} /\ <<p.vg, n>> \in VGs \X LvNames
    BY <2>1, <2>2, LvChange
  <2>4. <<p.vg, n>> \notin There /\ maps' = maps
    BY <1>1 DEF Made, There
  <2> QED BY <2>3, <2>4 DEF Promise!Create, There
<1>2. ASSUME NEW n \in LvNames, Removed(p, n)
      PROVE  Promise!Destroy(<<p.vg, n>>) /\ <<p.vg, n>> \in VGs \X LvNames
  <2>1. There' = There \ {<<p.vg, n>>} /\ <<p.vg, n>> \in VGs \X LvNames /\ maps' = maps
    BY <1>2, LvChange DEF Removed
  <2>2. <<p.vg, n>> \in There
    <3>1. Kind(p) \notin {"none", "pool"}
      BY NamesAssumption DEF Kind, PoolNames
    <3> QED BY <1>2, <2>1, <3>1 DEF Removed, There
  <2>3. \A m \in maps : <<m.vg, m.vol>> # <<p.vg, n>>
    BY <1>2 DEF Removed, Inv, LunsShowVolumes
  <2>4. \A i \in {"member"} : <<i, <<p.vg, n>>>> \notin Reached
    BY <2>3 DEF Reached
  <2> QED BY <2>1, <2>2, <2>4 DEF Promise!Destroy, There, Reached
<1>3. CASE UNCHANGED <<lv, luns, maps>>
  BY <1>3 DEF Promise!vars
<1> QED BY <1>1, <1>2, <1>3, VolCallKinds DEF Promise!Next

\* ... maps a volume that is there, or unmaps one, as often as it was mapped.
LEMMA MapCallMasked ==
    ASSUME Inv, NEW p \in PoolNames, MapCall(p)
    PROVE  [Promise!Next]_(Promise!vars)
<1>1. PICK n \in LvNames : AccessGroupMapCreate(p, n) \/ AccessGroupMapDestroy(p, n)
  BY DEF MapCall
<1>2. /\ lv' = lv
      /\ \/ maps' = maps
         \/ /\ HasDevice(p, n)
            /\ \E id : maps' = maps \cup {[vg |-> p.vg, vol |-> n, lun |-> id, by |-> p]}
         \/ maps' = {m \in maps : ~(m.vg = p.vg /\ m.vol = n)}
  BY <1>1 DEF AccessGroupMapCreate, AccessGroupMapDestroy, PoolError, NoDevice, Fail
<1>3. <<p.vg, n>> \in VGs \X LvNames /\ There' = There
  BY <1>2 DEF PoolNames, There
<1>4. CASE maps' = maps
  BY <1>2, <1>4 DEF Promise!vars
<1>5. ASSUME HasDevice(p, n), NEW id,
             maps' = maps \cup {[vg |-> p.vg, vol |-> n, lun |-> id, by |-> p]}
      PROVE  Promise!Grant({"member"}, <<p.vg, n>>)
  <2>1. <<p.vg, n>> \in There
    BY <1>3, <1>5 DEF HasDevice, There
  <2>2. Reached' = Reached \cup ({"member"} \X {<<p.vg, n>>})
    <3>1. {"member"} \X {<<p.vg, n>>} = {<<"member", <<p.vg, n>>>>}
      OBVIOUS
    <3> DEFINE new == [vg |-> p.vg, vol |-> n, lun |-> id, by |-> p]
    <3>2. maps' = maps \cup {new} /\ new.vg = p.vg /\ new.vol = n
      BY <1>5
    <3> HIDE DEF new
    <3> QED BY <3>1, <3>2 DEF Reached
  <2> QED BY <1>3, <2>1, <2>2 DEF Promise!Grant, There, Reached
<1>6. CASE maps' = {m \in maps : ~(m.vg = p.vg /\ m.vol = n)}
  <2>1. Reached' = Reached \ ({"member"} \X {<<p.vg, n>>})
    <3>1. {"member"} \X {<<p.vg, n>>} = {<<"member", <<p.vg, n>>>>}
      OBVIOUS
    <3> QED BY <1>6, <3>1 DEF Reached
  <2>2. Promise!Revoke({"member"}, <<p.vg, n>>)
    BY <1>3, <2>1 DEF Promise!Revoke, There, Reached
  <2> QED BY <1>3, <2>2 DEF Promise!Next, Promise!Rearrange
<1> QED BY <1>2, <1>3, <1>4, <1>5, <1>6 DEF Promise!Next, Promise!Rearrange

\* Pools that share a group's names, thin pools among the names, and calls for
\* pools that are not configured make no difference, for any volume groups, thin
\* pools and accepted configuration: volumes, and which of them are reached.
THEOREM PoolsAreMasking == Spec => ImplementsMasking
<1>1. Init => Promise!Init
  <2> SUFFICES ASSUME Init PROVE Promise!Init
    OBVIOUS
  <2>1. \A x \in VGs \X LvNames : lv[x[1]][x[2]] \in {"none", "pool"}
    BY DEF Init
  <2>2. maps = {}
    BY DEF Init
  <2> QED BY <2>1, <2>2 DEF Promise!Init
<1>2. ASSUME Inv, [Next]_vars
      PROVE  [Promise!Next]_(Promise!vars)
  <2>1. CASE UNCHANGED vars
    BY <2>1 DEF vars, Promise!vars
  <2> QED BY <1>2, <2>1, VolCallMasked, MapCallMasked DEF Next
<1> QED BY <1>1, <1>2, InvHolds, PTL DEF Spec, ImplementsMasking, Promise!Spec
=============================================================================
