----------------------------- MODULE MCLvmPools -----------------------------
(***************************************************************************)
(* LvmPools for TLC: any pools of the volume group v, none of w.           *)
(***************************************************************************)
EXTENDS LvmPools, TLC

CONSTANTS v, w

MCVGs == {v, w}
MCConfigs == SUBSET [vg : {v}, thin : ThinPools \cup {NoPool}] \ {{}}
MCSymmetry ==
    Permutations(VolNames) \cup Permutations(ThinPools) \cup Permutations(LunIds)
=============================================================================
