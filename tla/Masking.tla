------------------------------ MODULE Masking ------------------------------
(***************************************************************************)
(* What targetd promises the administrator of a storage appliance, without *)
(* LUNs, portal groups, storage objects, saved files or reboots: a set of  *)
(* volumes, and who may reach which of them.                               *)
(***************************************************************************)
CONSTANTS Initiators, Vols

VARIABLES
    vols,       \* the volumes that exist
    access      \* <<i, v>>: initiator i reaches volume v

vars == <<vols, access>>

Init == vols = {} /\ access = {}

\* vol_create, vol_copy.
Create(v) ==
    /\ v \notin vols
    /\ vols' = vols \cup {v}
    /\ UNCHANGED access

\* vol_destroy: never while an initiator reaches the volume.
Destroy(v) ==
    /\ v \in vols
    /\ \A i \in Initiators : <<i, v>> \notin access
    /\ vols' = vols \ {v}
    /\ UNCHANGED access

\* export_create for one initiator, access_group_map_create for a group.
Grant(S, v) ==
    /\ v \in vols
    /\ access' = access \cup (S \X {v})
    /\ UNCHANGED vols

\* export_destroy, access_group_map_destroy.
Revoke(S, v) ==
    /\ access' = access \ (S \X {v})
    /\ UNCHANGED vols

\* access_group_destroy, access_group_init_del.
Forget(S) ==
    /\ access' = access \ (S \X Vols)
    /\ UNCHANGED vols

\* access_group_init_add: a newcomer reaches what the group reaches.
Join(i, member) ==
    /\ \A v \in Vols : <<i, v>> \notin access
    /\ access' = access \cup {<<i, v>> : v \in {w \in Vols : <<member, w>> \in access}}
    /\ UNCHANGED vols

Rearrange ==
    \/ \E S \in SUBSET Initiators : \E v \in Vols : Grant(S, v) \/ Revoke(S, v)
    \/ \E S \in SUBSET Initiators : Forget(S)
    \/ \E i, member \in Initiators : Join(i, member)

Next == Rearrange \/ \E v \in Vols : Create(v) \/ Destroy(v)

Spec == Init /\ [][Next]_vars

=============================================================================
