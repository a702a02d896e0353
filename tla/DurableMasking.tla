--------------------------- MODULE DurableMasking ---------------------------
(***************************************************************************)
(* Masking on a machine that reboots, whose saves can be lost and whose    *)
(* calls can fail half way.  What a call does to the rights is kept for    *)
(* the next boot, or is lost with its save.  A boot gives back what was    *)
(* kept for the volumes that are there: after a lost save a right long     *)
(* revoked comes back, and it may be one to a new volume of the name.      *)
(*                                                                         *)
(* A group is uneven about a volume that was granted to some of its        *)
(* members only.  The groups themselves are left open here (group changes  *)
(* as it will): what matters is that nothing else makes a group uneven,    *)
(* and that a revocation takes no volume it was not asked to take, except  *)
(* one the group is uneven about.                                          *)
(***************************************************************************)
EXTENDS Masking, Naturals

CONSTANT Groups

VARIABLES
    kept,       \* the rights the next boot restores
    lost,       \* how many saves were lost
    group,      \* the group each initiator is in
    uneven      \* <<g, v>>: g's members may differ about v

DurableInit == Init /\ kept = {} /\ lost = 0 /\ uneven = {}

Keep ==
    \/ kept' = access' /\ UNCHANGED lost
    \/ lost' = lost + 1 /\ UNCHANGED kept

Even == uneven' \subseteq uneven

EvenBut(g, v) == uneven' \subseteq uneven \cup {<<g, v>>}

\* Volumes need no save.
PoolStep ==
    /\ \E v \in Vols : Create(v) \/ Destroy(v)
    /\ Even /\ UNCHANGED <<kept, lost>>

\* A call that saves may have left the rights as they were.
RightsStep == (Rearrange \/ UNCHANGED vars) /\ Even /\ Keep

\* export_create and export_destroy may name a group's member.
SingleStep ==
    \E i \in Initiators, v \in Vols :
        (Grant({i}, v) \/ Revoke({i}, v)) /\ EvenBut(group[i], v) /\ Keep

\* access_group_map_create fails half way: what it granted is not kept.
HalfStep ==
    \E g \in Groups, v \in Vols : \E S \in SUBSET {i \in Initiators : group[i] = g} :
        Grant(S, v) /\ EvenBut(g, v) /\ UNCHANGED <<kept, lost>>

\* access_group_map_destroy goes by the LUN ids of one member: of a volume the
\* group is uneven about it takes what it finds at these ids.
UnevenStep ==
    \E g \in Groups :
        \E X \in SUBSET {a \in Initiators \X Vols : group[a[1]] = g /\ <<g, a[2]>> \in uneven} :
            access' = access \ X /\ UNCHANGED vols /\ Even /\ Keep

\* A group loses its members, and what made it uneven with them.
Reset == Even /\ UNCHANGED <<vars, kept, lost>>

Reboot ==
    /\ access' = {a \in kept : a[2] \in vols}
    /\ Even /\ UNCHANGED <<vols, kept, lost>>

DurableNext ==
    \/ Reset \/ Reboot \/ PoolStep \/ RightsStep \/ SingleStep \/ HalfStep \/ UnevenStep

DurableSpec == DurableInit /\ [][DurableNext]_<<vars, kept, lost, uneven>>

=============================================================================
