------------------------- MODULE BlockRightsProofs -------------------------
(***************************************************************************)
(* Block for every pool, every set of initiators and groups: whom a call   *)
(* shows what, and what a reboot makes of it.                              *)
(*                                                                         *)
(* A call first looks nodes of the tree up and makes the missing ones,     *)
(* which gives nobody a right (Looked), and then, if nothing failed, does  *)
(* one thing more and saves.  Two calls can also fail after the first part *)
(* of that thing, and save nothing.  The lemma Steps says which things     *)
(* these are; each property is then shown once for each of them.           *)
(***************************************************************************)
EXTENDS BlockProofs

\* The tree after a call has looked up or made nodes only: a storage object
\* that was not there has the identity of the volume now in the pool, or the
\* one it was generated with.
Looked(c) ==
    /\ c \in Cfs
    /\ c.map = cfs.map /\ c.chap = cfs.chap /\ c.tag = cfs.tag
    /\ cfs.acl \subseteq c.acl
    /\ \A v \in Vols : \/ c.wwn[v] = cfs.wwn[v]
                       \/ cfs.wwn[v] = 0 /\ c.wwn[v] \in {gen[v], Generated}

\* What the calls that get as far as the save do to such a tree.
Exported(c, i, v) ==
    \E d : \E l \in LunIds :
        /\ Looked(d) /\ Exists(v)
        /\ LunTaken(d, i, l) => <<i, l, v>> \in d.map
        /\ c = AddMaps(d, {<<i, l, v>>})

Unexported(c, i, v) ==
    \E d : \E m \in MapsOf(d, i) \cap MapsTo(d, v) :
        Looked(d) /\ c = Prune(DropUnmapped(DeleteMaps(d, {m}), v), i)

\* Credentials of one call, or what is left of one that failed half way.
Authenticated(c, i, s) == \E d : Looked(d) /\ c = SetChap(d, i, s)

Founded(c) ==
    \E i \in AgInits, g \in Groups :
        /\ i \notin cfs.acl /\ Members(cfs, g) = {}
        /\ c = SetTag(GetAcl(GetTpg(cfs), i), i, g)

Joined(c) ==
    \E i \in AgInits, g \in Groups : \E model \in Members(cfs, g) :
        i \notin cfs.acl /\ c = JoinGroup(GetTpg(cfs), i, g, model)

Left(c) ==
    \E g \in Groups : \E S \in SUBSET Members(cfs, g) : c = DeleteAcls(GetTpg(cfs), S)

Mapped(c) ==
    \E d : \E g \in Groups, l \in LunIds, v \in Vols :
        /\ Looked(d) /\ Exists(v)
        /\ \A i \in Members(cfs, g) : ~LunTaken(d, i, l)
        /\ c = AddMaps(d, Members(cfs, g) \X {l} \X {v})

\* The LUN ids some member of the group sees the volume at.
SeenAt(g, v, ids) ==
    Members(cfs, g) # {} =>
        \E first \in Members(cfs, g) : ids = {m[2] : m \in MapsOf(cfs, first) \cap MapsTo(cfs, v)}

Unmapped(c) ==
    \E d : \E g \in Groups, v \in Vols, ids \in SUBSET LunIds :
        /\ Looked(d) /\ SeenAt(g, v, ids)
        /\ c = DropUnmapped(DeleteMaps(d, Members(cfs, g) \X ids \X Vols), v)

\* A failed access_group_map_create: some members that have the id free are mapped.
HalfMapped(c, g, v) ==
    \E d : \E l \in LunIds :
        /\ Looked(d) /\ Exists(v)
        /\ \E done \in SUBSET {i \in Members(cfs, g) : ~LunTaken(d, i, l)} :
               c = AddMaps(d, done \X {l} \X {v})

Saved(c) ==
    \/ \E i \in AuthInits, s \in {"none", "set"} : Authenticated(c, i, s)
    \/ Founded(c) \/ Joined(c) \/ Left(c) \/ Mapped(c) \/ Unmapped(c)

-----------------------------------------------------------------------------
(* The kinds of step.                                                      *)

\* The call changed the pool, but no volume with a storage object.
Pooled ==
    /\ UNCHANGED <<cfs, saved, lost>>
    /\ gen' \in [Vols -> Nat]
    /\ \A v \in Vols : gen'[v] # gen[v] => vol[v] = 0

\* It only looked nodes up.
LookStep == \E c : \E code \in Codes : Looked(c) /\ Reply(c, code)

\* access_group_map_create, or initiator_set_auth, failed half way.
HalfMapStep(g, v) == \E c : HalfMapped(c, g, v) /\ Reply(c, "ERROR")

HalfAuthStep(i) == \E c : Authenticated(c, i, "mixed") /\ Reply(c, "ERROR")

\* It treated one initiator singly.
SingleStep(i, v) == \E c : (Exported(c, i, v) \/ Unexported(c, i, v)) /\ Save(c)

\* It did any other thing and came to the save.
SaveStep == \E c : Saved(c) /\ Save(c)

\* The kinds, with what they note down.
Kinds ==
    \/ VolCall /\ Pooled /\ Mark({}) /\ Note({})
    \/ LookStep /\ \E pair, S : Mark(pair) /\ Note(S)
    \/ \E g \in Groups, v \in Vols :
          HalfMapStep(g, v) /\ Mark({<<g, v>>}) /\ Note(Members(cfs, g))
    \/ \E i \in AuthInits : HalfAuthStep(i) /\ Mark({}) /\ Note({i})
    \/ \E i \in ExportInits, v \in Vols :
          SingleStep(i, v) /\ Mark({<<cfs.tag[i], v>>}) /\ Note({})
    \/ SaveStep /\ Mark({}) /\ \E S : Note(S)
    \/ Reboot /\ Mark({}) /\ unsaved' = {}

-----------------------------------------------------------------------------
(* What calls look up.                                                     *)

\* What every call starts from.
LEMMA LookedUp ==
    ASSUME Inv
    PROVE  Looked(cfs) /\ Looked(GetTpg(cfs)) /\ Looked(EnableTpg(cfs))
BY DEF Inv, Sound, Looked, GetTpg, EnableTpg, Cfs

\* A NodeACL, looked up or made.
LEMMA LookedAcl ==
    ASSUME NEW c, Looked(c), NEW i \in Initiators
    PROVE  Looked(GetAcl(c, i))
BY DEF Looked, GetAcl, Cfs

\* A storage object of a volume in the pool, looked up or made.
LEMMA LookedObject ==
    ASSUME Inv, NEW c, Looked(c), NEW v \in Vols, NEW id \in {gen[v], Generated}
    PROVE  LET d == GetStorageObject(c, v, id)
           IN  Looked(d) /\ d.acl = c.acl /\ d.tag = c.tag
<1>1. id \in Nat \cup {Generated}
  BY BoundsAssumption DEF Inv, StateOK
<1>2. c \in Cfs
  BY DEF Looked
<1> DEFINE d == GetStorageObject(c, v, id)
<1>3. /\ d \in Cfs /\ d.map = c.map /\ d.chap = c.chap /\ d.tag = c.tag /\ d.acl = c.acl
      /\ \A w \in Vols : d.wwn[w] = c.wwn[w] \/ (w = v /\ c.wwn[w] = 0 /\ d.wwn[w] = id)
  BY <1>1, <1>2 DEF GetStorageObject, Cfs
<1> HIDE DEF d
<1>4. \A w \in Vols : cfs.wwn[w] = 0 \/ c.wwn[w] = cfs.wwn[w]
  BY DEF Looked
<1>5. Looked(d)
  BY <1>3, <1>4 DEF Looked
<1> QED
  BY <1>3, <1>5 DEF d

\* Its LUN.
LEMMA LookedLun ==
    ASSUME Inv, NEW c, Looked(c), NEW v, HasTpgLun(v)
    PROVE  LET d == TpgLunOf(c, v)
           IN  Looked(d) /\ d.acl = c.acl /\ d.tag = c.tag
<1> DEFINE d == GetStorageObject(c, v, gen[v])
<1>1. v \in Vols
  BY DEF HasTpgLun
<1>2. Looked(d) /\ d.acl = c.acl /\ d.tag = c.tag
  BY <1>1, LookedObject
<1> HIDE DEF d
<1>3. Looked(GetLun(d, v)) /\ GetLun(d, v).acl = d.acl /\ GetLun(d, v).tag = d.tag
  BY <1>1, <1>2 DEF Looked, GetLun, Cfs
<1> QED
  BY <1>2, <1>3 DEF TpgLunOf, d

\* A call that fails or answers after looking up is of the first kind.
LEMMA LookedReply ==
    ASSUME NEW c, Looked(c), NEW code \in Codes, Reply(c, code)
    PROVE  LookStep
BY DEF LookStep

\* So is one for which _tpg_lun_of fails.
LEMMA LookedFails ==
    ASSUME Inv, NEW c, Looked(c), NEW v, TpgLunOfFails(c, v)
    PROVE  LookStep
<1>1. v \in Vols => /\ Looked(GetStorageObject(c, v, Generated))
                    /\ Looked(GetStorageObject(c, v, gen[v]))
  BY LookedObject
<1> QED
  BY <1>1, LookedReply, CodesOK DEF TpgLunOfFails

-----------------------------------------------------------------------------
(* Which kind each call is of.                                             *)

\* The vol_* calls leave the trees alone.
LEMMA VolSteps ==
    ASSUME Inv, VolCall
    PROVE  Pooled \/ LookStep
<1> DEFINE Goal == Pooled \/ \E code \in Codes : Reply(cfs, code)
<1>0. StateOK /\ gen \in [Vols -> Nat] /\ MaxGen \in Nat
  BY BoundsAssumption DEF Inv, StateOK
<1>1. ASSUME NEW v \in AnyVol, NEW size \in Sizes, VolCreate(v, size) \/ VolResize(v, size)
      PROVE  Goal
  BY <1>0, <1>1, CodesOK DEF VolCreate, VolResize, PoolError, Missing, SetSize, Pooled, Exists
<1>2. ASSUME NEW v \in AnyVol, VolDestroy(v)
      PROVE  Goal
  BY <1>0, <1>2, CodesOK DEF VolDestroy, PoolError, Missing, SetSize, Pooled, Exists
<1>3. ASSUME NEW v \in AnyVol, NEW new \in Vols, NEW size \in Sizes \cup {NoSize},
             VolCopy(v, new, size)
      PROVE  Goal
  BY <1>0, <1>3, CodesOK DEF VolCopy, PoolError, Missing, SetSize, Pooled, Exists
<1>4. Goal
  <2> HIDE DEF Goal
  <2> QED
    BY <1>1, <1>2, <1>3 DEF VolCall
<1> QED
  BY <1>4, LookedUp, LookedReply

\* export_create.
LEMMA ExportCreateSteps ==
    ASSUME Inv, NEW i \in ExportInits, NEW v \in AnyVol, NEW l \in LunIds \cup {BadLunId},
           ExportCreate(v, i, l)
    PROVE  LookStep \/ (v \in Vols /\ SingleStep(i, v))
<1> DEFINE e == EnableTpg(cfs)
           c == GetAcl(e, i)
           d == TpgLunOf(c, v)
           Goal == LookStep \/ (v \in Vols /\ SingleStep(i, v))
<1>1. Looked(e) /\ Looked(c)
  BY LookedUp, LookedAcl, InitsAssumption
<1>2. AclRefused(e, i) => Goal
  BY <1>1, LookedReply, CodesOK DEF AclRefused
<1>3. TpgLunOfFails(c, v) => Goal
  <2> HIDE DEF c
  <2> QED
    BY <1>1, LookedFails
<1>4. CASE HasTpgLun(v)
  <2>1. Looked(d) /\ v \in Vols /\ Exists(v)
    <3> HIDE DEF c
    <3> QED
      BY <1>1, <1>4, LookedLun DEF HasTpgLun
  <2>2. d.map = c.map
    <3> HIDE DEF c, d
    <3> QED
      BY <1>1, <2>1 DEF Looked
  <2>3. CASE Reply(d, "ERROR")
    <3> HIDE DEF d
    <3> QED
      BY <2>1, <2>3, LookedReply, CodesOK
  <2>4. CASE /\ l # BadLunId /\ (LunTaken(c, i, l) => <<i, l, v>> \in c.map)
             /\ Save(AddMaps(d, {<<i, l, v>>}))
    <3> HIDE DEF c, d
    <3>1. LunTaken(d, i, l) => <<i, l, v>> \in d.map
      BY <2>2, <2>4 DEF LunTaken, MapsOf
    <3>2. l \in LunIds
      BY <2>4
    <3>3. Exported(AddMaps(d, {<<i, l, v>>}), i, v)
      BY <2>1, <3>1, <3>2 DEF Exported
    <3> QED
      BY <2>1, <2>4, <3>3 DEF SingleStep
  <2> QED
    BY <1>2, <1>3, <2>3, <2>4, ExportCreate(v, i, l) DEF ExportCreate
<1> QED
  BY <1>2, <1>3, <1>4, ExportCreate(v, i, l) DEF ExportCreate

\* export_destroy.
LEMMA ExportDestroySteps ==
    ASSUME Inv, NEW i \in ExportInits, NEW v \in AnyVol, ExportDestroy(v, i)
    PROVE  LookStep \/ (v \in Vols /\ SingleStep(i, v))
<1> DEFINE t == GetTpg(cfs)
           c == GetAcl(t, i)
<1>1. Looked(cfs) /\ Looked(t) /\ Looked(c)
  BY LookedUp, LookedAcl, InitsAssumption
<1>2. CASE PoolError(v) \/ AclRefused(t, i) \/ Reply(c, "NOT_FOUND_VOLUME_EXPORT")
  BY <1>1, <1>2, LookedReply, CodesOK DEF PoolError, AclRefused
<1>3. ASSUME v \in Vols, NEW m \in MapsOf(c, i) \cap MapsTo(c, v),
             Save(Prune(DropUnmapped(DeleteMaps(c, {m}), v), i))
      PROVE  v \in Vols /\ SingleStep(i, v)
  <2> HIDE DEF c
  <2>1. Unexported(Prune(DropUnmapped(DeleteMaps(c, {m}), v), i), i, v)
    BY <1>1, <1>3 DEF Unexported
  <2> QED
    BY <1>3, <2>1 DEF SingleStep
<1> QED
  BY <1>2, <1>3, ExportDestroy(v, i) DEF ExportDestroy

\* initiator_set_auth.
LEMMA AuthSteps ==
    ASSUME Inv, NEW i \in AuthInits, NEW on \in BOOLEAN, InitiatorSetAuth(i, on)
    PROVE  LookStep \/ HalfAuthStep(i) \/ SaveStep
<1> DEFINE t == GetTpg(cfs)
           c == GetAcl(t, i)
           s == IF on THEN "set" ELSE "none"
<1>1. Looked(t) /\ Looked(c)
  BY LookedUp, LookedAcl, InitsAssumption
<1>2. CASE AclRefused(t, i) \/ Reply(c, "ERROR")
  BY <1>1, <1>2, LookedReply, CodesOK DEF AclRefused
<1>3. CASE Reply(SetChap(c, i, "mixed"), "ERROR")
  <2> HIDE DEF c
  <2>1. Authenticated(SetChap(c, i, "mixed"), i, "mixed")
    BY <1>1 DEF Authenticated
  <2> QED
    BY <1>3, <2>1 DEF HalfAuthStep
<1>4. CASE Save(SetChap(c, i, s))
  <2> HIDE DEF c
  <2>1. s \in {"none", "set"}
    OBVIOUS
  <2> HIDE DEF s
  <2>2. Authenticated(SetChap(c, i, s), i, s)
    BY <1>1 DEF Authenticated
  <2>3. Saved(SetChap(c, i, s))
    BY <2>1, <2>2 DEF Saved
  <2> QED
    BY <1>4, <2>3 DEF SaveStep
<1> QED
  BY <1>2, <1>3, <1>4, InitiatorSetAuth(i, on) DEF InitiatorSetAuth

\* access_group_create, access_group_init_add and access_group_init_del.
LEMMA MemberSteps ==
    ASSUME Inv, NEW g \in Groups, NEW i \in AgInits, NEW type,
           AgCreate(g, i, type) \/ AgInitAdd(g, i, type) \/ AgInitDel(g, i, type)
    PROVE  LookStep \/ SaveStep
<1> DEFINE t == GetTpg(cfs)
           Goal == LookStep \/ SaveStep
<1>0. /\ Looked(cfs) /\ Looked(t)
      /\ t.acl = cfs.acl /\ t.tag = cfs.tag
  BY LookedUp DEF GetTpg, Looked, Cfs
<1>m. Members(t, g) = Members(cfs, g)
  <2> HIDE DEF t
  <2> QED
    BY <1>0 DEF Members
<1>1. \A code \in Codes : Reply(cfs, code) \/ Reply(t, code) => Goal
  BY <1>0, LookedReply
<1>2. ASSUME i \notin t.acl, Members(t, g) = {}, Save(SetTag(GetAcl(t, i), i, g))
      PROVE  Goal
  <2>1. Founded(SetTag(GetAcl(t, i), i, g))
    BY <1>0, <1>m, <1>2 DEF Founded
  <2> QED
    BY <1>2, <2>1 DEF Saved, SaveStep
<1>3. CASE AgCreate(g, i, type)
  <2>1. g \notin GroupNames(t) => Members(t, g) = {}
    BY NoTagAssumption DEF GroupNames, Members
  <2>2. AclRefused(t, i) => Goal
    BY <1>1, CodesOK DEF AclRefused
  <2> QED
    BY <1>1, <1>2, <1>3, <2>1, <2>2, CodesOK DEF AgCreate
<1>4. CASE AgInitAdd(g, i, type)
  <2>1. ASSUME i \notin t.acl, NEW model \in Members(t, g), Save(JoinGroup(t, i, g, model))
        PROVE  Goal
    <3>1. Joined(JoinGroup(t, i, g, model))
      BY <1>0, <1>m, <2>1 DEF Joined
    <3> QED
      BY <2>1, <3>1 DEF Saved, SaveStep
  <2>2. AclRefused(t, i) => Goal
    BY <1>1, CodesOK DEF AclRefused
  <2> QED
    BY <1>1, <1>2, <1>4, <2>1, <2>2, CodesOK DEF AgInitAdd
<1>5. CASE AgInitDel(g, i, type)
  <2>1. CASE i \in Members(t, g) /\ Save(DeleteAcls(t, {i}))
    <3>1. Left(DeleteAcls(t, {i}))
      BY <1>m, <2>1 DEF Left
    <3> QED
      BY <2>1, <3>1 DEF Saved, SaveStep
  <2> QED
    BY <1>1, <1>5, <2>1, CodesOK DEF AgInitDel
<1> QED
  BY <1>3, <1>4, <1>5

\* access_group_destroy.
LEMMA AgDestroySteps ==
    ASSUME Inv, NEW g \in Groups, AgDestroy(g)
    PROVE  SaveStep
<1>1. Left(DeleteAcls(GetTpg(cfs), Members(cfs, g)))
  BY DEF Left
<1> QED
  BY <1>1 DEF AgDestroy, Saved, SaveStep

\* access_group_map_create.
LEMMA MapSteps ==
    ASSUME Inv, NEW g \in Groups, NEW v \in AnyVol, NEW h \in LunIds \cup {NoLunId, BadLunId},
           AgMapCreate(v, g, h)
    PROVE  \/ LookStep
           \/ v \in Vols /\ reply' = "ERROR" /\ HalfMapStep(g, v)
           \/ reply' # "ERROR" /\ SaveStep
<1> DEFINE e == EnableTpg(cfs)
           d == TpgLunOf(e, v)
           Goal == \/ LookStep
                   \/ v \in Vols /\ reply' = "ERROR" /\ HalfMapStep(g, v)
                   \/ reply' # "ERROR" /\ SaveStep
<1>0. Looked(e) /\ e.acl = cfs.acl /\ e.tag = cfs.tag
  BY LookedUp DEF EnableTpg, Looked, Cfs
<1>1. TpgLunOfFails(e, v) => Goal
  <2> HIDE DEF e
  <2> QED
    BY <1>0, LookedFails
<1>2. CASE HasTpgLun(v)
  <2>1. Looked(d) /\ d.acl = e.acl /\ d.tag = e.tag /\ v \in Vols /\ Exists(v)
    <3> HIDE DEF e
    <3> QED
      BY <1>0, <1>2, LookedLun DEF HasTpgLun
  <2>2. \A code \in Codes : Reply(d, code) => Goal
    <3> HIDE DEF d
    <3> QED
      BY <2>1, LookedReply
  <2>3. Members(d, g) = Members(cfs, g)
    <3> HIDE DEF d, e
    <3> QED
      BY <1>0, <2>1 DEF Members
  <2>4. ASSUME NEW l \in LunIds \cup {BadLunId}, MapGroup(d, v, g, l)
        PROVE  Goal
    <3> HIDE DEF d
    <3> DEFINE clash == {i \in Members(d, g) : LunTaken(d, i, l)}
    <3>1. CASE Reply(d, "ERROR")
      BY <2>2, <3>1, CodesOK
    <3>2. CASE l # BadLunId /\ clash = {} /\ Save(AddMaps(d, Members(d, g) \X {l} \X {v}))
      <4>1. Mapped(AddMaps(d, Members(cfs, g) \X {l} \X {v}))
        BY <2>1, <2>3, <3>2 DEF Mapped
      <4>2. reply' # "ERROR"
        BY <3>2 DEF Save
      <4> QED
        BY <2>3, <3>2, <4>1, <4>2 DEF Saved, SaveStep
    <3>3. ASSUME clash # {}, NEW done \in SUBSET (Members(d, g) \ clash),
                 Reply(AddMaps(d, done \X {l} \X {v}), "ERROR")
          PROVE  Goal
      <4>1. l \in LunIds
        BY <2>1, <3>3 DEF Looked, Cfs, LunTaken, MapsOf
      <4>2. done \in SUBSET {i \in Members(cfs, g) : ~LunTaken(d, i, l)}
        BY <2>3
      <4>3. HalfMapped(AddMaps(d, done \X {l} \X {v}), g, v)
        BY <2>1, <4>1, <4>2 DEF HalfMapped
      <4>4. reply' = "ERROR"
        BY <3>3 DEF Reply
      <4> QED
        BY <2>1, <3>3, <4>3, <4>4 DEF HalfMapStep
    <3> QED
      BY <2>4, <3>1, <3>2, <3>3 DEF MapGroup
  <2>5. HostLunIds(e, v, h) \subseteq LunIds \cup {BadLunId}
    BY DEF HostLunIds
  <2>6. \A l \in HostLunIds(e, v, h) : MapGroup(d, v, g, l) => Goal
    BY <2>4, <2>5
  <2> HIDE DEF d, e
  <2> QED
    BY <1>1, <2>2, <2>6, CodesOK DEF AgMapCreate, d, e
<1> HIDE DEF d, e
<1> QED
  BY <1>1, <1>2 DEF AgMapCreate, e

\* access_group_map_destroy.
LEMMA UnmapSteps ==
    ASSUME Inv, NEW g \in Groups, NEW v \in AnyVol, AgMapDestroy(v, g)
    PROVE  LookStep \/ SaveStep
<1> DEFINE t == GetTpg(cfs)
           d == TpgLunOf(t, v)
           ids(first) == {m[2] : m \in MapsOf(t, first) \cap MapsTo(t, v)}
           Goal == LookStep \/ SaveStep
<1>0. Looked(t) /\ t.acl = cfs.acl /\ t.tag = cfs.tag
  BY LookedUp DEF GetTpg, Looked, Cfs
<1>m. Members(t, g) = Members(cfs, g)
  <2> HIDE DEF t
  <2> QED
    BY <1>0 DEF Members
<1>1. TpgLunOfFails(t, v) => Goal
  <2> HIDE DEF t
  <2> QED
    BY <1>0, LookedFails
<1>2. CASE HasTpgLun(v)
  <2>1. Looked(d) /\ v \in Vols
    <3> HIDE DEF t
    <3> QED
      BY <1>0, <1>2, LookedLun DEF HasTpgLun
  <2>2. \A first \in Members(t, g) : ids(first) \in SUBSET LunIds /\ SeenAt(g, v, ids(first))
    <3> SUFFICES ASSUME NEW first \in Members(t, g)
                 PROVE  ids(first) \in SUBSET LunIds /\ SeenAt(g, v, ids(first))
      OBVIOUS
    <3> HIDE DEF t
    <3>1. t.map = cfs.map /\ t.map \subseteq Initiators \X LunIds \X Vols
      BY <1>0 DEF Looked, Cfs
    <3>2. ids(first) \in SUBSET LunIds
      BY <3>1 DEF MapsOf
    <3>3. ids(first) = {m[2] : m \in MapsOf(cfs, first) \cap MapsTo(cfs, v)}
      BY <3>1 DEF MapsOf, MapsTo
    <3> HIDE DEF ids
    <3> QED
      BY <1>m, <3>2, <3>3 DEF SeenAt
  <2>3. \A S \in SUBSET LunIds :
           SeenAt(g, v, S) /\ Save(DropUnmapped(DeleteMaps(d, Members(t, g) \X S \X Vols), v))
               => Goal
    <3> HIDE DEF d, t
    <3> SUFFICES ASSUME NEW S \in SUBSET LunIds, SeenAt(g, v, S),
                        Save(DropUnmapped(DeleteMaps(d, Members(cfs, g) \X S \X Vols), v))
                 PROVE  Goal
      BY <1>m
    <3>1. Unmapped(DropUnmapped(DeleteMaps(d, Members(cfs, g) \X S \X Vols), v))
      BY <2>1 DEF Unmapped
    <3> QED
      BY <3>1 DEF Saved, SaveStep
  <2>4. Members(t, g) = {} /\ Save(DropUnmapped(d, v)) => Goal
    <3> HIDE DEF d, t
    <3> SUFFICES ASSUME Members(cfs, g) = {}, Save(DropUnmapped(d, v))
                 PROVE  Goal
      BY <1>m
    <3>1. Members(cfs, g) \X {} \X Vols = {} /\ SeenAt(g, v, {})
      BY DEF SeenAt
    <3>2. DeleteMaps(d, {}) = d
      BY <2>1 DEF DeleteMaps, Looked, Cfs
    <3>3. Unmapped(DropUnmapped(d, v))
      BY <2>1, <3>1, <3>2 DEF Unmapped
    <3> QED
      BY <3>3 DEF Saved, SaveStep
  <2> HIDE DEF ids, d, t
  <2> QED
    BY <1>1, <2>2, <2>3, <2>4 DEF AgMapDestroy, ids, d, t
<1> HIDE DEF d, t, ids
<1> QED
  BY <1>1, <1>2 DEF AgMapDestroy, t

\* There is no other step.
LEMMA Steps ==
    ASSUME Inv, Next
    PROVE  Kinds
<1> USE DEF Kinds
<1>1. CASE VolCall
  <2>1. Mark({}) /\ Note({})
    BY <1>1 DEF VolCall
  <2> QED
    BY <1>1, <2>1, VolSteps
<1>2. CASE ExportCall
  <2>1. PICK i \in ExportInits, v \in AnyVol :
           /\ (\E l \in LunIds \cup {BadLunId} : ExportCreate(v, i, l)) \/ ExportDestroy(v, i)
           /\ Mark({<<cfs.tag[i], v>>}) /\ Note({})
    BY <1>2 DEF ExportCall
  <2>2. LookStep \/ (v \in Vols /\ SingleStep(i, v))
    BY <2>1, ExportCreateSteps, ExportDestroySteps
  <2> QED
    BY <2>1, <2>2
<1>3. CASE AuthCall
  <2>1. PICK i \in AuthInits :
           (\E on \in BOOLEAN : InitiatorSetAuth(i, on)) /\ Mark({}) /\ Note({i})
    BY <1>3 DEF AuthCall
  <2>2. LookStep \/ HalfAuthStep(i) \/ SaveStep
    BY <2>1, AuthSteps
  <2> QED
    BY <2>1, <2>2
<1>4. CASE GroupCall
  <2>1. LookStep \/ SaveStep
    BY <1>4, MemberSteps, AgDestroySteps, UnmapSteps DEF GroupCall
  <2>2. Mark({}) /\ Note({})
    BY <1>4 DEF GroupCall
  <2> QED
    BY <2>1, <2>2
<1>5. CASE MapCall
  <2>1. PICK g \in Groups, v \in AnyVol :
           /\ \E h \in LunIds \cup {NoLunId, BadLunId} : AgMapCreate(v, g, h)
           /\ Mark(IF reply' = "ERROR" THEN {<<g, v>>} ELSE {}) /\ Note(Members(cfs, g))
    BY <1>5 DEF MapCall
  <2>2. \/ LookStep
        \/ v \in Vols /\ reply' = "ERROR" /\ HalfMapStep(g, v)
        \/ reply' # "ERROR" /\ SaveStep
    BY <2>1, MapSteps
  <2>3. reply' = "ERROR" => Mark({<<g, v>>})
    BY <2>1
  <2>4. reply' # "ERROR" => Mark({})
    BY <2>1
  <2> QED
    BY <2>1, <2>2, <2>3, <2>4
<1>6. CASE ListOrReboot
  <2>1. ListCall => LookStep
    BY LookedUp, LookedReply, CodesOK DEF ListCall
  <2>2. Mark({}) /\ ((ListCall /\ Note({})) \/ (Reboot /\ unsaved' = {}))
    BY <1>6 DEF ListOrReboot
  <2> QED
    BY <2>1, <2>2
<1> QED
  BY <1>1, <1>2, <1>3, <1>4, <1>5, <1>6 DEF Next

-----------------------------------------------------------------------------
(* What a saved tree has of the tree before it.                            *)

\* No storage object has an identity but its old one, its volume's now, or a
\* generated one.
Known(c) == \A v \in Vols : c.wwn[v] \in {0, cfs.wwn[v], gen[v], Generated}

\* A NodeACL with a tag had it before, and no NodeACL with a tag is lost.
Tagged(c) ==
    \A i \in Initiators : c.tag[i] # NoTag =>
        c.tag[i] = cfs.tag[i] /\ (i \in cfs.acl => i \in c.acl)

\* Looking up gives storage objects no wrong identity, and no NodeACL a tag.
LEMMA LookedKnown ==
    ASSUME NEW d, Looked(d)
    PROVE  Known(d) /\ Tagged(d)
BY DEF Looked, Known, Tagged

\* Tidying a LUN nobody is mapped to takes no mapping.
LEMMA DropUnmappedIs ==
    ASSUME NEW d \in Cfs, NEW v \in Vols, Known(d)
    PROVE  LET c == DropUnmapped(d, v)
           IN  /\ c \in Cfs /\ Known(c)
               /\ c.map = d.map /\ c.acl = d.acl /\ c.tag = d.tag /\ c.chap = d.chap
<1>1. CASE MapsTo(d, v) = {}
  BY <1>1 DEF DropUnmapped, DeleteStorageObject, DeleteLun, Cfs, Known
<1>2. CASE MapsTo(d, v) # {}
  BY <1>2 DEF DropUnmapped
<1> QED
  BY <1>1, <1>2

\* The clean-up of export_destroy prunes only what nothing hangs on.
LEMMA PruneIs ==
    ASSUME NEW d \in Cfs, NEW i \in Initiators, \A m \in d.map : m[1] \in d.acl,
           Known(d), Tagged(d)
    PROVE  LET c == Prune(d, i)
           IN  c \in Cfs /\ Known(c) /\ c.map = d.map /\ Tagged(c)
<1> DEFINE e == DeleteAcls(d, {i})
<1>1. /\ e \in Cfs /\ e.wwn = d.wwn /\ e.acl = d.acl \ {i}
      /\ e.map = {m \in d.map : m[1] # i}
      /\ \A j \in Initiators : e.tag[j] = IF j = i THEN NoTag ELSE d.tag[j]
  BY DEF DeleteAcls, Cfs
<1> HIDE DEF e
<1>2. CASE MapsOf(d, i) # {}
  BY <1>2 DEF Prune
<1>3. CASE MapsOf(d, i) = {} /\ e.acl # {}
  <2>1. Prune(d, i) = e
    BY <1>3 DEF Prune, e
  <2>2. e.map = d.map
    BY <1>1, <1>3 DEF MapsOf
  <2> QED
    BY <1>1, <2>1, <2>2 DEF Known, Tagged
<1>4. CASE MapsOf(d, i) = {} /\ e.acl = {}
  <2>1. Prune(d, i) = DeleteTpg(e)
    BY <1>4 DEF Prune, e
  <2>2. d.map = {}
    BY <1>1, <1>4 DEF MapsOf
  <2>3. /\ DeleteTpg(e) \in Cfs /\ DeleteTpg(e).wwn = d.wwn /\ DeleteTpg(e).map = {}
        /\ \A j \in Initiators : DeleteTpg(e).tag[j] = NoTag
    BY <1>1 DEF DeleteTpg, EmptyCfs, Cfs
  <2> QED
    BY <2>1, <2>2, <2>3 DEF Known, Tagged
<1> QED
  BY <1>2, <1>3, <1>4

\* The next eight say what each kind of call leaves in the tree.
LEMMA ExportedIs ==
    ASSUME NEW i \in Initiators, NEW v \in Vols, NEW c, Exported(c, i, v)
    PROVE  /\ c \in Cfs /\ Known(c) /\ Tagged(c) /\ v \in Existing
           /\ \E l \in LunIds :
                 /\ LunTaken(cfs, i, l) => <<i, l, v>> \in cfs.map
                 /\ c.map = cfs.map \cup {<<i, l, v>>}
<1>1. PICK d : \E l \in LunIds :
                  /\ Looked(d) /\ Exists(v) /\ (LunTaken(d, i, l) => <<i, l, v>> \in d.map)
                  /\ c = AddMaps(d, {<<i, l, v>>})
  BY DEF Exported
<1>2. PICK l \in LunIds :
         /\ Looked(d) /\ Exists(v) /\ (LunTaken(d, i, l) => <<i, l, v>> \in d.map)
         /\ c = AddMaps(d, {<<i, l, v>>})
  BY <1>1
<1>3. d \in Cfs /\ d.map = cfs.map
  BY <1>2 DEF Looked
<1>4. c \in Cfs /\ c.map = d.map \cup {<<i, l, v>>} /\ c.wwn = d.wwn /\ c.tag = d.tag
      /\ c.acl = d.acl
  BY <1>2, <1>3 DEF AddMaps, Cfs
<1>5. LunTaken(d, i, l) <=> LunTaken(cfs, i, l)
  BY <1>3 DEF LunTaken, MapsOf
<1>6. Known(c) /\ Tagged(c)
  <2>1. Known(d) /\ Tagged(d)
    BY <1>2, LookedKnown
  <2> QED
    BY <1>4, <2>1 DEF Known, Tagged
<1>7. v \in Existing
  BY <1>2 DEF Existing
<1> QED
  BY <1>2, <1>3, <1>4, <1>5, <1>6, <1>7

\* export_destroy: one mapped LUN less.
LEMMA UnexportedIs ==
    ASSUME Inv, NEW i \in Initiators, NEW v \in Vols, NEW c, Unexported(c, i, v)
    PROVE  /\ c \in Cfs /\ Known(c) /\ Tagged(c)
           /\ \E m \in MapsOf(cfs, i) \cap MapsTo(cfs, v) : c.map = cfs.map \ {m}
<1>1. PICK d : \E m \in MapsOf(d, i) \cap MapsTo(d, v) :
                  Looked(d) /\ c = Prune(DropUnmapped(DeleteMaps(d, {m}), v), i)
  BY DEF Unexported
<1>2. PICK m \in MapsOf(d, i) \cap MapsTo(d, v) :
                  Looked(d) /\ c = Prune(DropUnmapped(DeleteMaps(d, {m}), v), i)
  BY <1>1
<1>4. d \in Cfs /\ d.map = cfs.map /\ cfs.acl \subseteq d.acl /\ Known(d) /\ Tagged(d)
  BY <1>2, LookedKnown DEF Looked
<1>5. m \in MapsOf(cfs, i) \cap MapsTo(cfs, v)
  BY <1>4 DEF MapsOf, MapsTo
<1> DEFINE e == DeleteMaps(d, {m})
           f == DropUnmapped(e, v)
<1>6. e \in Cfs /\ e.map = cfs.map \ {m} /\ e.acl = d.acl /\ Known(e) /\ Tagged(e)
  BY <1>4 DEF DeleteMaps, Cfs, Known, Tagged
<1> HIDE DEF e
<1>7. f \in Cfs /\ Known(f) /\ f.map = e.map /\ f.acl = e.acl /\ f.tag = e.tag
  BY <1>6, DropUnmappedIs
<1> HIDE DEF f
<1>8. Tagged(f)
  BY <1>6, <1>7 DEF Tagged
<1>9. \A n \in f.map : n[1] \in f.acl
  BY <1>4, <1>6, <1>7 DEF Inv, Sound, Rooted
<1>10. c = Prune(f, i)
  BY <1>2 DEF f, e
<1> QED
  BY <1>4, <1>5, <1>6, <1>7, <1>8, <1>9, <1>10, PruneIs

\* initiator_set_auth, also half way: no mapping and no tag changes, and no
\* credentials but one initiator's.
LEMMA AuthenticatedIs ==
    ASSUME NEW i \in Initiators, NEW s \in {"none", "set", "mixed"},
           NEW c, Authenticated(c, i, s)
    PROVE  /\ c \in Cfs /\ Known(c) /\ Tagged(c)
           /\ c.map = cfs.map /\ c.tag = cfs.tag /\ cfs.acl \subseteq c.acl
           /\ \A j \in Initiators \ {i} : c.chap[j] = cfs.chap[j]
           /\ \A v \in Vols : \/ c.wwn[v] = cfs.wwn[v]
                              \/ cfs.wwn[v] = 0 /\ c.wwn[v] \in {gen[v], Generated}
<1>2. PICK d : Looked(d) /\ c = SetChap(d, i, s)
  BY DEF Authenticated
<1>3. /\ c \in Cfs /\ c.map = d.map /\ c.tag = d.tag /\ c.acl = d.acl /\ c.wwn = d.wwn
      /\ \A j \in Initiators \ {i} : c.chap[j] = d.chap[j]
  BY <1>2 DEF Looked, SetChap, Cfs
<1> QED
  BY <1>2, <1>3, LookedKnown DEF Looked, Known, Tagged

\* access_group_create: a first member, who sees nothing.
LEMMA FoundedIs ==
    ASSUME Inv, NEW c, Founded(c)
    PROVE  /\ c \in Cfs /\ Known(c) /\ c.map = cfs.map /\ cfs.acl \subseteq c.acl
           /\ \E i \in AgInits, g \in Groups :
                 /\ i \notin cfs.acl /\ Members(cfs, g) = {} /\ i \in c.acl
                 /\ c.tag = [cfs.tag EXCEPT ![i] = g]
<1>1. PICK i \in AgInits, g \in Groups :
         /\ i \notin cfs.acl /\ Members(cfs, g) = {}
         /\ c = SetTag(GetAcl(GetTpg(cfs), i), i, g)
  BY DEF Founded
<1> DEFINE t == GetTpg(cfs)
<1>2. Looked(t)
  BY LookedUp
<1> HIDE DEF t
<1>3. /\ c \in Cfs /\ c.map = t.map /\ c.wwn = t.wwn /\ c.acl = t.acl \cup {i}
      /\ c.tag = [t.tag EXCEPT ![i] = g]
  <2>1. t \in Cfs /\ i \in Initiators
    BY <1>2, InitsAssumption DEF Looked
  <2>2. c = [t EXCEPT !.acl = t.acl \cup {i}, !.tag = [t.tag EXCEPT ![i] = g]]
    BY <1>1, <2>1 DEF SetTag, GetAcl, Cfs, t
  <2>3. [t.tag EXCEPT ![i] = g] \in [Initiators -> Groups \cup {NoTag}]
    BY <2>1 DEF Cfs
  <2> QED
    BY <2>1, <2>2, <2>3 DEF Cfs
<1>4. Known(c)
  BY <1>2, <1>3, LookedKnown DEF Known
<1>5. t.map = cfs.map /\ t.tag = cfs.tag /\ cfs.acl \subseteq t.acl
  BY <1>2 DEF Looked
<1> QED
  BY <1>1, <1>3, <1>4, <1>5

\* access_group_init_add: a newcomer with the mapped LUNs of a member.
LEMMA JoinedIs ==
    ASSUME Inv, NEW c, Joined(c)
    PROVE  /\ c \in Cfs /\ Known(c) /\ cfs.acl \subseteq c.acl
           /\ \E i \in AgInits, g \in Groups : \E model \in Members(cfs, g) :
                 /\ i \notin cfs.acl /\ i \in c.acl
                 /\ c.tag = [cfs.tag EXCEPT ![i] = g]
                 /\ c.map = cfs.map \cup {<<i, m[2], m[3]>> : m \in MapsOf(cfs, model)}
<1>1. PICK i \in AgInits, g \in Groups : \E model \in Members(cfs, g) :
         i \notin cfs.acl /\ c = JoinGroup(GetTpg(cfs), i, g, model)
  BY DEF Joined
<1>2. PICK model \in Members(cfs, g) :
         i \notin cfs.acl /\ c = JoinGroup(GetTpg(cfs), i, g, model)
  BY <1>1
<1> DEFINE t == GetTpg(cfs)
           d == SetTag(GetAcl(t, i), i, g)
           S == {<<i, m[2], m[3]>> : m \in MapsOf(t, model)}
<1>3. Looked(t)
  BY LookedUp
<1>4. c = AddMaps(d, S)
  BY <1>2 DEF JoinGroup
<1> HIDE DEF t, S
<1>5. /\ d \in Cfs /\ d.map = t.map /\ d.wwn = t.wwn /\ d.acl = t.acl \cup {i}
      /\ d.tag = [t.tag EXCEPT ![i] = g]
  <2>1. t \in Cfs /\ i \in Initiators
    BY <1>3, InitsAssumption DEF Looked
  <2>2. d = [t EXCEPT !.acl = t.acl \cup {i}, !.tag = [t.tag EXCEPT ![i] = g]]
    BY <2>1 DEF SetTag, GetAcl, Cfs
  <2>3. [t.tag EXCEPT ![i] = g] \in [Initiators -> Groups \cup {NoTag}]
    BY <2>1 DEF Cfs
  <2> HIDE DEF d
  <2> QED
    BY <2>1, <2>2, <2>3 DEF Cfs
<1> USE DEF S
<1>6. S \in SUBSET (Initiators \X LunIds \X Vols)
  BY <1>3, InitsAssumption DEF MapsOf, Looked, Cfs
<1>7. S = {<<i, m[2], m[3]>> : m \in MapsOf(cfs, model)}
  BY <1>3 DEF MapsOf, Looked
<1> HIDE DEF d, S
<1>8. /\ c \in Cfs /\ c.map = d.map \cup S /\ c.wwn = d.wwn /\ c.acl = d.acl /\ c.tag = d.tag
  BY <1>4, <1>5, <1>6 DEF AddMaps, Cfs
<1>9. Known(c)
  BY <1>3, <1>5, <1>8, LookedKnown DEF Known
<1>10. t.map = cfs.map /\ t.tag = cfs.tag /\ cfs.acl \subseteq t.acl
  BY <1>3 DEF Looked
<1> QED
  BY <1>2, <1>5, <1>7, <1>8, <1>9, <1>10

\* access_group_destroy, access_group_init_del: members gone with their mapped LUNs.
LEMMA LeftIs ==
    ASSUME Inv, NEW c, Left(c)
    PROVE  /\ c \in Cfs /\ Known(c) /\ Tagged(c)
           /\ \E g \in Groups : \E S \in SUBSET Members(cfs, g) :
                 /\ c.map = {m \in cfs.map : m[1] \notin S}
                 /\ \A i \in S : c.tag[i] = NoTag
<1>1. PICK g \in Groups : \E S \in SUBSET Members(cfs, g) : c = DeleteAcls(GetTpg(cfs), S)
  BY DEF Left
<1>2. PICK S \in SUBSET Members(cfs, g) : c = DeleteAcls(GetTpg(cfs), S)
  BY <1>1
<1> DEFINE t == GetTpg(cfs)
<1>3. Looked(t)
  BY LookedUp
<1>0. S \subseteq Initiators
  BY DEF Inv, Sound, Members, Cfs
<1> HIDE DEF t
<1>4. /\ c \in Cfs /\ c.wwn = t.wwn /\ c.map = {m \in t.map : m[1] \notin S}
      /\ c.acl = t.acl \ S
      /\ \A i \in Initiators : c.tag[i] = IF i \in S THEN NoTag ELSE t.tag[i]
  BY <1>2, <1>3 DEF Looked, DeleteAcls, Cfs, t
<1>5. Known(c)
  BY <1>3, <1>4, LookedKnown DEF Known
<1>6. t.map = cfs.map /\ t.tag = cfs.tag /\ cfs.acl \subseteq t.acl
  BY <1>3 DEF Looked
<1>7. Tagged(c)
  BY <1>4, <1>6 DEF Tagged
<1> QED
  BY <1>0, <1>4, <1>5, <1>6, <1>7

\* access_group_map_create: a LUN id all members have free.
LEMMA MappedIs ==
    ASSUME Inv, NEW c, Mapped(c)
    PROVE  /\ c \in Cfs /\ Known(c) /\ Tagged(c)
           /\ \E g \in Groups, l \in LunIds, v \in Existing :
                 /\ \A i \in Members(cfs, g) : ~LunTaken(cfs, i, l)
                 /\ c.map = cfs.map \cup (Members(cfs, g) \X {l} \X {v})
<1>1. PICK d : \E g \in Groups, l \in LunIds, v \in Vols :
         /\ Looked(d) /\ Exists(v) /\ (\A i \in Members(cfs, g) : ~LunTaken(d, i, l))
         /\ c = AddMaps(d, Members(cfs, g) \X {l} \X {v})
  BY DEF Mapped
<1>2. PICK g \in Groups, l \in LunIds, v \in Vols :
         /\ Looked(d) /\ Exists(v) /\ (\A i \in Members(cfs, g) : ~LunTaken(d, i, l))
         /\ c = AddMaps(d, Members(cfs, g) \X {l} \X {v})
  BY <1>1
<1> DEFINE S == Members(cfs, g) \X {l} \X {v}
<1>3. d \in Cfs /\ d.map = cfs.map
  BY <1>2 DEF Looked
<1>4. S \in SUBSET (Initiators \X LunIds \X Vols)
  BY DEF Inv, Sound, Members, Cfs
<1>5. c = AddMaps(d, S)
  BY <1>2
<1> HIDE DEF S
<1>6. c \in Cfs /\ c.map = d.map \cup S /\ c.wwn = d.wwn /\ c.tag = d.tag /\ c.acl = d.acl
  BY <1>3, <1>4, <1>5 DEF AddMaps, Cfs
<1>7. \A i \in Members(cfs, g) : ~LunTaken(cfs, i, l)
  BY <1>2, <1>3 DEF LunTaken, MapsOf
<1>8. Known(c) /\ Tagged(c)
  <2>1. Known(d) /\ Tagged(d)
    BY <1>2, LookedKnown
  <2> QED
    BY <1>6, <2>1 DEF Known, Tagged
<1>9. c.map = cfs.map \cup (Members(cfs, g) \X {l} \X {v}) /\ v \in Existing
  BY <1>2, <1>3, <1>6 DEF S, Existing
<1> QED
  BY <1>6, <1>7, <1>8, <1>9, Zenon

\* access_group_map_destroy: the LUN ids some member sees the volume at.
LEMMA UnmappedIs ==
    ASSUME Inv, NEW c, Unmapped(c)
    PROVE  /\ c \in Cfs /\ Known(c) /\ Tagged(c)
           /\ \E g \in Groups, v \in Vols, ids \in SUBSET LunIds :
                 SeenAt(g, v, ids) /\ c.map = cfs.map \ (Members(cfs, g) \X ids \X Vols)
<1>1. PICK d : \E g \in Groups, v \in Vols, ids \in SUBSET LunIds :
         /\ Looked(d) /\ SeenAt(g, v, ids)
         /\ c = DropUnmapped(DeleteMaps(d, Members(cfs, g) \X ids \X Vols), v)
  BY DEF Unmapped
<1>2. PICK g \in Groups, v \in Vols, ids \in SUBSET LunIds :
         /\ Looked(d) /\ SeenAt(g, v, ids)
         /\ c = DropUnmapped(DeleteMaps(d, Members(cfs, g) \X ids \X Vols), v)
  BY <1>1
<1> DEFINE S == Members(cfs, g) \X ids \X Vols
           e == DeleteMaps(d, S)
<1>3. d \in Cfs /\ d.map = cfs.map
  BY <1>2 DEF Looked
<1>4. c = DropUnmapped(e, v)
  BY <1>2
<1> HIDE DEF S
<1>5. e \in Cfs /\ e.map = cfs.map \ S /\ e.wwn = d.wwn /\ e.tag = d.tag /\ e.acl = d.acl
  BY <1>3 DEF DeleteMaps, Cfs
<1>6. Known(e) /\ Tagged(e)
  BY <1>2, <1>5, LookedKnown DEF Known, Tagged
<1> HIDE DEF e
<1>7. c \in Cfs /\ Known(c) /\ c.map = e.map /\ c.acl = e.acl /\ c.tag = e.tag
  BY <1>4, <1>5, <1>6, DropUnmappedIs
<1>8. Tagged(c)
  BY <1>6, <1>7 DEF Tagged
<1>9. c.map = cfs.map \ (Members(cfs, g) \X ids \X Vols)
  BY <1>3, <1>5, <1>7 DEF S
<1> QED
  BY <1>2, <1>7, <1>8, <1>9

\* access_group_map_create, half way: some members have the volume at an id they
\* had free.
LEMMA HalfMappedIs ==
    ASSUME Inv, NEW g \in Groups, NEW v \in Vols, NEW c, HalfMapped(c, g, v)
    PROVE  \E l \in LunIds : \E done \in SUBSET Members(cfs, g) :
              /\ v \in Existing
              /\ \A i \in done : ~LunTaken(cfs, i, l)
              /\ c.map = cfs.map \cup (done \X {l} \X {v})
<1>1. PICK d : \E l \in LunIds :
         /\ Looked(d) /\ Exists(v)
         /\ \E done \in SUBSET {i \in Members(cfs, g) : ~LunTaken(d, i, l)} :
                c = AddMaps(d, done \X {l} \X {v})
  BY DEF HalfMapped
<1>2. PICK l \in LunIds :
         /\ Looked(d) /\ Exists(v)
         /\ \E done \in SUBSET {i \in Members(cfs, g) : ~LunTaken(d, i, l)} :
                c = AddMaps(d, done \X {l} \X {v})
  BY <1>1
<1>3. PICK done \in SUBSET {i \in Members(cfs, g) : ~LunTaken(d, i, l)} :
         c = AddMaps(d, done \X {l} \X {v})
  BY <1>2
<1>4. d \in Cfs /\ d.map = cfs.map
  BY <1>2 DEF Looked
<1>5. \A i \in done : ~LunTaken(cfs, i, l)
  BY <1>3, <1>4 DEF LunTaken, MapsOf
<1> DEFINE S == done \X {l} \X {v}
<1> HIDE DEF S
<1>6. c.map = cfs.map \cup S
  BY <1>3, <1>4 DEF AddMaps, Cfs, S
<1>7. done \in SUBSET Members(cfs, g) /\ v \in Existing
  BY <1>2, <1>3 DEF Existing
<1>8. c.map = cfs.map \cup (done \X {l} \X {v})
  BY <1>6 DEF S
<1> QED
  BY <1>5, <1>7, <1>8

\* Nothing else of the rights has changed.
LEMMA HalfMappedKeeps ==
    ASSUME NEW g, NEW v, NEW c, HalfMapped(c, g, v)
    PROVE  /\ c.tag = cfs.tag /\ c.chap = cfs.chap /\ cfs.acl \subseteq c.acl
           /\ \A w \in Vols : \/ c.wwn[w] = cfs.wwn[w]
                              \/ cfs.wwn[w] = 0 /\ c.wwn[w] \in {gen[w], Generated}
<1>1. PICK d : Looked(d) /\ \E S : c = AddMaps(d, S)
  BY DEF HalfMapped
<1>2. c.tag = d.tag /\ c.chap = d.chap /\ c.acl = d.acl /\ c.wwn = d.wwn
  BY <1>1 DEF AddMaps, Looked, Cfs
<1> QED
  BY <1>1, <1>2 DEF Looked

\* In every tree a call saves, identities are old, current or generated ones.
LEMMA SavedKnown ==
    ASSUME Inv, NEW c, Saved(c)
    PROVE  c \in Cfs /\ Known(c)
<1>1. ASSUME NEW i \in AuthInits, NEW s \in {"none", "set"}, Authenticated(c, i, s)
      PROVE  c \in Cfs /\ Known(c)
  BY <1>1, AuthenticatedIs, InitsAssumption
<1> QED
  BY <1>1, FoundedIs, JoinedIs, LeftIs, MappedIs, UnmappedIs DEF Saved

-----------------------------------------------------------------------------
(* What an initiator sees at a LUN id, and as which volume.                *)

Single(c) == \A m, n \in c.map : m[1] = n[1] /\ m[2] = n[2] => m = n

\* Identities are current or generated, and the saved tree has no storage object
\* the live one has not, as long as no save is lost: a reboot brings back no other.
Current ==
    \A v \in Vols : /\ cfs.wwn[v] \in {0, gen[v], Generated}
                    /\ saved.wwn[v] \in {0, cfs.wwn[v]}

IdInv ==
    /\ Inv
    /\ Single(cfs) /\ Single(saved)
    /\ lost = 0 => Current

\* No call that treats one initiator singly shows it two volumes at one LUN id.
LEMMA SinglySingle ==
    ASSUME Inv, Single(cfs), NEW i \in Initiators, NEW v \in Vols,
           NEW c, Exported(c, i, v) \/ Unexported(c, i, v)
    PROVE  Single(c) /\ c \in Cfs /\ Known(c)
<1>0. cfs.map \subseteq Initiators \X LunIds \X Vols
  BY DEF Inv, Sound, Cfs
<1>1. CASE Exported(c, i, v)
  <2>1. PICK l \in LunIds :
           /\ LunTaken(cfs, i, l) => <<i, l, v>> \in cfs.map
           /\ c.map = cfs.map \cup {<<i, l, v>>}
    BY <1>1, ExportedIs
  <2>2. Single(c)
    BY <1>0, <2>1 DEF Single, LunTaken, MapsOf
  <2> QED
    BY <1>1, <2>2, ExportedIs
<1>2. CASE Unexported(c, i, v)
  <2>1. c.map \subseteq cfs.map
    BY <1>2, UnexportedIs
  <2>2. Single(c)
    BY <2>1 DEF Single
  <2> QED
    BY <1>2, <2>2, UnexportedIs
<1> QED
  BY <1>1, <1>2

\* Nor does any other call that saves.
LEMMA SavedSingle ==
    ASSUME Inv, Single(cfs), NEW c, Saved(c)
    PROVE  Single(c)
<1>0. cfs.map \subseteq Initiators \X LunIds \X Vols /\ \A m \in cfs.map : m[1] \in cfs.acl
  BY DEF Inv, Sound, Cfs, Rooted
<1>1. ASSUME NEW i \in AuthInits, NEW s \in {"none", "set"}, Authenticated(c, i, s)
      PROVE  Single(c)
  <2>1. c.map = cfs.map
    BY <1>1, AuthenticatedIs, InitsAssumption
  <2> QED
    BY <2>1 DEF Single
<1>2. CASE Joined(c)
  <2>1. PICK i \in AgInits, g \in Groups : \E model \in Members(cfs, g) :
                 /\ i \notin cfs.acl /\ i \in c.acl
                 /\ c.tag = [cfs.tag EXCEPT ![i] = g]
                 /\ c.map = cfs.map \cup {<<i, m[2], m[3]>> : m \in MapsOf(cfs, model)}
    BY <1>2, JoinedIs
  <2>2. PICK model \in Members(cfs, g) :
                 /\ i \notin cfs.acl
                 /\ c.map = cfs.map \cup {<<i, m[2], m[3]>> : m \in MapsOf(cfs, model)}
    BY <2>1
  <2>3. \A m, n \in MapsOf(cfs, model) : m[2] = n[2] => m[3] = n[3]
    BY DEF MapsOf, Single
  <2> DEFINE S == {<<i, m[2], m[3]>> : m \in MapsOf(cfs, model)}
  <2>4. \A x, y \in S : x[2] = y[2] => x = y
    BY <2>3
  <2>5. \A x \in S : x[1] = i
    OBVIOUS
  <2>6. \A m \in cfs.map : m[1] # i
    BY <1>0, <2>2
  <2>7. c.map = cfs.map \cup S
    BY <2>2
  <2> HIDE DEF S
  <2> QED
    BY <2>4, <2>5, <2>6, <2>7 DEF Single
<1>3. CASE Mapped(c)
  <2>1. PICK g \in Groups, l \in LunIds, v \in Existing :
                 /\ \A i \in Members(cfs, g) : ~LunTaken(cfs, i, l)
                 /\ c.map = cfs.map \cup (Members(cfs, g) \X {l} \X {v})
    BY <1>3, MappedIs
  <2> QED
    BY <1>0, <2>1 DEF Single, LunTaken, MapsOf
<1>4. CASE Founded(c) \/ Left(c) \/ Unmapped(c)
  <2>1. c.map \subseteq cfs.map
    BY <1>4, FoundedIs, LeftIs, UnmappedIs
  <2> QED
    BY <2>1 DEF Single
<1> QED
  BY <1>1, <1>2, <1>3, <1>4 DEF Saved

\* Nor does an access_group_map_create that fails half way.
LEMMA HalfMappedSingle ==
    ASSUME Inv, Single(cfs), NEW g \in Groups, NEW v \in Vols, NEW c, HalfMapped(c, g, v)
    PROVE  Single(c)
<1>0. cfs.map \subseteq Initiators \X LunIds \X Vols
  BY DEF Inv, Sound, Cfs
<1>1. PICK l \in LunIds : \E done \in SUBSET Members(cfs, g) :
                 /\ v \in Existing
                 /\ \A i \in done : ~LunTaken(cfs, i, l)
                 /\ c.map = cfs.map \cup (done \X {l} \X {v})
  BY HalfMappedIs
<1>2. PICK done \in SUBSET Members(cfs, g) :
                 /\ v \in Existing
                 /\ \A i \in done : ~LunTaken(cfs, i, l)
                 /\ c.map = cfs.map \cup (done \X {l} \X {v})
  BY <1>1
<1> DEFINE S == done \X {l} \X {v}
<1>3. \A m \in S : ~LunTaken(cfs, m[1], m[2]) /\ m[2] = l /\ m[3] = v /\ m = <<m[1], l, v>>
  BY <1>2
<1>4. c.map = cfs.map \cup S
  BY <1>2
<1> HIDE DEF S
<1> QED
  BY <1>0, <1>3, <1>4 DEF Single, LunTaken, MapsOf

\* Every step keeps IdInv.
LEMMA IdInvKept ==
    ASSUME IdInv, [Next]_vars, Inv'
    PROVE  IdInv'
<1>0. Inv /\ Single(cfs) /\ lost \in Nat /\ cfs \in Cfs /\ saved \in Cfs
  BY BoundsAssumption DEF IdInv, Inv, StateOK
<1>1. CASE Pooled
  <2>1. Single(cfs') /\ Single(saved')
    BY <1>1 DEF Pooled, IdInv
  <2>2. lost' = 0 => Current'
    <3>1. \A v \in Vols : vol[v] = 0 => cfs.wwn[v] = 0
      BY <1>0 DEF Inv, Sound, StorageObjects, Existing, Exists
    <3> QED
      BY <1>0, <1>1, <3>1 DEF Pooled, IdInv, Current
  <2> QED
    BY <2>1, <2>2 DEF IdInv, Single
<1>2. ASSUME NEW c, NEW code, Reply(c, code), Single(c),
             \A v \in Vols : \/ c.wwn[v] = cfs.wwn[v]
                             \/ cfs.wwn[v] = 0 /\ c.wwn[v] \in {gen[v], Generated}
      PROVE  IdInv'
  <2>1. cfs' = c /\ saved' = saved /\ lost' = lost /\ gen' = gen
    BY <1>2 DEF Reply
  <2>2. lost' = 0 => Current'
    BY <1>2, <2>1 DEF IdInv, Current
  <2> QED
    BY <1>2, <2>1, <2>2 DEF IdInv, Single
<1>3. CASE LookStep
  <2>1. PICK c : \E code \in Codes : Looked(c) /\ Reply(c, code)
    BY <1>3 DEF LookStep
  <2>2. Single(c)
    BY <1>0, <2>1 DEF Looked, Single
  <2> QED
    BY <1>2, <2>1, <2>2 DEF Looked
<1>4. ASSUME NEW c, Single(c), Known(c), c \in Cfs, Save(c)
      PROVE  IdInv'
  <2>1. cfs' = c /\ gen' = gen
    BY <1>4 DEF Save
  <2>2. CASE saved' = c /\ UNCHANGED lost
    <3>1. lost' = 0 => Current'
      BY <1>0, <1>4, <2>1, <2>2 DEF IdInv, Current, Known
    <3> QED
      BY <1>4, <2>1, <2>2, <3>1 DEF IdInv, Single
  <2>3. CASE lost' = lost + 1 /\ UNCHANGED saved
    BY <1>0, <1>4, <2>1, <2>3 DEF IdInv, Single
  <2> QED
    BY <1>4, <2>2, <2>3 DEF Save
<1>5. ASSUME NEW g \in Groups, NEW v \in Vols, HalfMapStep(g, v)
      PROVE  IdInv'
  <2>1. PICK c : HalfMapped(c, g, v) /\ Reply(c, "ERROR")
    BY <1>5 DEF HalfMapStep
  <2>2. Single(c)
    BY <1>0, <2>1, HalfMappedSingle
  <2> QED
    BY <1>2, <2>1, <2>2, HalfMappedKeeps
<1>6. ASSUME NEW i \in AuthInits, HalfAuthStep(i)
      PROVE  IdInv'
  <2>1. PICK c : Authenticated(c, i, "mixed") /\ Reply(c, "ERROR")
    BY <1>6 DEF HalfAuthStep
  <2>2. /\ c.map = cfs.map
        /\ \A v \in Vols : \/ c.wwn[v] = cfs.wwn[v]
                           \/ cfs.wwn[v] = 0 /\ c.wwn[v] \in {gen[v], Generated}
    BY <2>1, AuthenticatedIs, InitsAssumption
  <2>3. Single(c)
    BY <1>0, <2>2 DEF Single
  <2> QED
    BY <1>2, <2>1, <2>2, <2>3
<1>7. ASSUME NEW i \in ExportInits, NEW v \in Vols, SingleStep(i, v)
      PROVE  IdInv'
  <2>1. PICK c : (Exported(c, i, v) \/ Unexported(c, i, v)) /\ Save(c)
    BY <1>7 DEF SingleStep
  <2> QED
    BY <1>0, <1>4, <2>1, SinglySingle, InitsAssumption
<1>8. CASE SaveStep
  <2>1. PICK c : Saved(c) /\ Save(c)
    BY <1>8 DEF SaveStep
  <2> QED
    BY <1>0, <1>4, <2>1, SavedSingle, SavedKnown
<1>9. CASE Reboot
  <2>1. /\ cfs' = Restore(saved, Existing)
        /\ saved' = saved /\ lost' = lost /\ gen' = gen /\ vol' = vol
    BY <1>9 DEF Reboot
  <2>2. /\ cfs'.map = {m \in saved.map : m[3] \in Existing}
        /\ \A v \in Vols : cfs'.wwn[v] = IF v \in Existing THEN saved.wwn[v] ELSE 0
    BY <1>0, <2>1 DEF Restore, Cfs
  <2>3. Single(cfs') /\ Single(saved')
    BY <2>1, <2>2 DEF IdInv, Single
  <2>4. \A v \in Vols : v \notin Existing => cfs.wwn[v] = 0
    BY <1>0 DEF Inv, Sound, StorageObjects
  <2>5. lost' = 0 => Current'
    BY <2>1, <2>2, <2>4 DEF IdInv, Current
  <2> QED
    BY <2>3, <2>5 DEF IdInv, Single
<1>10. CASE UNCHANGED vars
  BY <1>10 DEF vars, IdInv, Single, Current
<1> QED
  BY <1>0, <1>1, <1>3, <1>5, <1>6, <1>7, <1>8, <1>9, <1>10, Steps DEF Kinds

\* One volume per LUN id in both trees, and no identity of the past unless a save
\* is lost.
THEOREM IdInvHolds == Spec => []IdInv
<1>1. Init => IdInv \/ ~Inv
  BY BoundsAssumption DEF Init, IdInv, Single, Current, EmptyCfs
<1>2. IdInv /\ [Next]_vars /\ Inv' => IdInv'
  BY IdInvKept
<1> QED
  BY <1>1, <1>2, InvInvariant, PTL DEF Spec

\* Whatever exports, groups and newcomers to groups came before, and however many
\* of them failed or were forgotten by a reboot, export_create and
\* access_group_map_create give an initiator one volume per LUN id.
THEOREM LunsShowOneVolume == Spec => []OneVolumePerLun
<1>1. IdInv => OneVolumePerLun
  BY DEF IdInv, Single, OneVolumePerLun
<1> QED
  BY <1>1, IdInvHolds, PTL

\* A volume made under the name of a destroyed one is not shown with that one's
\* identity, also after a reboot and where _tpg_lun_of failed half way, unless a
\* save was lost.
THEOREM NoOldIdentity == Spec => []SoWwnNeverStale
<1>1. IdInv => SoWwnNeverStale
  BY DEF IdInv, Current, SoWwnNeverStale, StorageObjects
<1> QED
  BY <1>1, IdInvHolds, PTL

-----------------------------------------------------------------------------
(* What a call takes away, and what it shows.                              *)

\* What failing calls leave of the tree before them.
LEMMA HalfKeeps ==
    ASSUME Inv, NEW c,
           \/ \E g \in Groups, v \in Vols : HalfMapped(c, g, v)
           \/ \E i \in AuthInits : Authenticated(c, i, "mixed")
    PROVE  cfs.map \subseteq c.map /\ c.tag = cfs.tag /\ cfs.acl \subseteq c.acl
<1>1. ASSUME NEW g \in Groups, NEW v \in Vols, HalfMapped(c, g, v)
      PROVE  cfs.map \subseteq c.map /\ c.tag = cfs.tag /\ cfs.acl \subseteq c.acl
  <2>0. PICK l \in LunIds : \E done \in SUBSET Members(cfs, g) :
               /\ v \in Existing
               /\ \A i \in done : ~LunTaken(cfs, i, l)
               /\ c.map = cfs.map \cup (done \X {l} \X {v})
    BY <1>1, HalfMappedIs
  <2>1. cfs.map \subseteq c.map
    BY <2>0
  <2> QED
    BY <1>1, <2>1, HalfMappedKeeps
<1>2. ASSUME NEW i \in AuthInits, Authenticated(c, i, "mixed")
      PROVE  cfs.map \subseteq c.map /\ c.tag = cfs.tag /\ cfs.acl \subseteq c.acl
  BY <1>2, AuthenticatedIs, InitsAssumption
<1> QED
  BY <1>1, <1>2

\* export_destroy, access_group_destroy, access_group_init_del and
\* access_group_map_destroy, with the tidying that follows them, take volumes only
\* from the initiator or the group the call names.
THEOREM LossesAreLocal == Spec => LossIsLocal
<1> DEFINE losers == {m[1] : m \in cfs.map \ cfs'.map}
           Local == losers # {} /\ reply' # "boot" =>
                        \/ \E i \in Initiators : losers \subseteq {i}
                        \/ \E g \in Groups : losers \subseteq Members(cfs, g)
<1>1. Inv /\ [Next]_vars => [Local]_vars
  <2> SUFFICES ASSUME Inv, Next PROVE Local
    OBVIOUS
  <2>1. ASSUME cfs.map \subseteq cfs'.map
        PROVE  Local
    <3>1. losers = {}
      BY <2>1
    <3> QED
      BY <3>1
  <2>2. CASE LookStep \/ Pooled
    <3>1. cfs.map \subseteq cfs'.map
      BY <2>2 DEF LookStep, Looked, Reply, Pooled
    <3> HIDE DEF Local
    <3> QED
      BY <2>1, <3>1
  <2>3. ASSUME \/ \E g \in Groups, v \in Vols : HalfMapStep(g, v)
               \/ \E i \in AuthInits : HalfAuthStep(i)
        PROVE  Local
    <3>1. cfs.map \subseteq cfs'.map
      BY <2>3, HalfKeeps DEF HalfMapStep, HalfAuthStep, Reply
    <3> HIDE DEF Local
    <3> QED
      BY <2>1, <3>1
  <2>4. ASSUME NEW i \in ExportInits, NEW v \in Vols, SingleStep(i, v)
        PROVE  Local
    <3>1. PICK c : (Exported(c, i, v) \/ Unexported(c, i, v)) /\ Save(c)
      BY <2>4 DEF SingleStep
    <3>2. cfs' = c /\ i \in Initiators
      BY <3>1, InitsAssumption DEF Save
    <3>3. CASE Exported(c, i, v)
      <4>0. PICK l \in LunIds : c.map = cfs.map \cup {<<i, l, v>>}
        BY <3>2, <3>3, ExportedIs
      <4>1. cfs.map \subseteq c.map
        BY <4>0
      <4> HIDE DEF Local
      <4> QED
        BY <2>1, <3>2, <4>1
    <3>4. CASE Unexported(c, i, v)
      <4>1. \E m \in MapsOf(cfs, i) : c.map = cfs.map \ {m}
        BY <3>2, <3>4, UnexportedIs
      <4>2. losers \subseteq {i}
        BY <3>2, <4>1 DEF MapsOf
      <4> QED
        BY <3>2, <4>2
    <3> QED
      BY <3>1, <3>3, <3>4
  <2>5. CASE SaveStep
    <3>1. PICK c : Saved(c) /\ Save(c)
      BY <2>5 DEF SaveStep
    <3>0. cfs' = c
      BY <3>1 DEF Save
    <3>2. CASE (\E i \in AuthInits, s \in {"none", "set"} : Authenticated(c, i, s))
               \/ Founded(c)
      <4>1. c.map = cfs.map
        BY <3>2, AuthenticatedIs, FoundedIs, InitsAssumption
      <4> HIDE DEF Local
      <4> QED
        BY <2>1, <3>0, <4>1
    <3>5. CASE Joined(c)
      <4>1. PICK i \in AgInits, g \in Groups : \E model \in Members(cfs, g) :
               /\ i \notin cfs.acl /\ i \in c.acl
               /\ c.tag = [cfs.tag EXCEPT ![i] = g]
               /\ c.map = cfs.map \cup {<<i, m[2], m[3]>> : m \in MapsOf(cfs, model)}
        BY <3>5, JoinedIs
      <4>2. cfs.map \subseteq c.map
        BY <4>1
      <4> HIDE DEF Local
      <4> QED
        BY <2>1, <3>0, <4>2
    <3>6. CASE Mapped(c)
      <4>1. PICK g \in Groups, l \in LunIds, v \in Existing :
               c.map = cfs.map \cup (Members(cfs, g) \X {l} \X {v})
        BY <3>6, MappedIs
      <4>2. cfs.map \subseteq c.map
        BY <4>1
      <4> HIDE DEF Local
      <4> QED
        BY <2>1, <3>0, <4>2
    <3>3. CASE Left(c)
      <4>1. PICK g \in Groups : \E S \in SUBSET Members(cfs, g) :
                                    c.map = {m \in cfs.map : m[1] \notin S}
        BY <3>3, LeftIs
      <4>2. losers \subseteq Members(cfs, g)
        BY <3>0, <4>1
      <4> QED
        BY <4>2
    <3>4. CASE Unmapped(c)
      <4>1. PICK g \in Groups, v \in Vols, ids \in SUBSET LunIds :
                SeenAt(g, v, ids) /\ c.map = cfs.map \ (Members(cfs, g) \X ids \X Vols)
        BY <3>4, UnmappedIs
      <4>2. losers \subseteq Members(cfs, g)
        BY <3>0, <4>1
      <4> QED
        BY <4>2
    <3> QED
      BY <3>1, <3>2, <3>3, <3>4, <3>5, <3>6 DEF Saved
  <2>6. CASE Reboot
    BY <2>6 DEF Reboot
  <2> HIDE DEF Local
  <2> QED
    BY <2>2, <2>3, <2>4, <2>5, <2>6, Steps DEF Kinds
<1> QED
  BY <1>1, InvInvariant, PTL DEF Spec, LossIsLocal

\* The same of what a call shows, whether the call fails half way or saves.
THEOREM GainsAreLocal == Spec => GainIsLocal
<1> DEFINE gained == cfs'.map \ cfs.map
           Local == gained # {} /\ reply' # "boot" =>
               \/ \E l \in LunIds, v \in Existing :
                      \/ \E i \in Initiators : gained = {<<i, l, v>>}
                      \/ \E g \in Groups : gained \subseteq Members(cfs, g) \X {l} \X {v}
               \/ \E i \in Initiators \ cfs.acl, g \in Groups :
                      \E model \in Members(cfs, g) :
                          gained = {<<i, m[2], m[3]>> : m \in MapsOf(cfs, model)}
<1>1. Inv /\ [Next]_vars => [Local]_vars
  <2> SUFFICES ASSUME Inv, Next PROVE Local
    OBVIOUS
  <2>1. ASSUME cfs'.map \subseteq cfs.map
        PROVE  Local
    <3>1. gained = {}
      BY <2>1
    <3> QED
      BY <3>1
  <2>2. ASSUME NEW g \in Groups, NEW l \in LunIds, NEW v \in Existing,
               NEW S \in SUBSET Members(cfs, g), cfs'.map = cfs.map \cup (S \X {l} \X {v})
        PROVE  Local
    <3>1. gained \subseteq Members(cfs, g) \X {l} \X {v}
      BY <2>2
    <3> HIDE DEF gained
    <3> QED
      BY <3>1
  <2> HIDE DEF Local, gained
  <2>3. CASE LookStep \/ Pooled
    <3>1. cfs'.map \subseteq cfs.map
      BY <2>3 DEF LookStep, Looked, Reply, Pooled
    <3> QED
      BY <2>1, <3>1
  <2>4. ASSUME NEW g \in Groups, NEW v \in Vols, HalfMapStep(g, v)
        PROVE  Local
    <3>1. PICK c : HalfMapped(c, g, v) /\ Reply(c, "ERROR")
      BY <2>4 DEF HalfMapStep
    <3>2. cfs' = c
      BY <3>1 DEF Reply
    <3>3. PICK l \in LunIds : \E done \in SUBSET Members(cfs, g) :
                 /\ v \in Existing
                 /\ \A i \in done : ~LunTaken(cfs, i, l)
                 /\ c.map = cfs.map \cup (done \X {l} \X {v})
      BY <3>1, HalfMappedIs
    <3> QED
      BY <2>2, <3>2, <3>3
  <2>5. ASSUME NEW i \in AuthInits, HalfAuthStep(i)
        PROVE  Local
    <3>1. cfs'.map = cfs.map
      BY <2>5, AuthenticatedIs, InitsAssumption DEF HalfAuthStep, Reply
    <3> QED
      BY <2>1, <3>1
  <2>6. ASSUME NEW i \in ExportInits, NEW v \in Vols, SingleStep(i, v)
        PROVE  Local
    <3>1. PICK c : (Exported(c, i, v) \/ Unexported(c, i, v)) /\ Save(c)
      BY <2>6 DEF SingleStep
    <3>2. cfs' = c /\ i \in Initiators
      BY <3>1, InitsAssumption DEF Save
    <3>3. CASE Unexported(c, i, v)
      <4>1. cfs'.map \subseteq cfs.map
        BY <3>2, <3>3, UnexportedIs
      <4> QED
        BY <2>1, <4>1
    <3>4. CASE Exported(c, i, v)
      <4>1. PICK l \in LunIds : c.map = cfs.map \cup {<<i, l, v>>}
        BY <3>2, <3>4, ExportedIs
      <4>2. v \in Existing
        BY <3>2, <3>4, ExportedIs
      <4>3. gained # {} => gained = {<<i, l, v>>}
        BY <3>2, <4>1 DEF gained
      <4> QED
        BY <3>2, <4>2, <4>3 DEF Local
    <3> QED
      BY <3>1, <3>3, <3>4
  <2>7. CASE SaveStep
    <3>1. PICK c : Saved(c) /\ Save(c)
      BY <2>7 DEF SaveStep
    <3>0. cfs' = c /\ cfs.acl \subseteq Initiators
      BY <3>1 DEF Save, Inv, Sound, Cfs
    <3>2. CASE (\E i \in AuthInits, s \in {"none", "set"} : Authenticated(c, i, s))
               \/ Founded(c) \/ Left(c) \/ Unmapped(c)
      <4>1. cfs'.map \subseteq cfs.map
        BY <3>0, <3>2, AuthenticatedIs, FoundedIs, LeftIs, UnmappedIs, InitsAssumption
      <4> QED
        BY <2>1, <4>1
    <3>3. CASE Joined(c)
      <4>1. PICK i \in AgInits, g \in Groups : \E model \in Members(cfs, g) :
               /\ i \notin cfs.acl /\ i \in c.acl
               /\ c.tag = [cfs.tag EXCEPT ![i] = g]
               /\ c.map = cfs.map \cup {<<i, m[2], m[3]>> : m \in MapsOf(cfs, model)}
        BY <3>3, JoinedIs
      <4>2. PICK model \in Members(cfs, g) :
               /\ i \notin cfs.acl
               /\ c.map = cfs.map \cup {<<i, m[2], m[3]>> : m \in MapsOf(cfs, model)}
        BY <4>1
      <4> DEFINE seen == {<<i, m[2], m[3]>> : m \in MapsOf(cfs, model)}
      <4>3. \A m \in seen : m \notin cfs.map
        BY <4>2 DEF Inv, Sound, Rooted
      <4>4. c.map = cfs.map \cup seen
        BY <4>2
      <4> HIDE DEF seen
      <4>5. gained = seen
        BY <3>0, <4>3, <4>4 DEF gained
      <4>6. i \in Initiators \ cfs.acl
        BY <4>2, InitsAssumption
      <4>7. gained = {<<i, m[2], m[3]>> : m \in MapsOf(cfs, model)}
        BY <4>5 DEF seen
      <4> QED
        BY <4>6, <4>7 DEF Local
    <3>4. CASE Mapped(c)
      <4>1. PICK g \in Groups, l \in LunIds, v \in Existing :
               c.map = cfs.map \cup (Members(cfs, g) \X {l} \X {v})
        BY <3>4, MappedIs
      <4> QED
        BY <2>2, <3>0, <4>1
    <3> QED
      BY <3>1, <3>2, <3>3, <3>4 DEF Saved
  <2>8. CASE Reboot
    BY <2>8 DEF Reboot, Local
  <2> QED
    BY <2>3, <2>4, <2>5, <2>6, <2>7, <2>8, Steps DEF Kinds
<1> QED
  BY <1>1, InvInvariant, PTL DEF Spec, GainIsLocal

\* Calls that answer with an error have looked nodes up, or left half of what they
\* do, which takes nothing from anybody.
THEOREM FailuresRevokeNothing == Spec => FailedCallRevokesNothing
<1> DEFINE Harmless == reply' \notin {"ok", "lost", "boot"} =>
               /\ cfs.map \subseteq cfs'.map
               /\ cfs.tag = cfs'.tag /\ cfs.acl \subseteq cfs'.acl
               /\ \A i, j \in Initiators :
                      cfs.chap[i] # cfs'.chap[i] /\ cfs.chap[j] # cfs'.chap[j] => i = j
               /\ reply' # "ERROR" => cfs.map = cfs'.map /\ cfs.chap = cfs'.chap
<1>1. Inv /\ [Next]_vars => [Harmless]_vars
  <2> SUFFICES ASSUME Inv, Next PROVE Harmless
    OBVIOUS
  <2>1. CASE LookStep \/ Pooled
    BY <2>1 DEF LookStep, Looked, Reply, Pooled
  <2>2. ASSUME NEW g \in Groups, NEW v \in Vols, HalfMapStep(g, v)
        PROVE  Harmless
    <3>1. PICK c : HalfMapped(c, g, v) /\ Reply(c, "ERROR")
      BY <2>2 DEF HalfMapStep
    <3>2. cfs.map \subseteq c.map
      BY <3>1, HalfKeeps
    <3>3. c.tag = cfs.tag /\ c.chap = cfs.chap /\ cfs.acl \subseteq c.acl
      BY <3>1, HalfMappedKeeps
    <3> QED
      BY <3>1, <3>2, <3>3 DEF Reply
  <2>3. ASSUME NEW i \in AuthInits, HalfAuthStep(i)
        PROVE  Harmless
    <3>1. PICK c : Authenticated(c, i, "mixed") /\ Reply(c, "ERROR")
      BY <2>3 DEF HalfAuthStep
    <3>2. /\ c.map = cfs.map /\ c.tag = cfs.tag /\ cfs.acl \subseteq c.acl
          /\ \A j \in Initiators \ {i} : c.chap[j] = cfs.chap[j]
      BY <3>1, AuthenticatedIs, InitsAssumption
    <3> QED
      BY <3>1, <3>2 DEF Reply
  <2>4. CASE SaveStep \/ \E i \in ExportInits, v \in Vols : SingleStep(i, v)
    <3>1. reply' \in {"ok", "lost"}
      BY <2>4 DEF SaveStep, SingleStep, Save
    <3> QED
      BY <3>1
  <2>5. CASE Reboot
    BY <2>5 DEF Reboot
  <2> HIDE DEF Harmless
  <2> QED
    BY <2>1, <2>2, <2>3, <2>4, <2>5, Steps DEF Kinds
<1> QED
  BY <1>1, InvInvariant, PTL DEF Spec, FailedCallRevokesNothing

-----------------------------------------------------------------------------
(* Members of a group see the same volumes, except those that were treated *)
(* singly or half way.                                                     *)

\* A NodeACL without a tag may come and go; one with a tag stays.
Kempt(c) == \A i \in Initiators : c.tag[i] # NoTag => i \in c.acl

Agree(c, i, j, v) == \A l \in LunIds : <<i, l, v>> \in c.map <=> <<j, l, v>> \in c.map

\* Members agree about all volumes but those in U.
Level(c, U) ==
    \A i, j \in Initiators, v \in Vols :
        c.tag[i] = c.tag[j] /\ c.tag[i] # NoTag /\ <<c.tag[i], v>> \notin U => Agree(c, i, j, v)

GroupInv ==
    /\ Inv
    /\ Kempt(cfs) /\ Kempt(saved)
    /\ Level(cfs, uneven) /\ Level(saved, uneven)

\* A call that may have made `pair` uneven leaves members agreeing otherwise.
Leveled(c, pair) ==
    \A i, j \in Initiators, v \in Vols :
        /\ c.tag[i] = c.tag[j] /\ c.tag[i] # NoTag
        /\ <<c.tag[i], v>> \notin uneven
        /\ c.map # cfs.map => <<c.tag[i], v>> \notin pair
        => Agree(c, i, j, v)

\* What is noted down then makes good for the rest.
LEMMA Settled ==
    ASSUME GroupInv, Inv', NEW pair, Mark(pair), Kempt(cfs'), Leveled(cfs', pair),
           saved' = saved \/ saved' = cfs'
    PROVE  GroupInv'
<1>1. ASSUME NEW c \in {cfs', saved'}, NEW i \in Initiators, NEW v \in Vols, c.tag[i] # NoTag,
             Kempt(c), <<c.tag[i], v>> \notin uneven'
      PROVE  <<c.tag[i], v>> \notin uneven /\ (cfs'.map # cfs.map => <<c.tag[i], v>> \notin pair)
  <2>1. c.tag[i] \in GroupNames(cfs') \cup GroupNames(saved')
    BY <1>1 DEF Kempt, GroupNames
  <2>2. <<c.tag[i], v>>[1] = c.tag[i]
    OBVIOUS
  <2> QED
    BY <1>1, <2>1, <2>2 DEF Mark
<1>2. Level(cfs', uneven')
  BY <1>1 DEF Level, Leveled
<1>3. Kempt(saved')
  BY DEF GroupInv
<1>4. Level(saved', uneven')
  <2>1. CASE saved' = cfs'
    BY <1>2, <2>1
  <2>2. CASE saved' = saved
    BY <1>1, <1>3, <2>2 DEF Level, GroupInv
  <2> QED
    BY <2>1, <2>2
<1> QED
  BY <1>2, <1>3, <1>4 DEF GroupInv, Kempt, Level, Agree

\* Changes that concern no mapping and no tag.
LEMMA SameLeveled ==
    ASSUME GroupInv, NEW c, c.map = cfs.map, c.tag = cfs.tag, cfs.acl \subseteq c.acl, NEW pair
    PROVE  Kempt(c) /\ Leveled(c, pair)
BY DEF GroupInv, Kempt, Leveled, Level, Agree

\* One initiator is shown a volume, or loses one.
LEMMA SinglyLeveled ==
    ASSUME GroupInv, NEW i \in Initiators, NEW v \in Vols,
           NEW c, Exported(c, i, v) \/ Unexported(c, i, v)
    PROVE  Kempt(c) /\ Leveled(c, {<<cfs.tag[i], v>>})
<1>1. Tagged(c)
  BY ExportedIs, UnexportedIs DEF GroupInv
<1>2. \A j \in Initiators, w \in Vols : j # i \/ w # v =>
         \A l \in LunIds : <<j, l, w>> \in c.map <=> <<j, l, w>> \in cfs.map
  <2>1. CASE Exported(c, i, v)
    <3>1. PICK l \in LunIds : c.map = cfs.map \cup {<<i, l, v>>}
      BY <2>1, ExportedIs
    <3> QED
      BY <3>1
  <2>2. CASE Unexported(c, i, v)
    <3>1. PICK m \in MapsOf(cfs, i) \cap MapsTo(cfs, v) : c.map = cfs.map \ {m}
      BY <2>2, UnexportedIs DEF GroupInv
    <3> QED
      BY <3>1 DEF MapsOf, MapsTo
  <2> QED
    BY <2>1, <2>2
<1>3. Kempt(c)
  BY <1>1 DEF Kempt, Tagged, GroupInv
<1>4. ASSUME NEW j \in Initiators, NEW k \in Initiators, NEW w \in Vols,
             c.tag[j] = c.tag[k], c.tag[j] # NoTag, <<c.tag[j], w>> \notin uneven,
             c.map # cfs.map => <<c.tag[j], w>> # <<cfs.tag[i], v>>
      PROVE  Agree(c, j, k, w)
  <2>1. cfs.tag[j] = cfs.tag[k] /\ cfs.tag[j] = c.tag[j]
    BY <1>1, <1>4 DEF Tagged
  <2>2. Agree(cfs, j, k, w)
    BY <1>4, <2>1 DEF GroupInv, Level
  <2>3. CASE c.map = cfs.map
    BY <2>2, <2>3 DEF Agree
  <2>4. CASE c.map # cfs.map
    <3>1. j # i \/ w # v
      BY <1>4, <2>1, <2>4
    <3>2. k # i \/ w # v
      BY <1>4, <2>1, <2>4
    <3> QED
      BY <1>2, <2>2, <3>1, <3>2 DEF Agree
  <2> QED
    BY <2>3, <2>4
<1> QED
  BY <1>3, <1>4 DEF Leveled

\* Some members are shown a volume.
LEMMA HalfLeveled ==
    ASSUME GroupInv, NEW g \in Groups, NEW v \in Vols, NEW c, HalfMapped(c, g, v)
    PROVE  Kempt(c) /\ Leveled(c, {<<g, v>>})
<1>0. Inv
  BY DEF GroupInv
<1>1. c.tag = cfs.tag /\ cfs.acl \subseteq c.acl
  BY HalfMappedKeeps
<1>2. PICK l \in LunIds : \E done \in SUBSET Members(cfs, g) :
         /\ v \in Existing
         /\ \A i \in done : ~LunTaken(cfs, i, l)
         /\ c.map = cfs.map \cup (done \X {l} \X {v})
  BY <1>0, HalfMappedIs
<1>3. PICK done \in SUBSET Members(cfs, g) : c.map = cfs.map \cup (done \X {l} \X {v})
  BY <1>2
<1>4. \A j \in Initiators, w \in Vols : cfs.tag[j] # g \/ w # v =>
         \A k \in LunIds : <<j, k, w>> \in c.map <=> <<j, k, w>> \in cfs.map
  BY <1>3 DEF Members
<1>5. Kempt(c)
  BY <1>1 DEF Kempt, GroupInv
<1>6. ASSUME NEW i \in Initiators, NEW j \in Initiators, NEW w \in Vols,
             cfs.tag[i] = cfs.tag[j], cfs.tag[i] # NoTag, <<cfs.tag[i], w>> \notin uneven,
             c.map # cfs.map => <<cfs.tag[i], w>> # <<g, v>>
      PROVE  Agree(c, i, j, w)
  <2>1. Agree(cfs, i, j, w)
    BY <1>6 DEF GroupInv, Level
  <2>2. CASE c.map = cfs.map
    BY <2>1, <2>2 DEF Agree
  <2>3. CASE c.map # cfs.map
    <3>1. cfs.tag[i] # g \/ w # v
      BY <1>6, <2>3
    <3> QED
      BY <1>4, <1>6, <2>1, <3>1 DEF Agree
  <2> QED
    BY <2>2, <2>3
<1> QED
  BY <1>1, <1>5, <1>6 DEF Leveled

\* What the other calls save.
LEMMA SavedLeveled ==
    ASSUME GroupInv, NEW c, Saved(c)
    PROVE  Kempt(c) /\ Leveled(c, {})
<1>0. /\ Inv
      /\ cfs.map \subseteq Initiators \X LunIds \X Vols
      /\ \A m \in cfs.map : m[1] \in cfs.acl
      /\ cfs.acl \subseteq Initiators
      /\ cfs.tag \in [Initiators -> Groups \cup {NoTag}]
      /\ Kempt(cfs) /\ Level(cfs, uneven)
  BY DEF GroupInv, Inv, Sound, Cfs, Rooted
<1>1. ASSUME Tagged(c),
             \A i, j \in Initiators, v \in Vols :
                 c.tag[i] = c.tag[j] /\ c.tag[i] # NoTag /\ Agree(cfs, i, j, v) => Agree(c, i, j, v)
      PROVE  Kempt(c) /\ Leveled(c, {})
  <2>1. Kempt(c)
    BY <1>0, <1>1 DEF Kempt, Tagged
  <2>2. \A i, j \in Initiators : c.tag[i] = c.tag[j] /\ c.tag[i] # NoTag =>
            cfs.tag[i] = c.tag[i] /\ cfs.tag[j] = c.tag[j]
    BY <1>1 DEF Tagged
  <2> QED
    BY <1>0, <1>1, <2>1, <2>2 DEF Leveled, Level
<1>2. ASSUME NEW i \in AuthInits, NEW s \in {"none", "set"}, Authenticated(c, i, s)
      PROVE  Kempt(c) /\ Leveled(c, {})
  BY <1>2, SameLeveled, AuthenticatedIs, InitsAssumption
<1>3. CASE Founded(c)
  <2>1. PICK i \in AgInits, g \in Groups :
           /\ i \notin cfs.acl /\ Members(cfs, g) = {} /\ i \in c.acl
           /\ c.tag = [cfs.tag EXCEPT ![i] = g]
    BY <1>0, <1>3, FoundedIs
  <2>2. c.map = cfs.map /\ cfs.acl \subseteq c.acl
    BY <1>0, <1>3, FoundedIs
  <2>3. \A j \in Initiators : c.tag[j] = IF j = i THEN g ELSE cfs.tag[j]
    BY <1>0, <2>1
  <2>4. \A j \in Initiators : cfs.tag[j] # g
    BY <1>0, <2>1, NoTagAssumption DEF Kempt, Members
  <2>5. Kempt(c)
    BY <1>0, <2>1, <2>2, <2>3 DEF Kempt
  <2>6. ASSUME NEW j \in Initiators, NEW k \in Initiators, NEW v \in Vols,
               c.tag[j] = c.tag[k], c.tag[j] # NoTag, <<c.tag[j], v>> \notin uneven
        PROVE  Agree(c, j, k, v)
    <3>1. CASE j = k
      BY <3>1 DEF Agree
    <3>2. CASE j # k
      <4>1. cfs.tag[j] = c.tag[j] /\ cfs.tag[k] = c.tag[k]
        BY <2>3, <2>4, <2>6, <3>2
      <4> QED
        BY <1>0, <2>2, <2>6, <4>1 DEF Level, Agree
    <3> QED
      BY <3>1, <3>2
  <2> QED
    BY <2>5, <2>6 DEF Leveled
<1>4. CASE Joined(c)
  <2>1. PICK i \in AgInits, g \in Groups : \E model \in Members(cfs, g) :
           /\ i \notin cfs.acl /\ i \in c.acl
           /\ c.tag = [cfs.tag EXCEPT ![i] = g]
           /\ c.map = cfs.map \cup {<<i, m[2], m[3]>> : m \in MapsOf(cfs, model)}
    BY <1>0, <1>4, JoinedIs
  <2>2. PICK model \in Members(cfs, g) :
           /\ i \notin cfs.acl /\ i \in c.acl
           /\ c.tag = [cfs.tag EXCEPT ![i] = g]
           /\ c.map = cfs.map \cup {<<i, m[2], m[3]>> : m \in MapsOf(cfs, model)}
    BY <2>1
  <2>3. cfs.acl \subseteq c.acl
    BY <1>0, <1>4, JoinedIs
  <2>4. \A j \in Initiators : c.tag[j] = IF j = i THEN g ELSE cfs.tag[j]
    BY <1>0, <2>2
  <2>5. \A j \in Initiators \ {i}, l \in LunIds, v \in Vols :
            <<j, l, v>> \in c.map <=> <<j, l, v>> \in cfs.map
    BY <2>2
  <2>6. \A l \in LunIds, v \in Vols :
            <<i, l, v>> \in c.map <=> <<model, l, v>> \in cfs.map
    <3> DEFINE S == {<<i, m[2], m[3]>> : m \in MapsOf(cfs, model)}
    <3>1. \A l \in LunIds, v \in Vols : <<i, l, v>> \in S <=> <<model, l, v>> \in cfs.map
      BY <1>0 DEF MapsOf
    <3>2. \A l \in LunIds, v \in Vols : <<i, l, v>> \notin cfs.map
      BY <1>0, <2>2
    <3> QED
      BY <2>2, <3>1, <3>2
  <2>7. model \in Initiators /\ cfs.tag[model] = g /\ g # NoTag /\ i # model
    BY <1>0, <2>2, NoTagAssumption DEF Members
  <2>8. Kempt(c)
    BY <1>0, <2>2, <2>3, <2>4 DEF Kempt
  <2> DEFINE of(j) == IF j = i THEN model ELSE j
  <2>9. \A j \in Initiators : /\ of(j) \in Initiators
                              /\ c.tag[j] = cfs.tag[of(j)]
                              /\ \A l \in LunIds, v \in Vols :
                                    <<j, l, v>> \in c.map <=> <<of(j), l, v>> \in cfs.map
    BY <2>4, <2>5, <2>6, <2>7
  <2> HIDE DEF of
  <2>10. ASSUME NEW j \in Initiators, NEW k \in Initiators, NEW v \in Vols,
                c.tag[j] = c.tag[k], c.tag[j] # NoTag, <<c.tag[j], v>> \notin uneven
         PROVE  Agree(c, j, k, v)
    <3>1. Agree(cfs, of(j), of(k), v)
      BY <1>0, <2>9, <2>10 DEF Level
    <3> QED
      BY <2>9, <3>1 DEF Agree
  <2> QED
    BY <2>8, <2>10 DEF Leveled
<1>5. CASE Left(c)
  <2>1. PICK g \in Groups : \E S \in SUBSET Members(cfs, g) :
           c.map = {m \in cfs.map : m[1] \notin S} /\ \A i \in S : c.tag[i] = NoTag
    BY <1>0, <1>5, LeftIs
  <2>2. PICK S \in SUBSET Members(cfs, g) :
           c.map = {m \in cfs.map : m[1] \notin S} /\ \A i \in S : c.tag[i] = NoTag
    BY <2>1
  <2>3. Tagged(c)
    BY <1>0, <1>5, LeftIs
  <2>4. \A i \in Initiators : c.tag[i] # NoTag =>
            \A l \in LunIds, v \in Vols : <<i, l, v>> \in c.map <=> <<i, l, v>> \in cfs.map
    BY <2>2
  <2> QED
    BY <1>1, <2>3, <2>4 DEF Agree
<1>6. CASE Mapped(c)
  <2>1. PICK g \in Groups, l \in LunIds, v \in Existing :
           /\ \A i \in Members(cfs, g) : ~LunTaken(cfs, i, l)
           /\ c.map = cfs.map \cup (Members(cfs, g) \X {l} \X {v})
    BY <1>0, <1>6, MappedIs
  <2>2. Tagged(c)
    BY <1>0, <1>6, MappedIs
  <2>3. \A i, j \in Initiators : c.tag[i] = c.tag[j] /\ c.tag[i] # NoTag =>
            (i \in Members(cfs, g) <=> j \in Members(cfs, g))
    BY <1>0, <2>2 DEF Kempt, Members, Tagged
  <2>4. \A i \in Initiators, k \in LunIds, w \in Vols :
            <<i, k, w>> \in c.map <=>
                <<i, k, w>> \in cfs.map \/ (i \in Members(cfs, g) /\ k = l /\ w = v)
    BY <2>1
  <2> QED
    BY <1>1, <2>2, <2>3, <2>4 DEF Agree
<1>7. CASE Unmapped(c)
  <2>1. PICK g \in Groups, v \in Vols, ids \in SUBSET LunIds :
           SeenAt(g, v, ids) /\ c.map = cfs.map \ (Members(cfs, g) \X ids \X Vols)
    BY <1>0, <1>7, UnmappedIs
  <2>2. Tagged(c)
    BY <1>0, <1>7, UnmappedIs
  <2>3. \A i, j \in Initiators : c.tag[i] = c.tag[j] /\ c.tag[i] # NoTag =>
            (i \in Members(cfs, g) <=> j \in Members(cfs, g))
    BY <1>0, <2>2 DEF Kempt, Members, Tagged
  <2>4. \A i \in Initiators, k \in LunIds, w \in Vols :
            <<i, k, w>> \in c.map <=>
                <<i, k, w>> \in cfs.map /\ ~(i \in Members(cfs, g) /\ k \in ids)
    BY <2>1
  <2> QED
    BY <1>1, <2>2, <2>3, <2>4 DEF Agree
<1> QED
  BY <1>2, <1>3, <1>4, <1>5, <1>6, <1>7 DEF Saved

\* A boot restores what the saved tree has for the volumes that are there.
LEMMA RestoreIs ==
    ASSUME Inv, Reboot
    PROVE  /\ cfs'.map = {m \in saved.map : m[3] \in Existing}
           /\ cfs'.acl = saved.acl /\ cfs'.tag = saved.tag /\ cfs'.chap = saved.chap
           /\ saved' = saved /\ lost' = lost /\ reply' = "boot" /\ Existing' = Existing
BY DEF Inv, StateOK, Reboot, Restore, Cfs, Existing, Exists

\* Every step keeps GroupInv.
LEMMA GroupInvKept ==
    ASSUME GroupInv, [Next]_vars, Inv'
    PROVE  GroupInv'
<1>0. Inv
  BY DEF GroupInv
<1>1. CASE Pooled /\ Mark({})
  <2>1. cfs' = cfs /\ saved' = saved
    BY <1>1 DEF Pooled
  <2>2. Kempt(cfs') /\ Leveled(cfs', {})
    BY <2>1, SameLeveled
  <2> QED
    BY <1>1, <2>1, <2>2, Settled
<1>2. ASSUME LookStep, NEW pair, Mark(pair)
      PROVE  GroupInv'
  <2>1. PICK c : \E code \in Codes : Looked(c) /\ Reply(c, code)
    BY <1>2 DEF LookStep
  <2>2. cfs' = c /\ saved' = saved
    BY <2>1 DEF Reply
  <2>3. Kempt(c) /\ Leveled(c, pair)
    BY <2>1, SameLeveled DEF Looked
  <2> QED
    BY <1>2, <2>2, <2>3, Settled
<1>3. ASSUME NEW g \in Groups, NEW v \in Vols, HalfMapStep(g, v), Mark({<<g, v>>})
      PROVE  GroupInv'
  <2>1. PICK c : HalfMapped(c, g, v) /\ Reply(c, "ERROR")
    BY <1>3 DEF HalfMapStep
  <2>2. cfs' = c /\ saved' = saved
    BY <2>1 DEF Reply
  <2>3. Kempt(c) /\ Leveled(c, {<<g, v>>})
    BY <2>1, HalfLeveled
  <2> QED
    BY <1>3, <2>2, <2>3, Settled
<1>4. ASSUME NEW i \in AuthInits, HalfAuthStep(i), Mark({})
      PROVE  GroupInv'
  <2>1. PICK c : Authenticated(c, i, "mixed") /\ Reply(c, "ERROR")
    BY <1>4 DEF HalfAuthStep
  <2>2. cfs' = c /\ saved' = saved
    BY <2>1 DEF Reply
  <2>3. Kempt(c) /\ Leveled(c, {})
    BY <2>1, SameLeveled, AuthenticatedIs, InitsAssumption
  <2> QED
    BY <1>4, <2>2, <2>3, Settled
<1>5. ASSUME NEW i \in ExportInits, NEW v \in Vols, SingleStep(i, v), Mark({<<cfs.tag[i], v>>})
      PROVE  GroupInv'
  <2>1. PICK c : (Exported(c, i, v) \/ Unexported(c, i, v)) /\ Save(c)
    BY <1>5 DEF SingleStep
  <2>2. cfs' = c /\ (saved' = c \/ saved' = saved)
    BY <2>1 DEF Save
  <2>3. Kempt(c) /\ Leveled(c, {<<cfs.tag[i], v>>})
    BY <2>1, SinglyLeveled, InitsAssumption
  <2> QED
    BY <1>5, <2>2, <2>3, Settled
<1>6. CASE SaveStep /\ Mark({})
  <2>1. PICK c : Saved(c) /\ Save(c)
    BY <1>6 DEF SaveStep
  <2>2. cfs' = c /\ (saved' = c \/ saved' = saved)
    BY <2>1 DEF Save
  <2>3. Kempt(c) /\ Leveled(c, {})
    BY <2>1, SavedLeveled
  <2> QED
    BY <1>6, <2>2, <2>3, Settled
<1>7. CASE Reboot /\ Mark({})
  <2>1. /\ cfs'.map = {m \in saved.map : m[3] \in Existing}
        /\ cfs'.acl = saved.acl /\ cfs'.tag = saved.tag /\ saved' = saved
    BY <1>0, <1>7, RestoreIs
  <2>2. Kempt(cfs')
    BY <2>1 DEF GroupInv, Kempt
  <2>3. Leveled(cfs', {})
    BY <2>1 DEF GroupInv, Level, Leveled, Agree
  <2> QED
    BY <1>7, <2>1, <2>2, <2>3, Settled
<1>8. CASE UNCHANGED vars
  BY <1>8 DEF vars, GroupInv, Kempt, Level, Agree
<1> QED
  BY <1>0, <1>1, <1>2, <1>3, <1>4, <1>5, <1>6, <1>7, <1>8, Steps DEF Kinds

\* Groups are level in both trees.
THEOREM GroupInvHolds == Spec => []GroupInv
<1>1. Inv /\ Init => GroupInv
  BY DEF Init, GroupInv, Kempt, Level, Agree, EmptyCfs
<1>2. GroupInv /\ [Next]_vars /\ Inv' => GroupInv'
  BY GroupInvKept
<1> QED
  BY <1>1, <1>2, InvInvariant, PTL DEF Spec

\* Whoever joins or leaves a group in whatever order, whatever failed half way or
\* was forgotten by a reboot, and whatever was done to other volumes: a volume no
\* member was treated singly about is seen by all of them at the same LUN ids, now
\* and after the next reboot.
THEOREM GroupsSeeTheSame == Spec => []GroupUniform
<1>1. GroupInv => GroupUniform
  <2> SUFFICES ASSUME GroupInv, NEW c \in {cfs, saved}, NEW i \in c.acl, NEW j \in c.acl,
                      c.tag[i] = c.tag[j], c.tag[i] # NoTag,
                      NEW v \in Vols, <<c.tag[i], v>> \notin uneven
               PROVE  IdsOf(c, i, v) = IdsOf(c, j, v)
    BY DEF GroupUniform
  <2>1. c \in Cfs /\ Level(c, uneven)
    BY DEF GroupInv, Inv, StateOK
  <2>2. i \in Initiators /\ j \in Initiators /\ c.map \subseteq Initiators \X LunIds \X Vols
    BY <2>1 DEF Cfs
  <2>3. Agree(c, i, j, v)
    BY <2>1, <2>2 DEF Level
  <2>4. \A k \in Initiators : IdsOf(c, k, v) = {l \in LunIds : <<k, l, v>> \in c.map}
    BY <2>2 DEF IdsOf, MapsOf, MapsTo
  <2> QED
    BY <2>2, <2>3, <2>4 DEF Agree
<1> QED
  BY <1>1, GroupInvHolds, PTL

-----------------------------------------------------------------------------
(* What a reboot gives back.                                               *)

\* The saved tree shows nobody more, and those whose rights a failing call did not
\* change since the last save exactly as much.
Behind ==
    lost = 0 =>
        /\ saved.map \subseteq cfs.map
        /\ \A i \in Initiators \ unsaved : RightsOf(saved, i) = RightsOf(cfs, i)

\* A call that saves nothing and notes down whose rights it changed.
LEMMA NotedDown ==
    ASSUME Behind, NEW S, Note(S), saved' = saved, lost' = lost, cfs.map \subseteq cfs'.map,
           \/ \A i \in Initiators : RightsOf(cfs', i) = RightsOf(cfs, i)
           \/ /\ reply' = "ERROR"
              /\ \A i \in Initiators \ S : RightsOf(cfs', i) = RightsOf(cfs, i)
    PROVE  Behind'
<1>1. CASE saved' = cfs'
  BY <1>1 DEF Behind
<1>2. CASE saved' # cfs'
  <2>1. unsaved' = unsaved \cup {i \in S : /\ reply' = "ERROR"
                                           /\ RightsOf(cfs', i) # RightsOf(cfs, i)}
    BY <1>2 DEF Note
  <2>2. \A i \in Initiators \ unsaved' : i \notin unsaved /\ RightsOf(cfs', i) = RightsOf(cfs, i)
    BY <2>1
  <2>3. \A i : RightsOf(saved', i) = RightsOf(saved, i)
    OBVIOUS
  <2>4. (\A i \in Initiators \ unsaved : RightsOf(saved, i) = RightsOf(cfs, i))
        => \A i \in Initiators \ unsaved' : RightsOf(saved', i) = RightsOf(cfs', i)
    BY <2>2, <2>3
  <2> QED
    BY <2>4 DEF Behind, RightsOf
<1> QED
  BY <1>1, <1>2

-----------------------------------------------------------------------------
\* Every step keeps Behind.
LEMMA BehindKept ==
    ASSUME Inv, Behind, [Next]_vars
    PROVE  Behind'
<1>0. lost \in Nat /\ cfs \in Cfs
  BY BoundsAssumption DEF Inv, StateOK
<1>1. CASE Pooled /\ Note({})
  <2>1. cfs' = cfs /\ saved' = saved /\ lost' = lost
    BY <1>1 DEF Pooled
  <2>2. \A i \in Initiators : RightsOf(cfs', i) = RightsOf(cfs, i)
    BY <2>1
  <2> QED
    BY <1>1, <2>1, <2>2, NotedDown
<1>2. ASSUME LookStep, NEW S, Note(S)
      PROVE  Behind'
  <2>1. PICK c : \E code \in Codes : Looked(c) /\ Reply(c, code)
    BY <1>2 DEF LookStep
  <2>2. cfs' = c /\ saved' = saved /\ lost' = lost
    BY <2>1 DEF Reply
  <2>3. c.map = cfs.map /\ c.chap = cfs.chap /\ c.tag = cfs.tag
    BY <2>1 DEF Looked
  <2>4. \A i \in Initiators : RightsOf(cfs', i) = RightsOf(cfs, i)
    BY <2>2, <2>3 DEF RightsOf, MapsOf
  <2>5. cfs.map \subseteq cfs'.map
    BY <2>2, <2>3
  <2> QED
    BY <1>2, <2>2, <2>4, <2>5, NotedDown
<1>3. ASSUME NEW g \in Groups, NEW v \in Vols, HalfMapStep(g, v), Note(Members(cfs, g))
      PROVE  Behind'
  <2>1. PICK c : HalfMapped(c, g, v) /\ Reply(c, "ERROR")
    BY <1>3 DEF HalfMapStep
  <2>2. cfs' = c /\ saved' = saved /\ lost' = lost /\ reply' = "ERROR"
    BY <2>1 DEF Reply
  <2>3. PICK l \in LunIds : \E done \in SUBSET Members(cfs, g) :
           /\ v \in Existing
           /\ \A i \in done : ~LunTaken(cfs, i, l)
           /\ c.map = cfs.map \cup (done \X {l} \X {v})
    BY <2>1, HalfMappedIs
  <2>4. PICK done \in SUBSET Members(cfs, g) : c.map = cfs.map \cup (done \X {l} \X {v})
    BY <2>3
  <2>5. c.chap = cfs.chap /\ c.tag = cfs.tag
    BY <2>1, HalfMappedKeeps
  <2>6. \A i \in Initiators \ Members(cfs, g) : MapsOf(c, i) = MapsOf(cfs, i)
    BY <2>4 DEF MapsOf
  <2>7. \A i \in Initiators \ Members(cfs, g) : RightsOf(cfs', i) = RightsOf(cfs, i)
    BY <2>2, <2>5, <2>6 DEF RightsOf
  <2>8. cfs.map \subseteq cfs'.map
    BY <2>2, <2>4
  <2> QED
    BY <1>3, <2>2, <2>7, <2>8, NotedDown
<1>4. ASSUME NEW i \in AuthInits, HalfAuthStep(i), Note({i})
      PROVE  Behind'
  <2>1. PICK c : Authenticated(c, i, "mixed") /\ Reply(c, "ERROR")
    BY <1>4 DEF HalfAuthStep
  <2>2. cfs' = c /\ saved' = saved /\ lost' = lost /\ reply' = "ERROR"
    BY <2>1 DEF Reply
  <2>3. /\ c.map = cfs.map /\ c.tag = cfs.tag
        /\ \A j \in Initiators \ {i} : c.chap[j] = cfs.chap[j]
    BY <2>1, AuthenticatedIs, InitsAssumption
  <2>4. \A j \in Initiators \ {i} : RightsOf(cfs', j) = RightsOf(cfs, j)
    BY <2>2, <2>3 DEF RightsOf, MapsOf
  <2>5. cfs.map \subseteq cfs'.map
    BY <2>2, <2>3
  <2> QED
    BY <1>4, <2>2, <2>4, <2>5, NotedDown
<1>5. ASSUME NEW c, Save(c)
      PROVE  Behind'
  <2>1. CASE saved' = c
    BY <1>5, <2>1 DEF Save, Behind
  <2>2. CASE lost' = lost + 1
    BY <1>0, <2>2 DEF Behind
  <2> QED
    BY <1>5, <2>1, <2>2 DEF Save
<1>6. CASE Reboot
  <2>1. /\ cfs'.map = {m \in saved.map : m[3] \in Existing}
        /\ cfs'.tag = saved.tag /\ cfs'.chap = saved.chap
        /\ saved' = saved /\ lost' = lost
    BY <1>6, RestoreIs
  <2>2. \A m \in cfs.map : m[3] \in Existing
    BY DEF Inv, Sound, Rooted
  <2>3. lost = 0 => cfs'.map = saved.map
    BY <2>1, <2>2 DEF Behind
  <2> QED
    BY <2>1, <2>3 DEF Behind, RightsOf, MapsOf
<1>7. CASE UNCHANGED vars
  BY <1>7 DEF vars, Behind
<1>8. SaveStep \/ (\E i \in ExportInits, v \in Vols : SingleStep(i, v)) => Behind'
  BY <1>5 DEF SingleStep, SaveStep
<1>9. CASE Next
  <2>1. Kinds
    BY <1>9, Steps
  <2> QED
    BY <1>1, <1>2, <1>3, <1>4, <1>6, <1>8, <2>1 DEF Kinds
<1> QED
  BY <1>7, <1>9

\* Whatever calls fail, also half way, and whatever half-changed rights the next call
\* that saves makes lasting: without lost saves a reboot returns every mapping,
\* membership and credential, except those failing calls left unsaved, and no more.
THEOREM RightsSurviveReboots == Spec => []RebootKeepsRights
<1>1. Init => Behind
  BY DEF Init, Behind
<1>2. Inv /\ Behind /\ [Next]_vars => Behind'
  BY BehindKept
<1>3. Inv /\ Behind => RebootKeepsRights
  <2> SUFFICES ASSUME Inv, Behind, lost = 0
               PROVE  LET restored == Restore(saved, Existing)
                      IN  /\ restored.map \subseteq cfs.map
                          /\ \A i \in Initiators \ unsaved : RightsOf(restored, i) = RightsOf(cfs, i)
    BY DEF RebootKeepsRights
  <2> DEFINE restored == Restore(saved, Existing)
  <2>1. /\ restored.map = {m \in saved.map : m[3] \in Existing}
        /\ restored.tag = saved.tag /\ restored.chap = saved.chap
    BY DEF Inv, StateOK, Restore, Cfs
  <2>2. saved.map \subseteq cfs.map /\ \A m \in cfs.map : m[3] \in Existing
    BY DEF Behind, Inv, Sound, Rooted
  <2> HIDE DEF restored
  <2>3. restored.map = saved.map
    BY <2>1, <2>2
  <2>4. \A i : RightsOf(restored, i) = RightsOf(saved, i)
    BY <2>1, <2>3 DEF RightsOf, MapsOf
  <2>5. \A i \in Initiators \ unsaved : RightsOf(restored, i) = RightsOf(cfs, i)
    BY <2>4 DEF Behind
  <2>6. restored.map \subseteq cfs.map
    BY <2>2, <2>3
  <2> QED
    BY <2>5, <2>6 DEF restored
<1> QED
  BY <1>1, <1>2, <1>3, InvInvariant, PTL DEF Spec

-----------------------------------------------------------------------------
(* Block implements DurableMasking.                                        *)

Access == {<<m[1], m[3]>> : m \in cfs.map}

\* The volume calls make or remove one volume, one without storage object.
LEMMA VolChange ==
    ASSUME Inv, VolCall
    PROVE  /\ cfs' = cfs
           /\ \/ Existing' = Existing
              \/ \E v \in Vols \ Existing : Existing' = Existing \cup {v}
              \/ \E v \in Existing \ StorageObjects(cfs) : Existing' = Existing \ {v}
<1> DEFINE Change == /\ cfs' = cfs
                     /\ \/ Existing' = Existing
                        \/ \E v \in Vols \ Existing : Existing' = Existing \cup {v}
                        \/ \E v \in Existing \ StorageObjects(cfs) : Existing' = Existing \ {v}
<1>0. vol \in [Vols -> Sizes \cup {0}] /\ 0 \notin Sizes /\ NoSize \notin Nat
      /\ Existing = {v \in Vols : vol[v] # 0} /\ Existing' = {v \in Vols : vol'[v] # 0}
  BY SizesAssumption DEF Inv, StateOK, Existing, Exists
<1>1. ASSUME vol' = vol, cfs' = cfs
      PROVE  Change
  BY <1>0, <1>1
<1>2. ASSUME NEW v \in Vols, NEW size \in Sizes, vol' = [vol EXCEPT ![v] = size], cfs' = cfs
      PROVE  Change
  <2>1. Existing' = Existing \cup {v}
    BY <1>0, <1>2
  <2> QED
    BY <1>2, <2>1
<1>3. ASSUME NEW v \in Vols, Exists(v), v \notin StorageObjects(cfs),
             vol' = [vol EXCEPT ![v] = 0], cfs' = cfs
      PROVE  Change
  <2>1. Existing' = Existing \ {v} /\ v \in Existing
    BY <1>0, <1>3 DEF Exists
  <2> QED
    BY <1>3, <2>1
<1>4. ASSUME NEW v \in AnyVol, NEW size \in Sizes, VolCreate(v, size) \/ VolResize(v, size)
      PROVE  Change
  <2> HIDE DEF Change
  <2> QED
    BY <1>1, <1>2, <1>4 DEF VolCreate, VolResize, PoolError, Missing, Reply, SetSize
<1>5. ASSUME NEW v \in AnyVol, VolDestroy(v)
      PROVE  Change
  <2> HIDE DEF Change
  <2> QED
    BY <1>1, <1>3, <1>5 DEF VolDestroy, PoolError, Missing, Reply, SetSize
<1>6. ASSUME NEW v \in AnyVol, NEW new \in Vols, NEW size \in Sizes \cup {NoSize},
             VolCopy(v, new, size)
      PROVE  Change
  <2>1. v \in Vols /\ Exists(v) => vol[v] \in Sizes
    BY <1>0 DEF Exists
  <2> HIDE DEF Change
  <2> QED
    BY <1>1, <1>2, <1>6, <2>1 DEF VolCopy, PoolError, Missing, Reply, SetSize
<1> QED
  BY <1>4, <1>5, <1>6 DEF VolCall

\* What Mark says in the abstract specification's words.
LEMMA Marked ==
    ASSUME NEW pair, Mark(pair)
    PROVE  /\ uneven' \subseteq uneven \cup pair
           /\ cfs'.map = cfs.map => Durable!Even
BY DEF Mark, Durable!Even

\* A step that maps, unmaps and saves nothing and leaves the pool may only make a
\* group even.
LEMMA SameAccess ==
    ASSUME cfs'.map = cfs.map, UNCHANGED <<vol, saved, lost>>, NEW pair, Mark(pair)
    PROVE  Durable!DurableNext
<1>1. Durable!Reset
  BY Marked DEF Durable!Reset, Durable!vars, Existing, Exists
<1> QED
  BY <1>1 DEF Durable!DurableNext

\* What the volume calls do to the pool is the abstract pool's step.
LEMMA VolDurable ==
    ASSUME Inv, VolCall, UNCHANGED <<saved, lost>>, Mark({})
    PROVE  Durable!DurableNext
<1>0. cfs' = cfs
  BY VolChange
<1>e. Durable!Even
  BY <1>0, Marked
<1>1. CASE Existing' = Existing
  <2>1. Durable!Reset
    BY <1>0, <1>1, <1>e DEF Durable!Reset, Durable!vars
  <2> QED
    BY <2>1 DEF Durable!DurableNext
<1>2. ASSUME NEW v \in Vols \ Existing, Existing' = Existing \cup {v}
      PROVE  Durable!PoolStep
  BY <1>0, <1>2, <1>e DEF Durable!PoolStep, Durable!Create
<1>3. ASSUME NEW v \in Existing \ StorageObjects(cfs), Existing' = Existing \ {v}
      PROVE  Durable!PoolStep
  <2>1. \A m \in cfs.map : m[3] # v
    BY <1>3 DEF Inv, Sound, Rooted
  <2>2. \A i \in Initiators : <<i, v>> \notin {<<m[1], m[3]>> : m \in cfs.map}
    BY <2>1
  <2>3. v \in Vols
    BY <1>3 DEF Existing
  <2> QED
    BY <1>0, <1>3, <1>e, <2>2, <2>3 DEF Durable!PoolStep, Durable!Destroy
<1> QED
  BY <1>1, <1>2, <1>3, VolChange DEF Durable!DurableNext

\* What a boot restores is what was kept for the volumes that are there.
LEMMA RebootDurable ==
    ASSUME Inv, Reboot, Mark({})
    PROVE  Durable!DurableNext
<1> DEFINE Kept == {<<m[1], m[3]>> : m \in saved.map}
           Access2 == {<<m[1], m[3]>> : m \in cfs'.map}
<1>1. /\ cfs'.map = {m \in saved.map : m[3] \in Existing}
      /\ Existing' = Existing /\ saved' = saved /\ lost' = lost
  BY RestoreIs
<1>2. Access2 = {a \in Kept : a[2] \in Existing}
  <2>1. \A m \in saved.map : <<m[1], m[3]>>[2] = m[3]
    OBVIOUS
  <2>2. \A m \in saved.map : m \in cfs'.map <=> m[3] \in Existing
    BY <1>1
  <2>3. cfs'.map \subseteq saved.map
    BY <1>1
  <2> QED
    BY <2>1, <2>2, <2>3
<1>3. Durable!Even
  BY Marked DEF Durable!Even
<1>4. Durable!Reboot
  BY <1>1, <1>2, <1>3 DEF Durable!Reboot
<1> QED
  BY <1>4 DEF Durable!DurableNext

\* A call that saves keeps the rights, or loses them.
LEMMA SavedKeep ==
    ASSUME NEW c, Save(c)
    PROVE  Durable!Keep /\ cfs' = c /\ Existing' = Existing
BY DEF Save, Durable!Keep, Existing, Exists

\* A call that treats one initiator singly grants or revokes one volume, or leaves
\* an initiator that sees the volume at two LUN ids one of them.
LEMMA SingleDurable ==
    ASSUME Inv, NEW i \in ExportInits, NEW v \in Vols, SingleStep(i, v),
           Mark({<<cfs.tag[i], v>>})
    PROVE  Durable!DurableNext
<1> DEFINE Access2 == {<<m[1], m[3]>> : m \in cfs'.map}
<1>0. cfs.map \subseteq Initiators \X LunIds \X Vols /\ i \in Initiators
  BY InitsAssumption DEF Inv, Sound, Cfs
<1>1. PICK c : (Exported(c, i, v) \/ Unexported(c, i, v)) /\ Save(c)
  BY DEF SingleStep
<1>2. Durable!Keep /\ cfs' = c /\ Existing' = Existing
  BY <1>1, SavedKeep
<1>3. Durable!EvenBut(cfs.tag[i], v)
  BY Marked DEF Durable!EvenBut
<1>4. CASE Access2 = Access \cup ({i} \X {v}) /\ v \in Existing
  <2>1. Durable!Grant({i}, v)
    BY <1>2, <1>4 DEF Durable!Grant, Access
  <2>2. Durable!SingleStep
    BY <1>0, <1>2, <1>3, <2>1 DEF Durable!SingleStep
  <2> QED
    BY <2>2 DEF Durable!DurableNext
<1>5. CASE Access2 = Access \ ({i} \X {v})
  <2>1. Durable!Revoke({i}, v)
    BY <1>2, <1>5 DEF Durable!Revoke, Access
  <2>2. Durable!SingleStep
    BY <1>0, <1>2, <1>3, <2>1 DEF Durable!SingleStep
  <2> QED
    BY <2>2 DEF Durable!DurableNext
<1>6. CASE Exported(c, i, v)
  <2>1. PICK l \in LunIds : c.map = cfs.map \cup {<<i, l, v>>}
    BY <1>0, <1>6, ExportedIs
  <2>2. v \in Existing
    BY <1>0, <1>6, ExportedIs
  <2> DEFINE n == <<i, l, v>>
  <2>3. <<n[1], n[3]>> = <<i, v>> /\ cfs'.map = cfs.map \cup {n}
    BY <1>2, <2>1
  <2> HIDE DEF n
  <2>4. Access2 = Access \cup {<<i, v>>}
    BY <2>3 DEF Access
  <2>5. {<<i, v>>} = {i} \X {v}
    OBVIOUS
  <2> QED
    BY <1>4, <2>2, <2>4, <2>5
<1>7. CASE Unexported(c, i, v)
  <2>1. PICK m \in MapsOf(cfs, i) \cap MapsTo(cfs, v) : c.map = cfs.map \ {m}
    BY <1>0, <1>7, UnexportedIs
  <2>2. m \in cfs.map /\ m[1] = i /\ m[3] = v
    BY <2>1 DEF MapsOf, MapsTo
  <2>3. CASE \E n \in cfs.map \ {m} : n[1] = i /\ n[3] = v
    <3>1. Access2 = Access /\ <<i, v>> \in Access
      BY <1>2, <2>1, <2>2, <2>3 DEF Access
    <3>2. v \in Existing
      BY <2>2 DEF Inv, Sound, Rooted
    <3> QED
      BY <1>4, <3>1, <3>2
  <2>4. CASE ~\E n \in cfs.map \ {m} : n[1] = i /\ n[3] = v
    <3>1. Access2 = Access \ ({i} \X {v})
      BY <1>2, <2>1, <2>2, <2>4 DEF Access
    <3> QED
      BY <1>5, <3>1
  <2> QED
    BY <2>3, <2>4
<1> QED
  BY <1>1, <1>6, <1>7

\* The initiators and volumes of a set of mappings at one LUN id.
LEMMA Projected ==
    ASSUME NEW S, NEW l, NEW v
    PROVE  {<<m[1], m[3]>> : m \in S \X {l} \X {v}} = S \X {v}
<1> DEFINE T == S \X {l} \X {v}
<1>1. \A i \in S : \E n \in T : n[1] = i /\ n[3] = v
  <2> SUFFICES ASSUME NEW i \in S
               PROVE  \E n \in T : n[1] = i /\ n[3] = v
    OBVIOUS
  <2>1. <<i, l, v>> \in T
    OBVIOUS
  <2> QED
    BY <2>1
<1>2. \A n \in T : n[1] \in S /\ n[3] = v
  OBVIOUS
<1> HIDE DEF T
<1>3. {<<m[1], m[3]>> : m \in T} = S \X {v}
  BY <1>1, <1>2
<1> QED
  BY <1>3 DEF T

\* access_group_map_create that fails half way grants one volume to some members.
LEMMA HalfMapDurable ==
    ASSUME Inv, NEW g \in Groups, NEW v \in Vols, HalfMapStep(g, v), Mark({<<g, v>>})
    PROVE  Durable!DurableNext
<1> DEFINE Access2 == {<<m[1], m[3]>> : m \in cfs'.map}
<1>1. PICK c : HalfMapped(c, g, v) /\ Reply(c, "ERROR")
  BY DEF HalfMapStep
<1>2. cfs' = c /\ saved' = saved /\ lost' = lost /\ Existing' = Existing
  BY <1>1 DEF Reply, Existing, Exists
<1>3. PICK l \in LunIds : \E done \in SUBSET Members(cfs, g) :
         /\ v \in Existing
         /\ \A i \in done : ~LunTaken(cfs, i, l)
         /\ c.map = cfs.map \cup (done \X {l} \X {v})
  BY <1>1, HalfMappedIs
<1>4. PICK done \in SUBSET Members(cfs, g) :
         v \in Existing /\ c.map = cfs.map \cup (done \X {l} \X {v})
  BY <1>3
<1>5. Access2 = Access \cup (done \X {v})
  <2>1. {<<m[1], m[3]>> : m \in done \X {l} \X {v}} = done \X {v}
    BY Projected
  <2> QED
    BY <1>2, <1>4, <2>1 DEF Access
<1>6. Durable!Grant(done, v)
  BY <1>2, <1>4, <1>5 DEF Durable!Grant, Access
<1>7. done \in SUBSET {i \in Initiators : cfs.tag[i] = g}
  BY <1>4 DEF Members, Inv, Sound, Cfs
<1>8. Durable!EvenBut(g, v)
  BY Marked DEF Durable!EvenBut
<1>9. Durable!HalfStep
  BY <1>2, <1>6, <1>7, <1>8 DEF Durable!HalfStep
<1> QED
  BY <1>9 DEF Durable!DurableNext

Rearranged == Durable!Rearrange \/ UNCHANGED (Durable!vars)

\* What the other calls save, access_group_map_destroy apart, is one grant, one
\* member's arrival or the departure of some.
LEMMA SavedAccess ==
    ASSUME Inv, NEW c, Saved(c), ~Unmapped(c), cfs' = c, Existing' = Existing
    PROVE  Rearranged
<1>0. /\ cfs.map \subseteq Initiators \X LunIds \X Vols
      /\ \A m \in cfs.map : m[1] \in cfs.acl
      /\ cfs.acl \subseteq Initiators
  BY DEF Inv, Sound, Cfs, Rooted
<1> DEFINE Access2 == {<<m[1], m[3]>> : m \in cfs'.map}
<1>1. CASE Access2 = Access
  BY <1>1 DEF Rearranged, Durable!vars, Access
<1>2. ASSUME NEW S \in SUBSET Initiators, NEW v \in Existing, Access2 = Access \cup (S \X {v})
      PROVE  Rearranged
  BY <1>2 DEF Rearranged, Durable!Rearrange, Durable!Grant, Access, Existing
<1>6. CASE (\E i \in AuthInits, s \in {"none", "set"} : Authenticated(c, i, s)) \/ Founded(c)
  <2>1. c.map = cfs.map
    BY <1>6, AuthenticatedIs, FoundedIs, InitsAssumption
  <2> QED
    BY <1>1, <2>1 DEF Access
<1>7. CASE Joined(c)
  <2>1. PICK i \in AgInits, g \in Groups : \E model \in Members(cfs, g) :
           /\ i \notin cfs.acl /\ i \in c.acl
           /\ c.tag = [cfs.tag EXCEPT ![i] = g]
           /\ c.map = cfs.map \cup {<<i, m[2], m[3]>> : m \in MapsOf(cfs, model)}
    BY <1>7, JoinedIs
  <2>2. PICK model \in Members(cfs, g) :
           /\ i \notin cfs.acl /\ i \in c.acl
           /\ c.tag = [cfs.tag EXCEPT ![i] = g]
           /\ c.map = cfs.map \cup {<<i, m[2], m[3]>> : m \in MapsOf(cfs, model)}
    BY <2>1
  <2>3. i \in Initiators /\ model \in Initiators
    BY <1>0, <2>2, InitsAssumption DEF Members
  <2>4. \A v \in Vols : <<i, v>> \notin Access
    BY <1>0, <2>2 DEF Access
  <2>5. Access2 = Access \cup {<<i, v>> : v \in {w \in Vols : <<model, w>> \in Access}}
    <3> DEFINE S == {<<i, m[2], m[3]>> : m \in MapsOf(cfs, model)}
    <3>1. {<<m[1], m[3]>> : m \in S} = {<<i, m[3]>> : m \in MapsOf(cfs, model)}
      <4>1. \A n \in S : \E m \in MapsOf(cfs, model) : n[1] = i /\ n[3] = m[3]
        OBVIOUS
      <4>2. \A m \in MapsOf(cfs, model) : \E n \in S : n[1] = i /\ n[3] = m[3]
        <5> SUFFICES ASSUME NEW m \in MapsOf(cfs, model)
                     PROVE  \E n \in S : n[1] = i /\ n[3] = m[3]
          OBVIOUS
        <5>1. <<i, m[2], m[3]>> \in S
          OBVIOUS
        <5> QED
          BY <5>1
      <4> HIDE DEF S
      <4> QED
        BY <4>1, <4>2
    <3>2. {w \in Vols : <<model, w>> \in Access} = {m[3] : m \in MapsOf(cfs, model)}
      BY <1>0 DEF Access, MapsOf
    <3>3. {<<i, m[3]>> : m \in MapsOf(cfs, model)}
              = {<<i, v>> : v \in {m[3] : m \in MapsOf(cfs, model)}}
      OBVIOUS
    <3>4. cfs'.map = cfs.map \cup S
      BY <2>2
    <3> HIDE DEF S
    <3>5. Access2 = Access \cup {<<m[1], m[3]>> : m \in S}
      BY <3>4 DEF Access
    <3> QED
      BY <3>1, <3>2, <3>3, <3>5
  <2> QED
    BY <2>3, <2>4, <2>5 DEF Rearranged, Durable!Rearrange, Durable!Join, Access
<1>8. CASE Left(c)
  <2>1. PICK g \in Groups : \E S \in SUBSET Members(cfs, g) :
           c.map = {m \in cfs.map : m[1] \notin S} /\ \A i \in S : c.tag[i] = NoTag
    BY <1>8, LeftIs
  <2>2. PICK S \in SUBSET Members(cfs, g) : c.map = {m \in cfs.map : m[1] \notin S}
    BY <2>1
  <2>3. S \in SUBSET Initiators
    BY <1>0, <2>2 DEF Members
  <2>4. Access2 = Access \ (S \X Vols)
    BY <1>0, <2>2 DEF Access
  <2> QED
    BY <2>3, <2>4 DEF Rearranged, Durable!Rearrange, Durable!Forget, Access
<1>9. CASE Mapped(c)
  <2>1. PICK g \in Groups, l \in LunIds, v \in Existing :
           c.map = cfs.map \cup (Members(cfs, g) \X {l} \X {v})
    BY <1>9, MappedIs
  <2>2. Members(cfs, g) \in SUBSET Initiators
    BY <1>0 DEF Members
  <2>3. {<<m[1], m[3]>> : m \in Members(cfs, g) \X {l} \X {v}} = Members(cfs, g) \X {v}
    BY Projected
  <2>4. Access2 = Access \cup (Members(cfs, g) \X {v})
    BY <2>1, <2>3 DEF Access
  <2> QED
    BY <1>2, <2>2, <2>4
<1> QED
  BY <1>6, <1>7, <1>8, <1>9 DEF Saved

\* access_group_map_destroy deletes the group's mappings at the LUN ids of one of its
\* members, whatever they show.  Members that agree about the volume lose that volume
\* and nothing else, for a LUN id shows one volume.  Where they do not agree, a volume
\* that is at such an id for another member, but not for the first, is one they do not
\* agree about either.
LEMMA UnmapDurable ==
    ASSUME GroupInv, Single(cfs), NEW c, Unmapped(c), Save(c), Mark({})
    PROVE  Durable!DurableNext
<1> DEFINE Access2 == {<<m[1], m[3]>> : m \in cfs'.map}
<1>0. /\ Inv /\ Level(cfs, uneven)
      /\ cfs.map \subseteq Initiators \X LunIds \X Vols
  BY DEF GroupInv, Inv, Sound, Cfs
<1>1. PICK g \in Groups, v \in Vols, ids \in SUBSET LunIds :
         SeenAt(g, v, ids) /\ c.map = cfs.map \ (Members(cfs, g) \X ids \X Vols)
  BY <1>0, UnmappedIs
<1> DEFINE G == Members(cfs, g)
<1>2. Durable!Keep /\ cfs' = c /\ Existing' = Existing
  BY SavedKeep
<1>3. Durable!Even
  BY Marked DEF Durable!Even
<1>4. G \subseteq {i \in Initiators : cfs.tag[i] = g} /\ g # NoTag
  BY <1>0, NoTagAssumption DEF Members, Inv, Sound, Cfs
<1>5. \A m \in cfs.map : m \in cfs'.map <=> ~(m[1] \in G /\ m[2] \in ids)
  <2>1. \A m \in cfs.map : m \in G \X ids \X Vols <=> m[1] \in G /\ m[2] \in ids
    BY <1>0
  <2> HIDE DEF G
  <2> QED
    BY <1>1, <1>2, <2>1 DEF G
<1>6. cfs'.map \subseteq cfs.map
  BY <1>1, <1>2
<1> HIDE DEF G
<1>7. ASSUME NEW m \in cfs.map, m[1] \in G
      PROVE  \E first \in G : m[2] \in ids <=> <<first, m[2], v>> \in cfs.map
  <2>1. PICK first \in G : ids = {n[2] : n \in MapsOf(cfs, first) \cap MapsTo(cfs, v)}
    BY <1>1, <1>7 DEF SeenAt, G
  <2>2. \A n \in cfs.map : n = <<n[1], n[2], n[3]>>
    BY <1>0
  <2>3. m[2] \in ids <=> <<first, m[2], v>> \in cfs.map
    BY <2>1, <2>2 DEF MapsOf, MapsTo
  <2> QED
    BY <2>3
<1>8. ASSUME NEW m \in cfs.map, m[1] \in G, NEW w \in Vols, <<g, w>> \notin uneven, NEW first \in G
      PROVE  <<first, m[2], w>> \in cfs.map <=> m[3] = w
  <2>1. /\ m[1] \in Initiators /\ first \in Initiators /\ m[2] \in LunIds
        /\ m = <<m[1], m[2], m[3]>>
        /\ cfs.tag[m[1]] = g /\ cfs.tag[first] = g
    BY <1>0, <1>4, <1>8
  <2>2. Agree(cfs, first, m[1], w)
    BY <1>0, <1>4, <1>8, <2>1 DEF Level
  <2>3. <<first, m[2], w>> \in cfs.map <=> <<m[1], m[2], w>> \in cfs.map
    BY <2>1, <2>2 DEF Agree
  <2>4. <<m[1], m[2], w>> \in cfs.map => <<m[1], m[2], w>> = m
    BY <1>8 DEF Single
  <2> QED
    BY <2>1, <2>3, <2>4
<1>9. CASE <<g, v>> \notin uneven
  <2>1. \A m \in cfs.map : m[1] \in G => (m[2] \in ids <=> m[3] = v)
    BY <1>7, <1>8, <1>9
  <2>2. Access2 = Access \ (G \X {v})
    BY <1>5, <1>6, <2>1 DEF Access
  <2>3. G \in SUBSET Initiators
    BY <1>4
  <2>4. Durable!Revoke(G, v)
    BY <1>2, <2>2 DEF Durable!Revoke, Access
  <2>5. Durable!RightsStep
    BY <1>2, <1>3, <2>3, <2>4 DEF Durable!RightsStep, Durable!Rearrange
  <2> QED
    BY <2>5 DEF Durable!DurableNext
<1>10. CASE <<g, v>> \in uneven
  <2> DEFINE X == Access \ Access2
  <2>1. ASSUME NEW a \in X
        PROVE  a \in Initiators \X Vols /\ cfs.tag[a[1]] = g /\ <<g, a[2]>> \in uneven
    <3>1. PICK m \in cfs.map : a = <<m[1], m[3]>>
      BY DEF Access
    <3>2. m \notin cfs'.map
      BY <2>1, <3>1
    <3>3. m[1] \in G /\ m[2] \in ids
      BY <1>5, <3>2
    <3>4. m[1] \in Initiators /\ m[3] \in Vols /\ cfs.tag[m[1]] = g
      BY <1>0, <1>4, <3>3
    <3>5. PICK first \in G : <<first, m[2], v>> \in cfs.map
      BY <1>7, <3>3
    <3>6. CASE <<g, m[3]>> \notin uneven
      <4>1. <<first, m[2], m[3]>> \in cfs.map
        BY <1>8, <3>3, <3>4, <3>6
      <4>2. <<first, m[2], m[3]>> = <<first, m[2], v>>
        BY <3>5, <4>1 DEF Single
      <4> QED
        BY <1>10, <3>6, <4>2
    <3> QED
      BY <3>1, <3>4, <3>6
  <2>2. Access2 \subseteq Access
    BY <1>6 DEF Access
  <2>3. Access2 = Access \ X
    BY <2>2
  <2>4. X \in SUBSET {a \in Initiators \X Vols : cfs.tag[a[1]] = g /\ <<g, a[2]>> \in uneven}
    BY <2>1
  <2> HIDE DEF X
  <2>5. Durable!UnevenStep
    BY <1>2, <1>3, <2>3, <2>4 DEF Durable!UnevenStep, Access
  <2> QED
    BY <2>5 DEF Durable!DurableNext
<1> QED
  BY <1>9, <1>10

\* One step of Block.
LEMMA StepDurable ==
    ASSUME GroupInv, IdInv, [Next]_vars
    PROVE  [Durable!DurableNext]_<<Durable!vars, {<<m[1], m[3]>> : m \in saved.map}, lost, uneven>>
<1>0. Inv /\ Single(cfs)
  BY DEF GroupInv, IdInv
<1>1. ASSUME VolCall, Pooled, Mark({})
      PROVE  Durable!DurableNext
  BY <1>0, <1>1, VolDurable DEF Pooled
<1>2. ASSUME LookStep, NEW pair, Mark(pair)
      PROVE  Durable!DurableNext
  <2>1. cfs'.map = cfs.map /\ UNCHANGED <<vol, saved, lost>>
    BY <1>2 DEF LookStep, Looked, Reply
  <2> QED
    BY <1>2, <2>1, SameAccess
<1>3. ASSUME NEW i \in AuthInits, HalfAuthStep(i), Mark({})
      PROVE  Durable!DurableNext
  <2>1. PICK c : Authenticated(c, i, "mixed") /\ Reply(c, "ERROR")
    BY <1>3 DEF HalfAuthStep
  <2>2. cfs'.map = cfs.map /\ UNCHANGED <<vol, saved, lost>>
    BY <2>1, AuthenticatedIs, InitsAssumption DEF Reply
  <2> QED
    BY <1>3, <2>2, SameAccess
<1>4. ASSUME SaveStep, Mark({})
      PROVE  Durable!DurableNext
  <2>1. PICK c : Saved(c) /\ Save(c)
    BY <1>4 DEF SaveStep
  <2>2. CASE Unmapped(c)
    BY <1>0, <1>4, <2>1, <2>2, UnmapDurable
  <2>3. CASE ~Unmapped(c)
    <3>1. Durable!Keep /\ cfs' = c /\ Existing' = Existing
      BY <2>1, SavedKeep
    <3>2. Rearranged
      BY <1>0, <2>1, <2>3, <3>1, SavedAccess
    <3>3. Durable!Even
      BY <1>4, Marked DEF Durable!Even
    <3>4. Durable!RightsStep
      BY <3>1, <3>2, <3>3 DEF Rearranged, Durable!RightsStep
    <3> QED
      BY <3>4 DEF Durable!DurableNext
  <2> QED
    BY <2>2, <2>3
<1>5. CASE UNCHANGED vars
  BY <1>5 DEF vars, Durable!vars, Existing, Exists
<1>6. CASE Next
  <2>1. Kinds
    BY <1>0, <1>6, Steps
  <2> DEFINE Goal == Durable!DurableNext
  <2>2. \A g \in Groups, v \in Vols :
           HalfMapStep(g, v) /\ Mark({<<g, v>>}) => Goal
    BY <1>0, HalfMapDurable
  <2>3. \A i \in ExportInits, v \in Vols :
           SingleStep(i, v) /\ Mark({<<cfs.tag[i], v>>}) => Goal
    BY <1>0, SingleDurable
  <2>4. Reboot /\ Mark({}) => Goal
    BY <1>0, RebootDurable
  <2>5. \A i \in AuthInits : HalfAuthStep(i) /\ Mark({}) => Goal
    BY <1>3
  <2>6. \A pair : LookStep /\ Mark(pair) => Goal
    BY <1>2
  <2>7. VolCall /\ Pooled /\ Mark({}) => Goal
    BY <1>1
  <2>8. SaveStep /\ Mark({}) => Goal
    BY <1>4
  <2> HIDE DEF Goal
  <2>9. Goal
    <3>1. CASE VolCall /\ Pooled /\ Mark({}) /\ Note({})
      BY <3>1, <2>7
    <3>2. CASE LookStep /\ \E pair, S : Mark(pair) /\ Note(S)
      BY <3>2, <2>6
    <3>3. CASE \E g \in Groups, v \in Vols :
                  HalfMapStep(g, v) /\ Mark({<<g, v>>}) /\ Note(Members(cfs, g))
      BY <3>3, <2>2
    <3>4. CASE \E i \in AuthInits : HalfAuthStep(i) /\ Mark({}) /\ Note({i})
      BY <3>4, <2>5
    <3>5. CASE \E i \in ExportInits, v \in Vols :
                  SingleStep(i, v) /\ Mark({<<cfs.tag[i], v>>}) /\ Note({})
      BY <3>5, <2>3
    <3>6. CASE SaveStep /\ Mark({}) /\ \E S : Note(S)
      BY <3>6, <2>8
    <3>7. CASE Reboot /\ Mark({}) /\ unsaved' = {}
      BY <3>7, <2>4
    <3> QED
      BY <2>1, <3>1, <3>2, <3>3, <3>4, <3>5, <3>6, <3>7 DEF Kinds
  <2> QED
    BY <2>9 DEF Goal
<1> QED
  BY <1>5, <1>6

\* However many saves are lost and calls fail half way, LUN ids, portal groups and
\* storage objects make no difference: targetd keeps a set of volumes and who may
\* reach which, and a boot gives back what was last saved of it.  A revocation takes
\* more than it was asked to only from a group whose members it, or a failed call,
\* treated singly before, and only volumes that happened to.
THEOREM BlockIsDurableMasking == Spec => ImplementsDurableMasking
<1>1. Init => Durable!DurableInit
  BY DEF Init, Durable!DurableInit, Durable!Init, EmptyCfs, Existing, Exists
<1>2. GroupInv /\ IdInv /\ [Next]_vars =>
          [Durable!DurableNext]_<<Durable!vars, {<<m[1], m[3]>> : m \in saved.map}, lost, uneven>>
  BY StepDurable
<1> QED
  BY <1>1, <1>2, GroupInvHolds, IdInvHolds, PTL
  DEF Spec, ImplementsDurableMasking, Durable!DurableSpec

=============================================================================
