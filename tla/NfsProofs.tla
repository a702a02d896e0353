----------------------------- MODULE NfsProofs ------------------------------
(***************************************************************************)
(* Theorems about Nfs and the options of an export, for any exports, lines *)
(* of the administrator and options.                                       *)
(***************************************************************************)
EXTENDS Nfs, TLAPS

-----------------------------------------------------------------------------
(* parse_opt.                                                              *)

\* An option stays unless one of the six pairs has it, and its opposite is the
\* host's own.
LEMMA ParseOptMembers ==
    ASSUME NEW global, NEW specific, NEW o
    PROVE  o \in ParseOpt(global, specific) <=>
             /\ o \in global \cup specific
             /\ ~(o = "ro" /\ "rw" \in specific) /\ ~(o = "rw" /\ "ro" \in specific)
             /\ ~(o = "insecure" /\ "secure" \in specific)
             /\ ~(o = "secure" /\ "insecure" \in specific)
             /\ ~(o = "sync" /\ "async" \in specific)
             /\ ~(o = "async" /\ "sync" \in specific)
             /\ ~(o = "hide" /\ "nohide" \in specific)
             /\ ~(o = "nohide" /\ "hide" \in specific)
             /\ ~(o = "wdelay" /\ "no_wdelay" \in specific)
             /\ ~(o = "no_wdelay" /\ "wdelay" \in specific)
             /\ ~(o = "root_squash" /\ "no_root_squash" \in specific)
             /\ ~(o = "no_root_squash" /\ "root_squash" \in specific)
  BY DEF ParseOpt, Override

\* What parse_opt (nfs.py:147) makes of the options of a line and a host, when
\* the host's do not exclude each other.
LEMMA ParseOptOverrides ==
    ASSUME NEW g, NEW s, ValidOptions(s)
    PROVE  ParseOpt(g, s) =
             s \cup {o \in g : \A pair \in Conflicting : o \in pair => pair \cap s \subseteq {o}}
<1> DEFINE kept == {o \in g : \A pair \in Conflicting : o \in pair => pair \cap s \subseteq {o}}
<1> SUFFICES ASSUME NEW o PROVE o \in ParseOpt(g, s) <=> o \in s \cup kept
  OBVIOUS
<1>1. \A pair \in Conflicting : ~(pair \subseteq s)
  BY DEF ValidOptions
<1>2. CASE o \in s
  BY <1>1, <1>2, ParseOptMembers DEF Conflicting
<1>3. CASE o \notin s
  BY <1>3, ParseOptMembers DEF Conflicting
<1> QED BY <1>2, <1>3

\* Were neither the line's options nor the host's in conflict, then what
\* parse_opt makes of them is not, and Export() accepts it.
THEOREM ParseOptIsValid ==
    ASSUME NEW global, NEW specific, ValidOptions(global), ValidOptions(specific)
    PROVE  ValidOptions(ParseOpt(global, specific))
<1> SUFFICES ASSUME NEW pair \in Conflicting, pair \subseteq ParseOpt(global, specific)
             PROVE  FALSE
  BY DEF ValidOptions
<1>1. ~(pair \subseteq global) /\ ~(pair \subseteq specific)
  BY DEF ValidOptions
<1>2. PICK a, b : pair = {a, b} /\ a \in global \ specific /\ b \in specific
  <2>1. PICK a, b : pair = {a, b}
    BY DEF Conflicting
  <2>2. pair \subseteq global \cup specific
    BY ParseOptMembers
  <2> QED BY <2>1, <2>2, <1>1
<1> QED BY <1>2, ParseOptMembers DEF Conflicting

-----------------------------------------------------------------------------
(* parse_export.                                                           *)

LEMMA HostNumbers ==
    ASSUME NEW line \in Lines, NEW i \in DOMAIN line.hosts
    PROVE  /\ i \in Nat
           /\ Giving(line, i) \subseteq DOMAIN line.hosts \cap 1 .. i
           /\ i \in Giving(line, i) <=> line.hosts[i].own # None
<1>1. line.hosts \in Seq([key : Keys, own : {None} \cup SUBSET STRING])
  BY LinesAssumption
<1>2. DOMAIN line.hosts = 1 .. Len(line.hosts) /\ Len(line.hosts) \in Nat
  BY <1>1
<1> QED BY <1>2 DEF Giving

\* The options taken for a host were given by some host of the line, if by any.
LEMMA SpecificIsGiven ==
    ASSUME NEW line \in Lines, NEW i \in DOMAIN line.hosts
    PROVE  \/ Specific(line, i) = {}
           \/ \E j \in DOMAIN line.hosts :
                line.hosts[j].own # None /\ Specific(line, i) = line.hosts[j].own
<1> DEFINE last == {j \in Giving(line, i) : \A m \in Giving(line, i) : m <= j}
<1>1. \A j, m \in last : j = m
  BY HostNumbers
<1>2. CASE last = {}
  BY <1>2 DEF Specific
<1>3. CASE last # {}
  <2>1. PICK j \in last : last = {j}
    BY <1>1, <1>3
  <2>2. Specific(line, i) = line.hosts[j].own
    BY <2>1 DEF Specific
  <2>3. j \in DOMAIN line.hosts /\ line.hosts[j].own # None
    BY HostNumbers DEF Giving
  <2> QED BY <2>2, <2>3
<1> QED BY <1>2, <1>3

\* A host's own options are taken for it, and none if no host up to it gives any.
LEMMA SpecificIsOwn ==
    ASSUME NEW line \in Lines, NEW i \in DOMAIN line.hosts
    PROVE  /\ line.hosts[i].own # None => Specific(line, i) = line.hosts[i].own
           /\ Giving(line, i) = {} => Specific(line, i) = {} /\ line.hosts[i].own = None
<1>1. ASSUME line.hosts[i].own # None PROVE Specific(line, i) = line.hosts[i].own
  <2>1. i \in Giving(line, i) /\ \A m \in Giving(line, i) : m <= i
    BY <1>1, HostNumbers
  <2>2. \A j \in Giving(line, i) : i <= j => j = i
    BY HostNumbers
  <2>3. {j \in Giving(line, i) : \A m \in Giving(line, i) : m <= j} = {i}
    BY <2>1, <2>2
  <2> QED BY <2>3 DEF Specific
<1>2. ASSUME Giving(line, i) = {}
      PROVE  Specific(line, i) = {} /\ line.hosts[i].own = None
  BY <1>2, HostNumbers DEF Specific
<1> QED BY <1>1, <1>2

\* What targetd reads for a host that gives its options, or comes before every host
\* that does, is what exportfs takes the line to mean: the host's options, and those
\* of the line that they do not exclude.  (A later host that gives none is read
\* with the options of another.)
THEOREM ParseOptMeansLine ==
    ASSUME NEW line \in Lines, NEW i \in DOMAIN line.hosts,
           ValidOptions(Specific(line, i)),
           line.hosts[i].own # None \/ Giving(line, i) = {}
    PROVE  ReadAs(line, i) = Meaning(line, i)
<1>1. CASE line.hosts[i].own # None
  BY <1>1, SpecificIsOwn, ParseOptOverrides DEF ReadAs, Meaning
<1>2. CASE Giving(line, i) = {}
  BY <1>2, SpecificIsOwn, ParseOptOverrides DEF ReadAs, Meaning
<1> QED BY <1>1, <1>2

\* Every host of a readable line has options that Export() accepts.
LEMMA ReadableParses ==
    ASSUME NEW line \in Lines, Readable(line)
    PROVE  Parses(line) /\ \A i \in DOMAIN line.hosts : ValidOptions(Specific(line, i))
<1> SUFFICES ASSUME NEW i \in DOMAIN line.hosts
             PROVE  /\ line.global \cup Specific(line, i) \subseteq BoolOption
                    /\ ValidOptions(line.global) /\ ValidOptions(Specific(line, i))
                    /\ ValidOptions(ReadAs(line, i))
  BY DEF Parses
<1>1. line.global \subseteq BoolOption /\ ValidOptions(line.global)
  BY DEF Readable
<1>2. Specific(line, i) \subseteq BoolOption /\ ValidOptions(Specific(line, i))
  <2>1. CASE Specific(line, i) = {}
    BY <2>1 DEF ValidOptions, Conflicting
  <2>2. CASE Specific(line, i) # {}
    BY <2>2, SpecificIsGiven DEF Readable
  <2> QED BY <2>1, <2>2
<1> QED BY <1>1, <1>2, ParseOptIsValid DEF ReadAs

-----------------------------------------------------------------------------
(* Types.                                                                  *)

LEMMA InitTyped == Init => TypeOK
  BY NoneAssumption DEF Init, TypeOK, Nothing

\* A line that lists a key does so in some place, with options of somebody's.
LEMMA LineOfIs ==
    ASSUME NEW lines \in SUBSET Lines, NEW k, Listing(lines, k) # {}
    PROVE  LET l == LineOf(lines, k)
           IN  /\ l \in Lines
               /\ Place(l, k) \in DOMAIN l.hosts
               /\ Meaning(l, Place(l, k)) \subseteq Options
<1> DEFINE l == LineOf(lines, k)
<1>1. l \in Lines /\ k \in KeysOf(l)
  BY DEF LineOf, Listing
<1>2. Place(l, k) \in DOMAIN l.hosts
  BY <1>1 DEF Place, KeysOf
<1>3. Meaning(l, Place(l, k)) \in {Meaning(l, i) : i \in DOMAIN l.hosts}
  BY <1>2
<1>4. Meaning(l, Place(l, k)) \subseteq Options
  BY <1>1, <1>3 DEF Options
<1> QED BY <1>1, <1>2, <1>4

\* A boot exports what lines and files have, in the options they have.
LEMMA BootTyped ==
    ASSUME NEW lines \in SUBSET Lines,
           NEW saved \in [Keys -> (SUBSET (Options \cap BoolOption)) \cup {None}]
    PROVE  Boot(lines, saved) \in [Keys -> (SUBSET Options) \cup {None}]
<1> SUFFICES ASSUME NEW k \in Keys, Listing(lines, k) # {}
             PROVE  Settled(Meaning(LineOf(lines, k), Place(LineOf(lines, k), k))) \in SUBSET Options
  BY DEF Boot
<1> QED BY LineOfIs DEF Settled

\* _save_exports writes only what it could parse.
LEMMA WrittenTyped ==
    ASSUME TypeOK, Listed
    PROVE  Written \in [Keys -> (SUBSET (Options \cap BoolOption)) \cup {None}]
  BY DEF TypeOK, Listed, Written

LEMMA ExportedTyped ==
    ASSUME TypeOK, NEW k \in Keys, NEW o, NEW what,
           o \in Requests \cup {None}, what \in Keys \cup {None}, pc = "idle",
           Exported(k, o, what)
    PROVE  TypeOK'
<1>1. o \in (SUBSET Options) \cup {None}
  BY DEF Options
<1> QED BY <1>1 DEF TypeOK, Exported

LEMMA AbandonedTyped == ASSUME TypeOK, NEW code, Abandoned(code) PROVE TypeOK'
  BY DEF TypeOK, Abandoned, Ended

LEMMA RefusedTyped == ASSUME TypeOK, NEW code, Refuse(code) PROVE TypeOK'
  BY DEF TypeOK, Refuse

LEMMA CallTyped == TypeOK /\ Call => TypeOK'
<1> SUFFICES ASSUME TypeOK, Call PROVE TypeOK'
  OBVIOUS
<1>1. CASE \E code : Refuse(code)
  BY <1>1, RefusedTyped
<1>2. ASSUME NEW k \in Keys, NfsExportRemove(k), ~\E code : Refuse(code) PROVE TypeOK'
  BY <1>2, ExportedTyped DEF NfsExportRemove
<1>3. ASSUME NEW k \in Keys, NEW o \in Requests, NfsExportAdd(k, o),
             ~\E code : Refuse(code)
      PROVE  TypeOK'
  BY <1>3, ExportedTyped DEF NfsExportAdd
<1> QED BY <1>1, <1>2, <1>3 DEF Call

LEMMA SaveTyped == TypeOK /\ (Save \/ Kill) => TypeOK'
<1> SUFFICES ASSUME TypeOK, Save \/ Kill PROVE TypeOK'
  OBVIOUS
<1>1. CASE \E code : Abandoned(code)
  BY <1>1, AbandonedTyped
<1>2. CASE SaveUnlink
  BY <1>2 DEF SaveUnlink, TypeOK, Nothing
<1>3. CASE SaveRead /\ ~\E code : Abandoned(code)
  BY <1>3 DEF SaveRead, TypeOK, UserExports
<1>4. CASE SaveWrite /\ ~\E code : Abandoned(code)
  <2>1. file' = Written /\ Listed /\ Ended("ok") /\ behind' = disturbed
        /\ asked' = (asked \cup Copied) \ (IF disturbed THEN {} ELSE {removing})
    BY <1>4 DEF SaveWrite
  <2>2. asked' \subseteq Keys
    BY <2>1 DEF TypeOK, Copied
  <2> QED BY <2>1, <2>2, WrittenTyped DEF Ended, TypeOK
<1>5. CASE Kill
  BY <1>5, AbandonedTyped DEF Kill
<1> QED BY <1>1, <1>2, <1>3, <1>4, <1>5 DEF Save

LEMMA RebootTyped == TypeOK /\ Reboot => TypeOK'
<1> SUFFICES ASSUME TypeOK, Reboot PROVE TypeOK'
  OBVIOUS
<1>1. kernel' \in [Keys -> (SUBSET Options) \cup {None}]
  BY BootTyped DEF TypeOK, Reboot
<1> QED BY <1>1 DEF TypeOK, Reboot

\* The lines that the administrator edits are lines of his.
LEMMA AdminEdits ==
    ASSUME TypeOK, Admin
    PROVE  \/ \E old, new \in SUBSET Lines : AdminEdit(old, new)
           \/ AdminReload
           \/ \E k \in Keys, o \in ByHand : AdminExport(k, o)
           \/ \E state \in {"fine", "missing", "quote"} : AdminFile(state)
<1>1. ASSUME NEW line \in Lines,
             AdminEdit({line}, {}) \/ AdminEdit({}, {line}) \/ \E l \in etc : AdminEdit({l}, {line})
      PROVE  \E old, new \in SUBSET Lines : AdminEdit(old, new)
  BY <1>1 DEF TypeOK
<1> QED BY <1>1 DEF Admin

LEMMA AdminTyped == TypeOK /\ Admin => TypeOK'
<1> SUFFICES ASSUME TypeOK, Admin PROVE TypeOK'
  OBVIOUS
<1>1. ASSUME NEW old \in SUBSET Lines, NEW new \in SUBSET Lines, AdminEdit(old, new)
      PROVE  TypeOK'
  BY <1>1 DEF AdminEdit, TypeOK
<1>2. CASE AdminReload
  <2>1. kernel' \in [Keys -> (SUBSET Options) \cup {None}]
    BY <1>2, BootTyped DEF AdminReload, TypeOK
  <2> QED BY <1>2, <2>1 DEF AdminReload, TypeOK
<1>3. ASSUME NEW k \in Keys, NEW o \in ByHand, AdminExport(k, o)
      PROVE  TypeOK'
  <2>1. o \in SUBSET Options
    BY DEF Options
  <2> QED BY <1>3, <2>1 DEF AdminExport, TypeOK
<1>4. ASSUME NEW state \in {"fine", "missing", "quote"}, AdminFile(state)
      PROVE  TypeOK'
  BY <1>4 DEF AdminFile, TypeOK
<1> QED BY <1>1, <1>2, <1>3, <1>4, AdminEdits DEF Admin

LEMMA TypeStep == TypeOK /\ [Next]_vars => TypeOK'
<1>1. TypeOK /\ UNCHANGED vars => TypeOK'
  BY DEF vars, TypeOK
<1> QED BY <1>1, CallTyped, SaveTyped, RebootTyped, AdminTyped DEF Next

\* Every reachable state has its type, whatever the administrator does between
\* the steps of _save_exports; targetd.exports has no option targetd cannot parse.
THEOREM ExportsTyped == Spec => []TypeOK
  BY InitTyped, TypeStep, PTL DEF Spec

-----------------------------------------------------------------------------
(* What a reboot restores.                                                 *)

\* targetd.exports was written or read last: it has what the kernel exports.
Saved == pc = "idle" /\ ~behind => \A k \in Keys : ~Lined(k) => file[k] = kernel[k]

InCallBehind == pc # "idle" => behind

\* What _save_exports has read of /etc/exports is still so when it writes, in so
\* far as nobody came in between.
ReadStillSo == pc = "write" /\ ~disturbed => user = UserExports

\* A key that nobody asked for, and no save copied, is not in targetd.exports, nor
\* exported unless a line has it, or had it until an edit that exportfs has not read.
Unasked ==
    \A k \in Keys : k \notin asked =>
        file[k] = None /\ (~edited /\ ~Lined(k) => kernel[k] = None)

Removed == removing \in Keys /\ ~disturbed => kernel[removing] = None

Rest == Saved /\ InCallBehind /\ ReadStillSo /\ Unasked /\ Removed

Inv == TypeOK /\ Rest

\* /etc/exports is read the same while it is.
LEMMA SameLines ==
    ASSUME UNCHANGED etc
    PROVE  /\ UserExports' = UserExports
           /\ \A k : Lined(k)' <=> Lined(k)
  BY DEF UserExports, Lined

LEMMA NothingLined == ASSUME etc = {}, NEW k PROVE ~Lined(k)
  BY DEF Lined, Listing

LEMMA InvInit == Init => Inv
<1> SUFFICES ASSUME Init PROVE Inv
  OBVIOUS
<1>1. TypeOK
  BY InitTyped
<1> QED BY <1>1, NoneAssumption
        DEF Init, Inv, Rest, Saved, InCallBehind, ReadStillSo, Unasked, Removed, Nothing

\* A call that has changed the kernel's table has yet to save it.
LEMMA InvExported ==
    ASSUME Inv, pc = "idle", NEW k \in Keys, NEW o, NEW what,
           Exported(k, o, what), what = None \/ (what = k /\ o = None)
    PROVE  Rest'
<1>1. \A j : Lined(j)' <=> Lined(j)
  BY SameLines DEF Exported
<1>2. (Saved /\ InCallBehind /\ ReadStillSo)'
  BY DEF Exported, Saved, InCallBehind, ReadStillSo
<1>3. Removed'
  BY NoneAssumption DEF Exported, Removed, Inv, TypeOK
<1>4. Unasked'
  BY <1>1 DEF Exported, Unasked, Inv, Rest, TypeOK
<1> QED BY <1>2, <1>3, <1>4 DEF Rest

LEMMA InvRefused == ASSUME Inv, NEW code, Refuse(code) PROVE Rest'
<1>1. UserExports' = UserExports /\ \A j : Lined(j)' <=> Lined(j)
  BY SameLines DEF Refuse
<1> QED BY <1>1 DEF Refuse, Inv, Rest, Saved, InCallBehind, ReadStillSo, Unasked, Removed

LEMMA InvAbandoned == ASSUME Inv, pc # "idle", NEW code, Abandoned(code) PROVE Rest'
<1>1. \A j : Lined(j)' <=> Lined(j)
  BY SameLines DEF Abandoned, Ended
<1>2. (Saved /\ InCallBehind /\ ReadStillSo /\ Removed)'
  BY NoneAssumption
     DEF Abandoned, Ended, Inv, Rest, Saved, InCallBehind, ReadStillSo, Removed
<1>3. Unasked'
  BY <1>1 DEF Abandoned, Ended, Inv, Rest, Unasked
<1> QED BY <1>2, <1>3 DEF Rest

LEMMA InvCall == Inv /\ Call => Rest'
<1> SUFFICES ASSUME Inv, Call PROVE Rest'
  OBVIOUS
<1>1. CASE \E code : Refuse(code)
  BY <1>1, InvRefused
<1>2. ASSUME NEW k \in Keys, NfsExportRemove(k), ~\E code : Refuse(code)
      PROVE  Rest'
  <2>1. pc = "idle" /\ Exported(k, None, k)
    BY <1>2 DEF NfsExportRemove
  <2> QED BY <2>1, InvExported
<1>3. ASSUME NEW k \in Keys, NEW o \in Requests, NfsExportAdd(k, o),
             ~\E code : Refuse(code)
      PROVE  Rest'
  <2>1. pc = "idle" /\ Exported(k, o, None)
    BY <1>3 DEF NfsExportAdd
  <2> QED BY <2>1, InvExported
<1> QED BY <1>1, <1>2, <1>3 DEF Call

\* The one step that brings targetd.exports up to date.
LEMMA InvWritten ==
    ASSUME Inv, SaveWrite, Ended("ok"), file' = Written, behind' = disturbed,
           asked' = (asked \cup Copied) \ (IF disturbed THEN {} ELSE {removing})
    PROVE  Rest'
<1>0. pc = "write" /\ UNCHANGED <<kernel, etc, edited>>
  BY DEF SaveWrite, Ended
<1>1. \A j : Lined(j)' <=> Lined(j)
  BY <1>0, SameLines
<1>2. \A k \in UserExports : Lined(k)
  BY DEF UserExports, Lined, Listing
<1>3. Saved'
  <2> SUFFICES ASSUME ~disturbed, NEW k \in Keys, ~Lined(k)
               PROVE  Written[k] = kernel[k]
    BY <1>0, <1>1 DEF Saved
  <2>1. k \notin user
    BY <1>0, <1>2 DEF Inv, Rest, ReadStillSo
  <2> QED BY <2>1 DEF Written
<1>4. \A k \in Keys : k \in asked /\ k \notin asked' => kernel[k] = None
  BY DEF Inv, Rest, Removed
<1>5. Unasked'
  <2> SUFFICES ASSUME NEW k \in Keys, k \notin asked'
               PROVE  /\ Written[k] = None
                      /\ ~edited /\ ~Lined(k) => kernel[k] = None
    BY <1>0, <1>1 DEF Unasked
  <2>1. CASE kernel[k] = None
    BY <2>1 DEF Written
  <2>2. CASE kernel[k] # None
    <3>1. k \notin asked
      BY <1>4, <2>2
    <3>2. ~edited /\ ~Lined(k) => kernel[k] = None
      BY <3>1 DEF Inv, Rest, Unasked
    <3>3. k \notin Copied
      BY <2>2 DEF Inv, Rest, Removed
    <3>4. Written[k] # None => ~edited /\ ~disturbed /\ (Lined(k) => k \in UserExports)
      BY <3>3 DEF Copied
    <3>5. Written[k] # None => k \notin user
      BY DEF Written
    <3>6. Written[k] # None => ~Lined(k)
      BY <3>4, <3>5, <1>0 DEF Inv, Rest, ReadStillSo
    <3> QED BY <3>2, <3>4, <3>6, <2>2
  <2> QED BY <2>1, <2>2
<1>6. (InCallBehind /\ ReadStillSo /\ Removed)'
  BY NoneAssumption DEF Ended, InCallBehind, ReadStillSo, Removed
<1> QED BY <1>3, <1>5, <1>6 DEF Rest

LEMMA InvSave == Inv /\ (Save \/ Kill) => Rest'
<1> SUFFICES ASSUME Inv, Save \/ Kill PROVE Rest'
  OBVIOUS
<1>0. pc # "idle"
  BY DEF Save, Kill, SaveUnlink, SaveRead, SaveWrite
<1>1. CASE \E code : Abandoned(code)
  BY <1>0, <1>1, InvAbandoned
<1>2. CASE SaveUnlink
  <2>1. \A j : Lined(j)' <=> Lined(j)
    BY <1>2, SameLines DEF SaveUnlink
  <2> QED BY <1>2, <2>1 DEF SaveUnlink, Nothing, Inv, Rest, Saved, InCallBehind,
                            ReadStillSo, Unasked, Removed
<1>3. CASE SaveRead /\ ~\E code : Abandoned(code)
  <2>1. /\ pc = "read" /\ pc' = "write" /\ user' = UserExports
        /\ UNCHANGED <<kernel, file, etc, edited, removing, disturbed, behind, asked>>
    BY <1>3 DEF SaveRead
  <2>2. UserExports' = UserExports /\ \A j : Lined(j)' <=> Lined(j)
    BY <2>1, SameLines
  <2> QED BY <2>1, <2>2 DEF Inv, Rest, Saved, InCallBehind, ReadStillSo, Unasked, Removed
<1>4. CASE SaveWrite /\ ~\E code : Abandoned(code)
  <2>1. file' = Written /\ Ended("ok") /\ behind' = disturbed
        /\ asked' = (asked \cup Copied) \ (IF disturbed THEN {} ELSE {removing})
    BY <1>4 DEF SaveWrite
  <2> QED BY <1>4, <2>1, InvWritten
<1>5. CASE Kill
  BY <1>5, <1>1 DEF Kill
<1> QED BY <1>1, <1>2, <1>3, <1>4, <1>5 DEF Save

\* exportfs fills the kernel's table from the two files.
LEMMA InvBooted ==
    ASSUME Inv, kernel' = Boot(etc, file), UNCHANGED <<file, etc, asked>>
    PROVE  Unasked' /\ \A k \in Keys : ~Lined(k)' => kernel'[k] = file'[k]
<1>1. \A j : Lined(j)' <=> Lined(j)
  BY SameLines
<1>2. \A k \in Keys : ~Lined(k) => kernel'[k] = file[k]
  BY DEF Lined, Boot
<1> QED BY <1>1, <1>2 DEF Inv, Rest, Unasked

LEMMA InvReboot == Inv /\ Reboot => Rest'
<1> SUFFICES ASSUME Inv, Reboot PROVE Rest'
  OBVIOUS
<1>1. Unasked' /\ \A k \in Keys : ~Lined(k)' => kernel'[k] = file'[k]
  BY InvBooted DEF Reboot
<1>2. Saved'
  BY <1>1 DEF Saved
<1>3. (InCallBehind /\ ReadStillSo /\ Removed)'
  BY NoneAssumption DEF Reboot, InCallBehind, ReadStillSo, Removed
<1> QED BY <1>1, <1>2, <1>3 DEF Rest

LEMMA InvAdmin == Inv /\ Admin => Rest'
<1> SUFFICES ASSUME Inv, Admin PROVE Rest'
  OBVIOUS
<1>0. TypeOK
  BY DEF Inv
<1>1. ASSUME NEW old, NEW new, AdminEdit(old, new) PROVE Rest'
  BY <1>1, NoneAssumption
     DEF AdminEdit, Inv, TypeOK, Rest, Saved, InCallBehind, ReadStillSo, Unasked, Removed
<1>2. CASE AdminReload
  <2>1. Unasked' /\ \A k \in Keys : ~Lined(k)' => kernel'[k] = file'[k]
    BY <1>2, InvBooted DEF AdminReload
  <2>2. Saved'
    BY <1>2, <2>1 DEF AdminReload, Saved
  <2>3. (InCallBehind /\ ReadStillSo /\ Removed)'
    BY <1>0, <1>2, NoneAssumption
       DEF AdminReload, TypeOK, InCallBehind, ReadStillSo, Removed
  <2> QED BY <2>1, <2>2, <2>3 DEF Rest
<1>3. ASSUME NEW k \in Keys, NEW o \in ByHand, AdminExport(k, o) PROVE Rest'
  <2>1. \A j : Lined(j)' <=> Lined(j)
    BY <1>3, SameLines DEF AdminExport
  <2>2. (Saved /\ InCallBehind /\ ReadStillSo /\ Removed)'
    BY <1>0, <1>3, NoneAssumption
       DEF AdminExport, TypeOK, Saved, InCallBehind, ReadStillSo, Removed
  <2>3. Unasked'
    BY <1>0, <1>3, <2>1 DEF AdminExport, Unasked, Inv, Rest, TypeOK
  <2> QED BY <2>2, <2>3 DEF Rest
<1>4. ASSUME NEW state, AdminFile(state) PROVE Rest'
  <2>1. UserExports' = UserExports /\ \A j : Lined(j)' <=> Lined(j)
    BY <1>4, SameLines DEF AdminFile
  <2> QED BY <1>4, <2>1 DEF AdminFile, Inv, Rest, Saved, InCallBehind, ReadStillSo,
                            Unasked, Removed
<1> QED BY <1>0, <1>1, <1>2, <1>3, <1>4, AdminEdits

LEMMA InvStep == Inv /\ [Next]_vars => Inv'
<1> SUFFICES ASSUME Inv, [Next]_vars PROVE Rest'
  BY TypeStep DEF Inv
<1>1. CASE UNCHANGED vars
  <2>1. UserExports' = UserExports /\ \A j : Lined(j)' <=> Lined(j)
    BY <1>1, SameLines DEF vars
  <2> QED BY <1>1, <2>1 DEF vars, Inv, Rest, Saved, InCallBehind, ReadStillSo,
                            Unasked, Removed
<1> QED BY <1>1, InvCall, InvSave, InvReboot, InvAdmin DEF Next

THEOREM InvHolds == Spec => []Inv
  BY InvInit, InvStep, PTL DEF Spec

\* Between calls, when none was cut short and the administrator has done nothing by
\* hand since the last save, a reboot gives back what is exported beside his lines.
THEOREM RebootsRestore == Spec => []BootKeepsExports
<1>1. Inv => BootKeepsExports
  BY DEF Inv, Rest, Saved, BootKeepsExports, Boot, Lined
<1> QED BY <1>1, InvHolds, PTL

\* No crash, reboot, edit or save exports what nobody asked for, but for the copies
\* that saves make of lines they misread or find half edited.
THEOREM NothingExportedUnasked == Spec => []NothingUnasked
<1>1. Inv => NothingUnasked
  BY DEF Inv, Rest, Unasked, NothingUnasked
<1> QED BY <1>1, InvHolds, PTL

-----------------------------------------------------------------------------
(* How the administrator's lines are exported.                             *)

LEMMA SettledKeeps == ASSUME NEW options, ValidOptions(options) PROVE Settled(options) = options
  BY DEF Settled, ValidOptions

\* What the lines of /etc/exports have for a key.
FromLine(k) == Settled(Meaning(LineOf(etc, k), Place(LineOf(etc, k), k)))

\* A key that nobody asked for is exported as its line has it, if at all, once
\* exportfs has read the lines.
AsLined ==
    \A k \in Keys : k \notin asked /\ ~edited /\ Lined(k) => kernel[k] \in {None, FromLine(k)}

LEMMA AsLinedSame ==
    ASSUME AsLined, UNCHANGED <<etc, edited>>,
           \A k \in Keys : k \notin asked' =>
               kernel'[k] = None \/ (k \notin asked /\ kernel'[k] = kernel[k])
    PROVE  AsLined'
<1>1. \A k : (Lined(k)' <=> Lined(k)) /\ FromLine(k)' = FromLine(k)
  BY DEF Lined, FromLine
<1> QED BY <1>1 DEF AsLined

LEMMA AsLinedBooted ==
    ASSUME kernel' = Boot(etc, file), UNCHANGED etc PROVE AsLined'
  BY DEF AsLined, Boot, Lined, FromLine

LEMMA AsLinedStep == Inv /\ AsLined /\ [Next]_vars => AsLined'
<1> SUFFICES ASSUME Inv, AsLined, [Next]_vars PROVE AsLined'
  OBVIOUS
<1>0. TypeOK
  BY DEF Inv
<1>1. CASE UNCHANGED <<kernel, etc, edited>> /\ asked \subseteq asked'
  BY <1>1, AsLinedSame
<1>2. ASSUME NEW k \in Keys, NEW o, NEW what, Exported(k, o, what) PROVE AsLined'
  BY <1>0, <1>2, AsLinedSame DEF Exported, TypeOK
<1>3. CASE Call
  BY <1>1, <1>2, <1>3 DEF Call, NfsExportAdd, NfsExportRemove, Refuse
<1>4. CASE Save \/ Kill
  <2>1. UNCHANGED <<kernel, etc, edited>>
    BY <1>4 DEF Save, Kill, SaveUnlink, SaveRead, SaveWrite, Abandoned, Ended
  <2>2. CASE asked \subseteq asked'
    BY <1>1, <2>1, <2>2
  <2>3. CASE ~disturbed /\ asked' = (asked \cup Copied) \ {removing}
    <3>1. \A k \in Keys : k \notin asked' => kernel[k] = None \/ k \notin asked
      BY <2>3 DEF Inv, Rest, Removed
    <3> QED BY <2>1, <3>1, AsLinedSame
  <2>4. asked \subseteq asked' \/ (~disturbed /\ asked' = (asked \cup Copied) \ {removing})
    BY <1>4 DEF Save, Kill, SaveUnlink, SaveRead, SaveWrite, Abandoned, Ended
  <2> QED BY <2>2, <2>3, <2>4
<1>5. CASE Reboot \/ AdminReload
  BY <1>5, AsLinedBooted DEF Reboot, AdminReload
<1>6. ASSUME NEW old, NEW new, AdminEdit(old, new) PROVE AsLined'
  BY <1>6 DEF AdminEdit, AsLined
<1>7. ASSUME NEW k \in Keys, NEW o \in ByHand, AdminExport(k, o) PROVE AsLined'
  BY <1>0, <1>7, AsLinedSame DEF AdminExport, TypeOK
<1>8. ASSUME NEW state, AdminFile(state) PROVE AsLined'
  BY <1>1, <1>8 DEF AdminFile
<1>9. CASE UNCHANGED vars
  BY <1>1, <1>9 DEF vars
<1>10. CASE Admin
  BY <1>0, <1>5, <1>6, <1>7, <1>8, <1>10, AdminEdits
<1> QED BY <1>3, <1>4, <1>5, <1>9, <1>10 DEF Next

\* targetd takes every line whose parts are free of conflicts, reads the options of a
\* host as exportfs does, unless the host gives none and one before it has, and what
\* comes from such a host alone is exported with those.
THEOREM LinesRead == Spec => []LinesReadAsMeant
<1>1. Init => AsLined
  BY NothingLined DEF Init, AsLined
<1>2. Inv /\ AsLined => LinesReadAsMeant
  <2> SUFFICES ASSUME Inv, AsLined, NEW k \in Keys, Lined(k), Readable(LineOf(etc, k))
               PROVE  LET l == LineOf(etc, k)
                          i == Place(l, k)
                      IN  /\ k \in UserExports
                          /\ l.hosts[i].own # None \/ Giving(l, i) = {} =>
                                /\ ReadAs(l, i) = Meaning(l, i)
                                /\ kernel[k] # None /\ k \notin asked /\ ~edited
                                     => kernel[k] = ReadAs(l, i)
    BY DEF LinesReadAsMeant
  <2> DEFINE l == LineOf(etc, k)
             i == Place(l, k)
  <2>1. l \in Lines /\ i \in DOMAIN l.hosts
    BY LineOfIs DEF Inv, TypeOK, Lined
  <2>2. l \in etc /\ k \in KeysOf(l)
    BY DEF Lined, Listing, LineOf
  <2> HIDE DEF l, i
  <2>3. Parses(l) /\ ValidOptions(Specific(l, i))
    BY <2>1, ReadableParses DEF l
  <2>4. k \in UserExports
    BY <2>2, <2>3 DEF UserExports
  <2>5. ASSUME l.hosts[i].own # None \/ Giving(l, i) = {}
        PROVE  /\ ReadAs(l, i) = Meaning(l, i)
               /\ kernel[k] # None /\ k \notin asked /\ ~edited => kernel[k] = ReadAs(l, i)
    <3>1. ReadAs(l, i) = Meaning(l, i)
      BY <2>1, <2>3, <2>5, ParseOptMeansLine
    <3>2. ValidOptions(ReadAs(l, i))
      BY <2>1, <2>3 DEF Parses
    <3>3. FromLine(k) = ReadAs(l, i)
      BY <3>1, <3>2, SettledKeeps DEF FromLine, l, i
    <3> QED BY <3>1, <3>3 DEF AsLined
  <2> QED BY <2>4, <2>5 DEF l, i
<1> QED BY <1>1, <1>2, InvHolds, AsLinedStep, PTL DEF Spec
=============================================================================
