-------------------------------- MODULE Nfs ---------------------------------
(***************************************************************************)
(* The NFS calls of targetd/fs.py and targetd/nfs.py.  The kernel's table  *)
(* is what is exported now; at boot it is filled from /etc/exports, which  *)
(* is the administrator's, and from targetd.exports, which targetd removes *)
(* and writes anew, step by step, after each change it makes.  targetd may *)
(* be killed between the steps, and the administrator edits /etc/exports   *)
(* and runs exportfs when he likes, for targetd locks neither.             *)
(***************************************************************************)
EXTENDS NfsOptions

CONSTANTS
    Keys,       \* exports: pairs of a host and a path
    Requests,   \* the option lists of nfs_export_add
    Lines,      \* what the administrator may write into /etc/exports
    ByHand      \* the options the administrator exports with by exportfs -o

ASSUME NoneAssumption == None \notin Requests \cup ByHand /\ None \notin Keys

\* A host is in a line once.
ASSUME LinesAssumption ==
    \A l \in Lines :
        /\ l.hosts \in Seq([key : Keys, own : {None} \cup SUBSET STRING])
        /\ \A i, j \in DOMAIN l.hosts : l.hosts[i].key = l.hosts[j].key => i = j

VARIABLES
    kernel,     \* the options each key is exported with, or None
    file,       \* targetd.exports, empty and missing being the same to exportfs
    etc,        \* the lines of /etc/exports; a key is in one of them at most
    etcState,   \* /etc/exports is fine, missing, or has an unbalanced quote
    pc,         \* where the running call is in _save_exports
    user,       \* the running call's user_exports
    removing,   \* the key that the running call removes, or None
    reply,      \* how the last call ended
    edited,     \* ghost: /etc/exports was edited and exportfs has not read it since
    disturbed,  \* ghost: the administrator came in between since the call started
    behind,     \* ghost: targetd.exports need not be what the kernel exports
    asked       \* ghost: keys that are to be exported beside /etc/exports

vars == <<kernel, file, etc, etcState, pc, user, removing, reply,
          edited, disturbed, behind, asked>>

Nothing == [k \in Keys |-> None]

Init ==
    /\ kernel = Nothing /\ file = Nothing /\ etc = {}
    /\ etcState = "fine"
    /\ pc = "idle" /\ user = {} /\ removing = None
    /\ reply = "ok"
    /\ edited = FALSE /\ disturbed = FALSE /\ behind = FALSE
    /\ asked = {}

-----------------------------------------------------------------------------
(* exportfs.                                                               *)

\* Of two options that exclude each other on one side, exportfs takes the later;
\* here it is one of the two.
Settled(options) ==
    options \ {o \in options : \E pair \in Conflicting :
                 pair \subseteq options /\ o = CHOOSE p \in pair : TRUE}

Listing(lines, k) == {l \in lines : k \in KeysOf(l)}
Lined(k) == Listing(etc, k) # {}

LineOf(lines, k) == CHOOSE l \in Listing(lines, k) : TRUE
Place(line, k) == CHOOSE i \in DOMAIN line.hosts : line.hosts[i].key = k

\* exportfs -a, -r: a line of /etc/exports counts before one of targetd.exports.
Boot(lines, saved) ==
    [k \in Keys |-> IF Listing(lines, k) = {} THEN saved[k]
                    ELSE LET l == LineOf(lines, k) IN Settled(Meaning(l, Place(l, k)))]

\* exportfs -v fails, or one of its options is unknown to targetd, which makes
\* parse_opt end in a KeyError.
ListFails(code) ==
    \/ code = "UNEXPECTED_EXIT_CODE"
    \/ /\ code = "METHOD_NOT_FOUND"
       /\ \E k \in Keys : kernel[k] # None /\ ~(kernel[k] \subseteq BoolOption)

Listed == \A k \in Keys : kernel[k] # None => kernel[k] \subseteq BoolOption

-----------------------------------------------------------------------------
(* How a call goes on and ends.                                            *)

\* A call that ends before it has changed anything.
Refuse(code) ==
    /\ reply' = code
    /\ UNCHANGED <<kernel, file, etc, etcState, pc, user, removing,
                   edited, disturbed, behind, asked>>

\* exportfs has changed the kernel's table, _save_exports begins.
Exported(k, options, what) ==
    /\ kernel' = [kernel EXCEPT ![k] = options]
    /\ pc' = "unlink"
    /\ removing' = what
    /\ asked' = IF options = None THEN asked ELSE asked \cup {k}
    /\ disturbed' = FALSE
    /\ behind' = TRUE
    /\ UNCHANGED <<file, etc, etcState, user, reply, edited>>

\* The call ends here, with targetd.exports as file' says.
Ended(code) ==
    /\ pc' = "idle" /\ user' = {} /\ removing' = None
    /\ reply' = code
    /\ disturbed' = FALSE
    /\ UNCHANGED <<kernel, etc, etcState, edited>>

\* An error, or a kill, in the middle of _save_exports.
Abandoned(code) == Ended(code) /\ UNCHANGED <<file, behind, asked>>

-----------------------------------------------------------------------------
(* The calls.                                                              *)

\* nfs_export_add.  export_path is refused, chown is when it is not enabled,
\* malformed or impossible; the owner of the path is not modelled.
NfsExportAdd(k, options) ==
    /\ pc = "idle"
    /\ \/ \E code \in {"NFS_NO_SUPPORT", "NO_SUPPORT", "INVALID_ARGUMENT", "INVALID"} :
            Refuse(code)
       \/ ~(options \subseteq BoolOption) /\ Refuse("METHOD_NOT_FOUND")
       \/ /\ options \subseteq BoolOption
          /\ ~ValidOptions(options)
          /\ Refuse("INVALID_ARGUMENT")
       \/ /\ options \subseteq BoolOption
          /\ ValidOptions(options)
          /\ \/ Refuse("INVALID_ARGUMENT")      \* exit code 22
             \/ Refuse("INVALID")               \* any other: RuntimeError
             \/ Exported(k, options, None)

\* Slip: an export is removed without saving the rest.
NfsExportRemoveUnsaved(k) ==
    /\ pc = "idle"
    /\ Listed
    /\ kernel[k] # None
    /\ kernel' = [kernel EXCEPT ![k] = None]
    /\ asked' = asked \ {k}
    /\ reply' = "ok"
    /\ UNCHANGED <<file, etc, etcState, pc, user, removing, edited, disturbed, behind>>

NfsExportRemove(k) ==
    /\ pc = "idle"
    /\ \/ \E code \in {"UNEXPECTED_EXIT_CODE", "METHOD_NOT_FOUND"} :
            ListFails(code) /\ Refuse(code)
       \/ Listed /\ kernel[k] = None /\ Refuse("NOT_FOUND_NFS_EXPORT")
       \/ Listed /\ kernel[k] # None /\ Refuse("UNEXPECTED_EXIT_CODE")
       \/ Listed /\ kernel[k] # None /\ Exported(k, None, k)

\* Slip: the old file is kept until the new one is written.
SaveUnlinkNot ==
    /\ pc = "unlink"
    /\ pc' = "read"
    /\ UNCHANGED <<kernel, file, etc, etcState, user, removing, reply,
                   edited, disturbed, behind, asked>>

\* os.remove, whose errors are ignored.
SaveUnlink ==
    /\ pc = "unlink"
    /\ file' = Nothing
    /\ pc' = "read"
    /\ UNCHANGED <<kernel, etc, etcState, user, removing, reply,
                   edited, disturbed, behind, asked>>

\* The keys of the lines of /etc/exports that parse_export understands.
UserExports == {k \in Keys : \E l \in etc : k \in KeysOf(l) /\ Parses(l)}

\* parse_exports_file, by shlex; its ValueError is taken by fs.py for one about
\* the options, when the call is nfs_export_add.
SaveRead ==
    /\ pc = "read"
    /\ \/ etcState = "missing" /\ Abandoned("INVALID")
       \/ /\ etcState = "quote"
          /\ Abandoned(IF removing = None THEN "INVALID_ARGUMENT" ELSE "INVALID")
       \/ /\ etcState = "fine"
          /\ user' = UserExports
          /\ pc' = "write"
          /\ UNCHANGED <<kernel, file, etc, etcState, removing, reply,
                         edited, disturbed, behind, asked>>

\* Slip: the exports of the administrator are written too.
WrittenAll == kernel

\* What the kernel exports and the administrator's file does not list.
Written == [k \in Keys |-> IF k \in user THEN None ELSE kernel[k]]

\* What is written of the administrator's exports: of a line that targetd does not
\* understand, or that was edited but not read by exportfs, or edited meanwhile.
Copied ==
    {k \in Keys : Written[k] # None /\ (edited \/ disturbed \/ (Lined(k) /\ k \notin UserExports))}

\* targetd.exports is opened, the kernel's exports are listed and written.
SaveWrite ==
    /\ pc = "write"
    /\ \/ \E code \in {"UNEXPECTED_EXIT_CODE", "METHOD_NOT_FOUND"} :
            ListFails(code) /\ Abandoned(code)
       \/ Abandoned("INVALID")              \* the file cannot be opened
       \/ /\ Listed
          /\ file' = Written
          /\ behind' = disturbed
          /\ asked' = (asked \cup Copied) \ (IF disturbed THEN {} ELSE {removing})
          /\ Ended("ok")

Kill == pc # "idle" /\ Abandoned("killed")

-----------------------------------------------------------------------------
(* The machine and its administrator.                                      *)

Reboot ==
    /\ kernel' = Boot(etc, file)
    /\ pc' = "idle" /\ user' = {} /\ removing' = None
    /\ reply' = "killed"
    /\ edited' = FALSE /\ disturbed' = FALSE /\ behind' = FALSE
    /\ UNCHANGED <<file, etc, etcState, asked>>

\* The administrator deletes lines of /etc/exports, and writes others, ...
AdminEdit(old, new) ==
    /\ old \subseteq etc /\ new \cap etc = {} /\ etcState # "missing"
    /\ \A l \in new : \A m \in (etc \ old) \cup new : l # m => KeysOf(l) \cap KeysOf(m) = {}
    /\ etc' = (etc \ old) \cup new
    /\ edited' = TRUE
    /\ disturbed' = (pc # "idle")
    /\ behind' = TRUE
    /\ UNCHANGED <<kernel, file, etcState, pc, user, removing, reply, asked>>

\* ... and makes them count, sooner or later, by exportfs -r; in the middle of a
\* call, that drops what targetd has removed from its file.
AdminReload ==
    /\ kernel' = Boot(etc, file)
    /\ edited' = FALSE
    /\ disturbed' = (pc # "idle")
    /\ behind' = (pc # "idle")
    /\ UNCHANGED <<file, etc, etcState, pc, user, removing, reply, asked>>

AdminExport(k, options) ==
    /\ kernel[k] # options
    /\ kernel' = [kernel EXCEPT ![k] = options]
    /\ disturbed' = (pc # "idle")
    /\ behind' = TRUE
    /\ asked' = asked \cup {k}
    /\ UNCHANGED <<file, etc, etcState, pc, user, removing, reply, edited>>

\* /etc/exports becomes unreadable to targetd, or readable again.
AdminFile(state) ==
    /\ etcState' = state
    /\ state = "missing" => etc = {}
    /\ UNCHANGED <<kernel, file, etc, pc, user, removing, reply,
                   edited, disturbed, behind, asked>>

Call == \E k \in Keys : NfsExportRemove(k) \/ \E o \in Requests : NfsExportAdd(k, o)

Save == SaveUnlink \/ SaveRead \/ SaveWrite

\* One line is deleted, written, or put in the place of another.
Admin ==
    \/ \E line \in Lines :
        \/ AdminEdit({line}, {}) \/ AdminEdit({}, {line})
        \/ \E l \in etc : AdminEdit({l}, {line})
    \/ AdminReload
    \/ \E k \in Keys, o \in ByHand : AdminExport(k, o)
    \/ \E state \in {"fine", "missing", "quote"} : AdminFile(state)

Next == Call \/ Save \/ Kill \/ Reboot \/ Admin

Spec == Init /\ [][Next]_vars

-----------------------------------------------------------------------------
(* Properties.                                                             *)

\* Every option somebody exports with.
Options ==
    UNION (Requests \cup ByHand
           \cup UNION {{Meaning(l, i) : i \in DOMAIN l.hosts} : l \in Lines})

\* Types; while a call is between removing targetd.exports and writing it there
\* is nothing in it, and only a call that removes an export has one to remove.
TypeOK ==
    /\ kernel \in [Keys -> (SUBSET Options) \cup {None}]
    /\ file \in [Keys -> (SUBSET (Options \cap BoolOption)) \cup {None}]
    /\ etc \subseteq Lines
    /\ etcState \in {"fine", "missing", "quote"}
    /\ pc \in {"idle", "unlink", "read", "write"}
    /\ pc \in {"read", "write"} => file = Nothing
    /\ user \subseteq Keys
    /\ removing \in Keys \cup {None}
    /\ pc = "idle" => removing = None /\ user = {} /\ ~disturbed
    /\ edited \in BOOLEAN /\ disturbed \in BOOLEAN /\ behind \in BOOLEAN
    /\ asked \subseteq Keys

\* Unless a call was cut short, or the administrator edited lines or exported
\* something by hand, since targetd.exports was last written or read, a reboot
\* gives back exactly what is exported now, for every key that is not in a line of
\* the administrator's: no export is lost, none that was removed returns, none
\* changes its options.
BootKeepsExports ==
    pc = "idle" /\ ~behind => \A k \in Keys : ~Lined(k) => Boot(etc, file)[k] = kernel[k]

\* Saves list whatever the kernel exports.  Still nothing is in targetd.exports
\* that nobody asked nfs_export_add or exportfs -o for since it was removed, and
\* nothing else is exported once exportfs has read the lines as they are: not by
\* a crash that leaves an old file, nor by a copy of a line that is deleted later.
\* The lines that Copied names are copied, though, and stay exported.
NothingUnasked ==
    \A k \in Keys : k \notin asked =>
        file[k] = None /\ (~Lined(k) /\ ~edited => kernel[k] = None)

\* A line with no conflict among its own options nor among those of a host: each
\* is what exportfs takes, alone.
Readable(line) ==
    /\ line.global \subseteq BoolOption /\ ValidOptions(line.global)
    /\ \A i \in DOMAIN line.hosts : line.hosts[i].own # None =>
          line.hosts[i].own \subseteq BoolOption /\ ValidOptions(line.hosts[i].own)

\* targetd takes all hosts of such a line, whichever of its options they override,
\* and reads the options of each as exportfs does, of a host that gives none if
\* none before it has given any.
LinesReadAsMeant ==
    \A k \in Keys : Lined(k) =>
        LET l == LineOf(etc, k)
            i == Place(l, k)
        IN  Readable(l) =>
              /\ k \in UserExports
              /\ l.hosts[i].own # None \/ Giving(l, i) = {} =>
                    /\ ReadAs(l, i) = Meaning(l, i)
                    /\ kernel[k] # None /\ k \notin asked /\ ~edited
                         => kernel[k] = ReadAs(l, i)
=============================================================================
