----------------------------- MODULE NfsOptions -----------------------------
(***************************************************************************)
(* The option arithmetic of class Export in targetd/nfs.py, and how it     *)
(* reads a line of /etc/exports.  A bit mask is the set of the names of    *)
(* its bits.  A line has options of its own and then its hosts, in order:  *)
(* [global |-> options, hosts |-> <<[key |-> k, own |-> options], ...>>],  *)
(* where own is None for a host without parentheses.  Options with a value *)
(* (sec=...) meet no others and are left out.                              *)
(***************************************************************************)
EXTENDS Naturals, Sequences

CONSTANT None       \* also what is not exported, in Nfs

BoolOption ==
    {"secure", "insecure", "rw", "ro", "sync", "async", "wdelay", "no_wdelay",
     "hide", "nohide", "crossmnt", "no_subtree_check", "insecure_locks",
     "root_squash", "no_root_squash", "all_squash", "no_all_squash"}

Conflicting ==
    {{"rw", "ro"}, {"insecure", "secure"}, {"sync", "async"}, {"hide", "nohide"},
     {"wdelay", "no_wdelay"}, {"root_squash", "no_root_squash"}}

\* _validate_options does not raise.
ValidOptions(options) == \A pair \in Conflicting : ~(pair \subseteq options)

\* Slip: the second option of a pair does not override the first.
OverrideOneWay(combined, test, a, b) ==
    {o \in combined : ~(o = b /\ a \in test)}

\* What is left of `combined` when `test` holds a or b, which exclude each other.
Override(combined, test, a, b) ==
    {o \in combined : ~(o = b /\ a \in test) /\ ~(o = a /\ b \in test)}

\* parse_opt: of the line's options those stay that the host's do not override.
ParseOpt(global, specific) ==
    LET c1 == Override(global \cup specific, specific, "ro", "rw")
        c2 == Override(c1, specific, "insecure", "secure")
        c3 == Override(c2, specific, "sync", "async")
        c4 == Override(c3, specific, "hide", "nohide")
        c5 == Override(c4, specific, "wdelay", "no_wdelay")
    IN  Override(c5, specific, "root_squash", "no_root_squash")

\* The hosts up to the i-th that give options.
Giving(line, i) == {j \in 1 .. i : line.hosts[j].own # None}

\* What parse_export takes for the options of the i-th host: those that the last
\* host gave, for it does not forget them at a host that gives none.
Specific(line, i) ==
    UNION {line.hosts[j].own : j \in {j \in Giving(line, i) : \A m \in Giving(line, i) : m <= j}}

ReadAs(line, i) == ParseOpt(line.global, Specific(line, i))

\* parse_export gives the exports of the line; one bad host, and it gives None.
Parses(line) ==
    \A i \in DOMAIN line.hosts :
        /\ line.global \cup Specific(line, i) \subseteq BoolOption
        /\ ValidOptions(line.global) /\ ValidOptions(Specific(line, i))
        /\ ValidOptions(ReadAs(line, i))

KeysOf(line) == {line.hosts[i].key : i \in DOMAIN line.hosts}

-----------------------------------------------------------------------------
\* What the line means for its i-th host: the options that the host gives, and
\* those of the line's that none of them excludes.
Meaning(line, i) ==
    LET own == IF line.hosts[i].own = None THEN {} ELSE line.hosts[i].own
    IN  own \cup {o \in line.global : \A pair \in Conflicting :
                                        o \in pair => pair \cap own \subseteq {o}}
=============================================================================
