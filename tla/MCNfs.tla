------------------------------- MODULE MCNfs --------------------------------
(***************************************************************************)
(* Nfs for TLC: two exports, and lines of each kind in /etc/exports.       *)
(***************************************************************************)
EXTENDS Nfs, TLC

MCRequests == {{"rw"}, {"ro"}, {"ro", "rw"}, {"bogus"}}

Host(k, own) == [key |-> k, own |-> own]
Line(global, hosts) == [global |-> global, hosts |-> hosts]

\* For each key, a plain line and one with options that exclude each other.  For
\* the two, in either order: a host that overrides both of the line's options, of
\* which one comes first in its pair and one second, and one that gives none; one
\* that gives none and one that does; one with an option targetd does not know,
\* and a plain one.
MCLines ==
    UNION {{Line({}, <<Host(k, {"rw"})>>), Line({"ro", "rw"}, <<Host(k, None)>>)} : k \in Keys}
    \cup UNION {{Line({"ro", "async"}, <<Host(k, {"rw", "sync"}), Host(j, None)>>),
                 Line({"ro"}, <<Host(k, None), Host(j, {"rw"})>>),
                 Line({}, <<Host(k, {"no_acl"}), Host(j, {"rw"})>>)} :
                    <<k, j>> \in {p \in Keys \X Keys : p[1] # p[2]}}

MCByHand == {{"rw"}, {"no_acl"}}

MCSymmetry == Permutations(Keys)
=============================================================================
