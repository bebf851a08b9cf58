------------------------------ MODULE Selections ------------------------------
(***************************************************************************)
(* Lists that are filtered, and sets that are put in order: what Go's      *)
(* loops and sort.SliceStable, and TypeScript's filter and sort, do.  Both *)
(* are defined by counting, so that they can be reasoned about like any    *)
(* other function.                                                         *)
(***************************************************************************)
EXTENDS Integers, SequencesExt

\* The members of S in the order R, a set of pairs: at place k stands the one that
\* k - 1 others come before.
InOrder(S, R) ==
    [k \in 1 .. Cardinality(S) |->
        CHOOSE x \in S : Cardinality({y \in S : <<y, x>> \in R}) = k - 1]

Sorted(S, Before(_, _)) == InOrder(S, {p \in S \X S : Before(p[1], p[2])})

\* The elements of s that are in K, as they come.
Only(s, K) ==
    LET places == Sorted({i \in DOMAIN s : s[i] \in K}, LAMBDA i, j : i < j)
    IN  [k \in DOMAIN places |-> s[places[k]]]

Select(s, Test(_)) == Only(s, {x \in ToSet(s) : Test(x)})
===============================================================================
