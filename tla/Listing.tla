------------------------------ MODULE Listing ------------------------------
(***************************************************************************)
(* What sort.Slice and the JSON encoder's maps make of a set whose members *)
(* have different keys.                                                    *)
(***************************************************************************)
EXTENDS Naturals, FiniteSets

\* The members of S as a sequence, in the order of their keys: the k-th has k - 1
\* before it.
InOrder(S, key) ==
    [k \in 1 .. Cardinality(S) |->
        CHOOSE e \in S : Cardinality({x \in S : key[x] < key[e]}) = k - 1]
=============================================================================
