--------------------------- MODULE MCSharedState ---------------------------
(* Sizes of the keys and values a run of SharedState chooses from: kLong   *)
(* is too long for a key, huge too large for a value.  k1 and k2 are       *)
(* interchangeable.                                                        *)
EXTENDS SharedState, TLC

CONSTANTS k1, k2, k3, kLong, small, large, huge

MCKeyBytes == [k \in Keys |-> CASE k = kLong -> 3
                                [] k = k3 -> 2
                                [] OTHER -> 1]

MCValueBytes == [v \in Values |-> CASE v = small -> 1
                                    [] v = large -> 3
                                    [] OTHER -> 5]

Symmetry == Permutations({k1, k2})
=============================================================================
