------------------------------- MODULE MCCache -------------------------------
(* Answers with a short, a longer, a zero, an unusable and no TTL, answers of *)
(* two records, and a negative answer; two goroutines read while any put.     *)
EXTENDS Cache, TLC
CONSTANTS k1, k2, k3, g1, g2
MCKeys == {k1, k2, k3}
MCGetters == {g1, g2}
MCResponses ==
    [rcode : {"ok"}, ttls : {{1, 2}, {0, 1}, {3}}]
        \union [rcode : {"nxdomain"}, ttls : {{}}]
CacheSymmetry == Permutations(MCKeys) \union Permutations(MCGetters)
=============================================================================
