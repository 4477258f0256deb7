--------------------------- MODULE MCQueryTracking ---------------------------
(* One client and two names under one apex domain. The queries, each asked   *)
(* once, are interchangeable, and so are the names.                          *)
EXTENDS QueryTracking, TLC
CONSTANTS c1, d1, n1, n2, q1, q2, q3, q4
MCQueries == {q1, q2, q3, q4}
MCApex == [n \in {n1, n2} |-> d1]
MCApexOne == [n \in {n1} |-> d1]
AskSymmetry == Permutations(MCQueries) \cup Permutations({n1, n2})
=============================================================================
