----------------------------- MODULE MCAdmission -----------------------------
(* Buckets of two queries a second, a second being two ticks, and one alert   *)
(* of a type per two ticks: five queries empty a bucket, flood the alerts and *)
(* outlive both windows. The monitor's outages share the counts with its      *)
(* recoveries, which the minimum severity lets through, and with a query's    *)
(* alert; the guard has an anchor besides Castiel's own.                     *)
EXTENDS Admission, TLC
CONSTANTS c1, q1, q2, q3, q4, q5, e1, e2, a1, castiel
MCQueries == {q1, q2, q3, q4, q5}
AskSymmetry == Permutations({q2, q3, q4, q5})
Rule(own) == [own |-> own, block |-> TRUE, target |-> "network", ports |-> TRUE]
MCRules == {Rule(TRUE), Rule(FALSE)}
Line(place, own) == [place |-> place, rule |-> Rule(own)]
NoLoad == [asks |-> {}, transfers |-> {}, observed |-> FALSE, monitor |-> FALSE, guard |-> FALSE,
           rules |-> {}, changing |-> {}]
MCLoads == {[NoLoad EXCEPT !.asks = MCQueries, !.observed = TRUE],
            [NoLoad EXCEPT !.asks = {q1}, !.transfers = {q1}, !.monitor = TRUE],
            [NoLoad EXCEPT !.guard = TRUE, !.rules = {Line("main", TRUE)},
                           !.changing = {Line("main", FALSE), Line(a1, FALSE)}]}
MCEndpoints == <<e1, e2>>
=============================================================================
