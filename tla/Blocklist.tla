----------------------------- MODULE Blocklist -----------------------------
(***************************************************************************)
(* Which names the blocklists of internal/blocklists/manager.go match. A   *)
(* name, and a line that a feed or the custom file yields, is a sequence  *)
(* of labels in lower case; how lines come in is Pipeline's matter.       *)
(***************************************************************************)
EXTENDS SequencesExt, Integers

\* HasPrefix(domain, "*.")
Wild(line) == Len(line) > 1 /\ Head(line) = "*"

\* The maps that addBlocked fills
Exact(lines) == {e \in lines : ~Wild(e)}
Wildcard(lines) == {Tail(e) : e \in {x \in lines : Wild(x)}}

\* labels[i:], with labels counted from 0
From(domain, i) == SubSeq(domain, i + 1, Len(domain))

\* `spared` is the map allowed. The loop starts above the domain itself and ends
\* before the last label.
IsBlocked(domain, lines, spared) ==
    /\ domain \notin spared
    /\ \/ domain \in Exact(lines)
       \/ \E i \in 1..(Len(domain) - 2) : From(domain, i) \in Wildcard(lines)

-----------------------------------------------------------------------------

\* What a line stands for: itself or, as the tests have it, all that is below
\* what follows the star. A star before a single label stands for nothing.
Covers(line, domain) ==
    IF Wild(line)
    THEN Len(line) > 2 /\ IsStrictSuffix(Tail(line), domain)
    ELSE line = domain
=============================================================================
