----------------------------- MODULE MCPipeline -----------------------------
(* Two queries for a plain name, a name a detector dislikes and a transfer;   *)
(* responses with every verdict that some message in MCMessages gets, and two *)
(* that look rejected and are not: an unsigned NXDOMAIN, an unpinned address. *)
EXTENDS Answers, Blocklist
CONSTANTS plain, ugly, transfer, q1, q2
MCKeys == {plain, ugly, transfer}
MCQueries == {q1, q2}
MCTransfers == {transfer}
MCBadNames == {ugly}
MCFeedNames == {plain}
MCKin == [k \in MCKeys |-> IF k = ugly THEN {ugly} ELSE {plain, transfer}]

\* Names: the question's, three a chain may lead through, one that is suspicious
Asked == <<"www", "co", "uk">>
Hop1 == <<"cdn", "net">>
Hop2 == <<"edge", "net">>
Hop3 == <<"pop", "net">>
Odd == <<"gift", "top">>
RR(type, owner, target, private) ==
    [type |-> type, owner |-> owner, target |-> target, private |-> private]
Address(owner) == RR("A", owner, <<>>, FALSE)
CName(owner, target) == RR("CNAME", owner, target, FALSE)
MCRecords ==
    {Address(Asked), Address(Hop1), Address(Hop3), RR("A", Asked, <<>>, TRUE),
     RR("MX", Asked, <<>>, FALSE), RR("SOA", Hop1, <<>>, FALSE),
     CName(Asked, Hop1), CName(Hop1, Hop2), CName(Hop2, Hop3), CName(Hop1, Odd),
     CName(Hop1, Hop1), CName(Hop2, Asked)}
MCMultiPart == {<<"co", "uk">>}
MCQuestion == [id |-> 1, name |-> Asked, type |-> "A"]
\* Every answer of up to four of these records with rcode success, of up to
\* two with NXDOMAIN, in any order
Answering(rcode, n) ==
    {[id |-> 1, question |-> <<Asked, "A">>, rcode |-> rcode, answer |-> answer, options |-> {}] :
        answer \in BoundedSeq(MCRecords, n)}
Plain == [id |-> 1, question |-> <<>>, rcode |-> "ok", answer |-> <<>>, options |-> {}]
MCMessages ==
    Answering("ok", 4) \union Answering("nxdomain", 2)
        \union {Plain, [Plain EXCEPT !.id = 2], [Plain EXCEPT !.question = <<Hop1, "A">>],
                [Plain EXCEPT !.rcode = "invalid"], [Plain EXCEPT !.options = {"nsid"}],
                [Plain EXCEPT !.options = {"keytag"}]}
Verdicts == {Verdict(m) : m \in MCMessages}
R(rcode, ttl, flaws) == [rcode |-> rcode, ttls |-> {ttl}, flaws |-> flaws]
MCResponses ==
    {R(v[1], 1, v[2]) :
        v \in {w \in Verdicts :
                  w[1] # "invalid" /\ Cardinality(w[2]) <= 1 /\ w[2] # {"rebinding"}}}
        \union {R("ok", 1, {"bogus", "rebinding"}), R("nxdomain", 1, {"bogus"}), R("ok", 3, {"unpinned"})}
Config(useDoH, upstream, alertOnly, rejects) ==
    [useDoH |-> useDoH, upstream |-> upstream, alertOnly |-> alertOnly, rejects |-> rejects]
MCRejects == {"malformed", "cname", "calculated", "bogus", "rebinding"}
\* Both ways to forward; DoH alone, with malformed responses blocked; plain
\* DNS alone, with only signatures enforced and transfers only reported.
MCConfigs ==
    {Config(TRUE, TRUE, FALSE, MCRejects), Config(TRUE, FALSE, FALSE, MCRejects),
     Config(FALSE, TRUE, TRUE, {"bogus"})}
MCConfigNil == {Config(TRUE, FALSE, FALSE, MCRejects \ {"malformed"})}

\* IsBlocked on every name of up to four labels out of two, with any one line
Lines(n) == BoundedSeq({"a", "b", "*"}, n)
ASSUME StarsMatchBelow ==
    \A domain \in BoundedSeq({"a", "b"}, 4), entry \in Lines(4) :
        IsBlocked(domain, {entry}, {}) <=> Covers(entry, domain)
=============================================================================
