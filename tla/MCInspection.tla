---------------------------- MODULE MCInspection -----------------------------
(* One configuration per detector, each with the traffic that tries it: clean *)
(* and suspicious queries of two clients; three names under one apex;        *)
(* addresses that come and go; verdicts of both kinds; and a zone in the     *)
(* middle of a key rollover, below a root with two keys of one tag.          *)
EXTENDS Inspection
CONSTANTS c1, c2_, n1, n2, n3, root, zone, gap, leaf, i1, i2, i3
MCQueries == 1..4
MCNames == {n1, n2, n3}
MCApexOf == [n \in MCNames |-> n1]

Ask(c, n, os) == [client |-> c, name |-> n, opts |-> os]
Plain == [ips |-> {}, ttl |-> 0, ns |-> {}, ok |-> TRUE, ad |-> FALSE, rrsets |-> {}, rrsigs |-> {}]
Config(on, load, until, asks, answers) ==
    [on |-> on, strip |-> TRUE, fullChain |-> "DNSSECDowngrade" \notin on,
     load |-> load, until |-> until, asks |-> [q \in MCQueries |-> asks], answers |-> answers]

\* `leaf` lies two labels below the root, and the name between is not a zone.
\* Lookups may give two keys that are not there: Twin, with the tag of the anchor
\* Ksk, and Rogue, for the name that is not a zone.
Key(z, t, p) == [zone |-> z, tag |-> t, alg |-> 13, sep |-> FALSE, public |-> p]
Ksk == [Key(root, 1, "ksk") EXCEPT !.sep = TRUE]
Twin == Key(root, 1, "twin")
Zsk == Key(root, 2, "zsk")
Old == Key(zone, 3, "old")
New == Key(zone, 4, "new")
Rogue == Key(gap, 5, "rogue")
Deep == Key(leaf, 6, "deep")
MCOwners == {root, zone, gap, leaf}
MCAbove == [n \in MCOwners \ {root} |-> IF n = leaf THEN gap ELSE root]
MCKeysOf == [n \in MCOwners |-> CASE n = root -> {Ksk, Zsk} [] n = zone -> {Old, New}
                                   [] n = leaf -> {Deep} [] n = gap -> {}]
MCDelegatedTo == [n \in MCOwners |-> CASE n = zone -> {Old, New} [] n = leaf -> {Deep} [] n \in {root, gap} -> {}]
MCKeyAnswers == [n \in MCOwners |-> {{}, MCKeysOf[n]} \union (CASE n = root -> {{Twin}} [] n = gap -> {{Rogue}} [] OTHER -> {})]
MCDSAnswers == [n \in MCOwners |-> {{}, MCDelegatedTo[n]}]
MCAnchorFile == {Ksk, Zsk}
\* A signature covers the records of a type that a name has.
Sig(n, k, current) == [covers |-> "A", owner |-> n, key |-> k, current |-> current]
Alias(n, k) == [Sig(n, k, TRUE) EXCEPT !.covers = "CNAME"]
Set(g) == [type |-> g.covers, owner |-> g.owner]
Signed(sigs) == [Plain EXCEPT !.rrsigs = sigs, !.rrsets = {Set(g) : g \in sigs}]

EDNSConfig == Config({"EDNSInspection"}, 3, 2,
    {Ask(c1, n1, {"short", "subnet"}), Ask(c1, n1, {"cookie", "unknown"}), Ask(c2_, n1, {"cookie"})}, {Plain})
\* Names are interchangeable: the first to be asked for is n1, the next n2.
LowSlowConfig == [Config({"LowSlowExfil"}, 4, 2, {}, {Plain}) EXCEPT !.asks =
    [q \in MCQueries |-> {Ask(c1, n, {}) : n \in {n1} \union (IF q > 1 THEN {n2} ELSE {})
                                                   \union (IF q > 2 THEN {n3} ELSE {})}]]
C2Config == Config({"Upstream", "C2Detection"}, 3, 1, {Ask(c1, n1, {})},
    {[Plain EXCEPT !.ips = {i1, i2}, !.ttl = 1], [Plain EXCEPT !.ips = {i2, i3}, !.ttl = 2, !.ns = {i1, i2}]})
DowngradeConfig == Config({"Upstream", "DNSSEC", "DNSSECDowngrade"}, 3, 3, {Ask(c1, n1, {})},
    {Plain, [Plain EXCEPT !.ad = TRUE]})
ChainConfig == Config({"Upstream", "DNSSEC"}, 2, 1, {Ask(c1, n1, {})},
    {Signed({Sig(n1, Old, FALSE), Sig(n1, New, TRUE)})})
\* Two aliases, signed as they should be; a name whose zone lies two labels deep
LabelConfig == [ChainConfig EXCEPT !.load = 1, !.answers =
    {Signed({Alias(n1, Ksk), Sig(n2, Rogue, TRUE)}), Signed({Alias(n1, New), Alias(n2, New)}), Signed({Sig(n1, Deep, TRUE)})}]
MCConfigs == {EDNSConfig, LowSlowConfig, C2Config, DowngradeConfig, ChainConfig, LabelConfig}
=============================================================================
