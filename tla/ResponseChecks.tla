--------------------------- MODULE ResponseChecks ---------------------------
(***************************************************************************)
(* What handleDNS finds wrong with the contents of a response:              *)
(* ValidateResponse (response_validator.go), the CNAME chain validator      *)
(* (cname_chain.go) and IsRebinding (rebinding_c2.go). A name is a sequence *)
(* of labels. Pipeline takes the verdicts as the flaws of a response.       *)
(***************************************************************************)
EXTENDS SequencesExt, Integers

CONSTANTS
    MaxChainDepth,
    KnownOptions,       \* the codes isKnownEDNSOption accepts
    MultiPartTLDs,      \* as pairs of labels
    SuspiciousTLDs,
    RandomLabels        \* labels over 20 characters with an entropy above 3.5

Addresses == {"A", "AAAA"}

IsSubdomainOf(name, parent) == name = parent \/ (parent # <<>> /\ IsSuffix(parent, name))

\* The map cnameTargets when record i of the answer is looked at
TargetsUpToAll(answer, i) ==
    {answer[j].target : j \in {k \in DOMAIN answer : answer[k].type = "CNAME"}}
TargetsUpTo(answer, i) ==
    {answer[j].target : j \in {k \in 1..i : answer[k].type = "CNAME"}}

\* An NXDOMAIN has nothing but SOA records in its answer; other records but
\* CNAME and SOA are the question's or a target's.
Misplaced(m, q, i) ==
    LET rr == m.answer[i] IN
    \/ m.rcode = "nxdomain" /\ rr.type # "SOA"
    \/ /\ rr.type \notin {"CNAME", "SOA"}
       /\ rr.owner \notin {q.name} \union TargetsUpTo(m.answer, i)
       /\ ~IsSubdomainOf(rr.owner, q.name)

\* validateAnswerTypes: types that may answer a question at its own name
Companions(type) ==
    {type, "CNAME"} \union IF type \in Addresses \union {"MX", "SRV"} THEN Addresses ELSE {}

WrongType(rr, q) ==
    q.type # "ANY" /\ rr.owner = q.name /\ rr.type \notin Companions(q.type)

\* ValidateResponse returns an error.
Malformed(m, q) ==
    \/ m.id # q.id
    \/ m.question # <<>> /\ m.question # <<q.name, q.type>>
    \/ m.rcode = "invalid"
    \/ \E i \in DOMAIN m.answer : Misplaced(m, q, i)
    \/ m.rcode = "ok" /\ \E i \in DOMAIN m.answer : WrongType(m.answer[i], q)
    \/ ~(m.options \subseteq KnownOptions)

-----------------------------------------------------------------------------

Aliases(answer) == {answer[i].owner : i \in {j \in DOMAIN answer : answer[j].type = "CNAME"}}

\* cnameMap: of several CNAMEs of a name the last one counts.
Target(answer, name) ==
    answer[Max({i \in DOMAIN answer : answer[i].type = "CNAME" /\ answer[i].owner = name})].target

\* extractCNAMEChain: from name on, until a name is no alias or is met again.
\* One pass per record of the answer is enough.
Extend(answer, name, chain) ==
    LET walked == <<name>> \o chain IN
    IF Last(walked) \in Aliases(answer) /\ Last(walked) \notin ToSet(Front(walked))
    THEN Append(chain, Target(answer, Last(walked)))
    ELSE chain

ChainOf(answer, name) ==
    LET chain[i \in 0..Len(answer)] ==
            IF i = 0 THEN <<>> ELSE Extend(answer, name, chain[i - 1])
    IN chain[Len(answer)]

DetectLoopStart(chain, name) == Last(chain) = name
DetectLoop(chain, name) ==
    LET walked == <<name>> \o chain IN Last(walked) \in ToSet(Front(walked))

IsDangling(m) ==
    \/ m.rcode = "nxdomain"
    \/ m.rcode = "ok" /\ \A i \in DOMAIN m.answer : m.answer[i].type \notin Addresses

LastLabels(name, n) == SubSeq(name, Len(name) - n + 1, Len(name))

ExtractApexDomain(name) ==
    IF Len(name) <= 2 THEN name
    ELSE LastLabels(name, IF LastLabels(name, 2) \in MultiPartTLDs THEN 3 ELSE 2)

IsSuspiciousTarget(name) ==
    Len(name) >= 2 /\ (Last(name) \in SuspiciousTLDs \/ Head(name) \in RandomLabels)

CrossBailiwick(chain, name) ==
    /\ Len(chain) >= 2
    /\ \E target \in ToSet(chain) :
          ExtractApexDomain(target) # ExtractApexDomain(name) /\ IsSuspiciousTarget(target)

\* ValidateChain returns a finding.
BadChain(m, name) ==
    LET chain == ChainOf(m.answer, name) IN
    /\ chain # <<>>
    /\ \/ DetectLoop(chain, name)
       \/ Len(chain) > MaxChainDepth
       \/ IsDangling(m)
       \/ CrossBailiwick(chain, name)

IsRebinding(m) ==
    \E i \in DOMAIN m.answer : m.answer[i].type \in Addresses /\ m.answer[i].private

\* The flaws of Pipeline that the contents of a response decide
FlawsOf(m, q) ==
    {f \in {"malformed", "cname", "rebinding"} :
        \/ f = "malformed" /\ Malformed(m, q)
        \/ f = "cname" /\ BadChain(m, q.name)
        \/ f = "rebinding" /\ IsRebinding(m)}

-----------------------------------------------------------------------------

\* A path of at most MaxChainDepth CNAMEs from name to one that is no alias
Resolves(answer, name) ==
    \E n \in 0..MaxChainDepth :
        \E path \in [0..n -> {name} \union {answer[i].target : i \in DOMAIN answer}] :
            /\ path[0] = name /\ path[n] \notin Aliases(answer)
            /\ \A i \in 0..(n - 1) :
                  path[i] \in Aliases(answer) /\ path[i + 1] = Target(answer, path[i])

\* What both checks together are to ensure of an answer
FitsQuestion(m, q) ==
    LET addresses == {i \in DOMAIN m.answer : m.answer[i].type \in Addresses} IN
    /\ Resolves(m.answer, q.name)
    /\ m.rcode = "ok" /\ q.name \in Aliases(m.answer) => addresses # {}
    /\ \A i \in addresses :
          \/ IsSuffix(q.name, m.answer[i].owner)
          \/ \E j \in 1..(i - 1) :
                m.answer[j].type = "CNAME" /\ m.answer[j].target = m.answer[i].owner
=============================================================================
