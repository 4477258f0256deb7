--------------------------- MODULE DNSSECValidator ---------------------------
(***************************************************************************)
(* internal/dnssec/validator.go: Validate and the walk from a signature to  *)
(* the trust anchor, with its lookups and the shared caches of keys and DS    *)
(* records. A lookup is a plain UDP exchange: it may fail, be cut short, or   *)
(* give records that nobody published. The RRSIGs over keys and DS records    *)
(* are not looked at by the code, nor here.                                  *)
(***************************************************************************)
EXTENDS Handler

CONSTANTS
    Root,           \* the root of the name tree
    Above,          \* Above[n]: n without its first label, for all but the root
    KeysOf,         \* KeysOf[n]: the DNSKEY records of n; none, when n is not a zone
    DelegatedTo,    \* DelegatedTo[n]: the keys of n that DS records stand for
    KeyAnswers,     \* KeyAnswers[n]: what a lookup for DNSKEY may give; {} is its failure
    DSAnswers,      \* DSAnswers[n]: the same for DS
    AnchorFile,     \* the keys in the trust anchor file
    RecordTTL       \* TTL of keys and DS records

Owners == DOMAIN KeysOf
Records == UNION {UNION (KeyAnswers[n] \union DSAnswers[n]) : n \in Owners}

\* loadTrustAnchors only accepts keys with the flag of a secure entry point;
\* with none of them the validator falls back to the AD bit.
Anchors == {k \in AnchorFile : k.sep}
FullChain == config.fullChain /\ Anchors # {}

\* An answer holds records of the name that was asked for, and a DS record stands
\* for a key of its own name. Key tags need not tell keys apart.
ASSUME ValidatorAssumption ==
    /\ IsFiniteSet(Owners)
    /\ Root \in Owners /\ Above \in [Owners \ {Root} -> Owners]
    /\ \E depth \in [Owners -> 0..Cardinality(Owners)] :
          \A n \in Owners \ {Root} : depth[Above[n]] < depth[n]
    /\ \A n \in Owners :
          /\ {KeysOf[n], {}} \subseteq KeyAnswers[n] /\ {DelegatedTo[n], {}} \subseteq DSAnswers[n]
          /\ \A k \in UNION (KeyAnswers[n] \union DSAnswers[n]) : k.zone = n
    /\ \A c \in Configs : \A r \in c.answers : \A g \in r.rrsigs :
          g.key.zone \in Owners /\ g.current \in BOOLEAN
    /\ RecordTTL \in Nat \ {0}

VARIABLES
    keyCache,   \* cache.dnskeys: when each key expires; 0 when it is not there
    dsCache,    \* cache.ds: the same for the DS record that stands for a key
    walk,       \* validateChain and verifyDSChain, per handler
    verdict     \* what Validate returned: "none" yet, "valid" or "bogus"

validatorVars == <<keyCache, dsCache, walk, verdict>>

\* A step of verifyDSChain: the key it is about, the name whose DS records are
\* next, and the keys of the name above it that remain to be verified.
Frame(k) == [key |-> k, up |-> k.zone, todo |-> {}]

\* `sets`: the groups of signatures not yet validated; `sigs` of the first of
\* them, still to be tried; `got` and `fill`: the records of the last lookup, and
\* those of them still to be cached; `misled`: history, whether a lookup has given
\* anything but the truth, be it less or more.
Idle == [at |-> "idle", sets |-> {}, sigs |-> {}, sig |-> {}, frames |-> <<>>,
         got |-> {}, fill |-> {}, misled |-> FALSE]

Top(w) == Head(w.frames)
WithTop(w, f) == [w EXCEPT !.frames = <<f>> \o Tail(@)]

(* Validate *)

Decide(q, v) ==
    /\ verdict' = [verdict EXCEPT ![q] = v]
    /\ walk' = [walk EXCEPT ![q] = [Idle EXCEPT !.misled = walk[q].misled]]
    /\ Proceed(q)
    /\ UNCHANGED <<query, answer, config, keyCache, dsCache>>

\* groupRRSIGs and extractRRset: both go by the type alone, whoever owns the
\* records. Signatures that cover a type without records are passed over.
RRset(r, type) == {x \in r.rrsets : x.type = type}
Groups(r) == {{g \in r.rrsigs : g.covers = t} : t \in {x.type : x \in r.rrsets} \intersect {g.covers : g \in r.rrsigs}}

\* Verify, but for the key: the records are one RRset, and the one that was signed.
Verifies(g, r) == RRset(r, g.covers) = {[type |-> g.covers, owner |-> g.owner]}

\* handleDNS validates only a response with rcode success, which then needs no
\* walk when upstream has set AD or when there is no signature in it.
NeedsWalk(r) == r.ok /\ ~r.ad /\ r.rrsigs # {} /\ FullChain
Passes(r) == ~r.ok \/ r.ad \/ FullChain

Validate(q) ==
    /\ At(q, "dnssec") /\ walk[q].at = "idle"
    /\ IF NeedsWalk(answer[q])
       THEN /\ walk' = [walk EXCEPT ![q].at = "set", ![q].sets = Groups(answer[q])]
            /\ UNCHANGED <<keyCache, dsCache, verdict, handlerVars>>
       ELSE Decide(q, IF Passes(answer[q]) THEN "valid" ELSE "bogus")

(* validateChain: the steps of one handler that touch only its own walk *)

Walking(q, at) == At(q, "dnssec") /\ walk[q].at = at /\ walk[q].fill = {}
Becomes(q, w) ==
    /\ walk' = [walk EXCEPT ![q] = w]
    /\ UNCHANGED <<keyCache, dsCache, verdict, handlerVars>>

NextSet(q) ==
    /\ Walking(q, "set")
    /\ IF walk[q].sets = {} THEN Decide(q, "valid")
       ELSE \E s \in walk[q].sets :
               Becomes(q, [walk[q] EXCEPT !.at = "sig", !.sets = @ \ {s}, !.sigs = s])

NextSig(q) ==
    /\ Walking(q, "sig")
    /\ IF walk[q].sigs = {} THEN Decide(q, "bogus")
       ELSE \E g \in walk[q].sigs :
               Becomes(q, [walk[q] EXCEPT !.at = "keys", !.sigs = @ \ {g}, !.sig = {g}])

\* verifyDSChain has returned: true goes all the way down, false one frame.
TrustedAtOnce(w) == [w EXCEPT !.at = "set", !.frames = <<>>, !.sets = {}, !.sigs = {}, !.sig = {}, !.got = {}]
Trusted(w) == [w EXCEPT !.at = "set", !.frames = <<>>, !.sigs = {}, !.sig = {}, !.got = {}]
Distrusted(w) ==
    [w EXCEPT !.frames = Tail(@), !.at = IF Len(w.frames) = 1 THEN "sig" ELSE "parents"]

\* verifyDSChain is called: of a key in the zone of an anchor, the tag is enough.
AnchorTag(k) == \E a \in Anchors : a.zone = k.zone /\ a.tag = k.tag
Call(w, k) ==
    IF AnchorTag(k) THEN Trusted(w)
    ELSE [w EXCEPT !.at = "ds", !.frames = <<Frame(k)>> \o @, !.got = {}]

\* Verify and ValidityPeriod, for the keys of the signer
TryKeys(q) ==
    /\ Walking(q, "try")
    /\ \E g \in walk[q].sig :
          Becomes(q, IF Verifies(g, answer[q]) /\ g.current /\ g.key \in walk[q].got
                     THEN Call(walk[q], g.key)
                     ELSE [walk[q] EXCEPT !.at = "sig", !.got = {}])

\* Nothing came of these DS records: on to those of the name with a label less
NextName(w) ==
    LET f == Top(w) IN [WithTop(w, [f EXCEPT !.up = Above[f.up], !.todo = {}]) EXCEPT !.at = "ds", !.got = {}]

\* No label is left: the last word is the anchor, all of it but its zone.
AnchorKey(k) == \E a \in Anchors : a.tag = k.tag /\ a.sep = k.sep /\ a.alg = k.alg /\ a.public = k.public
AtRoot(q) ==
    /\ Walking(q, "ds") /\ Top(walk[q]).up = Root
    /\ Becomes(q, IF AnchorKey(Top(walk[q]).key) THEN Trusted(walk[q]) ELSE Distrusted(walk[q]))

MatchDS(q) ==
    /\ Walking(q, "match")
    /\ Becomes(q, IF Top(walk[q]).key \in walk[q].got
                  THEN [walk[q] EXCEPT !.at = "parentKeys", !.got = {}]
                  ELSE NextName(walk[q]))

NextParentOnlyFirst(w) ==
    IF w.got = {} THEN {NextName(w)}
    ELSE {Call(WithTop([w EXCEPT !.got = {}], [Top(w) EXCEPT !.todo = {}]), k) : k \in w.got}
\* The keys of the name above are verified in turn, until one is trusted.
NextParent(w) ==
    LET f == Top(w) left == f.todo \union w.got IN
    IF left = {} THEN {NextName(w)}
    ELSE {Call(WithTop([w EXCEPT !.got = {}], [f EXCEPT !.todo = left \ {k}]), k) : k \in left}

TryParent(q) ==
    /\ Walking(q, "parents")
    /\ \E w \in NextParent(walk[q]) : Becomes(q, w)

(* The lookups *)

Cached(cache, z) == {k \in Records : k.zone = z /\ now < cache[k]}

\* From the cache, when it holds anything for the name; else from upstream, in
\* one of `answers`, whose records are then cached, all or in part.
Lookup(q, at, next, cache, n, truth, answers, inPart) ==
    /\ Walking(q, at)
    /\ LET hit == Cached(cache, n)
           Gives(got, fill) ==
               Becomes(q, [walk[q] EXCEPT !.at = next, !.got = got, !.fill = fill,
                                          !.misled = @ \/ got # truth])
       IN  IF hit # {} THEN Gives(hit, {})
           ELSE \E got \in answers : \E fill \in IF inPart THEN SUBSET got ELSE {got} : Gives(got, fill)

FetchKeys(q, at, next, n) == Lookup(q, at, next, keyCache, n, KeysOf[n], KeyAnswers[n], FALSE)

FetchSignerKeys(q) == \E g \in walk[q].sig : FetchKeys(q, "keys", "try", g.key.zone)

FetchParentKeys(q) ==
    Walking(q, "parentKeys") /\ FetchKeys(q, "parentKeys", "parents", Above[Top(walk[q]).up])

\* DS records of the authority section are cached, those of the answer not.
FetchDS(q) ==
    /\ Walking(q, "ds") /\ Top(walk[q]).up # Root
    /\ LET n == Top(walk[q]).up IN
          Lookup(q, "ds", "match", dsCache, n, DelegatedTo[n], DSAnswers[n], TRUE)

\* A record takes its place in the cache from whatever record has it: keys of
\* one zone, algorithm and tag, DS records of one zone and algorithm.
KeyPlace(k) == {d \in Records : d.zone = k.zone /\ d.alg = k.alg /\ d.tag = k.tag}
DSPlace(k) == {d \in Records : d.zone = k.zone /\ d.alg = k.alg}
Put(cache, k, place) ==
    [d \in Records |-> IF d = k THEN now + RecordTTL ELSE IF d \in place THEN 0 ELSE cache[d]]

\* Records enter the cache one by one, each in a critical section of its own.
Fill(q) ==
    /\ At(q, "dnssec")
    /\ \E k \in walk[q].fill :
          /\ walk' = [walk EXCEPT ![q].fill = @ \ {k}]
          /\ IF walk[q].at = "match"
             THEN dsCache' = Put(dsCache, k, DSPlace(k)) /\ UNCHANGED keyCache
             ELSE keyCache' = Put(keyCache, k, KeyPlace(k)) /\ UNCHANGED dsCache
    /\ UNCHANGED <<verdict, handlerVars>>

ValidatorStep(q) ==
    \/ Validate(q) \/ NextSet(q) \/ NextSig(q) \/ FetchSignerKeys(q) \/ TryKeys(q)
    \/ AtRoot(q) \/ FetchDS(q) \/ MatchDS(q) \/ FetchParentKeys(q) \/ TryParent(q) \/ Fill(q)

ValidatorInit ==
    /\ keyCache = [k \in Records |-> 0]
    /\ dsCache = [k \in Records |-> 0]
    /\ walk = [q \in Queries |-> Idle]
    /\ verdict = [q \in Queries |-> "none"]

ValidatorTypeOK ==
    /\ {keyCache, dsCache} \subseteq [Records -> 0..(now + RecordTTL)]
    /\ \A q \in Queries :
          /\ walk[q].got \union walk[q].fill \subseteq Records
          /\ Len(walk[q].frames) <= Cardinality(Owners)
    /\ verdict \in [Queries -> {"none", "valid", "bogus"}]

(* What the walk is to find out: keys that lead to an anchor, each by a DS     *)
(* record of its own and a key of the name above, when names have these keys   *)
(* and these DS records. Where the code takes a key for an anchor, so do we.   *)
Linked(chain, keys, ds) ==
    \A x \in chain :
        /\ x \in keys[x.zone]
        /\ \/ AnchorTag(x) \/ AnchorKey(x)
           \/ x.zone # Root /\ x \in ds[x.zone] /\ \E y \in chain : y.zone = Above[x.zone]
Anchored(k, keys, ds) == \E chain \in SUBSET Records : k \in chain /\ Linked(chain, keys, ds)

WellSigned(r, keys, ds) ==
    \A s \in Groups(r) : \E g \in s : Verifies(g, r) /\ g.current /\ Anchored(g.key, keys, ds)

HeardKeys == [n \in Owners |-> UNION KeyAnswers[n]]
HeardDS == [n \in Owners |-> UNION DSAnswers[n]]

(* No signed response passes unless each signed type in it is one RRset with a *)
(* current signature by a key from which DS records and keys of the names above *)
(* lead up to an anchor, whatever the caches held by then. The walk believes   *)
(* each answer to its lookups, and a zone and tag for the anchor they match:   *)
(* the chain is one of what lookups may give, and ends where the code ends it. *)
ValidIsAnchored ==
    \A q \in Queries :
        verdict[q] = "valid" /\ NeedsWalk(answer[q]) => WellSigned(answer[q], HeardKeys, HeardDS)

(* "Only reject responses with *invalid* signatures": one that leads up to an  *)
(* anchor by the records there are, in the way the walk can go, is rejected    *)
(* only if a lookup or a cache gave others. Of the signatures that are valid    *)
(* this leaves out those by a key without a DS record, under a name that is no *)
(* zone, or over a type that several names have: the code rejects these.       *)
RejectionExplained ==
    \A q \in Queries :
        verdict[q] = "bogus" /\ NeedsWalk(answer[q])
            /\ WellSigned(answer[q], KeysOf, DelegatedTo) => walk[q].misled
=============================================================================
