------------------------------ MODULE Pipeline ------------------------------
(***************************************************************************)
(* handleDNS, proxy.go 184-720: one goroutine per query, from admission to *)
(* its single reply, through the shared response cache. What a detector    *)
(* finds in a name or in a response is data here (names, flaws); what the  *)
(* proxy does about it, and in which order, is modelled. Detectors that    *)
(* only alert change nothing a reply depends on and are left out.          *)
(***************************************************************************)
EXTENDS Cache, Sequences

CONSTANTS
    Transfers,      \* questions of type AXFR or IXFR whose blocking is on
    BadNames,       \* names tunneling, DGA, dictionary DGA or lookalike block
    FeedNames,      \* names a blocklist may come to hold
    AllowNames,     \* names the custom allow file may come to hold
    Kin,            \* Kin[k]: the questions under the apex domain of k
    Configs         \* the configurations the proxy may be started with

Queries == Getters

\* A malformed response is rejected before the response is recorded, the
\* others after: a bad CNAME chain, a calculated or an unpinned address, a
\* failed signature, a private address.
Flaws == {"malformed", "cname", "calculated", "unpinned", "bogus", "rebinding"}

\* What Config.Validate accepts: `upstream` tells whether there are plain
\* upstreams, `rejects` for which flaws of a response it is blocked, and
\* `alertOnly` is zone_transfer.alert_only.
ValidConfig(c) ==
    /\ {c.useDoH, c.upstream, c.alertOnly} \subseteq BOOLEAN
    /\ c.rejects \subseteq Flaws
    /\ c.useDoH \/ c.upstream

ASSUME PipelineAssumption ==
    /\ Keys # {}
    /\ Transfers \subseteq Keys /\ BadNames \subseteq Keys
    /\ FeedNames \subseteq Keys /\ AllowNames \subseteq Keys
    /\ Kin \in [Keys -> SUBSET Keys] /\ \A k \in Keys : k \in Kin[k]
    /\ \A r \in Responses : r.flaws \subseteq Flaws
    /\ \A c \in Configs : ValidConfig(c)

VARIABLES
    pc,
    asks,       \* the question of each query
    resp,       \* the handler's resp: one response, or none for nil
    replies,    \* history: what was written to each client, in order
    listed,     \* names the blocklists hold
    allowed,    \* names the allow file holds; they are not blocked
    flooded,    \* names the NXDOMAIN tracker blocks
    condemned,  \* history: has the name been blocked ever since the query arrived?
    crashed,    \* a handler has panicked, and no one recovers it
    config      \* the configuration this proxy was started with

queryVars == <<pc, asks, resp, replies, listed, allowed, flooded, condemned, crashed, config>>
vars == <<now, entries, get, queryVars>>

\* The order of the stages. A hit at "lookup" ends the query instead.
AfterCacheFirst ==
    [zone |-> "lookup", blocklist |-> "names", names |-> "flood", flood |-> "lookup",
     lookup |-> "forward", validate |-> "record", record |-> "vet", vet |-> "store",
     store |-> "send"]
AfterStoreFirst ==
    [zone |-> "blocklist", blocklist |-> "names", names |-> "flood", flood |-> "lookup",
     lookup |-> "forward", validate |-> "record", record |-> "store", store |-> "vet",
     vet |-> "send"]
After ==
    [zone |-> "blocklist", blocklist |-> "names", names |-> "flood", flood |-> "lookup",
     lookup |-> "forward", validate |-> "record", record |-> "vet", vet |-> "store",
     store |-> "send"]

Goto(q, stage) == pc' = [pc EXCEPT ![q] = stage]
At(q, stage) == pc[q] = stage

\* What is written to the client: an rcode of the proxy's own, or a response
Written(q, kind, r) ==
    replies' = [replies EXCEPT ![q] = Append(@, [kind |-> kind, response |-> r])]

\* A check that ends the query with a reply of its own when it finds something
CheckedNoReturn(q, stage, bad, kind) ==
    /\ At(q, stage)
    /\ Goto(q, After[stage])
    /\ IF bad THEN Written(q, kind, {}) ELSE UNCHANGED replies
Checked(q, stage, bad, kind) ==
    /\ At(q, stage)
    /\ Goto(q, IF bad THEN "done" ELSE After[stage])
    /\ IF bad THEN Written(q, kind, {}) ELSE UNCHANGED replies

Local == UNCHANGED <<asks, resp, listed, allowed, flooded, condemned, crashed, config, entries, get>>

\* blocklists.IsBlocked
Listed(k) == k \in listed \ allowed

\* A query arrives; the rate limiter admits, drops or truncates it.
Arrive(q, k) ==
    /\ At(q, "new")
    /\ asks' = [asks EXCEPT ![q] = k]
    /\ condemned' = [condemned EXCEPT ![q] = Listed(k)]
    /\ \/ Goto(q, "zone") /\ UNCHANGED replies
       \/ Goto(q, "done") /\ \E kind \in {"closed", "truncated"} : Written(q, kind, {})
    /\ UNCHANGED <<resp, listed, allowed, flooded, crashed, config, entries, get>>

\* 2. Zone transfer blocking
BlockTransfer(q) ==
    Checked(q, "zone", asks[q] \in Transfers /\ ~config.alertOnly, "refused") /\ Local

\* 3. Blocklist check
CheckBlocklist(q) ==
    Checked(q, "blocklist", Listed(asks[q]), "nxdomain") /\ Local

\* 4 to 5c. Detectors that judge the name alone
CheckName(q) == Checked(q, "names", asks[q] \in BadNames, "nxdomain") /\ Local

\* 6b. Water torture
CheckFlood(q) == Checked(q, "flood", asks[q] \in flooded, "nxdomain") /\ Local

\* 7. Cache check: the steps of Cache!Get, then a reply or the upstream
LookUp(q) ==
    /\ At(q, "lookup")
    /\ \/ get[q].at = "out" /\ Lookup(q, asks[q]) /\ UNCHANGED <<pc, replies>>
       \/ (Examine(q) \/ Delete(q)) /\ UNCHANGED <<pc, replies>>
       \/ /\ get[q].at = "hit"
          /\ Goto(q, "done")
          /\ Written(q, "cached", {e.response : e \in get[q].entry})
          /\ UNCHANGED <<entries, get>>
       \/ /\ get[q].at = "miss"
          /\ Goto(q, After["lookup"])
          /\ UNCHANGED <<replies, entries, get>>
    /\ UNCHANGED <<asks, resp, listed, allowed, flooded, condemned, crashed, config>>

Obtains(q, rs) ==
    /\ Goto(q, "validate")
    /\ resp' = [resp EXCEPT ![q] = rs]
    /\ UNCHANGED replies

\* 8. Forward to upstream: over DoH, when it is in use and enabled
ForwardDoH(q) ==
    /\ At(q, "forward")
    /\ config.useDoH
    /\ \E r \in Responses : Obtains(q, {r})
    /\ UNCHANGED <<asks, listed, allowed, flooded, condemned, crashed, config, entries, get>>

\* Over plain DNS otherwise: all upstreams are raced and the first response
\* wins. Without upstreams there is neither a response nor an error.
Race(q) ==
    IF ~config.upstream
    THEN Obtains(q, {})
    ELSE \/ \E r \in Responses : Obtains(q, {r})
         \/ Goto(q, "done") /\ Written(q, "servfail", {}) /\ UNCHANGED resp

ForwardPlain(q) ==
    /\ At(q, "forward")
    /\ Race(q)
    /\ UNCHANGED <<asks, listed, allowed, flooded, condemned, crashed, config, entries, get>>

ValidateNoNil(q) ==
    /\ Checked(q, "validate",
               "malformed" \in config.rejects /\ \E r \in resp[q] : "malformed" \in r.flaws, "servfail")
    /\ Local
\* 8b. ValidateResponse; it takes nil for malformed.
Validate(q) ==
    /\ Checked(q, "validate",
               "malformed" \in config.rejects /\ \A r \in resp[q] : "malformed" \in r.flaws, "servfail")
    /\ Local

\* 8c to 8e. The response is recorded: the tracker may start to block the
\* name of an NXDOMAIN. This is the first use of resp that nil does not survive.
Floods(q) == UNION {Kin[asks[q]] : r \in {x \in resp[q] : x.rcode = "nxdomain"}}
Record(q) ==
    /\ At(q, "record")
    /\ IF resp[q] = {}
       THEN crashed' = TRUE /\ UNCHANGED <<pc, flooded>>
       ELSE /\ Goto(q, After["record"])
            /\ flooded' \in {flooded, flooded \union Floods(q)}
            /\ UNCHANGED crashed
    /\ UNCHANGED <<asks, resp, replies, listed, allowed, condemned, config, entries, get>>

\* The flaws for which this response is not passed on: a signature is only
\* checked on a response with rcode success.
Faults(r) == (r.flaws \intersect config.rejects) \ (IF r.rcode = "ok" THEN {} ELSE {"bogus"})

\* 8f to 10. The checks of the response, each of which ends the query
Vet(q) ==
    /\ \E r \in resp[q] :
          Checked(q, "vet", Faults(r) \ {"malformed"} # {},
             IF Faults(r) \intersect {"cname", "calculated", "unpinned"} = {} /\ "bogus" \in Faults(r)
             THEN "servfail" ELSE "nxdomain")
    /\ Local

\* 11. Cache the response
Store(q) ==
    /\ At(q, "store")
    /\ \E r \in resp[q] : Put(asks[q], r)
    /\ Goto(q, After["store"])
    /\ UNCHANGED <<asks, resp, replies, listed, allowed, flooded, condemned, crashed, config>>

\* 12. Send response to client
Send(q) ==
    /\ At(q, "send")
    /\ Goto(q, "done")
    /\ Written(q, "fresh", resp[q])
    /\ Local

Handle(q) ==
    /\ ~crashed
    /\ \/ BlockTransfer(q) \/ CheckBlocklist(q) \/ CheckName(q) \/ CheckFlood(q)
       \/ LookUp(q) \/ ForwardDoH(q) \/ ForwardPlain(q) \/ Validate(q)
       \/ Record(q) \/ Vet(q) \/ Store(q) \/ Send(q)
    /\ UNCHANGED now

\* The blocklist manager refreshes: names are only ever added to its maps.
LoadFeed(k) ==
    /\ listed' = listed \union {k}
    /\ UNCHANGED <<pc, asks, resp, replies, allowed, flooded, condemned, crashed, config, now, entries, get>>

LoadAllowFile(k) ==
    /\ allowed' = allowed \union {k}
    /\ condemned' = [q \in Queries |-> condemned[q] /\ asks[q] # k]
    /\ UNCHANGED <<pc, asks, resp, replies, listed, flooded, crashed, config, now, entries, get>>

\* The NXDOMAIN tracker's block on an apex domain ends.
BlockEnds(k) ==
    /\ flooded' = flooded \ Kin[k]
    /\ UNCHANGED <<pc, asks, resp, replies, listed, allowed, condemned, crashed, config, now, entries, get>>

Init ==
    /\ CacheInit
    /\ pc = [q \in Queries |-> "new"]
    /\ asks = [q \in Queries |-> CHOOSE k \in Keys : TRUE]
    /\ resp = [q \in Queries |-> {}]
    /\ replies = [q \in Queries |-> <<>>]
    /\ listed = {}
    /\ allowed = {}
    /\ flooded = {}
    /\ condemned = [q \in Queries |-> FALSE]
    /\ crashed = FALSE
    /\ config \in Configs

Next ==
    \/ \E q \in Queries, k \in Keys : ~crashed /\ Arrive(q, k) /\ UNCHANGED now
    \/ \E q \in Queries : Handle(q)
    \/ \E k \in FeedNames : LoadFeed(k)
    \/ \E k \in AllowNames : LoadAllowFile(k)
    \/ \E k \in Keys : BlockEnds(k)
    \/ ClockTick /\ UNCHANGED <<entries, get, queryVars>>

\* A handler's goroutine is scheduled, and every exchange it makes times out.
Fairness == \A q \in Queries : WF_vars(Handle(q))

Spec == Init /\ [][Next]_vars /\ Fairness

Stages == {"new", "zone", "blocklist", "names", "flood", "lookup", "forward",
           "validate", "record", "vet", "store", "send", "done"}

(* The cache and the handlers' state keep their types.                       *)
TypeOK ==
    /\ CacheTypeOK
    /\ pc \in [Queries -> Stages]
    /\ asks \in [Queries -> Keys]
    /\ \A q \in Queries : resp[q] \subseteq Responses /\ Cardinality(resp[q]) <= 1
    /\ listed \subseteq Keys /\ allowed \subseteq Keys /\ flooded \subseteq Keys
    /\ condemned \in [Queries -> BOOLEAN]
    /\ crashed \in BOOLEAN
    /\ config \in Configs

PassedOn(q) == {i \in DOMAIN replies[q] : replies[q][i].kind \in {"cached", "fresh"}}

(* A client never gets a response the configuration rejects, neither its own *)
(* nor, through the cache, one that another client's query brought in.       *)
OnlyVettedPassedOn ==
    \A q \in Queries : \A i \in PassedOn(q) : \A r \in replies[q][i].response : Faults(r) = {}

(* A query for a name that is blocked from its arrival on is never answered  *)
(* with a response, cached or not, and no upstream hears of it.              *)
ListedNeverAnswered ==
    \A q \in Queries :
        condemned[q] => PassedOn(q) = {} /\ pc[q] \notin {"forward", "validate", "send"}

(* A query gets one reply and no more, when it is done and not before.       *)
OneReply == \A q \in Queries : Len(replies[q]) = IF pc[q] = "done" THEN 1 ELSE 0

(* ValidateResponse allows for a nil response, as its test does; a handler   *)
(* that meets one must not take the proxy down.                              *)
StaysUp == ~crashed

(* Every query that arrives is disposed of.                                  *)
EveryQueryEnds == \A q \in Queries : pc[q] # "new" ~> pc[q] = "done"
=============================================================================
