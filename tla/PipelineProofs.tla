--------------------------- MODULE PipelineProofs ---------------------------
(***************************************************************************)
(* For any queries, names, messages and configurations: what handleDNS       *)
(* passes on, to whom, how often it replies, and that its handlers advance; *)
(* and what the checks of a response's contents decide.                     *)
(***************************************************************************)
EXTENDS Answers, CacheProofs, Blocklist

Vetted(r) == Faults(r) = {}

\* What can be in a reply.
Refusals == {"refused", "nxdomain", "servfail", "closed", "truncated"}
Kinds == Refusals \union {"cached", "fresh"}
Reply == [kind : Kinds, response : SUBSET Responses]

HandlerTypes ==
    /\ pc \in [Queries -> Stages]
    /\ asks \in [Queries -> Keys]
    /\ resp \in [Queries -> SUBSET Responses]
    /\ replies \in [Queries -> Seq(Reply)]
    /\ condemned \in [Queries -> BOOLEAN]

\* A query's response is clean of what the stages so far have looked for; its
\* replies are clean; and a condemned query does not get past the blocklist.
QueryInv(q) ==
    /\ \A r, s \in resp[q] : r = s
    /\ pc[q] \in {"record", "vet"} => \A r \in resp[q] : "malformed" \notin Faults(r)
    /\ pc[q] \in {"store", "send"} => \A r \in resp[q] : Vetted(r)
    /\ \A i \in PassedOn(q) : \A r \in replies[q][i].response : Vetted(r)
    /\ Len(replies[q]) = IF pc[q] = "done" THEN 1 ELSE 0
    /\ condemned[q] =>
          /\ Listed(asks[q])
          /\ pc[q] \in {"new", "zone", "blocklist", "done"}
          /\ PassedOn(q) = {}

\* The cache and its readers hold clean responses only.
CacheVetted ==
    /\ \A k \in Holding : Vetted(entries[k].response)
    /\ \A q \in Queries : \A e \in get[q].entry : Vetted(e.response)

PipelineInv ==
    /\ CacheInv /\ CacheVetted /\ HandlerTypes
    /\ \A q \in Queries : QueryInv(q)

-----------------------------------------------------------------------------

\* The judgement of a response depends on the configuration alone.
LEMMA VettedSame ==
    ASSUME UNCHANGED config, NEW r
    PROVE  Faults(r)' = Faults(r) /\ (Vetted(r)' <=> Vetted(r))
BY DEF Faults, Vetted

\* The first thing written to a client is its only reply.
LEMMA FirstReply ==
    ASSUME HandlerTypes, NEW q \in Queries, Len(replies[q]) = 0,
           NEW kind \in Kinds, NEW rs \in SUBSET Responses, Written(q, kind, rs)
    PROVE  /\ replies' \in [Queries -> Seq(Reply)]
           /\ Len(replies'[q]) = 1
           /\ PassedOn(q)' = IF kind \in {"cached", "fresh"} THEN {1} ELSE {}
           /\ replies'[q][1].response = rs
           /\ \A p \in Queries \ {q} : replies'[p] = replies[p]
<1> DEFINE w == [kind |-> kind, response |-> rs]
<1>1. replies[q] = << >> /\ replies[q] \in Seq(Reply) /\ w \in Reply
  BY DEF HandlerTypes, Reply
<1>2. replies' = [replies EXCEPT ![q] = Append(replies[q], w)]
  BY DEF Written
<1>3. replies'[q] = <<w>> /\ \A p \in Queries \ {q} : replies'[p] = replies[p]
  BY <1>1, <1>2 DEF HandlerTypes
<1>4. replies' \in [Queries -> Seq(Reply)]
  <2> HIDE DEF w
  <2>1. Append(replies[q], w) \in Seq(Reply)
    BY <1>1
  <2> QED BY <1>2, <2>1 DEF HandlerTypes
<1>5. Len(replies'[q]) = 1 /\ DOMAIN replies'[q] = {1} /\ replies'[q][1] = w
  BY <1>3
<1>6. PassedOn(q)' = {i \in {1} : replies'[q][i].kind \in {"cached", "fresh"}}
  BY <1>5 DEF PassedOn
<1> QED BY <1>3, <1>4, <1>5, <1>6

\* A query that a step does not touch stays good.
LEMMA OtherQuery ==
    ASSUME UNCHANGED config, NEW q \in Queries, QueryInv(q),
           pc'[q] = pc[q], asks'[q] = asks[q], resp'[q] = resp[q], replies'[q] = replies[q],
           condemned'[q] => condemned[q] /\ Listed(asks[q])'
    PROVE  QueryInv(q)'
<1>1. PassedOn(q)' = PassedOn(q)
  BY DEF PassedOn
<1> QED BY <1>1, VettedSame DEF QueryInv

-----------------------------------------------------------------------------

\* What the proxy does to the cache is what the cache's specification allows.
LEMMA UsesCache ==
    ASSUME HandlerTypes, [Next]_vars
    PROVE  [CacheNext]_cacheVars
<1> USE DEF Queries
<1>1. ASSUME NEW q \in Queries, Handle(q) PROVE [CacheNext]_cacheVars
  <2> USE <1>1
  <2>1. UNCHANGED now /\ asks[q] \in Keys /\ resp[q] \subseteq Responses
    BY DEF Handle, HandlerTypes
  <2>2. CASE LookUp(q)
    BY <2>1, <2>2 DEF LookUp, CacheNext, cacheVars, Returned
  <2>3. CASE Store(q)
    BY <2>1, <2>3 DEF Store, CacheNext
  <2>4. CASE UNCHANGED <<entries, get>>
    BY <2>1, <2>4 DEF cacheVars
  <2>5. LookUp(q) \/ Store(q) \/ UNCHANGED <<entries, get>>
    BY DEF Handle, Local, BlockTransfer, CheckBlocklist, CheckName, CheckFlood,
           ForwardDoH, ForwardPlain, Validate, Record, Vet, Send
  <2> QED BY <2>2, <2>3, <2>4, <2>5
<1>2. CASE ClockTick /\ UNCHANGED <<entries, get, queryVars>>
  BY <1>2 DEF CacheNext
<1>3. CASE UNCHANGED <<now, entries, get>>
  BY <1>3 DEF cacheVars
<1>4. CASE \E q \in Queries, k \in Keys : ~crashed /\ Arrive(q, k) /\ UNCHANGED now
  BY <1>4 DEF Arrive, cacheVars
<1>5. CASE (\E k \in FeedNames : LoadFeed(k)) \/ (\E k \in AllowNames : LoadAllowFile(k))
             \/ (\E k \in Keys : BlockEnds(k)) \/ UNCHANGED vars
  BY <1>5 DEF LoadFeed, LoadAllowFile, BlockEnds, vars, cacheVars
<1> QED BY <1>1, <1>2, <1>4, <1>5 DEF Next

\* A step of one query's handler: the rest is as good as it was.
LEMMA HandlerStep ==
    ASSUME PipelineInv, CacheInv', CacheVetted', HandlerTypes', NEW q \in Queries, QueryInv(q)',
           UNCHANGED <<config, listed, allowed>>,
           \A p \in Queries \ {q} : /\ pc'[p] = pc[p] /\ asks'[p] = asks[p]
                                    /\ resp'[p] = resp[p] /\ replies'[p] = replies[p]
                                    /\ condemned'[p] = condemned[p]
    PROVE  PipelineInv'
<1>1. ASSUME NEW p \in Queries, p # q PROVE QueryInv(p)'
  <2>1. QueryInv(p) /\ (Listed(asks[p])' <=> Listed(asks'[p]))
    BY DEF PipelineInv, Listed
  <2>2. condemned'[p] => condemned[p] /\ Listed(asks[p])'
    BY <1>1, <2>1 DEF QueryInv, Listed
  <2> QED BY <1>1, <2>1, <2>2, OtherQuery
<1> QED BY <1>1 DEF PipelineInv

\* The handler gives up on a query with a reply of its own.
LEMMA Ends ==
    ASSUME PipelineInv, CacheInv', NEW q \in Queries, pc[q] # "done",
           NEW kind \in Refusals,
           Goto(q, "done"), Written(q, kind, {}), Local
    PROVE  PipelineInv'
<1>1. HandlerTypes /\ QueryInv(q) /\ CacheVetted
  BY DEF PipelineInv
<1>2. /\ replies' \in [Queries -> Seq(Reply)] /\ Len(replies'[q]) = 1 /\ PassedOn(q)' = {}
      /\ \A p \in Queries \ {q} : replies'[p] = replies[p]
  <2>1. Len(replies[q]) = 0
    BY <1>1 DEF QueryInv
  <2> QED BY <1>1, <2>1, FirstReply DEF Refusals, Kinds
<1>3. pc' = [pc EXCEPT ![q] = "done"] /\ UNCHANGED <<config, listed, allowed, asks, resp, condemned>>
  BY DEF Goto, Local
<1>4. HandlerTypes'
  BY <1>1, <1>2, <1>3 DEF HandlerTypes, Stages
<1>5. CacheVetted'
  BY <1>1, VettedSame DEF Local, CacheVetted, Holding
<1>6. QueryInv(q)'
  BY <1>1, <1>2, <1>3 DEF QueryInv, HandlerTypes, Listed
<1> QED BY <1>2, <1>3, <1>4, <1>5, <1>6, HandlerStep DEF HandlerTypes, PipelineInv

\* The handler finds nothing and goes on to the next stage.
LEMMA Passes ==
    ASSUME PipelineInv, CacheInv', NEW q \in Queries, pc[q] # "done",
           NEW stage \in Stages \ {"done"}, Goto(q, stage), UNCHANGED replies, Local,
           stage \in {"record", "vet"} => \A r \in resp[q] : "malformed" \notin Faults(r),
           stage \in {"store", "send"} => \A r \in resp[q] : Vetted(r),
           condemned[q] => stage \in {"zone", "blocklist"}
    PROVE  PipelineInv'
<1>1. HandlerTypes /\ QueryInv(q) /\ CacheVetted
  BY DEF PipelineInv
<1>2. pc' = [pc EXCEPT ![q] = stage]
      /\ UNCHANGED <<config, listed, allowed, asks, resp, condemned, replies>>
  BY DEF Goto, Local
<1>3. HandlerTypes'
  BY <1>1, <1>2 DEF HandlerTypes
<1>4. CacheVetted'
  BY <1>1, VettedSame DEF Local, CacheVetted, Holding
<1>5. QueryInv(q)'
  BY <1>1, <1>2, VettedSame DEF QueryInv, HandlerTypes, Listed, PassedOn
<1> QED BY <1>2, <1>3, <1>4, <1>5, HandlerStep DEF HandlerTypes, PipelineInv

-----------------------------------------------------------------------------

\* A query's arrival in handleDNS keeps the invariant.
LEMMA ArriveStep ==
    ASSUME PipelineInv, CacheInv', NEW q \in Queries, NEW k \in Keys, Arrive(q, k)
    PROVE  PipelineInv'
<1>1. HandlerTypes /\ QueryInv(q) /\ CacheVetted /\ pc[q] = "new"
  BY DEF PipelineInv, Arrive, At
<1>2. /\ asks' = [asks EXCEPT ![q] = k] /\ condemned' = [condemned EXCEPT ![q] = Listed(k)]
      /\ UNCHANGED <<resp, listed, allowed, config, entries, get>>
  BY DEF Arrive
<1>3. CacheVetted'
  BY <1>1, <1>2, VettedSame DEF CacheVetted, Holding
<1>4. /\ \E stage \in {"zone", "done"} : pc' = [pc EXCEPT ![q] = stage]
      /\ replies' \in [Queries -> Seq(Reply)]
      /\ \A p \in Queries \ {q} : replies'[p] = replies[p]
      /\ PassedOn(q)' = {} /\ Len(replies'[q]) = IF pc'[q] = "done" THEN 1 ELSE 0
  <2>1. PassedOn(q) = {} /\ Len(replies[q]) = 0
    BY <1>1 DEF QueryInv, PassedOn, HandlerTypes
  <2>2. CASE Goto(q, "zone") /\ UNCHANGED replies
    BY <1>1, <2>1, <2>2 DEF Goto, HandlerTypes, PassedOn
  <2>3. ASSUME NEW kind \in {"closed", "truncated"}, Goto(q, "done"), Written(q, kind, {})
        PROVE  <1>4!:
    BY <1>1, <2>1, <2>3, FirstReply DEF Goto, HandlerTypes, Kinds, Refusals
  <2> QED BY <2>2, <2>3 DEF Arrive
<1>5. HandlerTypes'
  <2>1. Listed(k) \in BOOLEAN
    BY DEF Listed
  <2> QED BY <1>1, <1>2, <1>4, <2>1 DEF HandlerTypes, Stages
<1>6. QueryInv(q)'
  BY <1>1, <1>2, <1>4 DEF QueryInv, HandlerTypes, Listed
<1> QED BY <1>1, <1>2, <1>3, <1>4, <1>5, <1>6, HandlerStep DEF HandlerTypes

\* The stages that examine the question or the response and end the query
\* when they find something.
LEMMA CheckStep ==
    ASSUME PipelineInv, CacheInv', NEW q \in Queries,
           BlockTransfer(q) \/ CheckBlocklist(q) \/ CheckName(q) \/ CheckFlood(q)
             \/ Validate(q) \/ Vet(q)
    PROVE  PipelineInv'
<1>1. QueryInv(q)
  BY DEF PipelineInv
<1>2. CASE BlockTransfer(q)
  BY <1>1, <1>2, Ends, Passes DEF BlockTransfer, Checked, At, After, Stages, Refusals
<1>3. CASE CheckBlocklist(q)
  BY <1>1, <1>3, Ends, Passes DEF CheckBlocklist, Checked, At, After, Stages, Refusals, QueryInv
<1>4. CASE CheckName(q)
  BY <1>1, <1>4, Ends, Passes DEF CheckName, Checked, At, After, Stages, Refusals, QueryInv
<1>5. CASE CheckFlood(q)
  BY <1>1, <1>5, Ends, Passes DEF CheckFlood, Checked, At, After, Stages, Refusals, QueryInv
<1>6. CASE Validate(q)
  <2>1. /\ At(q, "validate") /\ Local /\ ~condemned[q]
        /\ \/ Goto(q, "done") /\ Written(q, "servfail", {})
           \/ /\ Goto(q, "record") /\ UNCHANGED replies
              /\ "malformed" \in config.rejects => \E r \in resp[q] : "malformed" \notin r.flaws
    BY <1>1, <1>6 DEF Validate, Checked, After, QueryInv, At
  <2>2. CASE Goto(q, "done") /\ Written(q, "servfail", {})
    BY <2>1, <2>2, Ends DEF At, Refusals
  <2>3. CASE Goto(q, "record") /\ UNCHANGED replies
    <3>1. \A r \in resp[q] : "malformed" \notin Faults(r)
      BY <1>1, <2>1, <2>3 DEF QueryInv, Faults, At, Goto, PipelineInv, HandlerTypes
    <3> QED BY <2>1, <2>3, <3>1, Passes DEF At, Stages
  <2> QED BY <2>1, <2>2, <2>3
<1>7. CASE Vet(q)
  <2>1. PICK r \in resp[q] :
           Checked(q, "vet", Faults(r) \ {"malformed"} # {},
             IF Faults(r) \intersect {"cname", "calculated", "unpinned"} = {} /\ "bogus" \in Faults(r)
             THEN "servfail" ELSE "nxdomain")
    BY <1>7 DEF Vet
  <2>2. /\ At(q, "vet") /\ Local /\ ~condemned[q]
        /\ \/ \E kind \in {"servfail", "nxdomain"} : Goto(q, "done") /\ Written(q, kind, {})
           \/ Goto(q, "store") /\ UNCHANGED replies /\ Faults(r) \ {"malformed"} = {}
    BY <1>1, <1>7, <2>1 DEF Vet, Checked, After, QueryInv, At
  <2>3. ASSUME NEW kind \in {"servfail", "nxdomain"}, Goto(q, "done"), Written(q, kind, {})
        PROVE  PipelineInv'
    BY <2>2, <2>3, Ends DEF At, Refusals
  <2>4. CASE Goto(q, "store") /\ UNCHANGED replies /\ Faults(r) \ {"malformed"} = {}
    <3>1. \A s \in resp[q] : Vetted(s)
      BY <1>1, <2>2, <2>4 DEF QueryInv, Vetted, At
    <3> QED BY <2>2, <2>4, <3>1, Passes DEF At, Stages
  <2> QED BY <2>2, <2>3, <2>4
<1> QED BY <1>2, <1>3, <1>4, <1>5, <1>6, <1>7

\* A hit is passed on as the cache holds it.
LEMMA LookUpStep ==
    ASSUME PipelineInv, CacheInv', NEW q \in Queries, LookUp(q), UNCHANGED now
    PROVE  PipelineInv'
<1>1. HandlerTypes /\ QueryInv(q) /\ CacheVetted /\ CacheInv /\ pc[q] = "lookup" /\ ~condemned[q]
  BY DEF PipelineInv, LookUp, At, QueryInv
<1>2. UNCHANGED <<asks, resp, listed, allowed, condemned, config>>
  BY DEF LookUp
<1>3. ASSUME Lookup(q, asks[q]) \/ Examine(q) \/ Delete(q), UNCHANGED <<pc, replies>>
      PROVE  PipelineInv'
  <2>1. HandlerTypes'
    BY <1>1, <1>2, <1>3 DEF HandlerTypes
  <2>2. QueryInv(q)'
    BY <1>1, <1>2, <1>3, OtherQuery
  <2>3. CacheVetted'
    <3> USE DEF Queries
    <3>1. asks[q] \in Keys
      BY <1>1 DEF HandlerTypes
    <3>2. \A k \in Holding' : entries'[k] \in {entries[j] : j \in Holding}
      BY <1>3 DEF Lookup, Examine, Delete, Holding
    <3>3. get'[q].entry \subseteq get[q].entry \union {entries[j] : j \in Holding}
      BY <1>1, <1>3, <3>1, ReadersChange
    <3>4. \A p \in Queries \ {q} : get'[p] = get[p]
      BY <1>1, <1>3, <3>1, ReadersChange
    <3> QED BY <1>1, <1>2, <3>2, <3>3, <3>4, VettedSame DEF CacheVetted
  <2> QED BY <1>2, <1>3, <2>1, <2>2, <2>3, HandlerStep
<1>4. CASE get[q].at = "hit" /\ Goto(q, "done") /\ UNCHANGED <<entries, get>>
             /\ Written(q, "cached", {e.response : e \in get[q].entry})
  <2> DEFINE rs == {e.response : e \in get[q].entry}
  <2>1. rs \in SUBSET Responses /\ \A r \in rs : Vetted(r)
    BY <1>1 DEF CacheInv, ReadersGood, Good, CacheVetted, Queries
  <2>2. Len(replies[q]) = 0 /\ Written(q, "cached", rs)
    BY <1>1, <1>4 DEF QueryInv
  <2> HIDE DEF rs
  <2>3. /\ replies' \in [Queries -> Seq(Reply)] /\ Len(replies'[q]) = 1
        /\ PassedOn(q)' = {1} /\ replies'[q][1].response = rs
        /\ \A p \in Queries \ {q} : replies'[p] = replies[p]
    BY <1>1, <2>1, <2>2, FirstReply DEF Kinds
  <2>4. pc' = [pc EXCEPT ![q] = "done"]
    BY <1>4 DEF Goto
  <2>5. HandlerTypes'
    BY <1>1, <1>2, <2>3, <2>4 DEF HandlerTypes, Stages
  <2>6. CacheVetted'
    BY <1>1, <1>2, <1>4, VettedSame DEF CacheVetted, Holding
  <2>7. QueryInv(q)'
    BY <1>1, <1>2, <2>1, <2>3, <2>4, VettedSame DEF QueryInv, HandlerTypes
  <2> QED BY <1>1, <1>2, <2>3, <2>4, <2>5, <2>6, <2>7, HandlerStep DEF HandlerTypes
<1>5. CASE Goto(q, After["lookup"]) /\ UNCHANGED <<replies, entries, get>>
  <2>1. pc' = [pc EXCEPT ![q] = "forward"]
    BY <1>5 DEF Goto, After
  <2>2. HandlerTypes'
    BY <1>1, <1>2, <1>5, <2>1 DEF HandlerTypes, Stages
  <2>3. CacheVetted'
    BY <1>1, <1>2, <1>5, VettedSame DEF CacheVetted, Holding
  <2>4. QueryInv(q)'
    BY <1>1, <1>2, <1>5, <2>1, VettedSame DEF QueryInv, HandlerTypes, PassedOn
  <2> QED BY <1>1, <1>2, <1>5, <2>1, <2>2, <2>3, <2>4, HandlerStep DEF HandlerTypes
<1> QED BY <1>3, <1>4, <1>5 DEF LookUp

\* A step that gives the query a response, or the handler nil.
LEMMA ObtainsStep ==
    ASSUME PipelineInv, CacheInv', NEW q \in Queries, At(q, "forward"),
           NEW rs \in SUBSET Responses, \A r, s \in rs : r = s, Obtains(q, rs),
           UNCHANGED <<asks, listed, allowed, condemned, config, entries, get>>
    PROVE  PipelineInv'
<1>1. HandlerTypes /\ QueryInv(q) /\ CacheVetted /\ pc[q] = "forward"
  BY DEF PipelineInv, At
<1>2. /\ pc' = [pc EXCEPT ![q] = "validate"] /\ resp' = [resp EXCEPT ![q] = rs]
      /\ UNCHANGED replies
  BY DEF Obtains, Goto
<1>3. HandlerTypes'
  BY <1>1, <1>2 DEF HandlerTypes, Stages
<1>4. CacheVetted'
  BY <1>1, VettedSame DEF CacheVetted, Holding
<1>5. QueryInv(q)'
  BY <1>1, <1>2, VettedSame DEF QueryInv, HandlerTypes, PassedOn
<1> QED BY <1>2, <1>3, <1>4, <1>5, HandlerStep DEF HandlerTypes, PipelineInv

\* forwardUpstream, by DoH or plain DNS, keeps it, whether or not it gets a response.
LEMMA ForwardStep ==
    ASSUME PipelineInv, CacheInv', NEW q \in Queries, ForwardDoH(q) \/ ForwardPlain(q)
    PROVE  PipelineInv'
<1>1. /\ At(q, "forward")
      /\ UNCHANGED <<asks, listed, allowed, flooded, condemned, crashed, config, entries, get>>
  BY DEF ForwardDoH, ForwardPlain
<1>2. \/ \E rs \in SUBSET Responses : Obtains(q, rs) /\ \A r, s \in rs : r = s
      \/ Goto(q, "done") /\ Written(q, "servfail", {}) /\ UNCHANGED resp
  <2>1. ASSUME NEW r \in Responses, Obtains(q, {r})
        PROVE  \E rs \in SUBSET Responses : Obtains(q, rs) /\ \A s, t \in rs : s = t
    <3>1. {r} \in SUBSET Responses /\ \A s, t \in {r} : s = t
      OBVIOUS
    <3> QED BY <2>1, <3>1
  <2>2. ASSUME Obtains(q, {})
        PROVE  \E rs \in SUBSET Responses : Obtains(q, rs) /\ \A s, t \in rs : s = t
    <3>1. {} \in SUBSET Responses /\ \A s, t \in {} : s = t
      OBVIOUS
    <3> QED BY <2>2, <3>1
  <2> QED BY <2>1, <2>2 DEF ForwardDoH, ForwardPlain, Race
<1>3. ASSUME NEW rs \in SUBSET Responses, Obtains(q, rs), \A r, s \in rs : r = s
      PROVE  PipelineInv'
  BY <1>1, <1>3, ObtainsStep
<1>4. CASE Goto(q, "done") /\ Written(q, "servfail", {}) /\ UNCHANGED resp
  BY <1>1, <1>4, Ends DEF At, Local, Refusals
<1> QED BY <1>2, <1>3, <1>4

\* So does what handleDNS records of the response,
LEMMA RecordStep ==
    ASSUME PipelineInv, CacheInv', NEW q \in Queries, Record(q)
    PROVE  PipelineInv'
<1>1. HandlerTypes /\ QueryInv(q) /\ CacheVetted /\ pc[q] = "record"
  BY DEF PipelineInv, Record, At
<1>2. /\ UNCHANGED <<asks, resp, replies, listed, allowed, condemned, config, entries, get>>
      /\ pc' = pc \/ pc' = [pc EXCEPT ![q] = "vet"]
  BY DEF Record, Goto, After
<1>3. HandlerTypes'
  BY <1>1, <1>2 DEF HandlerTypes, Stages
<1>4. CacheVetted'
  BY <1>1, <1>2, VettedSame DEF CacheVetted, Holding
<1>5. QueryInv(q)'
  BY <1>1, <1>2, VettedSame DEF QueryInv, HandlerTypes, PassedOn
<1> QED BY <1>2, <1>3, <1>4, <1>5, HandlerStep DEF HandlerTypes, PipelineInv

\* What is cached has been vetted.
LEMMA StoreStep ==
    ASSUME PipelineInv, CacheInv', NEW q \in Queries, Store(q), UNCHANGED now
    PROVE  PipelineInv'
<1>1. HandlerTypes /\ QueryInv(q) /\ CacheVetted /\ CacheInv /\ pc[q] = "store"
  BY DEF PipelineInv, Store, At
<1>2. /\ UNCHANGED <<asks, resp, replies, listed, allowed, condemned, config>>
      /\ pc' = [pc EXCEPT ![q] = "send"]
  BY DEF Store, Goto, After
<1>3. PICK r \in resp[q] : Put(asks[q], r)
  BY DEF Store
<1>4. HandlerTypes'
  BY <1>1, <1>2 DEF HandlerTypes, Stages
<1>5. CacheVetted'
  <2>1. asks[q] \in Keys /\ r \in Responses /\ Vetted(r) /\ UNCHANGED get
    BY <1>1, <1>3 DEF HandlerTypes, QueryInv, Put
  <2>2. PICK rest \in Remaining :
           /\ Holding' = rest \union {asks[q]}
           /\ entries'[asks[q]] = NewEntry(r)
           /\ \A j \in rest : j # asks[q] => entries'[j] = entries[j]
    BY <1>3, <2>1, PutShape
  <2>3. rest \subseteq Holding
    BY <1>1, RoomMade
  <2>4. NewEntry(r).response = r
    BY DEF NewEntry
  <2>5. \A k \in Holding' : Vetted(entries'[k].response)
    BY <1>1, <2>1, <2>2, <2>3, <2>4 DEF CacheVetted
  <2> QED BY <1>1, <1>2, <2>1, <2>5, VettedSame DEF CacheVetted
<1>6. QueryInv(q)'
  BY <1>1, <1>2, VettedSame DEF QueryInv, HandlerTypes, PassedOn
<1> QED BY <1>2, <1>4, <1>5, <1>6, HandlerStep DEF HandlerTypes, PipelineInv

\* What is sent has been vetted, and it is the first reply.
LEMMA SendStep ==
    ASSUME PipelineInv, CacheInv', NEW q \in Queries, Send(q)
    PROVE  PipelineInv'
<1>1. HandlerTypes /\ QueryInv(q) /\ CacheVetted /\ pc[q] = "send"
  BY DEF PipelineInv, Send, At
<1>2. /\ pc' = [pc EXCEPT ![q] = "done"]
      /\ UNCHANGED <<asks, resp, listed, allowed, condemned, config, entries, get>>
  BY DEF Send, Goto, Local
<1>3. /\ replies' \in [Queries -> Seq(Reply)] /\ Len(replies'[q]) = 1
      /\ PassedOn(q)' = {1} /\ replies'[q][1].response = resp[q]
      /\ \A p \in Queries \ {q} : replies'[p] = replies[p]
  <2>1. resp[q] \in SUBSET Responses /\ Len(replies[q]) = 0 /\ Written(q, "fresh", resp[q])
    BY <1>1 DEF HandlerTypes, QueryInv, Send
  <2> QED BY <1>1, <2>1, FirstReply DEF Kinds
<1>4. HandlerTypes'
  BY <1>1, <1>2, <1>3 DEF HandlerTypes, Stages
<1>5. CacheVetted'
  BY <1>1, <1>2, VettedSame DEF CacheVetted, Holding
<1>6. QueryInv(q)'
  BY <1>1, <1>2, <1>3, VettedSame DEF QueryInv, HandlerTypes
<1> QED BY <1>2, <1>3, <1>4, <1>5, <1>6, HandlerStep DEF HandlerTypes, PipelineInv

\* A name that is no longer blocked condemns no query.
LEMMA WorldStep ==
    ASSUME PipelineInv, CacheInv',
           (\E k \in FeedNames : LoadFeed(k)) \/ (\E k \in AllowNames : LoadAllowFile(k))
             \/ (\E k \in Keys : BlockEnds(k)) \/ UNCHANGED vars
             \/ (ClockTick /\ UNCHANGED <<entries, get, queryVars>>)
    PROVE  PipelineInv'
<1>1. HandlerTypes /\ CacheVetted /\ \A q \in Queries : QueryInv(q)
  BY DEF PipelineInv
<1>2. UNCHANGED <<pc, asks, resp, replies, config, entries, get>>
  BY DEF LoadFeed, LoadAllowFile, BlockEnds, vars, queryVars
<1>3. condemned' \in [Queries -> BOOLEAN]
  BY <1>1 DEF HandlerTypes, LoadFeed, LoadAllowFile, BlockEnds, vars, queryVars
<1>4. ASSUME NEW q \in Queries
      PROVE  condemned'[q] => condemned[q] /\ Listed(asks[q])'
  <2>1. condemned[q] => Listed(asks[q])
    BY <1>1 DEF QueryInv
  <2>2. ASSUME NEW k \in FeedNames, LoadFeed(k)
        PROVE  condemned'[q] => condemned[q] /\ Listed(asks[q])'
    BY <2>1, <2>2 DEF LoadFeed, Listed
  <2>3. ASSUME NEW k \in AllowNames, LoadAllowFile(k)
        PROVE  condemned'[q] => condemned[q] /\ Listed(asks[q])'
    BY <2>1, <2>3 DEF LoadAllowFile, Listed
  <2>4. CASE UNCHANGED <<condemned, asks, listed, allowed>>
    BY <2>1, <2>4 DEF Listed
  <2> QED BY <2>2, <2>3, <2>4 DEF BlockEnds, vars, queryVars
<1>5. HandlerTypes'
  BY <1>1, <1>2, <1>3 DEF HandlerTypes
<1>6. CacheVetted'
  BY <1>1, <1>2, VettedSame DEF CacheVetted, Holding
<1>7. \A q \in Queries : QueryInv(q)'
  BY <1>1, <1>2, <1>4, OtherQuery
<1> QED BY <1>5, <1>6, <1>7 DEF PipelineInv

\* and with them every step of handleDNS and of what surrounds it.
LEMMA PipelineStep ==
    ASSUME PipelineInv, [Next]_vars
    PROVE  PipelineInv'
<1>1. CacheInv'
  BY UsesCache, CacheStep DEF PipelineInv
<1>2. ASSUME NEW q \in Queries, NEW k \in Keys, Arrive(q, k) PROVE PipelineInv'
  BY <1>1, <1>2, ArriveStep
<1>3. ASSUME NEW q \in Queries, Handle(q) PROVE PipelineInv'
  BY <1>1, <1>3, CheckStep, LookUpStep, ForwardStep, RecordStep, StoreStep, SendStep
     DEF Handle
<1> QED BY <1>1, <1>2, <1>3, WorldStep DEF Next

\* It holds of a proxy that has started and answered nothing yet.
LEMMA PipelineStart == Init => PipelineInv
<1> SUFFICES ASSUME Init PROVE PipelineInv
  OBVIOUS
<1>1. CacheInv /\ CacheVetted
  BY CacheStart DEF Init, CacheVetted, CacheInit, Holding, Queries
<1>2. HandlerTypes
  BY PipelineAssumption DEF Init, HandlerTypes, Stages
<1>3. \A q \in Queries : QueryInv(q)
  BY <1>2 DEF Init, QueryInv, PassedOn, HandlerTypes
<1> QED BY <1>1, <1>2, <1>3 DEF PipelineInv

(* The invariant the theorems on handleDNS rest on: a query stands where its  *)
(* checks let it stand, and the cache holds only what handleDNS passed on.     *)
THEOREM PipelineInvHolds == Spec => []PipelineInv
BY PipelineStart, PipelineStep, PTL DEF Spec

(* However many queries share it, the proxy uses the cache as the cache's     *)
(* specification allows: what CacheProofs shows of CacheSpec holds in handleDNS. *)
THEOREM HandlersUseCache == Spec => CacheSpec
<1>1. PipelineInv /\ [Next]_vars => [CacheNext]_cacheVars
  BY UsesCache DEF PipelineInv
<1>2. Init => CacheInit
  BY DEF Init
<1> QED BY <1>1, <1>2, PipelineInvHolds, PTL DEF Spec, CacheSpec

\* What is shared besides the cache keeps its type.
WorldTypes ==
    /\ listed \subseteq Keys /\ allowed \subseteq Keys /\ flooded \subseteq Keys
    /\ crashed \in BOOLEAN /\ config \in Configs

\* Lists, trackers and configuration keep their types.
LEMMA WorldTypesStep ==
    ASSUME HandlerTypes, WorldTypes, [Next]_vars
    PROVE  WorldTypes'
<1>1. CASE UNCHANGED <<listed, allowed, flooded, crashed, config>>
  BY <1>1 DEF WorldTypes
<1>2. ASSUME NEW k \in FeedNames, LoadFeed(k) PROVE WorldTypes'
  BY <1>2, PipelineAssumption DEF WorldTypes, LoadFeed
<1>3. ASSUME NEW k \in AllowNames, LoadAllowFile(k) PROVE WorldTypes'
  BY <1>3, PipelineAssumption DEF WorldTypes, LoadAllowFile
<1>4. ASSUME NEW k \in Keys, BlockEnds(k) PROVE WorldTypes'
  BY <1>4 DEF WorldTypes, BlockEnds
<1>5. ASSUME NEW q \in Queries, Record(q) PROVE WorldTypes'
  <2>1. Kin[asks[q]] \subseteq Keys
    BY PipelineAssumption DEF HandlerTypes
  <2>2. Floods(q) \subseteq Keys
    BY <2>1 DEF Floods
  <2> QED BY <1>5, <2>2 DEF WorldTypes, Record
<1>6. ASSUME NEW q \in Queries, Handle(q)
      PROVE  Record(q) \/ UNCHANGED <<listed, allowed, flooded, crashed, config>>
  BY <1>6 DEF Handle, Local, BlockTransfer, CheckBlocklist, CheckName, CheckFlood, LookUp,
              ForwardDoH, ForwardPlain, Validate, Vet, Store, Send
<1>7. ASSUME NEW q \in Queries, NEW k \in Keys, Arrive(q, k)
      PROVE  UNCHANGED <<listed, allowed, flooded, crashed, config>>
  BY <1>7 DEF Arrive
<1> QED BY <1>1, <1>2, <1>3, <1>4, <1>5, <1>6, <1>7 DEF Next, vars, queryVars

(* The handlers, the blocklists and the shared cache keep their types, and no *)
(* query ever holds two responses.                                            *)
THEOREM PipelineTypeCorrect == Spec => []TypeOK
<1>1. Init => WorldTypes
  BY DEF Init, WorldTypes
<1>2. PipelineInv /\ WorldTypes /\ [Next]_vars => WorldTypes'
  BY WorldTypesStep DEF PipelineInv
<1>3. PipelineInv /\ WorldTypes /\ CacheTypeOK => TypeOK
  <2> SUFFICES ASSUME PipelineInv, WorldTypes, NEW q \in Queries
               PROVE  resp[q] \subseteq Responses /\ Cardinality(resp[q]) <= 1
    BY DEF PipelineInv, WorldTypes, HandlerTypes, TypeOK
  <2>1. resp[q] \subseteq Responses /\ \A r, s \in resp[q] : r = s
    BY DEF PipelineInv, HandlerTypes, QueryInv
  <2>2. resp[q] = {} \/ \E r \in resp[q] : resp[q] = {r}
    BY <2>1
  <2>3. ASSUME NEW r \in resp[q], resp[q] = {r} PROVE Cardinality(resp[q]) = 1
    <3>1. Cardinality({r}) = 1
      BY FS_Singleton
    <3> QED BY <2>3, <3>1
  <2>4. CASE resp[q] = {}
    BY <2>1, <2>4, FS_EmptySet
  <2> QED BY <2>1, <2>2, <2>3, <2>4
<1> QED BY <1>1, <1>2, <1>3, PipelineInvHolds, HandlersUseCache, CacheTypeCorrect, PTL DEF Spec

(* handleDNS passes on no response the configuration rejects, whichever       *)
(* client's query brought it in and whenever it was cached.                   *)
THEOREM OnlyVettedIsPassedOn == Spec => []OnlyVettedPassedOn
<1>1. PipelineInv => OnlyVettedPassedOn
  BY DEF PipelineInv, QueryInv, OnlyVettedPassedOn, Vetted
<1> QED BY <1>1, PipelineInvHolds, PTL

(* The blocklist stage, before the cache and the upstreams, stops every query *)
(* for a name that stays blocked, whatever the feeds do to other names.       *)
THEOREM ListedIsNeverAnswered == Spec => []ListedNeverAnswered
<1>1. PipelineInv => ListedNeverAnswered
  BY DEF PipelineInv, QueryInv, ListedNeverAnswered
<1> QED BY <1>1, PipelineInvHolds, PTL

(* Every path through handleDNS writes exactly one reply and then returns.    *)
THEOREM OneReplyEach == Spec => []OneReply
<1>1. PipelineInv => OneReply
  BY DEF PipelineInv, QueryInv, OneReply
<1> QED BY <1>1, PipelineInvHolds, PTL

-----------------------------------------------------------------------------
(* What ValidateResponse and the CNAME checks ensure of an answer together.  *)

\* Induction over the naturals, on a set
LEMMA NatInduct ==
    ASSUME NEW S, 0 \in S, \A n \in Nat : n \in S => n + 1 \in S
    PROVE  Nat \subseteq S
<1> SUFFICES ASSUME Nat \ S # {} PROVE FALSE
  OBVIOUS
<1>1. Nat \ S \in SUBSET Nat
  OBVIOUS
<1>2. PICK m \in Nat \ S : \A x \in Nat \ S : m <= x
  BY <1>1, MinIsLeast
<1>3. m # 0 /\ m - 1 \in Nat /\ m - 1 < m /\ (m - 1) + 1 = m
  BY <1>2
<1>4. m - 1 \in S
  BY <1>2, <1>3
<1> QED BY <1>2, <1>3, <1>4

\* Max is what its name says on the positions in a sequence.
LEMMA MaxIsGreatest ==
    ASSUME NEW n \in Nat, NEW S \in SUBSET (1..n), S # {}
    PROVE  Max(S) \in S /\ \A x \in S : Max(S) >= x
<1> DEFINE T == {n - x : x \in S}
<1>1. T \in SUBSET Nat /\ T # {}
  <2>1. \A x \in S : x \in 1..n /\ n - x \in Nat
    OBVIOUS
  <2> QED BY <2>1
<1>2. PICK m \in T : \A y \in T : m <= y
  <2> HIDE DEF T
  <2> QED BY <1>1, MinIsLeast
<1>3. PICK s \in S : m = n - s
  OBVIOUS
<1>4. \A x \in S : s >= x
  <2> SUFFICES ASSUME NEW x \in S PROVE s >= x
    OBVIOUS
  <2>1. m <= n - x
    BY <1>2
  <2> QED BY <1>3, <2>1
<1> QED BY <1>4 DEF Max

\* What the records of an answer point to
Targets(answer) == {answer[i].target : i \in DOMAIN answer}

\* An alias has a target.
LEMMA TargetOfAlias ==
    ASSUME NEW R, NEW answer \in Seq(R), NEW name \in Aliases(answer)
    PROVE  Target(answer, name) \in Targets(answer)
<1> DEFINE S == {i \in DOMAIN answer : answer[i].type = "CNAME" /\ answer[i].owner = name}
<1>1. Len(answer) \in Nat /\ DOMAIN answer = 1..Len(answer)
  OBVIOUS
<1>2. S # {}
  BY DEF Aliases
<1>3. Max(S) \in S
  <2>1. S \in SUBSET (1..Len(answer))
    BY <1>1
  <2> HIDE DEF S
  <2> QED BY <1>1, <1>2, <2>1, MaxIsGreatest
<1> QED BY <1>3 DEF Target, Targets

\* No more aliases than records
LEMMA FewAliases ==
    ASSUME NEW R, NEW answer \in Seq(R), NEW w, \A i \in 1..(Len(answer) + 1) : w[i] \in Aliases(answer)
    PROVE  \E i, j \in 1..(Len(answer) + 1) : i # j /\ w[i] = w[j]
<1> DEFINE N == Len(answer)
           D == 1..(N + 1)
           Place(i) == CHOOSE k \in 1..N : answer[k].owner = w[i]
           f == [i \in D |-> Place(i)]
<1>1. N \in Nat /\ DOMAIN answer = 1..N
  OBVIOUS
<1>2. \A i \in D : Place(i) \in 1..N /\ answer[Place(i)].owner = w[i]
  <2> SUFFICES ASSUME NEW i \in D PROVE \E k \in 1..N : answer[k].owner = w[i]
    OBVIOUS
  <2> QED BY <1>1 DEF Aliases
<1>3. f \in [D -> 1..N]
  <2> HIDE DEF Place
  <2> QED BY <1>2
<1>4. IsFiniteSet(D) /\ Cardinality(D) = N + 1 /\ IsFiniteSet(1..N) /\ Cardinality(1..N) = N
  <2>1. N + 1 \in Int /\ N \in Int /\ 1 \in Int /\ N + 1 - 1 + 1 = N + 1 /\ N - 1 + 1 = N
    BY <1>1
  <2>2. \A n \in Int : IsFiniteSet(1..n) /\ Cardinality(1..n) = IF 1 > n THEN 0 ELSE n - 1 + 1
    BY FS_Interval
  <2> HIDE DEF N
  <2>3. IsFiniteSet(1..N) /\ Cardinality(1..N) = N
    BY <1>1, <2>1, <2>2
  <2>4. IsFiniteSet(D) /\ Cardinality(D) = N + 1
    BY <1>1, <2>1, <2>2
  <2> QED BY <2>3, <2>4
<1>5. PICK i, j \in D : i # j /\ f[i] = f[j]
  <2>1. N < N + 1
    BY <1>1
  <2> HIDE DEF f, D, N
  <2> QED BY <1>3, <1>4, <2>1, FS_PigeonHole
<1>6. Place(i) = Place(j)
  <2> HIDE DEF Place
  <2> QED BY <1>5
<1>7. w[i] = w[j]
  <2> HIDE DEF Place
  <2> QED BY <1>2, <1>6
<1> QED BY <1>5, <1>7

\* The names a chain leads through, the first included
Path(name, chain) == <<name>> \o chain

\* A walk over aliases, each once, each leading to the next
Walk(answer, name, chain) ==
    LET w == Path(name, chain) IN
    /\ chain \in Seq(Targets(answer))
    /\ \A i \in 1..Len(chain) : w[i] \in Aliases(answer) /\ w[i + 1] = Target(answer, w[i])
    /\ \A i, j \in 1..Len(chain) : w[i] = w[j] => i = j
Ended(answer, name, chain) ==
    LET w == Path(name, chain) IN
    \/ w[Len(chain) + 1] \notin Aliases(answer)
    \/ \E i \in 1..Len(chain) : w[i] = w[Len(chain) + 1]

\* Positions of a walk
LEMMA Walked ==
    ASSUME NEW T, NEW name, NEW chain \in Seq(T), NEW w, w = Path(name, chain)
    PROVE  /\ Len(w) = Len(chain) + 1
           /\ w[1] = name /\ \A i \in 1..Len(chain) : w[i + 1] = chain[i]
           /\ Last(w) = w[Len(chain) + 1]
           /\ \A x : x \in ToSet(Front(w)) <=> \E i \in 1..Len(chain) : x = w[i]
<1> DEFINE U == T \union {name}
<1>1. <<name>> \in Seq(U) /\ chain \in Seq(U) /\ Len(<<name>>) = 1 /\ Len(chain) \in Nat
  OBVIOUS
<1>2. w \in Seq(U) /\ Len(w) = Len(chain) + 1 /\ w[1] = name /\ \A i \in 1..Len(chain) : w[i + 1] = chain[i]
  BY <1>1 DEF Path
<1> HIDE DEF U
<1>3. Last(w) = w[Len(chain) + 1]
  BY <1>2 DEF Last
<1>4. Front(w) \in Seq(U) /\ DOMAIN Front(w) = 1..Len(chain) /\ \A i \in 1..Len(chain) : Front(w)[i] = w[i]
  BY <1>1, <1>2 DEF Front
<1>5. \A x : x \in ToSet(Front(w)) <=> \E i \in 1..Len(chain) : x = w[i]
  BY <1>1, <1>4 DEF ToSet
<1> QED BY <1>2, <1>3, <1>5 DEF U

\* One pass of extractCNAMEChain takes the walk one alias further, or has
\* nowhere new to go.
LEMMA ExtendWalks ==
    ASSUME NEW R, NEW answer \in Seq(R), NEW name, NEW chain, Walk(answer, name, chain)
    PROVE  LET next == Extend(answer, name, chain) IN
           /\ Walk(answer, name, next)
           /\ \/ Len(next) = Len(chain) + 1
              \/ next = chain /\ Ended(answer, name, chain)
<1> DEFINE T == Targets(answer)
           w == <<name>> \o chain
           n == Len(chain)
           more == w[n + 1] \in Aliases(answer) /\ \A i \in 1..n : w[i] # w[n + 1]
           t == Target(answer, w[n + 1])
           next == Append(chain, t)
           v == Path(name, next)
<1>1. chain \in Seq(T) /\ n \in Nat
  BY DEF Walk
<1>2. /\ Len(w) = n + 1 /\ w[1] = name /\ \A i \in 1..n : w[i + 1] = chain[i]
      /\ Last(w) = w[n + 1]
      /\ \A x : x \in ToSet(Front(w)) <=> \E i \in 1..n : x = w[i]
  <2>1. w = Path(name, chain)
    BY DEF Path
  <2> HIDE DEF T, w
  <2> QED BY <1>1, <2>1, Walked
<1>3. Extend(answer, name, chain) = IF more THEN next ELSE chain
  <2>1. Extend(answer, name, chain) = IF Last(w) \in Aliases(answer) /\ Last(w) \notin ToSet(Front(w))
                                      THEN Append(chain, Target(answer, Last(w))) ELSE chain
    BY DEF Extend, Path
  <2> HIDE DEF w, n
  <2> QED BY <1>2, <2>1
<1>4. CASE ~more
  <2>1. Ended(answer, name, chain)
    BY <1>4 DEF Ended, Path
  <2> HIDE DEF more, next
  <2> QED BY <1>3, <1>4, <2>1
<1>5. CASE more
  <2>1. t \in T
    <3>1. w[n + 1] \in Aliases(answer)
      BY <1>5
    <3> HIDE DEF w, n
    <3> QED BY <3>1, TargetOfAlias
  <2>2. next \in Seq(T) /\ Len(next) = n + 1 /\ next[n + 1] = t /\ \A i \in 1..n : next[i] = chain[i]
    <3> HIDE DEF T, t
    <3> QED BY <1>1, <2>1
  <2>3. v[1] = name /\ \A i \in 1..(n + 1) : v[i + 1] = next[i]
    <3>1. v = Path(name, next)
      OBVIOUS
    <3> HIDE DEF T, next, v
    <3> QED BY <2>2, <3>1, Walked
  <2>4. \A i \in 1..(n + 1) : v[i] = w[i]
    <3> SUFFICES ASSUME NEW i \in 1..(n + 1), i # 1 PROVE v[i] = w[i]
      <4> HIDE DEF v, w
      <4> QED BY <1>2, <2>3
    <3>1. i - 1 \in 1..n /\ (i - 1) \in 1..(n + 1) /\ (i - 1) + 1 = i
      BY <1>1
    <3> HIDE DEF v, w, n, next
    <3> QED BY <1>2, <2>2, <2>3, <3>1
  <2>5. v[n + 2] = t
    <3>1. n + 1 \in 1..(n + 1) /\ (n + 1) + 1 = n + 2
      BY <1>1
    <3> HIDE DEF v, next, n, t
    <3> QED BY <2>2, <2>3, <3>1
  <2>6. ASSUME NEW i \in 1..(n + 1)
        PROVE  v[i] \in Aliases(answer) /\ v[i + 1] = Target(answer, v[i])
    <3>1. CASE i = n + 1
      <4>1. v[i] = w[n + 1] /\ i + 1 = n + 2
        BY <1>1, <2>4, <3>1
      <4>2. w[n + 1] \in Aliases(answer)
        BY <1>5
      <4> HIDE DEF v, w, n
      <4> QED BY <2>5, <4>1, <4>2
    <3>2. CASE i # n + 1
      <4>1. i \in 1..n /\ i + 1 \in 1..(n + 1)
        BY <1>1, <3>2
      <4>2. w[i] \in Aliases(answer) /\ w[i + 1] = Target(answer, w[i])
        BY <4>1 DEF Walk, Path
      <4> HIDE DEF v, w, n
      <4> QED BY <2>4, <4>1, <4>2
    <3> QED BY <3>1, <3>2
  <2>7. ASSUME NEW i \in 1..(n + 1), NEW j \in 1..(n + 1), v[i] = v[j] PROVE i = j
    <3>1. w[i] = w[j]
      <4> HIDE DEF v, w
      <4> QED BY <2>4, <2>7
    <3>2. \A k \in 1..n : w[k] # w[n + 1]
      BY <1>5
    <3>3. \A k, l \in 1..n : w[k] = w[l] => k = l
      BY DEF Walk, Path
    <3>4. i \in 1..n \/ i = n + 1
      BY <1>1
    <3>5. j \in 1..n \/ j = n + 1
      BY <1>1
    <3> HIDE DEF w, n
    <3> QED BY <3>1, <3>2, <3>3, <3>4, <3>5
  <2>8. Walk(answer, name, next)
    <3> HIDE DEF next, n, T
    <3>1. v = Path(name, next)
      OBVIOUS
    <3> HIDE DEF v
    <3> QED BY <2>2, <2>6, <2>7, <3>1 DEF Walk, T
  <2> HIDE DEF more, next
  <2> QED BY <1>3, <1>5, <2>2, <2>8
<1> HIDE DEF more
<1> QED BY <1>4, <1>5

\* A walk that has ended is not extended.
LEMMA ExtendStays ==
    ASSUME NEW answer, NEW name, NEW chain, Walk(answer, name, chain), Ended(answer, name, chain)
    PROVE  Extend(answer, name, chain) = chain
<1> DEFINE w == Path(name, chain)
<1>1. Last(w) = w[Len(chain) + 1] /\ \A x : x \in ToSet(Front(w)) <=> \E i \in 1..Len(chain) : x = w[i]
  <2>1. chain \in Seq(Targets(answer))
    BY DEF Walk
  <2>2. w = Path(name, chain)
    OBVIOUS
  <2> HIDE DEF w
  <2> QED BY <2>1, <2>2, Walked
<1>2. Last(w) \notin Aliases(answer) \/ Last(w) \in ToSet(Front(w))
  <2> HIDE DEF w
  <2> QED BY <1>1 DEF Ended, w
<1> HIDE DEF w
<1> QED BY <1>2 DEF Extend, w, Path

\* extractCNAMEChain, as a walk: with as many passes as there are records it
\* ends where a name is no alias or is met again.
LEMMA ChainWalks ==
    ASSUME NEW R, NEW answer \in Seq(R), NEW name
    PROVE  LET chain == ChainOf(answer, name) IN
           Walk(answer, name, chain) /\ Ended(answer, name, chain)
<1> DEFINE N == Len(answer)
           chain[i \in 0..N] == IF i = 0 THEN <<>> ELSE Extend(answer, name, chain[i - 1])
           Step(g, i) == IF i = 0 THEN <<>> ELSE Extend(answer, name, g[i - 1])
           Prefix(n, g) == g = [i \in 0..n |-> Step(g, i)]
           D == {n \in Nat : n <= N => \E g : Prefix(n, g)}
<1>1. ChainOf(answer, name) = chain[N] /\ N \in Nat
  BY DEF ChainOf
<1>2. chain = CHOOSE g : Prefix(N, g)
  BY DEF chain
<1>3. 0 \in D
  <2>1. Prefix(0, [i \in 0..0 |-> <<>>])
    <3>1. \A i \in 0..0 : i = 0
      OBVIOUS
    <3> QED BY <3>1
  <2> HIDE DEF Prefix
  <2> QED BY <2>1
<1>4. \A n \in Nat : n \in D => n + 1 \in D
  <2> SUFFICES ASSUME NEW n \in Nat, n <= N => \E g : Prefix(n, g), n + 1 <= N
               PROVE  \E g : Prefix(n + 1, g)
    <3> HIDE DEF Prefix
    <3> QED OBVIOUS
  <2>1. PICK g : Prefix(n, g)
    <3> HIDE DEF Prefix, N
    <3> QED BY <1>1
  <2> DEFINE h == [i \in 0..(n + 1) |-> IF i <= n THEN g[i] ELSE Step(g, i)]
  <2>2. \A i \in 0..(n + 1) : Step(h, i) = Step(g, i)
    <3>1. \A i \in 1..(n + 1) : h[i - 1] = g[i - 1]
      OBVIOUS
    <3> HIDE DEF h
    <3> QED BY <3>1
  <2>3. \A i \in 0..n : g[i] = Step(g, i)
    BY <2>1
  <2>4. h = [i \in 0..(n + 1) |-> Step(g, i)]
    <3> HIDE DEF Step
    <3> QED BY <2>3
  <2>5. Prefix(n + 1, h)
    <3> HIDE DEF h, Step
    <3> QED BY <2>2, <2>4
  <2> QED BY <2>5
<1>5. N \in D
  <2> HIDE DEF D, N
  <2> QED BY <1>1, <1>3, <1>4, NatInduct
<1>6. Prefix(N, chain)
  <2>1. \E g : Prefix(N, g)
    BY <1>1, <1>5
  <2> HIDE DEF Prefix, chain
  <2> QED BY <1>2, <2>1
<1>7. \A i \in 0..N : chain[i] = Step(chain, i)
  <2> HIDE DEF Step, chain, N
  <2> QED BY <1>6
<1> HIDE DEF chain
<1> DEFINE Done(i) == Len(chain[i]) = i \/ Ended(answer, name, chain[i])
           E == {n \in Nat : n <= N => Walk(answer, name, chain[n]) /\ Done(n)}
<1>8. 0 \in E
  <2>1. chain[0] = <<>>
    BY <1>1, <1>7
  <2>2. Walk(answer, name, <<>>)
    BY DEF Walk, Path
  <2> HIDE DEF N
  <2> QED BY <2>1, <2>2
<1>9. \A n \in Nat : n \in E => n + 1 \in E
  <2> SUFFICES ASSUME NEW n \in Nat, n + 1 <= N, Walk(answer, name, chain[n]), Done(n)
               PROVE  Walk(answer, name, chain[n + 1]) /\ Done(n + 1)
    <3> HIDE DEF Done
    <3> QED BY <1>1
  <2>1. chain[n + 1] = Extend(answer, name, chain[n])
    <3>1. n + 1 \in 0..N /\ n + 1 # 0 /\ (n + 1) - 1 = n
      BY <1>1
    <3> HIDE DEF N
    <3> QED BY <1>7, <3>1
  <2>2. /\ Walk(answer, name, chain[n + 1])
        /\ \/ Len(chain[n + 1]) = Len(chain[n]) + 1
           \/ chain[n + 1] = chain[n] /\ Ended(answer, name, chain[n])
    BY <2>1, ExtendWalks
  <2>3. CASE chain[n + 1] = chain[n] /\ Ended(answer, name, chain[n])
    BY <2>2, <2>3
  <2>4. CASE Len(chain[n + 1]) = Len(chain[n]) + 1 /\ Len(chain[n]) = n
    BY <2>2, <2>4
  <2>5. CASE Len(chain[n + 1]) = Len(chain[n]) + 1 /\ Ended(answer, name, chain[n])
    <3>1. Extend(answer, name, chain[n]) = chain[n]
      BY ExtendStays, <2>5
    <3> QED BY <2>1, <2>2, <2>5, <3>1
  <2> QED BY <2>2, <2>3, <2>4, <2>5
<1>10. Walk(answer, name, chain[N]) /\ Done(N)
  <2> HIDE DEF E, N
  <2>1. N \in E
    BY <1>1, <1>8, <1>9, NatInduct
  <2> HIDE DEF Done
  <2> QED BY <1>1, <2>1 DEF E
<1>11. Ended(answer, name, chain[N])
  <2> SUFFICES ASSUME Len(chain[N]) = N, ~Ended(answer, name, chain[N]) PROVE FALSE
    BY <1>10
  <2> DEFINE w == Path(name, chain[N])
  <2>1. \A i \in 1..(N + 1) : w[i] \in Aliases(answer)
    <3> SUFFICES ASSUME NEW i \in 1..(N + 1) PROVE w[i] \in Aliases(answer)
      OBVIOUS
    <3>1. i \in 1..N \/ i = N + 1
      BY <1>1
    <3> HIDE DEF N
    <3> QED BY <1>10, <3>1 DEF Path, Walk, Ended
  <2>2. PICK i, j \in 1..(N + 1) : i # j /\ w[i] = w[j]
    <3> HIDE DEF w
    <3> QED BY <2>1, FewAliases
  <2>3. (i \in 1..N \/ i = N + 1) /\ (j \in 1..N \/ j = N + 1)
    BY <1>1
  <2>4. \A k, l \in 1..N : w[k] = w[l] => k = l
    <3> HIDE DEF N
    <3> QED BY <1>10 DEF Path, Walk
  <2>5. \A k \in 1..N : w[k] # w[N + 1]
    <3> HIDE DEF N
    <3> QED BY DEF Path, Ended
  <2> HIDE DEF w, N
  <2> QED BY <2>2, <2>3, <2>4, <2>5
<1> HIDE DEF chain, N
<1> QED BY <1>1, <1>10, <1>11

\* Following aliases one by one, with steps of the walk
Leads(answer, name, path, n) ==
    /\ path \in [0..n -> {name} \union Targets(answer)]
    /\ path[0] = name /\ path[n] \notin Aliases(answer)
    /\ \A i \in 0..(n - 1) : path[i] \in Aliases(answer) /\ path[i + 1] = Target(answer, path[i])

\* A chain that does not loop leads to a name that is no alias.
LEMMA ChainLeads ==
    ASSUME NEW R, NEW answer \in Seq(R), NEW name,
           ChainOf(answer, name) = <<>> \/ ~DetectLoop(ChainOf(answer, name), name)
    PROVE  LET n == Len(ChainOf(answer, name)) IN
           n \in Nat /\ \E path : Leads(answer, name, path, n)
<1> DEFINE chain == ChainOf(answer, name)
           n == Len(chain)
           w == Path(name, chain)
           path == [i \in 0..n |-> w[i + 1]]
           All == {name} \union Targets(answer)
<1>1. Walk(answer, name, chain) /\ Ended(answer, name, chain)
  BY ChainWalks
<1> HIDE DEF chain
<1>2. chain \in Seq(Targets(answer)) /\ n \in Nat
  BY <1>1 DEF Walk
<1>3. /\ Len(w) = n + 1 /\ w[1] = name /\ \A i \in 1..n : w[i + 1] = chain[i]
      /\ Last(w) = w[n + 1]
      /\ \A x : x \in ToSet(Front(w)) <=> \E i \in 1..n : x = w[i]
  <2>1. /\ Len(w) = Len(chain) + 1
        /\ w[1] = name /\ \A i \in 1..Len(chain) : w[i + 1] = chain[i]
        /\ Last(w) = w[Len(chain) + 1]
        /\ \A x : x \in ToSet(Front(w)) <=> \E i \in 1..Len(chain) : x = w[i]
    <3>1. w = Path(name, chain) /\ chain \in Seq(Targets(answer))
      BY <1>2 DEF Path
    <3> HIDE DEF w
    <3> QED BY <3>1, Walked
  <2> QED BY <2>1
<1>4. ~(\E i \in 1..n : w[i] = w[n + 1])
  <2>1. CASE chain = <<>>
    <3>1. n = 0
      BY <2>1
    <3> HIDE DEF n
    <3> QED BY <3>1
  <2>2. CASE ~DetectLoop(chain, name)
    <3>1. Last(w) \notin ToSet(Front(w))
      BY <2>2 DEF DetectLoop, Path
    <3> HIDE DEF w
    <3> QED BY <1>3, <3>1
  <2> QED BY <2>1, <2>2 DEF chain
<1>5. w[n + 1] \notin Aliases(answer)
  BY <1>1, <1>4 DEF Ended
<1>6. \A i \in 1..n : w[i] \in Aliases(answer) /\ w[i + 1] = Target(answer, w[i])
  BY <1>1 DEF Walk
<1>7. path \in [0..n -> All]
  <2> SUFFICES ASSUME NEW i \in 0..n PROVE w[i + 1] \in All
    <3> HIDE DEF w, All
    <3> QED OBVIOUS
  <2>1. CASE i = 0
    <3> HIDE DEF w, n
    <3> QED BY <1>3, <2>1
  <2>2. CASE i # 0
    <3>1. i \in 1..n
      BY <1>2, <2>2
    <3>2. chain[i] \in Targets(answer)
      BY <1>2, <3>1
    <3> HIDE DEF w, n
    <3> QED BY <1>3, <3>1, <3>2
  <2> QED BY <2>1, <2>2
<1>8. path[0] = name /\ path[n] \notin Aliases(answer)
  <2>1. 0 \in 0..n /\ n \in 0..n /\ 0 + 1 = 1
    BY <1>2
  <2> HIDE DEF w, n
  <2> QED BY <1>3, <1>5, <2>1
<1>9. \A i \in 0..(n - 1) : path[i] \in Aliases(answer) /\ path[i + 1] = Target(answer, path[i])
  <2> SUFFICES ASSUME NEW i \in 0..(n - 1)
               PROVE  path[i] \in Aliases(answer) /\ path[i + 1] = Target(answer, path[i])
    OBVIOUS
  <2>1. i \in 0..n /\ i + 1 \in 0..n /\ i + 1 \in 1..n
    BY <1>2
  <2> HIDE DEF w, n
  <2> QED BY <1>6, <2>1
<1>10. Leads(answer, name, path, n)
  <2> HIDE DEF path, n
  <2> QED BY <1>7, <1>8, <1>9 DEF Leads
<1> QED BY <1>2, <1>10 DEF chain

\* From a chain that loops no number of steps leads to a name that is no alias.
LEMMA LoopLeadsNowhere ==
    ASSUME NEW R, NEW answer \in Seq(R), NEW name, DetectLoop(ChainOf(answer, name), name),
           ChainOf(answer, name) # <<>>, NEW l \in Nat, NEW path, Leads(answer, name, path, l)
    PROVE  FALSE
<1> DEFINE chain == ChainOf(answer, name)
           n == Len(chain)
           w == Path(name, chain)
           D == {i \in Nat : i <= l => \E j \in 1..n : path[i] = w[j]}
<1>1. Walk(answer, name, chain)
  BY ChainWalks
<1> HIDE DEF chain
<1>2. chain \in Seq(Targets(answer)) /\ n \in Nat
  BY <1>1 DEF Walk
<1>3. /\ w[1] = name /\ Last(w) = w[n + 1]
      /\ \A x : x \in ToSet(Front(w)) <=> \E i \in 1..n : x = w[i]
  <2>1. w = Path(name, chain)
    BY DEF Path
  <2> HIDE DEF w
  <2> QED BY <1>2, <2>1, Walked
<1>4. PICK k \in 1..n : w[k] = w[n + 1]
  <2>1. Last(w) \in ToSet(Front(w))
    BY DEF DetectLoop, Path, chain
  <2> HIDE DEF w
  <2> QED BY <1>3, <2>1
<1>5. n # 0
  BY <1>2 DEF chain
<1>6. \A i \in 1..n : w[i] \in Aliases(answer) /\ w[i + 1] = Target(answer, w[i])
  BY <1>1 DEF Walk
<1> HIDE DEF w, n
<1>7. 0 \in D
  BY <1>2, <1>3, <1>5 DEF Leads
<1>8. \A i \in Nat : i \in D => i + 1 \in D
  <2> SUFFICES ASSUME NEW i \in Nat, i + 1 <= l, NEW j \in 1..n, path[i] = w[j]
               PROVE  \E h \in 1..n : path[i + 1] = w[h]
    OBVIOUS
  <2>1. path[i + 1] = w[j + 1]
    <3>1. i \in 0..(l - 1)
      OBVIOUS
    <3> QED BY <1>6, <3>1 DEF Leads
  <2>2. j + 1 \in 1..n \/ j = n
    BY <1>2
  <2> QED BY <1>4, <2>1, <2>2
<1>9. PICK j \in 1..n : path[l] = w[j]
  <2>1. l \in D
    <3> HIDE DEF D
    <3> QED BY <1>7, <1>8, NatInduct
  <2> QED BY <2>1
<1> QED BY <1>6, <1>9 DEF Leads

(* DetectLoop, on the chain that extractCNAMEChain has cut off, is exact: it  *)
(* reports the chains of aliases without an end, all of them and no others.   *)
THEOREM LoopDetectionIsExact ==
    ASSUME NEW R, NEW answer \in Seq(R), NEW name, ChainOf(answer, name) # <<>>
    PROVE  DetectLoop(ChainOf(answer, name), name) <=>
              ~\E n \in Nat : \E path : Leads(answer, name, path, n)
<1>1. ASSUME DetectLoop(ChainOf(answer, name), name), NEW n \in Nat, NEW path, Leads(answer, name, path, n)
      PROVE  FALSE
  BY <1>1, LoopLeadsNowhere
<1>2. ASSUME ~DetectLoop(ChainOf(answer, name), name)
      PROVE  \E n \in Nat : \E path : Leads(answer, name, path, n)
  BY <1>2, ChainLeads
<1> QED BY <1>1, <1>2

\* A chain that neither loops nor is too long resolves the question's name.
LEMMA ChainResolves ==
    ASSUME NEW R, NEW m, m.answer \in Seq(R), NEW name, ~BadChain(m, name)
    PROVE  Resolves(m.answer, name)
<1> DEFINE chain == ChainOf(m.answer, name)
           n == Len(chain)
<1>1. chain = <<>> \/ (~DetectLoop(chain, name) /\ ~(n > MaxChainDepth))
  BY DEF BadChain
<1>2. n \in Nat /\ \E path : Leads(m.answer, name, path, n)
  BY <1>1, ChainLeads
<1>3. n <= MaxChainDepth
  <2>1. chain = <<>> => n = 0
    OBVIOUS
  <2> HIDE DEF n
  <2> QED BY <1>1, <1>2, <2>1, AnswersAssumption
<1> HIDE DEF n
<1>4. n \in 0..MaxChainDepth
  BY <1>2, <1>3, AnswersAssumption
<1> QED BY <1>2, <1>4 DEF Resolves, Leads, Targets

\* A name that is an alias starts a chain.
LEMMA AliasHasChain ==
    ASSUME NEW R, NEW answer \in Seq(R), NEW name \in Aliases(answer)
    PROVE  ChainOf(answer, name) # <<>>
<1> SUFFICES ASSUME ChainOf(answer, name) = <<>> PROVE FALSE
  OBVIOUS
<1>1. Ended(answer, name, <<>>)
  BY ChainWalks
<1>2. Path(name, <<>>)[Len(<<>>) + 1] = name
  BY DEF Path
<1>3. 1..Len(<<>>) = {}
  OBVIOUS
<1> QED BY <1>1, <1>2, <1>3 DEF Ended

\* An answer that neither ValidateResponse nor the CNAME checks object to fits
\* its question.
LEMMA SoundAnswerFits ==
    ASSUME NEW R, NEW m, m.answer \in Seq(R), NEW q, q.name \in Seq(STRING),
           ~Malformed(m, q), ~BadChain(m, q.name)
    PROVE  FitsQuestion(m, q)
<1> DEFINE addresses == {i \in DOMAIN m.answer : m.answer[i].type \in Addresses}
<1>1. Resolves(m.answer, q.name)
  BY ChainResolves
<1>2. ASSUME m.rcode = "ok", q.name \in Aliases(m.answer) PROVE addresses # {}
  <2>1. ChainOf(m.answer, q.name) # <<>>
    BY <1>2, AliasHasChain
  <2>2. ~IsDangling(m)
    BY <2>1 DEF BadChain
  <2> QED BY <1>2, <2>2 DEF IsDangling
<1>3. IsSuffix(q.name, q.name)
  <2> DEFINE s == Reverse(q.name)
  <2>1. s = SubSeq(s, 1, Len(s)) /\ Len(s) <= Len(s)
    BY DEF Reverse
  <2> HIDE DEF s
  <2>2. IsPrefix(s, s)
    BY <2>1 DEF IsPrefix
  <2> QED BY <2>2 DEF IsSuffix, s
<1>4. ASSUME NEW i \in addresses
      PROVE  \/ IsSuffix(q.name, m.answer[i].owner)
             \/ \E j \in 1..(i - 1) :
                   m.answer[j].type = "CNAME" /\ m.answer[j].target = m.answer[i].owner
  <2>1. ~Misplaced(m, q, i) /\ i \in DOMAIN m.answer
    BY DEF Malformed
  <2>2. m.answer[i].type \notin {"CNAME", "SOA"}
    BY DEF Addresses
  <2>3. \/ m.answer[i].owner = q.name
        \/ m.answer[i].owner \in TargetsUpTo(m.answer, i)
        \/ IsSubdomainOf(m.answer[i].owner, q.name)
    BY <2>1, <2>2 DEF Misplaced
  <2>4. CASE m.answer[i].owner = q.name \/ IsSubdomainOf(m.answer[i].owner, q.name)
    BY <1>3, <2>4 DEF IsSubdomainOf
  <2>5. CASE m.answer[i].owner \in TargetsUpTo(m.answer, i)
    <3>1. PICK j \in 1..i : m.answer[j].type = "CNAME" /\ m.answer[i].owner = m.answer[j].target
      BY <2>5 DEF TargetsUpTo
    <3>2. j # i
      BY <2>2, <3>1
    <3>3. i \in Int
      BY <2>1
    <3>4. j \in 1..(i - 1)
      BY <3>2, <3>3
    <3> QED BY <3>1, <3>4
  <2> QED BY <2>3, <2>4, <2>5
<1> QED BY <1>1, <1>2, <1>4 DEF FitsQuestion

(* With malformed responses and bad CNAME chains rejected, no client gets a   *)
(* response whose aliases do not end, or end in nothing, or whose addresses   *)
(* are of a name the question has not led to: ValidateResponse and the CNAME  *)
(* checks together exclude it, for every message, at two stages of handleDNS. *)
THEOREM AnswersFitTheirQuestions == Spec => []AnswersFit
<1>1. PipelineInv => AnswersFit
  <2> SUFFICES ASSUME PipelineInv, {"malformed", "cname"} \subseteq config.rejects, NEW q \in Queries,
                      NEW i \in PassedOn(q), NEW r \in replies[q][i].response,
                      <<r.rcode, r.flaws \intersect ContentFlaws>> \in UnfitVerdicts
               PROVE  FALSE
    BY DEF AnswersFit
  <2>1. Faults(r) = {}
    BY DEF PipelineInv, QueryInv, Vetted
  <2>2. "malformed" \notin r.flaws /\ "cname" \notin r.flaws
    BY <2>1 DEF Faults
  <2>3. PICK m \in Messages : ~FitsQuestion(m, Question) /\ <<r.rcode, r.flaws \intersect ContentFlaws>> = Verdict(m)
    BY DEF UnfitVerdicts
  <2>4. r.flaws \intersect ContentFlaws = FlawsOf(m, Question)
    BY <2>3 DEF Verdict
  <2>5. "malformed" \notin FlawsOf(m, Question) /\ "cname" \notin FlawsOf(m, Question)
    BY <2>2, <2>4
  <2>6. ~Malformed(m, Question) /\ ~BadChain(m, Question.name)
    BY <2>5 DEF FlawsOf
  <2>7. m.answer \in Seq(Records) /\ Question.name \in Seq(STRING)
    BY AnswersAssumption
  <2> QED BY <2>3, <2>6, <2>7, SoundAnswerFits
<1> QED BY <1>1, PipelineInvHolds, PTL

-----------------------------------------------------------------------------
(* Apex domains.                                                             *)

\* Sequences of labels are names with the same labels.
LEMMA SameLabels ==
    ASSUME NEW s \in Seq(STRING), NEW t \in Seq(STRING), Len(s) = Len(t),
           \A i \in 1..Len(s) : s[i] = t[i]
    PROVE  s = t
OBVIOUS

\* The last labels of a name, one by one
LEMMA LastLabelsAre ==
    ASSUME NEW name \in Seq(STRING), NEW n \in Nat, n <= Len(name)
    PROVE  /\ LastLabels(name, n) \in Seq(STRING) /\ Len(LastLabels(name, n)) = n
           /\ \A i \in 1..n : LastLabels(name, n)[i] = name[Len(name) - n + i]
<1> DEFINE L == Len(name)
<1>1. L \in Nat /\ L - n + 1 \in Nat /\ L - n + 1 >= 1 /\ L - (L - n + 1) + 1 = n
  OBVIOUS
<1>2. \A i \in 1..n : i \in 1..(L - (L - n + 1) + 1) /\ i + (L - n + 1) - 1 = L - n + i
  BY <1>1
<1> QED BY <1>1, <1>2 DEF LastLabels

\* A suffix is what its name says.
LEMMA SuffixLabels ==
    ASSUME NEW a \in Seq(STRING), NEW s \in Seq(STRING), IsSuffix(a, s)
    PROVE  Len(a) <= Len(s) /\ LastLabels(s, Len(a)) = a
<1> DEFINE A == Reverse(a)
           S == Reverse(s)
           n == Len(a)
           m == Len(s)
<1>1. n \in Nat /\ m \in Nat
  OBVIOUS
<1>2. /\ A \in Seq(STRING) /\ Len(A) = n /\ \A j \in 1..n : A[j] = a[n - j + 1]
      /\ S \in Seq(STRING) /\ Len(S) = m /\ \A j \in 1..m : S[j] = s[m - j + 1]
  BY DEF Reverse
<1>3. Len(A) <= Len(S) /\ SubSeq(A, 1, Len(A)) = SubSeq(S, 1, Len(A))
  BY DEF IsSuffix, IsPrefix
<1> HIDE DEF A, S, n, m
<1>4. n <= m
  BY <1>2, <1>3
<1>5. \A j \in 1..n : A[j] = S[j]
  <2> SUFFICES ASSUME NEW j \in 1..n PROVE A[j] = S[j]
    OBVIOUS
  <2>1. SubSeq(A, 1, n)[j] = A[j] /\ SubSeq(S, 1, n)[j] = S[j]
    BY <1>1, <1>2, <1>4
  <2>2. SubSeq(A, 1, n) = SubSeq(S, 1, n)
    BY <1>2, <1>3
  <2> QED BY <2>1, <2>2
<1>6. \A i \in 1..n : s[m - n + i] = a[i]
  <2> SUFFICES ASSUME NEW i \in 1..n PROVE s[m - n + i] = a[i]
    OBVIOUS
  <2>1. n - i + 1 \in 1..n /\ n - i + 1 \in 1..m /\ n - (n - i + 1) + 1 = i /\ m - (n - i + 1) + 1 = m - n + i
    BY <1>1, <1>4
  <2>2. A[n - i + 1] = a[i]
    BY <1>2, <2>1
  <2>3. S[n - i + 1] = s[m - n + i]
    BY <1>2, <2>1
  <2> QED BY <1>5, <2>1, <2>2, <2>3
<1>7. /\ LastLabels(s, n) \in Seq(STRING) /\ Len(LastLabels(s, n)) = n
      /\ \A i \in 1..n : LastLabels(s, n)[i] = s[m - n + i]
  BY <1>1, <1>4, LastLabelsAre DEF n, m
<1>8. LastLabels(s, n) = a
  <2>1. a \in Seq(STRING) /\ n = Len(a)
    BY DEF n
  <2> QED BY <1>6, <1>7, <2>1, SameLabels
<1> QED BY <1>4, <1>8 DEF n, m

\* The last labels of the last labels
LEMMA LastOfLast ==
    ASSUME NEW name \in Seq(STRING), NEW n \in Nat, n <= Len(name), NEW k \in Nat, k <= n
    PROVE  LastLabels(LastLabels(name, n), k) = LastLabels(name, k)
<1> DEFINE l == LastLabels(name, n)
           L == Len(name)
<1>1. L \in Nat /\ k <= L
  OBVIOUS
<1>2. l \in Seq(STRING) /\ Len(l) = n /\ \A i \in 1..n : l[i] = name[L - n + i]
  BY LastLabelsAre
<1>3. /\ LastLabels(name, k) \in Seq(STRING) /\ Len(LastLabels(name, k)) = k
      /\ \A i \in 1..k : LastLabels(name, k)[i] = name[L - k + i]
  BY <1>1, LastLabelsAre
<1> HIDE DEF l, L
<1>4. /\ LastLabels(l, k) \in Seq(STRING) /\ Len(LastLabels(l, k)) = k
      /\ \A i \in 1..k : LastLabels(l, k)[i] = l[n - k + i]
  BY <1>2, LastLabelsAre
<1>5. \A i \in 1..k : LastLabels(l, k)[i] = LastLabels(name, k)[i]
  <2> SUFFICES ASSUME NEW i \in 1..k PROVE LastLabels(l, k)[i] = LastLabels(name, k)[i]
    OBVIOUS
  <2>1. n - k + i \in 1..n /\ L - n + (n - k + i) = L - k + i
    BY <1>1
  <2> QED BY <1>2, <1>3, <1>4, <2>1
<1>6. LastLabels(l, k) = LastLabels(name, k)
  BY <1>3, <1>4, <1>5, SameLabels
<1> QED BY <1>6 DEF l

(* However deep a name is nested in a domain, its apex domain is that of the *)
(* domain: the targets CrossBailiwick reports lie outside the domain asked,   *)
(* and what is kept per apex domain is kept for all the names in it.          *)
THEOREM ApexOfSubdomain ==
    ASSUME NEW name \in Seq(STRING), Len(name) >= 3, NEW sub \in Seq(STRING),
           IsSubdomainOf(sub, ExtractApexDomain(name))
    PROVE  ExtractApexDomain(sub) = ExtractApexDomain(name)
<1> DEFINE k == IF LastLabels(name, 2) \in MultiPartTLDs THEN 3 ELSE 2
           apex == LastLabels(name, k)
<1>1. ExtractApexDomain(name) = apex
  <2>1. Len(name) \in Nat /\ ~(Len(name) <= 2)
    OBVIOUS
  <2> QED BY <2>1 DEF ExtractApexDomain
<1>2. k \in {2, 3} /\ k \in Nat /\ k <= Len(name) /\ 2 <= k /\ 2 \in Nat
  OBVIOUS
<1>3. apex \in Seq(STRING) /\ Len(apex) = k
  <2> HIDE DEF k
  <2> QED BY <1>2, LastLabelsAre
<1>4. LastLabels(apex, 2) = LastLabels(name, 2)
  <2> HIDE DEF k
  <2> QED BY <1>2, LastOfLast
<1>5. LastLabels(apex, k) = apex
  <2> HIDE DEF k
  <2> QED BY <1>2, LastOfLast
<1> HIDE DEF apex
<1>6. Len(sub) >= k /\ LastLabels(sub, k) = apex
  <2>1. CASE sub = apex
    <3> HIDE DEF k
    <3> QED BY <1>2, <1>3, <1>5, <2>1
  <2>2. CASE IsSuffix(apex, sub)
    <3>1. Len(apex) <= Len(sub) /\ LastLabels(sub, Len(apex)) = apex
      BY <1>3, <2>2, SuffixLabels
    <3> HIDE DEF k
    <3> QED BY <1>2, <1>3, <3>1
  <2> QED BY <1>1, <2>1, <2>2 DEF IsSubdomainOf
<1>7. LastLabels(sub, 2) = LastLabels(name, 2)
  <2>1. LastLabels(LastLabels(sub, k), 2) = LastLabels(sub, 2)
    <3> HIDE DEF k
    <3>1. k <= Len(sub)
      BY <1>2, <1>6
    <3> QED BY <1>2, <3>1, LastOfLast
  <2> HIDE DEF k
  <2> QED BY <1>4, <1>6, <2>1
<1>8. CASE Len(sub) <= 2
  <2>1. k = 2 /\ Len(sub) = 2
    <3>1. Len(sub) \in Nat
      OBVIOUS
    <3> DEFINE n == Len(sub)
    <3>2. n \in Nat /\ n <= 2 /\ n >= k
      BY <1>6, <1>8, <3>1
    <3> HIDE DEF k, n
    <3>3. k = 2 \/ k = 3
      BY <1>2
    <3>4. k = 2 /\ n = 2
      BY <3>2, <3>3
    <3> QED BY <3>4 DEF n
  <2>2. LastLabels(sub, 2) = sub
    <3>1. 2 \in Nat /\ 2 <= Len(sub)
      BY <2>1
    <3>2. /\ LastLabels(sub, 2) \in Seq(STRING) /\ Len(LastLabels(sub, 2)) = 2
          /\ \A i \in 1..2 : LastLabels(sub, 2)[i] = sub[Len(sub) - 2 + i]
      BY <3>1, LastLabelsAre
    <3>3. \A i \in 1..2 : Len(sub) - 2 + i = i
      BY <2>1
    <3> QED BY <2>1, <3>2, <3>3, SameLabels
  <2>3. ExtractApexDomain(sub) = sub
    BY <1>8 DEF ExtractApexDomain
  <2>4. sub = apex
    <3> HIDE DEF k
    <3> QED BY <1>6, <2>1, <2>2
  <2> QED BY <1>1, <2>3, <2>4
<1>9. CASE ~(Len(sub) <= 2)
  BY <1>1, <1>6, <1>7, <1>9 DEF ExtractApexDomain
<1> QED BY <1>8, <1>9

-----------------------------------------------------------------------------
(* Blocklists.                                                               *)

\* The last labels of a name are a suffix of it.
LEMMA LastIsSuffix ==
    ASSUME NEW s \in Seq(STRING), NEW n \in Nat, n <= Len(s)
    PROVE  IsSuffix(LastLabels(s, n), s)
<1> DEFINE a == LastLabels(s, n)
           A == Reverse(a)
           S == Reverse(s)
           m == Len(s)
<1>0. m \in Nat /\ n <= m
  OBVIOUS
<1>1. /\ m \in Nat /\ n <= m /\ a \in Seq(STRING) /\ Len(a) = n
      /\ \A i \in 1..n : a[i] = s[m - n + i]
  <2>1. /\ LastLabels(s, n) \in Seq(STRING) /\ Len(LastLabels(s, n)) = n
        /\ \A i \in 1..n : LastLabels(s, n)[i] = s[Len(s) - n + i]
    <3> HIDE DEF a, A, S, m
    <3> QED BY LastLabelsAre
  <2> QED BY <1>0, <2>1
<1> HIDE DEF a
<1>2. /\ A \in Seq(STRING) /\ Len(A) = n /\ \A j \in 1..n : A[j] = a[n - j + 1]
      /\ S \in Seq(STRING) /\ Len(S) = m /\ \A j \in 1..m : S[j] = s[m - j + 1]
  BY <1>1 DEF Reverse
<1> HIDE DEF A, S, m
<1>3. \A j \in 1..n : A[j] = S[j]
  <2> SUFFICES ASSUME NEW j \in 1..n PROVE A[j] = S[j]
    OBVIOUS
  <2>1. n - j + 1 \in 1..n /\ j \in 1..m /\ m - n + (n - j + 1) = m - j + 1
    BY <1>1
  <2>2. A[j] = a[n - j + 1]
    BY <1>2
  <2>3. S[j] = s[m - j + 1]
    BY <1>2, <2>1
  <2>4. a[n - j + 1] = s[m - j + 1]
    BY <1>1, <2>1
  <2> QED BY <2>2, <2>3, <2>4
<1>4. SubSeq(A, 1, n) = SubSeq(S, 1, n)
  <2>1. \A T \in Seq(STRING) : n <= Len(T) =>
            /\ SubSeq(T, 1, n) \in Seq(STRING) /\ Len(SubSeq(T, 1, n)) = n
            /\ \A j \in 1..n : SubSeq(T, 1, n)[j] = T[j]
    OBVIOUS
  <2>2. n <= Len(A) /\ n <= Len(S)
    BY <1>1, <1>2
  <2> DEFINE X == SubSeq(A, 1, n)
             Y == SubSeq(S, 1, n)
  <2>3. /\ X \in Seq(STRING) /\ Len(X) = n /\ Y \in Seq(STRING) /\ Len(Y) = n
        /\ \A j \in 1..n : X[j] = A[j] /\ Y[j] = S[j]
    BY <1>2, <2>1, <2>2
  <2> HIDE DEF X, Y
  <2>4. X = Y
    BY <1>3, <2>3, SameLabels
  <2> QED BY <2>4 DEF X, Y
<1>5. IsPrefix(A, S)
  BY <1>1, <1>2, <1>4 DEF IsPrefix
<1> QED BY <1>5 DEF IsSuffix, A, S, a

\* What lies below a name, by the number of labels
LEMMA BelowLabels ==
    ASSUME NEW p \in Seq(STRING), NEW s \in Seq(STRING)
    PROVE  IsStrictSuffix(p, s) <=> Len(p) < Len(s) /\ LastLabels(s, Len(p)) = p
<1> DEFINE n == Len(p)
           m == Len(s)
<1>1. n \in Nat /\ m \in Nat
  OBVIOUS
<1>2. ASSUME IsStrictSuffix(p, s) PROVE n < m /\ LastLabels(s, n) = p
  <2>1. n <= m /\ LastLabels(s, n) = p /\ p # s
    BY <1>2, SuffixLabels DEF IsStrictSuffix
  <2>2. n # m
    <3> SUFFICES ASSUME n = m PROVE FALSE
      OBVIOUS
    <3>1. \A i \in 1..n : LastLabels(s, n)[i] = s[m - n + i]
      BY <1>1, <2>1, LastLabelsAre
    <3>2. \A i \in 1..n : m - n + i = i
      BY <1>1
    <3>3. \A i \in 1..n : p[i] = s[i]
      BY <2>1, <3>1, <3>2
    <3> QED BY <2>1, <3>3, SameLabels
  <2> HIDE DEF n, m
  <2> QED BY <1>1, <2>1, <2>2
<1>3. ASSUME n < m, LastLabels(s, n) = p PROVE IsStrictSuffix(p, s)
  <2>1. n <= m /\ p # s
    BY <1>1, <1>3
  <2> QED BY <1>1, <1>3, <2>1, LastIsSuffix DEF IsStrictSuffix
<1> QED BY <1>2, <1>3

(* IsBlocked's loop over the parents matches what the lists stand for: a name *)
(* is blocked exactly when it is not allowed by name and some line is the name *)
(* or a star before two labels or more that the name is below, at any depth;  *)
(* and a star before a single label, "*.zip", blocks nothing.                 *)
THEOREM BlockedIsCovered ==
    ASSUME NEW lines \in SUBSET Seq(STRING), NEW spared, NEW domain \in Seq(STRING)
    PROVE  IsBlocked(domain, lines, spared) <=>
               domain \notin spared /\ \E e \in lines : Covers(e, domain)
<1> DEFINE L == Len(domain)
<1>1. L \in Nat
  OBVIOUS
<1>2. ASSUME NEW e \in lines, Wild(e)
      PROVE  Tail(e) \in Seq(STRING) /\ Len(e) \in Nat /\ Len(Tail(e)) = Len(e) - 1
  <2>1. e \in Seq(STRING) /\ Len(e) > 1
    BY <1>2 DEF Wild
  <2>2. e # <<>>
    BY <2>1
  <2> QED BY <2>1, <2>2
<1>3. ASSUME NEW i \in 1..(L - 2)
      PROVE  /\ L - i \in Nat /\ L - i >= 2 /\ L - i < L
             /\ From(domain, i) = LastLabels(domain, L - i) /\ Len(From(domain, i)) = L - i
  <2>1. L - i \in Nat /\ L - i >= 2 /\ L - i < L /\ L - (L - i) + 1 = i + 1
    BY <1>1
  <2>2. From(domain, i) = LastLabels(domain, L - i)
    BY <2>1 DEF From, LastLabels
  <2> DEFINE k == L - i
  <2>3. k \in Nat /\ k <= Len(domain) /\ From(domain, i) = LastLabels(domain, k)
    BY <2>1, <2>2
  <2>4. Len(LastLabels(domain, k)) = k
    <3> HIDE DEF k
    <3> QED BY <2>3, LastLabelsAre
  <2> QED BY <2>1, <2>2, <2>4
<1>4. ASSUME NEW e \in lines, Wild(e), NEW i \in 1..(L - 2), From(domain, i) = Tail(e)
      PROVE  Covers(e, domain)
  <2>1. Len(Tail(e)) = L - i /\ Len(Tail(e)) < L /\ LastLabels(domain, Len(Tail(e))) = Tail(e)
    BY <1>3, <1>4
  <2>2. IsStrictSuffix(Tail(e), domain)
    BY <1>2, <1>4, <2>1, BelowLabels
  <2>3. Len(e) > 2
    <3>1. Len(e) \in Nat /\ Len(Tail(e)) = Len(e) - 1 /\ Len(Tail(e)) >= 2
      BY <1>2, <1>3, <1>4, <2>1
    <3> DEFINE k == Len(e)
    <3>2. k \in Nat /\ k - 1 >= 2
      BY <3>1
    <3>3. k > 2
      <4> HIDE DEF k
      <4> QED BY <3>2
    <3> QED BY <3>3
  <2> QED BY <1>4, <2>2, <2>3 DEF Covers
<1>5. ASSUME NEW e \in lines, Wild(e), Covers(e, domain)
      PROVE  \E i \in 1..(L - 2) : From(domain, i) = Tail(e)
  <2> DEFINE n == Len(Tail(e))
  <2>1. Len(e) > 2 /\ IsStrictSuffix(Tail(e), domain)
    BY <1>5 DEF Covers
  <2>2. n < L /\ LastLabels(domain, n) = Tail(e)
    BY <1>2, <1>5, <2>1, BelowLabels
  <2>3. n \in Nat /\ n >= 2
    <3> DEFINE k == Len(e)
    <3>1. k \in Nat /\ k > 2 /\ n = k - 1
      BY <1>2, <1>5, <2>1
    <3> HIDE DEF k, n
    <3> QED BY <3>1
  <2>4. L - n \in 1..(L - 2) /\ L - (L - n) = n
    <3> HIDE DEF L, n
    <3> QED BY <1>1, <2>2, <2>3
  <2>5. From(domain, L - n) = Tail(e)
    BY <1>3, <2>2, <2>4
  <2> QED BY <2>4, <2>5
<1> HIDE DEF L
<1>6. domain \in Exact(lines) <=> \E e \in lines : ~Wild(e) /\ Covers(e, domain)
  BY DEF Exact, Covers
<1>7. (\E i \in 1..(L - 2) : From(domain, i) \in Wildcard(lines)) <=>
          \E e \in lines : Wild(e) /\ Covers(e, domain)
  BY <1>4, <1>5 DEF Wildcard
<1>8. IsBlocked(domain, lines, spared) <=>
          /\ domain \notin spared
          /\ \/ domain \in Exact(lines)
             \/ \E i \in 1..(L - 2) : From(domain, i) \in Wildcard(lines)
  BY DEF IsBlocked, L
<1> QED BY <1>6, <1>7, <1>8

(* Nobody escapes a star by going deeper: below a name that a line covers     *)
(* without naming it, IsBlocked blocks every name that is not itself allowed. *)
(* An allowed name in between lets none of those below it through.            *)
THEOREM BlockedBelow ==
    ASSUME NEW lines \in SUBSET Seq(STRING), NEW spared, NEW domain \in Seq(STRING),
           NEW other, IsBlocked(domain, lines, other), domain \notin lines,
           NEW sub \in Seq(STRING), IsSuffix(domain, sub), sub \notin spared
    PROVE  IsBlocked(sub, lines, spared)
<1>1. PICK e \in lines : Covers(e, domain)
  BY BlockedIsCovered
<1>2. Wild(e) /\ Len(e) > 2 /\ IsStrictSuffix(Tail(e), domain)
  BY <1>1 DEF Covers
<1> DEFINE p == Tail(e)
           n == Len(p)
           k == Len(domain)
           m == Len(sub)
<1>3. p \in Seq(STRING) /\ n \in Nat /\ k \in Nat /\ m \in Nat
  <2>1. e \in Seq(STRING) /\ e # <<>>
    BY <1>2
  <2>2. p \in Seq(STRING)
    BY <2>1
  <2> QED BY <2>2
<1>4. n < k /\ LastLabels(domain, n) = p
  BY <1>2, <1>3, BelowLabels
<1>5. k <= m /\ LastLabels(sub, k) = domain
  BY SuffixLabels
<1>6. n < m /\ n <= k
  <2> HIDE DEF n, k, m
  <2> QED BY <1>3, <1>4, <1>5
<1>7. LastLabels(sub, n) = p
  BY <1>3, <1>4, <1>5, <1>6, LastOfLast
<1>8. IsStrictSuffix(p, sub)
  BY <1>3, <1>6, <1>7, BelowLabels
<1>9. Covers(e, sub)
  BY <1>2, <1>8 DEF Covers
<1> QED BY <1>1, <1>9, BlockedIsCovered

-----------------------------------------------------------------------------
(* What keeps a handler going.                                               *)

\* A response is missing only where no plain upstream is configured, and past
\* ValidateResponse only where that does not block either.
NilInv ==
    /\ config.upstream => \A q \in Queries : pc[q] = "validate" => resp[q] # {}
    /\ config.upstream \/ "malformed" \in config.rejects =>
          /\ \A q \in Queries : pc[q] \in {"record", "vet", "store", "send"} => resp[q] # {}
          /\ ~crashed

\* A handler's own step, seen from the others
LEMMA HandlerAlone ==
    ASSUME HandlerTypes, NEW q \in Queries, Handle(q)
    PROVE  UNCHANGED config /\ \A p \in Queries \ {q} : pc'[p] = pc[p] /\ resp'[p] = resp[p]
<1>1. UNCHANGED config
  BY DEF Handle, Local, BlockTransfer, CheckBlocklist, CheckName, CheckFlood, LookUp,
         ForwardDoH, ForwardPlain, Validate, Record, Vet, Store, Send
<1>2. pc' = pc \/ \E stage \in Stages : pc' = [pc EXCEPT ![q] = stage]
  BY DEF Handle, Goto, Checked, After, Stages, BlockTransfer, CheckBlocklist, CheckName, CheckFlood,
         LookUp, ForwardDoH, ForwardPlain, Race, Obtains, Validate, Record, Vet, Store, Send
<1>3. resp' = resp \/ \E rs : resp' = [resp EXCEPT ![q] = rs]
  BY DEF Handle, Local, BlockTransfer, CheckBlocklist, CheckName, CheckFlood, LookUp,
         ForwardDoH, ForwardPlain, Race, Obtains, Validate, Record, Vet, Store, Send
<1>4. \A p \in Queries \ {q} : pc'[p] = pc[p]
  BY <1>2 DEF HandlerTypes
<1>5. \A p \in Queries \ {q} : resp'[p] = resp[p]
  BY <1>3 DEF HandlerTypes
<1> QED BY <1>1, <1>4, <1>5

\* The handler's stages keep NilInv.
LEMMA NilStep ==
    ASSUME HandlerTypes, NilInv, NEW q \in Queries, Handle(q)
    PROVE  NilInv'
<1>1. UNCHANGED config /\ \A p \in Queries \ {q} : pc'[p] = pc[p] /\ resp'[p] = resp[p]
  BY HandlerAlone
<1> DEFINE Guarded == config.upstream \/ "malformed" \in config.rejects
           Fine == /\ config.upstream => (pc'[q] = "validate" => resp'[q] # {})
                   /\ Guarded => /\ pc'[q] \in {"record", "vet", "store", "send"} => resp'[q] # {}
                                 /\ ~crashed'
<1>2. ASSUME Fine PROVE NilInv'
  BY <1>1, <1>2 DEF NilInv
<1>3. pc[q] \in Stages /\ pc' \in [Queries -> Stages]
  <2>1. pc' = pc \/ \E stage \in Stages : pc' = [pc EXCEPT ![q] = stage]
    BY DEF Handle, Goto, Checked, After, Stages, BlockTransfer, CheckBlocklist, CheckName, CheckFlood,
           LookUp, ForwardDoH, ForwardPlain, Race, Obtains, Validate, Record, Vet, Store, Send
  <2> QED BY <2>1 DEF HandlerTypes
<1>4. CASE BlockTransfer(q) \/ CheckBlocklist(q) \/ CheckName(q) \/ CheckFlood(q)
  BY <1>2, <1>4 DEF BlockTransfer, CheckBlocklist, CheckName, CheckFlood, Checked, At, Goto, After,
                    Local, HandlerTypes, NilInv
<1>5. CASE LookUp(q)
  BY <1>2, <1>5 DEF LookUp, At, Goto, After, HandlerTypes, NilInv
<1>6. CASE ForwardDoH(q)
  <2>1. PICK r \in Responses : /\ pc' = [pc EXCEPT ![q] = "validate"]
                               /\ resp' = [resp EXCEPT ![q] = {r}]
    BY <1>6 DEF ForwardDoH, Obtains, Goto
  <2>2. pc'[q] = "validate" /\ resp'[q] = {r} /\ {r} # {}
    BY <2>1 DEF HandlerTypes
  <2>3. UNCHANGED crashed
    BY <1>6 DEF ForwardDoH
  <2> QED BY <1>2, <2>2, <2>3 DEF NilInv
<1>7. CASE ForwardPlain(q)
  <2>1. At(q, "forward") /\ Race(q) /\ UNCHANGED crashed
    BY <1>7 DEF ForwardPlain
  <2>2. Guarded => ~crashed'
    BY <2>1 DEF NilInv
  <2>3. CASE ~config.upstream
    <3>1. pc'[q] = "validate"
      BY <2>1, <2>3 DEF Race, Obtains, Goto, HandlerTypes
    <3> QED BY <1>2, <2>2, <2>3, <3>1
  <2>4. CASE config.upstream /\ \E r \in Responses : Obtains(q, {r})
    <3>1. PICK r \in Responses : Obtains(q, {r})
      BY <2>4
    <3>2. pc'[q] = "validate" /\ resp'[q] = {r} /\ {r} # {}
      BY <3>1 DEF Obtains, Goto, HandlerTypes
    <3> QED BY <1>2, <2>2, <3>2
  <2>5. CASE Goto(q, "done")
    <3>1. pc'[q] = "done"
      BY <2>5 DEF Goto, HandlerTypes
    <3> QED BY <1>2, <2>2, <3>1
  <2> QED BY <2>1, <2>3, <2>4, <2>5 DEF Race
<1>8. CASE Validate(q)
  <2>1. /\ pc[q] = "validate" /\ UNCHANGED <<resp, crashed>>
        /\ \/ pc' = [pc EXCEPT ![q] = "done"]
           \/ pc' = [pc EXCEPT ![q] = "record"] /\ ("malformed" \in config.rejects => resp[q] # {})
    BY <1>8 DEF Validate, Checked, At, Goto, After, Local
  <2> QED BY <1>2, <2>1 DEF HandlerTypes, NilInv
<1>9. CASE Record(q)
  BY <1>2, <1>9 DEF Record, At, Goto, After, HandlerTypes, NilInv
<1>10. CASE Vet(q)
  BY <1>2, <1>10 DEF Vet, Checked, At, Goto, After, Local, HandlerTypes, NilInv
<1>11. CASE Store(q) \/ Send(q)
  BY <1>2, <1>11 DEF Store, Send, At, Goto, After, Local, HandlerTypes, NilInv
<1> QED BY <1>4, <1>5, <1>6, <1>7, <1>8, <1>9, <1>10, <1>11 DEF Handle

(* A nil response takes down only a proxy that has no plain upstream and does *)
(* not block what ValidateResponse finds. Either setting is enough: upstreams *)
(* answer or fail, and ValidateResponse takes nil for malformed.              *)
PanicNeedsBoth == crashed => ~config.upstream /\ "malformed" \notin config.rejects
(* Both halves of the guard, for any number of queries and any responses.      *)
THEOREM OnlyUnguardedPanics == Spec => []PanicNeedsBoth
<1>1. Init => NilInv
  BY DEF Init, NilInv
<1>2. PipelineInv /\ NilInv /\ [Next]_vars => NilInv'
  <2> SUFFICES ASSUME HandlerTypes, NilInv, [Next]_vars PROVE NilInv'
    BY DEF PipelineInv
  <2>1. ASSUME NEW q \in Queries, Handle(q) PROVE NilInv'
    BY <2>1, NilStep
  <2>2. ASSUME NEW q \in Queries, NEW k \in Keys, Arrive(q, k) PROVE NilInv'
    <3>1. /\ UNCHANGED <<resp, crashed, config>>
          /\ \E stage \in {"zone", "done"} : pc' = [pc EXCEPT ![q] = stage]
      BY <2>2 DEF Arrive, Goto
    <3> QED BY <3>1 DEF HandlerTypes, NilInv
  <2>3. CASE UNCHANGED <<pc, resp, crashed, config>>
    BY <2>3 DEF NilInv
  <2> QED BY <2>1, <2>2, <2>3 DEF Next, LoadFeed, LoadAllowFile, BlockEnds, vars, queryVars
<1>3. PipelineInv /\ NilInv => PanicNeedsBoth
  BY DEF NilInv, PanicNeedsBoth
<1> QED BY <1>1, <1>2, <1>3, PipelineInvHolds, PTL DEF Spec

\* How far a query is from its end: the stages to come and, in the cache, the
\* steps of Get to come.
StageRank ==
    [new |-> 120, zone |-> 110, blocklist |-> 100, names |-> 90, flood |-> 80, lookup |-> 70,
     forward |-> 60, validate |-> 50, record |-> 40, vet |-> 30, store |-> 20, send |-> 10, done |-> 0]
GetRank == [out |-> 4, found |-> 3, expired |-> 2, miss |-> 1, hit |-> 0]
ToGo(q) == StageRank[pc[q]] + IF pc[q] = "lookup" THEN GetRank[get[q].at] ELSE 0

(* A handler cannot run for ever: each of its steps brings its query nearer   *)
(* to a reply, or is the panic, and no step of anyone else's sends it back.   *)
HandlersAdvance ==
    \A q \in Queries : /\ ToGo(q)' <= ToGo(q)
                       /\ Handle(q) => ToGo(q)' < ToGo(q) \/ crashed'

\* Where Get stands
LEMMA GetTypes ==
    ASSUME CacheInv, NEW q \in Queries
    PROVE  get[q].at \in {"out", "found", "expired", "miss", "hit"}
BY DEF CacheInv, ReadersGood, GetRecord, Queries

\* Each step of Get leads on, and is nobody else's.
LEMMA ReadersMove ==
    ASSUME CacheInv, NEW q \in Queries, NEW k \in Keys,
           (get[q].at = "out" /\ Lookup(q, k)) \/ Examine(q) \/ Delete(q)
    PROVE  /\ \/ get[q].at = "out" /\ get'[q].at \in {"found", "miss"}
              \/ get[q].at = "found" /\ get'[q].at \in {"expired", "hit"}
              \/ get[q].at = "expired" /\ get'[q].at = "miss"
           /\ \A p \in Queries \ {q} : get'[p] = get[p]
<1> USE DEF Queries
<1>1. CASE get[q].at = "out" /\ Lookup(q, k)
  BY <1>1, ReadersChange
<1>2. CASE Examine(q)
  <2>1. get[q].at = "found"
    BY <1>2 DEF Examine
  <2> QED BY <1>2, <2>1, ReadersChange
<1>3. CASE Delete(q)
  <2>1. get[q].at = "expired"
    BY <1>3 DEF Delete
  <2> QED BY <1>3, <2>1, ReadersChange
<1> QED BY <1>1, <1>2, <1>3

\* The rank is a number, and a later stage has a smaller one than any step of Get.
LEMMA RankTypes ==
    ASSUME NEW stage \in Stages, NEW at \in {"out", "found", "expired", "miss", "hit"}
    PROVE  StageRank[stage] \in 0..120 /\ GetRank[at] \in 0..4
BY DEF Stages, StageRank, GetRank

\* A handler's own step
LEMMA HandlerAdvances ==
    ASSUME HandlerTypes, CacheInv, CacheInv', NEW q \in Queries, Handle(q)
    PROVE  ToGo(q)' < ToGo(q) \/ (crashed' /\ ToGo(q)' = ToGo(q))
<1>1. get[q].at \in {"out", "found", "expired", "miss", "hit"} /\ pc[q] \in Stages
  BY GetTypes DEF HandlerTypes
<1>11. get'[q].at \in {"out", "found", "expired", "miss", "hit"}
  BY DEF CacheInv, ReadersGood, GetRecord, Queries
<1> DEFINE G == IF pc[q] = "lookup" THEN GetRank[get[q].at] ELSE 0
<1>2. G \in 0..4
  BY <1>1, RankTypes
<1>3. ASSUME NEW stage \in Stages, pc'[q] = stage, stage # "lookup" \/ pc[q] # "lookup",
             StageRank[stage] + 4 < StageRank[pc[q]] 
      PROVE  ToGo(q)' < ToGo(q)
  <2>1. get'[q].at \in {"out", "found", "expired", "miss", "hit"}
    BY <1>11
  <2>2. StageRank[stage] \in 0..120 /\ StageRank[pc[q]] \in 0..120 /\ GetRank[get'[q].at] \in 0..4
    BY <1>1, <2>1, RankTypes
  <2>3. ToGo(q)' = StageRank[stage] + IF stage = "lookup" THEN GetRank[get'[q].at] ELSE 0
    BY <1>3 DEF ToGo, StageRank, GetRank
  <2>4. ToGo(q) = StageRank[pc[q]] + G
    BY DEF ToGo
  <2> DEFINE a == StageRank[stage]
             b == StageRank[pc[q]]
             F == IF stage = "lookup" THEN GetRank[get'[q].at] ELSE 0
  <2>5. F \in 0..4 /\ a \in Int /\ b \in Int /\ a + 4 < b
    BY <1>3, <2>2
  <2>6. ToGo(q)' = a + F /\ ToGo(q) = b + G
    BY <2>3, <2>4
  <2> HIDE DEF a, b, F, G
  <2> QED BY <1>2, <2>5, <2>6
<1>4. ASSUME NEW stage \in Stages, pc' = [pc EXCEPT ![q] = stage], pc[q] # "lookup" \/ stage # "lookup",
             StageRank[stage] + 4 < StageRank[pc[q]]
      PROVE  ToGo(q)' < ToGo(q)
  BY <1>3, <1>4 DEF HandlerTypes
<1>5. CASE \E from \in DOMAIN After : At(q, from) /\ (Goto(q, "done") \/ Goto(q, After[from]))
  <2>1. PICK from \in DOMAIN After : pc[q] = from /\ (Goto(q, "done") \/ Goto(q, After[from]))
    BY <1>5 DEF At
  <2>2. PICK stage \in {"done", After[from]} : pc' = [pc EXCEPT ![q] = stage]
    BY <2>1 DEF Goto
  <2>3. stage \in Stages /\ StageRank[stage] + 4 < StageRank[from] /\ (stage = "lookup" => from # "lookup")
    BY DEF After, Stages, StageRank
  <2> QED BY <1>4, <2>1, <2>2, <2>3
<1>6. CASE BlockTransfer(q) \/ CheckBlocklist(q) \/ CheckName(q) \/ CheckFlood(q)
             \/ Validate(q) \/ Vet(q) \/ Store(q)
  BY <1>5, <1>6 DEF BlockTransfer, CheckBlocklist, CheckName, CheckFlood, Validate, Vet, Store, Checked, After
<1>7. CASE LookUp(q)
  <2>1. CASE Goto(q, "done") \/ Goto(q, After["lookup"])
    BY <1>5, <1>7, <2>1 DEF LookUp, After
  <2>2. CASE UNCHANGED pc /\ ((get[q].at = "out" /\ Lookup(q, asks[q])) \/ Examine(q) \/ Delete(q))
    <3>1. get'[q].at \in {"out", "found", "expired", "miss", "hit"}
      BY <1>11
    <3>2. \/ get[q].at = "out" /\ get'[q].at \in {"found", "miss"}
          \/ get[q].at = "found" /\ get'[q].at \in {"expired", "hit"}
          \/ get[q].at = "expired" /\ get'[q].at = "miss"
      <4>1. asks[q] \in Keys
        BY DEF HandlerTypes
      <4> QED BY <2>2, <4>1, ReadersMove
    <3>3. GetRank[get'[q].at] < GetRank[get[q].at]
      BY <3>2 DEF GetRank
    <3>4. pc'[q] = pc[q] /\ pc[q] = "lookup"
      BY <1>7, <2>2 DEF LookUp, At
    <3>5. StageRank["lookup"] \in 0..120 /\ GetRank[get[q].at] \in 0..4 /\ GetRank[get'[q].at] \in 0..4
      <4>1. get[q].at \in {"out", "found", "expired", "miss", "hit"} /\ "lookup" \in Stages
        BY <1>1 DEF Stages
      <4> QED BY <3>1, <4>1, RankTypes
    <3>6. ToGo(q) = StageRank["lookup"] + GetRank[get[q].at] /\ ToGo(q)' = StageRank["lookup"] + GetRank[get'[q].at]
      BY <3>4 DEF ToGo, StageRank, GetRank
    <3> QED BY <3>3, <3>5, <3>6
  <2> QED BY <1>7, <2>1, <2>2 DEF LookUp
<1>8. CASE ForwardDoH(q) \/ ForwardPlain(q)
  <2>1. PICK stage \in {"validate", "done"} : pc' = [pc EXCEPT ![q] = stage]
    BY <1>8 DEF ForwardDoH, ForwardPlain, Race, Obtains, Goto
  <2>2. pc[q] = "forward"
    BY <1>8 DEF ForwardDoH, ForwardPlain, At
  <2>3. stage \in Stages /\ stage # "lookup" /\ StageRank[stage] + 4 < StageRank["forward"]
    BY DEF Stages, StageRank
  <2> QED BY <1>4, <2>1, <2>2, <2>3
<1>9. CASE Record(q)
  <2>1. CASE Goto(q, After["record"])
    BY <1>5, <1>9, <2>1 DEF Record, After
  <2>2. CASE crashed' /\ UNCHANGED pc
    <3>1. pc'[q] = pc[q] /\ pc[q] = "record"
      BY <1>9, <2>2 DEF Record, At
    <3>2. ToGo(q)' = ToGo(q)
      BY <3>1 DEF ToGo, StageRank
    <3> QED BY <2>2, <3>2
  <2> QED BY <1>9, <2>1, <2>2 DEF Record
<1>10. CASE Send(q)
  <2>1. pc' = [pc EXCEPT ![q] = "done"] /\ pc[q] = "send"
    BY <1>10 DEF Send, Goto, At
  <2>2. "done" \in Stages /\ StageRank["done"] + 4 < StageRank["send"]
    BY DEF Stages, StageRank
  <2> QED BY <1>4, <2>1, <2>2
<1> QED BY <1>6, <1>7, <1>8, <1>9, <1>10 DEF Handle

\* Nobody else's step touches a handler's stage or its Get.
LEMMA OthersKeepPlace ==
    ASSUME HandlerTypes, CacheInv, NEW p \in Queries, Handle(p), NEW q \in Queries, q # p
    PROVE  ToGo(q)' = ToGo(q)
<1>1. pc'[q] = pc[q]
  BY HandlerAlone
<1>2. get'[q] = get[q]
  <2>1. CASE LookUp(p)
    <3>1. asks[p] \in Keys
      BY DEF HandlerTypes
    <3> QED BY <2>1, <3>1, ReadersMove DEF LookUp
  <2>2. CASE UNCHANGED get
    BY <2>2
  <2> QED BY <2>1, <2>2
          DEF Handle, Local, BlockTransfer, CheckBlocklist, CheckName, CheckFlood,
              ForwardDoH, ForwardPlain, Validate, Record, Vet, Store, Put, Send
<1> QED BY <1>1, <1>2 DEF ToGo, StageRank, GetRank

(* The measure behind EveryQueryEnds, for any number of queries.              *)
THEOREM HandlersAlwaysAdvance == Spec => [][HandlersAdvance]_vars
<1>1. PipelineInv /\ PipelineInv' /\ [Next]_vars => HandlersAdvance
  <2> SUFFICES ASSUME HandlerTypes, CacheInv, HandlerTypes', CacheInv', [Next]_vars, NEW q \in Queries
               PROVE  /\ ToGo(q)' <= ToGo(q)
                      /\ Handle(q) => ToGo(q)' < ToGo(q) \/ crashed'
    BY DEF PipelineInv, HandlersAdvance
  <2>1. ToGo(q) \in Int /\ ToGo(q)' \in Int
    <3>1. ASSUME NEW stage \in Stages, NEW at \in {"out", "found", "expired", "miss", "hit"}
          PROVE  StageRank[stage] + (IF stage = "lookup" THEN GetRank[at] ELSE 0) \in Int
      BY <3>1, RankTypes
    <3>2. pc[q] \in Stages /\ pc'[q] \in Stages
      BY DEF HandlerTypes
    <3>3. /\ get[q].at \in {"out", "found", "expired", "miss", "hit"}
          /\ get'[q].at \in {"out", "found", "expired", "miss", "hit"}
      BY DEF CacheInv, ReadersGood, GetRecord, Queries
    <3>4. ToGo(q)' = StageRank[pc'[q]] + IF pc'[q] = "lookup" THEN GetRank[get'[q].at] ELSE 0
      BY DEF ToGo, StageRank, GetRank
    <3> QED BY <3>1, <3>2, <3>3, <3>4 DEF ToGo
  <2>2. ASSUME Handle(q)
        PROVE  ToGo(q)' <= ToGo(q) /\ (ToGo(q)' < ToGo(q) \/ crashed')
    <3>1. ToGo(q)' < ToGo(q) \/ (crashed' /\ ToGo(q)' = ToGo(q))
      BY <2>2, HandlerAdvances
    <3> QED BY <2>1, <3>1
  <2>3. ASSUME NEW p \in Queries, p # q, Handle(p) PROVE ToGo(q)' <= ToGo(q)
    <3>1. ToGo(q)' = ToGo(q)
      BY <2>3, OthersKeepPlace
    <3> QED BY <2>1, <3>1
  <2>4. ASSUME UNCHANGED get, pc'[q] = pc[q] PROVE ToGo(q)' <= ToGo(q)
    <3>1. ToGo(q)' = ToGo(q)
      BY <2>4 DEF ToGo, StageRank, GetRank
    <3> QED BY <2>1, <3>1
  <2>5. ASSUME NEW p \in Queries, NEW k \in Keys, Arrive(p, k) PROVE ToGo(q)' <= ToGo(q)
    <3>1. PICK stage \in {"zone", "done"} : pc' = [pc EXCEPT ![p] = stage]
      BY <2>5 DEF Arrive, Goto
    <3>2. UNCHANGED get /\ pc[p] = "new"
      BY <2>5 DEF Arrive, At
    <3>3. CASE p = q
      <4>1. pc'[q] = stage /\ pc[q] = "new"
        BY <3>1, <3>2, <3>3 DEF HandlerTypes
      <4>2. ToGo(q) = 120 /\ ToGo(q)' \in {110, 0}
        BY <4>1 DEF ToGo, StageRank, GetRank
      <4> QED BY <4>2
    <3>4. CASE p # q
      BY <2>4, <3>1, <3>2, <3>4 DEF HandlerTypes
    <3> QED BY <3>3, <3>4
  <2>6. ASSUME UNCHANGED <<pc, get>> PROVE ToGo(q)' <= ToGo(q)
    BY <2>4, <2>6
  <2>7. ToGo(q)' <= ToGo(q)
    BY <2>2, <2>3, <2>5, <2>6 DEF Next, LoadFeed, LoadAllowFile, BlockEnds, vars, queryVars
  <2> QED BY <2>2, <2>7
<1> QED BY <1>1, PipelineInvHolds, PTL DEF Spec
=============================================================================
