------------------------------- MODULE Handler -------------------------------
(***************************************************************************)
(* The goroutine of handleDNS (proxy.go 184-720) as the detectors see it:   *)
(* it calls, in the order of the source, the stages whose feature is on.    *)
(* The stages that Pipeline and QueryTracking model are left out here; of    *)
(* these, some may end a query, but none touches these detectors.           *)
(***************************************************************************)
EXTENDS Clock, FiniteSetsExt, Sequences

CONSTANTS
    Queries,    \* goroutines of handleDNS, numbered as they start
    Clients,
    Names,      \* names that are asked for
    Configs     \* the switches of a proxy, with the traffic it is tried on; of this,
                \* `load` bounds the number of queries and `until` the time

ASSUME HandlerAssumption ==
    \A c \in Configs : \A q \in Queries :
        /\ c.asks[q] # {} /\ c.answers # {}
        /\ \A a \in c.asks[q] : a.client \in Clients /\ a.name \in Names

\* Where each call stands in handleDNS, and the feature that switches it on.
\* Without "Upstream" the cache answers every query.
Rank == [arrive |-> 0, lowslow |-> 1, leak |-> 2, c2 |-> 3, flux |-> 4, edns |-> 5,
         forward |-> 6, fluxTrack |-> 7, nsTrack |-> 8, c2Track |-> 9,
         dnssec |-> 10, downgrade |-> 11, done |-> 12]
Stages == DOMAIN Rank
Feature == [lowslow |-> "LowSlowExfil", leak |-> "LowSlowExfil",
            c2 |-> "C2Detection", flux |-> "C2Detection", fluxTrack |-> "C2Detection",
            nsTrack |-> "C2Detection", c2Track |-> "C2Detection",
            edns |-> "EDNSInspection", forward |-> "Upstream", dnssec |-> "DNSSEC", downgrade |-> "DNSSEC"]

VARIABLES
    pc,
    query,      \* the client and the name of each query
    answer,     \* the handler's resp
    config      \* one of Configs, for good

handlerVars == <<pc, query, answer, config>>

At(q, stage) == pc[q] = stage
Goto(q, stage) == pc' = [pc EXCEPT ![q] = stage]

\* With these features, the stage after a stage: the next one that is on
On(features, stage) == stage \in DOMAIN Feature => Feature[stage] \in features
After ==
    [features \in {c.on : c \in Configs} |-> [stage \in Stages |->
        {next \in Stages :
            /\ On(features, next) /\ Rank[next] > Rank[stage]
            /\ \A s \in Stages :
                  On(features, s) => Rank[s] <= Rank[stage] \/ Rank[s] >= Rank[next]}]]

Proceed(q) == \E next \in After[config.on][pc[q]] : Goto(q, next)

HandlerInit ==
    /\ config \in Configs
    /\ pc = [q \in Queries |-> "arrive"]
    /\ query = [q \in Queries |-> CHOOSE a \in config.asks[q] : TRUE]
    /\ answer = [q \in Queries |-> CHOOSE r \in config.answers : TRUE]

\* A query has passed the checks that come before these stages.
Arrive(q) ==
    /\ At(q, "arrive")
    /\ q <= config.load /\ \A p \in Queries : At(p, "arrive") => q <= p
    /\ \E a \in config.asks[q] : query' = [query EXCEPT ![q] = a]
    /\ Proceed(q)
    /\ UNCHANGED <<answer, config>>

\* 7 and 8. A cached response or an upstream error ends the query.
Forward(q) ==
    /\ At(q, "forward")
    /\ \/ Goto(q, "done") /\ UNCHANGED answer
       \/ Proceed(q) /\ \E r \in config.answers : answer' = [answer EXCEPT ![q] = r]
    /\ UNCHANGED <<query, config>>

\* Time passes; the handlers are wherever they are.
Tick == now < config.until /\ ClockTick /\ UNCHANGED handlerVars

HandlerTypeOK ==
    /\ pc \in [Queries -> Stages]
    /\ config \in Configs
    /\ \A q \in Queries : query[q] \in config.asks[q]
    /\ answer \in [Queries -> config.answers]
=============================================================================
