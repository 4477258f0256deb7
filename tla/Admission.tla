------------------------------ MODULE Admission ------------------------------
(***************************************************************************)
(* Those who report to the alert manager: the entry of handleDNS (proxy.go   *)
(* 184-230) with the rate limiter and the first of the stages that send an   *)
(* alert, the endpoint monitor and the pf guard, which main.go starts         *)
(* (107-116). The counts that limit alerts are shared by all of them.         *)
(***************************************************************************)
EXTENDS RateLimiter, EndpointMonitor, PFGuard

CONSTANTS
    Queries,    \* goroutines of handleDNS, one query each
    Loads       \* what is switched on; with the queries that come and those of them that
                \* are for a zone transfer, whether somebody observes them, the rules of
                \* pf at first and those that come and go

VARIABLES
    pc,
    load,       \* one of Loads, for good
    raised      \* history: when a refused query last raised its alert; -1 never

queryVars == <<pc, load, raised>>
vars == <<now, buckets, watch, alertVars, monitorVars, guardVars, queryVars>>

\* The alert types with the severities they are sent with
Severity == [rate_limit |-> "warn", zone_transfer |-> "critical",
             apple_endpoint_unreachable |-> "critical", apple_endpoint_recovered |-> "info",
             unauthorized_pf_rule |-> "critical"]

ASSUME TypesAssumption == Types = DOMAIN Severity
ASSUME LoadsAssumption == \A l \in Loads : l.changing \subseteq Lines

Goto(q, from, to) == pc[q] = from /\ pc' = [pc EXCEPT ![q] = to]

Init ==
    /\ RateInit
    /\ AlertInit
    /\ MonitorInit
    /\ load \in Loads
    /\ GuardInit /\ inForce = load.rules
    /\ pc = [q \in Queries |-> IF q \in load.asks THEN "new" ELSE "done"]
    /\ raised = -1

\* 1. Rate limit check
Enter(q, c) ==
    /\ Goto(q, "new", IF Allows(c) THEN "admitted" ELSE "refused")
    /\ Check(c)
    /\ UNCHANGED <<alertVars, load, raised>>

Raise(q, from, ty) ==
    /\ Goto(q, from, "done")
    /\ Send(ty, Severity[ty])
    /\ UNCHANGED <<buckets, watch, load>>

\* A refused query raises its alert, then gets no reply or a truncated one.
Refuse(q) == Raise(q, "refused", "rate_limit") /\ raised' = now

\* 2. Zone transfer blocking
Transfer(q) == q \in load.transfers /\ Raise(q, "admitted", "zone_transfer") /\ UNCHANGED raised

Clear(q) ==
    /\ q \notin load.transfers /\ Goto(q, "admitted", "done")
    /\ UNCHANGED <<buckets, watch, alertVars, load, raised>>

Handle(q) ==
    /\ (\E c \in Clients : Enter(q, c)) \/ Refuse(q) \/ Transfer(q) \/ Clear(q)
    /\ UNCHANGED <<now, monitorVars, guardVars>>

\* The goroutine of the endpoint monitor
Monitor ==
    /\ load.monitor
    /\ \/ /\ BeginRound \/ Unresolved \/ (\E e \in Hosts : Fails(e) \/ Succeeds(e))
          /\ UNCHANGED alertVars
       \/ Announced /\ \E ty \in probe.due : Send(ty, Severity[ty])
    /\ UNCHANGED <<now, buckets, watch, guardVars, queryVars>>

\* The goroutine of the guard
Guard ==
    /\ load.guard
    /\ \/ GuardStep /\ UNCHANGED alertVars
       \/ Reported /\ Send("unauthorized_pf_rule", Severity["unauthorized_pf_rule"])
    /\ UNCHANGED <<now, buckets, watch, monitorVars, queryVars>>

\* Other programs, in whose rules only the guard is interested
Others ==
    /\ load.guard
    /\ RuleChanges(load.changing)
    /\ UNCHANGED <<now, buckets, watch, alertVars, monitorVars, queryVars>>

Observe(c) ==
    /\ load.observed
    /\ Watch(c)
    /\ UNCHANGED <<now, buckets, alertVars, monitorVars, guardVars, queryVars>>

TimePasses ==
    /\ ClockTick
    /\ UNCHANGED <<buckets, watch, alertVars, monitorVars, guardVars, queryVars>>

Next ==
    \/ \E q \in Queries : Handle(q)
    \/ Monitor \/ Guard \/ Others
    \/ \E c \in Clients : Observe(c)
    \/ TimePasses

Spec == Init /\ [][Next]_vars

(* Buckets, counts, stamps and control state keep their types.               *)
TypeOK ==
    /\ RateTypeOK
    /\ AlertTypeOK
    /\ MonitorTypeOK
    /\ GuardTypeOK
    /\ load \in Loads
    /\ pc \in [Queries -> {"new", "admitted", "refused", "done"}]
    /\ raised \in -1..now

(* An ongoing flood is never silent: whenever a query is refused, an alert   *)
(* has been written for that no longer than a window before.                 *)
RefusalsAreHeard == raised >= 0 => WrittenSince("rate_limit", raised - AlertWindow)
=============================================================================
