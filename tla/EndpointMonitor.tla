--------------------------- MODULE EndpointMonitor ---------------------------
(***************************************************************************)
(* internal/endpointmonitor/monitor.go: one goroutine probes the endpoints  *)
(* in turn, remembers which fail, and alerts when one begins or ceases to.  *)
(***************************************************************************)
EXTENDS AlertManager

CONSTANTS
    Endpoints,          \* defaultAppleEndpoints, as a sequence
    MonitorInterval     \* cfg.CheckInterval of the monitor

Hosts == {Endpoints[i] : i \in DOMAIN Endpoints}

ASSUME MonitorAssumption == Endpoints \in Seq(Hosts) /\ MonitorInterval \in Nat \ {0}

VARIABLES
    failedSet,  \* the endpoints that failed when last probed
    probe,      \* when the round began, its place in Endpoints, 0 between two rounds,
                \* and the alert that is to be sent before it goes on
    outage      \* history: when an endpoint's probes began to fail; -1 if the last did not

monitorVars == <<failedSet, probe, outage>>

Probing(e) == probe.at # 0 /\ Endpoints[probe.at] = e

NextPlace == IF probe.at = Len(Endpoints) THEN 0 ELSE probe.at + 1

\* checkAll, at the start and when the ticker has ticked since
BeginRound ==
    /\ probe.at = 0 /\ Ticked(probe.began, MonitorInterval)
    /\ probe' = [probe EXCEPT !.at = NextPlace, !.began = now]
    /\ UNCHANGED <<failedSet, outage>>

\* The name does not resolve: left to the DNS detectors
Unresolved ==
    /\ probe.at # 0 /\ probe.due = {}
    /\ probe' = [probe EXCEPT !.at = NextPlace]
    /\ UNCHANGED <<failedSet, outage>>

Goes(due) ==
    probe' = [probe EXCEPT !.at = IF due = {} THEN NextPlace ELSE @, !.due = due]

\* handleFailure: no address accepts a connection
Fails(e) ==
    /\ Probing(e) /\ probe.due = {}
    /\ failedSet' = failedSet \union {e}
    /\ Goes(IF e \in failedSet THEN {} ELSE {"apple_endpoint_unreachable"})
    /\ outage' = [outage EXCEPT ![e] = IF @ = -1 THEN now ELSE @]

WithoutNone(e) == failedSet
Without(e) == failedSet \ {e}

\* handleRecovery: some address does
Succeeds(e) ==
    /\ Probing(e) /\ probe.due = {}
    /\ failedSet' = Without(e)
    /\ Goes(IF e \in failedSet THEN {"apple_endpoint_recovered"} ELSE {})
    /\ outage' = [outage EXCEPT ![e] = -1]

\* The alert is sent when the mutex has been released.
Announced ==
    /\ probe.due # {}
    /\ probe' = [probe EXCEPT !.at = NextPlace, !.due = {}]
    /\ UNCHANGED <<failedSet, outage>>

MonitorInit ==
    /\ failedSet = {}
    /\ probe = [began |-> -1, at |-> 0, due |-> {}]
    /\ outage = [e \in Hosts |-> -1]

Dues == {{}, {"apple_endpoint_unreachable"}, {"apple_endpoint_recovered"}}

MonitorTypeOK ==
    /\ failedSet \subseteq Hosts
    /\ probe \in [began : -1..now, at : 0..Len(Endpoints), due : Dues]
    /\ probe.at = 0 => probe.due = {}
    /\ outage \in [Hosts -> -1..now]

(* An outage does not go by unnoticed: while an endpoint's probes fail, an     *)
(* alert has been written since they began to, or so short a time before that *)
(* the quota was used up; also when outages come and go, and recoveries and   *)
(* the alerts of queries reset the counts between them.                      *)
OutageAnnounced ==
    \A e \in Hosts :
        outage[e] # -1 /\ ~(Probing(e) /\ probe.due # {}) =>
            WrittenSince("apple_endpoint_unreachable", outage[e] - AlertWindow)
=============================================================================
