------------------------------ MODULE DoHClient ------------------------------
(***************************************************************************)
(* The DNS-over-HTTPS client of internal/dnsproxy/doh.go: an atomic flag   *)
(* `enabled`, an atomic counter of consecutive failures, and the goroutines *)
(* that touch them without a common lock: one per DNS query, one health     *)
(* checker, and the signal loop of signals_unix.go (the kill switch).       *)
(* Every step of this module is one atomic load, store, add or swap, or one *)
(* HTTP exchange, so every interleaving of those is a behaviour.            *)
(***************************************************************************)
EXTENDS Naturals

CONSTANTS
    Queries,    \* goroutines of handleDNS that may be forwarding at once
    Checker,    \* the goroutine of StartHealthChecker
    Operator,   \* the goroutine of handleSignals
    MaxFails,   \* maxFails: failures in a row that switch DoH off
    FailCap     \* the counter saturates here; only its order to MaxFails is read

ASSUME DoHAssumption ==
    /\ MaxFails \in Nat \ {0}
    /\ FailCap \in Nat
    /\ FailCap >= MaxFails
    /\ Checker # Operator
    /\ Checker \notin Queries
    /\ Operator \notin Queries

Procs == Queries \cup {Checker, Operator}

VARIABLES
    enabled,    \* DoHClient.enabled
    fails,      \* DoHClient.consecutiveFails
    pc,         \* where each goroutine stands
    rested,     \* the last tick of the checker was skipped as too early
    endpoint,   \* what the DoH server does with a request now
    gauge,      \* the metric castiel_doh_enabled
    killed      \* history: the operator's last switch was to off

vars == <<enabled, fails, pc, rested, endpoint, gauge, killed>>

\* "garbage": HTTP 200 with a body that is not a DNS message (a captive portal).
Endpoint == {"up", "garbage", "down"}

Label == {"idle",
          "recheck", "post", "plain",          \* forwardUpstream, Exchange
          "fail", "judge", "disable",          \* recordFailure
          "probe", "healthy", "reset",         \* HealthCheck and success
          "enable", "clear",                   \* SetEnabled(true)
          "gauge0", "gauge1"}                  \* DisableDoH, EnableDoH

Goto(p, from, to) == pc[p] = from /\ pc' = [pc EXCEPT ![p] = to]

Init ==
    /\ enabled = TRUE
    /\ fails = 0
    /\ pc = [p \in Procs |-> "idle"]
    /\ rested = TRUE
    /\ endpoint \in Endpoint
    /\ gauge = TRUE
    /\ killed = FALSE

-----------------------------------------------------------------------------
(* recordFailure and SetEnabled, shared by all goroutines.                  *)

Bump(n) == IF n < FailCap THEN n + 1 ELSE n

Trips(n) == n >= MaxFails

AfterFailureRetry(p) == IF p \in Queries THEN "recheck" ELSE "idle"
AfterFailureForward(p) == IF p = Operator THEN "gauge0" ELSE "plain"
\* Where recordFailure (or, for the operator, SetEnabled(false)) returns to: a
\* query falls through to plain DNS, the checker waits for its next tick.
AfterFailure(p) ==
    IF p \in Queries THEN "plain" ELSE IF p = Checker THEN "idle" ELSE "gauge0"

\* consecutiveFails.Add(1): only the goroutine whose own add reached the
\* threshold goes on to look at the flag.
AddFailure(p) ==
    /\ pc[p] = "fail"
    /\ fails' = Bump(fails)
    /\ pc' = [pc EXCEPT ![p] = IF Trips(fails') THEN "judge" ELSE AfterFailure(p)]
    /\ UNCHANGED <<enabled, rested, endpoint, gauge, killed>>

\* ... && enabled.Load(), a second atomic access
Judge(p) ==
    /\ Goto(p, "judge", IF enabled THEN "disable" ELSE AfterFailure(p))
    /\ UNCHANGED <<enabled, fails, rested, endpoint, gauge, killed>>

\* SetEnabled(false): the swap; nothing else is touched
Disable(p) ==
    /\ Goto(p, "disable", AfterFailure(p))
    /\ enabled' = FALSE
    /\ killed' = (killed \/ p = Operator)
    /\ UNCHANGED <<fails, rested, endpoint, gauge>>

\* Where SetEnabled(true) returns to
AfterEnable(p) == IF p = Checker THEN "reset" ELSE "gauge1"

EnableNextNoReset(p, old) == AfterEnable(p)
EnableNext(p, old) == IF old THEN AfterEnable(p) ELSE "clear"

\* SetEnabled(true): the swap, then a separate store of 0 if the flag was off
Enable(p) ==
    /\ Goto(p, "enable", EnableNext(p, enabled))
    /\ enabled' = TRUE
    /\ killed' = (killed /\ p # Operator)
    /\ UNCHANGED <<fails, rested, endpoint, gauge>>

Clear(p) ==
    /\ Goto(p, "clear", AfterEnable(p))
    /\ fails' = 0
    /\ UNCHANGED <<enabled, rested, endpoint, gauge, killed>>

-----------------------------------------------------------------------------
(* A query: forwardUpstream and Exchange.                                   *)

\* forwardUpstream reads the flag once ...
Forward(q) ==
    /\ Goto(q, "idle", IF enabled THEN "recheck" ELSE "plain")
    /\ UNCHANGED <<enabled, fails, rested, endpoint, gauge, killed>>

\* ... and Exchange reads it again before the POST. A message that does not
\* pack, or a request that cannot be built, is an error that counts no failure.
Recheck(q) ==
    /\ \/ enabled /\ Goto(q, "recheck", "post")
       \/ Goto(q, "recheck", "plain")
    /\ UNCHANGED <<enabled, fails, rested, endpoint, gauge, killed>>

\* The HTTP exchange ends by the client timeout at the latest. Only a body that
\* unpacks as a DNS message is a success.
ExchangeEnds(q) ==
    /\ Goto(q, "post", IF endpoint = "up" THEN "reset" ELSE "fail")
    /\ UNCHANGED <<enabled, fails, rested, endpoint, gauge, killed>>

\* consecutiveFails.Store(0), at the end of Exchange and of HealthCheck
Reset(p) ==
    /\ Goto(p, "reset", "idle")
    /\ fails' = 0
    /\ UNCHANGED <<enabled, rested, endpoint, gauge, killed>>

\* forwardPlainDNS answers the query, whatever the upstreams say
PlainDNS(q) ==
    /\ Goto(q, "plain", "idle")
    /\ UNCHANGED <<enabled, fails, rested, endpoint, gauge, killed>>

-----------------------------------------------------------------------------
(* The health checker. Ticker period and minimum spacing are both            *)
(* healthInterval, so a tick that comes a moment early is skipped; the tick  *)
(* after a skipped one is two periods after the last check and never is.     *)

SkipCheck ==
    /\ pc[Checker] = "idle" /\ ~rested
    /\ rested' = TRUE
    /\ UNCHANGED <<enabled, fails, pc, endpoint, gauge, killed>>

StartCheck ==
    /\ Goto(Checker, "idle", "probe")
    /\ rested' = FALSE
    /\ UNCHANGED <<enabled, fails, endpoint, gauge, killed>>

ProbeVerdictSilent(e) == IF e = "down" THEN "idle" ELSE "healthy"
\* The probe asks for HTTP 200 and a non-empty body; it does not parse the body.
ProbeVerdict(e) == IF e = "down" THEN "fail" ELSE "healthy"

ProbeEnds ==
    /\ Goto(Checker, "probe", ProbeVerdict(endpoint))
    /\ UNCHANGED <<enabled, fails, rested, endpoint, gauge, killed>>

HealthyNextPassive(on) == "reset"
HealthyNext(on) == IF on THEN "reset" ELSE "enable"

\* A healthy probe switches DoH on again if it is off, whoever switched it off.
Healthy ==
    /\ Goto(Checker, "healthy", HealthyNext(enabled))
    /\ UNCHANGED <<enabled, fails, rested, endpoint, gauge, killed>>

-----------------------------------------------------------------------------
(* The signal loop: SIGHUP toggles, SIGUSR1 disables, SIGUSR2 enables.       *)

SIGHUP ==
    /\ Goto(Operator, "idle", IF enabled THEN "disable" ELSE "enable")
    /\ UNCHANGED <<enabled, fails, rested, endpoint, gauge, killed>>

SIGUSR1 ==
    /\ Goto(Operator, "idle", "disable")
    /\ UNCHANGED <<enabled, fails, rested, endpoint, gauge, killed>>

SIGUSR2 ==
    /\ Goto(Operator, "idle", "enable")
    /\ UNCHANGED <<enabled, fails, rested, endpoint, gauge, killed>>

\* metrics.DoHEnabled.Set, the last statement of DisableDoH and EnableDoH
SetGauge ==
    /\ \/ Goto(Operator, "gauge0", "idle") /\ gauge' = FALSE
       \/ Goto(Operator, "gauge1", "idle") /\ gauge' = TRUE
    /\ UNCHANGED <<enabled, fails, rested, endpoint, killed>>

\* The network around the daemon
EndpointChanges ==
    /\ endpoint' \in Endpoint \ {endpoint}
    /\ UNCHANGED <<enabled, fails, pc, rested, gauge, killed>>

-----------------------------------------------------------------------------

FlagStep(p) == Disable(p) \/ Enable(p) \/ Clear(p)

QueryStep(q) ==
    Recheck(q) \/ ExchangeEnds(q) \/ Reset(q) \/ PlainDNS(q)
        \/ AddFailure(q) \/ Judge(q) \/ Disable(q)

CheckerStep ==
    \/ SkipCheck \/ StartCheck \/ ProbeEnds \/ Healthy
    \/ Reset(Checker) \/ AddFailure(Checker) \/ Judge(Checker) \/ FlagStep(Checker)

OperatorStep == FlagStep(Operator) \/ SetGauge

Next ==
    \/ \E q \in Queries : Forward(q) \/ QueryStep(q)
    \/ CheckerStep
    \/ OperatorStep
    \/ SIGHUP \/ SIGUSR1 \/ SIGUSR2
    \/ EndpointChanges

Spec == Init /\ [][Next]_vars

(* Goroutines that can run do run, an HTTP exchange ends by its timeout, and *)
(* the ticker keeps ticking. Queries, signals and the network owe nothing.   *)
Fairness ==
    /\ \A q \in Queries : WF_vars(QueryStep(q))
    /\ WF_vars(CheckerStep)
    /\ WF_vars(OperatorStep)

FairSpec == Spec /\ Fairness

-----------------------------------------------------------------------------

(* Flag, counter and the control state of every goroutine keep their types;  *)
(* a query is never found in the checker's or the operator's code.           *)
TypeOK ==
    /\ enabled \in BOOLEAN
    /\ fails \in 0..FailCap
    /\ pc \in [Procs -> Label]
    /\ \A q \in Queries :
          pc[q] \in {"idle", "recheck", "post", "plain", "fail", "judge", "disable", "reset"}
    /\ pc[Checker] \in {"idle", "probe", "healthy", "fail", "judge", "disable",
                        "enable", "clear", "reset"}
    /\ pc[Operator] \in {"idle", "disable", "enable", "clear", "gauge0", "gauge1"}
    /\ rested \in BOOLEAN
    /\ endpoint \in Endpoint
    /\ gauge \in BOOLEAN
    /\ killed \in BOOLEAN

\* A goroutine that still has to act on the count: one that saw it reach the
\* threshold and has not read the flag yet or is about to clear it, or one that
\* has switched DoH on and not yet stored 0.
Unsettled(p) == pc[p] \in {"judge", "disable", "clear"}

(* The breaker is never left closed past its threshold: whenever DoH is on   *)
(* with MaxFails or more failures counted, some goroutine is between the     *)
(* atomic accesses of recordFailure or SetEnabled and will switch DoH off or *)
(* clear the count. The flag and the counter are updated by separate atomics *)
(* (doh.go 67-71, 257-260), so this is a property of their order.            *)
BreakerNotStuckClosed ==
    (enabled /\ fails >= MaxFails) => \E p \in Procs : Unsettled(p)

OperatorQuiet == pc[Operator] = "idle"

(* Every query that starts to forward ends, by DoH or by the plain fallback. *)
EveryQueryAnswered ==
    \A q \in Queries : pc[q] # "idle" ~> pc[q] = "idle"

(* Once the endpoint stays up and the operator stays away, the health checker *)
(* brings DoH back, and no failure counted earlier, or still in flight,       *)
(* switches it off again.                                                     *)
RecoversWhenUp ==
    (<>[](endpoint = "up") /\ <>[]OperatorQuiet) => <>[]enabled

(* Once the endpoint stays down and the operator stays away, DoH goes off and *)
(* stays off, even if no client asks anything: the probes count as failures.  *)
FallsBackWhenDown ==
    (<>[](endpoint = "down") /\ <>[]OperatorQuiet) => <>[]~enabled

(* What the kill switch is documented to be: once the operator has disabled   *)
(* DoH it stays off until the operator enables it. Healthy() breaks this.     *)
KillSwitchHolds == killed => ~enabled
=============================================================================
