--------------------------- MODULE DNSSECDowngrade ---------------------------
(***************************************************************************)
(* internal/detectors/dnssec_downgrade.go: the verdicts on a name's answers  *)
(* in the order in which handlers record them, and the goroutine that        *)
(* forgets idle names. -1 stands for the zero time.                          *)
(***************************************************************************)
EXTENDS Handler

CONSTANTS
    DowngradeCooldown,  \* alertCooldown (10 minutes)
    MaxAge              \* maxAge of the cleanup (24 hours)

ASSUME DowngradeAssumption == DowngradeCooldown \in Nat /\ MaxAge \in Nat

VARIABLES
    trust,      \* domains: the state per name
    trail       \* history: per name, every verdict recorded with its time and alert

downgradeVars == <<trust, trail>>

NoTrust == [lastValid |-> -1, lastFailure |-> -1, failures |-> 0, valids |-> 0,
            alerted |-> FALSE, alertTime |-> -1]

Validated(s) ==
    [s EXCEPT !.lastValid = now, !.valids = @ + 1, !.alerted = FALSE, !.failures = 0]

Failed(s) == [s EXCEPT !.lastFailure = now, !.failures = @ + 1]

\* Suspicion over a state that has already counted the failure
Suspect(s) ==
    /\ s.valids > 0 /\ s.failures >= 2
    /\ ~s.alerted \/ now - s.alertTime > DowngradeCooldown

Alerted(s) == [s EXCEPT !.alerted = TRUE, !.alertTime = now]

\* RecordValidation
RecordValidation(n, valid) ==
    LET s == IF valid THEN Validated(trust[n]) ELSE Failed(trust[n])
        alert == ~valid /\ Suspect(s)
    IN  /\ trust' = [trust EXCEPT ![n] = IF alert THEN Alerted(s) ELSE s]
        /\ trail' = [trail EXCEPT ![n] = Append(@, [valid |-> valid, at |-> now, alert |-> alert])]

\* Without downgrade detection only failures are recorded.
RecordsVerdict(valid) == valid => "DNSSECDowngrade" \in config.on

IdleSinceValid(s) == now - s.lastValid > MaxAge
IdleSince(s) == now - s.lastValid > MaxAge /\ now - s.lastFailure > MaxAge

\* Cleanup
CleanupDowngrade ==
    /\ "DNSSECDowngrade" \in config.on
    /\ trust' = [n \in Names |-> IF IdleSince(trust[n]) THEN NoTrust ELSE trust[n]]
    /\ UNCHANGED <<trail, handlerVars>>

DowngradeInit ==
    /\ trust = [n \in Names |-> NoTrust]
    /\ trail = [n \in Names |-> <<>>]

DowngradeTypeOK ==
    \A n \in Names :
        /\ trust[n].failures + trust[n].valids <= Len(trail[n])
        /\ {trust[n].lastValid, trust[n].lastFailure, trust[n].alertTime} \subseteq -1..now

\* Verdicts i to j came without a pause in which the name could be forgotten.
Unbroken(t, i, j) == \A k \in i..(j - 1) : t[k + 1].at - t[k].at <= MaxAge

(* A name that has validated and then fails twice in a row is reported, once  *)
(* per cooldown while it keeps failing, whatever the cleanup does in between. *)
DowngradeReported ==
    \A n \in Names :
        LET t == trail[n] last == Len(t) IN
        \A i \in 1..(last - 2) :
            /\ "DNSSECDowngrade" \in config.on
            /\ t[i].valid /\ \A j \in (i + 1)..last : ~t[j].valid
            /\ Unbroken(t, i, last)
            => \E j \in (i + 2)..last : t[j].alert /\ t[last].at - t[j].at <= DowngradeCooldown
=============================================================================
