---------------------------- MODULE AlertManager -----------------------------
(***************************************************************************)
(* internal/alerts/manager.go: Send filters by severity, then by a count   *)
(* per alert type that is cleared once more than a minute has gone by.     *)
(* isRateLimited holds the mutex for the whole decision; the line is       *)
(* written under the mutex once more, which is part of the same step.      *)
(***************************************************************************)
EXTENDS Clock, Sequences

CONSTANTS
    Types,          \* alert types
    MaxAlerts,      \* alerts per type between two resets (10)
    AlertWindow,    \* ticks in a minute
    MinSeverity,    \* cfg.MinSeverity
    RateLimitAlerts \* cfg.RateLimitAlerts

ASSUME AlertAssumption ==
    /\ MaxAlerts \in Nat \ {0}
    /\ AlertWindow \in Nat \ {0}
    /\ RateLimitAlerts \in BOOLEAN

VARIABLES
    alertCount,     \* per type, since the last reset
    lastReset,
    written         \* history: when the alerts of each type were let through

alertVars == <<alertCount, lastReset, written>>

Level == [debug |-> 0, info |-> 1, warn |-> 2, critical |-> 3]

\* An unknown minimum counts as "warn"; an unknown severity is never met.
MinLevel == IF MinSeverity \in DOMAIN Level THEN Level[MinSeverity] ELSE 2

MeetsSeverity(s) == s \in DOMAIN Level /\ Level[s] >= MinLevel

ResetDueLate == now - lastReset > 2 * AlertWindow
ResetDue == now - lastReset > AlertWindow

CountNow(ty) == IF ResetDue THEN 0 ELSE alertCount[ty]

OverLimitLate(n) == n > 2 * MaxAlerts
OverLimitEarly(n) == n >= MaxAlerts
OverLimit(n) == n > MaxAlerts

IsRateLimited(ty) ==
    /\ alertCount' = [t \in Types |-> CountNow(t) + IF t = ty THEN 1 ELSE 0]
    /\ lastReset' = IF ResetDue THEN now ELSE lastReset

Logs(ty, s) ==
    MeetsSeverity(s) /\ (RateLimitAlerts => ~OverLimit(CountNow(ty) + 1))

\* Send; the log line, the notification and the webhook are one emission
Send(ty, s) ==
    /\ IF MeetsSeverity(s) /\ RateLimitAlerts
       THEN IsRateLimited(ty)
       ELSE UNCHANGED <<alertCount, lastReset>>
    /\ written' = IF Logs(ty, s) THEN [written EXCEPT ![ty] = Append(@, now)] ELSE written

AlertInit ==
    /\ alertCount = [t \in Types |-> 0]
    /\ lastReset = 0
    /\ written = [ty \in Types |-> <<>>]

\* The n-th alert of type ty from the last one was written in the AlertWindow
\* that ends now.
WrittenLately(ty, n) ==
    LET last == Len(written[ty]) IN
    last >= n /\ now - written[ty][last - n + 1] <= AlertWindow

WrittenSince(ty, t) == \E i \in DOMAIN written[ty] : written[ty][i] >= t

(* Counts and time stamps keep their types.                                  *)
AlertTypeOK ==
    /\ alertCount \in [Types -> Nat]
    /\ lastReset \in 0..now
    /\ written \in [Types -> Seq(0..now)]

(* An alert is suppressed only when its type has filled its quota within the *)
(* last minute: a fresh kind of attack is never hidden by an old or another. *)
SuppressionJustified ==
    \A ty \in Types :
        RateLimitAlerts /\ OverLimit(CountNow(ty) + 1) => WrittenLately(ty, MaxAlerts)

(* No minute carries more than two quotas of one type. (Not one: the counts  *)
(* are cleared at once, so a burst may straddle a reset.)                    *)
AlertCeiling ==
    \A ty \in Types : RateLimitAlerts => ~WrittenLately(ty, 2 * MaxAlerts + 1)
=============================================================================
