--------------------------- MODULE AdmissionProofs ---------------------------
(***************************************************************************)
(* Proofs about Admission, for any queries, endpoints, rules of pf, quotas    *)
(* and windows. The alert manager's invariant divides the alerts written     *)
(* into epochs, by the resets of the counts; what the user hears of rests on *)
(* one fact: whoever sends an alert that is severe enough can point to one   *)
(* of its type that was written no longer than a window before.             *)
(***************************************************************************)
EXTENDS Admission, RateLimiterProofs

\* Of the alerts counted since the last reset, those that were written
Kept(ty) == IF alertCount[ty] > MaxAlerts THEN MaxAlerts ELSE alertCount[ty]

\* The last k of the alerts written at the times w were written since the last
\* reset, at r; those before them, apart from a quota, longer than a window
\* before it.
Divided(w, k, r) ==
    /\ k <= Len(w)
    /\ \A i \in 1..Len(w) :
          /\ i > Len(w) - k => w[i] >= r
          /\ i <= Len(w) - k => w[i] <= r
          /\ i <= Len(w) - k - MaxAlerts => w[i] < r - AlertWindow

Epochs(ty) == Divided(written[ty], Kept(ty), lastReset)

AlertInv ==
    /\ now \in Nat
    /\ AlertTypeOK
    /\ RateLimitAlerts => \A ty \in Types : Epochs(ty)

\* An alert that is written and counted; one that is the first after a reset;
\* a reset by an alert of another type.
LEMMA WriteOne ==
    ASSUME NEW n \in Nat, NEW w \in Seq(0..n), NEW k \in Nat, NEW r \in 0..n, Divided(w, k, r)
    PROVE  Divided(Append(w, n), k + 1, r)
  <1>1. /\ Len(Append(w, n)) = Len(w) + 1 /\ Len(w) \in Nat
        /\ \A i \in 1..Len(w) : Append(w, n)[i] = w[i]
        /\ Append(w, n)[Len(w) + 1] = n
    OBVIOUS
  <1> QED
    BY <1>1, AlertAssumption DEF Divided

\* Once a whole AlertWindow lies behind a reset, the next reset may drop every count.
LEMMA ClearAll ==
    ASSUME NEW n \in Nat, NEW w \in Seq(0..n), NEW k \in 0..MaxAlerts, NEW r \in 0..n,
           Divided(w, k, r), n - r > AlertWindow
    PROVE  Divided(w, 0, n)
  <1>1. Len(w) \in Nat /\ \A i \in 1..Len(w) : w[i] \in 0..n
    OBVIOUS
  <1>2. \A i \in 1..Len(w) : i <= Len(w) - MaxAlerts => w[i] <= r
    BY <1>1, AlertAssumption DEF Divided
  <1> QED
    BY <1>1, <1>2, AlertAssumption DEF Divided

\* Stamps of the past stay stamps of the past.
LEMMA LaterStamps ==
    ASSUME NEW m \in Nat, NEW n \in Nat, m <= n, NEW s \in Seq(0..m)
    PROVE  s \in Seq(0..n)
  OBVIOUS

\* What AlertInv says of one alert type's log and count
LEMMA Stamps ==
    ASSUME AlertInv, NEW ty \in Types
    PROVE  /\ written[ty] \in Seq(0..now) /\ Len(written[ty]) \in Nat
           /\ \A i \in 1..Len(written[ty]) : written[ty][i] \in 0..now
           /\ DOMAIN written[ty] = 1..Len(written[ty])
           /\ alertCount[ty] \in Nat /\ lastReset \in 0..now
  BY DEF AlertInv, AlertTypeOK

\* No alert has been written when the daemon starts.
LEMMA AlertStart == Init => AlertInv
  <1> SUFFICES ASSUME Init PROVE AlertInv
    OBVIOUS
  <1>1. now = 0 /\ AlertInit
    BY DEF Init, RateInit, ClockInit
  <1>2. AlertTypeOK
    BY <1>1 DEF AlertInit, AlertTypeOK
  <1>3. ASSUME NEW ty \in Types PROVE Epochs(ty)
    BY <1>1, AlertAssumption DEF AlertInit, Epochs, Divided, Kept
  <1> QED
    BY <1>1, <1>2, <1>3 DEF AlertInv

\* Time passes without disturbing the alert manager's invariant.
LEMMA TimeKeepsAlerts ==
    ASSUME AlertInv, UNCHANGED alertVars, now' \in Nat, now' >= now
    PROVE  AlertInv'
  <1>1. alertCount' = alertCount /\ lastReset' = lastReset /\ written' = written
    BY DEF alertVars
  <1>2. ASSUME NEW ty \in Types PROVE written[ty] \in Seq(0..now')
    BY Stamps, LaterStamps DEF AlertInv
  <1>3. AlertTypeOK'
    BY <1>1, <1>2 DEF AlertInv, AlertTypeOK
  <1> QED
    BY <1>1, <1>3 DEF AlertInv, Epochs, Kept

\* Whether an alert is counted, and whether it is written
Counts(s) == MeetsSeverity(s) /\ RateLimitAlerts

\* Send leaves counts, stamps and the log well typed.
LEMMA SendKeepsTypes ==
    ASSUME AlertInv, NEW ty \in Types, NEW s, Send(ty, s), now' = now
    PROVE  AlertTypeOK'
  <1>1. \A t \in Types : alertCount[t] \in Nat /\ CountNow(t) \in Nat
    BY Stamps DEF CountNow
  <1>2. alertCount' \in [Types -> Nat] /\ lastReset' \in 0..now
    <2>1. CASE Counts(s)
      <3>1. \A t \in Types : CountNow(t) + (IF t = ty THEN 1 ELSE 0) \in Nat
        BY <1>1
      <3>2. alertCount' = [t \in Types |-> CountNow(t) + (IF t = ty THEN 1 ELSE 0)]
        BY <2>1 DEF Send, Counts, IsRateLimited
      <3>3. lastReset' \in {now, lastReset} /\ now \in Nat /\ lastReset \in 0..now
        BY <2>1 DEF Send, Counts, IsRateLimited, AlertInv, AlertTypeOK
      <3> QED
        BY <3>1, <3>2, <3>3
    <2>2. CASE ~Counts(s)
      BY <2>2 DEF Send, Counts, AlertInv, AlertTypeOK
    <2> QED
      BY <2>1, <2>2
  <1>3. ASSUME NEW t \in Types PROVE Append(written[t], now) \in Seq(0..now)
    BY Stamps DEF AlertInv
  <1>4. written' \in [Types -> Seq(0..now)]
    BY <1>3 DEF Send, AlertInv, AlertTypeOK
  <1> QED
    BY <1>2, <1>4 DEF AlertTypeOK

\* What Send does to one type: it counts, clears and writes.
LEMMA SendKeepsEpochs ==
    ASSUME AlertInv, RateLimitAlerts, NEW ty \in Types, NEW s, Send(ty, s), now' = now,
           NEW t \in Types
    PROVE  Epochs(t)'
  <1>1. /\ MaxAlerts \in Nat \ {0} /\ now \in Nat /\ lastReset \in 0..now
        /\ alertCount \in [Types -> Nat] /\ written[t] \in Seq(0..now)
        /\ written \in [Types -> Seq(0..now)]
    BY AlertAssumption DEF AlertInv, AlertTypeOK
  <1>2. Divided(written[t], Kept(t), lastReset) /\ Kept(t) \in 0..MaxAlerts
    BY <1>1 DEF AlertInv, Epochs, Kept
  <1>3. CASE ~MeetsSeverity(s)
    BY <1>2, <1>3 DEF Send, Logs, Epochs, Kept
  <1>4. CASE MeetsSeverity(s)
    <2>1. /\ alertCount'[t] = CountNow(t) + (IF t = ty THEN 1 ELSE 0)
          /\ lastReset' = IF ResetDue THEN now ELSE lastReset
          /\ written'[t] = IF t = ty /\ ~OverLimit(CountNow(ty) + 1)
                          THEN Append(written[t], now) ELSE written[t]
      BY <1>1, <1>4 DEF Send, IsRateLimited, Logs
    <2>2. CASE ResetDue
      <3>1. Divided(written[t], 0, now)
        BY <1>1, <1>2, <2>2, ClearAll DEF ResetDue
      <3>2. Divided(Append(written[t], now), 1, now)
        BY <1>1, <3>1, WriteOne
      <3>3. CountNow(t) = 0 /\ CountNow(ty) = 0 /\ lastReset' = now
        BY <2>1, <2>2 DEF CountNow
      <3>4. CASE t = ty
        BY <1>1, <2>1, <3>2, <3>3, <3>4 DEF Epochs, Kept, OverLimit
      <3>5. CASE t # ty
        BY <1>1, <2>1, <3>1, <3>3, <3>5 DEF Epochs, Kept
      <3> QED
        BY <3>4, <3>5
    <2>3. CASE ~ResetDue
      <3>1. CountNow(t) = alertCount[t] /\ lastReset' = lastReset
        BY <2>1, <2>3 DEF CountNow
      <3>2. CASE t = ty /\ alertCount[t] < MaxAlerts
        <4>1. Divided(Append(written[t], now), Kept(t) + 1, lastReset)
          BY <1>1, <1>2, WriteOne
        <4>2. Kept(t)' = Kept(t) + 1 /\ written'[t] = Append(written[t], now)
          BY <1>1, <2>1, <3>1, <3>2 DEF Kept, OverLimit
        <4> QED
          BY <3>1, <4>1, <4>2 DEF Epochs
      <3>3. CASE ~(t = ty /\ alertCount[t] < MaxAlerts)
        <4>1. Kept(t)' = Kept(t) /\ written'[t] = written[t]
          BY <1>1, <2>1, <3>1, <3>3 DEF Kept, OverLimit
        <4> QED
          BY <1>2, <3>1, <4>1 DEF Epochs
      <3> QED
        BY <3>2, <3>3
    <2> QED
      BY <2>2, <2>3
  <1> QED
    BY <1>3, <1>4

\* Send, with its reset, its limit and its severity filter, keeps the invariant.
LEMMA SendKeepsAlerts ==
    ASSUME AlertInv, NEW ty \in Types, NEW s, Send(ty, s), now' = now
    PROVE  AlertInv'
  BY SendKeepsTypes, SendKeepsEpochs DEF AlertInv

\* An alert over the limit finds MaxAlerts of its type written within AlertWindow.
LEMMA FullWhenSuppressed == AlertInv => SuppressionJustified
  <1> SUFFICES ASSUME AlertInv, NEW ty \in Types, RateLimitAlerts, OverLimit(CountNow(ty) + 1)
               PROVE  WrittenLately(ty, MaxAlerts)
    BY DEF SuppressionJustified
  <1>1. /\ MaxAlerts \in Nat \ {0} /\ AlertWindow \in Nat \ {0} /\ now \in Nat
        /\ Epochs(ty) /\ alertCount[ty] \in Nat /\ lastReset \in 0..now
    BY AlertAssumption, Stamps DEF AlertInv
  <1>2. ~ResetDue /\ alertCount[ty] >= MaxAlerts
    BY <1>1 DEF OverLimit, CountNow
  <1>3. Kept(ty) = MaxAlerts
    BY <1>1, <1>2 DEF Kept
  <1> DEFINE n == Len(written[ty])
             i == n - MaxAlerts + 1
  <1>4. n \in Nat /\ MaxAlerts <= n
    BY <1>1, <1>3, Stamps DEF Epochs, Divided
  <1>5. i \in 1..n /\ i > n - MaxAlerts
    BY <1>1, <1>4
  <1>6. written[ty][i] >= lastReset /\ written[ty][i] \in 0..now
    BY <1>1, <1>3, <1>5, Stamps DEF Epochs, Divided
  <1>7. now - written[ty][i] <= AlertWindow
    BY <1>1, <1>2, <1>6 DEF ResetDue
  <1> QED
    BY <1>4, <1>7 DEF WrittenLately

\* Where the alert of two quotas ago stands in a log of n
LEMMA TwiceThePlace ==
    ASSUME NEW m \in Nat \ {0}, NEW k \in Nat, k <= m, NEW n \in Nat, n >= 2 * m + 1
    PROVE  n - 2 * m \in 1..n /\ n - 2 * m <= n - k - m /\ n - (2 * m + 1) + 1 = n - 2 * m
  OBVIOUS

\* A window meets at most one reset, hence at most two quotas of one type.
LEMMA TwoQuotas == AlertInv => AlertCeiling
  <1> SUFFICES ASSUME AlertInv, NEW ty \in Types, RateLimitAlerts,
                      WrittenLately(ty, 2 * MaxAlerts + 1)
               PROVE  FALSE
    BY DEF AlertCeiling
  <1>1. /\ MaxAlerts \in Nat \ {0} /\ AlertWindow \in Nat \ {0} /\ now \in Nat
        /\ Epochs(ty) /\ alertCount[ty] \in Nat /\ lastReset \in 0..now
    BY AlertAssumption, Stamps DEF AlertInv
  <1>2. Kept(ty) <= MaxAlerts /\ Kept(ty) \in Nat
    BY <1>1 DEF Kept
  <1> DEFINE i == Len(written[ty]) - 2 * MaxAlerts
  <1>3. Len(written[ty]) \in Nat /\ Len(written[ty]) >= 2 * MaxAlerts + 1
    BY Stamps DEF WrittenLately
  <1>4. /\ i \in 1..Len(written[ty]) /\ i <= Len(written[ty]) - Kept(ty) - MaxAlerts
        /\ Len(written[ty]) - (2 * MaxAlerts + 1) + 1 = i
    BY <1>1, <1>2, <1>3, TwiceThePlace
  <1>5. written[ty][i] < lastReset - AlertWindow /\ written[ty][i] \in 0..now
    BY <1>1, <1>4, Stamps DEF Epochs, Divided
  <1> QED
    BY <1>1, <1>4, <1>5 DEF WrittenLately

(* The actions of Admission *)

\* A step of the alert manager's users: one alert, or none.
Sends(ty) == Send(ty, Severity[ty]) /\ now' = now
Silent == UNCHANGED alertVars /\ now' \in Nat /\ now' >= now

\* The severities the callers of Send pass
LEMMA SeverityOf ==
    /\ Types = {"rate_limit", "zone_transfer", "apple_endpoint_unreachable",
                "apple_endpoint_recovered", "unauthorized_pf_rule"}
    /\ MeetsSeverity(Severity["apple_endpoint_unreachable"])
    /\ MeetsSeverity(Severity["unauthorized_pf_rule"])
    /\ Severity["rate_limit"] = "warn"
  BY TypesAssumption DEF Severity, MeetsSeverity, Level, MinLevel

\* An alert severe enough is in the log of the last AlertWindow: just written, or suppressed by ones that are.
LEMMA Sent ==
    ASSUME AlertInv, NEW ty \in Types, NEW s, MeetsSeverity(s), Send(ty, s), now' = now
    PROVE  WrittenSince(ty, now - AlertWindow)'
  <1>1. CASE Logs(ty, s)
    <2>1. written'[ty] = Append(written[ty], now) /\ written[ty] \in Seq(0..now)
      BY <1>1 DEF Send, AlertInv, AlertTypeOK
    <2>2. /\ Len(written[ty]) + 1 \in DOMAIN written'[ty]
          /\ written'[ty][Len(written[ty]) + 1] = now
      BY <2>1, Stamps
    <2> QED
      BY <2>2, AlertAssumption DEF WrittenSince, AlertInv
  <1>2. CASE ~Logs(ty, s)
    <2>1. WrittenLately(ty, MaxAlerts) /\ written' = written
      BY <1>2, FullWhenSuppressed DEF Logs, Send, SuppressionJustified
    <2>2. /\ Len(written[ty]) \in Nat /\ Len(written[ty]) >= MaxAlerts
          /\ now - written[ty][Len(written[ty]) - MaxAlerts + 1] <= AlertWindow
      BY <2>1, Stamps DEF WrittenLately
    <2>3. Len(written[ty]) - MaxAlerts + 1 \in 1..Len(written[ty])
      BY <2>2, AlertAssumption
    <2>4. written[ty][Len(written[ty]) - MaxAlerts + 1] >= now - AlertWindow
      <3>1. written[ty][Len(written[ty]) - MaxAlerts + 1] \in 0..now
        BY <2>3, Stamps
      <3>2. now \in Nat /\ AlertWindow \in Nat
        BY AlertAssumption DEF AlertInv
      <3>3. \A i \in 0..now : now - i <= AlertWindow => i >= now - AlertWindow
        BY <3>2
      <3> QED
        BY <2>2, <3>1, <3>3
    <2> QED
      BY <2>1, <2>3, <2>4, Stamps DEF WrittenSince
  <1> QED
    BY <1>1, <1>2

\* The log only grows: an alert once written since t stays written since t.
LEMMA HeardOnce ==
    ASSUME AlertInv, Silent \/ \E u \in Types, s \in {Severity[v] : v \in Types} : Send(u, s),
           NEW ty \in Types, NEW t, WrittenSince(ty, t)
    PROVE  WrittenSince(ty, t)'
  <1>1. written'[ty] = written[ty] \/ written'[ty] = Append(written[ty], now)
    BY DEF Silent, alertVars, Send, AlertInv, AlertTypeOK
  <1>2. written[ty] \in Seq(0..now) /\ now \in 0..now
    BY Stamps DEF AlertInv
  <1>3. \A i \in DOMAIN written[ty] :
           i \in DOMAIN written'[ty] /\ written'[ty][i] = written[ty][i]
    <2>1. ASSUME NEW w \in Seq(0..now)
          PROVE  \A i \in DOMAIN w : i \in DOMAIN Append(w, now) /\ Append(w, now)[i] = w[i]
      <3>1. Len(w) \in Nat /\ DOMAIN w = 1..Len(w) /\ DOMAIN Append(w, now) = 1..(Len(w) + 1)
        BY <1>2
      <3>2. \A i \in 1..Len(w) : i \in 1..(Len(w) + 1) /\ Append(w, now)[i] = w[i]
        BY <1>2, <3>1
      <3> QED
        BY <3>1, <3>2
    <2> QED
      BY <1>1, <1>2, <2>1
  <1> QED
    BY <1>3 DEF WrittenSince

\* Every step is one of these, for the alert manager.
LEMMA StepsOfAlerts ==
    ASSUME AlertInv, MonitorTypeOK, [Next]_vars
    PROVE  Silent \/ \E ty \in Types : Sends(ty)
  <1>1. CASE \E q \in Queries : Handle(q)
    BY <1>1, SeverityOf DEF Handle, Enter, Refuse, Transfer, Raise, Clear, Sends, Silent, AlertInv
  <1>2. CASE Monitor
    <2>1. CASE UNCHANGED alertVars
      BY <1>2, <2>1 DEF Monitor, Silent, AlertInv
    <2>2. CASE \E ty \in probe.due : Send(ty, Severity[ty])
      BY <1>2, <2>2, SeverityOf DEF Monitor, Sends, MonitorTypeOK, Dues
    <2> QED
      BY <1>2, <2>1, <2>2 DEF Monitor
  <1>3. CASE Guard
    BY <1>3, SeverityOf DEF Guard, Sends, Silent, AlertInv
  <1>4. CASE Others \/ \E c \in Clients : Observe(c)
    BY <1>4 DEF Others, Observe, Silent, AlertInv
  <1>5. CASE TimePasses
    BY <1>5 DEF TimePasses, ClockTick, Silent, AlertInv
  <1>6. CASE UNCHANGED vars
    BY <1>6 DEF vars, Silent, AlertInv
  <1> QED
    BY <1>1, <1>2, <1>3, <1>4, <1>5, <1>6 DEF Next

\* handleDNS's entry uses the buckets as the rate limiter's specification allows.
LEMMA RateSteps == [Next]_vars => [RateNext]_rateVars
  <1> SUFFICES ASSUME [Next]_vars PROVE [RateNext]_rateVars
    OBVIOUS
  <1>1. CASE \E q \in Queries : Handle(q)
    BY <1>1 DEF Handle, Enter, Refuse, Transfer, Raise, Clear, RateNext, rateVars
  <1>2. CASE Monitor \/ Guard \/ Others
    BY <1>2 DEF Monitor, Guard, Others, rateVars
  <1>3. CASE \E c \in Clients : Observe(c)
    BY <1>3 DEF Observe, RateNext
  <1>4. CASE TimePasses
    BY <1>4 DEF TimePasses, RateNext
  <1>5. CASE UNCHANGED vars
    BY <1>5 DEF vars, rateVars
  <1> QED
    BY <1>1, <1>2, <1>3, <1>4, <1>5 DEF Next

\* Every step of the proxy is one of the rate limiter's own: what is proved of
\* RateLimiter holds here.
THEOREM EntryUsesRateLimiter == Spec => RateSpec
  <1>1. Init => RateInit
    BY DEF Init
  <1> QED
    BY <1>1, RateSteps, PTL DEF Spec, RateSpec

\* Every step of the daemon keeps the alert manager's invariant.
LEMMA AlertStep ==
    ASSUME AlertInv, MonitorTypeOK, [Next]_vars
    PROVE  AlertInv'
  <1>1. CASE Silent
    BY <1>1, TimeKeepsAlerts DEF Silent
  <1>2. CASE \E ty \in Types : Sends(ty)
    BY <1>2, SendKeepsAlerts DEF Sends
  <1> QED
    BY <1>1, <1>2, StepsOfAlerts

\* What has been written since a moment stays so.
LEMMA HeardForGood ==
    ASSUME AlertInv, MonitorTypeOK, [Next]_vars, NEW ty \in Types, NEW t, WrittenSince(ty, t)
    PROVE  WrittenSince(ty, t)'
  BY HeardOnce, StepsOfAlerts DEF Sends

\* Written since t, hence since any earlier u
LEMMA EarlierStill ==
    ASSUME AlertTypeOK', now' \in Nat, NEW ty \in Types, NEW t \in Int, NEW u \in Int, u <= t,
           WrittenSince(ty, t)'
    PROVE  WrittenSince(ty, u)'
  <1>1. written'[ty] \in Seq(0..now')
    BY DEF AlertTypeOK
  <1>2. \A i \in DOMAIN written'[ty] : written'[ty][i] \in 0..now'
    BY <1>1
  <1> QED
    BY <1>2 DEF WrittenSince

(* The endpoint monitor *)

MonitorInv ==
    /\ MonitorTypeOK
    /\ \A e \in Hosts : outage[e] # -1 <=> e \in failedSet
    /\ probe.due = {"apple_endpoint_recovered"} => outage[Endpoints[probe.at]] = -1
    /\ OutageAnnounced

MonitorMoves ==
    BeginRound \/ Unresolved \/ (\E e \in Hosts : Fails(e) \/ Succeeds(e)) \/ Announced

\* The monitor's place in its list of endpoints stays in range.
LEMMA Places0 ==
    ASSUME MonitorTypeOK
    PROVE  /\ Len(Endpoints) \in Nat /\ NextPlace \in 0..Len(Endpoints)
           /\ probe.at \in 0..Len(Endpoints)
           /\ probe.at # 0 => Endpoints[probe.at] \in Hosts
  BY MonitorAssumption DEF MonitorTypeOK, NextPlace

\* A probe leaves at most one alert to send: the outage's or the recovery's.
LEMMA DuesAre ==
    /\ {} \in Dues /\ {"apple_endpoint_unreachable"} \in Dues /\ {"apple_endpoint_recovered"} \in Dues
    /\ \A d \in Dues : d # {} => d = {"apple_endpoint_unreachable"} \/ d = {"apple_endpoint_recovered"}
  BY DEF Dues

\* The monitor's steps keep its round, its outages and what is due well typed.
LEMMA MonitorTypes ==
    ASSUME MonitorTypeOK, MonitorMoves, now \in Nat, now' = now
    PROVE  MonitorTypeOK'
  <1>0. /\ probe \in [began : -1..now, at : 0..Len(Endpoints), due : Dues]
        /\ outage \in [Hosts -> -1..now] /\ failedSet \subseteq Hosts
        /\ now \in -1..now /\ NextPlace \in 0..Len(Endpoints)
        /\ probe.at = 0 => probe.due = {}
    BY Places0 DEF MonitorTypeOK
  <1>1. CASE BeginRound
    BY <1>0, <1>1 DEF MonitorTypeOK, BeginRound
  <1>2. CASE Unresolved
    BY <1>0, <1>2 DEF MonitorTypeOK, Unresolved
  <1>3. ASSUME NEW e \in Hosts, Fails(e)
        PROVE  MonitorTypeOK'
    BY <1>0, <1>3, DuesAre DEF MonitorTypeOK, Fails, Goes, Probing
  <1>4. ASSUME NEW e \in Hosts, Succeeds(e)
        PROVE  MonitorTypeOK'
    <2>1. failedSet' \subseteq Hosts /\ outage' \in [Hosts -> -1..now]
      BY <1>0, <1>4 DEF Succeeds, Without
    <2>2. \E d \in Dues : Goes(d) /\ probe.at # 0
      BY <1>4, DuesAre DEF Succeeds, Probing
    <2>3. /\ probe' \in [began : -1..now, at : 0..Len(Endpoints), due : Dues]
          /\ probe'.at = 0 => probe'.due = {}
      BY <1>0, <2>2 DEF Goes
    <2> QED
      BY <2>1, <2>3 DEF MonitorTypeOK
  <1>5. CASE Announced
    BY <1>0, <1>5, DuesAre DEF MonitorTypeOK, Announced
  <1> QED
    BY <1>1, <1>2, <1>3, <1>4, <1>5 DEF MonitorMoves

\* Every step of the daemon keeps the endpoint monitor's invariant.
LEMMA MonitorSteps ==
    ASSUME MonitorInv, AlertInv, [Next]_vars
    PROVE  MonitorInv'
  <1>0. MonitorTypeOK /\ now \in Nat
    BY DEF MonitorInv, AlertInv
  <1>1. CASE ~Monitor
    <2>1. UNCHANGED monitorVars /\ now' \in Nat /\ now' >= now
      BY <1>0, <1>1 DEF Next, Handle, Enter, Refuse, Transfer, Raise, Clear, Guard, Others, Observe,
                        TimePasses, ClockTick, vars
    <2>2. MonitorTypeOK'
      BY <1>0, <2>1 DEF MonitorTypeOK, monitorVars
    <2>3. OutageAnnounced'
      BY <1>0, <2>1, HeardForGood, SeverityOf DEF MonitorInv, OutageAnnounced, monitorVars, Probing
    <2> QED
      BY <2>1, <2>2, <2>3 DEF MonitorInv, monitorVars
  <1>2. CASE Monitor
    <2>1. MonitorMoves /\ now' = now
      BY <1>2 DEF Monitor, MonitorMoves
    <2>2. MonitorTypeOK'
      BY <1>0, <2>1, MonitorTypes
    <2>3. CASE BeginRound \/ Unresolved
      <3>1. probe.due = {} /\ probe'.due = {} /\ UNCHANGED <<failedSet, outage>>
        BY <1>0, <2>3 DEF BeginRound, Unresolved, MonitorTypeOK
      <3>2. OutageAnnounced'
        BY <3>1, HeardForGood, SeverityOf, <1>0 DEF MonitorInv, OutageAnnounced
      <3> QED
        BY <2>2, <3>1, <3>2 DEF MonitorInv
    <2>4. CASE \E f \in Hosts : Fails(f)
      <3>1. PICK f \in Hosts : Fails(f)
        BY <2>4
      <3>2. /\ probe.due = {} /\ Probing(f)
            /\ failedSet' = failedSet \union {f}
            /\ outage' = [outage EXCEPT ![f] = IF @ = -1 THEN now ELSE @]
            /\ f \notin failedSet =>
                  probe'.at = probe.at /\ probe'.due = {"apple_endpoint_unreachable"}
            /\ f \in failedSet => probe'.due = {}
        BY <1>0, <3>1 DEF Fails, Goes, MonitorTypeOK
      <3>3. ASSUME NEW e \in Hosts, outage'[e] # -1, ~(Probing(e) /\ probe.due # {})'
            PROVE  WrittenSince("apple_endpoint_unreachable", outage[e] - AlertWindow)'
                       /\ outage'[e] = outage[e]
        <4>1. outage[e] # -1 /\ outage'[e] = outage[e]
          BY <1>0, <3>2, <3>3 DEF MonitorInv, MonitorTypeOK, Probing
        <4> QED
          BY <1>0, <3>2, <4>1, HeardForGood, SeverityOf DEF MonitorInv, OutageAnnounced
      <3>4. OutageAnnounced'
        BY <3>3 DEF OutageAnnounced, WrittenSince
      <3>5. probe'.due # {"apple_endpoint_recovered"}
        BY <3>2
      <3>6. \A e \in Hosts : outage'[e] # -1 <=> e \in failedSet'
        BY <1>0, <3>2 DEF MonitorInv, MonitorTypeOK
      <3> QED
        BY <2>2, <3>4, <3>5, <3>6 DEF MonitorInv
    <2>5. CASE \E f \in Hosts : Succeeds(f)
      <3>1. PICK f \in Hosts : Succeeds(f)
        BY <2>5
      <3>2. /\ probe.due = {} /\ Probing(f)
            /\ failedSet' = failedSet \ {f}
            /\ outage' = [outage EXCEPT ![f] = -1]
            /\ probe'.due # {} => probe'.at = probe.at
        BY <1>0, <3>1 DEF Succeeds, Goes, MonitorTypeOK, Without
      <3>3. ASSUME NEW e \in Hosts, outage'[e] # -1
            PROVE  WrittenSince("apple_endpoint_unreachable", outage[e] - AlertWindow)'
                       /\ outage'[e] = outage[e]
        BY <1>0, <3>2, <3>3, HeardForGood, SeverityOf DEF MonitorInv, MonitorTypeOK, OutageAnnounced
      <3>4. OutageAnnounced'
        BY <3>3 DEF OutageAnnounced, WrittenSince
      <3> QED
        BY <1>0, <2>2, <3>2, <3>4 DEF MonitorInv, MonitorTypeOK, Probing
    <2>6. CASE Announced
      <3>1. probe.due # {} /\ probe'.due = {} /\ UNCHANGED <<failedSet, outage>>
        BY <1>0, <2>6 DEF Announced, MonitorTypeOK
      <3>2. \E ty \in probe.due : Send(ty, Severity[ty])
        BY <1>2, <3>1, <2>6 DEF Monitor, BeginRound, Unresolved, Fails, Succeeds, MonitorTypeOK, MonitorInv
      <3>3. ASSUME NEW e \in Hosts, outage[e] # -1
            PROVE  WrittenSince("apple_endpoint_unreachable", outage[e] - AlertWindow)'
        <4>1. CASE Probing(e)
          <5>1. probe.due = {"apple_endpoint_unreachable"}
            <6>1. probe.due # {"apple_endpoint_recovered"}
              BY <3>3, <4>1 DEF MonitorInv, Probing
            <6>2. probe.due \in Dues
              BY <1>0 DEF MonitorTypeOK
            <6> QED
              BY <3>1, <6>1, <6>2, DuesAre
          <5>2. WrittenSince("apple_endpoint_unreachable", now - AlertWindow)'
            BY <2>1, <3>2, <5>1, Sent, SeverityOf
          <5>3. AlertTypeOK' /\ outage[e] <= now /\ outage[e] \in Int /\ now \in Nat
            BY <1>0, AlertStep DEF MonitorTypeOK, AlertInv
          <5>5. now - AlertWindow >= outage[e] - AlertWindow
                /\ now - AlertWindow \in Int /\ outage[e] - AlertWindow \in Int
            BY <5>3, AlertAssumption
          <5> QED
            BY <2>1, <3>1, <5>2, <5>3, <5>5, EarlierStill, SeverityOf
        <4>2. CASE ~Probing(e)
          BY <1>0, <3>1, <3>3, <4>2, HeardForGood, SeverityOf DEF MonitorInv, OutageAnnounced
        <4> QED
          BY <4>1, <4>2
      <3>4. OutageAnnounced'
        BY <3>1, <3>3 DEF OutageAnnounced, WrittenSince
      <3> QED
        BY <2>2, <3>1, <3>4 DEF MonitorInv
    <2> QED
      BY <2>1, <2>3, <2>4, <2>5, <2>6 DEF MonitorMoves
  <1> QED
    BY <1>1, <1>2

\* No endpoint is in outage when the monitor starts.
LEMMA MonitorStart == Init => MonitorInv
  <1> SUFFICES ASSUME Init PROVE MonitorInv
    OBVIOUS
  <1>1. now = 0 /\ MonitorInit
    BY DEF Init, RateInit, ClockInit
  <1>2. Len(Endpoints) \in Nat /\ {} \in Dues
    BY MonitorAssumption, DuesAre
  <1>3. MonitorTypeOK
    BY <1>1, <1>2 DEF MonitorInit, MonitorTypeOK
  <1> QED
    BY <1>1, <1>3 DEF MonitorInit, MonitorInv, OutageAnnounced

(* The guard *)

Told == WrittenSince("unauthorized_pf_rule", steady.since - AlertWindow)

\* A rule that has been in force since the scan began is, at each stage of it,
\* read, still to be read, or in the own anchor; then found, or told.
GuardInv ==
    /\ GuardTypeOK
    /\ steady.rules \subseteq inForce
    /\ scan.at = "list" => \A l \in steady.rules : l.place = Main => l \in scan.lines
    /\ scan.at = "read" =>
          \A l \in steady.rules : l.place \in scan.left \union {CastielAnchor} \/ l \in scan.lines
    /\ scan.at = "report" =>
          \A l \in steady.rules :
              l.place # CastielAnchor => Findings(l) \subseteq scan.found \/ Told
    /\ BlockingReported

\* What a listing shows contains the findings of each of its lines.
LEMMA FindingsOf ==
    ASSUME NEW lines, NEW more, lines \subseteq more
    PROVE  /\ FindingsIn(lines) \subseteq FindingsIn(more)
           /\ \A l \in lines : Findings(l) \subseteq FindingsIn(lines)
           /\ FindingsIn(lines) # {} => \E l \in lines : Findings(l) # {}
  BY DEF FindingsIn

\* No scan is under way when the pf guard starts.
LEMMA GuardStart == Init => GuardInv
  <1> SUFFICES ASSUME Init PROVE GuardInv
    OBVIOUS
  <1>1. now = 0 /\ GuardInit
    BY DEF Init, RateInit, ClockInit
  <1>2. FindingsIn({}) = {}
    BY DEF FindingsIn
  <1>3. GuardTypeOK
    BY <1>1 DEF GuardInit, GuardTypeOK, Idle
  <1> QED
    BY <1>1, <1>2, <1>3 DEF GuardInit, GuardInv, BlockingReported, Idle

\* Reading the main ruleset ends the scan, or leaves its lines to go through.
LEMMA AfterMain ==
    ASSUME ReadMain
    PROVE  scan' \in {[at |-> "idle", left |-> {}, lines |-> {}, found |-> {}],
                     [at |-> "list", left |-> {}, lines |-> At(Main), found |-> {}]}
  <1>1. scan' = Idle \/ scan' = [Idle EXCEPT !.at = "list", !.lines = At(Main)]
    <2>1. CASE At(Main) = {}
      BY <2>1 DEF ReadMain
    <2>2. CASE At(Main) # {}
      BY <2>2 DEF ReadMain
    <2> QED
      BY <2>1, <2>2
  <1> QED
    BY <1>1 DEF Idle

\* The pf guard's steps and changes of the rules keep the scan well typed.
LEMMA GuardTypes ==
    ASSUME GuardTypeOK, now \in Nat, now' = now, load \in Loads,
           GuardStep \/ Reported \/ RuleChanges(load.changing)
    PROVE  GuardTypeOK'
  <1> USE DEF GuardTypeOK, Idle
  <1>1. CASE ReadMain
    <2>1. At(Main) \subseteq Lines
      BY DEF At
    <2>2. scan' \in {[at |-> "idle", left |-> {}, lines |-> {}, found |-> {}],
                     [at |-> "list", left |-> {}, lines |-> At(Main), found |-> {}]}
      BY <1>1, AfterMain
    <2>3. scan' \in [at : {"idle", "list", "read", "report"}, left : SUBSET OtherAnchors,
                     lines : SUBSET Lines, found : SUBSET FindingsIn(Lines)]
      <3>1. CASE scan' = [at |-> "idle", left |-> {}, lines |-> {}, found |-> {}]
        BY <3>1
      <3>2. CASE scan' = [at |-> "list", left |-> {}, lines |-> At(Main), found |-> {}]
        BY <2>1, <3>2
      <3> QED
        BY <2>2, <3>1, <3>2
    <2>4. steady' \in [since : -1..now, rules : SUBSET Lines, passed : SUBSET Lines]
      BY <1>1 DEF ReadMain
    <2> QED
      BY <1>1, <2>3, <2>4 DEF ReadMain
  <1>2. CASE ListAnchors
    <2> DEFINE Scans == [at : {"idle", "list", "read", "report"}, left : SUBSET OtherAnchors,
                         lines : SUBSET Lines, found : SUBSET FindingsIn(Lines)]
               Steadies == [since : -1..now, rules : SUBSET Lines, passed : SUBSET Lines]
    <2>1. UNCHANGED inForce /\ scan' \in Scans
      BY <1>2 DEF ListAnchors
    <2>2. steady' \in Steadies
      <3>1. \/ steady' = steady
            \/ steady' = [steady EXCEPT !.rules = {l \in @ : l.place = Main}]
        BY <1>2 DEF ListAnchors
      <3>2. {l \in steady.rules : l.place = Main} \subseteq Lines
        OBVIOUS
      <3> QED
        BY <3>1, <3>2
    <2> QED
      BY <2>1, <2>2
  <1>3. CASE ReadAnchor
    <2> DEFINE Scans == [at : {"idle", "list", "read", "report"}, left : SUBSET OtherAnchors,
                         lines : SUBSET Lines, found : SUBSET FindingsIn(Lines)]
               Steadies == [since : -1..now, rules : SUBSET Lines, passed : SUBSET Lines]
    <2>1. PICK a \in scan.left :
             \/ /\ scan' = [scan EXCEPT !.left = @ \ {a}, !.lines = Appended(At(a))]
                /\ UNCHANGED steady
             \/ /\ scan' = [scan EXCEPT !.left = @ \ {a}]
                /\ steady' = [steady EXCEPT !.rules = {l \in @ : l.place # a}]
      BY <1>3 DEF ReadAnchor
    <2>2. /\ scan.left \ {a} \subseteq OtherAnchors /\ Appended(At(a)) \subseteq Lines
          /\ {l \in steady.rules : l.place # a} \subseteq Lines
      BY DEF Appended, At
    <2>3. scan' \in Scans
      BY <2>1, <2>2
    <2>4. steady' \in Steadies
      BY <2>1, <2>2
    <2> QED
      BY <1>3, <2>3, <2>4 DEF ReadAnchor
  <1>4. CASE ScanRules
    BY <1>4, FindingsOf DEF ScanRules
  <1>5. CASE EndScan
    BY <1>5 DEF EndScan
  <1>6. CASE Reported
    BY <1>6 DEF Reported
  <1>7. CASE RuleChanges(load.changing)
    BY <1>7, LoadsAssumption DEF RuleChanges
  <1> QED
    BY <1>1, <1>2, <1>3, <1>4, <1>5, <1>6, <1>7 DEF GuardStep

\* Every step of the daemon keeps the pf guard's invariant.
LEMMA GuardSteps ==
    ASSUME GuardInv, AlertInv, MonitorTypeOK, load \in Loads, [Next]_vars
    PROVE  GuardInv'
  <1>0. GuardTypeOK /\ now \in Nat /\ "unauthorized_pf_rule" \in Types
    BY SeverityOf DEF GuardInv, AlertInv
  <1>1. steady'.since = steady.since /\ Told => Told'
    BY <1>0, HeardForGood DEF Told, WrittenSince
  <1>2. CASE ~Guard /\ ~Others
    <2>1. UNCHANGED guardVars /\ now' \in Nat /\ now' >= now
      BY <1>0, <1>2 DEF Next, Handle, Monitor, Observe, TimePasses, ClockTick, vars
    <2>2. GuardTypeOK'
      BY <1>0, <2>1 DEF GuardTypeOK, guardVars
    <2> QED
      BY <1>1, <2>1, <2>2 DEF GuardInv, BlockingReported, Told, guardVars
  <1>3. CASE Others
    <2>1. RuleChanges(load.changing) /\ now' = now
      BY <1>3 DEF Others
    <2>2. GuardTypeOK'
      BY <1>0, <2>1, GuardTypes
    <2>3. /\ scan' = scan /\ steady'.rules = steady.rules \cap inForce'
          /\ steady'.since = steady.since /\ steady'.passed = steady.passed
      BY <1>0, <2>1 DEF RuleChanges, GuardTypeOK
    <2> QED
      BY <1>1, <2>2, <2>3 DEF GuardInv, BlockingReported, Told
  <1>4. CASE Guard
    <2>1. /\ GuardStep \/ Reported
          /\ now' = now
          /\ Reported \/ UNCHANGED alertVars
      BY <1>4 DEF Guard
    <2>2. GuardTypeOK'
      BY <1>0, <2>1, GuardTypes
    <2>3. CASE ReadMain
      <3>1. /\ steady' = [since |-> now, rules |-> inForce, passed |-> {}]
            /\ inForce' = inForce
            /\ scan'.at = "idle" \/ (scan'.at = "list" /\ scan'.lines = At(Main))
        <4>1. scan'.at = "idle" \/ (scan'.at = "list" /\ scan'.lines = At(Main))
          <5>1. \/ scan' = [at |-> "idle", left |-> {}, lines |-> {}, found |-> {}]
                \/ scan' = [at |-> "list", left |-> {}, lines |-> At(Main), found |-> {}]
            BY <2>3, AfterMain
          <5> QED
            BY <5>1
        <4>2. /\ steady' = [since |-> now, rules |-> inForce, passed |-> {}]
              /\ inForce' = inForce
          BY <2>3 DEF ReadMain
        <4> QED
          BY <4>1, <4>2
      <3>2. /\ \A l \in inForce : l.place = Main => l \in At(Main)
            /\ FindingsIn({}) = {}
        BY DEF At, FindingsIn
      <3>3. BlockingReported'
        BY <3>1, <3>2 DEF BlockingReported
      <3> QED
        BY <2>2, <3>1, <3>2, <3>3 DEF GuardInv
    <2>4. CASE ListAnchors
      <3>1. /\ scan.at = "list" /\ scan'.at = "read" /\ inForce' = inForce
            /\ scan'.lines = scan.lines
            /\ steady'.since = steady.since /\ steady'.passed = steady.passed
            /\ steady'.rules \subseteq steady.rules
            /\ \A l \in steady'.rules : l.place = Main \/ scan'.left = OtherAnchors
        <4>1. /\ scan.at = "list" /\ inForce' = inForce
              /\ \/ scan' = [scan EXCEPT !.at = "read", !.left = OtherAnchors] /\ steady' = steady
                 \/ /\ scan' = [scan EXCEPT !.at = "read"]
                    /\ steady' = [steady EXCEPT !.rules = {l \in @ : l.place = Main}]
          BY <2>4 DEF ListAnchors
        <4>2. CASE scan' = [scan EXCEPT !.at = "read", !.left = OtherAnchors] /\ steady' = steady
          BY <1>0, <4>1, <4>2 DEF GuardTypeOK
        <4>3. CASE /\ scan' = [scan EXCEPT !.at = "read"]
                   /\ steady' = [steady EXCEPT !.rules = {l \in @ : l.place = Main}]
          BY <1>0, <4>1, <4>3 DEF GuardTypeOK
        <4> QED
          BY <4>1, <4>2, <4>3
      <3>2. \A l \in Lines : l.place \in OtherAnchors \union {CastielAnchor, Main}
        BY DEF Lines, Places, OtherAnchors
      <3> QED
        BY <1>0, <1>1, <2>2, <3>1, <3>2 DEF GuardInv, GuardTypeOK, BlockingReported, Told
    <2>5. CASE ReadAnchor
      <3>1. PICK a \in scan.left :
               \/ /\ scan' = [scan EXCEPT !.left = @ \ {a}, !.lines = Appended(At(a))]
                  /\ steady' = steady
               \/ /\ scan' = [scan EXCEPT !.left = @ \ {a}]
                  /\ steady' = [steady EXCEPT !.rules = {l \in @ : l.place # a}]
        BY <2>5 DEF ReadAnchor
      <3>2. /\ scan.at = "read" /\ scan'.at = "read" /\ inForce' = inForce
            /\ scan'.left = scan.left \ {a} /\ scan.lines \subseteq scan'.lines
            /\ steady'.since = steady.since /\ steady'.passed = steady.passed
            /\ steady'.rules \subseteq steady.rules
            /\ \A l \in steady'.rules : l.place = a => l \in scan'.lines
        <4>1. scan.at = "read" /\ inForce' = inForce
          BY <2>5 DEF ReadAnchor
        <4>2. \A l \in steady.rules : l.place = a => l \in Appended(At(a))
          BY DEF GuardInv, At, Appended
        <4>3. scan.lines \subseteq Appended(At(a))
          BY DEF Appended
        <4>4. CASE /\ scan' = [scan EXCEPT !.left = @ \ {a}, !.lines = Appended(At(a))]
                   /\ steady' = steady
          BY <1>0, <4>1, <4>2, <4>3, <4>4 DEF GuardTypeOK
        <4>5. CASE /\ scan' = [scan EXCEPT !.left = @ \ {a}]
                   /\ steady' = [steady EXCEPT !.rules = {l \in @ : l.place # a}]
          BY <1>0, <4>1, <4>5 DEF GuardTypeOK
        <4> QED
          BY <3>1, <4>4, <4>5
      <3> QED
        BY <1>1, <2>2, <3>2 DEF GuardInv, BlockingReported, Told
    <2>6. CASE ScanRules
      <3>1. /\ scan.at = "read" /\ scan.left = {} /\ scan'.at = "report"
            /\ scan'.found = FindingsIn(scan.lines) /\ inForce' = inForce /\ steady' = steady
        BY <2>6 DEF ScanRules, Idle
      <3>2. \A l \in scan.lines : Findings(l) \subseteq FindingsIn(scan.lines)
        BY FindingsOf
      <3> QED
        BY <1>1, <2>2, <3>1, <3>2 DEF GuardInv, BlockingReported, Told
    <2>7. CASE EndScan
      <3>1. /\ scan.at = "report" /\ scan.found = {} /\ scan'.at = "idle" /\ inForce' = inForce
            /\ steady'.since = steady.since /\ steady'.rules = steady.rules
            /\ steady'.passed = {l \in steady.rules : l.place # CastielAnchor}
        BY <1>0, <2>7 DEF EndScan, Idle, GuardTypeOK
      <3>2. FindingsIn(steady'.passed) # {} => \E l \in steady'.passed : Findings(l) # {}
        BY FindingsOf
      <3>3. FindingsIn(steady'.passed) # {} => Told
        BY <3>1, <3>2 DEF GuardInv
      <3> QED
        BY <1>1, <2>2, <3>1, <3>3 DEF GuardInv, BlockingReported, Told
    <2>8. CASE Reported
      <3>1. /\ scan.at = "report" /\ scan'.at = "report" /\ inForce' = inForce /\ steady' = steady
            /\ Send("unauthorized_pf_rule", "critical")
        BY <1>0, <1>4, <2>8 DEF Guard, Reported, GuardStep, ReadMain, ListAnchors, ReadAnchor, GuardTypeOK,
                                ScanRules, EndScan, Severity
      <3>2. WrittenSince("unauthorized_pf_rule", now - AlertWindow)'
        BY <1>0, <2>1, <3>1, Sent, SeverityOf DEF Severity
      <3>3. Told'
        <4>1. AlertTypeOK' /\ steady.since \in Int /\ steady.since <= now
          BY <1>0, AlertStep DEF AlertInv, GuardTypeOK
        <4>2. now - AlertWindow \in Int /\ steady.since - AlertWindow \in Int
              /\ steady.since - AlertWindow <= now - AlertWindow
          BY <1>0, <4>1, AlertAssumption
        <4>3. WrittenSince("unauthorized_pf_rule", steady.since - AlertWindow)'
          BY <1>0, <2>1, <3>1, <3>2, <4>1, <4>2, EarlierStill
        <4> QED
          BY <3>1, <4>3 DEF Told
      <3> QED
        BY <2>2, <3>1, <3>3 DEF GuardInv, BlockingReported, Told
    <2> QED
      BY <2>1, <2>3, <2>4, <2>5, <2>6, <2>7, <2>8 DEF GuardStep
  <1> QED
    BY <1>2, <1>3, <1>4

(* All of it *)

AdmissionInv ==
    /\ RateTypeOK
    /\ AlertInv
    /\ MonitorInv
    /\ GuardInv
    /\ load \in Loads
    /\ pc \in [Queries -> {"new", "admitted", "refused", "done"}]
    /\ raised \in -1..now

Callers == /\ load \in Loads
           /\ pc \in [Queries -> {"new", "admitted", "refused", "done"}]
           /\ raised \in -1..now

\* Queries stay at handleDNS's entry, and no alert is stamped in the future.
LEMMA CallerSteps ==
    ASSUME AlertInv, Callers, [Next]_vars
    PROVE  Callers'
  <1> USE DEF Callers
  <1>0. now \in Nat
    BY DEF AlertInv
  <1>1. CASE \E q \in Queries : Handle(q)
    BY <1>0, <1>1 DEF Handle, Enter, Refuse, Transfer, Raise, Clear, Goto
  <1>2. CASE Monitor \/ Guard \/ Others \/ \E c \in Clients : Observe(c)
    BY <1>2 DEF Monitor, Guard, Others, Observe, queryVars
  <1>3. CASE TimePasses
    BY <1>0, <1>3 DEF TimePasses, ClockTick, queryVars
  <1>4. CASE UNCHANGED vars
    BY <1>4 DEF vars, queryVars
  <1> QED
    BY <1>1, <1>2, <1>3, <1>4 DEF Next

\* The inductive invariant holds when the daemon starts ...
LEMMA AdmissionStart == Init => AdmissionInv
  <1> SUFFICES ASSUME Init PROVE AdmissionInv
    OBVIOUS
  <1>1. RateTypeOK
    <2>1. BucketSize \in Nat
      BY RateAssumption, Signs DEF BucketSize
    <2> QED
      BY <2>1 DEF Init, RateInit, ClockInit, RateTypeOK, Bucket
  <1> QED
    BY <1>1, AlertStart, MonitorStart, GuardStart DEF AdmissionInv, Init, RateInit, ClockInit

\* ... and every step keeps it.
LEMMA AdmissionStep == AdmissionInv /\ [Next]_vars => AdmissionInv'
  <1> SUFFICES ASSUME AdmissionInv, [Next]_vars PROVE AdmissionInv'
    OBVIOUS
  <1>1. MonitorTypeOK /\ AlertInv /\ Callers
    BY DEF AdmissionInv, MonitorInv, Callers
  <1>2. RateTypeOK'
    BY RateSteps, TypeStep DEF AdmissionInv
  <1>3. AlertInv' /\ MonitorInv' /\ GuardInv' /\ Callers'
    BY <1>1, AlertStep, MonitorSteps, GuardSteps, CallerSteps DEF AdmissionInv
  <1> QED
    BY <1>2, <1>3 DEF AdmissionInv, Callers

(* The entry of handleDNS, the alert manager, the monitor and the guard keep  *)
(* their invariants together; the theorems below read them off.               *)
THEOREM AdmissionHolds == Spec => []AdmissionInv
  BY AdmissionStart, AdmissionStep, PTL DEF Spec

\* Buckets, counts, stamps, the monitor's round, the guard's scan and the
\* queries' control state keep their types.
THEOREM AdmissionTypeCorrect == Spec => []TypeOK
  <1>1. AdmissionInv => TypeOK
    BY DEF AdmissionInv, AlertInv, MonitorInv, GuardInv, TypeOK
  <1> QED
    BY <1>1, AdmissionHolds, PTL

\* An alert is suppressed only when alerts of its own type have filled the
\* quota within the last window.
THEOREM SuppressionIsJustified == Spec => []SuppressionJustified
  <1>1. AdmissionInv => SuppressionJustified
    BY FullWhenSuppressed DEF AdmissionInv
  <1> QED
    BY <1>1, AdmissionHolds, PTL

\* No window carries more than two quotas of a type.
THEOREM AlertsAreBounded == Spec => []AlertCeiling
  <1>1. AdmissionInv => AlertCeiling
    BY TwoQuotas DEF AdmissionInv
  <1> QED
    BY <1>1, AdmissionHolds, PTL

\* While an endpoint's probes fail, the user has been told, when they began to
\* or so shortly before that the quota was used up.
THEOREM OutagesAreAnnounced == Spec => []OutageAnnounced
  <1>1. AdmissionInv => OutageAnnounced
    BY DEF AdmissionInv, MonitorInv
  <1> QED
    BY <1>1, AdmissionHolds, PTL

\* A rule that blocks Apple's network and outlives a whole scan is reported,
\* whatever is loaded and flushed elsewhere between the dumps.
THEOREM BlockingIsReported == Spec => []BlockingReported
  <1>1. AdmissionInv => BlockingReported
    BY DEF AdmissionInv, GuardInv
  <1> QED
    BY <1>1, AdmissionHolds, PTL

\* A refused client's alert, once heard, stays heard: every step keeps RefusalsAreHeard.
LEMMA RefusalStep ==
    ASSUME AdmissionInv, MeetsSeverity("warn"), RefusalsAreHeard, [Next]_vars
    PROVE  RefusalsAreHeard'
  <1>1. /\ AlertInv /\ MonitorTypeOK /\ "rate_limit" \in Types /\ now \in Nat
        /\ raised \in -1..now /\ Severity["rate_limit"] = "warn"
    BY SeverityOf DEF AdmissionInv, MonitorInv, AlertInv
  <1>2. CASE raised' = raised
    BY <1>1, <1>2, HeardForGood DEF RefusalsAreHeard, WrittenSince
  <1>3. CASE \E q \in Queries : Handle(q) /\ Refuse(q)
    <2>1. Send("rate_limit", "warn") /\ now' = now /\ raised' = now
      BY <1>1, <1>3 DEF Handle, Refuse, Raise
    <2>2. WrittenSince("rate_limit", now - AlertWindow)'
      BY <1>1, <2>1, Sent
    <2> QED
      BY <2>1, <2>2 DEF RefusalsAreHeard, WrittenSince
  <1>4. \/ raised' = raised
        \/ \E q \in Queries : Handle(q) /\ Refuse(q)
    <2>1. CASE \E q \in Queries : Handle(q)
      BY <1>1, <2>1 DEF Handle, Enter, Transfer, Raise, Clear
    <2>2. CASE ~\E q \in Queries : Handle(q)
      BY <2>2 DEF Next, Monitor, Guard, Others, Observe, TimePasses, vars, queryVars
    <2> QED
      BY <2>1, <2>2
  <1> QED
    BY <1>2, <1>3, <1>4

\* If the configured minimum lets the severity "warn" pass, an ongoing flood is
\* never silent: whenever a query is refused, an alert has been written for
\* that no longer than a window before.
THEOREM RefusalsAreAlwaysHeard ==
    ASSUME MeetsSeverity("warn")
    PROVE  Spec => []RefusalsAreHeard
  <1>1. Init => RefusalsAreHeard
    BY SeverityOf DEF Init, RefusalsAreHeard
  <1>2. AdmissionInv /\ RefusalsAreHeard /\ [Next]_vars => RefusalsAreHeard'
    BY RefusalStep
  <1> QED
    BY <1>1, <1>2, AdmissionHolds, PTL DEF Spec
=============================================================================
