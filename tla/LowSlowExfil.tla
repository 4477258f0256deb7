---------------------------- MODULE LowSlowExfil -----------------------------
(***************************************************************************)
(* internal/detectors/lowslow_exfil.go: what is asked under one apex domain *)
(* in a tumbling window. A handler calls RecordQuery, then Analyze, in two   *)
(* critical sections; Cleanup is a goroutine of its own.                     *)
(***************************************************************************)
EXTENDS Handler

CONSTANTS
    ApexOf,         \* ExtractApexDomain, per name
    MaxSubdomains,  \* distinct names that are too many (50)
    ExfilWindow,    \* the window (24 hours)
    BeaconTimes,    \* query times that regularity needs (10)
    BeaconQueries,  \* queries that a beacon needs (20)
    HighVolume,     \* queries that are a high volume (500) ...
    FewNames        \* ... when there are less names than this (5)

Apexes == {ApexOf[n] : n \in Names}

ASSUME ExfilAssumption ==
    /\ MaxSubdomains \in Nat \ {0} /\ ExfilWindow \in Nat \ {0}
    /\ BeaconTimes \in Nat \ 0..2

VARIABLES
    exfil,      \* domains: what is known per apex; total = 0 stands for no entry
    asked,      \* history: when each name was last recorded; -1 never
    leak        \* history: when the handler recorded, and what Analyze said

exfilVars == <<exfil, asked, leak>>

NoExfil == [names |-> {}, times |-> <<>>, total |-> 0, first |-> 0, last |-> 0]

Expired(s) == now - s.first > ExfilWindow

\* The query times of the window that ends now
Pruned(times) ==
    LET kept[i \in 0..Len(times)] ==
            IF i = 0 THEN <<>>
            ELSE IF times[i] > now - ExfilWindow THEN Append(kept[i - 1], times[i])
            ELSE kept[i - 1]
    IN  kept[Len(times)]

CountedOnce(s) == 1
Counted(s) == s.total + 1

Recorded(s, n) ==
    IF s.total = 0 \/ Expired(s)
    THEN [names |-> {n}, times |-> <<now>>, total |-> 1, first |-> now, last |-> now]
    ELSE [names |-> s.names \union {n},
          times |-> Pruned(Append(s.times, now)),
          total |-> Counted(s), first |-> s.first, last |-> now]

\* 5e. RecordQuery
RecordExfil(q) ==
    /\ At(q, "lowslow")
    /\ LET n == query[q].name IN
          /\ exfil' = [exfil EXCEPT ![ApexOf[n]] = Recorded(@, n)]
          /\ asked' = [asked EXCEPT ![n] = now]
    /\ leak' = [leak EXCEPT ![q] = [recorded |-> now, late |-> FALSE, reason |-> "pending"]]
    /\ Proceed(q)
    /\ UNCHANGED <<query, answer, config>>

\* A regularity of 0.7 or more: the deviation of the intervals is at most 3/7
\* of their mean. In integers, and with an exact square root.
Regular(times) ==
    LET n == Len(times) - 1
        span == times[n + 1] - times[1]
        Off(i) == n * (times[i + 1] - times[i]) - span
    IN  span > 0 /\ 49 * MapThenSumSet(LAMBDA i : Off(i) * Off(i), 1..n) <= 9 * n * span * span

ManyNamesOneMore(s) == Cardinality(s.names) > MaxSubdomains
ManyNames(s) == Cardinality(s.names) >= MaxSubdomains

Reason(s) ==
    IF s.total = 0 \/ Expired(s) THEN "none"
    ELSE IF ManyNames(s) THEN "many_subdomains"
    ELSE IF Len(s.times) >= BeaconTimes /\ s.total >= BeaconQueries /\ Regular(s.times)
         THEN "beaconing"
    ELSE IF s.total >= HighVolume /\ Cardinality(s.names) < FewNames THEN "high_volume"
    ELSE "none"

\* Analyze; handleDNS alerts and goes on.
AnalyzeExfil(q) ==
    /\ At(q, "leak")
    /\ leak' = [leak EXCEPT ![q].late = now > leak[q].recorded,
                            ![q].reason = Reason(exfil[ApexOf[query[q].name]])]
    /\ Proceed(q)
    /\ UNCHANGED <<query, answer, config, exfil, asked>>

CleanupExfil ==
    /\ exfil' = [a \in Apexes |->
          IF exfil[a].last < now - 2 * ExfilWindow THEN NoExfil ELSE exfil[a]]
    /\ UNCHANGED <<asked, leak, handlerVars>>

ExfilInit ==
    /\ exfil = [a \in Apexes |-> NoExfil]
    /\ asked = [n \in Names |-> -1]
    /\ leak = [q \in Queries |-> [recorded |-> 0, late |-> FALSE, reason |-> "none"]]

ExfilTypeOK ==
    /\ \A a \in Apexes :
          /\ exfil[a].names \subseteq Names /\ exfil[a].total \in Nat
          /\ exfil[a].first \in 0..exfil[a].last /\ exfil[a].last \in 0..now
          /\ Len(exfil[a].times) <= exfil[a].total
    /\ asked \in [Names -> -1..now]

Under(a) == {n \in Names : ApexOf[n] = a /\ asked[n] >= 0 /\ now - asked[n] <= ExfilWindow}

(* Names in plenty under one apex within the window are reported, although   *)
(* the window tumbles: with twice the threshold, less one, some query of     *)
(* that window has been reported, unless one is still between RecordQuery and *)
(* Analyze, or was there while the clock moved on.                           *)
SlowLeakCaught ==
    \A a \in Apexes :
        Cardinality(Under(a)) >= 2 * MaxSubdomains - 1 =>
            \E q \in Queries :
                /\ ApexOf[query[q].name] = a /\ now - leak[q].recorded <= ExfilWindow
                /\ leak[q].reason \in {"pending", "many_subdomains"} \/ leak[q].late
=============================================================================
