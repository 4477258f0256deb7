------------------------------ MODULE FastFlux -------------------------------
(***************************************************************************)
(* The two detectors behind c2_detection: fastflux.go, one critical section *)
(* per call, and the older C2Detector of rebinding_c2.go, which has no lock: *)
(* its calls are not atomic, and the runtime may end the process when it     *)
(* finds two of them in one map. Both only alert. FastFluxDetector.Cleanup   *)
(* has no caller.                                                           *)
(***************************************************************************)
EXTENDS Handler

CONSTANTS
    MinIPCount,             \* cfg.MinIPCount
    TTLThreshold,           \* cfg.TTLVolatilityThreshold
    RotationLimit,          \* new addresses per rotation window that are not too many (3)
    Several,                \* addresses without which nothing rotates (3)
    RotationWindow,         \* rotationWindow (an hour)
    MaxIPAge                \* maxIPAge (24 hours)

Addresses == UNION {r.ips \union r.ns : r \in UNION {c.answers : c \in Configs}}

ASSUME FluxAssumption ==
    /\ {MinIPCount, Several} \subseteq Nat \ {0} /\ RotationLimit \in Nat
    /\ IsFiniteSet(Addresses)
    /\ \A c \in Configs : \A r \in c.answers : r.ttl \in Nat
    /\ RotationWindow \in Nat /\ MaxIPAge >= RotationWindow

VARIABLES
    flux,       \* FastFluxDetector.domains
    c2,         \* C2Detector.domainTracker
    writing,    \* handlers within C2Detector.TrackResponse; did they find an entry?
    aborted,    \* the runtime has ended the process
    firstSeen,  \* history: when an address was first seen for a name; -1 never
    findings    \* history: what the two detectors found for each query, and when

fluxVars == <<flux, c2, writing, aborted, firstSeen, findings>>

NoFlux == [seen |-> {}, history |-> {}, ns |-> {}, nsHistory |-> {}, minTTL |-> 0, maxTTL |-> 0]
NoC2 == [seen |-> {}, minTTL |-> 0, maxTTL |-> 0]

Sightings(ips) == {[ip |-> i, at |-> now] : i \in ips}
Recent(history, age) == {s \in history : s.at > now - age}

MinTTL(min, ttl) == IF ttl > 0 /\ (ttl < min \/ min = 0) THEN ttl ELSE min
MaxTTL(max, ttl) == IF ttl > max THEN ttl ELSE max

NewIPsAll(f, ips) == ips
NewIPs(f, ips) == ips \ f.seen

TrackedForgetful(f, r) ==
    LET kept == Recent(f.history \union Sightings(NewIPs(f, r.ips)), MaxIPAge) IN
    [f EXCEPT !.seen = {s.ip : s \in kept}, !.history = kept]
Tracked(f, r) ==
    [f EXCEPT !.seen = @ \union r.ips,
              !.history = Recent(@ \union Sightings(NewIPs(f, r.ips)), MaxIPAge),
              !.minTTL = MinTTL(@, r.ttl),
              !.maxTTL = MaxTTL(@, r.ttl)]

TrackedNS(f, r) ==
    [f EXCEPT !.ns = @ \union r.ns,
              !.nsHistory = @ \union Sightings(r.ns \ f.ns)]

\* 8e. FastFluxDetector.TrackResponse
TrackFlux(q) ==
    /\ At(q, "fluxTrack")
    /\ flux' = [flux EXCEPT ![query[q].name] = Tracked(@, answer[q])]
    /\ firstSeen' = [firstSeen EXCEPT ![query[q].name] =
          [i \in DOMAIN @ |-> IF i \in answer[q].ips /\ @[i] = -1 THEN now ELSE @[i]]]
    /\ Proceed(q)
    /\ UNCHANGED <<query, answer, config, c2, writing, aborted, findings>>

\* TrackNameservers; it is not called without addresses in the extra section.
TrackNameservers(q) ==
    /\ At(q, "nsTrack")
    /\ flux' = [flux EXCEPT ![query[q].name] = TrackedNS(@, answer[q])]
    /\ Proceed(q)
    /\ UNCHANGED <<query, answer, config, c2, writing, aborted, firstSeen, findings>>

\* The first check that hits, in the order of Analyze
FluxReason(f) ==
    LET n == Cardinality(f.seen) IN
    IF n >= MinIPCount THEN "ip_count"
    ELSE IF Cardinality(Recent(f.history, RotationWindow)) > RotationLimit /\ n >= Several
         THEN "ip_rotation"
    ELSE IF f.minTTL > 0 /\ f.minTTL < TTLThreshold /\ n >= Several THEN "ttl_volatility"
    ELSE IF Cardinality(Recent(f.nsHistory, RotationWindow)) >= Several THEN "double_flux"
    ELSE "none"

\* 6a. FastFluxDetector.Analyze; handleDNS alerts and goes on.
AnalyzeFlux(q) ==
    /\ At(q, "flux")
    /\ findings' = [findings EXCEPT ![q] = [@ EXCEPT !.flux = FluxReason(flux[query[q].name]), !.at = now]]
    /\ Proceed(q)
    /\ UNCHANGED <<query, answer, config, flux, c2, writing, aborted, firstSeen>>

\* Unlocked maps: with another handler writing, the call may be the last one.
Collides(q) ==
    /\ \E p \in Queries \ {q} : writing[p] # {}
    /\ aborted' = TRUE
    /\ UNCHANGED <<flux, c2, writing, firstSeen, findings, handlerVars>>

C2Reason(s) ==
    IF Cardinality(s.seen) >= MinIPCount THEN "ip_count"
    ELSE IF s.minTTL > 0 /\ s.minTTL < TTLThreshold THEN "ttl_volatility"
    ELSE "none"

\* 6. C2Detector.IsSuspicious
SuspectC2(q) ==
    /\ At(q, "c2")
    /\ \/ Collides(q)
       \/ /\ findings' = [findings EXCEPT ![q].c2 = C2Reason(c2[query[q].name])]
          /\ Proceed(q)
          /\ UNCHANGED <<query, answer, config, flux, c2, writing, aborted, firstSeen>>

\* C2Detector.TrackResponse looks the entry up ...
BeginTrackC2(q) ==
    /\ At(q, "c2Track") /\ writing[q] = {}
    /\ \/ Collides(q)
       \/ /\ writing' = [writing EXCEPT ![q] = {c2[query[q].name] # NoC2}]
          /\ UNCHANGED <<flux, c2, aborted, firstSeen, findings, handlerVars>>

TrackedC2(s, r) ==
    [seen |-> s.seen \union r.ips, minTTL |-> MinTTL(s.minTTL, r.ttl), maxTTL |-> MaxTTL(s.maxTTL, r.ttl)]

\* ... and updates it. A handler that found none puts one in its place, which
\* forgets what another has put there; of two that write, one may lose.
Outcomes(q) ==
    LET s == c2[query[q].name] IN
    {TrackedC2(s, answer[q])}
        \union (IF FALSE \in writing[q] THEN {TrackedC2(NoC2, answer[q])} ELSE {})
        \union (IF \E p \in Queries \ {q} : writing[p] # {} THEN {s} ELSE {})

EndTrackC2(q) ==
    /\ At(q, "c2Track") /\ writing[q] # {}
    /\ \/ Collides(q)
       \/ /\ \E s \in Outcomes(q) : c2' = [c2 EXCEPT ![query[q].name] = s]
          /\ writing' = [writing EXCEPT ![q] = {}]
          /\ Proceed(q)
          /\ UNCHANGED <<query, answer, config, flux, aborted, firstSeen, findings>>

FluxInit ==
    /\ flux = [n \in Names |-> NoFlux]
    /\ c2 = [n \in Names |-> NoC2]
    /\ writing = [q \in Queries |-> {}]
    /\ aborted = FALSE
    /\ firstSeen = [n \in Names |-> [i \in Addresses |-> -1]]
    /\ findings = [q \in Queries |-> [c2 |-> "none", flux |-> "none", at |-> 0]]

FluxTypeOK ==
    /\ \A n \in Names :
          /\ {s.ip : s \in flux[n].history} \subseteq flux[n].seen
          /\ flux[n].seen \union c2[n].seen \subseteq Addresses
          /\ flux[n].minTTL <= flux[n].maxTTL /\ c2[n].minTTL <= c2[n].maxTTL
    /\ writing \in [Queries -> SUBSET BOOLEAN]
    /\ aborted \in BOOLEAN

(* "How quickly IPs change": a rotation is only reported when more addresses *)
(* than the limit were seen for the first time within the rotation window,    *)
(* not when a few known ones take turns.                                     *)
RotationIsNew ==
    \A q \in Queries :
        findings[q].flux = "ip_rotation" =>
            Cardinality({i \in Addresses :
                LET t == firstSeen[query[q].name][i] IN
                t \in 0..findings[q].at /\ t > findings[q].at - RotationWindow}) > RotationLimit

(* The older detector loses addresses when handlers race, the newer one does  *)
(* not: a name the older suspects for its addresses is reported by the newer. *)
OldFindingsConfirmed ==
    \A q \in Queries :
        findings[q].c2 = "ip_count" /\ Rank[pc[q]] > Rank["flux"] =>
            findings[q].flux = "ip_count"
=============================================================================
