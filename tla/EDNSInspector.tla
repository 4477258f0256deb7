---------------------------- MODULE EDNSInspector ----------------------------
(***************************************************************************)
(* internal/detectors/edns.go: Inspect looks at the options of a query one  *)
(* by one and returns the first finding. cooldownPassed and markAlert lock   *)
(* the mutex one after the other, so handlers interleave between them. The   *)
(* map of client subnets is written and never read; it is left out.         *)
(***************************************************************************)
EXTENDS Handler

CONSTANTS
    Benign,         \* options without a finding that StripEDNSOptions keeps
    AlertCooldown   \* alertCooldown (5 minutes)

\* A client subnet of the wrong family, one of another network than the
\* client's, a cookie that is too long, a code of no RFC: one alert key each.
Suspicious == {"family", "mismatch", "cookie", "unknown"}

\* StripEDNSOptions also removes a client subnet that is in order.
Options == Benign \union Suspicious \union {"subnet"}

ASSUME EDNSAssumption ==
    /\ AlertCooldown \in Nat /\ Benign \cap Suspicious = {}
    /\ \A c \in Configs : \A q \in Queries : \A a \in c.asks[q] : a.opts \subseteq Options

VARIABLES
    marked,     \* the alert maps: when the last alert was raised; -1 never
    opts,       \* the options in each query's message
    scan        \* Inspect: the options still to be looked at, the alert to be marked,
                \* and (history) when Inspect began; -1 if it has not

ednsVars == <<marked, opts, scan>>

CooldownPassedAnyone(c, o) ==
    \A d \in Clients : marked[d][o] = -1 \/ now - marked[d][o] > AlertCooldown
CooldownPassed(c, o) == marked[c][o] = -1 \/ now - marked[c][o] > AlertCooldown

Strip(os) == os \ (Suspicious \union {"subnet"})

EDNSInit ==
    /\ marked = [c \in Clients |-> [o \in Suspicious |-> -1]]
    /\ opts = [q \in Queries |-> {}]
    /\ scan = [q \in Queries |-> [todo |-> {}, mark |-> {}, since |-> -1]]

\* The message of a query comes with its options.
Carries(q, os) ==
    /\ opts' = [opts EXCEPT ![q] = os]
    /\ scan' = [scan EXCEPT ![q].todo = os]
    /\ UNCHANGED marked

\* One option; during its cooldown a suspicious one is passed over.
InspectOption(q) ==
    /\ At(q, "edns") /\ scan[q].mark = {}
    /\ \E o \in scan[q].todo :
          scan' = [scan EXCEPT ![q] =
              [todo |-> @.todo \ {o},
               mark |-> {p \in {o} \cap Suspicious : CooldownPassed(query[q].client, p)},
               since |-> IF @.since = -1 THEN now ELSE @.since]]
    /\ UNCHANGED <<marked, opts, handlerVars>>

\* The finding: handleDNS alerts and strips the message, if it is to.
Report(q) ==
    /\ At(q, "edns")
    /\ \E o \in scan[q].mark : marked' = [marked EXCEPT ![query[q].client][o] = now]
    /\ scan' = [scan EXCEPT ![q].todo = {}, ![q].mark = {}]
    /\ opts' = [opts EXCEPT ![q] = IF config.strip THEN Strip(@) ELSE @]
    /\ Proceed(q)
    /\ UNCHANGED <<query, answer, config>>

NoFinding(q) ==
    /\ At(q, "edns") /\ scan[q].todo = {} /\ scan[q].mark = {}
    /\ Proceed(q)
    /\ UNCHANGED <<query, answer, config, ednsVars>>

EDNSTypeOK ==
    /\ marked \in [Clients -> [Suspicious -> -1..now]]
    /\ opts \in [Queries -> SUBSET Options]
    /\ scan \in [Queries -> [todo : SUBSET Options, mark : SUBSET Suspicious, since : -1..now]]

(* StripEDNSOptions "prevents exfiltrated data from reaching" upstream: with *)
(* stripping on, a query is only forwarded with a suspicious option when an   *)
(* alert for that option of that client was in its cooldown at the inspection. *)
LeaksOnlyInCooldown ==
    \A q \in Queries :
        /\ Feature["edns"] \in config.on /\ config.strip
        /\ Rank[pc[q]] > Rank["edns"]
        => \A o \in opts[q] \cap Suspicious :
               /\ marked[query[q].client][o] >= 0
               /\ marked[query[q].client][o] >= scan[q].since - AlertCooldown
=============================================================================
