----------------------------- MODULE RateLimiter -----------------------------
(***************************************************************************)
(* The token bucket per client address, internal/detectors/ratelimit.go.   *)
(* One mutex, so Check is one atomic step. Tokens are counted in units of  *)
(* 1/Second, so that a tick refills PerIPQPS units and a query costs Second *)
(* of them; the code keeps the same quantity as a float64.                  *)
(***************************************************************************)
EXTENDS Clock

CONSTANTS
    Clients,
    PerIPQPS,   \* tokens per second, and the bucket's size
    Second      \* ticks in a second

ASSUME RateAssumption ==
    /\ PerIPQPS \in Nat
    /\ Second \in Nat \ {0}

VARIABLES
    buckets,    \* the map; `known` tells whether the client is in it
    watch       \* history: queries allowed since a moment an observer chose

rateVars == <<now, buckets, watch>>

Bucket == [known : BOOLEAN, tokens : Int, last : Nat]

BucketSize == PerIPQPS * Second

AtMost(n, m) == IF n > m THEN m ELSE n

RefilledUncapped(b) ==
    IF b.known THEN b.tokens + (now - b.last) * PerIPQPS ELSE BucketSize
RefilledNever(b) == IF b.known THEN b.tokens ELSE BucketSize
\* What the bucket holds when Check has refilled it: a new client starts full.
Refilled(b) ==
    IF b.known THEN AtMost(b.tokens + (now - b.last) * PerIPQPS, BucketSize) ELSE BucketSize

Tokens(c) == Refilled(buckets[c])

\* Check returns ActionAllow
Allows(c) == Tokens(c) >= Second

CostsAlways(c) == Second
Costs(c) == IF Allows(c) THEN Second ELSE 0

Spent(c) == [known |-> TRUE, tokens |-> Tokens(c) - Costs(c), last |-> now]

Check(c) ==
    /\ buckets' = [buckets EXCEPT ![c] = Spent(c)]
    /\ watch' = [watch EXCEPT ![c].allowed = IF Allows(c) THEN @ + 1 ELSE @]

\* The observer starts counting the queries of c, at any time.
Watch(c) == watch' = [watch EXCEPT ![c] = [since |-> now, allowed |-> 0]]

RateInit ==
    /\ ClockInit
    /\ buckets = [c \in Clients |-> [known |-> FALSE, tokens |-> 0, last |-> 0]]
    /\ watch = [c \in Clients |-> [since |-> 0, allowed |-> 0]]

RateNext ==
    \/ \E c \in Clients : Check(c) /\ UNCHANGED now
    \/ \E c \in Clients : Watch(c) /\ UNCHANGED <<now, buckets>>
    \/ ClockTick /\ UNCHANGED <<buckets, watch>>

RateSpec == RateInit /\ [][RateNext]_rateVars

(* Types; a bucket is never in debt and never above its size.                *)
RateTypeOK ==
    /\ now \in Nat
    /\ buckets \in [Clients -> Bucket]
    /\ \A c \in Clients : buckets[c].tokens \in 0..BucketSize /\ buckets[c].last <= now
    /\ watch \in [Clients -> [since : Nat, allowed : Nat]]
    /\ \A c \in Clients : watch[c].since <= now

\* What the bucket earned since the observer began
Earned(c) == (now - watch[c].since) * PerIPQPS

(* From whatever moment one counts, a client gets through at most one full   *)
(* bucket plus PerIPQPS per second: bursts never add up over calls.          *)
RateCeiling ==
    \A c \in Clients : Second * watch[c].allowed + Tokens(c) <= BucketSize + Earned(c)

(* A client is refused only after its fair share: whoever is refused now has *)
(* had what it earned since the observer began, or a full bucket if less,    *)
(* minus less than one query.                                                *)
RefusedOnlyOverShare ==
    \A c \in Clients :
        ~Allows(c) => Second * watch[c].allowed + Second > AtMost(Earned(c), BucketSize)
=============================================================================
