-------------------------- MODULE RateLimiterProofs --------------------------
(***************************************************************************)
(* Proofs about RateLimiter, for every refill rate, tick length and number  *)
(* of clients. All three invariants say what a bucket would hold if it were *)
(* refilled now, so the proofs go by how Tokens(c) moves in each action.    *)
(***************************************************************************)
EXTENDS RateLimiter, TLAPS

\* The two products of the module, one step further.
LEMMA OneMore ==
    ASSUME NEW m \in Int, NEW n \in Int
    PROVE  /\ (m + 1) * n = m * n + n
           /\ n * (m + 1) = n * m + n
           /\ (m - m) * n = 0 /\ n * 0 = 0
  OBVIOUS

\* The products the bucket arithmetic is made of are natural.
LEMMA Signs ==
    ASSUME NEW m \in Nat, NEW n \in Nat
    PROVE  m * n \in Nat
  OBVIOUS

\* What a bucket would hold now is never in debt nor above the bucket's size.
LEMMA TokensInRange ==
    ASSUME RateTypeOK, NEW c \in Clients
    PROVE  Tokens(c) \in 0..BucketSize
  <1>1. BucketSize \in Nat
    BY RateAssumption, Signs DEF BucketSize
  <1>2. /\ buckets[c] \in Bucket /\ now - buckets[c].last \in Nat
        /\ buckets[c].tokens \in 0..BucketSize
    BY DEF RateTypeOK, Bucket
  <1>3. (now - buckets[c].last) * PerIPQPS \in Nat
    BY <1>2, RateAssumption, Signs
  <1> QED
    BY <1>1, <1>2, <1>3 DEF Tokens, Refilled, AtMost, Bucket

\* Allow and the passing of time keep the buckets well typed.
LEMMA TypeStep ==
    ASSUME RateTypeOK, [RateNext]_rateVars
    PROVE  RateTypeOK'
  <1>1. BucketSize \in Nat
    BY RateAssumption, Signs DEF BucketSize
  <1>2. CASE \E c \in Clients : Check(c) /\ UNCHANGED now
    <2>1. PICK c \in Clients : Check(c) /\ UNCHANGED now
      BY <1>2
    <2>2. Spent(c) \in Bucket /\ Spent(c).tokens \in 0..BucketSize /\ Spent(c).last = now
      BY <1>1, TokensInRange, RateAssumption DEF Spent, Costs, Allows, Bucket, RateTypeOK
    <2>3. watch' \in [Clients -> [since : Nat, allowed : Nat]]
              /\ \A d \in Clients : watch'[d].since = watch[d].since
      BY <2>1 DEF Check, RateTypeOK
    <2> QED
      BY <2>1, <2>2, <2>3 DEF Check, RateTypeOK
  <1>3. CASE \E c \in Clients : Watch(c) /\ UNCHANGED <<now, buckets>>
    BY <1>3 DEF Watch, RateTypeOK
  <1>4. CASE ClockTick /\ UNCHANGED <<buckets, watch>>
    BY <1>4 DEF ClockTick, RateTypeOK, Bucket
  <1>5. CASE UNCHANGED rateVars
    BY <1>5 DEF rateVars, RateTypeOK
  <1> QED
    BY <1>2, <1>3, <1>4, <1>5 DEF RateNext

\* Types hold for every rate and number of clients: no bucket goes into debt
\* and none is refilled above its size, however Check and the clock interleave.
THEOREM RateTypeCorrect == RateSpec => []RateTypeOK
  <1>1. RateInit => RateTypeOK
    <2>1. BucketSize \in Nat
      BY RateAssumption, Signs DEF BucketSize
    <2> QED
      BY <2>1 DEF RateInit, ClockInit, RateTypeOK, Bucket
  <1> QED
    BY <1>1, TypeStep, PTL DEF RateSpec

-----------------------------------------------------------------------------

\* Besides the ceiling, the floor: what was allowed and what is left together
\* are at least what was earned, or a full bucket if that is less.
Floor(c) == Second * watch[c].allowed + Tokens(c) >= AtMost(Earned(c), BucketSize)
Ceiling(c) == Second * watch[c].allowed + Tokens(c) <= BucketSize + Earned(c)

ShareInv == RateTypeOK /\ \A c \in Clients : Floor(c) /\ Ceiling(c)

\* A check spends what it allows: allowed queries and tokens keep their sum.
LEMMA CheckKeepsSum ==
    ASSUME RateTypeOK, NEW c \in Clients, Check(c), UNCHANGED now, RateTypeOK'
    PROVE  /\ Second * watch'[c].allowed + Tokens(c)' = Second * watch[c].allowed + Tokens(c)
           /\ Earned(c)' = Earned(c)
  <1>1. Tokens(c) \in 0..BucketSize /\ BucketSize \in Nat
    BY TokensInRange, RateAssumption, Signs DEF BucketSize
  <1>2. buckets'[c] = Spent(c) /\ now' = now /\ now \in Nat
    BY DEF Check, RateTypeOK
  <1>3. Tokens(c)' = Tokens(c) - Costs(c)
    <2>1. Tokens(c)' = AtMost(Tokens(c) - Costs(c) + (now - now) * PerIPQPS, BucketSize)
      BY <1>2 DEF Tokens, Refilled, Spent, AtMost, BucketSize
    <2>2. (now - now) * PerIPQPS = 0
      BY <1>2, OneMore, RateAssumption
    <2> QED
      BY <1>1, <2>1, <2>2, RateAssumption DEF AtMost, Costs, Allows
  <1>4. watch[c].allowed \in Nat /\ watch[c].since \in Nat /\ watch'[c].since = watch[c].since
        /\ watch'[c].allowed = IF Allows(c) THEN watch[c].allowed + 1 ELSE watch[c].allowed
    BY DEF Check, RateTypeOK
  <1>5. Second * (watch[c].allowed + 1) = Second * watch[c].allowed + Second
    BY <1>4, OneMore, RateAssumption
  <1>6. Second * watch[c].allowed \in Nat
    BY <1>4, Signs, RateAssumption
  <1> QED
    BY <1>1, <1>2, <1>3, <1>4, <1>5, <1>6, RateAssumption DEF Costs, Earned

\* A tick earns PerIPQPS, for the observer and for a bucket that is not full.
LEMMA TickEarns ==
    ASSUME RateTypeOK, NEW c \in Clients, ClockTick, UNCHANGED <<buckets, watch>>
    PROVE  /\ Tokens(c)' = AtMost(Tokens(c) + PerIPQPS, BucketSize)
           /\ Earned(c)' = Earned(c) + PerIPQPS
  <1>1. /\ now' = now + 1 /\ now \in Nat
        /\ buckets[c] \in Bucket /\ now - buckets[c].last \in Int
        /\ watch[c].since \in Nat /\ now - watch[c].since \in Int
    BY DEF ClockTick, RateTypeOK, Bucket
  <1>2. (now' - buckets[c].last) * PerIPQPS = (now - buckets[c].last) * PerIPQPS + PerIPQPS
    <2>1. now' - buckets[c].last = (now - buckets[c].last) + 1
      BY <1>1 DEF Bucket
    <2> QED
      BY <1>1, <2>1, OneMore, RateAssumption
  <1>3. (now' - watch[c].since) * PerIPQPS = (now - watch[c].since) * PerIPQPS + PerIPQPS
    <2>1. now' - watch[c].since = (now - watch[c].since) + 1
      BY <1>1
    <2> QED
      BY <1>1, <2>1, OneMore, RateAssumption
  <1>4. /\ (now - buckets[c].last) * PerIPQPS \in Int
        /\ BucketSize \in Nat /\ buckets[c].tokens \in Int /\ PerIPQPS \in Nat
    BY <1>1, RateAssumption, Signs DEF Bucket, BucketSize
  <1> QED
    BY <1>2, <1>3, <1>4 DEF Tokens, Refilled, AtMost, Earned, BucketSize

\* Allow and the passing of time keep both bounds on what a client got through.
LEMMA ShareStep ==
    ASSUME ShareInv, [RateNext]_rateVars
    PROVE  ShareInv'
  <1> USE DEF ShareInv
  <1>1. RateTypeOK'
    BY TypeStep
  <1>2. BucketSize \in Nat /\ PerIPQPS \in Nat /\ Second \in Nat
    BY RateAssumption, Signs DEF BucketSize
  <1>3. SUFFICES ASSUME NEW c \in Clients
                 PROVE  Floor(c)' /\ Ceiling(c)'
    BY <1>1
  <1>4. /\ Tokens(c) \in 0..BucketSize
        /\ watch[c].allowed \in Nat /\ Second * watch[c].allowed \in Nat
        /\ now - watch[c].since \in Nat /\ Earned(c) \in Nat
    BY TokensInRange, Signs, <1>2 DEF RateTypeOK, Earned
  <1>5. ASSUME UNCHANGED <<now, buckets[c], watch[c]>>
        PROVE  Floor(c)' /\ Ceiling(c)'
    BY <1>5 DEF Floor, Ceiling, Tokens, Refilled, Earned, AtMost, BucketSize
  <1>6. CASE \E d \in Clients : Check(d) /\ UNCHANGED now
    <2>1. PICK d \in Clients : Check(d) /\ UNCHANGED now
      BY <1>6
    <2>2. CASE d = c
      BY <1>1, <1>2, <1>4, <2>1, <2>2, CheckKeepsSum DEF Floor, Ceiling, BucketSize, AtMost
    <2>3. CASE d # c
      BY <1>5, <2>1, <2>3 DEF Check, RateTypeOK
    <2> QED
      BY <2>2, <2>3
  <1>7. CASE \E d \in Clients : Watch(d) /\ UNCHANGED <<now, buckets>>
    <2>1. PICK d \in Clients : Watch(d) /\ UNCHANGED <<now, buckets>>
      BY <1>7
    <2>2. CASE d = c
      <3>1. /\ Tokens(c)' = Tokens(c)
            /\ Earned(c)' = 0 /\ Second * watch'[c].allowed = 0
        <4>1. watch'[c] = [since |-> now, allowed |-> 0] /\ now' = now /\ buckets' = buckets
          BY <2>1, <2>2 DEF Watch, RateTypeOK
        <4>2. (now - now) * PerIPQPS = 0 /\ Second * 0 = 0
          BY OneMore, <1>2 DEF RateTypeOK
        <4> QED
          BY <4>1, <4>2 DEF Tokens, Refilled, Earned, AtMost, BucketSize
      <3> QED
        BY <1>2, <1>4, <3>1 DEF Floor, Ceiling, AtMost, BucketSize
    <2>3. CASE d # c
      BY <1>5, <2>1, <2>3 DEF Watch, RateTypeOK
    <2> QED
      BY <2>2, <2>3
  <1>8. CASE ClockTick /\ UNCHANGED <<buckets, watch>>
    <2>1. /\ Tokens(c)' = AtMost(Tokens(c) + PerIPQPS, BucketSize)
          /\ Earned(c)' = Earned(c) + PerIPQPS
          /\ Second * watch'[c].allowed = Second * watch[c].allowed
          /\ BucketSize' = BucketSize
      BY <1>8, TickEarns DEF BucketSize
    <2>2. Floor(c) /\ Ceiling(c)
      OBVIOUS
    <2> QED
      BY <1>2, <1>4, <2>1, <2>2 DEF Floor, Ceiling, AtMost
  <1>9. CASE UNCHANGED rateVars
    BY <1>5, <1>9 DEF rateVars
  <1> QED
    BY <1>6, <1>7, <1>8, <1>9 DEF RateNext

\* Nobody has got anything through at the start.
LEMMA ShareStart == RateInit => ShareInv
  <1> SUFFICES ASSUME RateInit PROVE ShareInv
    OBVIOUS
  <1>1. BucketSize \in Nat /\ PerIPQPS \in Nat /\ Second \in Nat
    BY RateAssumption, Signs DEF BucketSize
  <1>2. RateTypeOK
    BY <1>1 DEF RateInit, ClockInit, RateTypeOK, Bucket
  <1>3. ASSUME NEW c \in Clients PROVE Floor(c) /\ Ceiling(c)
    <2>1. Tokens(c) = BucketSize /\ Earned(c) = 0 /\ Second * watch[c].allowed = 0
      <3>1. (0 - 0) * PerIPQPS = 0 /\ Second * 0 = 0
        BY OneMore, <1>1
      <3> QED
        BY <3>1 DEF RateInit, ClockInit, Tokens, Refilled, Earned
    <2> QED
      BY <1>1, <2>1 DEF Floor, Ceiling, AtMost
  <1> QED
    BY <1>2, <1>3 DEF ShareInv

(* What a client gets through stays between its floor and its ceiling.        *)
THEOREM SharesHold == RateSpec => []ShareInv
  BY ShareStart, ShareStep, PTL DEF RateSpec

\* Whatever moment one counts from, a client gets through at most one full
\* bucket plus PerIPQPS per second.
THEOREM CeilingHolds == RateSpec => []RateCeiling
  <1>1. ShareInv => RateCeiling
    BY DEF ShareInv, Ceiling, RateCeiling
  <1> QED
    BY <1>1, SharesHold, PTL

\* A client is refused only when it has had its share: what it earned since any
\* chosen moment, or a full bucket if that is less, minus less than one query.
THEOREM RefusalsAreFair == RateSpec => []RefusedOnlyOverShare
  <1>1. ShareInv => RefusedOnlyOverShare
    <2> SUFFICES ASSUME ShareInv, NEW c \in Clients, ~Allows(c)
                 PROVE  Second * watch[c].allowed + Second > AtMost(Earned(c), BucketSize)
      BY DEF RefusedOnlyOverShare
    <2>1. /\ BucketSize \in Nat /\ Second \in Nat /\ PerIPQPS \in Nat
          /\ Tokens(c) \in 0..BucketSize
          /\ Second * watch[c].allowed \in Nat /\ Earned(c) \in Nat
      <3>1. BucketSize \in Nat /\ PerIPQPS \in Nat /\ Second \in Nat
        BY RateAssumption, Signs DEF BucketSize
      <3>2. watch[c].allowed \in Nat /\ now - watch[c].since \in Nat
        BY DEF ShareInv, RateTypeOK
      <3> QED
        BY <3>1, <3>2, TokensInRange, Signs DEF ShareInv, Earned
    <2> QED
      BY <2>1 DEF ShareInv, Floor, Allows, AtMost
  <1> QED
    BY <1>1, SharesHold, PTL
=============================================================================
