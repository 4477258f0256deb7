----------------------------- MODULE CacheProofs -----------------------------
(***************************************************************************)
(* For any keys, responses, readers, lifetimes and capacity: what Cache     *)
(* promises of its size and of the age of what it gives out.                *)
(***************************************************************************)
EXTENDS Cache, FiniteSetTheorems, WellFoundedInduction, TLAPS

-----------------------------------------------------------------------------
(* Minima, maxima and lifetimes.                                             *)

\* Min is what its name says on sets of naturals.
LEMMA MinIsLeast ==
    ASSUME NEW S \in SUBSET Nat, S # {}
    PROVE  Min(S) \in S /\ \A x \in S : Min(S) <= x
<1> DEFINE R == OpToRel(<, Nat)
<1>1. PICK m \in S : \A x \in S : <<x, m>> \notin R
  <2>1. IsWellFoundedOn(R, Nat)
    BY NatLessThanWellFounded
  <2>2. S \subseteq Nat
    OBVIOUS
  <2> HIDE DEF R
  <2> QED BY <2>1, <2>2, WFMin
<1>2. \A x \in S : m <= x
  <2>1. R = {p \in Nat \X Nat : p[1] < p[2]}
    BY DEF OpToRel
  <2> HIDE DEF R
  <2>2. ASSUME NEW x \in S PROVE ~(x < m)
    BY <1>1, <2>1
  <2> QED BY <2>2
<1> QED BY <1>2 DEF Min

\* The capacity is that of the configuration, or one.
LEMMA CapacityValue ==
    Max({MaxEntries, 1}) = IF MaxEntries >= 1 THEN MaxEntries ELSE 1
<1> DEFINE m == IF MaxEntries >= 1 THEN MaxEntries ELSE 1
<1>1. m \in {MaxEntries, 1} /\ \A y \in {MaxEntries, 1} : m >= y
  BY CacheAssumption
<1>2. \A x \in {MaxEntries, 1} : (\A y \in {MaxEntries, 1} : x >= y) => x = m
  BY CacheAssumption
<1> QED BY <1>1, <1>2 DEF Max

\* A lifetime is a number of ticks, and a response may be served that long.
LEMMA LifetimeAllows ==
    ASSUME NEW r \in Responses
    PROVE  /\ Lifetime(r) \in Nat
           /\ \A age \in Nat : age <= Lifetime(r) => MayServe(r, age) \/ ZeroServed(r, age)
<1> DEFINE S == r.ttls \union {NoTTL}
<1>1. S \in SUBSET Nat /\ S # {} /\ r.ttls \subseteq 0..NoTTL
  BY CacheAssumption
<1>2. Min(S) \in S /\ \A x \in S : Min(S) <= x
  BY <1>1, MinIsLeast
<1>3. Lifetime(r) \in Nat
  BY <1>1, <1>2, CacheAssumption DEF Lifetime
<1>4. CASE r.rcode = "nxdomain"
  BY <1>3, <1>4 DEF Lifetime, MayServe
<1>5. CASE r.rcode # "nxdomain" /\ r.ttls \subseteq {NoTTL}
  BY <1>2, <1>3, <1>5 DEF Lifetime, MayServe
<1>6. CASE r.rcode # "nxdomain" /\ 0 \in r.ttls
  <2>1. ~(Min(S) # NoTTL /\ Min(S) > 0)
    BY <1>1, <1>2, <1>6
  <2> QED BY <1>3, <1>6, <2>1 DEF Lifetime, ZeroServed
<1>7. CASE r.rcode # "nxdomain" /\ 0 \notin r.ttls /\ ~(r.ttls \subseteq {NoTTL})
  <2>1. Min(S) # NoTTL /\ Min(S) > 0
    <3>1. PICK t \in r.ttls : t # NoTTL
      BY <1>7
    <3>2. t \in 0..NoTTL /\ Min(S) <= t
      BY <1>1, <1>2
    <3>3. Min(S) < NoTTL /\ Min(S) \in r.ttls
      BY <1>1, <1>2, <3>1, <3>2, CacheAssumption
    <3> QED BY <1>1, <1>7, <3>3, CacheAssumption
  <2>2. Lifetime(r) = Min(S)
    BY <1>7, <2>1 DEF Lifetime
  <2>3. ASSUME NEW age \in Nat, age <= Lifetime(r), NEW t \in r.ttls PROVE age <= t
    BY <1>1, <1>2, <2>2, <2>3
  <2> QED BY <1>3, <1>7, <2>3 DEF MayServe
<1> QED BY <1>3, <1>4, <1>5, <1>6, <1>7

\* No lifetime is longer than the longest.
LEMMA LifetimeBounded ==
    ASSUME NEW r \in Responses
    PROVE  LongestLife \in Int /\ Lifetime(r) <= LongestLife
<1> DEFINE S == {DefaultTTL, NegativeTTL, NoTTL - 1}
           m == IF DefaultTTL >= NegativeTTL /\ DefaultTTL >= NoTTL - 1 THEN DefaultTTL
                ELSE IF NegativeTTL >= NoTTL - 1 THEN NegativeTTL ELSE NoTTL - 1
<1>1. m \in S /\ S \subseteq Int /\ \A y \in S : m >= y
  BY CacheAssumption
<1>2. Max(S) \in S /\ \A y \in S : Max(S) >= y
  <2> HIDE DEF S, m
  <2> QED BY <1>1 DEF Max
<1>3. LongestLife \in Int /\ \A y \in S : LongestLife >= y
  BY <1>1, <1>2 DEF LongestLife
<1>4. Lifetime(r) \in {DefaultTTL, NegativeTTL} \/ Lifetime(r) \in 0..(NoTTL - 1)
  <2> DEFINE T == r.ttls \union {NoTTL}
  <2>1. T \in SUBSET Nat /\ T # {} /\ r.ttls \subseteq 0..NoTTL
    BY CacheAssumption
  <2>2. Min(T) \in T
    BY <2>1, MinIsLeast
  <2>3. Min(T) # NoTTL => Min(T) \in 0..(NoTTL - 1)
    BY <2>1, <2>2, CacheAssumption
  <2> QED BY <2>3 DEF Lifetime
<1> QED BY <1>3, <1>4, CacheAssumption

-----------------------------------------------------------------------------
(* The invariant: what the map and the readers hold was put at some time with *)
(* its lifetime, and a reader that is to delete has seen an expired entry.    *)

Good(e) ==
    /\ e \in [response : Responses, putAt : Nat, expiresAt : Nat]
    /\ e.putAt <= now
    /\ e.expiresAt = e.putAt + Lifetime(e.response)

GetRecord ==
    [at : {"out"}, entry : {{}}]
        \union [at : {"found", "expired", "hit", "miss"}, key : Keys, entry : SUBSET Entry]

Small == IsFiniteSet(Holding) /\ Capacity

HoldingGood == Holding \subseteq Keys /\ \A k \in Holding : Good(entries[k])

ReadersGood ==
    /\ get \in [Getters -> GetRecord]
    /\ \A p \in Getters :
          /\ \A e \in get[p].entry : Good(e)
          /\ get[p].at \in {"out", "miss"} => get[p].entry = {}
          /\ get[p].at \in {"found", "expired", "hit"} => \E e \in get[p].entry : get[p].entry = {e}
          /\ get[p].at = "expired" => \E e \in get[p].entry : Expired(e)

CacheInv == now \in Nat /\ Small /\ HoldingGood /\ ReadersGood

\* Assigning to the fields at and entry of a reader leaves its key alone.
LEMMA ReaderStep ==
    ASSUME NEW g \in GetRecord, g.at # "out", NEW a \in {"found", "expired", "hit", "miss"}
    PROVE  /\ [g EXCEPT !.at = a] = [at |-> a, key |-> g.key, entry |-> g.entry]
           /\ [g EXCEPT !.at = a, !.entry = {}] = [at |-> a, key |-> g.key, entry |-> {}]
           /\ g.key \in Keys /\ g.entry \in SUBSET Entry
<1> DEFINE At == {"found", "expired", "hit", "miss"}
           E == SUBSET Entry
<1>1. g \in [at : At, key : Keys, entry : E]
  <2>1. g \notin [at : {"out"}, entry : {{}}]
    OBVIOUS
  <2> HIDE DEF At, E
  <2> QED BY <2>1 DEF GetRecord, At, E
<1> {} \in E /\ a \in At
  OBVIOUS
<1> HIDE DEF At, E
<1>2. [g EXCEPT !.at = a] = [at |-> a, key |-> g.key, entry |-> g.entry]
  BY <1>1
<1>3. [g EXCEPT !.at = a, !.entry = {}] = [at |-> a, key |-> g.key, entry |-> {}]
  <2>1. [g EXCEPT !.at = a, !.entry = {}] = [[g EXCEPT !.at = a] EXCEPT !.entry = {}]
    OBVIOUS
  <2>2. [[at |-> a, key |-> g.key, entry |-> g.entry] EXCEPT !.entry = {}]
           = [at |-> a, key |-> g.key, entry |-> {}]
    BY SMTT(20)
  <2> QED BY <1>2, <2>1, <2>2
<1>4. g.key \in Keys /\ g.entry \in E
  BY <1>1
<1> QED BY <1>2, <1>3, <1>4 DEF E

\* Time passing spoils nothing.
LEMMA GoodLater ==
    ASSUME now \in Nat, now' \in Nat, now <= now', NEW e, Good(e)
    PROVE  Good(e)' /\ (Expired(e) => Expired(e)')
BY DEF Good, Expired

\* Good depends on the clock alone.
LEMMA GoodSame == ASSUME UNCHANGED now, NEW e PROVE (Good(e)' <=> Good(e)) /\ (Expired(e)' <=> Expired(e))
BY DEF Good, Expired

\* One reader changes; the others stay good.
LEMMA OneReader ==
    ASSUME ReadersGood, UNCHANGED now, NEW p \in Getters, NEW g \in GetRecord,
           get' = [get EXCEPT ![p] = g],
           \A e \in g.entry : Good(e),
           g.at \in {"out", "miss"} => g.entry = {},
           g.at \in {"found", "expired", "hit"} => \E e \in g.entry : g.entry = {e},
           g.at = "expired" => \E e \in g.entry : Expired(e)
    PROVE  ReadersGood'
<1>1. get' \in [Getters -> GetRecord]
  BY DEF ReadersGood
<1>2. get'[p] = g /\ \A q \in Getters : q # p => get'[q] = get[q]
  BY DEF ReadersGood
<1>3. GetRecord' = GetRecord
  BY DEF GetRecord, Entry
<1> QED BY <1>1, <1>2, <1>3, GoodSame DEF ReadersGood

\* A call of Get looks its key up.
LEMMA LookupStep ==
    ASSUME CacheInv, UNCHANGED now, NEW p \in Getters, NEW k \in Keys, Lookup(p, k)
    PROVE  CacheInv'
<1>1. Small' /\ HoldingGood' /\ now' \in Nat
  BY GoodSame DEF CacheInv, Lookup, Small, Capacity, Holding, HoldingGood
<1>2. CASE k \in Holding
  <2> DEFINE g == [at |-> "found", key |-> k, entry |-> {entries[k]}]
  <2>1. Good(entries[k]) /\ entries[k] \in Entry
    BY <1>2 DEF CacheInv, HoldingGood, Good, Entry
  <2>2. g \in GetRecord
    BY <2>1 DEF GetRecord
  <2>3. get' = [get EXCEPT ![p] = g]
    BY <1>2 DEF Lookup
  <2>4. g.at = "found" /\ g.entry = {entries[k]}
    OBVIOUS
  <2> HIDE DEF g
  <2>5. ReadersGood'
    BY <2>1, <2>2, <2>3, <2>4, OneReader DEF CacheInv
  <2> QED BY <1>1, <2>5 DEF CacheInv
<1>3. CASE k \notin Holding
  <2> DEFINE g == [at |-> "miss", key |-> k, entry |-> {}]
  <2>1. g \in GetRecord
    BY DEF GetRecord
  <2>2. get' = [get EXCEPT ![p] = g]
    BY <1>3 DEF Lookup
  <2>3. g.at = "miss" /\ g.entry = {}
    OBVIOUS
  <2> HIDE DEF g
  <2>4. ReadersGood'
    BY <2>1, <2>2, <2>3, OneReader DEF CacheInv
  <2> QED BY <1>1, <2>4 DEF CacheInv
<1> QED BY <1>2, <1>3

\* Get examines what it found.
LEMMA ExamineStep ==
    ASSUME CacheInv, UNCHANGED now, NEW p \in Getters, Examine(p)
    PROVE  CacheInv'
<1>1. Small' /\ HoldingGood' /\ now' \in Nat
  BY GoodSame DEF CacheInv, Examine, Small, Capacity, Holding, HoldingGood
<1> DEFINE a == IF \E e \in get[p].entry : Expired(e) THEN "expired" ELSE "hit"
           g == [at |-> a, key |-> get[p].key, entry |-> get[p].entry]
<1>2. get[p] \in GetRecord /\ get[p].at = "found"
  BY DEF CacheInv, ReadersGood, Examine
<1>3. [get[p] EXCEPT !.at = a] = g /\ get[p].key \in Keys /\ get[p].entry \in SUBSET Entry
  BY <1>2, ReaderStep
<1>4. g \in GetRecord
  BY <1>3 DEF GetRecord
<1>5. get' = [get EXCEPT ![p] = g]
  BY <1>3 DEF Examine
<1>6. g.at = a /\ g.entry = get[p].entry
  OBVIOUS
<1>7. /\ \A e \in get[p].entry : Good(e)
      /\ \E e \in get[p].entry : get[p].entry = {e}
  BY <1>2 DEF CacheInv, ReadersGood
<1>8. a \in {"expired", "hit"} /\ (a = "expired" => \E e \in get[p].entry : Expired(e))
  OBVIOUS
<1> HIDE DEF g, a
<1>9. ReadersGood'
  BY <1>4, <1>5, <1>6, <1>7, <1>8, OneReader DEF CacheInv
<1> QED BY <1>1, <1>9 DEF CacheInv

\* A part of what was held, as a function.
LEMMA PartOfHolding ==
    ASSUME NEW S, entries' = [k \in S |-> entries[k]]
    PROVE  Holding' = S /\ \A k \in S : entries'[k] = entries[k]
BY DEF Holding

\* Get deletes its key.
LEMMA DeleteStep ==
    ASSUME CacheInv, UNCHANGED now, NEW p \in Getters, Delete(p)
    PROVE  CacheInv'
<1> DEFINE g == [at |-> "miss", key |-> get[p].key, entry |-> {}]
           S == Holding \ {get[p].key}
<1>1. get[p] \in GetRecord /\ get[p].at = "expired"
  BY DEF CacheInv, ReadersGood, Delete
<1>2. [get[p] EXCEPT !.at = "miss", !.entry = {}] = g /\ get[p].key \in Keys
  BY <1>1, ReaderStep
<1>3. g \in GetRecord /\ g.at = "miss" /\ g.entry = {}
  BY <1>2 DEF GetRecord
<1>4. get' = [get EXCEPT ![p] = g]
  BY <1>1, <1>2 DEF Delete
<1>5. Holding' = S /\ \A k \in S : entries'[k] = entries[k]
  BY PartOfHolding DEF Delete
<1> HIDE DEF g
<1>6. ReadersGood'
  BY <1>3, <1>4, OneReader DEF CacheInv
<1>7. HoldingGood'
  BY <1>5, GoodSame DEF CacheInv, HoldingGood
<1>8. Small'
  <2>1. IsFiniteSet(Holding) /\ Capacity
    BY DEF CacheInv, Small
  <2>2. IsFiniteSet(S) /\ Cardinality(S) <= Cardinality(Holding)
    BY <2>1, FS_Subset
  <2>3. Cardinality(S) \in Nat /\ Cardinality(Holding) \in Nat
    BY <2>1, <2>2, FS_CardinalityType
  <2> QED BY <1>5, <2>1, <2>2, <2>3, CapacityValue, CacheAssumption DEF Small, Capacity
<1> QED BY <1>6, <1>7, <1>8 DEF CacheInv

\* What remains when Put has made room is smaller than the capacity.
LEMMA RoomMade ==
    ASSUME CacheInv, NEW rest \in Remaining
    PROVE  /\ rest \subseteq Holding /\ IsFiniteSet(rest)
           /\ Cardinality(rest) \in Nat
           /\ Cardinality(rest) + 1 <= Max({MaxEntries, 1})
<1>1. IsFiniteSet(Holding) /\ Cardinality(Holding) \in Nat
  BY FS_CardinalityType DEF CacheInv, Small
<1>2. Cardinality(Holding) <= Max({MaxEntries, 1})
  BY DEF CacheInv, Small, Capacity
<1>3. CASE Full /\ Holding # {}
  <2>1. PICK k \in Holding : rest = Holding \ {k}
    BY <1>3 DEF Remaining, Oldest
  <2>2. IsFiniteSet(rest) /\ Cardinality(rest) = Cardinality(Holding) - 1
    BY <1>1, <2>1, FS_RemoveElement
  <2>3. Cardinality(rest) \in Nat
    BY <2>2, FS_CardinalityType
  <2> QED BY <1>1, <1>2, <2>1, <2>2, <2>3, CapacityValue, CacheAssumption
<1>4. CASE ~(Full /\ Holding # {})
  <2>1. rest = Holding
    BY <1>4 DEF Remaining
  <2>2. CASE Holding = {}
    BY <1>1, <2>1, <2>2, FS_EmptySet, CapacityValue, CacheAssumption
  <2>3. CASE ~Full
    BY <1>1, <2>1, <2>3, CapacityValue, CacheAssumption DEF Full
  <2> QED BY <1>4, <2>2, <2>3
<1> QED BY <1>3, <1>4

\* A Put leaves what remains and adds an entry of its own.
LEMMA PutShape ==
    ASSUME NEW k \in Keys, NEW r \in Responses, Put(k, r)
    PROVE  \E rest \in Remaining :
              /\ Holding' = rest \union {k}
              /\ entries'[k] = NewEntry(r)
              /\ \A j \in rest : j # k => entries'[j] = entries[j]
<1>1. PICK rest \in Remaining :
         entries' = [j \in rest \union {k} |-> IF j = k THEN NewEntry(r) ELSE entries[j]]
  BY DEF Put
<1>2. Holding' = rest \union {k}
  BY <1>1 DEF Holding
<1>3. entries'[k] = NewEntry(r)
  BY <1>1
<1>4. \A j \in rest : j # k => entries'[j] = entries[j]
  BY <1>1
<1> QED BY <1>2, <1>3, <1>4

\* A Put of a response keeps the invariant.
LEMMA PutStep ==
    ASSUME CacheInv, UNCHANGED now, NEW k \in Keys, NEW r \in Responses, Put(k, r)
    PROVE  CacheInv'
<1>1. PICK rest \in Remaining :
         /\ Holding' = rest \union {k}
         /\ entries'[k] = NewEntry(r)
         /\ \A j \in rest : j # k => entries'[j] = entries[j]
  BY PutShape
<1>2. /\ rest \subseteq Holding /\ IsFiniteSet(rest) /\ Cardinality(rest) \in Nat
      /\ Cardinality(rest) + 1 <= Max({MaxEntries, 1})
  BY RoomMade
<1>3. Good(NewEntry(r))
  BY LifetimeAllows, CacheAssumption DEF CacheInv, Good, NewEntry
<1>4. HoldingGood'
  BY <1>1, <1>2, <1>3, GoodSame DEF CacheInv, HoldingGood
<1>5. Small'
  <2>1. IsFiniteSet(rest \union {k})
        /\ Cardinality(rest \union {k}) \in {Cardinality(rest), Cardinality(rest) + 1}
    BY <1>2, FS_AddElement
  <2> QED BY <1>1, <1>2, <2>1, CapacityValue, CacheAssumption DEF Small, Capacity
<1>6. ReadersGood'
  <2>1. get' = get /\ GetRecord' = GetRecord
    BY DEF Put, GetRecord, Entry
  <2> QED BY <2>1, GoodSame DEF CacheInv, ReadersGood
<1> QED BY <1>4, <1>5, <1>6 DEF CacheInv

\* The clock moves and nothing else does.
LEMMA TickStep ==
    ASSUME CacheInv, ClockTick, UNCHANGED <<entries, get>>
    PROVE  CacheInv'
<1>1. now \in Nat /\ now' \in Nat /\ now <= now'
  BY DEF CacheInv, ClockTick
<1>2. HoldingGood'
  BY <1>1, GoodLater DEF CacheInv, HoldingGood, Holding
<1>3. ReadersGood'
  <2>1. GetRecord' = GetRecord
    BY DEF GetRecord, Entry
  <2> QED BY <1>1, <2>1, GoodLater DEF CacheInv, ReadersGood
<1> QED BY <1>1, <1>2, <1>3 DEF CacheInv, Small, Capacity, Holding

\* Every step keeps the invariant.
LEMMA CacheStep ==
    ASSUME CacheInv, [CacheNext]_cacheVars
    PROVE  CacheInv'
<1>1. ASSUME NEW p \in Getters, NEW k \in Keys, Lookup(p, k), UNCHANGED now PROVE CacheInv'
  BY <1>1, LookupStep
<1>2. ASSUME NEW p \in Getters, Examine(p), UNCHANGED now PROVE CacheInv'
  BY <1>2, ExamineStep
<1>3. ASSUME NEW p \in Getters, Delete(p), UNCHANGED now PROVE CacheInv'
  BY <1>3, DeleteStep
<1>4. ASSUME NEW k \in Keys, NEW r \in Responses, Put(k, r), UNCHANGED now PROVE CacheInv'
  BY <1>4, PutStep
<1>5. CASE ClockTick /\ UNCHANGED <<entries, get>>
  BY <1>5, TickStep
<1>6. CASE UNCHANGED cacheVars
  BY <1>6, GoodSame
  DEF cacheVars, CacheInv, Small, Capacity, Holding, HoldingGood, ReadersGood, GetRecord, Entry
<1> QED BY <1>1, <1>2, <1>3, <1>4, <1>5, <1>6 DEF CacheNext

\* An empty cache and no reader.
LEMMA CacheStart == CacheInit => CacheInv
<1> SUFFICES ASSUME CacheInit PROVE CacheInv
  OBVIOUS
<1>1. Holding = {} /\ now = 0
  BY DEF CacheInit, ClockInit, Holding
<1>2. Small
  BY <1>1, FS_EmptySet, CapacityValue, CacheAssumption DEF Small, Capacity
<1>3. ReadersGood
  <2> DEFINE g == [at |-> "out", entry |-> {}]
  <2>1. g \in GetRecord /\ g.at = "out" /\ g.entry = {}
    BY DEF GetRecord
  <2>2. get = [p \in Getters |-> g]
    BY DEF CacheInit
  <2> HIDE DEF g
  <2> QED BY <2>1, <2>2 DEF ReadersGood
<1> QED BY <1>1, <1>2, <1>3 DEF CacheInv, HoldingGood

(* The invariant of the cache (cache.go 30-105), for all its constants.      *)
THEOREM CacheInvHolds == CacheSpec => []CacheInv
BY CacheStart, CacheStep, PTL DEF CacheSpec

(* Entries and readers keep their types, and no entry outlives the longest    *)
(* lifetime: Put computes expiresAt from the configuration and the response.  *)
THEOREM CacheTypeCorrect == CacheSpec => []CacheTypeOK
<1>1. CacheInv => CacheTypeOK
  <2> SUFFICES ASSUME CacheInv PROVE CacheTypeOK
    OBVIOUS
  <2>1. ASSUME NEW k \in Holding
        PROVE  /\ entries[k] \in Entry
               /\ entries[k].putAt <= now
               /\ entries[k].expiresAt <= now + LongestLife
    <3>1. Good(entries[k]) /\ now \in Nat
      BY DEF CacheInv, HoldingGood
    <3>2. entries[k].response \in Responses
      BY <3>1 DEF Good
    <3>3. /\ LongestLife \in Int /\ Lifetime(entries[k].response) \in Nat
          /\ Lifetime(entries[k].response) <= LongestLife
      BY <3>2, LifetimeBounded, LifetimeAllows
    <3> QED BY <3>1, <3>3 DEF Good, Entry
  <2>2. ASSUME NEW p \in Getters
        PROVE  /\ get[p].at \in {"out", "found", "expired", "hit", "miss"}
               /\ get[p].at # "out" => get[p].key \in Keys
               /\ get[p].entry \subseteq Entry
               /\ Cardinality(get[p].entry) = IF get[p].at \in {"out", "miss"} THEN 0 ELSE 1
    <3>1. get[p] \in GetRecord
      BY DEF CacheInv, ReadersGood
    <3>2. get[p].at \in {"out", "found", "expired", "hit", "miss"} /\ get[p].entry \subseteq Entry
      BY <3>1 DEF GetRecord
    <3>3. get[p].at # "out" => get[p].key \in Keys
      BY <3>1, ReaderStep
    <3>4. CASE get[p].at \in {"out", "miss"}
      BY <3>2, <3>3, <3>4, FS_EmptySet DEF CacheInv, ReadersGood
    <3>5. CASE get[p].at \in {"found", "expired", "hit"}
      <4>1. PICK e \in get[p].entry : get[p].entry = {e}
        BY <3>5 DEF CacheInv, ReadersGood
      <4>2. Cardinality(get[p].entry) = 1
        BY <4>1, FS_Singleton
      <4> QED BY <3>2, <3>3, <3>5, <4>2
    <3> QED BY <3>2, <3>4, <3>5
  <2> QED BY <2>1, <2>2 DEF CacheTypeOK, CacheInv, HoldingGood
<1> QED BY <1>1, CacheInvHolds, PTL

(* The cache never holds more than MaxEntries responses, or one: Put evicts  *)
(* before it stores, and no Get adds anything.                               *)
THEOREM CapacityHolds == CacheSpec => []Capacity
<1>1. CacheInv => Capacity
  BY DEF CacheInv, Small
<1> QED BY <1>1, CacheInvHolds, PTL

\* How each step of Get changes the readers.
LEMMA ReadersChange ==
    ASSUME CacheInv, NEW p \in Getters
    PROVE  /\ \A k \in Keys : Lookup(p, k) =>
                 /\ get'[p].at \in {"found", "miss"}
                 /\ get'[p].entry \subseteq {entries[j] : j \in Holding}
                 /\ \A q \in Getters \ {p} : get'[q] = get[q]
           /\ Examine(p) =>
                 /\ get'[p].at = IF \E e \in get[p].entry : Expired(e) THEN "expired" ELSE "hit"
                 /\ get'[p].entry = get[p].entry
                 /\ \A q \in Getters \ {p} : get'[q] = get[q]
           /\ Delete(p) =>
                 /\ get'[p].at = "miss" /\ get'[p].entry = {}
                 /\ \A q \in Getters \ {p} : get'[q] = get[q]
<1>1. get \in [Getters -> GetRecord] /\ get[p] \in GetRecord
  BY DEF CacheInv, ReadersGood
<1>2. ASSUME NEW k \in Keys, Lookup(p, k)
      PROVE  /\ get'[p].at \in {"found", "miss"}
             /\ get'[p].entry \subseteq {entries[j] : j \in Holding}
             /\ \A q \in Getters \ {p} : get'[q] = get[q]
  BY <1>1, <1>2 DEF Lookup
<1>3. ASSUME Examine(p)
      PROVE  /\ get'[p].at = IF \E e \in get[p].entry : Expired(e) THEN "expired" ELSE "hit"
             /\ get'[p].entry = get[p].entry
             /\ \A q \in Getters \ {p} : get'[q] = get[q]
  <2> DEFINE a == IF \E e \in get[p].entry : Expired(e) THEN "expired" ELSE "hit"
  <2>1. get' = [get EXCEPT ![p] = [get[p] EXCEPT !.at = a]]
    BY <1>3 DEF Examine
  <2>2. get[p].at # "out"
    BY <1>3 DEF Examine
  <2>3. a \in {"found", "expired", "hit", "miss"}
    OBVIOUS
  <2> HIDE DEF a
  <2>4. [get[p] EXCEPT !.at = a] = [at |-> a, key |-> get[p].key, entry |-> get[p].entry]
    BY <1>1, <2>2, <2>3, ReaderStep
  <2>5. /\ get'[p].at = a /\ get'[p].entry = get[p].entry
        /\ \A q \in Getters \ {p} : get'[q] = get[q]
    BY <1>1, <2>1, <2>4
  <2> QED BY <2>5 DEF a
<1>4. ASSUME Delete(p)
      PROVE  /\ get'[p].at = "miss" /\ get'[p].entry = {}
             /\ \A q \in Getters \ {p} : get'[q] = get[q]
  <2>1. get' = [get EXCEPT ![p] = [get[p] EXCEPT !.at = "miss", !.entry = {}]]
    BY <1>4 DEF Delete
  <2>2. get[p].at # "out"
    BY <1>4 DEF Delete
  <2>3. [get[p] EXCEPT !.at = "miss", !.entry = {}]
           = [at |-> "miss", key |-> get[p].key, entry |-> {}]
    BY <1>1, <2>2, ReaderStep
  <2> QED BY <1>1, <2>1, <2>3
<1> QED BY <1>2, <1>3, <1>4

(* What Get gives out is no older than the least of its TTLs, or than the     *)
(* default where that is zero or there is none, whatever happens between its  *)
(* lookup and its examination of the entry.                                   *)
THEOREM AgesRespected == CacheSpec => AnswersRespectTTL
<1> DEFINE Young == \A p \in Getters :
                get[p].at = "found" /\ get'[p].at = "hit" =>
                    \A e \in get[p].entry :
                        \/ MayServe(e.response, now - e.putAt)
                        \/ ZeroServed(e.response, now - e.putAt)
<1>1. CacheInv /\ [CacheNext]_cacheVars => [Young]_cacheVars
  <2> SUFFICES ASSUME CacheInv, CacheNext,
                      NEW p \in Getters, get[p].at = "found", get'[p].at = "hit",
                      NEW e \in get[p].entry
               PROVE  MayServe(e.response, now - e.putAt) \/ ZeroServed(e.response, now - e.putAt)
    OBVIOUS
  <2>1. PICK q \in Getters : get'[q] # get[q]
    OBVIOUS
  <2>2. get' # get
    BY <2>1
  <2>3. Examine(p)
    BY <2>2, ReadersChange DEF CacheNext, Put
  <2>4. ~Expired(e)
    BY <2>3, ReadersChange
  <2>5. Good(e) /\ now \in Nat
    BY DEF CacheInv, ReadersGood
  <2>6. now - e.putAt \in Nat /\ now - e.putAt <= Lifetime(e.response)
    BY <2>4, <2>5, LifetimeAllows DEF Good, Expired
  <2> QED BY <2>5, <2>6, LifetimeAllows DEF Good
<1> QED BY <1>1, CacheInvHolds, PTL DEF CacheSpec, AnswersRespectTTL

(* A Put that evicts takes an unexpired response only when all are unexpired. *)
THEOREM EvictionIsFair == CacheSpec => EvictionSparesFresh
<1> DEFINE Fair == get' = get =>
                \A k \in Holding \ DOMAIN entries' :
                    Fresh(k) => \A j \in Holding : now <= entries[j].expiresAt
<1>1. CacheInv /\ [CacheNext]_cacheVars => [Fair]_cacheVars
  <2> SUFFICES ASSUME CacheInv, CacheNext, get' = get,
                      NEW k \in Holding, k \notin Holding', Fresh(k), NEW j \in Holding
               PROVE  now <= entries[j].expiresAt
    BY DEF Holding
  <2>1. entries' # entries
    BY DEF Holding
  <2>2. ASSUME NEW p \in Getters, Delete(p) PROVE FALSE
    BY <2>2, ReadersChange DEF Delete
  <2>3. PICK l \in Keys, r \in Responses : Put(l, r)
    BY <2>1, <2>2 DEF CacheNext, Lookup, Examine
  <2>4. PICK rest \in Remaining : Holding' = rest \union {l}
    BY <2>3, PutShape
  <2>5. k \in Oldest
    BY <2>4 DEF Remaining, Oldest
  <2>6. now \in Nat /\ Good(entries[k]) /\ Good(entries[j])
    BY DEF CacheInv, HoldingGood
  <2>7. now <= entries[k].expiresAt
    BY <2>6 DEF Fresh, Expired, Good
  <2> QED BY <2>5, <2>6, <2>7 DEF Oldest, Good
<1> QED BY <1>1, CacheInvHolds, PTL DEF CacheSpec, EvictionSparesFresh
=============================================================================
