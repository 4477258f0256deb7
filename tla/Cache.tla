-------------------------------- MODULE Cache --------------------------------
(***************************************************************************)
(* The response cache, internal/cache/cache.go, when it is enabled. Put    *)
(* holds the mutex throughout; Get takes it once to look an entry up and   *)
(* once more to delete it, so others may run between the two.              *)
(***************************************************************************)
EXTENDS Clock, FiniteSetsExt

CONSTANTS
    Keys,           \* cacheKey: name and type of the first question
    Responses,      \* records with an rcode and the set of TTLs of the answers
    MaxEntries,     \* cfg.MaxEntries
    DefaultTTL,     \* cfg.DefaultTTL, in ticks
    NegativeTTL,    \* cfg.NegativeTTL, in ticks
    NoTTL,          \* 0xFFFFFFFF, the minimum of no TTLs
    Getters         \* goroutines that call Get

ASSUME CacheAssumption ==
    /\ MaxEntries \in Nat
    /\ DefaultTTL \in Nat /\ NegativeTTL \in Nat /\ NoTTL \in Nat
    /\ \A r \in Responses : r.ttls \subseteq 0..NoTTL

VARIABLES
    entries,        \* the map; an entry also tells when it was put (history)
    get             \* per goroutine: where in Get it is, with what entry

cacheVars == <<now, entries, get>>

LifetimeLongest(r) ==
    IF r.rcode = "nxdomain" THEN NegativeTTL
    ELSE IF Max(r.ttls \union {0}) > 0 THEN Max(r.ttls) ELSE DefaultTTL
\* The TTL an entry gets: a minimum of zero, or none, means the default.
Lifetime(r) ==
    LET minTTL == Min(r.ttls \union {NoTTL})
    IN  IF r.rcode = "nxdomain" THEN NegativeTTL
        ELSE IF minTTL # NoTTL /\ minTTL > 0 THEN minTTL ELSE DefaultTTL

NewEntry(r) == [response |-> r, putAt |-> now, expiresAt |-> now + Lifetime(r)]

Expired(e) == now > e.expiresAt

Holding == DOMAIN entries

\* Get: the lookup under RLock
Lookup(p, k) ==
    /\ get' = [get EXCEPT ![p] =
                IF k \in Holding
                THEN [at |-> "found", key |-> k, entry |-> {entries[k]}]
                ELSE [at |-> "miss", key |-> k, entry |-> {}]]
    /\ UNCHANGED entries

\* Get: the entry is examined without the lock; an unexpired one is served.
Examine(p) ==
    /\ get[p].at = "found"
    /\ get' = [get EXCEPT ![p].at =
                IF \E e \in get[p].entry : Expired(e) THEN "expired" ELSE "hit"]
    /\ UNCHANGED entries

\* Get: the key is deleted under Lock, whatever it holds by now.
Delete(p) ==
    /\ get[p].at = "expired"
    /\ entries' = [k \in Holding \ {get[p].key} |-> entries[k]]
    /\ get' = [get EXCEPT ![p].at = "miss", ![p].entry = {}]

OldestLast == {k \in Holding : \A j \in Holding : entries[k].expiresAt >= entries[j].expiresAt}
\* evictOldest: the first to expire; map order chooses among equals
Oldest == {k \in Holding : \A j \in Holding : entries[k].expiresAt <= entries[j].expiresAt}

FullLate == Cardinality(Holding) > MaxEntries
Full == Cardinality(Holding) >= MaxEntries

\* The keys that may remain when Put has made room, even for one it holds
Remaining ==
    IF Full /\ Holding # {} THEN {Holding \ {k} : k \in Oldest} ELSE {Holding}

Put(k, r) ==
    /\ \E rest \in Remaining :
          entries' = [j \in rest \union {k} |-> IF j = k THEN NewEntry(r) ELSE entries[j]]
    /\ UNCHANGED get

CacheInit ==
    /\ ClockInit
    /\ entries = [k \in {} |-> 0]
    /\ get = [p \in Getters |-> [at |-> "out", entry |-> {}]]

Returned(p) == get[p].at \in {"out", "hit", "miss"}

CacheNext ==
    \/ \E p \in Getters :
          /\ \/ \E k \in Keys : Returned(p) /\ Lookup(p, k)
             \/ Examine(p)
             \/ Delete(p)
          /\ UNCHANGED now
    \/ \E k \in Keys, r \in Responses : Put(k, r) /\ UNCHANGED now
    \/ ClockTick /\ UNCHANGED <<entries, get>>

CacheSpec == CacheInit /\ [][CacheNext]_cacheVars

LongestLife == Max({DefaultTTL, NegativeTTL, NoTTL - 1})

Entry == [response : Responses, putAt : Nat, expiresAt : Nat]

(* Entries are well formed, none outlives the longest lifetime there is, and *)
(* a Get holds an entry exactly while it has found one.                      *)
CacheTypeOK ==
    /\ Holding \subseteq Keys
    /\ \A k \in Holding :
          /\ entries[k] \in Entry
          /\ entries[k].putAt <= now
          /\ entries[k].expiresAt <= now + LongestLife
    /\ \A p \in Getters :
          /\ get[p].at \in {"out", "found", "expired", "hit", "miss"}
          /\ get[p].at # "out" => get[p].key \in Keys
          /\ get[p].entry \subseteq Entry
          /\ Cardinality(get[p].entry) = IF get[p].at \in {"out", "miss"} THEN 0 ELSE 1

(* However calls interleave, the cache holds at most MaxEntries responses    *)
(* (one, when MaxEntries is zero: Put stores after it evicts).               *)
Capacity == Cardinality(Holding) <= Max({MaxEntries, 1})

\* May a response still be given out at this age? By the least TTL of its records.
MayServe(r, age) ==
    IF r.rcode = "nxdomain" THEN age <= NegativeTTL
    ELSE IF r.ttls \subseteq {NoTTL} THEN age <= DefaultTTL
    ELSE \A t \in r.ttls : age <= t

\* The code takes a least TTL of zero for none at all (line 71).
ZeroServed(r, age) == r.rcode # "nxdomain" /\ 0 \in r.ttls /\ age <= DefaultTTL

(* An answer served from the cache is no older than every TTL in it allows,  *)
(* though the clock moves between lookup and examination. The exception is   *)
(* an answer with a TTL of zero, which the code keeps for the default time.  *)
AnswersRespectTTL ==
    [][\A p \in Getters :
          get[p].at = "found" /\ get'[p].at = "hit" =>
              \A e \in get[p].entry :
                  \/ MayServe(e.response, now - e.putAt)
                  \/ ZeroServed(e.response, now - e.putAt)]_cacheVars

Fresh(k) == ~Expired(entries[k])

(* Making room never costs an unexpired response while an expired one stays. *)
EvictionSparesFresh ==
    [][get' = get =>
          \A k \in Holding \ DOMAIN entries' :
              Fresh(k) => \A j \in Holding : now <= entries[j].expiresAt]_cacheVars
=============================================================================
