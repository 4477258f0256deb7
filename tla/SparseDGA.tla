------------------------------ MODULE SparseDGA ------------------------------
(***************************************************************************)
(* The sparse-DGA detector, internal/detectors/sparse_dga.go: per client,  *)
(* the share of NXDOMAIN answers in a window. handleDNS calls RecordQuery  *)
(* when a query arrives and once more when its answer is NXDOMAIN.         *)
(***************************************************************************)
EXTENDS Clock, FiniteSets

CONSTANTS
    Clients,
    Names,          \* query names
    SparseWindow,   \* ticks
    RatioNum,       \* nxdomainRatio = RatioNum / RatioDen
    RatioDen,
    MinQueries,
    MinUnique

ASSUME SparseAssumption ==
    /\ SparseWindow \in Nat \ {0}
    /\ RatioNum \in Nat
    /\ RatioDen \in Nat \ {0}
    /\ MinQueries \in Nat \ {0}
    /\ MinUnique \in Nat

VARIABLE clients    \* the map; a total of 0 stands for a client not in it

History == [total : Nat, nx : Nat, names : SUBSET Names, first : Nat, last : Nat]

NoHistory == [total |-> 0, nx |-> 0, names |-> {}, first |-> 0, last |-> 0]

One(isNX) == IF isNX THEN 1 ELSE 0

\* RecordQuery starts a new window instead of adding to the old one
Rolls(h) == h.total = 0 \/ now - h.first > SparseWindow

Counted(h, n, isNX) ==
    [total |-> h.total + 1, nx |-> h.nx + One(isNX), names |-> h.names \cup {n},
     first |-> h.first, last |-> now]

RecordQuery(c, n, isNX) ==
    clients' = [clients EXCEPT ![c] =
        IF Rolls(@)
        THEN [total |-> 1, nx |-> One(isNX), names |-> {n}, first |-> now, last |-> now]
        ELSE Counted(@, n, isNX)]

\* Analyze returns a finding; it changes nothing, so it is a predicate that may
\* be evaluated between any two steps.
Analyze(c) ==
    LET h == clients[c] IN
    /\ now - h.first <= SparseWindow
    /\ h.total >= MinQueries
    /\ Cardinality(h.names) >= MinUnique
    /\ h.nx * RatioDen >= RatioNum * h.total

Forgotten(h) == h.last < now - 2 * SparseWindow

SparseCleanup ==
    clients' = [c \in Clients |-> IF Forgotten(clients[c]) THEN NoHistory ELSE clients[c]]
=============================================================================
