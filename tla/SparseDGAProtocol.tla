-------------------------- MODULE SparseDGAProtocol --------------------------
(***************************************************************************)
(* How handleDNS uses the sparse-DGA detector: one RecordQuery(.., false)   *)
(* per arriving query (proxy.go 323), then at most one RecordQuery(.., true)*)
(* for the same query (proxy.go 505). The variables beside the detector's   *)
(* map count the queries between the two calls.                             *)
(***************************************************************************)
EXTENDS SparseDGA

VARIABLES
    open,       \* open[c]: queries in flight that the current window has counted
    old,        \* old[c]: queries in flight that an earlier window counted
    carried     \* carried[c]: NXDOMAINs of the current window from old queries

sparseVars == <<now, clients, open, old, carried>>

\* A window of client c begins: what was open belongs to an earlier one.
NewWindow(c, opened, answered) ==
    /\ open' = [open EXCEPT ![c] = opened]
    /\ old' = [old EXCEPT ![c] = @ + open[c] - answered]
    /\ carried' = [carried EXCEPT ![c] = answered]

Arrive(c, n) ==
    /\ RecordQuery(c, n, FALSE)
    /\ IF Rolls(clients[c])
       THEN NewWindow(c, 1, 0)
       ELSE open' = [open EXCEPT ![c] = @ + 1] /\ UNCHANGED <<old, carried>>
    /\ UNCHANGED now

AnswerNX(c, n) ==
    /\ open[c] + old[c] > 0
    /\ RecordQuery(c, n, TRUE)
    /\ \/ Rolls(clients[c]) /\ NewWindow(c, 0, 1)
       \/ /\ ~Rolls(clients[c]) /\ open[c] > 0
          /\ open' = [open EXCEPT ![c] = @ - 1]
          /\ UNCHANGED <<old, carried>>
       \/ /\ ~Rolls(clients[c]) /\ old[c] > 0
          /\ old' = [old EXCEPT ![c] = @ - 1]
          /\ carried' = [carried EXCEPT ![c] = @ + 1]
          /\ UNCHANGED open
    /\ UNCHANGED now

\* Any other end of a query: blocked, from the cache, failed, another rcode
AnswerOther(c) ==
    /\ \/ open[c] > 0 /\ open' = [open EXCEPT ![c] = @ - 1] /\ UNCHANGED old
       \/ old[c] > 0 /\ old' = [old EXCEPT ![c] = @ - 1] /\ UNCHANGED open
    /\ UNCHANGED <<now, clients, carried>>

Forget ==
    LET gone(c) == clients[c].total > 0 /\ Forgotten(clients[c]) IN
    /\ SparseCleanup
    /\ open' = [c \in Clients |-> IF gone(c) THEN 0 ELSE open[c]]
    /\ old' = [c \in Clients |-> IF gone(c) THEN old[c] + open[c] ELSE old[c]]
    /\ carried' = [c \in Clients |-> IF gone(c) THEN 0 ELSE carried[c]]
    /\ UNCHANGED now

SparseInit ==
    /\ ClockInit
    /\ clients = [c \in Clients |-> NoHistory]
    /\ open = [c \in Clients |-> 0]
    /\ old = [c \in Clients |-> 0]
    /\ carried = [c \in Clients |-> 0]

SparseNext ==
    \/ \E c \in Clients, n \in Names : Arrive(c, n) \/ AnswerNX(c, n)
    \/ \E c \in Clients : AnswerOther(c)
    \/ Forget
    \/ ClockTick /\ UNCHANGED <<clients, open, old, carried>>

SparseSpec == SparseInit /\ [][SparseNext]_sparseVars

(* Types of the detector's map and of the counts of queries in flight.       *)
SparseTypeOK ==
    /\ now \in Nat
    /\ clients \in [Clients -> History]
    /\ open \in [Clients -> Nat]
    /\ old \in [Clients -> Nat]
    /\ carried \in [Clients -> Nat]

(* Each NXDOMAIN query is counted twice in total and once in nx, and each    *)
(* query still open once in total. So nx can pass half of total only by      *)
(* answers to queries of an earlier window.                                  *)
NXAtMostHalf ==
    \A c \in Clients : 2 * clients[c].nx + open[c] <= clients[c].total + carried[c]

(* A client is flagged only with at least (2*ratio - 1)*total answers that   *)
(* straggled in from an earlier window: with the default ratio of 0.6 an     *)
(* infected client whose every name fails is not flagged for that.           *)
FlagNeedsStragglers ==
    \A c \in Clients :
        Analyze(c) => carried[c] * RatioDen >= (2 * RatioNum - RatioDen) * clients[c].total
=============================================================================
