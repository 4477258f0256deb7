--------------------------- MODULE TrackingProofs ----------------------------
(***************************************************************************)
(* Proofs about the two per-query histories: the NXDOMAIN tracker under any *)
(* calls (NXSpec), the sparse-DGA detector under the protocol of its calls  *)
(* (SparseSpec), and handleDNS, which makes no other calls than these, with *)
(* the history of NXDOMAINs that the tracker's counts stand for.            *)
(***************************************************************************)
EXTENDS QueryTracking, FiniteSetTheorems, TLAPS

nxVars == <<now, counters>>

-----------------------------------------------------------------------------
(* The NXDOMAIN tracker.                                                     *)

\* A counter after one more NXDOMAIN, field by field.
LEMMA NXStep ==
    ASSUME NXTypeOK, NEW c \in Counter
    PROVE  /\ AfterNX(c) \in Counter
           /\ AfterNX(c).last = now
           /\ \/ AfterNX(c).count = 1 /\ AfterNX(c).first = now /\ ~AfterNX(c).blocked
              \/ /\ ~Stale(c) /\ Present(c)
                 /\ AfterNX(c).count = c.count + 1 /\ AfterNX(c).first = c.first
                 /\ IF Exceeds(c.count + 1)
                    THEN AfterNX(c).blocked /\ AfterNX(c).until = now + Window
                    ELSE AfterNX(c).blocked = c.blocked /\ AfterNX(c).until = c.until
<1> USE NXAssumption DEF Counter
<1>1. now \in Nat
  BY DEF NXTypeOK
<1>2. CASE ~(Present(c) /\ ~Stale(c))
  <2>1. AfterNX(c) = FirstNX
    BY <1>2 DEF AfterNX
  <2> QED BY <2>1, <1>1 DEF FirstNX
<1>3. CASE Present(c) /\ ~Stale(c)
  <2>1. AfterNX(c) = NextNX(c)
    BY <1>3 DEF AfterNX
  <2>2. CASE Exceeds(c.count + 1)
    <3>1. NextNX(c) = [count |-> c.count + 1, first |-> c.first, last |-> now,
                       blocked |-> TRUE, until |-> now + Window]
      BY <2>2 DEF NextNX, BlockEnd
    <3> QED BY <2>1, <2>2, <3>1, <1>1, <1>3
  <2>3. CASE ~Exceeds(c.count + 1)
    <3>1. NextNX(c) = [count |-> c.count + 1, first |-> c.first, last |-> now,
                       blocked |-> c.blocked, until |-> c.until]
      BY <2>3 DEF NextNX
    <3> QED BY <2>1, <2>3, <3>1, <1>1, <1>3
  <2> QED BY <2>2, <2>3
<1> QED BY <1>2, <1>3

(* Types of the tracker hold whatever is called, whenever.                   *)
THEOREM NXTypeCorrect == NXSpec => []NXTypeOK
<1> USE ClockAssumption, NXAssumption
<1>1. NXInit => NXTypeOK
  BY DEF NXInit, ClockInit, NXTypeOK, Counter, Absent
<1>2. NXTypeOK /\ [NXNext]_nxVars => NXTypeOK'
  <2> SUFFICES ASSUME NXTypeOK, [NXNext]_nxVars PROVE NXTypeOK'
    OBVIOUS
  <2>1. ASSUME NEW d \in Domains, RecordNXDomain(d), UNCHANGED now PROVE NXTypeOK'
    <3>1. counters[d] \in Counter
      BY DEF NXTypeOK
    <3> DEFINE c == AfterNX(counters[d])
    <3>2. c \in Counter /\ c.last = now /\ c.first <= now
      <4>1. counters[d].first <= now
        BY <3>1 DEF NXTypeOK, Counter
      <4> QED BY <3>1, <4>1, NXStep DEF NXTypeOK
    <3>3. counters' = [counters EXCEPT ![d] = c]
      BY <2>1 DEF RecordNXDomain
    <3> HIDE DEF c
    <3> QED BY <2>1, <3>2, <3>3 DEF NXTypeOK
  <2>2. ASSUME NEW d \in Domains, IsBlocked(d), UNCHANGED now PROVE NXTypeOK'
    BY <2>2 DEF IsBlocked, NXTypeOK, Counter
  <2>3. CASE NXCleanup /\ UNCHANGED now
    BY <2>3 DEF NXCleanup, NXTypeOK, Counter, Absent
  <2>4. CASE ClockTick /\ UNCHANGED counters
    BY <2>4 DEF ClockTick, NXTypeOK, Counter
  <2>5. CASE UNCHANGED nxVars
    BY <2>5 DEF nxVars, NXTypeOK
  <2> QED BY <2>1, <2>2, <2>3, <2>4, <2>5 DEF NXNext
<1>3. QED BY <1>1, <1>2, PTL DEF NXSpec, nxVars

\* What a counter remembers of its blocks. A block runs Window past the last
\* NXDOMAIN; a counter past the threshold whose block is gone is past its
\* window too, so the next NXDOMAIN replaces it.
ShapeOf(c) ==
    /\ c.blocked => Exceeds(c.count) /\ c.until = c.last + Window
    /\ Exceeds(c.count) /\ ~c.blocked => Stale(c)
    /\ c.count = 0 => c = Absent

BlockShape == \A d \in Domains : ShapeOf(counters[d])

(* BlockShape is inductive relative to the types.                            *)
THEOREM BlockShapeHolds == NXSpec => []BlockShape
<1> USE ClockAssumption, NXAssumption
<1>1. NXInit => BlockShape
  BY DEF NXInit, ClockInit, BlockShape, ShapeOf, Absent, Exceeds
<1>2. NXTypeOK /\ BlockShape /\ [NXNext]_nxVars => BlockShape'
  <2> SUFFICES ASSUME NXTypeOK, BlockShape, [NXNext]_nxVars PROVE BlockShape'
    OBVIOUS
  <2>1. ASSUME NEW d \in Domains, RecordNXDomain(d), UNCHANGED now PROVE BlockShape'
    <3> DEFINE c == counters[d]
               e == AfterNX(counters[d])
    <3>1. counters[d] \in Counter /\ ShapeOf(counters[d])
      BY DEF NXTypeOK, BlockShape
    <3>2. ShapeOf(e)
      <4>1. CASE e.count = 1 /\ e.first = now /\ ~e.blocked
        BY <4>1 DEF ShapeOf, Exceeds
      <4>2. CASE /\ ~Stale(c) /\ e.count = c.count + 1 /\ e.last = now
                 /\ Exceeds(c.count + 1) /\ e.blocked /\ e.until = now + Window
        BY <3>1, <4>2 DEF ShapeOf, Counter
      <4>3. CASE /\ ~Stale(c) /\ e.count = c.count + 1 /\ ~Exceeds(c.count + 1)
                 /\ e.blocked = c.blocked
        BY <3>1, <4>3 DEF ShapeOf, Counter, Exceeds
      <4> QED BY <3>1, <4>1, <4>2, <4>3, NXStep
    <3>3. counters' = [counters EXCEPT ![d] = e]
      BY <2>1 DEF RecordNXDomain
    <3>4. ASSUME NEW r \in Domains PROVE ShapeOf(counters[r])'
      <4>1. counters[r]' = IF r = d THEN e ELSE counters[r]
        BY <3>3 DEF NXTypeOK
      <4>2. ShapeOf(IF r = d THEN e ELSE counters[r])
        BY <3>2 DEF BlockShape
      <4> HIDE DEF e
      <4> QED BY <2>1, <4>1, <4>2 DEF ShapeOf, Stale
    <3> QED BY <3>4 DEF BlockShape
  <2>2. ASSUME NEW d \in Domains, IsBlocked(d), UNCHANGED now PROVE BlockShape'
    <3>1. CASE counters' = counters
      BY <2>2, <3>1 DEF BlockShape, ShapeOf, Stale
    <3>2. CASE /\ counters[d].blocked /\ now > counters[d].until
               /\ counters' = [counters EXCEPT ![d].blocked = FALSE]
      <4>1. Exceeds(counters[d].count) /\ Stale(counters[d])
        BY <3>2 DEF NXTypeOK, BlockShape, ShapeOf, Stale, Counter
      <4> QED BY <2>2, <3>2, <4>1
          DEF NXTypeOK, BlockShape, ShapeOf, Stale, Counter, Exceeds
    <3> QED BY <2>2, <3>1, <3>2 DEF IsBlocked
  <2>3. CASE NXCleanup /\ UNCHANGED now
    BY <2>3 DEF NXCleanup, NXTypeOK, BlockShape, ShapeOf, Stale, Counter, Exceeds, Absent
  <2>4. CASE ClockTick /\ UNCHANGED counters
    BY <2>4 DEF ClockTick, NXTypeOK, BlockShape, ShapeOf, Stale, Counter
  <2>5. CASE UNCHANGED nxVars
    BY <2>5 DEF nxVars, BlockShape, ShapeOf, Stale
  <2> QED BY <2>1, <2>2, <2>3, <2>4, <2>5 DEF NXNext
<1>3. QED BY <1>1, <1>2, NXTypeCorrect, PTL DEF NXSpec, nxVars

(* Cleanup drops a counter more than two windows after its last NXDOMAIN, and *)
(* a block ends one window after it.                                          *)
THEOREM CleanupIsSafe == NXSpec => CleanupSparesBlocks
<1> DEFINE Spares == \A d \in Domains :
                        BlockInForce(d) /\ now' = now => Present(counters'[d])
<1>1. NXTypeOK /\ BlockShape /\ [NXNext]_nxVars => [Spares]_nxVars
  <2> SUFFICES ASSUME NXTypeOK, BlockShape, NXNext, now' = now,
                      NEW d \in Domains, BlockInForce(d)
               PROVE  Present(counters'[d])
    BY DEF nxVars
  <2> USE ClockAssumption, NXAssumption
      DEF NXTypeOK, Counter, BlockShape, ShapeOf, Exceeds, Present, BlockInForce
  <2>1. ASSUME NEW e \in Domains, RecordNXDomain(e) PROVE Present(counters'[d])
    BY <2>1 DEF RecordNXDomain, AfterNX, NextNX, FirstNX, BlockEnd, Absent
  <2>2. ASSUME NEW e \in Domains, IsBlocked(e) PROVE Present(counters'[d])
    BY <2>2 DEF IsBlocked
  <2>3. CASE NXCleanup
    BY <2>3 DEF NXCleanup, IdleTooLong
  <2>4. CASE ClockTick
    BY <2>4 DEF ClockTick
  <2> QED BY <2>1, <2>2, <2>3, <2>4 DEF NXNext
<1>2. QED BY <1>1, NXTypeCorrect, BlockShapeHolds, PTL
          DEF NXSpec, nxVars, CleanupSparesBlocks

(* After a block has run out, the domain starts again from nothing.          *)
THEOREM BlocksBeginAtThreshold == NXSpec => BlockBeginsAtThreshold
<1> DEFINE Begins == \A d \in Domains :
                        ~counters[d].blocked /\ counters'[d].blocked
                           => counters[d].count = Threshold
<1>1. NXTypeOK /\ BlockShape /\ [NXNext]_nxVars => [Begins]_nxVars
  <2> SUFFICES ASSUME NXTypeOK, BlockShape, NXNext, NEW d \in Domains,
                      ~counters[d].blocked, counters'[d].blocked
               PROVE  counters[d].count = Threshold
    BY DEF nxVars
  <2> USE ClockAssumption, NXAssumption
      DEF NXTypeOK, Counter, BlockShape, ShapeOf, Exceeds, Stale, Present
  <2>1. ASSUME NEW e \in Domains, RecordNXDomain(e) PROVE counters[d].count = Threshold
    BY <2>1 DEF RecordNXDomain, AfterNX, NextNX, FirstNX, BlockEnd, Absent
  <2>2. ASSUME NEW e \in Domains, IsBlocked(e) PROVE FALSE
    BY <2>2 DEF IsBlocked
  <2>3. CASE NXCleanup
    BY <2>3 DEF NXCleanup, Absent
  <2>4. CASE ClockTick /\ UNCHANGED counters
    BY <2>4
  <2> QED BY <2>1, <2>2, <2>3, <2>4 DEF NXNext
<1>2. QED BY <1>1, NXTypeCorrect, BlockShapeHolds, PTL
          DEF NXSpec, nxVars, BlockBeginsAtThreshold

-----------------------------------------------------------------------------
(* The sparse-DGA detector.                                                  *)

\* The history of a client after one more RecordQuery.
LEMMA HistoryStep ==
    ASSUME Protocol!SparseTypeOK, NEW h \in Protocol!History, NEW n \in Names, NEW isNX \in BOOLEAN
    PROVE  /\ Protocol!Counted(h, n, isNX) \in Protocol!History
           /\ Protocol!Counted(h, n, isNX).total = h.total + 1
           /\ Protocol!Counted(h, n, isNX).nx = h.nx + Protocol!One(isNX)
<1>1. now \in Nat /\ Protocol!One(isNX) \in Nat
  BY DEF Protocol!SparseTypeOK, Protocol!One
<1>2. h.names \cup {n} \in SUBSET Names
  BY DEF Protocol!History
<1> QED BY <1>1, <1>2 DEF Protocol!Counted, Protocol!History

(* What RecordQuery leaves in the map, for all its callers.                  *)
LEMMA RecordQueryStep ==
    ASSUME Protocol!SparseTypeOK, NEW c \in Clients, NEW n \in Names, NEW isNX \in BOOLEAN,
           Protocol!RecordQuery(c, n, isNX)
    PROVE  /\ clients' \in [Clients -> Protocol!History]
           /\ \A b \in Clients \ {c} : clients'[b] = clients[b]
           /\ IF Protocol!Rolls(clients[c])
              THEN clients'[c].total = 1 /\ clients'[c].nx = Protocol!One(isNX)
              ELSE /\ clients'[c].total = clients[c].total + 1
                   /\ clients'[c].nx = clients[c].nx + Protocol!One(isNX)
<1> DEFINE new == [total |-> 1, nx |-> Protocol!One(isNX), names |-> {n}, first |-> now, last |-> now]
<1>1. now \in Nat /\ Protocol!One(isNX) \in Nat /\ clients[c] \in Protocol!History
  BY DEF Protocol!SparseTypeOK, Protocol!One
<1>2. new \in Protocol!History
  BY <1>1 DEF Protocol!History
<1>3. CASE Protocol!Rolls(clients[c])
  <2>1. clients' = [clients EXCEPT ![c] = new]
    BY <1>3 DEF Protocol!RecordQuery
  <2>2. new.total = 1 /\ new.nx = Protocol!One(isNX)
    OBVIOUS
  <2> HIDE DEF new
  <2> QED BY <1>2, <1>3, <2>1, <2>2 DEF Protocol!SparseTypeOK
<1>4. CASE ~Protocol!Rolls(clients[c])
  <2>1. clients' = [clients EXCEPT ![c] = Protocol!Counted(clients[c], n, isNX)]
    BY <1>4 DEF Protocol!RecordQuery
  <2> QED BY <1>1, <1>4, <2>1, HistoryStep DEF Protocol!SparseTypeOK
<1> QED BY <1>3, <1>4

(* Types of the detector's map and of the counts of queries in flight.       *)
THEOREM SparseTypeCorrect == Protocol!SparseSpec => []Protocol!SparseTypeOK
<1> USE ClockAssumption, SparseAssumption
<1>1. Protocol!SparseInit => Protocol!SparseTypeOK
  BY DEF Protocol!SparseInit, Protocol!ClockInit, Protocol!SparseTypeOK, Protocol!NoHistory, Protocol!History
<1>2. Protocol!SparseTypeOK /\ [Protocol!SparseNext]_Protocol!sparseVars => Protocol!SparseTypeOK'
  <2> SUFFICES ASSUME Protocol!SparseTypeOK, [Protocol!SparseNext]_Protocol!sparseVars PROVE Protocol!SparseTypeOK'
    OBVIOUS
  <2>1. ASSUME NEW c \in Clients, NEW n \in Names, Protocol!Arrive(c, n) PROVE Protocol!SparseTypeOK'
    <3>1. clients' \in [Clients -> Protocol!History]
      BY <2>1, RecordQueryStep DEF Protocol!Arrive
    <3> QED BY <2>1, <3>1 DEF Protocol!Arrive, Protocol!NewWindow, Protocol!SparseTypeOK
  <2>2. ASSUME NEW c \in Clients, NEW n \in Names, Protocol!AnswerNX(c, n) PROVE Protocol!SparseTypeOK'
    <3>1. clients' \in [Clients -> Protocol!History]
      BY <2>2, RecordQueryStep DEF Protocol!AnswerNX
    <3> QED BY <2>2, <3>1 DEF Protocol!AnswerNX, Protocol!NewWindow, Protocol!SparseTypeOK
  <2>3. ASSUME NEW c \in Clients, Protocol!AnswerOther(c) PROVE Protocol!SparseTypeOK'
    BY <2>3 DEF Protocol!AnswerOther, Protocol!SparseTypeOK
  <2>4. CASE Protocol!Forget
    <3>1. clients' \in [Clients -> Protocol!History]
      BY <2>4 DEF Protocol!Forget, Protocol!SparseCleanup, Protocol!SparseTypeOK, Protocol!NoHistory, Protocol!History
    <3> QED BY <2>4, <3>1 DEF Protocol!Forget, Protocol!SparseTypeOK
  <2>5. CASE Protocol!ClockTick /\ UNCHANGED <<clients, Open, Old, carried>>
    BY <2>5 DEF Protocol!ClockTick, Protocol!SparseTypeOK
  <2>6. CASE UNCHANGED Protocol!sparseVars
    BY <2>6 DEF Protocol!sparseVars, Protocol!SparseTypeOK
  <2> QED BY <2>1, <2>2, <2>3, <2>4, <2>5, <2>6 DEF Protocol!SparseNext
<1>3. QED BY <1>1, <1>2, PTL DEF Protocol!SparseSpec

(* Twice the NXDOMAINs never exceed the total, but for the stragglers: the   *)
(* accounting behind the detector, for any window, ratio and set of clients. *)
THEOREM AtMostHalf == Protocol!SparseSpec => []Protocol!NXAtMostHalf
<1> USE ClockAssumption, SparseAssumption
<1>1. Protocol!SparseInit => Protocol!NXAtMostHalf
  BY DEF Protocol!SparseInit, Protocol!NXAtMostHalf, Protocol!NoHistory
<1>2. Protocol!SparseTypeOK /\ Protocol!NXAtMostHalf /\ [Protocol!SparseNext]_Protocol!sparseVars => Protocol!NXAtMostHalf'
  <2> SUFFICES ASSUME Protocol!SparseTypeOK, Protocol!NXAtMostHalf, [Protocol!SparseNext]_Protocol!sparseVars,
                      NEW b \in Clients
               PROVE  (2 * clients[b].nx + Open[b] <= clients[b].total + carried[b])'
    BY DEF Protocol!NXAtMostHalf
  <2>0. /\ 2 * clients[b].nx + Open[b] <= clients[b].total + carried[b]
        /\ clients[b].nx \in Nat /\ clients[b].total \in Nat
        /\ Open[b] \in Nat /\ Old[b] \in Nat /\ carried[b] \in Nat
    BY DEF Protocol!NXAtMostHalf, Protocol!SparseTypeOK, Protocol!History
  <2>1. ASSUME NEW c \in Clients, NEW n \in Names, Protocol!Arrive(c, n)
        PROVE  (2 * clients[b].nx + Open[b] <= clients[b].total + carried[b])'
    <3>1. /\ \A a \in Clients \ {c} : clients'[a] = clients[a]
          /\ IF Protocol!Rolls(clients[c])
             THEN clients'[c].total = 1 /\ clients'[c].nx = 0
             ELSE /\ clients'[c].total = clients[c].total + 1
                  /\ clients'[c].nx = clients[c].nx + 0
      BY <2>1, RecordQueryStep DEF Protocol!Arrive, Protocol!One
    <3> QED BY <2>0, <2>1, <3>1 DEF Protocol!Arrive, Protocol!NewWindow, Protocol!SparseTypeOK
  <2>2. ASSUME NEW c \in Clients, NEW n \in Names, Protocol!AnswerNX(c, n)
        PROVE  (2 * clients[b].nx + Open[b] <= clients[b].total + carried[b])'
    <3>1. /\ \A a \in Clients \ {c} : clients'[a] = clients[a]
          /\ IF Protocol!Rolls(clients[c])
             THEN clients'[c].total = 1 /\ clients'[c].nx = 1
             ELSE /\ clients'[c].total = clients[c].total + 1
                  /\ clients'[c].nx = clients[c].nx + 1
      BY <2>2, RecordQueryStep DEF Protocol!AnswerNX, Protocol!One
    <3> QED BY <2>0, <2>2, <3>1 DEF Protocol!AnswerNX, Protocol!NewWindow, Protocol!SparseTypeOK
  <2>3. ASSUME NEW c \in Clients, Protocol!AnswerOther(c)
        PROVE  (2 * clients[b].nx + Open[b] <= clients[b].total + carried[b])'
    BY <2>0, <2>3 DEF Protocol!AnswerOther, Protocol!SparseTypeOK
  <2>4. CASE Protocol!Forget
    BY <2>0, <2>4 DEF Protocol!Forget, Protocol!SparseCleanup, Protocol!NoHistory, Protocol!SparseTypeOK
  <2>5. CASE UNCHANGED <<clients, Open, carried>>
    BY <2>0, <2>5
  <2> QED BY <2>1, <2>2, <2>3, <2>4, <2>5 DEF Protocol!SparseNext, Protocol!sparseVars
<1>3. QED BY <1>1, <1>2, SparseTypeCorrect, PTL DEF Protocol!SparseSpec

(* With any ratio above one half, a finding needs answers to queries of an   *)
(* earlier window, in proportion to the whole window's total.                *)
THEOREM OnlyStragglersFlag == Protocol!SparseSpec => []Protocol!FlagNeedsStragglers
<1>1. Protocol!SparseTypeOK /\ Protocol!NXAtMostHalf => Protocol!FlagNeedsStragglers
  <2> SUFFICES ASSUME Protocol!SparseTypeOK, Protocol!NXAtMostHalf, NEW c \in Clients, Protocol!Analyze(c)
               PROVE  carried[c] * RatioDen
                         >= (2 * RatioNum - RatioDen) * clients[c].total
    BY DEF Protocol!FlagNeedsStragglers
  <2> DEFINE nx == clients[c].nx
             total == clients[c].total
  <2>1. nx \in Nat /\ total \in Nat /\ carried[c] \in Nat /\ Open[c] \in Nat
        /\ RatioNum \in Nat /\ RatioDen \in Nat
    BY SparseAssumption DEF Protocol!SparseTypeOK, Protocol!History
  <2>2. 2 * nx <= total + carried[c]
    BY <2>1 DEF Protocol!NXAtMostHalf
  <2>3. nx * RatioDen >= RatioNum * total
    BY DEF Protocol!Analyze
  <2>4. ASSUME NEW x \in Nat, NEW t \in Nat, NEW k \in Nat, NEW r \in Nat, NEW m \in Nat,
               2 * x <= t + k, x * r >= m * t
        PROVE  k * r >= (2 * m - r) * t
    <3>1. (2 * x) * r <= (t + k) * r
      BY <2>4
    <3>2. (2 * x) * r = 2 * (x * r) /\ (t + k) * r = t * r + k * r
      BY <2>4
    <3>3. (2 * m - r) * t = 2 * (m * t) - t * r
      BY <2>4
    <3> QED BY <2>4, <3>1, <3>2, <3>3
  <2> HIDE DEF nx, total
  <2> QED BY <2>1, <2>2, <2>3, <2>4 DEF nx, total
<1>2. QED BY <1>1, SparseTypeCorrect, AtMostHalf, PTL

-----------------------------------------------------------------------------
(* handleDNS.                                                                *)

Handled(q) ==
    \/ \E c \in Clients, n \in Names : Arrives(q, c, n)
    \/ CheckBlock(q) \/ Answered(q) \/ CountNX(q) \/ CountSparse(q)

\* What concerns the queries alone
QueryTypes ==
    /\ pc \in [Queries -> Control]
    /\ task \in [Queries -> Task \cup {NoTask}]
    /\ \A q \in Queries : task[q] \in IF pc[q] \in InFlight THEN Task ELSE {NoTask}
    /\ fresh \in [Queries -> BOOLEAN]
    /\ carried \in [Clients -> Nat]

\* No query is being handled at the start.
LEMMA QueryTypesStart == Init => QueryTypes
BY DEF Init, QueryTypes, Control, InFlight

\* The apex of a query's name, while it is handled
LEMMA TaskOf ==
    ASSUME QueryTypes, NEW q \in Queries, pc[q] \in InFlight
    PROVE  /\ task[q] \in Task /\ task[q].client \in Clients /\ task[q].name \in Names
           /\ Apex[task[q].name] \in Domains
BY TrackingAssumption DEF QueryTypes, Task

\* A query under way has its client and its name, and only then.
LEMMA QueryTypesStep ==
    ASSUME QueryTypes, [Next]_vars
    PROVE  QueryTypes'
<1> USE DEF QueryTypes, Control, InFlight
<1>1. ASSUME NEW q \in Queries, NEW c \in Clients, NEW n \in Names, Arrives(q, c, n)
      PROVE  QueryTypes'
  <2>1. [client |-> c, name |-> n] \in Task
    BY DEF Task
  <2>2. fresh' \in [Queries -> BOOLEAN]
    BY <1>1 DEF Arrives, AgeQueries
  <2> QED BY <1>1, <2>1, <2>2 DEF Arrives, Goto
<1>2. ASSUME NEW q \in Queries, NEW from, NEW to, Proceed(q, from, to),
             from \in InFlight, to \in InFlight \cup {"done"},
             carried' = carried
      PROVE  QueryTypes'
  BY <1>2 DEF Proceed, Goto
<1>3. ASSUME NEW q \in Queries, CheckBlock(q) \/ Answered(q)
      PROVE  QueryTypes'
  BY <1>2, <1>3 DEF CheckBlock, Answered
<1>4. ASSUME NEW q \in Queries, CountNX(q)
      PROVE  QueryTypes'
  BY <1>4 DEF CountNX, Goto
<1>5. ASSUME NEW q \in Queries, CountSparse(q)
      PROVE  QueryTypes'
  <2>1. fresh' \in [Queries -> BOOLEAN]
    BY <1>5 DEF CountSparse, AgeQueries
  <2>2. carried' \in [Clients -> Nat]
    <3>1. pc[q] \in InFlight
      BY <1>5 DEF CountSparse, Goto
    <3>2. carried[task[q].client] \in Nat
      BY <3>1, TaskOf
    <3> DEFINE k == IF Rolls(clients[task[q].client]) THEN 1
                    ELSE IF fresh[q] THEN carried[task[q].client] ELSE carried[task[q].client] + 1
    <3>3. k \in Nat
      BY <3>2
    <3>4. carried' = [carried EXCEPT ![task[q].client] = k]
      BY <1>5 DEF CountSparse
    <3> HIDE DEF k
    <3> QED BY <3>3, <3>4
  <2> QED BY <1>5, <2>1, <2>2 DEF CountSparse, Goto
<1>6. CASE CleanTracker \/ TimePasses \/ UNCHANGED vars
  BY <1>6 DEF CleanTracker, TimePasses, vars
<1>7. CASE CleanSparse
  <2>1. fresh' \in [Queries -> BOOLEAN]
    BY <1>7 DEF CleanSparse
  <2> QED BY <1>7, <2>1 DEF CleanSparse
<1> QED BY <1>1, <1>3, <1>4, <1>5, <1>6, <1>7 DEF Next

\* handleDNS uses the NXDOMAIN tracker as the tracker's specification allows.
LEMMA TrackerSteps ==
    ASSUME QueryTypes, [Next]_vars
    PROVE  [NXNext]_nxVars
<1>1. ASSUME NEW q \in Queries, Handled(q) PROVE [NXNext]_nxVars
  <2>1. CASE CheckBlock(q)
    <3>1. Apex[task[q].name] \in Domains
      BY <2>1, TaskOf DEF CheckBlock, Proceed, Goto, InFlight
    <3> QED BY <2>1, <3>1 DEF CheckBlock, NXNext
  <2>2. CASE CountNX(q)
    <3>1. Apex[task[q].name] \in Domains
      BY <2>2, TaskOf DEF CountNX, Goto, InFlight
    <3> QED BY <2>2, <3>1 DEF CountNX, NXNext
  <2>3. CASE Answered(q) \/ CountSparse(q) \/ \E c \in Clients, n \in Names : Arrives(q, c, n)
    BY <2>3 DEF Answered, CountSparse, Arrives, nxVars
  <2> QED BY <1>1, <2>1, <2>2, <2>3 DEF Handled
<1>2. CASE CleanTracker \/ CleanSparse \/ TimePasses \/ UNCHANGED vars
  BY <1>2 DEF CleanTracker, CleanSparse, TimePasses, NXNext, nxVars, vars
<1> QED BY <1>1, <1>2 DEF Next, Handled

(* Every step of handleDNS is one of the tracker's own, so what is proved of *)
(* the tracker under any calls holds in the proxy.                           *)
THEOREM HandlerUsesTracker == Spec => NXSpec
<1>1. Init => NXInit
  BY DEF Init
<1> QED BY <1>1, QueryTypesStart, QueryTypesStep, TrackerSteps, PTL DEF Spec, NXSpec, nxVars

\* The detector of the queries and that of the protocol are the same code.
LEMMA SameDetector ==
    ASSUME NEW c \in Clients
    PROVE  /\ Rolls(clients[c]) = Protocol!Rolls(clients[c])
           /\ \A n \in Names, isNX \in BOOLEAN :
                 RecordQuery(c, n, isNX) => Protocol!RecordQuery(c, n, isNX)
           /\ SparseCleanup => Protocol!SparseCleanup
           /\ Forgotten(clients[c]) = Protocol!Forgotten(clients[c])
BY DEF Rolls, Protocol!Rolls, RecordQuery, Protocol!RecordQuery, Counted, Protocol!Counted,
       One, Protocol!One, SparseCleanup, Protocol!SparseCleanup, Forgotten, Protocol!Forgotten,
       NoHistory, Protocol!NoHistory

\* The queries of a client in flight that its window has counted, and the others
Flight(c) == {q \in Queries : pc[q] \in InFlight /\ task[q].client = c}
Fresh(c) == {q \in Flight(c) : fresh[q]}
Stragglers(c) == {q \in Flight(c) : ~fresh[q]}

Flying == IsFiniteSet({q \in Queries : pc[q] \in InFlight})

\* The protocol counts the queries that this model names.
LEMMA MembersCounted ==
    ASSUME QueryTypes, QueryTypes', NEW c \in Clients
    PROVE  /\ Open[c] = Cardinality(Fresh(c)) /\ Old[c] = Cardinality(Stragglers(c))
           /\ Open'[c] = Cardinality(Fresh(c)') /\ Old'[c] = Cardinality(Stragglers(c)')
<1>1. /\ Fresh(c) = {q \in Queries : pc[q] \in InFlight /\ task[q].client = c /\ fresh[q] = TRUE}
      /\ Stragglers(c) = {q \in Queries : pc[q] \in InFlight /\ task[q].client = c /\ fresh[q] = FALSE}
      /\ Fresh(c)' = {q \in Queries : pc'[q] \in InFlight /\ task'[q].client = c /\ fresh'[q] = TRUE}
      /\ Stragglers(c)' = {q \in Queries : pc'[q] \in InFlight /\ task'[q].client = c /\ fresh'[q] = FALSE}
  BY DEF Fresh, Stragglers, Flight, QueryTypes
<1> QED BY <1>1 DEF Open, Old, Pending

\* Where only the queries of client c move, only its counts do.
LEMMA OpenMoves ==
    ASSUME QueryTypes, QueryTypes', NEW c \in Clients,
           \A b \in Clients \ {c} : Fresh(b)' = Fresh(b)
    PROVE  Open' = [Open EXCEPT ![c] = Cardinality(Fresh(c)')]
<1>1. /\ \A b \in Clients : Open[b] = Cardinality(Fresh(b))
      /\ \A b \in Clients : Open'[b] = Cardinality(Fresh(b)')
  BY MembersCounted
<1>2. Open = [b \in Clients |-> Open[b]] /\ Open' = [b \in Clients |-> Open'[b]]
  BY DEF Open
<1>3. \A b \in Clients \ {c} : Open'[b] = Open[b]
  BY <1>1
<1> QED BY <1>1, <1>2, <1>3

\* A step that disturbs one client's stragglers moves only that client's count.
LEMMA OldMoves ==
    ASSUME QueryTypes, QueryTypes', NEW c \in Clients,
           \A b \in Clients \ {c} : Stragglers(b)' = Stragglers(b)
    PROVE  Old' = [Old EXCEPT ![c] = Cardinality(Stragglers(c)')]
<1>1. /\ \A b \in Clients : Old[b] = Cardinality(Stragglers(b))
      /\ \A b \in Clients : Old'[b] = Cardinality(Stragglers(b)')
  BY MembersCounted
<1>2. Old = [b \in Clients |-> Old[b]] /\ Old' = [b \in Clients |-> Old'[b]]
  BY DEF Old
<1>3. \A b \in Clients \ {c} : Old'[b] = Old[b]
  BY <1>1
<1> QED BY <1>1, <1>2, <1>3

\* With finitely many queries in flight the counts are numbers and add up.
LEMMA MembersFinite ==
    ASSUME Flying, NEW c
    PROVE  /\ IsFiniteSet(Fresh(c)) /\ Cardinality(Fresh(c)) \in Nat
           /\ IsFiniteSet(Stragglers(c)) /\ Cardinality(Stragglers(c)) \in Nat
           /\ Cardinality(Fresh(c) \cup Stragglers(c)) = Cardinality(Fresh(c)) + Cardinality(Stragglers(c))
<1>1. {Fresh(c), Stragglers(c)} \subseteq SUBSET {q \in Queries : pc[q] \in InFlight}
  BY DEF Fresh, Stragglers, Flight
<1>2. IsFiniteSet(Fresh(c)) /\ IsFiniteSet(Stragglers(c))
  BY <1>1, FS_Subset DEF Flying
<1>3. Fresh(c) \cap Stragglers(c) = {}
  BY DEF Fresh, Stragglers
<1>4. /\ Cardinality(Fresh(c)) \in Nat /\ Cardinality(Stragglers(c)) \in Nat
      /\ Cardinality(Fresh(c) \cap Stragglers(c)) = 0
  BY <1>2, <1>3, FS_CardinalityType, FS_EmptySet
<1>5. Cardinality(Fresh(c) \cup Stragglers(c))
        = Cardinality(Fresh(c)) + Cardinality(Stragglers(c)) - Cardinality(Fresh(c) \cap Stragglers(c))
  BY <1>2, FS_Union
<1> QED BY <1>2, <1>4, <1>5

\* A step puts at most one more query in flight.
LEMMA FlyingStep ==
    ASSUME QueryTypes, Flying, [Next]_vars
    PROVE  Flying'
<1> DEFINE F == {q \in Queries : pc[q] \in InFlight}
<1>1. \E q : {r \in Queries : pc'[r] \in InFlight} \subseteq F \cup {q}
  <2>1. ASSUME NEW q \in Queries, Handled(q)
        PROVE  {r \in Queries : pc'[r] \in InFlight} \subseteq F \cup {q}
    <3>1. \E to : pc' = [pc EXCEPT ![q] = to]
      BY <2>1 DEF Handled, Arrives, CheckBlock, Answered, CountNX, CountSparse, Proceed, Goto
    <3> QED BY <3>1 DEF QueryTypes
  <2>2. CASE CleanTracker \/ CleanSparse \/ TimePasses \/ UNCHANGED vars
    BY <2>2 DEF CleanTracker, CleanSparse, TimePasses, vars
  <2> QED BY <2>1, <2>2 DEF Next, Handled
<1>2. PICK q : {r \in Queries : pc'[r] \in InFlight} \in SUBSET (F \cup {q})
  BY <1>1
<1>3. IsFiniteSet(F \cup {q})
  BY FS_AddElement DEF Flying
<1> HIDE DEF F
<1>4. IsFiniteSet({r \in Queries : pc'[r] \in InFlight})
  BY <1>2, <1>3, FS_Subset
<1> QED BY <1>4 DEF Flying

\* What becomes of a query other than the one that moves
Ages(r, c) == fresh'[r] <=> fresh[r] /\ ~(task[r].client = c /\ Rolls(clients[c]))

\* Of other clients nothing changes.
LEMMA OthersKeep ==
    ASSUME NEW q \in Queries, NEW c \in Clients, NEW b \in Clients \ {c},
           \A r \in Queries \ {q} : pc'[r] = pc[r] /\ task'[r] = task[r] /\ Ages(r, c),
           q \notin Flight(b), q \notin Flight(b)'
    PROVE  Fresh(b)' = Fresh(b) /\ Stragglers(b)' = Stragglers(b)
BY DEF Fresh, Stragglers, Flight, Ages

\* A window of client c that begins leaves no query of c counted by it, except
\* perhaps the one that begins it.
LEMMA ArriveMembers ==
    ASSUME QueryTypes, NEW q \in Queries, NEW c \in Clients, NEW n \in Names, Arrives(q, c, n)
    PROVE  /\ \A b \in Clients \ {c} : Fresh(b)' = Fresh(b) /\ Stragglers(b)' = Stragglers(b)
           /\ q \notin Fresh(c)
           /\ IF Rolls(clients[c])
              THEN Fresh(c)' = {q} /\ Stragglers(c)' = Fresh(c) \cup Stragglers(c)
              ELSE Fresh(c)' = Fresh(c) \cup {q} /\ Stragglers(c)' = Stragglers(c)
<1>1. pc[q] = "new" /\ pc'[q] = "tracked" /\ task'[q].client = c /\ fresh'[q] = TRUE
  BY DEF Arrives, Goto, AgeQueries, QueryTypes
<1>2. "new" \notin InFlight /\ "tracked" \in InFlight
  BY DEF InFlight
<1>3. \A r \in Queries \ {q} : pc'[r] = pc[r] /\ task'[r] = task[r]
  BY DEF Arrives, Goto, QueryTypes
<1>4. \A r \in Queries \ {q} : Ages(r, c)
  BY DEF Arrives, AgeQueries, Ages
<1>5. \A b \in Clients \ {c} : q \notin Flight(b) /\ q \notin Flight(b)'
  BY <1>1, <1>2 DEF Flight
<1>6. q \notin Flight(c) /\ Flight(c)' = Flight(c) \cup {q}
  BY <1>1, <1>2, <1>3 DEF Flight
<1>7. \A r \in Flight(c) : fresh'[r] <=> fresh[r] /\ ~Rolls(clients[c])
  BY <1>4, <1>6 DEF Ages, Flight
<1>8. CASE Rolls(clients[c])
  <2>1. Fresh(c)' = {q}
    BY <1>1, <1>6, <1>7, <1>8 DEF Fresh
  <2>2. Stragglers(c)' = Fresh(c) \cup Stragglers(c)
    BY <1>1, <1>6, <1>7, <1>8 DEF Fresh, Stragglers
  <2> QED BY <1>3, <1>4, <1>5, <1>6, <1>8, <2>1, <2>2, OthersKeep DEF Fresh
<1>9. CASE ~Rolls(clients[c])
  <2>1. Fresh(c)' = Fresh(c) \cup {q}
    BY <1>1, <1>6, <1>7, <1>9 DEF Fresh
  <2>2. Stragglers(c)' = Stragglers(c)
    BY <1>1, <1>6, <1>7, <1>9 DEF Stragglers
  <2> QED BY <1>3, <1>4, <1>5, <1>6, <1>9, <2>1, <2>2, OthersKeep DEF Fresh
<1> QED BY <1>8, <1>9

\* A query that leaves is counted no longer.
LEMMA LeaveMembers ==
    ASSUME QueryTypes, NEW q \in Queries, pc[q] \in InFlight, pc' = [pc EXCEPT ![q] = "done"],
           task' = [task EXCEPT ![q] = NoTask], fresh' = [fresh EXCEPT ![q] = FALSE],
           NEW c \in Clients, c = task[q].client
    PROVE  /\ \A b \in Clients \ {c} : Fresh(b)' = Fresh(b) /\ Stragglers(b)' = Stragglers(b)
           /\ Fresh(c)' = Fresh(c) \ {q}
           /\ Stragglers(c)' = Stragglers(c) \ {q}
           /\ q \in IF fresh[q] THEN Fresh(c) ELSE Stragglers(c)
<1>1. "done" \notin InFlight /\ pc'[q] = "done"
  BY DEF InFlight, QueryTypes
<1>2. \A r \in Queries \ {q} : pc'[r] = pc[r] /\ task'[r] = task[r] /\ (fresh'[r] <=> fresh[r])
  BY DEF QueryTypes
<1>3. \A b \in Clients : Flight(b)' = Flight(b) \ {q}
  BY <1>1, <1>2 DEF Flight
<1>4. \A b \in Clients : Fresh(b)' = Fresh(b) \ {q} /\ Stragglers(b)' = Stragglers(b) \ {q}
  BY <1>2, <1>3 DEF Fresh, Stragglers, Flight
<1>5. q \in Flight(c) /\ \A b \in Clients \ {c} : q \notin Flight(b)
  BY DEF Flight
<1>6. \A b \in Clients \ {c} : q \notin Fresh(b) /\ q \notin Stragglers(b)
  BY <1>5 DEF Fresh, Stragglers
<1>7. q \in IF fresh[q] THEN Fresh(c) ELSE Stragglers(c)
  BY <1>5 DEF Fresh, Stragglers
<1>8. ASSUME NEW b \in Clients \ {c}
      PROVE  Fresh(b)' = Fresh(b) /\ Stragglers(b)' = Stragglers(b)
  <2>1. Fresh(b)' = Fresh(b) \ {q} /\ Stragglers(b)' = Stragglers(b) \ {q}
    BY <1>4
  <2> QED BY <1>6, <2>1
<1>9. /\ Fresh(c)' = Fresh(c) \ {q}
      /\ Stragglers(c)' = Stragglers(c) \ {q}
  BY <1>4
<1> QED BY <1>7, <1>8, <1>9

\* So is one whose NXDOMAIN is counted; if that begins a window, the others of
\* its client belong to an earlier one.
LEMMA AnswerMembers ==
    ASSUME QueryTypes, NEW q \in Queries, CountSparse(q), NEW c \in Clients, c = task[q].client
    PROVE  /\ \A b \in Clients \ {c} : Fresh(b)' = Fresh(b) /\ Stragglers(b)' = Stragglers(b)
           /\ q \in IF fresh[q] THEN Fresh(c) ELSE Stragglers(c)
           /\ IF Rolls(clients[c])
              THEN Fresh(c)' = {} /\ Stragglers(c)' = (Fresh(c) \cup Stragglers(c)) \ {q}
              ELSE Fresh(c)' = Fresh(c) \ {q} /\ Stragglers(c)' = Stragglers(c) \ {q}
<1>1. pc[q] = "counted" /\ pc'[q] = "done"
  BY DEF CountSparse, Goto, QueryTypes
<1>2. "counted" \in InFlight /\ "done" \notin InFlight
  BY DEF InFlight
<1>3. \A r \in Queries \ {q} : pc'[r] = pc[r] /\ task'[r] = task[r]
  BY DEF CountSparse, Goto, QueryTypes
<1>4. \A r \in Queries \ {q} : Ages(r, c)
  BY DEF CountSparse, AgeQueries, Ages
<1>5. \A b \in Clients \ {c} : q \notin Flight(b) /\ q \notin Flight(b)'
  BY <1>1, <1>2 DEF Flight
<1>6. q \in Flight(c) /\ Flight(c)' = Flight(c) \ {q}
  BY <1>1, <1>2, <1>3 DEF Flight
<1>7. \A r \in Flight(c) \ {q} : fresh'[r] <=> fresh[r] /\ ~Rolls(clients[c])
  BY <1>4, <1>6 DEF Ages, Flight
<1>8. CASE Rolls(clients[c])
  <2>1. Fresh(c)' = {} /\ Stragglers(c)' = (Fresh(c) \cup Stragglers(c)) \ {q}
    BY <1>6, <1>7, <1>8 DEF Fresh, Stragglers
  <2> QED BY <1>3, <1>4, <1>5, <1>6, <1>8, <2>1, OthersKeep DEF Fresh, Stragglers
<1>9. CASE ~Rolls(clients[c])
  <2>1. Fresh(c)' = Fresh(c) \ {q} /\ Stragglers(c)' = Stragglers(c) \ {q}
    BY <1>6, <1>7, <1>9 DEF Fresh, Stragglers
  <2> QED BY <1>3, <1>4, <1>5, <1>6, <1>9, <2>1, OthersKeep DEF Fresh, Stragglers
<1> QED BY <1>8, <1>9

\* The size of a finite set with one member less
LEMMA OneLess ==
    ASSUME NEW S, IsFiniteSet(S), NEW q \in S
    PROVE  /\ Cardinality(S) \in Nat /\ Cardinality(S) > 0
           /\ Cardinality(S \ {q}) = Cardinality(S) - 1
<1>1. Cardinality(S) \in Nat /\ (Cardinality(S) = 0 <=> S = {})
  BY FS_CardinalityType, FS_EmptySet
<1> QED BY <1>1, FS_RemoveElement

\* A query that leaves makes one of the two counts of its client one less.
LEMMA OneLeaves ==
    ASSUME QueryTypes, QueryTypes', Flying, NEW c \in Clients, NEW q,
           \A b \in Clients \ {c} : Fresh(b)' = Fresh(b) /\ Stragglers(b)' = Stragglers(b),
           Fresh(c)' = Fresh(c) \ {q}, Stragglers(c)' = Stragglers(c) \ {q},
           q \in IF fresh[q] THEN Fresh(c) ELSE Stragglers(c)
    PROVE  IF fresh[q] THEN Open[c] > 0 /\ Open' = [Open EXCEPT ![c] = @ - 1] /\ Old' = Old
                       ELSE Old[c] > 0 /\ Old' = [Old EXCEPT ![c] = @ - 1] /\ Open' = Open
<1>1. /\ Open' = [Open EXCEPT ![c] = Cardinality(Fresh(c)')]
      /\ Old' = [Old EXCEPT ![c] = Cardinality(Stragglers(c)')]
      /\ Open[c] = Cardinality(Fresh(c)) /\ Old[c] = Cardinality(Stragglers(c))
      /\ Open = [Open EXCEPT ![c] = Open[c]] /\ Old = [Old EXCEPT ![c] = Old[c]]
  <2>1. /\ Open' = [Open EXCEPT ![c] = Cardinality(Fresh(c)')]
        /\ Old' = [Old EXCEPT ![c] = Cardinality(Stragglers(c)')]
    BY OpenMoves, OldMoves
  <2>2. Open = [Open EXCEPT ![c] = Open[c]] /\ Old = [Old EXCEPT ![c] = Old[c]]
    BY DEF Open, Old
  <2> QED BY <2>1, <2>2, MembersCounted
<1>2. IsFiniteSet(Fresh(c)) /\ IsFiniteSet(Stragglers(c))
  BY MembersFinite
<1>3. q \notin IF fresh[q] THEN Stragglers(c) ELSE Fresh(c)
  BY DEF Fresh, Stragglers
<1>4. CASE fresh[q]
  <2>1. Cardinality(Fresh(c)') = Cardinality(Fresh(c)) - 1 /\ Cardinality(Fresh(c)) > 0
    BY <1>2, <1>4, OneLess
  <2>2. Stragglers(c)' = Stragglers(c)
    BY <1>3, <1>4
  <2> QED BY <1>1, <1>4, <2>1, <2>2
<1>5. CASE ~fresh[q]
  <2>1. Cardinality(Stragglers(c)') = Cardinality(Stragglers(c)) - 1 /\ Cardinality(Stragglers(c)) > 0
    BY <1>2, <1>5, OneLess
  <2>2. Fresh(c)' = Fresh(c)
    BY <1>3, <1>5
  <2> QED BY <1>1, <1>5, <2>1, <2>2
<1> QED BY <1>4, <1>5

\* Any end of a query but an NXDOMAIN that is counted
LEMMA LeaveSteps ==
    ASSUME QueryTypes, QueryTypes', Flying, NEW q \in Queries, pc[q] \in InFlight,
           pc' = [pc EXCEPT ![q] = "done"], task' = [task EXCEPT ![q] = NoTask],
           fresh' = [fresh EXCEPT ![q] = FALSE], UNCHANGED <<now, clients, carried>>
    PROVE  Protocol!SparseNext
<1>1. PICK c \in Clients : c = task[q].client
  BY TaskOf
<1>2. /\ \A b \in Clients \ {c} : Fresh(b)' = Fresh(b) /\ Stragglers(b)' = Stragglers(b)
      /\ Fresh(c)' = Fresh(c) \ {q} /\ Stragglers(c)' = Stragglers(c) \ {q}
      /\ q \in IF fresh[q] THEN Fresh(c) ELSE Stragglers(c)
  BY <1>1, LeaveMembers
<1>3. IF fresh[q] THEN Open[c] > 0 /\ Open' = [Open EXCEPT ![c] = @ - 1] /\ Old' = Old
                  ELSE Old[c] > 0 /\ Old' = [Old EXCEPT ![c] = @ - 1] /\ Open' = Open
  BY <1>2, OneLeaves
<1>4. Protocol!AnswerOther(c)
  BY <1>3 DEF Protocol!AnswerOther
<1> QED BY <1>4 DEF Protocol!SparseNext

\* A query's arrival is an arrival of the protocol.
LEMMA ArriveSteps ==
    ASSUME QueryTypes, QueryTypes', Flying, NEW q \in Queries, NEW c \in Clients, NEW n \in Names,
           Arrives(q, c, n)
    PROVE  Protocol!Arrive(c, n)
<1>1. Protocol!RecordQuery(c, n, FALSE) /\ UNCHANGED now
  BY SameDetector DEF Arrives
<1>2. /\ \A b \in Clients \ {c} : Fresh(b)' = Fresh(b) /\ Stragglers(b)' = Stragglers(b)
      /\ q \notin Fresh(c)
      /\ IF Rolls(clients[c])
         THEN Fresh(c)' = {q} /\ Stragglers(c)' = Fresh(c) \cup Stragglers(c)
         ELSE Fresh(c)' = Fresh(c) \cup {q} /\ Stragglers(c)' = Stragglers(c)
  BY ArriveMembers
<1>3. /\ IsFiniteSet(Fresh(c)) /\ Cardinality(Fresh(c)) \in Nat /\ Cardinality(Stragglers(c)) \in Nat
      /\ Cardinality(Fresh(c) \cup Stragglers(c)) = Cardinality(Fresh(c)) + Cardinality(Stragglers(c))
  BY MembersFinite
<1>4. /\ Open' = [Open EXCEPT ![c] = Cardinality(Fresh(c)')]
      /\ Old' = [Old EXCEPT ![c] = Cardinality(Stragglers(c)')]
      /\ Open[c] = Cardinality(Fresh(c)) /\ Old[c] = Cardinality(Stragglers(c))
  BY <1>2, OpenMoves, OldMoves, MembersCounted
<1>5. CASE Rolls(clients[c])
  <2>1. Cardinality(Fresh(c)') = 1
    BY <1>2, <1>5, FS_Singleton
  <2>2. Cardinality(Stragglers(c)') = Old[c] + Open[c] - 0
    <3>1. Cardinality(Stragglers(c)') = Cardinality(Fresh(c) \cup Stragglers(c))
      BY <1>2, <1>5
    <3> QED BY <1>3, <1>4, <3>1
  <2>3. carried' = [carried EXCEPT ![c] = 0]
    BY <1>5 DEF Arrives
  <2>4. Protocol!NewWindow(c, 1, 0)
    BY <1>4, <2>1, <2>2, <2>3 DEF Protocol!NewWindow
  <2> QED BY <1>1, <1>5, <2>4, SameDetector DEF Protocol!Arrive
<1>6. CASE ~Rolls(clients[c])
  <2>1. Cardinality(Fresh(c)') = Cardinality(Fresh(c)) + 1
    BY <1>2, <1>3, <1>6, FS_AddElement
  <2>2. Old = [Old EXCEPT ![c] = Old[c]]
    BY DEF Old
  <2>3. Open' = [Open EXCEPT ![c] = @ + 1] /\ Old' = Old
    BY <1>2, <1>4, <1>6, <2>1, <2>2
  <2>4. carried' = carried
    BY <1>6 DEF Arrives
  <2> QED BY <1>1, <1>6, <2>3, <2>4, SameDetector DEF Protocol!Arrive
<1> QED BY <1>5, <1>6

\* Counting an answer is one of the protocol's answers, in time or late.
LEMMA AnswerSteps ==
    ASSUME QueryTypes, QueryTypes', Flying, NEW q \in Queries, CountSparse(q)
    PROVE  Protocol!SparseNext
<1>1. pc[q] \in InFlight
  BY DEF CountSparse, Goto, InFlight
<1>2. PICK c \in Clients : c = task[q].client
  BY <1>1, TaskOf
<1>3. PICK n \in Names : n = task[q].name
  BY <1>1, TaskOf
<1>4. /\ Protocol!RecordQuery(c, n, TRUE) /\ UNCHANGED now
      /\ carried' = [carried EXCEPT ![c] = IF Rolls(clients[c]) THEN 1 ELSE IF fresh[q] THEN @ ELSE @ + 1]
  BY <1>2, <1>3, SameDetector DEF CountSparse
<1>5. /\ \A b \in Clients \ {c} : Fresh(b)' = Fresh(b) /\ Stragglers(b)' = Stragglers(b)
      /\ q \in IF fresh[q] THEN Fresh(c) ELSE Stragglers(c)
      /\ IF Rolls(clients[c])
         THEN Fresh(c)' = {} /\ Stragglers(c)' = (Fresh(c) \cup Stragglers(c)) \ {q}
         ELSE Fresh(c)' = Fresh(c) \ {q} /\ Stragglers(c)' = Stragglers(c) \ {q}
  BY <1>2, AnswerMembers
<1>6. Rolls(clients[c]) = Protocol!Rolls(clients[c])
  BY SameDetector
<1>7. /\ Cardinality(Fresh(c)) \in Nat /\ Cardinality(Stragglers(c)) \in Nat
      /\ Cardinality(Fresh(c) \cup Stragglers(c)) = Cardinality(Fresh(c)) + Cardinality(Stragglers(c))
      /\ IsFiniteSet(Fresh(c) \cup Stragglers(c))
  BY MembersFinite, FS_Union
<1>8. q \in Fresh(c) \cup Stragglers(c)
  BY <1>5
<1>9. /\ Cardinality((Fresh(c) \cup Stragglers(c)) \ {q})
           = Cardinality(Fresh(c)) + Cardinality(Stragglers(c)) - 1
      /\ Cardinality(Fresh(c)) + Cardinality(Stragglers(c)) > 0
  <2>1. /\ Cardinality((Fresh(c) \cup Stragglers(c)) \ {q}) = Cardinality(Fresh(c) \cup Stragglers(c)) - 1
        /\ Cardinality(Fresh(c) \cup Stragglers(c)) > 0
    BY <1>7, <1>8, OneLess
  <2> QED BY <1>7, <2>1
<1>10. /\ Open' = [Open EXCEPT ![c] = Cardinality(Fresh(c)')]
       /\ Old' = [Old EXCEPT ![c] = Cardinality(Stragglers(c)')]
       /\ Open[c] = Cardinality(Fresh(c)) /\ Old[c] = Cardinality(Stragglers(c))
  BY <1>5, OpenMoves, OldMoves, MembersCounted
<1>11. Open[c] + Old[c] > 0
  BY <1>9, <1>10
<1>12. CASE Rolls(clients[c])
  <2>1. Cardinality(Stragglers(c)') = Old[c] + Open[c] - 1
    <3>1. Cardinality(Stragglers(c)') = Cardinality((Fresh(c) \cup Stragglers(c)) \ {q})
      BY <1>5, <1>12
    <3> QED BY <1>7, <1>9, <1>10, <3>1
  <2>2. Cardinality(Fresh(c)') = 0
    BY <1>5, <1>12, FS_EmptySet
  <2>3. Protocol!NewWindow(c, 0, 1)
    BY <1>4, <1>10, <1>12, <2>1, <2>2 DEF Protocol!NewWindow
  <2>4. Protocol!AnswerNX(c, n)
    BY <1>4, <1>6, <1>11, <1>12, <2>3 DEF Protocol!AnswerNX
  <2> QED BY <2>4 DEF Protocol!SparseNext
<1>13. CASE ~Rolls(clients[c])
  <2>1. IF fresh[q] THEN Open[c] > 0 /\ Open' = [Open EXCEPT ![c] = @ - 1] /\ Old' = Old
                    ELSE Old[c] > 0 /\ Old' = [Old EXCEPT ![c] = @ - 1] /\ Open' = Open
    <3>1. Fresh(c)' = Fresh(c) \ {q} /\ Stragglers(c)' = Stragglers(c) \ {q}
      BY <1>5, <1>13
    <3>2. /\ \A b \in Clients \ {c} : Fresh(b)' = Fresh(b) /\ Stragglers(b)' = Stragglers(b)
          /\ q \in IF fresh[q] THEN Fresh(c) ELSE Stragglers(c)
      BY <1>5
    <3> QED BY <3>1, <3>2, OneLeaves
  <2>2. carried' = IF fresh[q] THEN carried ELSE [carried EXCEPT ![c] = @ + 1]
    BY <1>4, <1>13 DEF QueryTypes
  <2>3. Protocol!AnswerNX(c, n)
    BY <1>4, <1>6, <1>11, <1>13, <2>1, <2>2 DEF Protocol!AnswerNX
  <2> QED BY <2>3 DEF Protocol!SparseNext
<1> QED BY <1>12, <1>13

\* The queries whose client the cleanup forgets belong to an earlier window.
LEMMA ForgetSteps ==
    ASSUME QueryTypes, QueryTypes', Flying, CleanSparse
    PROVE  Protocol!Forget
<1> DEFINE gone(c) == clients[c].total > 0 /\ Forgotten(clients[c])
<1>1. /\ Protocol!SparseCleanup /\ UNCHANGED <<now, pc, task>>
      /\ fresh' = [q \in Queries |-> fresh[q] /\ ~\E c \in Clients : gone(c) /\ task[q].client = c]
      /\ carried' = [c \in Clients |-> IF gone(c) THEN 0 ELSE carried[c]]
  <2>1. SparseCleanup => Protocol!SparseCleanup
    BY DEF SparseCleanup, Protocol!SparseCleanup, Forgotten, Protocol!Forgotten,
           NoHistory, Protocol!NoHistory
  <2> QED BY <2>1 DEF CleanSparse
<1>2. \A c \in Clients : Flight(c)' = Flight(c)
  BY <1>1 DEF Flight
<1>3. ASSUME NEW c \in Clients
      PROVE  IF gone(c) THEN Open'[c] = 0 /\ Old'[c] = Old[c] + Open[c]
                        ELSE Open'[c] = Open[c] /\ Old'[c] = Old[c]
  <2>1. \A q \in Flight(c) : fresh'[q] <=> fresh[q] /\ ~gone(c)
    BY <1>1 DEF Flight
  <2>2. /\ Open[c] = Cardinality(Fresh(c)) /\ Old[c] = Cardinality(Stragglers(c))
        /\ Open'[c] = Cardinality(Fresh(c)') /\ Old'[c] = Cardinality(Stragglers(c)')
    BY MembersCounted
  <2>3. CASE gone(c)
    <3>1. Fresh(c)' = {} /\ Stragglers(c)' = Fresh(c) \cup Stragglers(c)
      BY <1>2, <2>1, <2>3 DEF Fresh, Stragglers
    <3>2. /\ Cardinality(Fresh(c)) \in Nat /\ Cardinality(Stragglers(c)) \in Nat
          /\ Cardinality(Fresh(c) \cup Stragglers(c)) = Cardinality(Fresh(c)) + Cardinality(Stragglers(c))
      BY MembersFinite
    <3>3. Cardinality(Fresh(c)') = 0 /\ Cardinality(Stragglers(c)') = Cardinality(Fresh(c) \cup Stragglers(c))
      BY <3>1, FS_EmptySet
    <3> QED BY <2>2, <2>3, <3>2, <3>3
  <2>4. CASE ~gone(c)
    <3>1. Fresh(c)' = Fresh(c) /\ Stragglers(c)' = Stragglers(c)
      BY <1>2, <2>1, <2>4 DEF Fresh, Stragglers
    <3> QED BY <2>2, <2>4, <3>1
  <2> QED BY <2>3, <2>4
<1>4. /\ Open' = [c \in Clients |-> IF gone(c) THEN 0 ELSE Open[c]]
      /\ Old' = [c \in Clients |-> IF gone(c) THEN Old[c] + Open[c] ELSE Old[c]]
  <2>1. Open' = [c \in Clients |-> Open'[c]] /\ Old' = [c \in Clients |-> Old'[c]]
    BY DEF Open, Old
  <2> HIDE DEF gone
  <2> QED BY <1>3, <2>1
<1>5. \A c \in Clients : gone(c) <=> clients[c].total > 0 /\ Protocol!Forgotten(clients[c])
  BY DEF Forgotten, Protocol!Forgotten
<1> HIDE DEF gone
<1> QED BY <1>1, <1>4, <1>5 DEF Protocol!Forget

\* A step that moves queries, but starts and ends none, changes no count.
LEMMA QuietSteps ==
    ASSUME QueryTypes, QueryTypes', UNCHANGED <<clients, task, fresh, carried>>,
           \A q \in Queries : pc[q] \in InFlight <=> pc'[q] \in InFlight
    PROVE  UNCHANGED <<clients, Open, Old, carried>>
<1>1. \A c \in Clients : Fresh(c)' = Fresh(c) /\ Stragglers(c)' = Stragglers(c)
  BY DEF Fresh, Stragglers, Flight
<1>2. /\ \A c \in Clients : Open[c] = Cardinality(Fresh(c)) /\ Open'[c] = Cardinality(Fresh(c)')
      /\ \A c \in Clients : Old[c] = Cardinality(Stragglers(c)) /\ Old'[c] = Cardinality(Stragglers(c)')
  BY MembersCounted
<1>3. \A c \in Clients : Open'[c] = Open[c] /\ Old'[c] = Old[c]
  BY <1>1, <1>2
<1>4. /\ Open = [c \in Clients |-> Open[c]] /\ Open' = [c \in Clients |-> Open'[c]]
      /\ Old = [c \in Clients |-> Old[c]] /\ Old' = [c \in Clients |-> Old'[c]]
  BY DEF Open, Old
<1> QED BY <1>3, <1>4

\* Every step of the queries is a step of the protocol or none.
LEMMA ProtocolSteps ==
    ASSUME QueryTypes, QueryTypes', Flying, [Next]_vars
    PROVE  [Protocol!SparseNext]_Protocol!sparseVars
<1>1. ASSUME NEW q \in Queries, NEW from, NEW to, from \in InFlight,
             to \in InFlight \cup {"done"}, Proceed(q, from, to), UNCHANGED <<now, clients, carried>>
      PROVE  [Protocol!SparseNext]_Protocol!sparseVars
  <2>1. CASE to = "done"
    <3>1. /\ pc[q] \in InFlight /\ pc' = [pc EXCEPT ![q] = "done"]
          /\ task' = [task EXCEPT ![q] = NoTask] /\ fresh' = [fresh EXCEPT ![q] = FALSE]
      BY <1>1, <2>1 DEF Proceed, Goto
    <3> QED BY <1>1, <3>1, LeaveSteps
  <2>2. CASE to # "done"
    <3>1. /\ \A r \in Queries : pc[r] \in InFlight <=> pc'[r] \in InFlight
          /\ UNCHANGED <<task, fresh>>
      BY <1>1, <2>2 DEF Proceed, Goto, QueryTypes
    <3> QED BY <1>1, <3>1, QuietSteps DEF Protocol!sparseVars
  <2> QED BY <2>1, <2>2
<1>2. ASSUME NEW q \in Queries, Handled(q) PROVE [Protocol!SparseNext]_Protocol!sparseVars
  <2>1. ASSUME NEW c \in Clients, NEW n \in Names, Arrives(q, c, n)
        PROVE  [Protocol!SparseNext]_Protocol!sparseVars
    BY <2>1, ArriveSteps DEF Protocol!SparseNext
  <2>2. CASE CheckBlock(q)
    BY <1>1, <2>2 DEF CheckBlock, InFlight
  <2>3. CASE Answered(q)
    BY <1>1, <2>3 DEF Answered, InFlight
  <2>4. CASE CountNX(q)
    <3>1. /\ \A r \in Queries : pc[r] \in InFlight <=> pc'[r] \in InFlight
          /\ UNCHANGED <<now, clients, task, fresh, carried>>
      BY <2>4 DEF CountNX, Goto, QueryTypes, InFlight
    <3> QED BY <3>1, QuietSteps DEF Protocol!sparseVars
  <2>5. CASE CountSparse(q)
    BY <2>5, AnswerSteps
  <2> QED BY <1>2, <2>1, <2>2, <2>3, <2>4, <2>5 DEF Handled
<1>3. CASE CleanSparse
  BY <1>3, ForgetSteps DEF Protocol!SparseNext
<1>4. CASE CleanTracker \/ UNCHANGED vars
  <2>1. UNCHANGED <<now, clients, pc, task, fresh, carried>>
    BY <1>4 DEF CleanTracker, vars
  <2> QED BY <2>1, QuietSteps DEF Protocol!sparseVars
<1>5. CASE TimePasses
  <2>1. ClockTick /\ UNCHANGED <<clients, pc, task, fresh, carried>>
    BY <1>5 DEF TimePasses
  <2>2. UNCHANGED <<clients, Open, Old, carried>>
    BY <2>1, QuietSteps
  <2> QED BY <2>1, <2>2 DEF Protocol!SparseNext, Protocol!ClockTick, ClockTick
<1> QED BY <1>2, <1>3, <1>4, <1>5 DEF Next, Handled

(* The handler calls the detector as SparseDGAProtocol says and in no other  *)
(* way: one arrival per query, then at most one NXDOMAIN for it, whatever    *)
(* other queries, the cleanup and the clock do in between.                   *)
THEOREM HandlerFollowsProtocol == Spec => FollowsProtocol
<1>1. Init => QueryTypes /\ Flying /\ Protocol!SparseInit
  <2> SUFFICES ASSUME Init PROVE QueryTypes /\ Flying /\ Protocol!SparseInit
    OBVIOUS
  <2>1. QueryTypes
    BY QueryTypesStart
  <2>2. {q \in Queries : pc[q] \in InFlight} = {}
    BY DEF Init, InFlight
  <2>3. \A c \in Clients, b \in BOOLEAN :
           {q \in Queries : pc[q] \in InFlight /\ task[q].client = c /\ fresh[q] = b} = {}
    BY <2>2
  <2>4. Open = [c \in Clients |-> 0] /\ Old = [c \in Clients |-> 0]
    BY <2>3, FS_EmptySet DEF Open, Old, Pending
  <2>5. Flying
    BY <2>2, FS_EmptySet DEF Flying
  <2> QED BY <2>1, <2>4, <2>5 DEF Init, NXInit, ClockInit, Protocol!ClockInit, Protocol!SparseInit,
                 NoHistory, Protocol!NoHistory
<1>2. QueryTypes /\ Flying /\ [Next]_vars
         => QueryTypes' /\ Flying' /\ [Protocol!SparseNext]_Protocol!sparseVars
  BY QueryTypesStep, FlyingStep, ProtocolSteps
<1> QED BY <1>1, <1>2, PTL DEF Spec, FollowsProtocol, Protocol!SparseSpec

(* What follows for the proxy: its sparse-DGA finding needs stragglers.      *)
THEOREM ProxyFlagsOnlyStragglers == Spec => []FlagNeedsStragglers
BY HandlerFollowsProtocol, OnlyStragglersFlag, PTL DEF FollowsProtocol, FlagNeedsStragglers

-----------------------------------------------------------------------------
(* The history of the NXDOMAINs of a domain, against its counter.            *)

\* Non-decreasing times, none after t
TimesUpTo(w, t) ==
    /\ w \in Seq(Nat)
    /\ \A i, j \in 1..Len(w) : i <= j => w[i] <= w[j] /\ w[j] <= t

\* The last k of the times w are the ones the counter's window has counted:
\* the last trip is the last of them when there are more than Threshold, and
\* what came before them, unless it tripped, is too old to add to a flood.
Accounted(w, trip, k, first, last, t) ==
    LET n == Len(w) IN
    /\ TimesUpTo(w, t)
    /\ trip \in 0..n /\ k \in 0..n
    /\ k > 0 => w[n - k + 1] = first /\ w[n] = last
    /\ k > Threshold => trip = n
    /\ k > 0 /\ n - k > Threshold /\ trip < n - k => w[n - k - Threshold] + Window < first
    /\ k = 0 /\ n > 0 => w[n] + Window < t
    /\ trip > 0 => trip > Threshold /\ w[trip] - w[trip - Threshold] <= Window

AccountedFor(d) ==
    Accounted(nxTimes[d], lastTrip[d], counters[d].count, counters[d].first, counters[d].last, now)

Accounts ==
    /\ nxTimes \in [Domains -> Seq(Nat)]
    /\ lastTrip \in [Domains -> Nat]
    /\ \A d \in Domains : AccountedFor(d)

\* Times in order are numbers in order.
LEMMA TimesAre ==
    ASSUME NEW t, NEW w, TimesUpTo(w, t)
    PROVE  /\ w \in Seq(Nat) /\ Len(w) \in Nat
           /\ \A i \in 1..Len(w) : w[i] \in Nat /\ w[i] <= t
           /\ \A i, j \in 1..Len(w) : i <= j => w[i] <= w[j]
<1>1. w \in Seq(Nat) /\ \A i, j \in 1..Len(w) : i <= j => w[i] <= w[j] /\ w[j] <= t
  BY DEF TimesUpTo
<1>2. Len(w) \in Nat /\ \A i \in 1..Len(w) : w[i] \in Nat /\ i <= i
  BY <1>1
<1> QED BY <1>1, <1>2

\* An NXDOMAIN counted now goes last in the history.
LEMMA TimesAppend ==
    ASSUME NEW t \in Nat, NEW w, TimesUpTo(w, t)
    PROVE  /\ TimesUpTo(Append(w, t), t) /\ Len(Append(w, t)) = Len(w) + 1
           /\ \A i \in 1..Len(w) : Append(w, t)[i] = w[i]
           /\ Append(w, t)[Len(w) + 1] = t
BY DEF TimesUpTo

\* An NXDOMAIN that the window counts, the last one tripping or not
LEMMA AccountedNext ==
    ASSUME NEW t \in Nat, NEW w, NEW trip, NEW k \in Nat \ {0}, NEW first \in Nat, NEW last \in Nat,
           Accounted(w, trip, k, first, last, t), t - first <= Window
    PROVE  Accounted(Append(w, t), IF k + 1 > Threshold THEN Len(w) + 1 ELSE trip, k + 1, first, t, t)
<1> USE NXAssumption
<1> DEFINE n == Len(w)
           v == Append(w, t)
<1>1. /\ TimesUpTo(w, t) /\ n \in Nat /\ trip \in 0..n /\ k <= n /\ w \in Seq(Nat)
      /\ w[n - k + 1] = first
  BY DEF Accounted, TimesUpTo
<1>2. /\ TimesUpTo(v, t) /\ Len(v) = n + 1 /\ v[n + 1] = t
      /\ \A i \in 1..n : v[i] = w[i]
  BY <1>1, TimesAppend
<1>3. /\ \A i, j \in 1..(n + 1) : i <= j => v[i] <= v[j] /\ v[j] <= t
      /\ \A i \in 1..(n + 1) : v[i] \in Nat
  <2> HIDE DEF v, n
  <2> QED BY <1>2, TimesAre
<1>4. v[n - k + 1] = first /\ (n + 1) - (k + 1) = n - k
  <2>1. n - k + 1 \in 1..n
    BY <1>1
  <2> QED BY <1>1, <1>2, <2>1
<1>5. ASSUME n - k > Threshold, trip < n - k PROVE v[n - k - Threshold] + Window < first
  <2>1. n - k - Threshold \in 1..n
    <3> HIDE DEF n
    <3> QED BY <1>1, <1>5
  <2>2. w[n - k - Threshold] + Window < first
    BY <1>5 DEF Accounted
  <2> QED BY <1>2, <2>1, <2>2
<1>6. ASSUME trip > 0 PROVE trip > Threshold /\ v[trip] - v[trip - Threshold] <= Window
  <2>1. trip > Threshold /\ w[trip] - w[trip - Threshold] <= Window
    BY <1>1, <1>6 DEF Accounted
  <2>2. trip \in 1..n /\ trip - Threshold \in 1..n
    BY <1>1, <2>1
  <2> QED BY <1>2, <2>1, <2>2
<1>7. ASSUME k + 1 > Threshold PROVE v[n + 1] - v[n + 1 - Threshold] <= Window
  <2>1. n - k + 1 \in 1..(n + 1) /\ n + 1 - Threshold \in 1..(n + 1) /\ n - k + 1 <= n + 1 - Threshold
    BY <1>1, <1>7
  <2>2. v[n - k + 1] <= v[n + 1 - Threshold] /\ v[n + 1 - Threshold] \in Nat
    BY <1>3, <2>1
  <2>3. t - first <= Window /\ v[n - k + 1] = first /\ v[n + 1] = t
    BY <1>2, <1>4
  <2> HIDE DEF v, n
  <2> QED BY <2>2, <2>3
<1> HIDE DEF n, v
<1>8. Accounted(v, IF k + 1 > Threshold THEN n + 1 ELSE trip, k + 1, first, t, t)
  <2>1. CASE k + 1 > Threshold
    BY <1>1, <1>2, <1>4, <1>7, <2>1 DEF Accounted
  <2>2. CASE ~(k + 1 > Threshold)
    BY <1>1, <1>2, <1>4, <1>5, <1>6, <2>2 DEF Accounted
  <2> QED BY <2>1, <2>2
<1> QED BY <1>8 DEF n, v

\* An NXDOMAIN that begins a window
LEMMA AccountedFirst ==
    ASSUME NEW t \in Nat, NEW w, NEW trip, NEW k \in Nat, NEW first \in Nat, NEW last \in Nat,
           Accounted(w, trip, k, first, last, t), k = 0 \/ t - first > Window
    PROVE  Accounted(Append(w, t), trip, 1, t, t, t)
<1> USE NXAssumption
<1> DEFINE n == Len(w)
           v == Append(w, t)
<1>1. /\ TimesUpTo(w, t) /\ n \in Nat /\ trip \in 0..n /\ k <= n /\ w \in Seq(Nat)
  BY DEF Accounted, TimesUpTo
<1>2. /\ TimesUpTo(v, t) /\ Len(v) = n + 1 /\ v[n + 1] = t
      /\ \A i \in 1..n : v[i] = w[i]
  BY <1>1, TimesAppend
<1>3. /\ \A i, j \in 1..n : i <= j => w[i] <= w[j]
      /\ \A i \in 1..n : w[i] \in Nat
  BY <1>1 DEF TimesUpTo
<1>4. ASSUME n > Threshold, trip < n PROVE w[n - Threshold] + Window < t
  <2>3. n - Threshold \in 1..n /\ n \in 1..n /\ n - Threshold <= n
    BY <1>1, <1>4
  <2>1. CASE k = 0
    <3>1. w[n] + Window < t
      BY <2>1, <2>3 DEF Accounted
    <3> HIDE DEF n
    <3>2. w[n - Threshold] <= w[n] /\ w[n] \in Nat /\ w[n - Threshold] \in Nat
      BY <1>3, <2>3
    <3> QED BY <3>1, <3>2
  <2>2. CASE k > 0
    <3>1. k <= Threshold /\ w[n - k + 1] = first
      BY <1>1, <1>4, <2>2 DEF Accounted
    <3>2. n - k + 1 \in 1..n /\ n - Threshold <= n - k + 1
      BY <1>1, <2>2, <3>1
    <3>3. w[n - Threshold] <= w[n - k + 1]
      BY <1>3, <2>3, <3>2
    <3>4. t - first > Window
      BY <2>2
    <3> QED BY <1>3, <2>3, <3>1, <3>3, <3>4
  <2> QED BY <2>1, <2>2
<1>5. ASSUME trip > 0 PROVE trip > Threshold /\ v[trip] - v[trip - Threshold] <= Window
  <2>1. trip > Threshold /\ w[trip] - w[trip - Threshold] <= Window
    BY <1>1, <1>5 DEF Accounted
  <2>2. trip \in 1..n /\ trip - Threshold \in 1..n
    BY <1>1, <2>1
  <2> QED BY <1>2, <2>1, <2>2
<1> HIDE DEF n, v
<1>6. Accounted(v, trip, 1, t, t, t)
  BY <1>1, <1>2, <1>4, <1>5 DEF Accounted
<1> QED BY <1>6 DEF n, v

\* A counter that is dropped, and time that passes
LEMMA AccountedLater ==
    ASSUME NEW t \in Nat, NEW u \in Nat, t <= u, NEW w, NEW trip, NEW k, NEW first, NEW last,
           Accounted(w, trip, k, first, last, t)
    PROVE  /\ Accounted(w, trip, k, first, last, u)
           /\ k = 0 \/ last + Window < u => Accounted(w, trip, 0, 0, 0, u)
<1> USE NXAssumption
<1> DEFINE n == Len(w)
<1>1. TimesUpTo(w, u) /\ n \in Nat /\ \A i \in 1..n : w[i] \in Nat
  <2>1. TimesUpTo(w, t)
    BY DEF Accounted
  <2>2. \A i \in 1..n : w[i] \in Nat
    BY <2>1 DEF TimesUpTo
  <2> QED BY <2>1, <2>2 DEF TimesUpTo
<1>2. k = 0 /\ n > 0 => w[n] + Window < u
  <2>1. k = 0 /\ n > 0 => w[n] + Window < t
    BY DEF Accounted
  <2> QED BY <1>1, <2>1
<1>3. Accounted(w, trip, k, first, last, u)
  BY <1>1, <1>2 DEF Accounted
<1>4. ASSUME k = 0 \/ last + Window < u PROVE Accounted(w, trip, 0, 0, 0, u)
  <2>1. n > 0 => w[n] + Window < u
    BY <1>1, <1>2, <1>4 DEF Accounted
  <2> QED BY <1>1, <2>1 DEF Accounted
<1> QED BY <1>3, <1>4

\* No NXDOMAIN is counted and nothing blocked at the start.
LEMMA AccountsStart == Init => Accounts
<1> SUFFICES ASSUME Init PROVE Accounts
  OBVIOUS
<1>1. \A d \in Domains : nxTimes[d] = <<>> /\ lastTrip[d] = 0 /\ counters[d].count = 0
  BY DEF Init, NXInit, Absent
<1>2. \A k, l, t : Accounted(<<>>, 0, 0, k, l, t)
  BY NXAssumption DEF Accounted, TimesUpTo
<1> QED BY <1>1, <1>2 DEF Accounts, AccountedFor, Init

\* Every step keeps the account of the counter.
LEMMA AccountsStep ==
    ASSUME NXTypeOK, QueryTypes, Accounts, [Next]_vars
    PROVE  Accounts'
<1> USE NXAssumption
<1>1. now \in Nat /\ \A d \in Domains : counters[d] \in Counter
  BY DEF NXTypeOK
<1>2. ASSUME NEW q \in Queries, CountNX(q) PROVE Accounts'
  <2>1. PICK d \in Domains : d = Apex[task[q].name]
    BY <1>2, TaskOf DEF CountNX, Goto, InFlight
  <2> DEFINE c == counters[d]
             e == AfterNX(c)
             w == Append(nxTimes[d], now)
  <2>2. /\ counters' = [counters EXCEPT ![d] = e] /\ now' = now
        /\ nxTimes' = [nxTimes EXCEPT ![d] = w]
        /\ lastTrip' = [lastTrip EXCEPT ![d] = IF Exceeds(counters'[d].count) THEN Len(nxTimes'[d]) ELSE @]
    BY <1>2, <2>1 DEF CountNX, RecordNXDomain
  <2>3. counters'[d] = e /\ nxTimes'[d] = w
    BY <2>1, <2>2 DEF NXTypeOK, Accounts
  <2>4. lastTrip' = [lastTrip EXCEPT ![d] = IF Exceeds(e.count) THEN Len(w) ELSE @]
    <3> HIDE DEF e, w
    <3>1. counters'[d].count = e.count /\ Len(nxTimes'[d]) = Len(w)
      BY <2>3
    <3> QED BY <2>2, <3>1 DEF Exceeds
  <2>5. c \in Counter /\ AccountedFor(d) /\ nxTimes[d] \in Seq(Nat) /\ lastTrip[d] \in Nat
    BY <1>1, <2>1 DEF Accounts
  <2>6. w \in Seq(Nat) /\ Len(w) = Len(nxTimes[d]) + 1 /\ Len(w) \in Nat
    BY <1>1, <2>5
  <2>7. Accounted(w, IF Exceeds(e.count) THEN Len(w) ELSE lastTrip[d], e.count, e.first, e.last, now)
    <3>0. /\ Accounted(nxTimes[d], lastTrip[d], c.count, c.first, c.last, now)
          /\ c.count \in Nat /\ c.first \in Nat /\ c.last \in Nat
      BY <2>5 DEF AccountedFor, Counter
    <3> HIDE DEF c
    <3>1. CASE Present(c) /\ ~Stale(c)
      <4>1. c.count \in Nat \ {0} /\ now - c.first <= Window
        BY <1>1, <3>0, <3>1 DEF Present, Stale
      <4>2. e.count = c.count + 1 /\ e.first = c.first /\ e.last = now
        BY <2>5, <3>1 DEF AfterNX, NextNX, Counter
      <4>3. Accounted(w, IF c.count + 1 > Threshold THEN Len(nxTimes[d]) + 1 ELSE lastTrip[d],
                      c.count + 1, c.first, now, now)
        BY <1>1, <3>0, <4>1, AccountedNext
      <4> HIDE DEF e, w
      <4> QED BY <2>6, <4>2, <4>3 DEF Exceeds
    <3>2. CASE ~(Present(c) /\ ~Stale(c))
      <4>1. c.count = 0 \/ now - c.first > Window
        BY <3>0, <3>2 DEF Present, Stale
      <4>2. e.count = 1 /\ e.first = now /\ e.last = now /\ ~Exceeds(e.count)
        BY <3>2 DEF AfterNX, FirstNX, Exceeds
      <4>3. Accounted(w, lastTrip[d], 1, now, now, now)
        BY <1>1, <3>0, <4>1, AccountedFirst
      <4> HIDE DEF e, w
      <4> QED BY <4>2, <4>3
    <3> QED BY <3>1, <3>2
  <2> HIDE DEF c, e, w
  <2>8. AccountedFor(d)'
    BY <2>1, <2>2, <2>3, <2>4, <2>7 DEF AccountedFor, Accounts
  <2>9. ASSUME NEW b \in Domains \ {d} PROVE AccountedFor(b)'
    BY <2>1, <2>2, <2>4, <2>9 DEF AccountedFor, Accounts, NXTypeOK
  <2>10. nxTimes' \in [Domains -> Seq(Nat)] /\ lastTrip' \in [Domains -> Nat]
    BY <2>1, <2>2, <2>4, <2>6 DEF Accounts
  <2> QED BY <2>8, <2>9, <2>10 DEF Accounts
<1>3. ASSUME UNCHANGED <<nxTimes, lastTrip>>, now' \in Nat, now <= now',
             \A d \in Domains :
                 \/ /\ counters'[d].count = counters[d].count
                    /\ counters'[d].first = counters[d].first /\ counters'[d].last = counters[d].last
                 \/ IdleTooLong(counters[d]) /\ counters'[d] = Absent
      PROVE  Accounts'
  <2>1. ASSUME NEW d \in Domains PROVE AccountedFor(d)'
    <3>1. /\ counters[d].count \in Nat /\ counters[d].first \in Nat /\ counters[d].last \in Nat
          /\ Accounted(nxTimes[d], lastTrip[d], counters[d].count, counters[d].first, counters[d].last, now)
      BY <1>1 DEF Accounts, AccountedFor, Counter
    <3>2. /\ Accounted(nxTimes[d], lastTrip[d], counters[d].count, counters[d].first, counters[d].last, now')
          /\ counters[d].last + Window < now' => Accounted(nxTimes[d], lastTrip[d], 0, 0, 0, now')
      BY <1>1, <1>3, <3>1, AccountedLater
    <3>3. CASE IdleTooLong(counters[d]) /\ counters'[d] = Absent
      <4>1. counters[d].last + Window < now'
        BY <1>1, <1>3, <3>1, <3>3 DEF IdleTooLong
      <4> QED BY <1>3, <3>2, <3>3, <4>1 DEF AccountedFor, Absent
    <3>4. CASE /\ counters'[d].count = counters[d].count
               /\ counters'[d].first = counters[d].first /\ counters'[d].last = counters[d].last
      BY <1>3, <3>2, <3>4 DEF AccountedFor
    <3> QED BY <1>3, <3>3, <3>4
  <2> QED BY <1>3, <2>1 DEF Accounts
<1>4. ASSUME NEW q \in Queries, CheckBlock(q) PROVE Accounts'
  <2>1. UNCHANGED <<now, nxTimes, lastTrip>> /\ IsBlocked(Apex[task[q].name])
    BY <1>4 DEF CheckBlock
  <2>2. ASSUME NEW d \in Domains
        PROVE  /\ counters'[d].count = counters[d].count
               /\ counters'[d].first = counters[d].first /\ counters'[d].last = counters[d].last
    BY <1>1, <2>1 DEF IsBlocked, NXTypeOK, Counter
  <2> QED BY <1>1, <1>3, <2>1, <2>2
<1>5. CASE CleanTracker
  BY <1>1, <1>3, <1>5 DEF CleanTracker, NXCleanup
<1>6. CASE TimePasses
  BY <1>1, <1>3, <1>6, ClockAssumption DEF TimePasses, ClockTick
<1>7. CASE CleanSparse \/ UNCHANGED vars
  BY <1>1, <1>3, <1>7 DEF CleanSparse, vars
<1>8. ASSUME NEW q \in Queries, Answered(q) \/ CountSparse(q) \/ \E c \in Clients, n \in Names : Arrives(q, c, n)
      PROVE  Accounts'
  <2>1. UNCHANGED <<now, counters, nxTimes, lastTrip>>
    BY <1>8 DEF Answered, CountSparse, Arrives
  <2> QED BY <1>1, <1>3, <2>1
<1> QED BY <1>2, <1>4, <1>5, <1>6, <1>7, <1>8 DEF Next

(* Counter, window and block of every domain are accounted for by the times   *)
(* at which its NXDOMAINs were recorded.                                      *)
THEOREM AccountsHold == Spec => []Accounts
<1>1. NXSpec => []NXTypeOK
  BY NXTypeCorrect
<1> QED BY <1>1, HandlerUsesTracker, QueryTypesStart, QueryTypesStep, AccountsStart, AccountsStep, PTL DEF Spec

(* No false trip: a block rests on more than Threshold NXDOMAINs in a Window. *)
THEOREM TripsAreJustified == Spec => []TripJustified
<1>1. Accounts => TripJustified
  <2> SUFFICES ASSUME Accounts, NEW d \in Domains, lastTrip[d] > 0
               PROVE  /\ lastTrip[d] > Threshold
                      /\ TripTime(d) - nxTimes[d][lastTrip[d] - Threshold] <= Window
    BY DEF TripJustified
  <2> QED BY DEF Accounts, AccountedFor, Accounted, TripTime
<1> QED BY <1>1, AccountsHold, PTL

\* More than 2 * Threshold NXDOMAINs within a Window have tripped the block in it.
LEMMA FloodTrips ==
    ASSUME NEW t \in Nat, NEW w, NEW trip, NEW k \in Nat, NEW first \in Nat, NEW last, first <= t,
           Accounted(w, trip, k, first, last, t),
           Len(w) > 2 * Threshold, t - w[Len(w) - 2 * Threshold] <= Window
    PROVE  trip > 0 /\ t - w[trip] <= Window
<1> USE NXAssumption
<1> DEFINE n == Len(w)
           m == n - 2 * Threshold
<1>0. n > 2 * Threshold /\ m = n - 2 * Threshold /\ t - w[m] <= Window
  OBVIOUS
<1>1. /\ n \in Nat /\ trip \in 0..n /\ k <= n
      /\ \A i, j \in 1..n : i <= j => w[i] <= w[j]
      /\ \A i \in 1..n : w[i] \in Nat
  <2>1. TimesUpTo(w, t) /\ trip \in 0..n /\ k \in 0..n
    BY DEF Accounted
  <2>2. /\ n \in Nat
        /\ \A i, j \in 1..n : i <= j => w[i] <= w[j]
        /\ \A i \in 1..n : w[i] \in Nat
    BY <2>1, TimesAre
  <2> QED BY <2>1, <2>2
<1>1a. /\ n \in Nat /\ trip \in 0..n /\ k <= n
       /\ m = n - 2 * Threshold /\ n > 2 * Threshold
  BY <1>0, <1>1
<1> HIDE DEF n, m
<1>2. m \in 1..n
  BY <1>1a
<1>3. trip >= m
  <2>1. CASE k > Threshold
    <3>1. trip = n
      BY <2>1 DEF Accounted, n
    <3> QED BY <1>2, <3>1
  <2>2. CASE k = 0
    <3>1. n \in 1..n /\ m <= n
      BY <1>1a, <1>2
    <3>2. w[n] + Window < t
      BY <2>2, <3>1 DEF Accounted, n
    <3>3. w[m] <= w[n] /\ w[m] \in Nat /\ w[n] \in Nat
      BY <1>1, <1>2, <3>1
    <3> QED BY <1>0, <3>2, <3>3
  <2>3. CASE k > 0 /\ k <= Threshold /\ trip < m
    <3>1. /\ n - k > Threshold /\ trip < n - k
          /\ n - k - Threshold \in 1..n /\ m <= n - k - Threshold
      BY <1>1a, <2>3
    <3>2. w[n - k - Threshold] + Window < first
      BY <2>3, <3>1 DEF Accounted, n
    <3>3. w[m] <= w[n - k - Threshold] /\ w[m] \in Nat /\ w[n - k - Threshold] \in Nat
      BY <1>1, <1>2, <3>1
    <3> QED BY <1>0, <3>2, <3>3
  <2> QED BY <1>1, <1>2, <2>1, <2>2, <2>3
<1>4. trip \in 1..n /\ m <= trip
  BY <1>1a, <1>2, <1>3
<1>5. w[m] <= w[trip] /\ w[m] \in Nat /\ w[trip] \in Nat
  BY <1>1, <1>2, <1>4
<1>6. \A x, y \in Nat : x <= y /\ t - x <= Window => t - y <= Window
  OBVIOUS
<1> QED BY <1>0, <1>4, <1>5, <1>6

(* No missed flood: the windows do not slide, so that twice the Threshold is *)
(* what a flood needs to be caught for certain.                              *)
THEOREM FloodsAreCaught == Spec => []FloodCaught
<1> USE NXAssumption
<1>1. ASSUME NXTypeOK, Accounts, NEW d \in Domains, Len(nxTimes[d]) > 2 * Threshold,
             now - nxTimes[d][Len(nxTimes[d]) - 2 * Threshold] <= Window
      PROVE  lastTrip[d] > 0 /\ now - TripTime(d) <= Window
  <2>1. /\ Accounted(nxTimes[d], lastTrip[d], counters[d].count, counters[d].first, counters[d].last, now)
        /\ counters[d].count \in Nat /\ counters[d].first \in Nat /\ now \in Nat
        /\ counters[d].first <= now
    BY <1>1 DEF NXTypeOK, Accounts, AccountedFor, Counter
  <2>2. lastTrip[d] > 0 /\ now - nxTimes[d][lastTrip[d]] <= Window
    <3> DEFINE w == nxTimes[d]
               trip == lastTrip[d]
               k == counters[d].count
               first == counters[d].first
               last == counters[d].last
    <3>1. /\ Accounted(w, trip, k, first, last, now) /\ k \in Nat /\ first \in Nat /\ now \in Nat
          /\ first <= now /\ Len(w) > 2 * Threshold /\ now - w[Len(w) - 2 * Threshold] <= Window
      BY <1>1, <2>1
    <3> HIDE DEF w, trip, k, first, last
    <3>2. trip > 0 /\ now - w[trip] <= Window
      BY <3>1, FloodTrips
    <3> QED BY <3>2 DEF w, trip
  <2> QED BY <2>2 DEF TripTime
<1>2. NXTypeOK /\ Accounts => FloodCaught
  BY <1>1 DEF FloodCaught
<1>3. NXSpec => []NXTypeOK
  BY NXTypeCorrect
<1> QED BY <1>2, <1>3, HandlerUsesTracker, AccountsHold, PTL

(* Types of the composition, histories included.                             *)
THEOREM TrackingTypeCorrect == Spec => []TypeOK
<1>1. ASSUME NXTypeOK, QueryTypes, Accounts, Protocol!SparseTypeOK PROVE TypeOK
  <2>1. ASSUME NEW d \in Domains PROVE nxTimes[d] \in Seq(0..now) /\ lastTrip[d] \in 0..Len(nxTimes[d])
    <3>1. /\ nxTimes[d] \in Seq(Nat) /\ TimesUpTo(nxTimes[d], now)
          /\ lastTrip[d] \in 0..Len(nxTimes[d])
      BY <1>1 DEF Accounts, AccountedFor, Accounted
    <3>2. now \in Nat /\ Len(nxTimes[d]) \in Nat /\ nxTimes[d] \in [1..Len(nxTimes[d]) -> Nat]
      BY <1>1, <3>1 DEF NXTypeOK
    <3>3. \A i \in 1..Len(nxTimes[d]) : nxTimes[d][i] \in 0..now
      <4>1. \A i \in 1..Len(nxTimes[d]) : nxTimes[d][i] \in Nat /\ nxTimes[d][i] <= now
        BY <3>1, TimesAre
      <4> QED BY <3>2, <4>1
    <3>4. nxTimes[d] \in [1..Len(nxTimes[d]) -> 0..now]
      BY <3>2, <3>3
    <3> QED BY <3>1, <3>2, <3>4
  <2>2. nxTimes \in [Domains -> Seq(0..now)]
    BY <1>1, <2>1 DEF Accounts
  <2>3. clients \in [Clients -> History]
    BY <1>1 DEF Protocol!SparseTypeOK, Protocol!History, History
  <2> QED BY <1>1, <2>1, <2>2, <2>3 DEF TypeOK, QueryTypes
<1>2. NXSpec => []NXTypeOK
  BY NXTypeCorrect
<1>3. FollowsProtocol => []Protocol!SparseTypeOK
  BY SparseTypeCorrect DEF FollowsProtocol
<1> QED BY <1>1, <1>2, <1>3, HandlerUsesTracker, HandlerFollowsProtocol, QueryTypesStart,
           QueryTypesStep, AccountsHold, PTL DEF Spec
=============================================================================
