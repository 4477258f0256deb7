-------------------------- MODULE InspectionProofs ---------------------------
(***************************************************************************)
(* Proofs about handleDNS with its detectors of histories, for any number of *)
(* handlers in any interleaving: what the EDNS inspector lets through, what   *)
(* the two fast-flux detectors know of each other, when a downgrade is        *)
(* reported, what the DNSSEC walk accepts and rejects, that a slow leak is    *)
(* noticed, and that every part keeps its types.                             *)
(***************************************************************************)
EXTENDS Inspection, FiniteSetTheorems, SequenceTheorems, WellFoundedInduction, TLAPS

-----------------------------------------------------------------------------
(* The handler: a query goes through its stages in order, and skips none     *)
(* that is on, but that a cached answer or an error ends it at "forward".     *)

HandlerInv ==
    /\ now \in Nat
    /\ HandlerTypeOK
    /\ DOMAIN query = Queries
    /\ \A q \in Queries : On(config.on, pc[q])

\* One handler goes on; the others stay where they are.
Moves(q) ==
    /\ \A p \in Queries \ {q} : pc'[p] = pc[p] /\ query'[p] = query[p] /\ answer'[p] = answer[p]
    /\ ~At(q, "arrive") => query'[q] = query[q]
    /\ ~At(q, "forward") => answer'[q] = answer[q]
    /\ Rank[pc'[q]] > Rank[pc[q]]
    /\ On(config.on, pc'[q])
    /\ \/ At(q, "forward") /\ pc'[q] = "done"
       \/ \A s \in Stages :
             On(config.on, s) => Rank[s] <= Rank[pc[q]] \/ Rank[s] >= Rank[pc'[q]]

\* Proceeding leads to the next stage that is on.
LEMMA Onward ==
    ASSUME HandlerInv, NEW q \in Queries, Proceed(q)
    PROVE  /\ pc' = [pc EXCEPT ![q] = pc'[q]] /\ pc'[q] \in Stages
           /\ Rank[pc'[q]] > Rank[pc[q]]
           /\ On(config.on, pc'[q])
           /\ \A s \in Stages :
                 On(config.on, s) => Rank[s] <= Rank[pc[q]] \/ Rank[s] >= Rank[pc'[q]]
<1>1. pc[q] \in Stages /\ config \in Configs /\ pc \in [Queries -> Stages]
  BY DEF HandlerInv, HandlerTypeOK
<1>2. PICK next \in After[config.on][pc[q]] : Goto(q, next)
  BY DEF Proceed
<1>3. After[config.on][pc[q]] =
        {n \in Stages :
            /\ On(config.on, n) /\ Rank[n] > Rank[pc[q]]
            /\ \A s \in Stages :
                  On(config.on, s) => Rank[s] <= Rank[pc[q]] \/ Rank[s] >= Rank[n]}
  BY <1>1, Zenon DEF After
<1>4. pc' = [pc EXCEPT ![q] = next] /\ pc'[q] = next
  BY <1>1, <1>2 DEF Goto
<1> QED BY <1>2, <1>3, <1>4, Zenon

\* A step that proceeds and keeps the query and the response is a move.
LEMMA Proceeds ==
    ASSUME HandlerInv, NEW q \in Queries, Proceed(q), UNCHANGED <<query, answer, config, now>>
    PROVE  HandlerInv' /\ Moves(q)
<1>1. pc \in [Queries -> Stages]
  BY DEF HandlerInv, HandlerTypeOK
<1>2. pc' \in [Queries -> Stages] /\ \A p \in Queries \ {q} : pc'[p] = pc[p]
  BY <1>1, Onward
<1>3. Moves(q)
  BY <1>2, Onward, Zenon DEF Moves
<1>4. \A p \in Queries : On(config.on, pc'[p])
  BY <1>2, Onward, Zenon DEF HandlerInv
<1> QED BY <1>2, <1>3, <1>4 DEF HandlerInv, HandlerTypeOK, On

\* The handlers' invariant holds at the start.
LEMMA HandlerStart == Init => HandlerInv
<1> SUFFICES ASSUME Init PROVE HandlerInv
  OBVIOUS
<1>1. config \in Configs /\ now = 0
  BY DEF Init, HandlerInit, ClockInit
<1>2. \A q \in Queries : query[q] \in config.asks[q] /\ answer[q] \in config.answers
  BY <1>1, HandlerAssumption DEF Init, HandlerInit
<1>3. pc \in [Queries -> Stages] /\ \A q \in Queries : On(config.on, pc[q])
  BY DEF Init, HandlerInit, On, Stages, Rank, Feature
<1> QED BY <1>1, <1>2, <1>3 DEF Init, HandlerInit, HandlerInv, HandlerTypeOK

\* A handler's step keeps the handlers' invariant, and is a move if it moves at all.
LEMMA HandlerStep ==
    ASSUME HandlerInv, NEW q \in Queries, Handle(q), UNCHANGED now
    PROVE  HandlerInv' /\ config' = config /\ (UNCHANGED handlerVars \/ Moves(q))
<1>1. UNCHANGED handlerVars => HandlerInv' /\ config' = config
  BY DEF handlerVars, HandlerInv, HandlerTypeOK, On
<1>2. ASSUME Proceed(q), UNCHANGED <<query, answer, config>> PROVE HandlerInv' /\ Moves(q)
  BY <1>2, Proceeds
<1>3. CASE Enter(q)
  <2>1. At(q, "arrive") /\ Proceed(q) /\ UNCHANGED <<answer, config>>
    BY <1>3 DEF Enter, Arrive
  <2>2. PICK a \in config.asks[q] : query' = [query EXCEPT ![q] = a]
    BY <1>3 DEF Enter, Arrive
  <2>3. /\ DOMAIN query' = Queries /\ query'[q] \in config.asks[q]
        /\ \A p \in Queries \ {q} : query'[p] = query[p]
    BY <2>2 DEF HandlerInv
  <2>4. pc' \in [Queries -> Stages] /\ \A p \in Queries \ {q} : pc'[p] = pc[p]
    BY <2>1, Onward DEF HandlerInv, HandlerTypeOK
  <2>5. Moves(q)
    BY <2>1, <2>3, <2>4, Onward, Zenon DEF Moves
  <2>6. \A p \in Queries : On(config.on, pc'[p])
    BY <2>1, <2>4, Onward, Zenon DEF HandlerInv
  <2>7. \A p \in Queries : query'[p] \in config.asks[p]
    BY <2>3 DEF HandlerInv, HandlerTypeOK
  <2> QED BY <2>1, <2>3, <2>4, <2>5, <2>6, <2>7 DEF HandlerInv, HandlerTypeOK, On
<1>4. CASE LowSlow(q)
  BY <1>2, <1>4 DEF LowSlow, RecordExfil, AnalyzeExfil
<1>5. CASE C2Detection(q)
  BY <1>1, <1>2, <1>5
     DEF C2Detection, SuspectC2, AnalyzeFlux, TrackFlux, TrackNameservers, BeginTrackC2, EndTrackC2,
         Collides, handlerVars
<1>6. CASE EDNSInspection(q)
  BY <1>1, <1>2, <1>6 DEF EDNSInspection, InspectOption, Report, NoFinding
<1>7. CASE Relay(q)
  <2>1. At(q, "forward") /\ UNCHANGED <<query, config>>
    BY <1>7 DEF Relay, Forward
  <2>2. CASE Goto(q, "done") /\ UNCHANGED answer
    <3>1. pc' = [pc EXCEPT ![q] = "done"]
      BY <2>2 DEF Goto
    <3>2. /\ pc' \in [Queries -> Stages] /\ pc'[q] = "done"
          /\ \A p \in Queries \ {q} : pc'[p] = pc[p]
          /\ pc[q] = "forward"
      BY <2>1, <3>1 DEF HandlerInv, HandlerTypeOK, Stages, Rank, At
    <3>3. Rank[pc'[q]] > Rank[pc[q]]
      BY <3>2 DEF Rank
    <3>4. On(config.on, pc'[q])
      BY <3>2 DEF On, Feature
    <3>5. Moves(q)
      BY <2>1, <2>2, <3>2, <3>3, <3>4, Zenon DEF Moves
    <3>6. \A p \in Queries : On(config.on, pc'[p])
      BY <3>2, <3>4, Zenon DEF HandlerInv
    <3> QED BY <2>1, <2>2, <3>2, <3>5, <3>6 DEF HandlerInv, HandlerTypeOK, On
  <2>3. CASE Proceed(q) /\ \E r \in config.answers : answer' = [answer EXCEPT ![q] = r]
    <3>1. /\ answer' \in [Queries -> config.answers]
          /\ \A p \in Queries \ {q} : answer'[p] = answer[p]
      BY <2>3 DEF HandlerInv, HandlerTypeOK
    <3>2. pc' \in [Queries -> Stages] /\ \A p \in Queries \ {q} : pc'[p] = pc[p]
      BY <2>3, Onward DEF HandlerInv, HandlerTypeOK
    <3>3. Moves(q)
      BY <2>1, <2>3, <3>1, <3>2, Onward, Zenon DEF Moves
    <3>4. \A p \in Queries : On(config.on, pc'[p])
      BY <2>3, <3>2, Onward, Zenon DEF HandlerInv
    <3> QED BY <2>1, <3>1, <3>2, <3>3, <3>4 DEF HandlerInv, HandlerTypeOK, On
  <2> QED BY <1>7, <2>2, <2>3 DEF Relay, Forward
<1>8. CASE DNSSEC(q)
  <2>1. UNCHANGED handlerVars \/ (Proceed(q) /\ UNCHANGED <<query, answer, config>>)
    BY <1>8
       DEF DNSSEC, ValidatorStep, Validate, Decide, NextSet, NextSig, FetchSignerKeys, TryKeys, AtRoot,
           FetchDS, MatchDS, FetchParentKeys, TryParent, Fill, FetchKeys, Lookup, Becomes
  <2> QED BY <1>1, <1>2, <2>1
<1>9. CASE Downgrade(q)
  <2>1. At(q, "downgrade") /\ Goto(q, "done") /\ UNCHANGED <<query, answer, config>>
    BY <1>9 DEF Downgrade
  <2>2. pc' = [pc EXCEPT ![q] = "done"]
    BY <2>1 DEF Goto
  <2>3. /\ pc' \in [Queries -> Stages] /\ pc'[q] = "done"
        /\ \A p \in Queries \ {q} : pc'[p] = pc[p]
        /\ pc[q] = "downgrade"
    BY <2>1, <2>2 DEF HandlerInv, HandlerTypeOK, Stages, Rank, At
  <2>4. /\ Rank[pc'[q]] > Rank[pc[q]]
        /\ \A s \in Stages : Rank[s] <= Rank[pc[q]] \/ Rank[s] >= Rank[pc'[q]]
    BY <2>3 DEF Rank, Stages
  <2>5. On(config.on, pc'[q])
    BY <2>3 DEF On, Feature
  <2>6. Moves(q)
    BY <2>1, <2>3, <2>4, <2>5, Zenon DEF Moves
  <2>7. \A p \in Queries : On(config.on, pc'[p])
    BY <2>3, <2>5, Zenon DEF HandlerInv
  <2> QED BY <2>1, <2>3, <2>6, <2>7 DEF HandlerInv, HandlerTypeOK, On
<1> QED BY <1>3, <1>4, <1>5, <1>6, <1>7, <1>8, <1>9 DEF Handle

\* What a step of the whole is, as far as the handlers are concerned.
LEMMA Steps ==
    ASSUME HandlerInv, [Next]_vars
    PROVE  /\ HandlerInv' /\ config' = config /\ now' \in {now, now + 1}
           /\ \/ \E q \in Queries : Handle(q) /\ UNCHANGED now /\ (UNCHANGED handlerVars \/ Moves(q))
              \/ /\ UNCHANGED <<handlerVars, ednsVars, fluxVars>>
                 /\ \/ UNCHANGED downgradeVars
                    \/ CleanupDowngrade /\ UNCHANGED now
<1>1. ASSUME UNCHANGED handlerVars, now' \in {now, now + 1} PROVE HandlerInv' /\ config' = config
  BY <1>1 DEF handlerVars, HandlerInv, HandlerTypeOK, On
<1>2. CASE UNCHANGED vars
  BY <1>1, <1>2 DEF vars
<1>3. ASSUME NEW q \in Queries, Handle(q), UNCHANGED now
      PROVE  HandlerInv' /\ config' = config /\ (UNCHANGED handlerVars \/ Moves(q))
  BY <1>3, HandlerStep
<1>4. CASE Cleanup /\ UNCHANGED now
  BY <1>1, <1>4 DEF Cleanup, CleanupExfil, CleanupDowngrade
<1>5. CASE Tick /\ UNCHANGED <<ednsVars, exfilVars, fluxVars, validatorVars, downgradeVars>>
  BY <1>1, <1>5 DEF Tick, ClockTick
<1> QED BY <1>2, <1>3, <1>4, <1>5 DEF Next

\* A move past a stage that is on is a move from that stage.
LEMMA PastStage ==
    ASSUME HandlerInv, HandlerInv', NEW q \in Queries, Moves(q),
           NEW s \in Stages, On(config.on, s), ~At(q, s), Rank[pc'[q]] > Rank[s]
    PROVE  Rank[pc[q]] > Rank[s] \/ (At(q, "forward") /\ pc'[q] = "done")
<1>1. pc[q] \in Stages /\ pc'[q] \in Stages
  BY DEF HandlerInv, HandlerTypeOK
<1>2. Rank[pc[q]] # Rank[s]
  BY <1>1 DEF At, Stages, Rank
<1>3. Rank[pc[q]] \in Nat /\ Rank[pc'[q]] \in Nat /\ Rank[s] \in Nat
  BY <1>1 DEF Stages, Rank
<1>4. CASE ~(At(q, "forward") /\ pc'[q] = "done")
  <2>1. Rank[s] <= Rank[pc[q]] \/ Rank[s] >= Rank[pc'[q]]
    BY <1>4 DEF Moves
  <2> HIDE DEF Rank
  <2> QED BY <1>2, <1>3, <2>1
<1> QED BY <1>4

-----------------------------------------------------------------------------
(* The EDNS inspector.                                                       *)

\* An alert for this option of the client was in its cooldown at the inspection.
Excused(q, o) ==
    /\ marked[query[q].client][o] >= 0
    /\ marked[query[q].client][o] >= scan[q].since - AlertCooldown

\* A suspicious option of a query under inspection is still to be looked at, or
\* to be reported, or it was passed over; once past it, only the last is left.
Accounted(q) ==
    /\ At(q, "arrive") => scan[q].mark = {}
    /\ scan[q].since = -1 => opts[q] \cap Suspicious \subseteq scan[q].todo /\ scan[q].mark = {}
    /\ Rank[pc[q]] \in 1..Rank["edns"] =>
          \A o \in opts[q] \cap Suspicious : o \in scan[q].todo \union scan[q].mark \/ Excused(q, o)
    /\ Rank[pc[q]] > Rank["edns"] /\ config.strip =>
          \A o \in opts[q] \cap Suspicious : Excused(q, o)

EDNSInv ==
    /\ HandlerInv
    /\ EDNSTypeOK
    /\ Feature["edns"] \in config.on => \A q \in Queries : Accounted(q)

\* A move past the inspection is one from it.
LEMMA PastInspection ==
    ASSUME HandlerInv, NEW q \in Queries, Moves(q), ~At(q, "edns"),
           Feature["edns"] \in config.on, HandlerInv'
    PROVE  /\ Rank[pc'[q]] > Rank["edns"] => Rank[pc[q]] > Rank["edns"]
           /\ Rank[pc'[q]] \in 1..Rank["edns"] => Rank[pc[q]] \in 1..Rank["edns"] \/ At(q, "arrive")
<1>1. "edns" \in Stages /\ On(config.on, "edns") /\ pc[q] \in Stages /\ pc'[q] \in Stages
  BY DEF Stages, Rank, On, HandlerInv, HandlerTypeOK
<1>2. Rank[pc'[q]] > Rank["edns"] => Rank[pc[q]] > Rank["edns"]
  BY <1>1, PastStage DEF At, Rank
<1>3. Rank[pc'[q]] > Rank[pc[q]]
  BY DEF Moves
<1> QED BY <1>1, <1>2, <1>3 DEF At, Rank, Stages

\* What the inspector does not touch stays accounted for.
LEMMA StaysAccounted ==
    ASSUME EDNSInv, NEW q \in Queries, Accounted(q),
           opts'[q] = opts[q], scan'[q] = scan[q], query'[q] = query[q], config' = config,
           EDNSTypeOK', \A o \in Suspicious : marked'[query[q].client][o] >= marked[query[q].client][o],
           query[q].client \in Clients,
           ~At(q, "arrive")' \/ At(q, "arrive"),
           Rank[pc'[q]] > Rank["edns"] => Rank[pc[q]] > Rank["edns"],
           Rank[pc'[q]] \in 1..Rank["edns"] => Rank[pc[q]] \in 1..Rank["edns"]
    PROVE  Accounted(q)'
<1>1. \A o \in Suspicious : Excused(q, o) => Excused(q, o)'
  <2> SUFFICES ASSUME NEW o \in Suspicious, Excused(q, o) PROVE Excused(q, o)'
    OBVIOUS
  <2>1. marked[query[q].client][o] \in Int /\ marked'[query[q].client][o] \in Int
        /\ scan[q].since \in Int
    BY DEF EDNSInv, EDNSTypeOK, HandlerInv
  <2> QED BY <2>1, EDNSAssumption DEF Excused
<1> QED BY <1>1 DEF Accounted

\* No handler has inspected anything at the start.
LEMMA EDNSStart == Init => EDNSInv
<1> SUFFICES ASSUME Init PROVE EDNSInv
  OBVIOUS
<1>1. HandlerInv
  BY HandlerStart
<1>2. now = 0 /\ EDNSInit
  BY DEF Init, ClockInit
<1>3. EDNSTypeOK
  BY <1>2 DEF EDNSInit, EDNSTypeOK
<1>4. \A q \in Queries : opts[q] = {}
  BY <1>2 DEF EDNSInit
<1>5. \A q \in Queries : scan[q].mark = {} /\ pc[q] = "arrive"
  BY DEF Init, EDNSInit, HandlerInit
<1> QED BY <1>1, <1>3, <1>4, <1>5 DEF EDNSInv, Accounted

\* The three steps of the inspector, and the arrival that gives it its work.
LEMMA EDNSEnter ==
    ASSUME EDNSInv, NEW q \in Queries, Enter(q), UNCHANGED now, HandlerInv', config' = config, Moves(q)
    PROVE  EDNSInv'
<1>1. /\ opts' = [opts EXCEPT ![q] = query'[q].opts]
      /\ scan' = [scan EXCEPT ![q].todo = query'[q].opts]
      /\ marked' = marked
  BY DEF Enter, Carries
<1>2. query'[q].opts \subseteq Options
  BY EDNSAssumption DEF HandlerInv, HandlerTypeOK
<1>3. EDNSTypeOK'
  BY <1>1, <1>2 DEF EDNSInv, EDNSTypeOK
<1>4. At(q, "arrive")
  BY DEF Enter, Arrive
<1>5. ASSUME NEW p \in Queries \ {q}, Accounted(p) PROVE Accounted(p)'
  <2>1. UNCHANGED <<opts[p], scan[p], query[p], pc[p], marked>>
    BY <1>1, <1>5 DEF Moves, EDNSInv, EDNSTypeOK
  <2> QED BY <1>5, <2>1 DEF Accounted, Excused, At
<1>6. ASSUME Feature["edns"] \in config.on PROVE Accounted(q)'
  <2>1. opts'[q] = scan'[q].todo /\ scan'[q].mark = {}
    BY <1>1, <1>4, <1>6 DEF EDNSInv, EDNSTypeOK, Accounted
  <2>2. ~(Rank[pc'[q]] > Rank["edns"])
    BY <1>4, <1>6, PastInspection DEF EDNSInv, At, Rank
  <2> QED BY <2>1, <2>2 DEF Accounted
<1> QED BY <1>3, <1>5, <1>6 DEF EDNSInv

\* The inspection of one option
LEMMA EDNSInspects ==
    ASSUME EDNSInv, NEW q \in Queries, InspectOption(q), UNCHANGED now
    PROVE  EDNSInv'
<1>1. PICK o \in scan[q].todo :
        scan' = [scan EXCEPT ![q] =
            [todo |-> @.todo \ {o},
             mark |-> {p \in {o} \cap Suspicious : CooldownPassed(query[q].client, p)},
             since |-> IF @.since = -1 THEN now ELSE @.since]]
  BY DEF InspectOption
<1>2. /\ UNCHANGED <<marked, opts, handlerVars>>
      /\ At(q, "edns") /\ scan[q].mark = {}
  BY DEF InspectOption
<1>3. now \in Nat /\ scan[q].since \in -1..now /\ scan[q].todo \subseteq Options
  BY DEF EDNSInv, HandlerInv, EDNSTypeOK
<1>4. /\ scan'[q].todo = scan[q].todo \ {o}
      /\ scan'[q].mark = {p \in {o} \cap Suspicious : CooldownPassed(query[q].client, p)}
      /\ scan'[q].since = IF scan[q].since = -1 THEN now ELSE scan[q].since
      /\ \A p \in Queries \ {q} : scan'[p] = scan[p]
  BY <1>1 DEF EDNSInv, EDNSTypeOK
<1>5. scan'[q].since \in -1..now /\ scan'[q].since # -1
  BY <1>3, <1>4
<1>6. EDNSTypeOK'
  <2>1. scan' \in [Queries -> [todo : SUBSET Options, mark : SUBSET Suspicious, since : -1..now]]
    BY <1>1, <1>3 DEF EDNSInv, EDNSTypeOK
  <2> QED BY <1>2, <2>1 DEF EDNSInv, EDNSTypeOK
<1>7. HandlerInv' /\ config' = config
  BY <1>2 DEF EDNSInv, HandlerInv, HandlerTypeOK, handlerVars, On
<1>8. ASSUME NEW p \in Queries \ {q}, Accounted(p) PROVE Accounted(p)'
  BY <1>2, <1>4, <1>8 DEF Accounted, Excused, handlerVars, At
<1>9. ASSUME Accounted(q) PROVE Accounted(q)'
  <2> DEFINE c == query[q].client
  <2>1. c \in Clients
    BY HandlerAssumption DEF EDNSInv, HandlerInv, HandlerTypeOK
  <2>2. \A p \in Suspicious : marked[c][p] \in -1..now
    BY <2>1 DEF EDNSInv, EDNSTypeOK
  <2>3. pc'[q] = "edns" /\ query' = query /\ opts' = opts /\ marked' = marked
    BY <1>2 DEF At, handlerVars
  <2>4. ASSUME NEW p \in opts[q] \cap Suspicious
        PROVE  p \in scan'[q].todo \union scan'[q].mark \/ Excused(q, p)'
    <3>1. CASE p = o
      <4>1. CASE CooldownPassed(c, p)
        BY <1>4, <3>1, <4>1
      <4>2. CASE ~CooldownPassed(c, p)
        <5>1. marked[c][p] # -1 /\ now - marked[c][p] <= AlertCooldown
          BY <2>2, <4>2, EDNSAssumption, <1>3 DEF CooldownPassed
        <5> QED BY <5>1, <2>2, <2>3, <1>3, <1>5, EDNSAssumption DEF Excused
      <4> QED BY <4>1, <4>2
    <3>2. CASE p # o
      <4>1. CASE p \in scan[q].todo
        BY <1>4, <3>2, <4>1
      <4>2. CASE p \notin scan[q].todo
        <5>1. scan[q].since # -1
          BY <1>9, <4>2 DEF Accounted
        <5>2. Excused(q, p)
          BY <1>2, <1>9, <4>2 DEF Accounted, At, Rank
        <5> QED BY <5>1, <5>2, <2>3, <1>4 DEF Excused
      <4> QED BY <4>1, <4>2
    <3> QED BY <3>1, <3>2
  <2> HIDE DEF c
  <2>5. ~(Rank["edns"] > Rank["edns"])
    BY DEF Rank
  <2> QED BY <1>5, <2>3, <2>4, <2>5 DEF Accounted, At
<1> QED BY <1>6, <1>7, <1>8, <1>9 DEF EDNSInv

\* The end of an inspection: an alert, or silence in the cooldown
LEMMA EDNSReports ==
    ASSUME EDNSInv, NEW q \in Queries, Report(q), UNCHANGED now, HandlerInv', Moves(q)
    PROVE  EDNSInv'
<1>1. PICK o \in scan[q].mark : marked' = [marked EXCEPT ![query[q].client][o] = now]
  BY DEF Report
<1>2. /\ scan' = [scan EXCEPT ![q].todo = {}, ![q].mark = {}]
      /\ opts' = [opts EXCEPT ![q] = IF config.strip THEN Strip(@) ELSE @]
      /\ UNCHANGED <<query, answer, config>>
      /\ At(q, "edns")
  BY DEF Report
<1>3. now \in Nat
  BY DEF EDNSInv, HandlerInv
<1>4. EDNSTypeOK'
  <2>1. marked' \in [Clients -> [Suspicious -> -1..now]]
    <3>1. now \in -1..now /\ marked \in [Clients -> [Suspicious -> -1..now]]
      BY <1>3 DEF EDNSInv, EDNSTypeOK
    <3> QED BY <1>1, <3>1, Zenon
  <2>2. opts' \in [Queries -> SUBSET Options]
    BY <1>2 DEF EDNSInv, EDNSTypeOK, Strip
  <2>3. scan' \in [Queries -> [todo : SUBSET Options, mark : SUBSET Suspicious, since : -1..now]]
    BY <1>2 DEF EDNSInv, EDNSTypeOK
  <2> QED BY <2>1, <2>2, <2>3 DEF EDNSTypeOK
<1>5. \A c \in Clients, p \in Suspicious : marked'[c][p] >= marked[c][p]
  BY <1>1, <1>3 DEF EDNSInv, EDNSTypeOK
<1>6. ASSUME NEW p \in Queries \ {q}, Accounted(p) PROVE Accounted(p)'
  <2>1. UNCHANGED <<opts[p], scan[p], query[p], pc[p], config>>
    BY <1>2 DEF Moves, EDNSInv, EDNSTypeOK
  <2>2. query[p].client \in Clients
    BY HandlerAssumption DEF EDNSInv, HandlerInv, HandlerTypeOK
  <2> QED BY <1>4, <1>5, <1>6, <2>1, <2>2, StaysAccounted DEF At
<1>7. ASSUME Accounted(q) PROVE Accounted(q)'
  <2>1. Rank[pc'[q]] > Rank["edns"]
    BY <1>2 DEF Moves, At
  <2>2. config.strip => opts'[q] \cap Suspicious = {}
    BY <1>2 DEF EDNSInv, EDNSTypeOK, Strip
  <2>3. scan'[q].since = scan[q].since
    BY <1>2 DEF EDNSInv, EDNSTypeOK
  <2>4. scan[q].since # -1
    BY <1>1, <1>7 DEF Accounted
  <2>5. ~(Rank[pc'[q]] \in 1..Rank["edns"]) /\ pc'[q] # "arrive"
    BY <2>1 DEF Rank
  <2> QED BY <1>2, <2>1, <2>2, <2>3, <2>4, <2>5 DEF Accounted, At
<1> QED BY <1>2, <1>4, <1>6, <1>7 DEF EDNSInv

\* The EDNS inspector's invariant: every option let through is accounted for.
THEOREM EDNSInvariant == Spec => []EDNSInv
<1>1. Init => EDNSInv
  BY EDNSStart
<1>2. EDNSInv /\ [Next]_vars => EDNSInv'
  <2> SUFFICES ASSUME EDNSInv, [Next]_vars PROVE EDNSInv'
    OBVIOUS
  <2>1. HandlerInv' /\ config' = config /\ now' \in {now, now + 1} /\ HandlerInv /\ now \in Nat
    BY Steps DEF EDNSInv, HandlerInv
  \* The others
  <2>2. ASSUME UNCHANGED ednsVars,
               \A p \in Queries :
                  /\ query'[p] = query[p]
                  /\ At(p, "arrive")' => At(p, "arrive")
                  /\ Feature["edns"] \in config.on =>
                        /\ Rank[pc'[p]] > Rank["edns"] => Rank[pc[p]] > Rank["edns"]
                        /\ Rank[pc'[p]] \in 1..Rank["edns"] => Rank[pc[p]] \in 1..Rank["edns"]
        PROVE  EDNSInv'
    <3>1. EDNSTypeOK'
      BY <2>1, <2>2 DEF EDNSInv, EDNSTypeOK, ednsVars
    <3>2. ASSUME NEW p \in Queries, Accounted(p), Feature["edns"] \in config.on PROVE Accounted(p)'
      <4>1. query[p].client \in Clients
        BY <2>1, HandlerAssumption DEF HandlerInv, HandlerTypeOK
      <4>2. \A o \in Suspicious : marked'[query[p].client][o] >= marked[query[p].client][o]
        BY <2>2, <4>1 DEF ednsVars, EDNSInv, EDNSTypeOK
      <4>3. opts'[p] = opts[p] /\ scan'[p] = scan[p]
        BY <2>2 DEF ednsVars
      <4> QED BY <2>1, <2>2, <3>1, <3>2, <4>1, <4>2, <4>3, StaysAccounted
    <3> QED BY <2>1, <3>1, <3>2 DEF EDNSInv
  <2>3. ASSUME NEW q \in Queries, UNCHANGED ednsVars, Moves(q), ~At(q, "arrive"), ~At(q, "edns")
        PROVE  EDNSInv'
    <3>1. ASSUME NEW p \in Queries \ {q} PROVE query'[p] = query[p] /\ pc'[p] = pc[p]
      BY <2>3 DEF Moves
    <3>2. query'[q] = query[q] /\ Rank[pc'[q]] > Rank[pc[q]] /\ pc[q] \in Stages
      BY <2>1, <2>3 DEF Moves, HandlerInv, HandlerTypeOK
    <3>3. ~At(q, "arrive")'
      BY <3>2 DEF At, Stages, Rank
    <3>4. Feature["edns"] \in config.on =>
            /\ Rank[pc'[q]] > Rank["edns"] => Rank[pc[q]] > Rank["edns"]
            /\ Rank[pc'[q]] \in 1..Rank["edns"] => Rank[pc[q]] \in 1..Rank["edns"]
      BY <2>1, <2>3, PastInspection
    <3> QED BY <2>2, <2>3, <3>1, <3>2, <3>3, <3>4 DEF At
  <2>4. CASE UNCHANGED <<handlerVars, ednsVars>>
    BY <2>2, <2>4 DEF handlerVars, At
  <2>5. ASSUME NEW q \in Queries, Handle(q), UNCHANGED now, UNCHANGED handlerVars \/ Moves(q)
        PROVE  EDNSInv'
    <3>1. CASE Enter(q)
      <4>1. At(q, "arrive") /\ Proceed(q)
        BY <3>1 DEF Enter, Arrive
      <4>2. Moves(q)
        BY <2>1, <2>5, <4>1, Onward, SMT DEF handlerVars, HandlerInv, HandlerTypeOK, Stages, Rank
      <4> QED BY <2>1, <2>5, <3>1, <4>2, EDNSEnter
    <3>2. CASE EDNSInspection(q)
      <4>1. CASE InspectOption(q)
        BY <2>5, <4>1, EDNSInspects
      <4>2. CASE Report(q)
        <5>1. UNCHANGED <<query, answer, config>> /\ Proceed(q)
          BY <4>2 DEF Report
        <5> QED BY <2>1, <2>5, <4>2, <5>1, Proceeds, EDNSReports
      <4>3. CASE NoFinding(q)
        <5>1. /\ UNCHANGED <<query, answer, config, ednsVars>> /\ Proceed(q)
              /\ At(q, "edns") /\ scan[q].todo = {} /\ scan[q].mark = {}
          BY <4>3 DEF NoFinding
        <5>2. Moves(q)
          BY <2>1, <2>5, <5>1, Proceeds
        <5>3. EDNSTypeOK'
          BY <2>5, <5>1 DEF EDNSInv, EDNSTypeOK, ednsVars
        <5>4. ASSUME NEW p \in Queries \ {q}, Accounted(p) PROVE Accounted(p)'
          BY <5>1, <5>2, <5>4 DEF Accounted, Excused, Moves, ednsVars, At
        <5>5. ASSUME Accounted(q) PROVE Accounted(q)'
          <6>1. Rank[pc'[q]] > Rank["edns"] /\ Rank[pc[q]] \in 1..Rank["edns"]
            BY <5>1, <5>2 DEF Moves, At, Rank
          <6>2. \A o \in opts[q] \cap Suspicious : Excused(q, o)
            BY <5>1, <5>5, <6>1 DEF Accounted
          <6>3. pc'[q] # "arrive" /\ ~(Rank[pc'[q]] \in 1..Rank["edns"])
            BY <6>1 DEF Rank
          <6> QED BY <5>1, <5>5, <6>2, <6>3 DEF Accounted, Excused, ednsVars, At
        <5> QED BY <2>1, <5>3, <5>4, <5>5 DEF EDNSInv
      <4> QED BY <3>2, <4>1, <4>2, <4>3 DEF EDNSInspection
    <3>3. CASE LowSlow(q) \/ C2Detection(q) \/ Relay(q) \/ DNSSEC(q) \/ Downgrade(q)
      <4>1. UNCHANGED ednsVars /\ ~At(q, "arrive") /\ ~At(q, "edns")
        BY <3>3
           DEF LowSlow, RecordExfil, AnalyzeExfil, C2Detection, SuspectC2, AnalyzeFlux, TrackFlux,
               TrackNameservers, BeginTrackC2, EndTrackC2, Relay, Forward, DNSSEC, ValidatorStep,
               Validate, NextSet, NextSig, FetchSignerKeys, TryKeys, AtRoot, FetchDS, MatchDS,
               FetchParentKeys, TryParent, Fill, FetchKeys, Lookup, Walking, Downgrade, At
      <4> QED BY <2>3, <2>4, <2>5, <4>1
    <3> QED BY <2>5, <3>1, <3>2, <3>3 DEF Handle
  <2> QED BY <2>1, <2>4, <2>5, Steps DEF EDNSInv
<1> QED BY <1>1, <1>2, PTL DEF Spec

(* With stripping on, no suspicious option of a query leaves the proxy unless *)
(* its alert was in its cooldown when the query was inspected, however the    *)
(* inspections of concurrent queries interleave between their locks.          *)
THEOREM NoLeakBeyondCooldown == Spec => []LeaksOnlyInCooldown
<1>1. EDNSInv => LeaksOnlyInCooldown
  BY DEF EDNSInv, Accounted, Excused, LeaksOnlyInCooldown
<1> QED BY <1>1, EDNSInvariant, PTL

-----------------------------------------------------------------------------
(* The two fast-flux detectors.                                              *)

Reasons == {"none", "ip_count", "ip_rotation", "ttl_volatility", "double_flux"}

FluxTyped ==
    /\ flux \in [Names -> [seen : SUBSET Addresses, history : SUBSET [ip : Addresses, at : Nat],
                           ns : SUBSET Addresses, nsHistory : SUBSET [ip : Addresses, at : Nat],
                           minTTL : Nat, maxTTL : Nat]]
    /\ c2 \in [Names -> [seen : SUBSET Addresses, minTTL : Nat, maxTTL : Nat]]
    /\ firstSeen \in [Names -> [Addresses -> -1..now]]
    /\ findings \in [Queries -> [c2 : Reasons, flux : Reasons, at : 0..now]]

\* What the detectors hold about a name: the newer one has every address it was
\* ever seen with, the older one some, and a sighting is the first of its address.
Agree(n) ==
    /\ c2[n].seen \subseteq flux[n].seen
    /\ \A i \in Addresses : i \in flux[n].seen <=> firstSeen[n][i] >= 0
    /\ \A s \in flux[n].history : s.at = firstSeen[n][s.ip]

\* The addresses first seen in the rotation window that ends with the analysis
Fresh(q) ==
    {i \in Addresses :
        LET t == firstSeen[query[q].name][i] IN
        t \in 0..findings[q].at /\ t > findings[q].at - RotationWindow}

\* What a handler's findings and its stage say about the detectors.
Found(q) ==
    /\ Rank[pc[q]] <= Rank["c2"] \/ "C2Detection" \notin config.on => findings[q].c2 = "none"
    /\ Rank[pc[q]] <= Rank["flux"] => findings[q].flux = "none"
    /\ findings[q].c2 = "ip_count" =>
          /\ Cardinality(flux[query[q].name].seen) >= MinIPCount
          /\ Rank[pc[q]] > Rank["flux"] => findings[q].flux = "ip_count"
    /\ pc[q] \in {"nsTrack", "c2Track"} => answer[q].ips \subseteq flux[query[q].name].seen
    /\ findings[q].flux = "ip_rotation" => Cardinality(Fresh(q)) > RotationLimit

FluxInv ==
    /\ HandlerInv
    /\ FluxTyped
    /\ \A n \in Names : Agree(n)
    /\ \A q \in Queries : Found(q)

\* The newer detector only learns.
Learns ==
    \A n \in Names :
        /\ flux[n].seen \subseteq flux'[n].seen
        /\ \A i \in Addresses : firstSeen[n][i] >= 0 => firstSeen'[n][i] = firstSeen[n][i]

\* What the configurations ask for and answer is of the expected types.
LEMMA Traffic ==
    ASSUME HandlerInv, NEW q \in Queries
    PROVE  /\ query[q].name \in Names
           /\ answer[q].ips \subseteq Addresses /\ answer[q].ns \subseteq Addresses
           /\ answer[q].ttl \in Nat
<1>1. config \in Configs /\ query[q] \in config.asks[q] /\ answer[q] \in config.answers
  BY DEF HandlerInv, HandlerTypeOK
<1> QED BY <1>1, HandlerAssumption, FluxAssumption DEF Addresses

\* No detector knows of any address at the start.
LEMMA FluxStart == Init => FluxInv
<1> SUFFICES ASSUME Init PROVE FluxInv
  OBVIOUS
<1>1. HandlerInv
  BY HandlerStart
<1>2. now = 0 /\ FluxInit
  BY DEF Init, ClockInit
<1>3. FluxTyped
  <2>1. firstSeen \in [Names -> [Addresses -> -1..now]]
    BY <1>2 DEF FluxInit
  <2>2. findings \in [Queries -> [c2 : Reasons, flux : Reasons, at : 0..now]]
    BY <1>2 DEF FluxInit, Reasons
  <2> QED BY <1>2, <2>1, <2>2 DEF FluxInit, FluxTyped, NoFlux, NoC2
<1>4. \A n \in Names : Agree(n)
  BY <1>2 DEF FluxInit, Agree, NoFlux, NoC2
<1>5. \A q \in Queries : findings[q].c2 = "none" /\ findings[q].flux = "none" /\ pc[q] = "arrive"
  BY <1>2 DEF FluxInit, Init, HandlerInit
<1>6. \A q \in Queries : Found(q)
  BY <1>5 DEF Found
<1> QED BY <1>1, <1>3, <1>4, <1>6 DEF FluxInv

\* What was found stays true while the detectors learn, wherever the handler is.
LEMMA FindingsStay ==
    ASSUME FluxInv, FluxTyped', HandlerInv', Learns, NEW q \in Queries, Found(q),
           findings'[q] = findings[q], query'[q] = query[q]
    PROVE  /\ findings[q].c2 = "ip_count" =>
                 Cardinality(flux'[query[q].name].seen) >= MinIPCount
           /\ findings[q].flux = "ip_rotation" => Cardinality(Fresh(q)') > RotationLimit
           /\ flux[query[q].name].seen \subseteq flux'[query[q].name].seen
<1> DEFINE n == query[q].name
<1>1. n \in Names
  BY Traffic DEF FluxInv
<1>2. flux[n].seen \subseteq flux'[n].seen /\ flux'[n].seen \subseteq Addresses
  BY <1>1 DEF FluxTyped, Learns
<1>3. Fresh(q) \subseteq Fresh(q)'
  BY <1>1 DEF Fresh, Learns
<1>4. \A S, T : T \subseteq Addresses /\ S \subseteq T =>
          Cardinality(S) \in Nat /\ Cardinality(T) \in Nat /\ Cardinality(S) <= Cardinality(T)
  <2> SUFFICES ASSUME NEW S, NEW T, T \subseteq Addresses, S \subseteq T
               PROVE  Cardinality(S) \in Nat /\ Cardinality(T) \in Nat
                      /\ Cardinality(S) <= Cardinality(T)
    OBVIOUS
  <2>1. IsFiniteSet(T)
    BY FS_Subset, FluxAssumption
  <2>2. IsFiniteSet(S) /\ Cardinality(S) <= Cardinality(T)
    BY <2>1, FS_Subset
  <2> QED BY <2>1, <2>2, FS_CardinalityType
<1>5. Fresh(q)' \subseteq Addresses
  BY DEF Fresh
<1>6. MinIPCount \in Nat /\ RotationLimit \in Nat
  BY FluxAssumption
<1>7. findings[q].c2 = "ip_count" => Cardinality(flux[n].seen) >= MinIPCount
  BY DEF Found
<1>8. findings[q].flux = "ip_rotation" => Cardinality(Fresh(q)) > RotationLimit
  BY DEF Found
<1>9. findings[q].c2 = "ip_count" => Cardinality(flux'[n].seen) >= MinIPCount
  BY <1>2, <1>4, <1>6, <1>7
<1>10. findings[q].flux = "ip_rotation" => Cardinality(Fresh(q)') > RotationLimit
  BY <1>3, <1>4, <1>5, <1>6, <1>8
<1> QED BY <1>2, <1>9, <1>10

\* A handler that is none of these detectors' callers, or that stands still.
LEMMA FoundStays ==
    ASSUME FluxInv, FluxTyped', HandlerInv', config' = config, Learns, NEW q \in Queries,
           findings'[q] = findings[q],
           \/ UNCHANGED <<pc[q], query[q], answer[q]>>
           \/ Moves(q) /\ ~At(q, "c2") /\ ~At(q, "flux") /\ ~At(q, "fluxTrack")
    PROVE  Found(q)'
<1>1. Found(q)
  BY DEF FluxInv
<1>2. CASE UNCHANGED <<pc[q], query[q], answer[q]>>
  BY <1>1, <1>2, FindingsStay DEF Found
<1>3. CASE Moves(q) /\ ~At(q, "c2") /\ ~At(q, "flux") /\ ~At(q, "fluxTrack")
  <2>1. /\ pc[q] \in Stages /\ pc'[q] \in Stages /\ Rank[pc'[q]] > Rank[pc[q]]
        /\ On(config.on, pc[q]) /\ On(config.on, pc'[q])
    BY <1>3 DEF HandlerInv, HandlerTypeOK, FluxInv, Moves
  <2>2. ASSUME NEW s \in {"flux", "fluxTrack"}, "C2Detection" \in config.on,
               Rank[pc'[q]] > Rank[s], ~(At(q, "forward") /\ pc'[q] = "done")
        PROVE  Rank[pc[q]] > Rank[s]
    <3>1. s \in Stages /\ On(config.on, s)
      BY <2>2 DEF Stages, Rank, On, Feature
    <3> QED BY <1>3, <2>2, <3>1, PastStage DEF FluxInv
  <2>3. Rank[pc'[q]] <= Rank["c2"] => Rank[pc[q]] <= Rank["c2"]
    BY <2>1 DEF Stages, Rank
  <2>4. Rank[pc'[q]] <= Rank["flux"] => Rank[pc[q]] <= Rank["flux"]
    BY <2>1 DEF Stages, Rank
  <2>5. CASE At(q, "arrive")
    <3>1. findings[q].c2 = "none" /\ findings[q].flux = "none"
      BY <1>1, <2>5 DEF Found, At, Rank
    <3>2. pc'[q] \in {"nsTrack", "c2Track"} => "C2Detection" \in config.on
      BY <2>1 DEF On, Feature
    <3>3. ~(pc'[q] \in {"nsTrack", "c2Track"})
      BY <2>2, <2>5, <3>2 DEF At, Rank
    <3> QED BY <3>1, <3>3 DEF Found
  <2>6. CASE ~At(q, "arrive")
    <3>1. query'[q] = query[q]
      BY <1>3, <2>6 DEF Moves
    <3>2. findings[q].c2 = "ip_count" /\ Rank[pc'[q]] > Rank["flux"] => findings[q].flux = "ip_count"
      <4>1. CASE At(q, "forward")
        BY <1>1, <4>1 DEF Found, At, Rank
      <4>2. CASE ~At(q, "forward") /\ "C2Detection" \in config.on
        BY <1>1, <2>2, <4>2 DEF Found
      <4>3. CASE "C2Detection" \notin config.on
        BY <1>1, <4>3 DEF Found
      <4> QED BY <4>1, <4>2, <4>3
    <3>3. pc'[q] \in {"nsTrack", "c2Track"} => answer'[q].ips \subseteq flux[query[q].name].seen
      <4> SUFFICES ASSUME pc'[q] \in {"nsTrack", "c2Track"}
                   PROVE  answer'[q].ips \subseteq flux[query[q].name].seen
        OBVIOUS
      <4>1. "C2Detection" \in config.on
        BY <2>1 DEF On, Feature
      <4>2. Rank[pc[q]] > Rank["fluxTrack"]
        BY <2>2, <4>1 DEF Rank
      <4>3. pc[q] = "nsTrack"
        BY <2>1, <4>2 DEF Stages, Rank
      <4>4. answer'[q] = answer[q]
        BY <1>3, <4>3 DEF Moves, At
      <4> QED BY <1>1, <4>3, <4>4 DEF Found
    <3>4. config'.on = config.on
      OBVIOUS
    <3> QED BY <1>1, <2>3, <2>4, <3>1, <3>2, <3>3, FindingsStay DEF Found
  <2> QED BY <2>5, <2>6
<1> QED BY <1>2, <1>3

\* New addresses of a response are seen for the first time; no other is.
LEMMA TrackingLearns ==
    ASSUME FluxInv, NEW q \in Queries, TrackFlux(q), UNCHANGED now
    PROVE  /\ FluxTyped' /\ Learns /\ \A n \in Names : Agree(n)'
           /\ answer[q].ips \subseteq flux'[query[q].name].seen
<1> DEFINE n == query[q].name
           r == answer[q]
<1>1. n \in Names /\ r.ips \subseteq Addresses /\ r.ttl \in Nat /\ now \in Nat
  BY Traffic DEF FluxInv, HandlerInv
<1>2. /\ flux' = [flux EXCEPT ![n] = Tracked(flux[n], r)]
      /\ firstSeen' = [firstSeen EXCEPT ![n] =
            [i \in DOMAIN @ |-> IF i \in r.ips /\ @[i] = -1 THEN now ELSE @[i]]]
      /\ UNCHANGED <<c2, findings>>
  BY DEF TrackFlux
<1> HIDE DEF n, r
<1>3. /\ flux[n] \in [seen : SUBSET Addresses, history : SUBSET [ip : Addresses, at : Nat],
                      ns : SUBSET Addresses, nsHistory : SUBSET [ip : Addresses, at : Nat],
                      minTTL : Nat, maxTTL : Nat]
      /\ firstSeen[n] \in [Addresses -> -1..now]
  BY <1>1 DEF FluxInv, FluxTyped
<1>4. /\ firstSeen'[n] \in [Addresses -> -1..now]
      /\ \A i \in Addresses :
            firstSeen'[n][i] = IF i \in r.ips /\ firstSeen[n][i] = -1 THEN now ELSE firstSeen[n][i]
      /\ \A m \in Names \ {n} : flux'[m] = flux[m] /\ firstSeen'[m] = firstSeen[m]
  BY <1>1, <1>2, <1>3 DEF FluxInv, FluxTyped
<1> DEFINE t == Tracked(flux[n], r)
           h == Recent(flux[n].history \union Sightings(NewIPs(flux[n], r.ips)), MaxIPAge)
<1>5. /\ t.seen = flux[n].seen \union r.ips /\ t.history = h
      /\ t.ns = flux[n].ns /\ t.nsHistory = flux[n].nsHistory
      /\ t.minTTL \in Nat /\ t.maxTTL \in Nat
      /\ t = [seen |-> t.seen, history |-> t.history, ns |-> t.ns, nsHistory |-> t.nsHistory,
              minTTL |-> t.minTTL, maxTTL |-> t.maxTTL]
  <2> DEFINE min == MinTTL(flux[n].minTTL, r.ttl)
             max == MaxTTL(flux[n].maxTTL, r.ttl)
             seen == flux[n].seen \union r.ips
  <2>1. min \in Nat /\ max \in Nat
    BY <1>1, <1>3 DEF MinTTL, MaxTTL
  <2>2. t = [flux[n] EXCEPT !.seen = seen, !.history = h, !.minTTL = min, !.maxTTL = max]
    BY DEF Tracked
  <2> HIDE DEF min, max, seen, h, t
  <2>3. t = [seen |-> seen, history |-> h, ns |-> flux[n].ns, nsHistory |-> flux[n].nsHistory,
             minTTL |-> min, maxTTL |-> max]
    BY <1>3, <2>2
  <2> QED BY <2>1, <2>3 DEF seen
<1>6. h \subseteq flux[n].history \union {[ip |-> i, at |-> now] : i \in r.ips \ flux[n].seen}
  BY DEF Recent, Sightings, NewIPs
<1>7. h \subseteq [ip : Addresses, at : Nat]
  <2>1. flux[n].history \subseteq [ip : Addresses, at : Nat]
    BY <1>3
  <2>2. \A i \in r.ips : [ip |-> i, at |-> now] \in [ip : Addresses, at : Nat]
    BY <1>1
  <2> QED BY <1>6, <2>1, <2>2
<1> HIDE DEF t, h
<1>8. t \in [seen : SUBSET Addresses, history : SUBSET [ip : Addresses, at : Nat],
             ns : SUBSET Addresses, nsHistory : SUBSET [ip : Addresses, at : Nat],
             minTTL : Nat, maxTTL : Nat]
  BY <1>1, <1>3, <1>5, <1>7
<1>9. flux'[n] = t
  BY <1>1, <1>2 DEF FluxInv, FluxTyped, t
<1>10. FluxTyped'
  <2>1. flux' \in [Names -> [seen : SUBSET Addresses, history : SUBSET [ip : Addresses, at : Nat],
                             ns : SUBSET Addresses, nsHistory : SUBSET [ip : Addresses, at : Nat],
                             minTTL : Nat, maxTTL : Nat]]
    BY <1>2, <1>8, Zenon DEF FluxInv, FluxTyped, t
  <2>2. firstSeen' \in [Names -> [Addresses -> -1..now]]
    <3>1. firstSeen' = [firstSeen EXCEPT ![n] = firstSeen'[n]]
      BY <1>1, <1>2 DEF FluxInv, FluxTyped
    <3> QED BY <1>4, <3>1, Zenon DEF FluxInv, FluxTyped
  <2> QED BY <1>2, <2>1, <2>2 DEF FluxInv, FluxTyped
<1>11. Learns
  <2>1. \A i \in Addresses : firstSeen[n][i] >= 0 => firstSeen'[n][i] = firstSeen[n][i]
    BY <1>3, <1>4
  <2> QED BY <1>4, <1>5, <1>9, <2>1 DEF Learns
<1>12. ASSUME NEW m \in Names PROVE Agree(m)'
  <2>1. Agree(m) /\ Agree(n)
    BY <1>1 DEF FluxInv
  <2>2. CASE m # n
    BY <1>2, <1>4, <2>1, <2>2 DEF Agree
  <2>3. CASE m = n
    <3>1. c2'[n].seen \subseteq flux'[n].seen
      BY <1>2, <1>5, <1>9, <2>1 DEF Agree
    <3>2. \A i \in Addresses : i \in flux'[n].seen <=> firstSeen'[n][i] >= 0
      BY <1>1, <1>3, <1>4, <1>5, <1>9, <2>1 DEF Agree
    <3>3. ASSUME NEW s \in h PROVE s.at = firstSeen'[n][s.ip]
      <4>1. CASE s \in flux[n].history
        <5>1. s.ip \in Addresses /\ s.at \in Nat /\ s.at = firstSeen[n][s.ip]
          BY <1>3, <2>1, <4>1 DEF Agree
        <5> QED BY <1>3, <1>4, <5>1
      <4>2. CASE s \in {[ip |-> i, at |-> now] : i \in r.ips \ flux[n].seen}
        <5>1. PICK i \in r.ips \ flux[n].seen : s = [ip |-> i, at |-> now]
          BY <4>2
        <5>2. i \in Addresses /\ firstSeen[n][i] = -1
          BY <1>1, <1>3, <2>1, <5>1 DEF Agree
        <5> QED BY <1>4, <5>1, <5>2
      <4> QED BY <1>6, <4>1, <4>2
    <3> QED BY <1>5, <1>9, <2>3, <3>1, <3>2, <3>3 DEF Agree
  <2> QED BY <2>2, <2>3
<1>13. r.ips \subseteq flux'[n].seen
  BY <1>5, <1>9
<1> QED BY <1>10, <1>11, <1>12, <1>13 DEF n, r

\* A rotation is a matter of addresses first seen within the window, each once.
LEMMA RotationsAreFresh ==
    ASSUME FluxInv, NEW n \in Names, FluxReason(flux[n]) = "ip_rotation"
    PROVE  Cardinality({i \in Addresses : firstSeen[n][i] \in 0..now /\ firstSeen[n][i] > now - RotationWindow})
               > RotationLimit
<1> DEFINE R == Recent(flux[n].history, RotationWindow)
           I == {s.ip : s \in R}
           N == {i \in Addresses : firstSeen[n][i] \in 0..now /\ firstSeen[n][i] > now - RotationWindow}
           g == [i \in I |-> [ip |-> i, at |-> firstSeen[n][i]]]
<1>1. now \in Nat /\ firstSeen[n] \in [Addresses -> -1..now]
      /\ flux[n].history \subseteq [ip : Addresses, at : Nat]
  BY DEF FluxInv, FluxTyped, HandlerInv
<1>2. ASSUME NEW s \in R
      PROVE  s.ip \in N /\ s = [ip |-> s.ip, at |-> firstSeen[n][s.ip]]
  <2>1. s \in flux[n].history /\ s.at > now - RotationWindow
    BY DEF Recent
  <2>2. s \in [ip : Addresses, at : Nat]
    BY <1>1, <2>1
  <2>3. s.at = firstSeen[n][s.ip]
    BY <2>1 DEF FluxInv, Agree
  <2> QED BY <1>1, <2>1, <2>2, <2>3
<1>3. I \subseteq N /\ N \subseteq Addresses
  BY <1>2
<1>4. IsFiniteSet(N) /\ IsFiniteSet(I) /\ Cardinality(I) <= Cardinality(N)
  <2>1. IsFiniteSet(N)
    BY <1>3, FS_Subset, FluxAssumption
  <2> HIDE DEF I, N
  <2> QED BY <1>3, <2>1, FS_Subset
<1>5. g \in Surjection(I, R)
  <2>1. \A s \in R : s.ip \in I /\ g[s.ip] = s
    BY <1>2
  <2>2. \A i \in I : g[i] \in R
    BY <2>1
  <2> QED BY <2>1, <2>2 DEF Surjection
<1>6. IsFiniteSet(R) /\ Cardinality(R) <= Cardinality(I)
  <2> HIDE DEF g, I, R
  <2> QED BY <1>4, <1>5, FS_Surjection
<1>7. Cardinality(R) > RotationLimit
  BY DEF FluxReason
<1> HIDE DEF R, I, N
<1>8. Cardinality(R) \in Nat /\ Cardinality(I) \in Nat /\ Cardinality(N) \in Nat
  BY <1>4, <1>6, FS_CardinalityType
<1>9. Cardinality(N) > RotationLimit
  BY <1>4, <1>6, <1>7, <1>8, FluxAssumption
<1> QED BY <1>9 DEF N

\* 6a. The newer detector's word on the name, after the older one's
LEMMA FluxAnalyzes ==
    ASSUME FluxInv, NEW q \in Queries, AnalyzeFlux(q), UNCHANGED now,
           HandlerInv', config' = config, Moves(q)
    PROVE  FluxInv'
<1> DEFINE n == query[q].name
<1>1. /\ At(q, "flux") /\ UNCHANGED <<query, answer, config, flux, c2, firstSeen>>
      /\ findings' = [findings EXCEPT ![q] = [@ EXCEPT !.flux = FluxReason(flux[n]), !.at = now]]
  BY DEF AnalyzeFlux
<1>2. n \in Names /\ now \in Nat
  BY Traffic DEF FluxInv, HandlerInv
<1>3. FluxReason(flux[n]) \in Reasons
  BY DEF FluxReason, Reasons
<1>4. FluxTyped' /\ Learns /\ \A m \in Names : Agree(m)'
  <2>1. [findings[q] EXCEPT !.flux = FluxReason(flux[n]), !.at = now]
            \in [c2 : Reasons, flux : Reasons, at : 0..now]
    <3> DEFINE a == FluxReason(flux[n])
    <3>1. findings[q] \in [c2 : Reasons, flux : Reasons, at : 0..now]
      BY DEF FluxInv, FluxTyped
    <3>2. a \in Reasons /\ now \in 0..now
      BY <1>2, <1>3
    <3> HIDE DEF a
    <3>3. ASSUME NEW f \in [c2 : Reasons, flux : Reasons, at : 0..now],
                 NEW b \in Reasons, NEW t \in 0..now
          PROVE  [f EXCEPT !.flux = b, !.at = t] \in [c2 : Reasons, flux : Reasons, at : 0..now]
      OBVIOUS
    <3> QED BY <3>1, <3>2, <3>3 DEF a
  <2>2. findings' \in [Queries -> [c2 : Reasons, flux : Reasons, at : 0..now]]
    BY <1>1, <2>1, Zenon DEF FluxInv, FluxTyped
  <2> QED BY <1>1, <2>2 DEF FluxInv, FluxTyped, Learns, Agree
<1>5. ASSUME NEW p \in Queries \ {q} PROVE Found(p)'
  <2>1. findings'[p] = findings[p] /\ UNCHANGED <<pc[p], query[p], answer[p]>>
    BY <1>1 DEF FluxInv, FluxTyped, Moves
  <2> QED BY <1>4, <2>1, FoundStays
<1>6. Found(q)'
  <2>1. /\ findings'[q].flux = FluxReason(flux[n]) /\ findings'[q].at = now
        /\ findings'[q].c2 = findings[q].c2
    BY <1>1 DEF FluxInv, FluxTyped
  <2>2. Rank[pc'[q]] > Rank["flux"] /\ pc'[q] \in Stages
    BY <1>1 DEF Moves, At, HandlerInv, HandlerTypeOK
  <2>3. "C2Detection" \in config.on
    BY <1>1 DEF FluxInv, HandlerInv, On, Feature, At
  <2>4. findings[q].c2 = "ip_count" => FluxReason(flux[n]) = "ip_count"
    BY DEF FluxInv, Found, FluxReason
  <2>5. findings'[q].flux = "ip_rotation" => Cardinality(Fresh(q)') > RotationLimit
    <3>1. Fresh(q)' = {i \in Addresses : firstSeen[n][i] \in 0..now /\ firstSeen[n][i] > now - RotationWindow}
      BY <1>1, <2>1 DEF Fresh
    <3> QED BY <1>2, <2>1, <3>1, RotationsAreFresh
  <2>6. pc'[q] \notin {"nsTrack", "c2Track"}
    <3>1. "fluxTrack" \in Stages /\ On(config.on, "fluxTrack")
      BY <2>3 DEF Stages, Rank, On, Feature
    <3>2. ASSUME Rank[pc'[q]] > Rank["fluxTrack"] PROVE FALSE
      BY <1>1, <3>1, <3>2, PastStage DEF At, Rank, FluxInv
    <3> QED BY <3>2 DEF Rank
  <2>7. ~(Rank[pc'[q]] <= Rank["c2"]) /\ ~(Rank[pc'[q]] <= Rank["flux"])
    BY <2>2 DEF Rank, Stages
  <2>8. findings[q].c2 = "ip_count" => Cardinality(flux[n].seen) >= MinIPCount
    BY DEF FluxInv, Found
  <2> QED BY <1>1, <2>1, <2>3, <2>4, <2>5, <2>6, <2>7, <2>8 DEF Found
<1> QED BY <1>4, <1>5, <1>6 DEF FluxInv

\* 6. The older detector's word: it has no address that the newer one lacks.
LEMMA C2Suspects ==
    ASSUME FluxInv, NEW q \in Queries, SuspectC2(q), ~Collides(q), UNCHANGED now,
           HandlerInv', config' = config, Moves(q)
    PROVE  FluxInv'
<1> DEFINE n == query[q].name
<1>1. /\ At(q, "c2") /\ UNCHANGED <<query, answer, config, flux, c2, firstSeen>>
      /\ findings' = [findings EXCEPT ![q].c2 = C2Reason(c2[n])]
  BY DEF SuspectC2
<1>2. n \in Names /\ now \in Nat
  BY Traffic DEF FluxInv, HandlerInv
<1>3. C2Reason(c2[n]) \in Reasons
  BY DEF C2Reason, Reasons
<1>4. FluxTyped' /\ Learns /\ \A m \in Names : Agree(m)'
  <2>1. findings' \in [Queries -> [c2 : Reasons, flux : Reasons, at : 0..now]]
    BY <1>1, <1>2, <1>3 DEF FluxInv, FluxTyped
  <2> QED BY <1>1, <2>1 DEF FluxInv, FluxTyped, Learns, Agree
<1>5. ASSUME NEW p \in Queries \ {q} PROVE Found(p)'
  <2>1. findings'[p] = findings[p] /\ UNCHANGED <<pc[p], query[p], answer[p]>>
    BY <1>1 DEF FluxInv, FluxTyped, Moves
  <2> QED BY <1>4, <2>1, FoundStays
<1>6. Found(q)'
  <2>1. /\ findings'[q].c2 = C2Reason(c2[n]) /\ findings'[q].flux = findings[q].flux
        /\ findings[q].flux = "none"
    BY <1>1 DEF FluxInv, FluxTyped, Found, At, Rank
  <2>2. "C2Detection" \in config.on
    BY <1>1 DEF FluxInv, HandlerInv, On, Feature, At
  <2>3. pc'[q] \in Stages /\ ~(Rank[pc'[q]] > Rank["flux"]) /\ Rank[pc'[q]] > Rank["c2"]
    <3>1. "flux" \in Stages /\ On(config.on, "flux")
      BY <2>2 DEF Stages, Rank, On, Feature
    <3>2. ASSUME Rank[pc'[q]] > Rank["flux"] PROVE FALSE
      BY <1>1, <3>1, <3>2, PastStage DEF At, Rank, FluxInv
    <3> QED BY <1>1, <3>2 DEF Moves, At, HandlerInv, HandlerTypeOK
  <2>4. C2Reason(c2[n]) = "ip_count" => Cardinality(flux[n].seen) >= MinIPCount
    <3>1. c2[n].seen \subseteq flux[n].seen /\ flux[n].seen \subseteq Addresses
      BY <1>2 DEF FluxInv, FluxTyped, Agree
    <3>2. /\ IsFiniteSet(flux[n].seen) /\ IsFiniteSet(c2[n].seen)
          /\ Cardinality(c2[n].seen) <= Cardinality(flux[n].seen)
      <4>1. IsFiniteSet(flux[n].seen)
        BY <3>1, FS_Subset, FluxAssumption
      <4> QED BY <3>1, <4>1, FS_Subset
    <3>3. Cardinality(flux[n].seen) \in Nat /\ Cardinality(c2[n].seen) \in Nat
      BY <3>2, FS_CardinalityType
    <3> QED BY <3>2, <3>3, FluxAssumption DEF C2Reason
  <2>5. ~(Rank[pc'[q]] <= Rank["c2"]) /\ pc'[q] \notin {"nsTrack", "c2Track"}
    BY <2>3 DEF Stages, Rank
  <2> QED BY <1>1, <2>1, <2>2, <2>3, <2>4, <2>5 DEF Found
<1> QED BY <1>4, <1>5, <1>6 DEF FluxInv

\* TrackResponse of the older detector: whatever is lost to a race, what is kept
\* has been seen by the newer one, which tracks a response first.
LEMMA C2Tracks ==
    ASSUME FluxInv, NEW q \in Queries, EndTrackC2(q), ~Collides(q), UNCHANGED now,
           HandlerInv', config' = config, Moves(q)
    PROVE  FluxInv'
<1> DEFINE n == query[q].name
<1>1. PICK s \in Outcomes(q) : c2' = [c2 EXCEPT ![n] = s]
  BY DEF EndTrackC2
<1>2. At(q, "c2Track") /\ UNCHANGED <<query, answer, config, flux, firstSeen, findings>>
  BY DEF EndTrackC2
<1>3. n \in Names /\ answer[q].ips \subseteq Addresses /\ answer[q].ttl \in Nat
  BY Traffic DEF FluxInv
<1>4. answer[q].ips \subseteq flux[n].seen
  BY <1>2 DEF FluxInv, Found, At
<1>5. c2[n] \in [seen : SUBSET Addresses, minTTL : Nat, maxTTL : Nat]
      /\ c2[n].seen \subseteq flux[n].seen
  BY <1>3 DEF FluxInv, FluxTyped, Agree
<1>6. ASSUME NEW u \in [seen : SUBSET Addresses, minTTL : Nat, maxTTL : Nat], u.seen \subseteq flux[n].seen
      PROVE  /\ TrackedC2(u, answer[q]) \in [seen : SUBSET Addresses, minTTL : Nat, maxTTL : Nat]
             /\ TrackedC2(u, answer[q]).seen \subseteq flux[n].seen
  <2> DEFINE min == MinTTL(u.minTTL, answer[q].ttl)
             max == MaxTTL(u.maxTTL, answer[q].ttl)
  <2>1. min \in Nat /\ max \in Nat
    BY <1>3, <1>6 DEF MinTTL, MaxTTL
  <2>2. TrackedC2(u, answer[q]) = [seen |-> u.seen \union answer[q].ips, minTTL |-> min, maxTTL |-> max]
    BY DEF TrackedC2
  <2> HIDE DEF min, max
  <2> QED BY <1>3, <1>4, <1>6, <2>1, <2>2
<1>7. NoC2 \in [seen : SUBSET Addresses, minTTL : Nat, maxTTL : Nat] /\ NoC2.seen = {}
  BY DEF NoC2
<1>8. s \in {TrackedC2(c2[n], answer[q]), TrackedC2(NoC2, answer[q]), c2[n]}
  BY DEF Outcomes
<1>9. s \in [seen : SUBSET Addresses, minTTL : Nat, maxTTL : Nat] /\ s.seen \subseteq flux[n].seen
  BY <1>5, <1>6, <1>7, <1>8
<1>10. FluxTyped' /\ Learns /\ \A m \in Names : Agree(m)'
  <2>1. c2' \in [Names -> [seen : SUBSET Addresses, minTTL : Nat, maxTTL : Nat]]
    BY <1>1, <1>3, <1>9 DEF FluxInv, FluxTyped
  <2>2. \A m \in Names : c2'[m].seen \subseteq flux[m].seen
    BY <1>1, <1>3, <1>9 DEF FluxInv, FluxTyped, Agree
  <2> QED BY <1>2, <2>1, <2>2 DEF FluxInv, FluxTyped, Learns, Agree
<1>11. ASSUME NEW p \in Queries PROVE Found(p)'
  <2>1. UNCHANGED <<pc[p], query[p], answer[p]>> \/ p = q
    BY DEF Moves
  <2>2. ~At(q, "c2") /\ ~At(q, "flux") /\ ~At(q, "fluxTrack")
    BY <1>2 DEF At
  <2> QED BY <1>2, <1>10, <2>1, <2>2, FoundStays
<1> QED BY <1>10, <1>11 DEF FluxInv

\* The fast-flux invariant: the older detector knows no address the newer one lacks.
THEOREM FluxInvariant == Spec => []FluxInv
<1>1. Init => FluxInv
  BY FluxStart
<1>2. FluxInv /\ [Next]_vars => FluxInv'
  <2> SUFFICES ASSUME FluxInv, [Next]_vars PROVE FluxInv'
    OBVIOUS
  <2>1. /\ HandlerInv' /\ config' = config /\ now' \in {now, now + 1}
        /\ HandlerInv /\ now \in Nat
    BY Steps DEF FluxInv, HandlerInv
  \* The detectors hold what they held; the handlers are not with them.
  <2>2. ASSUME UNCHANGED <<flux, c2, firstSeen, findings>>,
               \A p \in Queries :
                  \/ UNCHANGED <<pc[p], query[p], answer[p]>>
                  \/ Moves(p) /\ ~At(p, "c2") /\ ~At(p, "flux") /\ ~At(p, "fluxTrack")
        PROVE  FluxInv'
    <3>1. FluxTyped'
      <4>1. \A S : [S -> -1..now] \subseteq [S -> -1..now'] /\ 0..now \subseteq 0..now'
        BY <2>1
      <4>2. firstSeen \in [Names -> [Addresses -> -1..now']]
        BY <4>1, Zenon DEF FluxInv, FluxTyped
      <4>3. findings \in [Queries -> [c2 : Reasons, flux : Reasons, at : 0..now']]
        BY <4>1 DEF FluxInv, FluxTyped
      <4> QED BY <2>2, <4>2, <4>3 DEF FluxInv, FluxTyped
    <3>2. Learns /\ \A n \in Names : Agree(n)'
      BY <2>2 DEF FluxInv, Learns, Agree
    <3>3. \A p \in Queries : Found(p)'
      BY <2>1, <2>2, <3>1, <3>2, FoundStays
    <3> QED BY <2>1, <3>1, <3>2, <3>3 DEF FluxInv
  <2>3. CASE UNCHANGED <<handlerVars, fluxVars>>
    BY <2>2, <2>3 DEF handlerVars, fluxVars
  <2>4. ASSUME NEW q \in Queries, Moves(q), UNCHANGED <<flux, c2, firstSeen, findings>>,
               ~At(q, "c2"), ~At(q, "flux"), ~At(q, "fluxTrack")
        PROVE  FluxInv'
    BY <2>2, <2>4 DEF Moves
  <2>5. ASSUME NEW q \in Queries, Handle(q), UNCHANGED now, UNCHANGED handlerVars \/ Moves(q)
        PROVE  FluxInv'
    <3>1. ASSUME Proceed(q), UNCHANGED <<query, answer, config>> PROVE Moves(q)
      BY <2>1, <2>5, <3>1, Proceeds
    <3>2. CASE C2Detection(q)
      <4>1. CASE Collides(q)
        BY <2>2, <4>1 DEF Collides, handlerVars
      <4>2. CASE SuspectC2(q) /\ ~Collides(q)
        <5>1. Moves(q)
          BY <3>1, <4>2 DEF SuspectC2
        <5> QED BY <2>1, <2>5, <4>2, <5>1, C2Suspects
      <4>3. CASE AnalyzeFlux(q)
        <5>1. Moves(q)
          BY <3>1, <4>3 DEF AnalyzeFlux
        <5> QED BY <2>1, <2>5, <4>3, <5>1, FluxAnalyzes
      <4>4. CASE TrackFlux(q)
        <5>1. /\ FluxTyped' /\ Learns /\ \A n \in Names : Agree(n)'
              /\ answer[q].ips \subseteq flux'[query[q].name].seen
          BY <2>5, <4>4, TrackingLearns
        <5>2. Moves(q) /\ At(q, "fluxTrack") /\ UNCHANGED <<query, answer, config, findings>>
          BY <3>1, <4>4 DEF TrackFlux
        <5>3. ASSUME NEW p \in Queries \ {q} PROVE Found(p)'
          <6>1. findings'[p] = findings[p] /\ UNCHANGED <<pc[p], query[p], answer[p]>>
            BY <5>2 DEF Moves
          <6> QED BY <2>1, <5>1, <6>1, FoundStays
        <5>4. Found(q)'
          <6>1. /\ pc[q] = "fluxTrack" /\ pc'[q] \in Stages /\ Rank[pc'[q]] > Rank["fluxTrack"]
                /\ Found(q)
            BY <2>1, <5>2 DEF Moves, At, HandlerInv, HandlerTypeOK, FluxInv
          <6>2. /\ ~(Rank[pc'[q]] <= Rank["c2"]) /\ ~(Rank[pc'[q]] <= Rank["flux"])
                /\ Rank[pc[q]] > Rank["flux"]
            BY <6>1 DEF Stages, Rank
          <6> QED BY <2>1, <5>1, <5>2, <6>1, <6>2, FindingsStay DEF Found
        <5> QED BY <2>1, <5>1, <5>3, <5>4 DEF FluxInv
      <4>5. CASE TrackNameservers(q)
        <5> DEFINE n == query[q].name
        <5>1. /\ Moves(q) /\ At(q, "nsTrack")
              /\ UNCHANGED <<query, answer, config, c2, firstSeen, findings>>
              /\ flux' = [flux EXCEPT ![n] = TrackedNS(flux[n], answer[q])]
          BY <3>1, <4>5 DEF TrackNameservers
        <5>2. n \in Names /\ answer[q].ns \subseteq Addresses
          BY <2>1, Traffic
        <5>3. /\ TrackedNS(flux[n], answer[q])
                   \in [seen : SUBSET Addresses, history : SUBSET [ip : Addresses, at : Nat],
                        ns : SUBSET Addresses, nsHistory : SUBSET [ip : Addresses, at : Nat],
                        minTTL : Nat, maxTTL : Nat]
              /\ TrackedNS(flux[n], answer[q]).seen = flux[n].seen
              /\ TrackedNS(flux[n], answer[q]).history = flux[n].history
          <6> DEFINE h == flux[n].nsHistory \union Sightings(answer[q].ns \ flux[n].ns)
          <6>1. h \subseteq [ip : Addresses, at : Nat]
            BY <2>1, <5>2 DEF FluxInv, FluxTyped, Sightings
          <6>2. TrackedNS(flux[n], answer[q])
                    = [flux[n] EXCEPT !.ns = @ \union answer[q].ns, !.nsHistory = h]
            BY DEF TrackedNS
          <6>3. flux[n] \in [seen : SUBSET Addresses, history : SUBSET [ip : Addresses, at : Nat],
                             ns : SUBSET Addresses, nsHistory : SUBSET [ip : Addresses, at : Nat],
                             minTTL : Nat, maxTTL : Nat]
            BY <5>2 DEF FluxInv, FluxTyped
          <6> HIDE DEF h, n
          <6>4. TrackedNS(flux[n], answer[q])
                    = [seen |-> flux[n].seen, history |-> flux[n].history,
                       ns |-> flux[n].ns \union answer[q].ns, nsHistory |-> h,
                       minTTL |-> flux[n].minTTL, maxTTL |-> flux[n].maxTTL]
            BY <6>2, <6>3
          <6> QED BY <5>2, <6>1, <6>3, <6>4
        <5>4. FluxTyped' /\ Learns /\ \A m \in Names : Agree(m)'
          <6>1. \A m \in Names : flux'[m].seen = flux[m].seen /\ flux'[m].history = flux[m].history
            BY <5>1, <5>2, <5>3 DEF FluxInv, FluxTyped
          <6>2. FluxTyped'
            BY <2>5, <5>1, <5>3, Zenon DEF FluxInv, FluxTyped
          <6> QED BY <5>1, <6>1, <6>2 DEF FluxInv, Learns, Agree
        <5>5. ASSUME NEW p \in Queries PROVE Found(p)'
          <6>1. UNCHANGED <<pc[p], query[p], answer[p]>> \/ p = q
            BY <5>1 DEF Moves
          <6>2. ~At(q, "c2") /\ ~At(q, "flux") /\ ~At(q, "fluxTrack")
            BY <5>1 DEF At
          <6> QED BY <2>1, <5>1, <5>4, <6>1, <6>2, FoundStays
        <5> QED BY <2>1, <5>4, <5>5 DEF FluxInv
      <4>6. CASE BeginTrackC2(q) /\ ~Collides(q)
        BY <2>2, <4>6 DEF BeginTrackC2, handlerVars
      <4>7. CASE EndTrackC2(q) /\ ~Collides(q)
        <5>1. Moves(q)
          BY <3>1, <4>7 DEF EndTrackC2
        <5> QED BY <2>1, <2>5, <4>7, <5>1, C2Tracks
      <4> QED BY <3>2, <4>1, <4>2, <4>3, <4>4, <4>5, <4>6, <4>7 DEF C2Detection
    <3>3. CASE Enter(q) \/ LowSlow(q) \/ EDNSInspection(q) \/ Relay(q) \/ DNSSEC(q) \/ Downgrade(q)
      <4>1. UNCHANGED fluxVars /\ ~At(q, "c2") /\ ~At(q, "flux") /\ ~At(q, "fluxTrack")
        BY <3>3
           DEF Enter, Arrive, LowSlow, RecordExfil, AnalyzeExfil, EDNSInspection, InspectOption, Report,
               NoFinding, Relay, Forward, DNSSEC, ValidatorStep, Validate, NextSet, NextSig,
               FetchSignerKeys, TryKeys, AtRoot, FetchDS, MatchDS, FetchParentKeys, TryParent, Fill,
               FetchKeys, Lookup, Walking, Downgrade, At
      <4> QED BY <2>3, <2>4, <2>5, <4>1 DEF fluxVars
    <3> QED BY <2>5, <3>2, <3>3 DEF Handle
  <2> QED BY <2>1, <2>3, <2>5, Steps DEF FluxInv
<1> QED BY <1>1, <1>2, PTL DEF Spec

(* Whatever addresses the older detector has lost to racing handlers, a name  *)
(* it suspects for its addresses is reported by the newer one, which locks.   *)
THEOREM RacesHideNothing == Spec => []OldFindingsConfirmed
<1>1. FluxInv => OldFindingsConfirmed
  BY DEF FluxInv, Found, OldFindingsConfirmed
<1> QED BY <1>1, FluxInvariant, PTL

(* A rotation is only reported when more addresses than the limit were new    *)
(* within the window, though addresses leave the history and come back.       *)
THEOREM RotationsAreNew == Spec => []RotationIsNew
<1>1. FluxInv => RotationIsNew
  BY DEF FluxInv, Found, Fresh, RotationIsNew
<1> QED BY <1>1, FluxInvariant, PTL

-----------------------------------------------------------------------------
(* The downgrade detector.                                                   *)

TrustState ==
    [lastValid : -1..now, lastFailure : -1..now, failures : Nat, valids : Nat,
     alerted : BOOLEAN, alertTime : -1..now]

Verdict == [valid : BOOLEAN, at : 0..now, alert : BOOLEAN]

DowngradeTyped ==
    /\ trust \in [Names -> TrustState]
    /\ trail \in [Names -> Seq(Verdict)]

\* Since its i-th verdict, a valid one, a name has failed without a pause.
Failing(t, i) ==
    /\ t[i].valid /\ \A j \in (i + 1)..Len(t) : ~t[j].valid
    /\ Unbroken(t, i, Len(t))

Reported(t, i) ==
    \E j \in (i + 2)..Len(t) : t[j].alert /\ t[Len(t)].at - t[j].at <= DowngradeCooldown

\* Of such a name the detector knows all there is, or its last verdict is so old
\* that the next will not go without a pause.
Known(s, t, i) ==
    /\ s.valids > 0 /\ s.failures = Len(t) - i
    /\ t[Len(t)].at \in {s.lastValid, s.lastFailure}
    /\ s.alerted => \E j \in (i + 2)..Len(t) : t[j].alert /\ t[j].at = s.alertTime

Watched(s, t) ==
    \A i \in 1..Len(t) :
        Failing(t, i) =>
            /\ Len(t) >= i + 2 => Reported(t, i)
            /\ now - t[Len(t)].at > MaxAge \/ Known(s, t, i)

DowngradeInv ==
    /\ HandlerInv
    /\ DowngradeTyped
    /\ "DNSSECDowngrade" \in config.on => \A n \in Names : Watched(trust[n], trail[n])

\* What RecordValidation makes of a name's state and what is written down of it
Judged(s, valid) ==
    IF valid THEN Validated(s) ELSE IF Suspect(Failed(s)) THEN Alerted(Failed(s)) ELSE Failed(s)
Entry(s, valid) == [valid |-> valid, at |-> now, alert |-> ~valid /\ Suspect(Failed(s))]

\* A verdict leaves a well-formed state and trail.
LEMMA JudgedType ==
    ASSUME now \in Nat, NEW s \in TrustState, NEW valid \in BOOLEAN
    PROVE  /\ Judged(s, valid) \in TrustState
           /\ Entry(s, valid) \in Verdict
<1> DEFINE T == -1..now
<1>0. now \in T /\ TrustState = [lastValid : T, lastFailure : T, failures : Nat, valids : Nat,
                                 alerted : BOOLEAN, alertTime : T]
  BY DEF TrustState
<1> HIDE DEF T
<1>1. Validated(s) \in TrustState /\ Failed(s) \in TrustState
  <2>1. s.failures + 1 \in Nat /\ s.valids + 1 \in Nat
    BY <1>0
  <2>2. Validated(s) \in TrustState
    BY <1>0, <2>1 DEF Validated
  <2>3. Failed(s) \in TrustState
    BY <1>0, <2>1 DEF Failed
  <2> QED BY <2>2, <2>3
<1>2. \A u \in TrustState : Alerted(u) \in TrustState
  BY <1>0 DEF Alerted
<1>3. (~valid /\ Suspect(Failed(s))) \in BOOLEAN
  OBVIOUS
<1> QED BY <1>1, <1>2, <1>3 DEF Judged, Entry, Verdict

\* A valid verdict starts the watch afresh.
LEMMA ValidWatched ==
    ASSUME now \in Nat, NEW s \in TrustState,
           NEW t \in Seq(Verdict)
    PROVE  Watched(Judged(s, TRUE), Append(t, Entry(s, TRUE)))
<1> DEFINE e == Entry(s, TRUE)
           u == Append(t, e)
           last == Len(t) + 1
<1>1. e.valid /\ e.at = now
  BY DEF Entry
<1>2. e \in Verdict
  BY JudgedType
<1> HIDE DEF e
<1>3. Len(u) = last /\ u[last] = e /\ last \in Nat \ {0}
  BY <1>2
<1> HIDE DEF u, last
<1>4. Judged(s, TRUE).valids > 0 /\ Judged(s, TRUE).failures = 0
      /\ Judged(s, TRUE).lastValid = now /\ ~Judged(s, TRUE).alerted
  BY DEF Judged, Validated, TrustState
<1>5. Known(Judged(s, TRUE), u, last)
  <2>1. u[Len(u)].at = now /\ Len(u) - last = 0
    BY <1>1, <1>3
  <2> QED BY <1>4, <2>1, Zenon DEF Known
<1>6. ASSUME NEW i \in 1..Len(u), Failing(u, i) PROVE i = last
  <2>1. \A j \in (i + 1)..last : ~u[j].valid
    BY <1>3, <1>6 DEF Failing
  <2>2. last \notin (i + 1)..last
    BY <1>1, <1>3, <2>1
  <2> QED BY <1>3, <2>2
<1>7. \A i \in 1..Len(u) : Failing(u, i) => ~(Len(u) >= i + 2) /\ Known(Judged(s, TRUE), u, i)
  <2> SUFFICES ASSUME NEW i \in 1..Len(u), Failing(u, i)
               PROVE  ~(Len(u) >= i + 2) /\ Known(Judged(s, TRUE), u, i)
    OBVIOUS
  <2>1. i = last /\ ~(last >= last + 2)
    BY <1>3, <1>6
  <2> QED BY <1>3, <1>5, <2>1, Zenon
<1>8. Watched(Judged(s, TRUE), u)
  BY <1>7 DEF Watched
<1> QED BY <1>8 DEF u, e

\* A failure is reported, unless an alert is in its cooldown.
LEMMA FailureWatched ==
    ASSUME now \in Nat, NEW s \in TrustState,
           NEW t \in Seq(Verdict), Watched(s, t)
    PROVE  Watched(Judged(s, FALSE), Append(t, Entry(s, FALSE)))
<1> DEFINE e == Entry(s, FALSE)
           u == Append(t, e)
           last == Len(t)
           v == Judged(s, FALSE)
           alert == Suspect(Failed(s))
<1>1. ~e.valid /\ e.at = now /\ (e.alert <=> alert)
  BY DEF Entry
<1>2. e \in Verdict
  BY JudgedType
<1>3. /\ v.valids = s.valids /\ v.failures = s.failures + 1 /\ v.lastFailure = now
      /\ alert => v.alerted = TRUE /\ v.alertTime = now
      /\ ~alert => v.alerted = s.alerted /\ v.alertTime = s.alertTime
  BY DEF Judged, Failed, Alerted, TrustState
<1>4. s.valids > 0 /\ s.failures >= 1 =>
          (alert <=> ~s.alerted \/ now - s.alertTime > DowngradeCooldown)
  BY DEF Suspect, Failed, TrustState
<1>5. alert => s.failures >= 1
  BY DEF Suspect, Failed, TrustState
<1> HIDE DEF e, v, alert
<1>6. /\ Len(u) = last + 1 /\ u[last + 1] = e /\ last \in Nat
      /\ \A j \in 1..last : u[j] = t[j]
  BY <1>2
<1>7. /\ \A j \in 1..last : t[j].at \in 0..now
      /\ s.failures \in Nat /\ s.valids \in Nat /\ s.alertTime \in Int
  <2>1. s.failures \in Nat /\ s.valids \in Nat /\ s.alertTime \in Int
    BY DEF TrustState
  <2>2. \A j \in 1..last : t[j] \in Verdict
    BY DEF last
  <2> QED BY <2>1, <2>2 DEF Verdict
<1> HIDE DEF u, last
<1>8. ASSUME NEW i \in 1..Len(u), Failing(u, i)
      PROVE  (Len(u) >= i + 2 => Reported(u, i)) /\ Known(v, u, i)
  <2>1. i \in 1..last
    BY <1>1, <1>6, <1>8 DEF Failing
  <2>2. \A j \in (i + 1)..last : ~t[j].valid
    BY <1>6, <1>8, <2>1 DEF Failing
  <2>3. Unbroken(t, i, last) /\ now - t[last].at <= MaxAge
    <3>1. \A k \in i..last : u[k + 1].at - u[k].at <= MaxAge
      BY <1>6, <1>8, <2>1 DEF Failing, Unbroken
    <3>2. \A k \in i..(last - 1) : u[k] = t[k] /\ u[k + 1] = t[k + 1] /\ k \in i..last
      BY <1>6, <2>1
    <3>3. u[last] = t[last] /\ u[last + 1].at = now /\ last \in i..last
      BY <1>1, <1>6, <2>1
    <3> QED BY <3>1, <3>2, <3>3 DEF Unbroken
  <2>4. Failing(t, i) /\ t[i].valid
    BY <1>6, <1>8, <2>1, <2>2, <2>3 DEF Failing, last
  <2>5. t[last].at \in 0..now
    BY <1>6, <1>7, <2>1
  <2>6. Known(s, t, i)
    BY <2>1, <2>3, <2>4, <2>5, DowngradeAssumption DEF Watched, last
  <2>7. /\ s.valids > 0 /\ s.failures = last - i
        /\ s.alerted => \E j \in (i + 2)..last : t[j].alert /\ t[j].at = s.alertTime
    BY <2>6 DEF Known, last
  <2>8. Len(u) >= i + 2 => Reported(u, i)
    <3> SUFFICES ASSUME last + 1 >= i + 2 PROVE Reported(u, i)
      BY <1>6
    <3>1. CASE alert
      <4>1. last + 1 \in (i + 2)..Len(u) /\ u[last + 1].alert /\ u[Len(u)].at - u[last + 1].at <= DowngradeCooldown
        BY <1>1, <1>6, <2>1, <3>1, DowngradeAssumption
      <4> QED BY <4>1 DEF Reported
    <3>2. CASE ~alert
      <4>1. s.failures >= 1
        BY <1>6, <2>1, <2>7
      <4>2. s.alerted /\ now - s.alertTime <= DowngradeCooldown
        BY <1>4, <1>7, <2>7, <3>2, <4>1, DowngradeAssumption
      <4>3. PICK j \in (i + 2)..last : t[j].alert /\ t[j].at = s.alertTime
        BY <2>7, <4>2
      <4>4. j \in (i + 2)..Len(u) /\ u[j] = t[j] /\ u[Len(u)].at = now
        BY <1>1, <1>6, <2>1
      <4> QED BY <4>2, <4>3, <4>4 DEF Reported
    <3> QED BY <3>1, <3>2
  <2>9. v.alerted => \E j \in (i + 2)..Len(u) : u[j].alert /\ u[j].at = v.alertTime
    <3>1. CASE alert
      <4>1. last + 1 \in (i + 2)..Len(u) /\ u[last + 1].alert /\ u[last + 1].at = now
        BY <1>1, <1>5, <1>6, <2>1, <2>7, <3>1
      <4> QED BY <1>3, <3>1, <4>1
    <3>2. CASE ~alert /\ s.alerted
      <4>1. PICK j \in (i + 2)..last : t[j].alert /\ t[j].at = s.alertTime
        BY <2>7, <3>2
      <4>2. j \in (i + 2)..Len(u) /\ u[j] = t[j]
        BY <1>6, <2>1
      <4> QED BY <1>3, <3>2, <4>1, <4>2
    <3> QED BY <1>3, <3>1, <3>2
  <2>10. v.valids > 0 /\ v.failures = Len(u) - i /\ u[Len(u)].at = v.lastFailure
    BY <1>1, <1>3, <1>6, <1>7, <2>1, <2>7
  <2> QED BY <2>8, <2>9, <2>10 DEF Known
<1> QED BY <1>8 DEF Watched, u, e, v

\* The downgrade detector's invariant: every name's trail is watched.
THEOREM DowngradeInvariant == Spec => []DowngradeInv
<1>1. Init => DowngradeInv
  <2> SUFFICES ASSUME Init PROVE DowngradeInv
    OBVIOUS
  <2>1. HandlerInv /\ DowngradeInit /\ now = 0
    BY HandlerStart DEF Init, ClockInit
  <2>2. DowngradeTyped
    BY <2>1 DEF DowngradeInit, DowngradeTyped, TrustState, NoTrust
  <2>3. \A n \in Names : Len(trail[n]) = 0
    BY <2>1 DEF DowngradeInit
  <2> QED BY <2>1, <2>2, <2>3 DEF DowngradeInv, Watched
<1>2. DowngradeInv /\ [Next]_vars => DowngradeInv'
  <2> SUFFICES ASSUME DowngradeInv, [Next]_vars PROVE DowngradeInv'
    OBVIOUS
  <2>1. /\ HandlerInv' /\ config' = config /\ now' \in {now, now + 1}
        /\ HandlerInv /\ now \in Nat
    BY Steps DEF DowngradeInv, HandlerInv
  <2>2. CASE UNCHANGED downgradeVars
    <3>1. TrustState \subseteq TrustState'
      BY <2>1 DEF TrustState
    <3>2. Verdict \subseteq Verdict'
      BY <2>1 DEF Verdict
    <3>3. \A S, T : S \subseteq T => Seq(S) \subseteq Seq(T)
      OBVIOUS
    <3>4. DowngradeTyped'
      <4>1. trust' \in [Names -> TrustState']
        BY <2>2, <3>1 DEF DowngradeInv, DowngradeTyped, downgradeVars
      <4>2. trail' \in [Names -> Seq(Verdict')]
        <5> DEFINE A == Seq(Verdict)
                   B == Seq(Verdict')
        <5>1. A \subseteq B
          BY <3>2, <3>3
        <5>2. trail' \in [Names -> A]
          BY <2>2 DEF DowngradeInv, DowngradeTyped, downgradeVars
        <5> HIDE DEF A, B
        <5>3. trail' \in [Names -> B]
          BY <5>1, <5>2
        <5> QED BY <5>3 DEF B
      <4> QED BY <4>1, <4>2 DEF DowngradeTyped
    <3>5. ASSUME NEW n \in Names, Watched(trust[n], trail[n]) PROVE Watched(trust[n], trail[n])'
      <4> DEFINE t == trail[n]
      <4>1. trust'[n] = trust[n] /\ trail'[n] = t
        BY <2>2 DEF downgradeVars
      <4>2. \A i \in 1..Len(t) : t[i].at \in 0..now
        <5>1. t \in Seq(Verdict)
          BY DEF DowngradeInv, DowngradeTyped
        <5>2. \A i \in 1..Len(t) : t[i] \in Verdict
          BY <5>1
        <5> QED BY <5>2 DEF Verdict
      <4>3. \A i \in 1..Len(t) : now - t[Len(t)].at > MaxAge => now' - t[Len(t)].at > MaxAge
        BY <2>1, <4>2, DowngradeAssumption
      <4> QED BY <3>5, <4>1, <4>3 DEF Watched, Known, Reported, Failing, Unbroken
    <3> QED BY <2>1, <3>4, <3>5 DEF DowngradeInv
  <2>3. CASE CleanupDowngrade /\ UNCHANGED now
    <3>1. /\ trust' = [n \in Names |-> IF IdleSince(trust[n]) THEN NoTrust ELSE trust[n]]
          /\ trail' = trail
      BY <2>3 DEF CleanupDowngrade
    <3>2. DowngradeTyped'
      <4>1. NoTrust \in TrustState
        BY <2>1 DEF NoTrust, TrustState
      <4>2. TrustState' = TrustState /\ Verdict' = Verdict
        BY <2>3 DEF TrustState, Verdict
      <4> QED BY <2>3, <3>1, <4>1, <4>2 DEF DowngradeInv, DowngradeTyped
    <3>3. ASSUME NEW n \in Names, Watched(trust[n], trail[n]) PROVE Watched(trust[n], trail[n])'
      <4>1. CASE ~IdleSince(trust[n])
        <5>1. trust'[n] = trust[n] /\ trail'[n] = trail[n]
          BY <3>1, <4>1
        <5> QED BY <2>3, <3>3, <5>1 DEF Watched, Known, Reported, Failing, Unbroken
      <4>2. CASE IdleSince(trust[n])
        <5>1. \A i \in 1..Len(trail[n]) :
                Known(trust[n], trail[n], i) => now - trail[n][Len(trail[n])].at > MaxAge
          BY <4>2 DEF Known, IdleSince
        <5> QED BY <2>3, <3>1, <3>3, <5>1 DEF Watched, Known, Reported, Failing, Unbroken
      <4> QED BY <4>1, <4>2
    <3> QED BY <2>1, <3>2, <3>3 DEF DowngradeInv
  <2>4. ASSUME NEW q \in Queries, Downgrade(q), UNCHANGED now PROVE DowngradeInv'
    <3> DEFINE n == query[q].name
               valid == verdict[q] = "valid"
    <3>1. CASE ~RecordsVerdict(valid)
      BY <2>2, <2>4, <3>1 DEF Downgrade
    <3>2. CASE RecordsVerdict(valid)
      <4>1. RecordValidation(n, valid)
        BY <2>4, <3>2 DEF Downgrade
      <4>2. /\ trust' = [trust EXCEPT ![n] = Judged(trust[n], valid)]
            /\ trail' = [trail EXCEPT ![n] = Append(trail[n], Entry(trust[n], valid))]
        <5>1. CASE valid
          BY <4>1, <5>1 DEF RecordValidation, Judged, Entry
        <5>2. CASE ~valid
          BY <4>1, <5>2 DEF RecordValidation, Judged, Entry
        <5> QED BY <5>1, <5>2
      <4>3. n \in Names /\ valid \in BOOLEAN
        BY <2>1, Traffic
      <4> HIDE DEF n, valid
      <4>4. /\ trust[n] \in TrustState
            /\ trail[n] \in Seq(Verdict)
        BY <4>3 DEF DowngradeInv, DowngradeTyped
      <4>5. /\ Judged(trust[n], valid) \in TrustState
            /\ Append(trail[n], Entry(trust[n], valid)) \in Seq(Verdict)
        BY <2>1, <4>3, <4>4, JudgedType
      <4>6. DowngradeTyped'
        <5>1. TrustState' = TrustState /\ Verdict' = Verdict
          BY <2>4 DEF TrustState, Verdict
        <5> QED BY <4>2, <4>5, <5>1, Zenon DEF DowngradeInv, DowngradeTyped
      <4>7. ASSUME NEW m \in Names, "DNSSECDowngrade" \in config.on PROVE Watched(trust[m], trail[m])'
        <5>1. Watched(trust[m], trail[m])
          BY <4>7 DEF DowngradeInv
        <5>2. CASE m # n
          <6>1. trust'[m] = trust[m] /\ trail'[m] = trail[m]
            BY <4>2, <5>2 DEF DowngradeInv, DowngradeTyped
          <6> QED BY <2>4, <5>1, <6>1 DEF Watched, Known, Reported, Failing, Unbroken
        <5>3. CASE m = n
          <6>1. Watched(Judged(trust[n], valid), Append(trail[n], Entry(trust[n], valid)))
            BY <2>1, <4>3, <4>4, <5>1, <5>3, ValidWatched, FailureWatched
          <6> DEFINE s == Judged(trust[n], valid)
                     t == Append(trail[n], Entry(trust[n], valid))
          <6> HIDE DEF s, t
          <6>2. trust' = [trust EXCEPT ![n] = s] /\ trail' = [trail EXCEPT ![n] = t]
            BY <4>2 DEF s, t
          <6>3. trust'[m] = s /\ trail'[m] = t
            BY <4>3, <5>3, <6>2 DEF DowngradeInv, DowngradeTyped
          <6>4. Watched(s, t)
            BY <6>1 DEF s, t
          <6> QED BY <2>4, <6>3, <6>4 DEF Watched, Known, Reported, Failing, Unbroken
        <5> QED BY <5>2, <5>3
      <4> QED BY <2>1, <4>6, <4>7 DEF DowngradeInv
    <3> QED BY <3>1, <3>2
  <2>5. ASSUME NEW q \in Queries, Handle(q), ~Downgrade(q) PROVE UNCHANGED downgradeVars
    BY <2>5 DEF Handle, Enter, LowSlow, C2Detection, EDNSInspection, Relay, DNSSEC
  <2> QED BY <2>2, <2>3, <2>4, <2>5, Steps DEF DowngradeInv
<1> QED BY <1>1, <1>2, PTL DEF Spec

(* A name that has validated and then fails twice or more without a pause is  *)
(* reported, and again once per cooldown, in whatever order the handlers'     *)
(* verdicts arrive and whenever the cleanup runs.                            *)
THEOREM DowngradesAreReported == Spec => []DowngradeReported
<1>1. DowngradeInv => DowngradeReported
  <2> SUFFICES ASSUME DowngradeInv, NEW n \in Names, "DNSSECDowngrade" \in config.on,
                      NEW i \in 1..(Len(trail[n]) - 2),
                      trail[n][i].valid, \A j \in (i + 1)..Len(trail[n]) : ~trail[n][j].valid,
                      Unbroken(trail[n], i, Len(trail[n]))
               PROVE  Reported(trail[n], i)
    BY DEF DowngradeReported, Reported
  <2>1. Watched(trust[n], trail[n]) /\ Len(trail[n]) \in Nat
    BY DEF DowngradeInv, DowngradeTyped
  <2>2. i \in 1..Len(trail[n]) /\ Len(trail[n]) >= i + 2
    BY <2>1
  <2> QED BY <2>1, <2>2 DEF Watched, Failing
<1> QED BY <1>1, DowngradeInvariant, PTL

-----------------------------------------------------------------------------
(* The DNSSEC walk. Until its verdict, what a walk has found out is a fact    *)
(* about its own record and the response's signatures, whatever the caches    *)
(* held at each lookup.                                                      *)

Signatures == UNION {r.rrsigs : r \in UNION {c.answers : c \in Configs}}
Frames == [key : Records, up : Owners, todo : SUBSET Records]
Deep == {"ds", "match", "parentKeys", "parents"}
Walks ==
    [at : {"idle", "set", "sig", "keys", "try"} \union Deep,
     sets : SUBSET SUBSET Signatures, sigs : SUBSET Signatures, sig : SUBSET Signatures,
     frames : Seq(Frames), got : SUBSET Records, fill : SUBSET Records, misled : BOOLEAN]

\* A key is backed by what lookups may give, or genuine by what there is.
Backed(k) == Anchored(k, HeardKeys, HeardDS)
Genuine(k) == Anchored(k, KeysOf, DelegatedTo)
Good(g, r) == Verifies(g, r) /\ g.current /\ Backed(g.key)
GoodSet(s, r) == \E g \in s : Good(g, r)
Right(g, r) == Verifies(g, r) /\ g.current /\ Genuine(g.key)
Sure(w) == ~w.misled

\* Nothing in the zone above vouches for the key.
Exhausted(k) ==
    ~(/\ k.zone # Root /\ k \in DelegatedTo[k.zone]
      /\ \E y \in KeysOf[Above[k.zone]] : Genuine(y))

\* A lookup gave the key, and its tag is not an anchor's.
Sought(k) == k \in HeardKeys[k.zone] /\ ~AnchorTag(k)
Delegated(f) == f.up = f.key.zone /\ f.up # Root /\ f.key \in HeardDS[f.up]
Upper(f) == HeardKeys[Above[f.up]]

\* Groups that are done have a good signature; of the one at hand, the signatures
\* that are done are not right.
AtHand(w, r, s) ==
    /\ \A t \in Groups(r) \ w.sets : t = s \/ GoodSet(t, r)
    /\ w.sigs \union w.sig \subseteq s
    /\ Sure(w) => \A g \in s \ w.sigs : (w.at # "sig" /\ g \in w.sig) \/ ~Right(g, r)

SetsInv(w, r) ==
    /\ w.sets \subseteq Groups(r)
    /\ w.at = "set" => \A s \in Groups(r) \ w.sets : GoodSet(s, r)
    /\ w.at # "set" => \E s \in Groups(r) : AtHand(w, r, s)

\* The walk is about the key of one signature, which is that of the last frame.
SignerInv(w, r) ==
    /\ w.at \in {"set", "sig", "keys", "try"} => w.frames = <<>>
    /\ w.at = "set" => w.sig = {}
    /\ w.at \in {"keys", "try"} \union Deep => \E g \in Signatures : w.sig = {g}
    /\ w.at \in Deep =>
          /\ w.frames # <<>>
          /\ \A g \in w.sig : Verifies(g, r) /\ g.current /\ g.key = w.frames[Len(w.frames)].key
    /\ w.at = "try" => \A g \in w.sig : /\ w.got \subseteq HeardKeys[g.key.zone]
                                        /\ Sure(w) => KeysOf[g.key.zone] \subseteq w.got

\* A frame waits for the one on top of it, which is about a key of the name above.
Waits(f, k, sure) ==
    /\ Sought(f.key) /\ Delegated(f) /\ k \in Upper(f) /\ f.todo \subseteq Upper(f)
    /\ sure => \A y \in KeysOf[Above[f.up]] \ f.todo : y = k \/ ~Genuine(y)

TopInv(w) ==
    /\ w.at \in Deep => Sought(Top(w).key)
    /\ w.at = "ds" => w.got = {}
    /\ w.at \in {"ds", "match", "parentKeys"} => Top(w).todo = {}
    /\ w.at \in {"ds", "match"} =>
          Top(w).up = Top(w).key.zone \/ Exhausted(Top(w).key) \/ ~Sure(w)
    /\ w.at = "match" =>
          /\ Top(w).up # Root /\ w.got \subseteq HeardDS[Top(w).up]
          /\ Sure(w) => DelegatedTo[Top(w).up] \subseteq w.got
    /\ w.at \in {"parentKeys", "parents"} => Delegated(Top(w))
    /\ w.at = "parents" =>
          /\ Top(w).todo \union w.got \subseteq Upper(Top(w))
          /\ Sure(w) => \A y \in KeysOf[Above[Top(w).up]] \ (Top(w).todo \union w.got) : ~Genuine(y)

FramesInv(w) ==
    /\ \A i \in 2..Len(w.frames) : Waits(w.frames[i], w.frames[i - 1].key, Sure(w))
    /\ TopInv(w)

Sound(w, r) ==
    /\ w \in Walks /\ w.at # "idle"
    /\ Groups(r) \in SUBSET SUBSET Signatures
    /\ SetsInv(w, r) /\ SignerInv(w, r) /\ FramesInv(w)

\* Records belong to the names they are asked for, and the truth may be heard.
LEMMA RecordsInOwners ==
    /\ \A k \in Records : k.zone \in Owners
    /\ \A n \in Owners :
          /\ HeardKeys[n] = UNION KeyAnswers[n] /\ HeardDS[n] = UNION DSAnswers[n]
          /\ KeysOf[n] \subseteq HeardKeys[n] /\ HeardKeys[n] \subseteq Records
          /\ DelegatedTo[n] \subseteq HeardDS[n] /\ HeardDS[n] \subseteq Records
          /\ \A k \in HeardKeys[n] \union HeardDS[n] : k.zone = n
    /\ \A n \in Owners \ {Root} : Above[n] \in Owners
<1>1. \A n \in Owners : HeardKeys[n] = UNION KeyAnswers[n] /\ HeardDS[n] = UNION DSAnswers[n]
  BY DEF HeardKeys, HeardDS
<1>2. \A n \in Owners : \A k \in UNION (KeyAnswers[n] \union DSAnswers[n]) : k \in Records /\ k.zone = n
  BY ValidatorAssumption DEF Records
<1>3. \A n \in Owners :
        /\ \A k \in HeardKeys[n] \union HeardDS[n] : k \in Records /\ k.zone = n
        /\ KeysOf[n] \subseteq HeardKeys[n] /\ DelegatedTo[n] \subseteq HeardDS[n]
  <2> SUFFICES ASSUME NEW n \in Owners
               PROVE  /\ \A k \in HeardKeys[n] \union HeardDS[n] : k \in Records /\ k.zone = n
                      /\ KeysOf[n] \subseteq HeardKeys[n] /\ DelegatedTo[n] \subseteq HeardDS[n]
    OBVIOUS
  <2>1. KeysOf[n] \in KeyAnswers[n] /\ DelegatedTo[n] \in DSAnswers[n]
    BY ValidatorAssumption
  <2>2. \A k \in HeardKeys[n] \union HeardDS[n] : k \in UNION (KeyAnswers[n] \union DSAnswers[n])
    BY <1>1
  <2>3. \A k \in HeardKeys[n] \union HeardDS[n] : k \in Records /\ k.zone = n
    BY <1>2, <2>2
  <2>4. KeysOf[n] \subseteq HeardKeys[n] /\ DelegatedTo[n] \subseteq HeardDS[n]
    BY <1>1, <2>1
  <2> QED BY <2>3, <2>4
<1>4. \A k \in Records : k.zone \in Owners
  BY <1>2 DEF Records
<1> QED BY <1>1, <1>3, <1>4, ValidatorAssumption

\* So do those that may be heard for the name above.
LEMMA RecordsAbove ==
    ASSUME NEW n \in Owners \ {Root}
    PROVE  /\ Above[n] \in Owners /\ HeardKeys[Above[n]] \subseteq Records
           /\ \A k \in HeardKeys[Above[n]] : k.zone = Above[n]
<1>1. Above[n] \in Owners
  BY RecordsInOwners
<1> DEFINE a == Above[n]
<1>2. HeardKeys[a] \subseteq Records /\ \A k \in HeardKeys[a] : k.zone = a
  <2>1. a \in Owners
    BY <1>1
  <2> HIDE DEF a
  <2> QED BY <2>1, RecordsInOwners
<1> QED BY <1>1, <1>2

\* What is anchored has a key above it that is, or is an anchor.
LEMMA AnchoredFrom ==
    ASSUME NEW k, Genuine(k)
    PROVE  k \in KeysOf[k.zone] /\ (AnchorTag(k) \/ AnchorKey(k) \/ ~Exhausted(k))
<1>1. PICK chain \in SUBSET Records : k \in chain /\ Linked(chain, KeysOf, DelegatedTo)
  BY DEF Genuine, Anchored
<1>2. \A y \in chain : Genuine(y)
  BY <1>1 DEF Genuine, Anchored
<1>3. ASSUME ~AnchorTag(k), ~AnchorKey(k) PROVE ~Exhausted(k)
  <2>1. PICK y \in chain : k.zone # Root /\ k \in DelegatedTo[k.zone] /\ y.zone = Above[k.zone]
    BY <1>1, <1>3 DEF Linked
  <2>2. y \in KeysOf[Above[k.zone]] /\ Genuine(y)
    BY <1>1, <1>2, <2>1 DEF Linked
  <2> QED BY <2>1, <2>2 DEF Exhausted
<1> QED BY <1>1, <1>3 DEF Linked

\* What is taken for a trust anchor needs no other.
LEMMA AnchorsAreBacked ==
    ASSUME NEW k \in Records, k \in HeardKeys[k.zone], AnchorTag(k) \/ AnchorKey(k)
    PROVE  Backed(k)
<1>1. {k} \in SUBSET Records /\ k \in {k} /\ Linked({k}, HeardKeys, HeardDS)
  BY DEF Linked
<1> QED BY <1>1 DEF Backed, Anchored

\* With the key on top backed, so are those of all frames below.
LEMMA ChainBacked ==
    ASSUME NEW w \in Walks, FramesInv(w), w.frames # <<>>, Backed(Top(w).key)
    PROVE  Backed(w.frames[Len(w.frames)].key)
<1> DEFINE fs == w.frames
           n == Len(fs)
<1>1. fs \in Seq(Frames) /\ n \in Nat \ {0} /\ Top(w) = fs[1]
  BY DEF Walks, Top
<1>2. PICK chain \in SUBSET Records : fs[1].key \in chain /\ Linked(chain, HeardKeys, HeardDS)
  BY <1>1 DEF Backed, Anchored
<1> DEFINE all == chain \union {fs[i].key : i \in 1..n}
<1>3. \A i \in 1..n : fs[i] \in Frames /\ fs[i].key \in Records
  <2>1. \A i \in 1..n : fs[i] \in Frames
    BY <1>1
  <2> QED BY <2>1 DEF Frames
<1>4. ASSUME NEW i \in 2..n
      PROVE  /\ fs[i].key \in HeardKeys[fs[i].key.zone]
             /\ fs[i].key.zone # Root /\ fs[i].key \in HeardDS[fs[i].key.zone]
             /\ fs[i - 1].key.zone = Above[fs[i].key.zone] /\ fs[i - 1].key \in all
  <2>1. Sought(fs[i].key) /\ Delegated(fs[i]) /\ fs[i - 1].key \in Upper(fs[i])
    BY DEF FramesInv, Waits
  <2>2. i - 1 \in 1..n /\ i \in 1..n
    BY <1>1
  <2>3. fs[i].up \in Owners \ {Root}
    BY <1>3, <2>1, <2>2 DEF Frames, Delegated
  <2>4. fs[i - 1].key.zone = Above[fs[i].up]
    BY <2>1, <2>3, RecordsAbove DEF Upper
  <2> QED BY <2>1, <2>2, <2>4 DEF Delegated, Sought
<1>5. Linked(all, HeardKeys, HeardDS)
  <2> DEFINE Link(x, c) ==
                /\ x \in HeardKeys[x.zone]
                /\ \/ AnchorTag(x) \/ AnchorKey(x)
                   \/ x.zone # Root /\ x \in HeardDS[x.zone] /\ \E y \in c : y.zone = Above[x.zone]
  <2>0. SUFFICES ASSUME NEW x \in all PROVE Link(x, all)
    BY DEF Linked
  <2>1. ASSUME x \in chain PROVE Link(x, all)
    <3>1. Link(x, chain)
      BY <1>2, <2>1 DEF Linked
    <3> QED BY <3>1
  <2>2. ASSUME NEW i \in 2..n, x = fs[i].key PROVE Link(x, all)
    BY <1>4, <2>2
  <2>3. ASSUME NEW i \in 1..n, x = fs[i].key PROVE Link(x, all)
    <3>1. i = 1 \/ i \in 2..n
      BY <1>1
    <3>2. CASE i = 1
      BY <1>2, <2>1, <2>3, <3>2
    <3> QED BY <2>2, <2>3, <3>1, <3>2
  <2> QED BY <2>1, <2>3
<1>6. fs[n].key \in all /\ all \in SUBSET Records
  BY <1>1, <1>3
<1> HIDE DEF all
<1> QED BY <1>5, <1>6 DEF Backed, Anchored

\* Stacks of frames
LEMMA Push ==
    ASSUME NEW s \in Seq(Frames), NEW f \in Frames
    PROVE  /\ <<f>> \o s \in Seq(Frames) /\ Len(<<f>> \o s) = Len(s) + 1 /\ (<<f>> \o s)[1] = f
           /\ \A i \in 2..(Len(s) + 1) : (<<f>> \o s)[i] = s[i - 1]
           /\ <<f>> \o s # <<>> /\ Head(<<f>> \o s) = f
OBVIOUS

\* Taking the top off a stack of frames
LEMMA Pop ==
    ASSUME NEW s \in Seq(Frames), s # <<>>
    PROVE  /\ Head(s) = s[1] /\ s[1] \in Frames /\ Len(s) \in Nat \ {0}
           /\ Tail(s) \in Seq(Frames) /\ Len(Tail(s)) = Len(s) - 1
           /\ \A i \in 1..(Len(s) - 1) : Tail(s)[i] = s[i + 1]
           /\ Len(s) = 1 => Tail(s) = <<>>
           /\ Len(s) # 1 => Tail(s) # <<>> /\ Head(Tail(s)) = s[2]
<1>1. /\ Head(s) = s[1] /\ s[1] \in Frames /\ Len(s) \in Nat \ {0}
      /\ Tail(s) \in Seq(Frames) /\ Len(Tail(s)) = Len(s) - 1
      /\ \A i \in 1..(Len(s) - 1) : Tail(s)[i] = s[i + 1]
  OBVIOUS
<1>2. ASSUME Len(s) = 1 PROVE Tail(s) = <<>>
  <2>1. Len(Tail(s)) = 0
    BY <1>1, <1>2
  <2>2. Len(Tail(s)) \notin Nat \ {0}
    BY <2>1
  <2> QED BY <1>1, <2>2, EmptySeq, Zenon
<1>3. ASSUME Len(s) # 1 PROVE Tail(s) # <<>> /\ Head(Tail(s)) = s[2]
  <2>1. Tail(s) # <<>>
    <3>1. Len(Tail(s)) # 0
      BY <1>1, <1>3
    <3> QED BY <3>1, EmptySeq, Zenon
  <2>2. 1 \in 1..(Len(s) - 1)
    BY <1>1, <1>3
  <2>3. Tail(s)[1] = s[2]
    BY <1>1, <2>2
  <2> QED BY <1>1, <2>1, <2>3
<1> QED BY <1>1, <1>2, <1>3

\* The first index, or a later one, whose predecessor is an index too
LEMMA FirstOrLater ==
    ASSUME NEW n \in Nat \ {0}
    PROVE  /\ n = 1 \/ n \in 2..n
           /\ \A i \in 2..n : i \in 1..n /\ (i - 1 = 1 \/ i - 1 \in 2..n)
OBVIOUS

\* The signature at hand is good: on to the next RRset.
LEMMA TrustedSound ==
    ASSUME NEW w, NEW r, Sound(w, r), w.at # "set", \E g \in w.sig : Good(g, r),
           NEW v \in Walks, v.sets = w.sets
    PROVE  Sound(Trusted(v), r)
<1>1. v \in Walks
  OBVIOUS
<1>2. /\ Trusted(v) \in Walks /\ Trusted(v).at = "set" /\ Trusted(v).sets = w.sets
      /\ Trusted(v).frames = <<>> /\ Trusted(v).sig = {}
  <2>1. <<>> \in Seq(Frames) /\ {} \in SUBSET Signatures /\ {} \in SUBSET Records
    OBVIOUS
  <2>2. Trusted(v) \in Walks
    BY <1>1, <2>1 DEF Trusted, Walks
  <2>3. /\ Trusted(v).at = "set" /\ Trusted(v).sets = w.sets
        /\ Trusted(v).frames = <<>> /\ Trusted(v).sig = {}
    BY <1>1 DEF Trusted, Walks
  <2> QED BY <2>2, <2>3
<1>3. SetsInv(Trusted(v), r)
  BY <1>2 DEF Sound, SetsInv, AtHand, GoodSet
<1>4. SignerInv(Trusted(v), r) /\ FramesInv(Trusted(v))
  BY <1>2 DEF SignerInv, FramesInv, TopInv, Deep
<1> QED BY <1>2, <1>3, <1>4 DEF Sound

\* The key on top is trusted: so is the signature.
LEMMA TopTrusted ==
    ASSUME NEW w, NEW r, Sound(w, r), w.at \in Deep, Backed(Top(w).key)
    PROVE  Sound(Trusted(w), r)
<1>1. w.frames # <<>> /\ w \in Walks /\ FramesInv(w)
  BY DEF Sound, SignerInv
<1>2. Backed(w.frames[Len(w.frames)].key)
  BY <1>1, ChainBacked
<1>3. \E g \in w.sig : Good(g, r)
  BY <1>2 DEF Sound, SignerInv, Good
<1>4. w.at # "set"
  BY DEF Deep
<1> QED BY <1>1, <1>3, <1>4, TrustedSound

\* The key on top is given up: the frame below, or the signature, loses it.
LEMMA DistrustedSound ==
    ASSUME NEW w, NEW r, Sound(w, r), w.at \in Deep, w.got = {}, Sure(w) => ~Genuine(Top(w).key)
    PROVE  Sound(Distrusted(w), r)
<1> DEFINE d == Distrusted(w)
           fs == w.frames
<1>1. /\ w \in Walks /\ fs # <<>> /\ fs \in Seq(Frames) /\ Top(w) = fs[1]
      /\ Len(fs) \in Nat \ {0} /\ SetsInv(w, r) /\ SignerInv(w, r) /\ FramesInv(w)
      /\ Groups(r) \in SUBSET SUBSET Signatures
  BY Pop DEF Sound, SignerInv, Walks, Top
<1>2. /\ d.frames = Tail(fs) /\ d.sets = w.sets /\ d.sigs = w.sigs /\ d.sig = w.sig
      /\ d.misled = w.misled /\ d.got = {} /\ d.at = IF Len(fs) = 1 THEN "sig" ELSE "parents"
      /\ d \in Walks
  <2>1. Tail(fs) \in Seq(Frames)
    BY <1>1, Pop
  <2> QED BY <1>1, <2>1 DEF Distrusted, Walks, Deep
<1>3. PICK g \in Signatures : w.sig = {g} /\ Verifies(g, r) /\ g.current /\ g.key = fs[Len(fs)].key
  BY <1>1 DEF SignerInv
<1>4. PICK s \in Groups(r) : AtHand(w, r, s)
  BY <1>1 DEF SetsInv, Deep
<1> HIDE DEF d, fs
<1>5. ASSUME Len(fs) = 1 PROVE Sound(d, r)
  <2>1. d.at = "sig" /\ d.frames = <<>>
    BY <1>1, <1>2, <1>5, Pop
  <2>2. Sure(w) => ~Right(g, r)
    BY <1>1, <1>3, <1>5 DEF Right
  <2>3. SetsInv(d, r)
    <3>1. Sure(d) => \A h \in s \ d.sigs : ~Right(h, r)
      BY <1>2, <1>3, <1>4, <2>2 DEF Sure, AtHand
    <3>2. AtHand(d, r, s)
      BY <1>2, <1>4, <3>1 DEF AtHand
    <3>3. d.at # "set" /\ d.sets \subseteq Groups(r)
      BY <1>1, <1>2, <2>1 DEF SetsInv
    <3> QED BY <3>2, <3>3, Zenon DEF SetsInv
  <2>4. d.at # "idle"
    BY <2>1
  <2>5. SignerInv(d, r)
    BY <2>1 DEF SignerInv, Deep
  <2>6. FramesInv(d)
    <3>1. \A i : i \notin 2..Len(d.frames)
      BY <2>1
    <3>2. d.at \notin Deep /\ d.at \notin {"ds", "match"} /\ d.at \notin {"ds", "match", "parentKeys"} /\ d.at # "match" /\ d.at # "ds"
          /\ d.at \notin {"parentKeys", "parents"} /\ d.at # "parents"
      BY <2>1 DEF Deep
    <3> QED BY <3>1, <3>2, Zenon DEF FramesInv, TopInv
  <2> QED BY <1>1, <1>2, <2>3, <2>4, <2>5, <2>6, Zenon DEF Sound
<1>6. ASSUME Len(fs) # 1 PROVE Sound(d, r)
  <2>1. /\ d.at = "parents" /\ Len(d.frames) = Len(fs) - 1 /\ d.frames # <<>>
        /\ \A i \in 1..(Len(fs) - 1) : d.frames[i] = fs[i + 1]
        /\ Top(d) = fs[2] /\ d.frames[Len(d.frames)] = fs[Len(fs)]
    <3>1. Len(fs) \in Nat \ {0} /\ Len(fs) # 1 /\ fs \in Seq(Frames) /\ fs # <<>> /\ d.frames = Tail(fs)
      BY <1>1, <1>2, <1>6
    <3>2. /\ Tail(fs) # <<>> /\ Len(Tail(fs)) = Len(fs) - 1 /\ Head(Tail(fs)) = fs[2]
          /\ \A i \in 1..(Len(fs) - 1) : Tail(fs)[i] = fs[i + 1]
      BY <3>1, Pop
    <3>3. Tail(fs)[Len(Tail(fs))] = fs[Len(fs)]
      BY <3>1, <3>2
    <3> QED BY <1>2, <1>6, <3>1, <3>2, <3>3 DEF Top
  <2>2. SetsInv(d, r)
    <3>1. AtHand(d, r, s)
      BY <1>2, <1>4, <2>1 DEF AtHand, Sure
    <3>2. d.at # "set" /\ d.sets \subseteq Groups(r)
      BY <1>1, <1>2, <2>1 DEF SetsInv
    <3> QED BY <3>1, <3>2, Zenon DEF SetsInv
  <2>3. SignerInv(d, r)
    BY <1>2, <1>3, <2>1 DEF SignerInv, Deep
  <2>4. Waits(fs[2], fs[1].key, Sure(w))
    <3>1. Len(fs) \in Nat \ {0} /\ Len(fs) # 1
      BY <1>1, <1>6
    <3>2. 2 \in 2..Len(fs) /\ 2 - 1 = 1
      <4> DEFINE n == Len(fs)
      <4>1. n \in Nat \ {0} /\ n # 1
        BY <3>1
      <4>2. 2 \in 2..n
        <5> HIDE DEF n
        <5> QED BY <4>1
      <4> QED BY <4>2
    <3> QED BY <1>1, <3>2 DEF FramesInv, fs
  <2>5. FramesInv(d)
    <3>1. ASSUME NEW i \in 2..Len(d.frames)
          PROVE  Waits(d.frames[i], d.frames[i - 1].key, Sure(d))
      <4>1. /\ i + 1 \in 2..Len(fs) /\ d.frames[i] = fs[i + 1]
            /\ d.frames[i - 1] = fs[(i + 1) - 1]
        BY <1>1, <2>1
      <4>2. Waits(fs[i + 1], fs[(i + 1) - 1].key, Sure(w))
        BY <1>1, <4>1 DEF FramesInv, fs
      <4> QED BY <1>2, <4>1, <4>2 DEF Sure
    <3>2. Sure(d) => \A y \in KeysOf[Above[Top(d).up]] \ (Top(d).todo \union d.got) : ~Genuine(y)
      BY <1>1, <1>2, <2>1, <2>4 DEF Sure, Waits
    <3>3. Top(d).todo \union d.got \subseteq Upper(Top(d)) /\ Delegated(Top(d)) /\ Sought(Top(d).key)
      BY <1>2, <2>1, <2>4 DEF Waits
    <3>4. d.at = "parents" /\ d.at \notin {"ds", "match"} /\ d.at \notin {"ds", "match", "parentKeys"}
          /\ d.at # "match" /\ d.at # "ds"
      BY <2>1
    <3> QED BY <3>1, <3>2, <3>3, <3>4, Zenon DEF FramesInv, TopInv
  <2>6. d.at # "idle"
    BY <2>1
  <2> QED BY <1>1, <1>2, <2>2, <2>3, <2>5, <2>6, Zenon DEF Sound
<1> QED BY <1>5, <1>6 DEF d

\* A walk over the response's groups of signatures starts, and goes from one to the next.
LEMMA StartSound ==
    ASSUME NEW r, Groups(r) \in SUBSET SUBSET Signatures
    PROVE  Sound([Idle EXCEPT !.at = "set", !.sets = Groups(r)], r)
<1> DEFINE v == [Idle EXCEPT !.at = "set", !.sets = Groups(r)]
<1>1. <<>> \in Seq(Frames)
  OBVIOUS
<1>2. v \in Walks /\ v.at = "set" /\ v.sets = Groups(r) /\ v.sig = {} /\ v.frames = <<>>
  <2>1. v \in Walks
    BY <1>1 DEF Walks, Idle
  <2>2. v.at = "set" /\ v.sets = Groups(r) /\ v.sig = {} /\ v.frames = <<>>
    BY DEF Idle
  <2> QED BY <2>1, <2>2
<1> HIDE DEF v
<1>3. SetsInv(v, r) /\ SignerInv(v, r)
  BY <1>2 DEF SetsInv, SignerInv, Deep
<1>4. FramesInv(v)
  BY <1>2 DEF FramesInv, TopInv, Deep
<1> QED BY <1>2, <1>3, <1>4 DEF Sound, v

\* The next group is taken up, with all its signatures to be tried.
LEMMA NextSetSound ==
    ASSUME NEW w, NEW r, Sound(w, r), w.at = "set", NEW s \in w.sets
    PROVE  Sound([w EXCEPT !.at = "sig", !.sets = @ \ {s}, !.sigs = s], r)
<1> DEFINE v == [w EXCEPT !.at = "sig", !.sets = @ \ {s}, !.sigs = s]
<1>1. w \in Walks /\ s \in Groups(r) /\ SetsInv(w, r) /\ SignerInv(w, r) /\ Groups(r) \in SUBSET SUBSET Signatures
  BY DEF Sound, SetsInv
<1>2. /\ v \in Walks /\ v.at = "sig" /\ v.sets = w.sets \ {s} /\ v.sigs = s
      /\ v.sig = {} /\ v.frames = <<>>
  BY <1>1 DEF Walks, SignerInv
<1> HIDE DEF v
<1>3. AtHand(v, r, s)
  BY <1>1, <1>2 DEF AtHand, SetsInv
<1>4. SetsInv(v, r)
  BY <1>1, <1>2, <1>3 DEF SetsInv
<1>5. SignerInv(v, r)
  BY <1>2 DEF SignerInv, Deep
<1>6. FramesInv(v)
  BY <1>2 DEF FramesInv, TopInv, Deep
<1> QED BY <1>1, <1>2, <1>4, <1>5, <1>6 DEF Sound, v

\* The next signature of the RRset is taken up.
LEMMA NextSigSound ==
    ASSUME NEW w, NEW r, Sound(w, r), w.at = "sig", NEW g \in w.sigs
    PROVE  Sound([w EXCEPT !.at = "keys", !.sigs = @ \ {g}, !.sig = {g}], r)
<1> DEFINE v == [w EXCEPT !.at = "keys", !.sigs = @ \ {g}, !.sig = {g}]
<1>1. w \in Walks /\ SetsInv(w, r) /\ SignerInv(w, r) /\ Groups(r) \in SUBSET SUBSET Signatures
  BY DEF Sound
<1>2. /\ v \in Walks /\ v.at = "keys" /\ v.sets = w.sets /\ v.sigs = w.sigs \ {g}
      /\ v.sig = {g} /\ v.frames = <<>> /\ v.misled = w.misled /\ g \in Signatures
  <2>1. w.sigs \in SUBSET Signatures /\ w.frames = <<>>
    BY <1>1 DEF Walks, SignerInv
  <2>2. g \in Signatures /\ {g} \in SUBSET Signatures /\ w.sigs \ {g} \in SUBSET Signatures
    BY <2>1
  <2>3. v \in Walks
    BY <1>1, <2>2 DEF Walks
  <2>4. /\ v.at = "keys" /\ v.sets = w.sets /\ v.sigs = w.sigs \ {g}
        /\ v.sig = {g} /\ v.frames = w.frames /\ v.misled = w.misled
    BY <1>1 DEF Walks
  <2> QED BY <2>1, <2>2, <2>3, <2>4
<1>3. PICK s \in Groups(r) : AtHand(w, r, s)
  BY <1>1 DEF SetsInv
<1> HIDE DEF v
<1>4. AtHand(v, r, s)
  BY <1>2, <1>3 DEF AtHand, Sure
<1>5. SetsInv(v, r)
  BY <1>1, <1>2, <1>4 DEF SetsInv
<1>6. SignerInv(v, r)
  BY <1>2 DEF SignerInv, Deep
<1>7. FramesInv(v)
  BY <1>2 DEF FramesInv, TopInv, Deep
<1> QED BY <1>1, <1>2, <1>5, <1>6, <1>7 DEF Sound, v

\* What the two ends of a walk mean.
LEMMA EndsSound ==
    ASSUME NEW w, NEW r, Sound(w, r)
    PROVE  /\ w.at = "set" /\ w.sets = {} => \A s \in Groups(r) : GoodSet(s, r)
           /\ w.at = "sig" /\ w.sigs = {} /\ Sure(w) => ~\A s \in Groups(r) : \E g \in s : Right(g, r)
BY DEF Sound, SetsInv, AtHand, GoodSet

\* With the same signature at hand, what is known of the RRsets stays.
LEMMA SameSets ==
    ASSUME NEW w, NEW r, SetsInv(w, r), NEW v, w.at \notin {"set", "sig"}, v.at \notin {"set", "sig"},
           v.sets = w.sets, v.sigs = w.sigs, v.sig = w.sig, (w.misled => v.misled)
    PROVE  SetsInv(v, r)
<1>1. PICK s \in Groups(r) : AtHand(w, r, s)
  BY DEF SetsInv
<1>2. AtHand(v, r, s)
  BY <1>1 DEF AtHand, Sure
<1> QED BY <1>2 DEF SetsInv

\* A lookup has given what it may give, and it shows when this lacks the truth.
Fetched(w, v, next, truth, heard) ==
    /\ v \in Walks /\ v.at = next /\ v.frames = w.frames
    /\ v.sets = w.sets /\ v.sigs = w.sigs /\ v.sig = w.sig
    /\ v.got \union v.fill \subseteq heard
    /\ (w.misled => v.misled) /\ (Sure(v) => truth \subseteq v.got)

\* The keys of the signer have come, or some of them, or none.
LEMMA KeysSound ==
    ASSUME NEW w, NEW r, Sound(w, r), w.at = "keys", NEW g \in w.sig,
           NEW v, Fetched(w, v, "try", KeysOf[g.key.zone], HeardKeys[g.key.zone])
    PROVE  Sound(v, r)
<1>1. w \in Walks /\ SetsInv(w, r) /\ SignerInv(w, r) /\ Groups(r) \in SUBSET SUBSET Signatures
  BY DEF Sound
<1>2. w.sig = {g} /\ w.frames = <<>>
  BY <1>1 DEF SignerInv
<1>3. SetsInv(v, r)
  BY <1>1, SameSets DEF Fetched
<1>4. SignerInv(v, r)
  BY <1>1, <1>2 DEF SignerInv, Deep, Fetched
<1>5. FramesInv(v)
  BY <1>2 DEF FramesInv, TopInv, Fetched, Deep
<1> QED BY <1>1, <1>3, <1>4, <1>5 DEF Sound, Fetched

\* The signature is out of date, or its key is not to be had.
LEMMA TryFails ==
    ASSUME NEW w, NEW r, Sound(w, r), w.at = "try", NEW g \in w.sig,
           ~(Verifies(g, r) /\ g.current /\ g.key \in w.got)
    PROVE  Sound([w EXCEPT !.at = "sig", !.got = {}], r)
<1> DEFINE v == [w EXCEPT !.at = "sig", !.got = {}]
<1>1. w \in Walks /\ SetsInv(w, r) /\ SignerInv(w, r) /\ Groups(r) \in SUBSET SUBSET Signatures
  BY DEF Sound
<1>2. /\ v \in Walks /\ v.at = "sig" /\ v.sets = w.sets /\ v.sigs = w.sigs
      /\ v.sig = w.sig /\ v.frames = <<>> /\ v.misled = w.misled
  BY <1>1 DEF Walks, SignerInv
<1> HIDE DEF v
<1>3. w.sig = {g}
  BY <1>1 DEF SignerInv
<1>4. Sure(w) => ~Right(g, r)
  <2> SUFFICES ASSUME Sure(w), Right(g, r) PROVE FALSE
    OBVIOUS
  <2>1. g.key \in KeysOf[g.key.zone]
    BY AnchoredFrom DEF Right
  <2> QED BY <1>1, <2>1 DEF SignerInv, Right
<1>5. PICK s \in Groups(r) : AtHand(w, r, s)
  BY <1>1 DEF SetsInv
<1>6. AtHand(v, r, s)
  BY <1>2, <1>3, <1>4, <1>5 DEF AtHand, Sure
<1>7. SetsInv(v, r)
  BY <1>1, <1>2, <1>6 DEF SetsInv
<1>8. SignerInv(v, r)
  BY <1>2 DEF SignerInv, Deep
<1>9. FramesInv(v)
  BY <1>2 DEF FramesInv, TopInv, Deep
<1> QED BY <1>1, <1>2, <1>7, <1>8, <1>9 DEF Sound, v

\* The frames below the top are left alone.
LEMMA TopSound ==
    ASSUME NEW w, NEW r, Sound(w, r), w.at \in Deep,
           NEW v \in Walks, v.at \in Deep, v.sets = w.sets, v.sigs = w.sigs, v.sig = w.sig,
           (w.misled => v.misled), Len(v.frames) = Len(w.frames),
           v.frames[1].key = w.frames[1].key,
           \A i \in 2..Len(w.frames) : v.frames[i] = w.frames[i],
           TopInv(v)
    PROVE  Sound(v, r)
<1>1. /\ w \in Walks /\ w.frames # <<>> /\ w.frames \in Seq(Frames) /\ Len(w.frames) \in Nat \ {0}
      /\ SetsInv(w, r) /\ SignerInv(w, r) /\ FramesInv(w) /\ Groups(r) \in SUBSET SUBSET Signatures
  BY Pop DEF Sound, SignerInv, Walks
<1>2. v.at \notin {"set", "sig", "idle", "keys", "try"} /\ w.at \notin {"set", "sig"}
  BY DEF Deep
<1>3. SetsInv(v, r)
  BY <1>1, <1>2, SameSets
<1>4. v.frames # <<>> /\ v.frames[Len(v.frames)].key = w.frames[Len(w.frames)].key
  <2>1. Len(w.frames) = 1 \/ Len(w.frames) \in 2..Len(w.frames)
    BY <1>1, FirstOrLater, Zenon
  <2>2. v.frames # <<>>
    BY <1>1
  <2> QED BY <2>1, <2>2
<1>5. SignerInv(v, r)
  <2>1. \E g \in Signatures : w.sig = {g}
    BY <1>1 DEF SignerInv
  <2>2. \A g \in w.sig : Verifies(g, r) /\ g.current /\ g.key = w.frames[Len(w.frames)].key
    BY <1>1 DEF SignerInv
  <2> QED BY <1>2, <1>4, <2>1, <2>2 DEF SignerInv
<1>6. ASSUME NEW i \in 2..Len(v.frames)
      PROVE  Waits(v.frames[i], v.frames[i - 1].key, Sure(v))
  <2>1. Waits(w.frames[i], w.frames[i - 1].key, Sure(w)) /\ v.frames[i] = w.frames[i]
    BY <1>1 DEF FramesInv
  <2>2. v.frames[i - 1].key = w.frames[i - 1].key
    <3>1. i - 1 = 1 \/ i - 1 \in 2..Len(w.frames)
      BY <1>1
    <3> QED BY <3>1
  <2>3. Sure(v) => Sure(w)
    BY DEF Sure
  <2> QED BY <2>1, <2>2, <2>3 DEF Waits
<1>7. FramesInv(v)
  BY <1>6 DEF FramesInv
<1> QED BY <1>1, <1>2, <1>3, <1>5, <1>7, Zenon DEF Sound

\* A frame for another key is put on top of those that wait for it.
LEMMA PushSound ==
    ASSUME NEW w, NEW r, Sound(w, r), w.at \notin {"set", "sig"},
           NEW k \in Records, Sought(k), NEW fs \in Seq(Frames), NEW v \in Walks,
           v.at = "ds", v.sets = w.sets, v.sigs = w.sigs, v.sig = w.sig, v.misled = w.misled,
           v.got = {}, v.frames = <<Frame(k)>> \o fs,
           \E g \in Signatures : w.sig = {g},
           fs = <<>> => \A g \in w.sig : Verifies(g, r) /\ g.current /\ g.key = k,
           fs # <<>> => /\ Waits(fs[1], k, Sure(w))
                        /\ \A g \in w.sig : Verifies(g, r) /\ g.current /\ g.key = fs[Len(fs)].key,
           \A i \in 2..Len(fs) : Waits(fs[i], fs[i - 1].key, Sure(w))
    PROVE  Sound(v, r)
<1>1. w \in Walks /\ SetsInv(w, r) /\ Groups(r) \in SUBSET SUBSET Signatures
  BY DEF Sound
<1>2. Frame(k) \in Frames /\ Frame(k).key = k /\ Frame(k).up = k.zone /\ Frame(k).todo = {}
  BY RecordsInOwners DEF Frame, Frames
<1>3. /\ Len(v.frames) = Len(fs) + 1 /\ v.frames[1] = Frame(k)
      /\ \A i \in 2..(Len(fs) + 1) : v.frames[i] = fs[i - 1]
      /\ v.frames # <<>> /\ Top(v) = Frame(k) /\ Len(fs) \in Nat
  BY <1>2, Push DEF Top
<1>4. SetsInv(v, r)
  BY <1>1, SameSets
<1>5. \A g \in v.sig : Verifies(g, r) /\ g.current /\ g.key = v.frames[Len(v.frames)].key
  <2>1. CASE fs = <<>>
    BY <1>2, <1>3, <2>1
  <2>2. CASE fs # <<>>
    <3>1. Len(fs) + 1 \in 2..(Len(fs) + 1) /\ (Len(fs) + 1) - 1 = Len(fs)
      BY <2>2, Pop
    <3>2. v.frames[Len(v.frames)] = fs[Len(fs)]
      BY <1>3, <3>1
    <3> QED BY <2>2, <3>2
  <2> QED BY <2>1, <2>2
<1>6. SignerInv(v, r)
  BY <1>3, <1>5 DEF SignerInv
<1>7. ASSUME NEW i \in 2..Len(v.frames)
      PROVE  Waits(v.frames[i], v.frames[i - 1].key, Sure(v))
  <2>1. Sure(v) = Sure(w)
    BY DEF Sure
  <2>2. CASE i = 2
    <3>1. 2 \in 2..(Len(fs) + 1) /\ 2 - 1 = 1 /\ Len(fs) # 0
      BY <1>3, <2>2
    <3>2. v.frames[2] = fs[1] /\ v.frames[1].key = k /\ fs # <<>>
      BY <1>2, <1>3, <3>1
    <3> QED BY <2>1, <2>2, <3>1, <3>2
  <2>3. CASE i # 2
    <3>1. i \in 2..(Len(fs) + 1) /\ i - 1 \in 2..(Len(fs) + 1) /\ i - 1 \in 2..Len(fs)
      BY <1>3, <2>3
    <3>2. v.frames[i] = fs[i - 1] /\ v.frames[i - 1] = fs[(i - 1) - 1]
      BY <1>3, <3>1
    <3> QED BY <2>1, <3>1, <3>2
  <2> QED BY <2>2, <2>3
<1>8. TopInv(v)
  <2>1. Top(v).todo = {} /\ Top(v).up = Top(v).key.zone /\ Sought(Top(v).key)
    BY <1>2, <1>3
  <2>2. v.at \notin {"match", "parentKeys", "parents"}
    OBVIOUS
  <2> QED BY <2>1, <2>2, Zenon DEF TopInv
<1>9. FramesInv(v)
  BY <1>7, <1>8 DEF FramesInv
<1> QED BY <1>1, <1>4, <1>6, <1>9 DEF Sound

\* The signer's keys include the signature's: it is trusted at once, or walks up.
LEMMA TrySound ==
    ASSUME NEW w, NEW r, Sound(w, r), w.at = "try", NEW g \in w.sig, Verifies(g, r), g.current, g.key \in w.got
    PROVE  Sound(Call(w, g.key), r)
<1>1. w \in Walks /\ SignerInv(w, r) /\ g.key \in Records /\ g.key \in HeardKeys[g.key.zone]
  BY DEF Sound, Walks, SignerInv
<1>2. w.sig = {g} /\ g \in Signatures /\ w.frames = <<>>
  BY <1>1 DEF SignerInv
<1>3. CASE AnchorTag(g.key)
  <2>1. Good(g, r)
    BY <1>1, <1>3, AnchorsAreBacked DEF Good
  <2>2. Sound(Trusted(w), r)
    BY <1>1, <2>1, TrustedSound
  <2> QED BY <1>3, <2>2 DEF Call
<1>4. CASE ~AnchorTag(g.key)
  <2> DEFINE v == [w EXCEPT !.at = "ds", !.frames = <<Frame(g.key)>> \o @, !.got = {}]
  <2>1. <<>> \in Seq(Frames) /\ Frame(g.key) \in Frames
    BY <1>1, RecordsInOwners DEF Frame, Frames
  <2>2. <<Frame(g.key)>> \o <<>> \in Seq(Frames)
    BY <2>1, Push
  <2>3. /\ v \in Walks /\ v.at = "ds" /\ v.sets = w.sets /\ v.sigs = w.sigs /\ v.sig = w.sig
        /\ v.misled = w.misled /\ v.got = {} /\ v.frames = <<Frame(g.key)>> \o <<>>
    <3>1. v \in Walks
      BY <1>1, <1>2, <2>2 DEF Walks, Deep
    <3>2. /\ v.at = "ds" /\ v.sets = w.sets /\ v.sigs = w.sigs /\ v.sig = w.sig
          /\ v.misled = w.misled /\ v.got = {} /\ v.frames = <<Frame(g.key)>> \o <<>>
      BY <1>1, <1>2 DEF Walks
    <3> QED BY <3>1, <3>2
  <2> HIDE DEF v
  <2>4. \A i \in 2..Len(<<>>) : FALSE
    OBVIOUS
  <2>5. Sound(v, r)
    <3>1. /\ Sound(w, r) /\ w.at \notin {"set", "sig"} /\ g.key \in Records /\ w.sig = {g}
          /\ g \in Signatures /\ \A x \in w.sig : Verifies(x, r) /\ x.current /\ x.key = g.key
          /\ Sought(g.key)
      BY <1>1, <1>2, <1>4 DEF Sought
    <3> DEFINE fs == <<>>
    <3>2. /\ fs \in Seq(Frames) /\ fs = <<>> /\ \A i \in 2..Len(fs) : FALSE
          /\ v.frames = <<Frame(g.key)>> \o fs
      BY <2>1, <2>3, <2>4
    <3> HIDE DEF fs
    <3> QED BY <2>3, <3>1, <3>2, PushSound
  <2> QED BY <1>4, <2>5 DEF Call, v
<1> QED BY <1>3, <1>4

\* Replacing the top of a stack
LEMMA Retop ==
    ASSUME NEW s \in Seq(Frames), s # <<>>, NEW f \in Frames
    PROVE  /\ <<f>> \o Tail(s) \in Seq(Frames) /\ Len(<<f>> \o Tail(s)) = Len(s)
           /\ (<<f>> \o Tail(s))[1] = f /\ Head(<<f>> \o Tail(s)) = f
           /\ \A i \in 2..Len(s) : (<<f>> \o Tail(s))[i] = s[i]
<1>1. /\ Tail(s) \in Seq(Frames) /\ Len(Tail(s)) = Len(s) - 1 /\ Len(s) \in Nat \ {0}
      /\ \A i \in 1..(Len(s) - 1) : Tail(s)[i] = s[i + 1]
  BY Pop
<1>2. /\ <<f>> \o Tail(s) \in Seq(Frames) /\ Len(<<f>> \o Tail(s)) = Len(Tail(s)) + 1
      /\ (<<f>> \o Tail(s))[1] = f /\ Head(<<f>> \o Tail(s)) = f
      /\ \A i \in 2..(Len(Tail(s)) + 1) : (<<f>> \o Tail(s))[i] = Tail(s)[i - 1]
  BY <1>1, Push
<1>3. ASSUME NEW i \in 2..Len(s) PROVE (<<f>> \o Tail(s))[i] = s[i]
  <2>1. i \in 2..(Len(Tail(s)) + 1) /\ i - 1 \in 1..(Len(s) - 1) /\ (i - 1) + 1 = i
    BY <1>1
  <2> QED BY <1>1, <1>2, <2>1
<1> QED BY <1>1, <1>2, <1>3

\* A walk up the DS chain has a frame on top.
LEMMA TopIsFrame ==
    ASSUME NEW w, NEW r, Sound(w, r), w.at \in Deep
    PROVE  /\ w \in Walks /\ w.frames \in Seq(Frames) /\ w.frames # <<>>
           /\ Top(w) = w.frames[1] /\ Top(w) \in Frames /\ Len(w.frames) \in Nat \ {0}
           /\ TopInv(w)
BY Pop DEF Sound, SignerInv, FramesInv, Walks, Top

\* Nothing came of the DS records at hand: those of the zone above are next.
LEMMA NextNameSound ==
    ASSUME NEW w, NEW r, Sound(w, r), w.at \in Deep, Top(w).up # Root, w.fill = {},
           Sure(w) => Exhausted(Top(w).key)
    PROVE  Sound(NextName(w), r)
<1> DEFINE f == [Top(w) EXCEPT !.up = Above[Top(w).up], !.todo = {}]
           v == NextName(w)
<1>1. /\ w \in Walks /\ w.frames \in Seq(Frames) /\ w.frames # <<>>
      /\ Top(w) = w.frames[1] /\ Top(w) \in Frames /\ Len(w.frames) \in Nat \ {0}
  BY TopIsFrame
<1>2. f \in Frames /\ f.key = Top(w).key /\ f.todo = {}
  <2>1. Above[Top(w).up] \in Owners
    BY <1>1, RecordsInOwners DEF Frames
  <2> QED BY <1>1, <2>1 DEF Frames
<1> HIDE DEF f
<1>3. /\ <<f>> \o Tail(w.frames) \in Seq(Frames) /\ Len(<<f>> \o Tail(w.frames)) = Len(w.frames)
      /\ (<<f>> \o Tail(w.frames))[1] = f /\ Head(<<f>> \o Tail(w.frames)) = f
      /\ \A i \in 2..Len(w.frames) : (<<f>> \o Tail(w.frames))[i] = w.frames[i]
  BY <1>1, <1>2, Retop
<1>4. /\ v \in Walks /\ v.at = "ds" /\ v.sets = w.sets /\ v.sigs = w.sigs /\ v.sig = w.sig
      /\ v.misled = w.misled /\ v.got = {} /\ v.frames = <<f>> \o Tail(w.frames)
  <2>1. v = [[w EXCEPT !.frames = <<f>> \o Tail(@)] EXCEPT !.at = "ds", !.got = {}]
    BY DEF NextName, WithTop, f
  <2>2. v \in Walks
    <3> DEFINE fs == <<f>> \o Tail(w.frames)
               u == [w EXCEPT !.frames = fs]
    <3>1. fs \in Seq(Frames) /\ v = [u EXCEPT !.at = "ds", !.got = {}]
      BY <1>3, <2>1
    <3> HIDE DEF fs
    <3>2. u \in Walks
      BY <1>1, <3>1 DEF Walks
    <3> HIDE DEF u, v
    <3> QED BY <3>1, <3>2 DEF Walks, Deep
  <2>3. /\ v.at = "ds" /\ v.sets = w.sets /\ v.sigs = w.sigs /\ v.sig = w.sig
        /\ v.misled = w.misled /\ v.got = {} /\ v.frames = <<f>> \o Tail(w.frames)
    BY <1>1, <2>1 DEF Walks
  <2> QED BY <2>2, <2>3
<1> HIDE DEF v
<1>5. TopInv(v)
  <2>0. Sought(Top(w).key)
    BY TopIsFrame DEF TopInv
  <2>1. Top(v) = f
    BY <1>3, <1>4 DEF Top
  <2>2. Top(v).up = Top(v).key.zone \/ Exhausted(Top(v).key) \/ ~Sure(v)
    BY <1>2, <1>4, <2>1 DEF Sure
  <2>3. Top(v).todo = {} /\ v.at \notin {"match", "parentKeys", "parents"}
    BY <1>2, <1>4, <2>1
  <2>4. Sought(Top(v).key)
    BY <1>2, <2>0, <2>1
  <2> QED BY <1>4, <2>2, <2>3, <2>4, Zenon DEF TopInv
<1>6. v.at \in Deep
  BY <1>4 DEF Deep
<1>7. Sound(v, r)
  BY <1>1, <1>2, <1>3, <1>4, <1>5, <1>6, TopSound
<1> QED BY <1>7 DEF v

\* At the root, the key on top is an anchor or is given up.
LEMMA AtRootSound ==
    ASSUME NEW w, NEW r, Sound(w, r), w.at = "ds", Top(w).up = Root
    PROVE  Sound(IF AnchorKey(Top(w).key) THEN Trusted(w) ELSE Distrusted(w), r)
<1>1. w.at \in Deep /\ Top(w).key \in Records /\ w.got = {} /\ TopInv(w) /\ Sought(Top(w).key)
  BY TopIsFrame DEF Deep, Frames, TopInv
<1>2. CASE AnchorKey(Top(w).key)
  <2>1. Backed(Top(w).key)
    BY <1>1, <1>2, AnchorsAreBacked DEF Sought
  <2>2. Sound(Trusted(w), r)
    BY <1>1, <2>1, TopTrusted
  <2> QED BY <1>2, <2>2
<1>3. CASE ~AnchorKey(Top(w).key)
  <2>1. Sure(w) => Exhausted(Top(w).key)
    BY <1>1 DEF TopInv, Exhausted
  <2>2. Sure(w) => ~Genuine(Top(w).key)
    BY <1>1, <1>3, <2>1, AnchoredFrom DEF Sought
  <2>3. Sound(Distrusted(w), r)
    BY <1>1, <2>2, DistrustedSound
  <2> QED BY <1>3, <2>3
<1> QED BY <1>2, <1>3

\* A lookup for the key on top, or none: the frames stay as they are.
LEMMA SameFrames ==
    ASSUME NEW w, NEW r, Sound(w, r), w.at \in Deep,
           NEW v \in Walks, v.at \in Deep, v.sets = w.sets, v.sigs = w.sigs, v.sig = w.sig,
           (w.misled => v.misled), v.frames = w.frames, TopInv(v)
    PROVE  Sound(v, r)
BY TopSound

\* The DS records of the zone at hand have come, or some of them, or none.
LEMMA DSSound ==
    ASSUME NEW w, NEW r, Sound(w, r), w.at = "ds", Top(w).up # Root,
           NEW v, Fetched(w, v, "match", DelegatedTo[Top(w).up], HeardDS[Top(w).up])
    PROVE  Sound(v, r)
<1>1. TopInv(w) /\ w.at \in Deep /\ Sought(Top(w).key)
  BY TopIsFrame DEF Deep, TopInv
<1>2. v.at = "match" /\ Top(v) = Top(w) /\ (Sure(v) => Sure(w))
  BY DEF Top, Fetched, Sure
<1>3. TopInv(v)
  <2>1. Top(w).todo = {} /\ (Top(w).up = Top(w).key.zone \/ Exhausted(Top(w).key) \/ ~Sure(w))
    BY <1>1 DEF TopInv
  <2> QED BY <1>1, <1>2, <2>1 DEF TopInv, Fetched
<1>4. v.at \in Deep
  BY <1>2 DEF Deep
<1> QED BY <1>1, <1>3, <1>4, SameFrames DEF Fetched

\* A DS record stands for the key on top: the parent's keys are next. Or none does.
LEMMA MatchSound ==
    ASSUME NEW w, NEW r, Sound(w, r), w.at = "match", w.fill = {}
    PROVE  Sound(IF Top(w).key \in w.got THEN [w EXCEPT !.at = "parentKeys", !.got = {}] ELSE NextName(w), r)
<1>1. /\ w \in Walks /\ TopInv(w) /\ w.at \in Deep /\ Top(w) \in Frames /\ Top(w).up # Root
      /\ w.got \subseteq HeardDS[Top(w).up] /\ Sought(Top(w).key)
  BY TopIsFrame DEF Deep, TopInv
<1>2. \A k \in HeardDS[Top(w).up] : k.zone = Top(w).up
  BY <1>1, RecordsInOwners DEF Frames
<1>3. CASE Top(w).key \in w.got
  <2> DEFINE v == [w EXCEPT !.at = "parentKeys", !.got = {}]
  <2>1. /\ v \in Walks /\ v.at = "parentKeys" /\ v.sets = w.sets /\ v.sigs = w.sigs /\ v.sig = w.sig
        /\ v.misled = w.misled /\ v.frames = w.frames
    BY <1>1 DEF Walks, Deep
  <2> HIDE DEF v
  <2>2. Delegated(Top(w)) /\ Top(w).todo = {}
    BY <1>1, <1>2, <1>3 DEF Delegated, TopInv
  <2>3. TopInv(v)
    BY <1>1, <2>1, <2>2 DEF TopInv, Top
  <2>4. v.at \in Deep
    BY <2>1 DEF Deep
  <2>5. Sound(v, r)
    BY <1>1, <2>1, <2>3, <2>4, SameFrames
  <2> QED BY <1>3, <2>5 DEF v
<1>4. CASE Top(w).key \notin w.got
  <2>1. Sure(w) => Exhausted(Top(w).key)
    BY <1>1, <1>4 DEF TopInv, Exhausted
  <2>2. Sound(NextName(w), r)
    BY <1>1, <2>1, NextNameSound
  <2> QED BY <1>4, <2>2
<1> QED BY <1>3, <1>4

\* The keys of the parent zone have come, or some of them, or none.
LEMMA ParentKeysSound ==
    ASSUME NEW w, NEW r, Sound(w, r), w.at = "parentKeys",
           NEW v, Fetched(w, v, "parents", KeysOf[Above[Top(w).up]], HeardKeys[Above[Top(w).up]])
    PROVE  Sound(v, r)
<1>1. TopInv(w) /\ w.at \in Deep /\ Sought(Top(w).key)
  BY TopIsFrame DEF Deep, TopInv
<1>2. v.at = "parents" /\ Top(v) = Top(w)
  BY DEF Top, Fetched
<1>3. TopInv(v)
  <2>1. Top(w).todo = {} /\ Delegated(Top(w))
    BY <1>1 DEF TopInv
  <2> QED BY <1>1, <1>2, <2>1 DEF TopInv, Fetched, Upper
<1>4. v.at \in Deep
  BY <1>2 DEF Deep
<1> QED BY <1>1, <1>3, <1>4, SameFrames DEF Fetched

\* A backed key of the name above and a DS record back a key.
LEMMA DelegatedBacked ==
    ASSUME NEW f \in Frames, Sought(f.key), Delegated(f), NEW k \in Upper(f), Backed(k)
    PROVE  Backed(f.key)
<1>1. PICK chain \in SUBSET Records : k \in chain /\ Linked(chain, HeardKeys, HeardDS)
  BY DEF Backed, Anchored
<1> DEFINE all == chain \union {f.key}
<1>2. /\ f.key.zone = f.up /\ f.up \in Owners \ {Root} /\ f.key \in HeardDS[f.up] /\ f.key \in Records
      /\ f.key \in HeardKeys[f.key.zone]
  BY DEF Delegated, Frames, Sought
<1>3. k.zone = Above[f.up]
  BY <1>2, RecordsAbove DEF Upper
<1>4. all \in SUBSET Records /\ f.key \in all /\ Linked(all, HeardKeys, HeardDS)
  BY <1>1, <1>2, <1>3 DEF Linked
<1> HIDE DEF all
<1> QED BY <1>4 DEF Backed, Anchored

\* One key of the parent zone is called for; the others remain to be verified.
LEMMA ParentSound ==
    ASSUME NEW w, NEW r, Sound(w, r), w.at = "parents", w.fill = {},
           NEW k \in Top(w).todo \union w.got
    PROVE  Sound(Call(WithTop([w EXCEPT !.got = {}],
                              [Top(w) EXCEPT !.todo = (Top(w).todo \union w.got) \ {k}]), k), r)
<1> DEFINE left == Top(w).todo \union w.got
           f == [Top(w) EXCEPT !.todo = left \ {k}]
           u == WithTop([w EXCEPT !.got = {}], f)
           fs == <<f>> \o Tail(w.frames)
<1>1. /\ w \in Walks /\ w.frames \in Seq(Frames) /\ w.frames # <<>> /\ TopInv(w)
      /\ Top(w) = w.frames[1] /\ Top(w) \in Frames /\ Len(w.frames) \in Nat \ {0}
      /\ w.at \in Deep /\ SignerInv(w, r) /\ FramesInv(w)
  BY TopIsFrame DEF Deep, Sound
<1>2. /\ Delegated(Top(w)) /\ left \subseteq Upper(Top(w)) /\ k \in left
      /\ Sure(w) => \A y \in KeysOf[Above[Top(w).up]] \ left : ~Genuine(y)
      /\ Sought(Top(w).key)
  BY <1>1 DEF TopInv
<1>3. left \in SUBSET Records /\ k \in Records /\ k \in HeardKeys[k.zone]
  <2>1. Above[Top(w).up] \in Owners
    BY <1>1, <1>2, RecordsInOwners DEF Frames, Delegated
  <2>2. k.zone = Above[Top(w).up] /\ k \in HeardKeys[Above[Top(w).up]]
    BY <1>2, <2>1, RecordsInOwners DEF Upper
  <2> QED BY <1>1, <2>2 DEF Walks, Frames
<1>4. f \in Frames /\ f.key = Top(w).key /\ f.up = Top(w).up /\ f.todo = left \ {k}
  BY <1>1, <1>3 DEF Frames
<1> HIDE DEF f
<1>5. /\ fs \in Seq(Frames) /\ Len(fs) = Len(w.frames) /\ fs[1] = f
      /\ \A i \in 2..Len(w.frames) : fs[i] = w.frames[i]
  BY <1>1, <1>4, Retop
<1> HIDE DEF fs, left
<1>6. /\ u \in Walks /\ u.sets = w.sets /\ u.sigs = w.sigs /\ u.sig = w.sig
      /\ u.misled = w.misled /\ u.frames = fs /\ u.fill = w.fill
  <2>1. u \in Walks
    <3>1. u = [[w EXCEPT !.got = {}] EXCEPT !.frames = <<f>> \o Tail(@)]
      BY DEF WithTop
    <3> DEFINE x == [w EXCEPT !.got = {}]
    <3>2. x \in Walks /\ x.frames = w.frames
      BY <1>1 DEF Walks
    <3> HIDE DEF x, u
    <3>3. u = [x EXCEPT !.frames = fs]
      BY <3>1, <3>2 DEF fs, x
    <3> QED BY <1>5, <3>2, <3>3 DEF Walks
  <2>2. /\ u.sets = w.sets /\ u.sigs = w.sigs /\ u.sig = w.sig
        /\ u.misled = w.misled /\ u.frames = fs /\ u.fill = w.fill
    BY <1>1 DEF Walks, WithTop, fs
  <2> QED BY <2>1, <2>2
<1> HIDE DEF u
<1>7. \E g \in Signatures : w.sig = {g} /\ Verifies(g, r) /\ g.current /\ g.key = w.frames[Len(w.frames)].key
  BY <1>1 DEF SignerInv
<1>8. w.at \notin {"set", "sig"}
  BY <1>1 DEF Deep
<1>9. ASSUME AnchorTag(k) PROVE Sound(Trusted(u), r)
  <2>1. Backed(Top(w).key)
    <3>1. Backed(k)
      BY <1>3, <1>9, AnchorsAreBacked
    <3>2. k \in Upper(Top(w))
      BY <1>2
    <3> QED BY <1>1, <1>2, <3>1, <3>2, DelegatedBacked
  <2>2. Backed(w.frames[Len(w.frames)].key)
    BY <1>1, <2>1, ChainBacked
  <2>3. \E g \in w.sig : Good(g, r)
    BY <1>7, <2>2 DEF Good
  <2> QED BY <1>6, <1>8, <2>3, TrustedSound
<1>10. ASSUME NEW v, ~AnchorTag(k), v = [u EXCEPT !.at = "ds", !.frames = <<Frame(k)>> \o @, !.got = {}]
       PROVE  Sound(v, r)
  <2>1. Frame(k) \in Frames
    BY <1>3, RecordsInOwners DEF Frame, Frames
  <2>2. <<Frame(k)>> \o fs \in Seq(Frames)
    BY <1>5, <2>1, Push
  <2>3. /\ v \in Walks /\ v.at = "ds" /\ v.sets = w.sets /\ v.sigs = w.sigs /\ v.sig = w.sig
        /\ v.misled = w.misled /\ v.got = {} /\ v.frames = <<Frame(k)>> \o fs
    <3>1. v \in Walks
      BY <1>6, <1>10, <2>2 DEF Walks, Deep
    <3>2. /\ v.at = "ds" /\ v.sets = w.sets /\ v.sigs = w.sigs /\ v.sig = w.sig
          /\ v.misled = w.misled /\ v.got = {} /\ v.frames = <<Frame(k)>> \o fs
      BY <1>6, <1>10 DEF Walks
    <3> QED BY <3>1, <3>2
  <2>4. Waits(fs[1], k, Sure(w))
    <3>1. Delegated(f) /\ Upper(f) = Upper(Top(w)) /\ Sought(f.key)
      BY <1>2, <1>4 DEF Delegated, Upper
    <3> QED BY <1>2, <1>4, <1>5, <3>1 DEF Waits
  <2>5. \A g \in w.sig : Verifies(g, r) /\ g.current /\ g.key = fs[Len(fs)].key
    <3>1. Len(fs) = 1 \/ Len(fs) \in 2..Len(w.frames)
      BY <1>1, <1>5, FirstOrLater, Zenon
    <3>2. fs[Len(fs)].key = w.frames[Len(w.frames)].key
      BY <1>1, <1>4, <1>5, <3>1
    <3> QED BY <1>7, <3>2
  <2>6. ASSUME NEW i \in 2..Len(fs) PROVE Waits(fs[i], fs[i - 1].key, Sure(w))
    <3>1. i - 1 = 1 \/ i - 1 \in 2..Len(w.frames)
      BY <1>1, <1>5
    <3>2. fs[i] = w.frames[i] /\ fs[i - 1].key = w.frames[i - 1].key
      BY <1>1, <1>4, <1>5, <3>1
    <3>3. Waits(w.frames[i], w.frames[i - 1].key, Sure(w))
      BY <1>1, <1>5 DEF FramesInv
    <3> QED BY <3>2, <3>3
  <2>7. fs # <<>>
    BY <1>1, <1>5
  <2>8. \E g \in Signatures : w.sig = {g}
    BY <1>7
  <2>9. Sought(k)
    BY <1>3, <1>10 DEF Sought
  <2>10. /\ v \in Walks /\ v.at = "ds" /\ v.sets = w.sets /\ v.sigs = w.sigs /\ v.sig = w.sig
         /\ v.misled = w.misled /\ v.got = {} /\ v.frames = <<Frame(k)>> \o fs /\ fs \in Seq(Frames)
    BY <1>5, <2>3
  <2> QED BY <1>3, <1>8, <2>4, <2>5, <2>6, <2>7, <2>8, <2>9, <2>10, PushSound, Zenon
<1>11. Sound(Call(u, k), r)
  BY <1>9, <1>10 DEF Call
<1> QED BY <1>11 DEF u, f, left

\* The next key of the parent zone is taken up, or none is left.
LEMMA ParentsSound ==
    ASSUME NEW w, NEW r, Sound(w, r), w.at = "parents", w.fill = {}, NEW v \in NextParent(w)
    PROVE  Sound(v, r)
<1>1. CASE Top(w).todo \union w.got = {}
  <2>1. TopInv(w) /\ w.at \in Deep /\ w \in Walks
    BY TopIsFrame DEF Deep
  <2>2. Top(w).up # Root /\ (Sure(w) => Exhausted(Top(w).key))
    BY <1>1, <2>1 DEF TopInv, Delegated, Upper, Exhausted
  <2>3. v = NextName(w)
    BY <1>1 DEF NextParent
  <2> QED BY <2>1, <2>2, <2>3, NextNameSound
<1>2. CASE Top(w).todo \union w.got # {}
  <2>1. PICK k \in Top(w).todo \union w.got :
           v = Call(WithTop([w EXCEPT !.got = {}],
                            [Top(w) EXCEPT !.todo = (Top(w).todo \union w.got) \ {k}]), k)
    BY <1>2 DEF NextParent
  <2> QED BY <2>1, ParentSound
<1> QED BY <1>1, <1>2

\* Another record has entered the cache.
LEMMA FillSound ==
    ASSUME NEW w, NEW r, Sound(w, r), NEW k
    PROVE  Sound([w EXCEPT !.fill = @ \ {k}], r)
<1> DEFINE v == [w EXCEPT !.fill = @ \ {k}]
<1>1. /\ w \in Walks /\ w.at # "idle" /\ Groups(r) \in SUBSET SUBSET Signatures
      /\ SetsInv(w, r) /\ SignerInv(w, r) /\ FramesInv(w)
  BY DEF Sound
<1>2. /\ v \in Walks /\ v.at = w.at /\ v.sets = w.sets /\ v.sigs = w.sigs /\ v.sig = w.sig
      /\ v.misled = w.misled /\ v.frames = w.frames /\ v.got = w.got /\ v.fill \subseteq w.fill
  BY <1>1 DEF Walks
<1> HIDE DEF v
<1>3. SetsInv(v, r)
  BY <1>1, <1>2 DEF SetsInv, AtHand, Sure
<1>4. SignerInv(v, r)
  BY <1>1, <1>2 DEF SignerInv, Sure
<1>5. TopInv(v) /\ FramesInv(v)
  <2>1. Top(v) = Top(w) /\ Sure(v) = Sure(w)
    BY <1>2 DEF Top, Sure
  <2>2. TopInv(v)
    BY <1>1, <1>2, <2>1 DEF FramesInv, TopInv
  <2> QED BY <1>1, <1>2, <2>1, <2>2 DEF FramesInv
<1>6. Sound(v, r)
  BY <1>1, <1>2, <1>3, <1>4, <1>5 DEF Sound
<1> QED BY <1>6 DEF v

-----------------------------------------------------------------------------
(* The validator's state: caches that hold nothing but what lookups may give, *)
(* and for each handler a sound walk until the verdict.                      *)

Heard(cache, given) == \A k \in Records : cache[k] # 0 => k \in given[k.zone]
CacheInv ==
    /\ keyCache \in [Records -> Nat] /\ dsCache \in [Records -> Nat]
    /\ Heard(keyCache, HeardKeys) /\ Heard(dsCache, HeardDS)

\* What remains to be cached was given by the last lookup.
Fills(w) == \A k \in w.fill : k \in (IF w.at = "match" THEN HeardDS ELSE HeardKeys)[k.zone]

WalkStands(q) ==
    /\ Rank[pc[q]] < Rank["dnssec"] => walk[q] = Idle /\ verdict[q] = "none"
    /\ At(q, "dnssec") =>
          verdict[q] = "none" /\ (walk[q] = Idle \/ (Sound(walk[q], answer[q]) /\ Fills(walk[q])))
    /\ Rank[pc[q]] > Rank["dnssec"] =>
          /\ verdict[q] = "valid" /\ NeedsWalk(answer[q]) => WellSigned(answer[q], HeardKeys, HeardDS)
          /\ verdict[q] = "bogus" /\ NeedsWalk(answer[q]) /\ WellSigned(answer[q], KeysOf, DelegatedTo) =>
                walk[q].misled

WalkInv ==
    /\ HandlerInv /\ CacheInv
    /\ walk \in [Queries -> Walks] /\ verdict \in [Queries -> {"none", "valid", "bogus"}]
    /\ \A q \in Queries : WalkStands(q)

\* A handler that is not validating has the idle walk.
LEMMA IdleWalk == Idle \in Walks /\ Idle.at = "idle"
<1>1. <<>> \in Seq(Frames)
  OBVIOUS
<1>2. Idle \in Walks
  BY <1>1 DEF Idle, Walks
<1> QED BY <1>2 DEF Idle

\* The signatures of a response are those of the traffic.
LEMMA Answered ==
    ASSUME HandlerInv, NEW q \in Queries
    PROVE  Groups(answer[q]) \in SUBSET SUBSET Signatures
<1>1. config \in Configs /\ answer[q] \in config.answers
  BY DEF HandlerInv, HandlerTypeOK
<1>2. answer[q].rrsigs \in SUBSET Signatures
  BY <1>1 DEF Signatures
<1> QED BY <1>2 DEF Groups

\* What a handler has found stays, as long as it is left alone.
LEMMA StaysFound ==
    ASSUME NEW q \in Queries, WalkStands(q), config' = config, pc'[q] = pc[q], answer'[q] = answer[q],
           walk'[q] = walk[q], verdict'[q] = verdict[q]
    PROVE  WalkStands(q)'
BY DEF WalkStands, At, NeedsWalk, FullChain, WellSigned

\* A handler that has not come to the validator yet, or has left it.
LEMMA PassesBy ==
    ASSUME WalkInv, HandlerInv', NEW q \in Queries, Moves(q), ~At(q, "dnssec"), config' = config,
           UNCHANGED <<walk, verdict>>
    PROVE  WalkStands(q)'
<1>1. pc[q] \in Stages /\ pc'[q] \in Stages /\ WalkStands(q) /\ Rank[pc'[q]] > Rank[pc[q]]
  BY DEF WalkInv, HandlerInv, HandlerTypeOK, Moves
<1>2. CASE Rank[pc[q]] > Rank["dnssec"]
  <2>1. Rank[pc'[q]] > Rank["dnssec"] /\ ~At(q, "forward") /\ pc'[q] # "dnssec"
    BY <1>1, <1>2 DEF Rank, Stages, At
  <2>2. answer'[q] = answer[q]
    BY <2>1 DEF Moves
  <2>3. ~(Rank[pc'[q]] < Rank["dnssec"])
    BY <1>1, <2>1 DEF Rank, Stages
  <2> QED BY <1>1, <1>2, <2>1, <2>2, <2>3 DEF WalkStands, At, NeedsWalk, FullChain, WellSigned
<1>3. CASE Rank[pc[q]] < Rank["dnssec"]
  <2>1. walk'[q] = Idle /\ verdict'[q] = "none"
    BY <1>1, <1>3 DEF WalkStands
  <2> QED BY <2>1, Zenon DEF WalkStands
<1> QED BY <1>1, <1>2, <1>3 DEF At, Rank, Stages

\* The walk goes on to another that is sound.
LEMMA WalksOn ==
    ASSUME WalkInv, CacheInv', UNCHANGED now, NEW q \in Queries, At(q, "dnssec"),
           NEW v, walk' = [walk EXCEPT ![q] = v], UNCHANGED <<verdict, handlerVars>>,
           Sound(v, answer[q]), Fills(v)
    PROVE  WalkInv'
<1>1. HandlerInv'
  BY DEF WalkInv, HandlerInv, HandlerTypeOK, handlerVars, On
<1>2. v \in Walks
  BY DEF Sound
<1>3. /\ walk' \in [Queries -> Walks] /\ walk'[q] = v
      /\ \A p \in Queries \ {q} : walk'[p] = walk[p]
  BY <1>2 DEF WalkInv
<1>4. ASSUME NEW p \in Queries, p # q PROVE WalkStands(p)'
  BY <1>3, <1>4, StaysFound DEF WalkInv, handlerVars
<1>5. WalkStands(q)'
  <2>1. pc'[q] = "dnssec" /\ verdict'[q] = "none" /\ answer'[q] = answer[q]
    BY DEF WalkInv, WalkStands, At, handlerVars
  <2>2. ~(Rank["dnssec"] < Rank["dnssec"]) /\ ~(Rank["dnssec"] > Rank["dnssec"])
    BY DEF Rank
  <2> QED BY <1>3, <2>1, <2>2 DEF WalkStands
<1> QED BY <1>1, <1>3, <1>4, <1>5 DEF WalkInv, handlerVars

\* The verdict is there, and the handler leaves.
LEMMA Decides ==
    ASSUME WalkInv, UNCHANGED now, NEW q \in Queries, At(q, "dnssec"), NEW v \in {"valid", "bogus"},
           Decide(q, v),
           v = "valid" /\ NeedsWalk(answer[q]) => WellSigned(answer[q], HeardKeys, HeardDS),
           v = "bogus" /\ NeedsWalk(answer[q]) /\ WellSigned(answer[q], KeysOf, DelegatedTo) => walk[q].misled
    PROVE  WalkInv'
<1>1. HandlerInv' /\ Moves(q)
  BY Proceeds DEF WalkInv, Decide
<1> DEFINE w == [Idle EXCEPT !.misled = walk[q].misled]
<1>2. w \in Walks /\ w.misled = walk[q].misled
  <2>1. walk[q].misled \in BOOLEAN /\ <<>> \in Seq(Frames)
    BY DEF WalkInv, Walks
  <2>2. w \in Walks
    BY <2>1 DEF Walks, Idle
  <2>3. w.misled = walk[q].misled
    BY DEF Idle
  <2> QED BY <2>2, <2>3
<1>3. walk' = [walk EXCEPT ![q] = w] /\ verdict' = [verdict EXCEPT ![q] = v]
  BY DEF Decide
<1> HIDE DEF w
<1>4. /\ walk' \in [Queries -> Walks] /\ walk'[q] = w
      /\ \A p \in Queries \ {q} : walk'[p] = walk[p]
      /\ verdict' \in [Queries -> {"none", "valid", "bogus"}] /\ verdict'[q] = v
      /\ \A p \in Queries \ {q} : verdict'[p] = verdict[p]
  BY <1>2, <1>3 DEF WalkInv
<1>5. answer' = answer /\ config' = config /\ UNCHANGED <<keyCache, dsCache>>
  BY DEF Decide
<1>6. ASSUME NEW p \in Queries, p # q PROVE WalkStands(p)'
  BY <1>1, <1>4, <1>5, <1>6, StaysFound DEF WalkInv, Moves
<1>7. WalkStands(q)'
  <2>1. pc'[q] \in Stages /\ Rank[pc'[q]] > Rank["dnssec"]
    BY <1>1 DEF HandlerInv, HandlerTypeOK, Moves, At
  <2>2. pc'[q] # "dnssec" /\ ~(Rank[pc'[q]] < Rank["dnssec"])
    BY <2>1 DEF Rank, Stages
  <2> QED BY <1>2, <1>4, <1>5, <2>1, <2>2 DEF WalkStands, At, NeedsWalk, FullChain, WellSigned
<1>8. CacheInv'
  BY <1>5 DEF WalkInv, CacheInv, Heard
<1> QED BY <1>1, <1>4, <1>6, <1>7, <1>8 DEF WalkInv

\* At the validator: no walk yet, or a sound one.
LEMMA AtValidator ==
    ASSUME WalkInv, NEW q \in Queries, At(q, "dnssec")
    PROVE  /\ walk[q] \in Walks /\ (walk[q].at # "idle" => Sound(walk[q], answer[q]) /\ Fills(walk[q]))
BY IdleWalk DEF WalkInv, WalkStands

Given(w, next, got, fill, truth) ==
    [w EXCEPT !.at = next, !.got = got, !.fill = fill, !.misled = @ \/ got # truth]

\* A lookup that gives what may be heard shows when this is not the truth.
LEMMA LookupFetched ==
    ASSUME NEW w \in Walks, NEW next \in {"try", "match", "parents"}, NEW truth,
           NEW heard \in SUBSET Records, NEW got \in SUBSET heard, NEW fill \in SUBSET got
    PROVE  Fetched(w, Given(w, next, got, fill, truth), next, truth, heard)
<1> DEFINE m == w.misled \/ got # truth
           v == [w EXCEPT !.at = next, !.got = got, !.fill = fill, !.misled = m]
<1>1. v = Given(w, next, got, fill, truth)
  BY DEF Given
<1>2. m \in BOOLEAN /\ (w.misled => m) /\ (~m => got = truth)
  BY DEF Walks
<1>3. got \in SUBSET Records /\ fill \in SUBSET Records
  OBVIOUS
<1> HIDE DEF m
<1>4. v \in Walks
  BY <1>2, <1>3 DEF Walks, Deep
<1>5. /\ v.at = next /\ v.frames = w.frames /\ v.sets = w.sets /\ v.sigs = w.sigs /\ v.sig = w.sig
      /\ v.fill = fill /\ v.got = got /\ v.misled = m
  BY DEF Walks
<1> HIDE DEF v
<1>6. Fetched(w, v, next, truth, heard)
  BY <1>2, <1>4, <1>5 DEF Fetched, Sure
<1> QED BY <1>1, <1>6

\* The caches hold only what may be heard, and so do lookups from upstream.
LEMMA LookupsHeard ==
    ASSUME WalkInv, NEW n \in Owners
    PROVE  /\ Cached(keyCache, n) \subseteq HeardKeys[n] /\ \A got \in KeyAnswers[n] : got \subseteq HeardKeys[n]
           /\ Cached(dsCache, n) \subseteq HeardDS[n] /\ \A got \in DSAnswers[n] : got \subseteq HeardDS[n]
           /\ HeardKeys[n] \in SUBSET Records /\ HeardDS[n] \in SUBSET Records
<1>1. now \in Nat /\ CacheInv
  BY DEF WalkInv, HandlerInv
<1>2. \A k \in Records : (now < keyCache[k] => keyCache[k] # 0) /\ (now < dsCache[k] => dsCache[k] # 0)
  BY <1>1
<1>3. Cached(keyCache, n) \subseteq HeardKeys[n] /\ Cached(dsCache, n) \subseteq HeardDS[n]
  BY <1>1, <1>2 DEF Cached, CacheInv, Heard
<1>4. HeardKeys[n] = UNION KeyAnswers[n] /\ HeardDS[n] = UNION DSAnswers[n]
  BY RecordsInOwners
<1>5. HeardKeys[n] \subseteq Records /\ HeardDS[n] \subseteq Records
  BY RecordsInOwners
<1> QED BY <1>3, <1>4, <1>5

\* The three lookups of the walk
LEMMA FetchStep ==
    ASSUME WalkInv, UNCHANGED now, NEW q \in Queries, At(q, "dnssec"),
           FetchSignerKeys(q) \/ FetchDS(q) \/ FetchParentKeys(q)
    PROVE  WalkInv'
<1> DEFINE w == walk[q]
           r == answer[q]
<1>0. HandlerInv
  BY DEF WalkInv
<1>1. w \in Walks /\ (w.at # "idle" => Sound(w, r))
  BY AtValidator
<1>2. ASSUME NEW v, walk' = [walk EXCEPT ![q] = v], UNCHANGED <<keyCache, dsCache, verdict, handlerVars>>,
             Sound(v, r), Fills(v)
      PROVE  WalkInv'
  <2>1. CacheInv'
    BY <1>2 DEF WalkInv, CacheInv, Heard
  <2> QED BY <1>2, <2>1, WalksOn
<1>3. ASSUME NEW v, NEW n \in Owners, NEW next \in {"try", "parents"}, NEW truth,
             Fetched(w, v, next, truth, HeardKeys[n])
      PROVE  Fills(v)
  BY <1>3, RecordsInOwners DEF Fetched, Fills
<1>4. CASE FetchSignerKeys(q)
  <2>1. PICK g \in w.sig : FetchKeys(q, "keys", "try", g.key.zone)
    BY <1>4 DEF FetchSignerKeys
  <2> DEFINE n == g.key.zone
  <2>2. w.at = "keys" /\ Lookup(q, "keys", "try", keyCache, n, KeysOf[n], KeyAnswers[n], FALSE)
    BY <2>1 DEF FetchKeys, Lookup, Walking
  <2>3. n \in Owners
    <3>1. g \in Signatures
      BY <1>1 DEF Walks
    <3> QED BY <3>1, ValidatorAssumption DEF Signatures
  <2>4. PICK v : /\ walk' = [walk EXCEPT ![q] = v] /\ Fetched(w, v, "try", KeysOf[n], HeardKeys[n])
                 /\ UNCHANGED <<keyCache, dsCache, verdict, handlerVars>>
    <3> HIDE DEF n
    <3>1. /\ Cached(keyCache, n) \subseteq HeardKeys[n] /\ HeardKeys[n] \in SUBSET Records
          /\ \A got \in KeyAnswers[n] : got \subseteq HeardKeys[n]
      BY <2>3, LookupsHeard
    <3>2. \E got \in SUBSET HeardKeys[n] : \E fill \in SUBSET got :
              Becomes(q, Given(w, "try", got, fill, KeysOf[n]))
      <4>1. CASE Cached(keyCache, n) # {}
        <5>1. Becomes(q, Given(w, "try", Cached(keyCache, n), {}, KeysOf[n]))
          BY <2>2, <4>1 DEF Lookup, Given
        <5> QED BY <3>1, <5>1
      <4>2. CASE Cached(keyCache, n) = {}
        <5>1. PICK got \in KeyAnswers[n] : \E fill \in SUBSET got : Becomes(q, Given(w, "try", got, fill, KeysOf[n]))
          BY <2>2, <4>2 DEF Lookup, Given
        <5> QED BY <3>1, <5>1
      <4> QED BY <4>1, <4>2
    <3>3. PICK got \in SUBSET HeardKeys[n] : \E fill \in SUBSET got : Becomes(q, Given(w, "try", got, fill, KeysOf[n]))
      BY <3>2
    <3>4. PICK fill \in SUBSET got : Becomes(q, Given(w, "try", got, fill, KeysOf[n]))
      BY <3>3
    <3>5. Fetched(w, Given(w, "try", got, fill, KeysOf[n]), "try", KeysOf[n], HeardKeys[n])
      BY <1>1, <3>1, LookupFetched
    <3> QED BY <3>4, <3>5 DEF Becomes
  <2>5. Sound(v, r) /\ Fills(v)
    BY <1>1, <1>3, <2>2, <2>3, <2>4, KeysSound
  <2> QED BY <1>2, <2>4, <2>5
<1>5. CASE FetchDS(q)
  <2> DEFINE n == Top(w).up
  <2>1. w.at = "ds" /\ n # Root /\ Lookup(q, "ds", "match", dsCache, n, DelegatedTo[n], DSAnswers[n], TRUE)
    BY <1>5 DEF FetchDS, Walking
  <2>2. n \in Owners
    BY <1>1, <2>1, TopIsFrame DEF Deep, Frames
  <2>3. PICK v : /\ walk' = [walk EXCEPT ![q] = v] /\ Fetched(w, v, "match", DelegatedTo[n], HeardDS[n])
                 /\ UNCHANGED <<keyCache, dsCache, verdict, handlerVars>>
    <3> HIDE DEF n
    <3>1. /\ Cached(dsCache, n) \subseteq HeardDS[n] /\ HeardDS[n] \in SUBSET Records
          /\ \A got \in DSAnswers[n] : got \subseteq HeardDS[n]
      BY <2>2, LookupsHeard
    <3>2. \E got \in SUBSET HeardDS[n] : \E fill \in SUBSET got :
              Becomes(q, Given(w, "match", got, fill, DelegatedTo[n]))
      <4>1. CASE Cached(dsCache, n) # {}
        <5>1. Becomes(q, Given(w, "match", Cached(dsCache, n), {}, DelegatedTo[n]))
          BY <2>1, <4>1 DEF Lookup, Given
        <5> QED BY <3>1, <5>1
      <4>2. CASE Cached(dsCache, n) = {}
        <5>1. PICK got \in DSAnswers[n] : \E fill \in SUBSET got : Becomes(q, Given(w, "match", got, fill, DelegatedTo[n]))
          BY <2>1, <4>2 DEF Lookup, Given
        <5> QED BY <3>1, <5>1
      <4> QED BY <4>1, <4>2
    <3>3. PICK got \in SUBSET HeardDS[n] : \E fill \in SUBSET got : Becomes(q, Given(w, "match", got, fill, DelegatedTo[n]))
      BY <3>2
    <3>4. PICK fill \in SUBSET got : Becomes(q, Given(w, "match", got, fill, DelegatedTo[n]))
      BY <3>3
    <3>5. Fetched(w, Given(w, "match", got, fill, DelegatedTo[n]), "match", DelegatedTo[n], HeardDS[n])
      BY <1>1, <3>1, LookupFetched
    <3> QED BY <3>4, <3>5 DEF Becomes
  <2>4. Sound(v, r)
    BY <1>1, <2>1, <2>3, DSSound
  <2>5. Fills(v)
    <3> HIDE DEF n
    <3>1. \A k \in HeardDS[n] : k.zone = n
      BY <2>2, RecordsInOwners
    <3>2. v.at = "match" /\ v.fill \subseteq HeardDS[n]
      BY <2>3 DEF Fetched
    <3> QED BY <3>1, <3>2 DEF Fills
  <2> QED BY <1>2, <2>3, <2>4, <2>5
<1>6. CASE FetchParentKeys(q)
  <2> DEFINE n == Above[Top(w).up]
  <2>1. w.at = "parentKeys" /\ Lookup(q, "parentKeys", "parents", keyCache, n, KeysOf[n], KeyAnswers[n], FALSE)
    BY <1>6 DEF FetchParentKeys, FetchKeys, Walking
  <2>2. n \in Owners
    <3>1. Top(w).up \in Owners /\ Delegated(Top(w))
      BY <1>1, <2>1, TopIsFrame DEF Deep, Frames, TopInv
    <3> QED BY <3>1, RecordsInOwners DEF Delegated
  <2>3. PICK v : /\ walk' = [walk EXCEPT ![q] = v] /\ Fetched(w, v, "parents", KeysOf[n], HeardKeys[n])
                 /\ UNCHANGED <<keyCache, dsCache, verdict, handlerVars>>
    <3> HIDE DEF n
    <3>1. /\ Cached(keyCache, n) \subseteq HeardKeys[n] /\ HeardKeys[n] \in SUBSET Records
          /\ \A got \in KeyAnswers[n] : got \subseteq HeardKeys[n]
      BY <2>2, LookupsHeard
    <3>2. \E got \in SUBSET HeardKeys[n] : \E fill \in SUBSET got :
              Becomes(q, Given(w, "parents", got, fill, KeysOf[n]))
      <4>1. CASE Cached(keyCache, n) # {}
        <5>1. Becomes(q, Given(w, "parents", Cached(keyCache, n), {}, KeysOf[n]))
          BY <2>1, <4>1 DEF Lookup, Given
        <5> QED BY <3>1, <5>1
      <4>2. CASE Cached(keyCache, n) = {}
        <5>1. PICK got \in KeyAnswers[n] : \E fill \in SUBSET got : Becomes(q, Given(w, "parents", got, fill, KeysOf[n]))
          BY <2>1, <4>2 DEF Lookup, Given
        <5> QED BY <3>1, <5>1
      <4> QED BY <4>1, <4>2
    <3>3. PICK got \in SUBSET HeardKeys[n] : \E fill \in SUBSET got : Becomes(q, Given(w, "parents", got, fill, KeysOf[n]))
      BY <3>2
    <3>4. PICK fill \in SUBSET got : Becomes(q, Given(w, "parents", got, fill, KeysOf[n]))
      BY <3>3
    <3>5. Fetched(w, Given(w, "parents", got, fill, KeysOf[n]), "parents", KeysOf[n], HeardKeys[n])
      BY <1>1, <3>1, LookupFetched
    <3> QED BY <3>4, <3>5 DEF Becomes
  <2>4. Sound(v, r) /\ Fills(v)
    BY <1>1, <1>3, <2>1, <2>2, <2>3, ParentKeysSound
  <2> QED BY <1>2, <2>3, <2>4
<1> QED BY <1>4, <1>5, <1>6

\* With a record that may be heard, a cache holds only such records.
LEMMA PutHeard ==
    ASSUME NEW cache \in [Records -> Nat], NEW given, Heard(cache, given), now \in Nat,
           NEW k \in Records, k \in given[k.zone], NEW place
    PROVE  Put(cache, k, place) \in [Records -> Nat] /\ Heard(Put(cache, k, place), given)
<1> DEFINE c == Put(cache, k, place)
<1>1. /\ c = [d \in Records |-> IF d = k THEN now + RecordTTL ELSE IF d \in place THEN 0 ELSE cache[d]]
      /\ now + RecordTTL \in Nat
  BY ValidatorAssumption DEF Put
<1> HIDE DEF c
<1>2. c \in [Records -> Nat] /\ \A d \in Records : c[d] # 0 => d = k \/ cache[d] # 0
  BY <1>1
<1>3. Heard(c, given)
  BY <1>2 DEF Heard
<1> QED BY <1>2, <1>3 DEF c

\* A record enters its cache, in the place of those it shares a key with.
LEMMA FillStep ==
    ASSUME WalkInv, UNCHANGED now, NEW q \in Queries, Fill(q)
    PROVE  WalkInv'
<1> DEFINE w == walk[q]
<1>1. At(q, "dnssec") /\ UNCHANGED <<verdict, handlerVars>>
  BY DEF Fill
<1>2. PICK k \in w.fill :
        /\ walk' = [walk EXCEPT ![q].fill = @ \ {k}]
        /\ IF w.at = "match"
           THEN dsCache' = Put(dsCache, k, DSPlace(k)) /\ UNCHANGED keyCache
           ELSE keyCache' = Put(keyCache, k, KeyPlace(k)) /\ UNCHANGED dsCache
  BY DEF Fill
<1>3. /\ w \in Walks /\ (w.at # "idle" => Sound(w, answer[q]) /\ Fills(w)) /\ k \in Records
      /\ now \in Nat /\ CacheInv
  BY <1>1, AtValidator DEF Walks, WalkInv, HandlerInv
<1>4. w.at # "idle"
  BY <1>1 DEF WalkInv, WalkStands, Idle, Sound
<1> DEFINE v == [w EXCEPT !.fill = @ \ {k}]
<1>5. Sound(v, answer[q])
  BY <1>3, <1>4, FillSound
<1>6. Fills(v)
  <2>1. v.fill \subseteq w.fill /\ v.at = w.at
    BY <1>3 DEF Walks
  <2> HIDE DEF v
  <2> QED BY <1>3, <1>4, <2>1 DEF Fills
<1>7. CacheInv'
  <2>1. CASE w.at = "match"
    <3>1. k \in HeardDS[k.zone]
      BY <1>3, <1>4, <2>1 DEF Fills
    <3> QED BY <1>2, <1>3, <2>1, <3>1, PutHeard DEF CacheInv, Heard
  <2>2. CASE w.at # "match"
    <3>1. k \in HeardKeys[k.zone]
      BY <1>3, <1>4, <2>2 DEF Fills
    <3> QED BY <1>2, <1>3, <2>2, <3>1, PutHeard DEF CacheInv, Heard
  <2> QED BY <2>1, <2>2
<1>8. walk' = [walk EXCEPT ![q] = v]
  BY <1>2 DEF WalkInv
<1> QED BY <1>1, <1>5, <1>6, <1>7, <1>8, WalksOn

\* Without a lookup nothing more is to be cached.
LEMMA NothingToFill ==
    ASSUME NEW w \in Walks, w.fill = {}
    PROVE  /\ Trusted(w).fill = {} /\ Distrusted(w).fill = {} /\ NextName(w).fill = {}
           /\ \A k : Call(w, k).fill = {}
           /\ \A v \in NextParent(w) : v.fill = {}
<1>1. "fill" \in DOMAIN w
  BY DEF Walks
<1>2. ASSUME NEW x, "fill" \in DOMAIN x, x.fill = {}, NEW k PROVE Call(x, k).fill = {}
  BY <1>2 DEF Call, Trusted
<1>3. ASSUME NEW f PROVE WithTop(w, f).fill = {} /\ "fill" \in DOMAIN WithTop(w, f)
  BY <1>1 DEF WithTop
<1>4. NextName(w).fill = {}
  <2>1. \A x : "fill" \in DOMAIN x => [x EXCEPT !.at = "ds", !.got = {}].fill = x.fill
    OBVIOUS
  <2> QED BY <1>3, <2>1 DEF NextName
<1>5. ASSUME NEW f PROVE LET x == WithTop([w EXCEPT !.got = {}], f) IN "fill" \in DOMAIN x /\ x.fill = {}
  BY <1>1 DEF WithTop
<1>6. \A v \in NextParent(w) : v.fill = {}
  BY <1>2, <1>4, <1>5 DEF NextParent
<1>7. Trusted(w).fill = {} /\ Distrusted(w).fill = {}
  BY <1>1 DEF Trusted, Distrusted
<1> QED BY <1>1, <1>2, <1>4, <1>6, <1>7

\* Every step of the validator
LEMMA ValidatorKeeps ==
    ASSUME WalkInv, UNCHANGED now, NEW q \in Queries, ValidatorStep(q)
    PROVE  WalkInv'
<1> DEFINE w == walk[q]
           r == answer[q]
<1>1. At(q, "dnssec")
  BY DEF ValidatorStep, Validate, NextSet, NextSig, FetchSignerKeys, TryKeys, AtRoot, FetchDS, MatchDS,
         FetchParentKeys, TryParent, Fill, FetchKeys, Lookup, Walking
<1>2. w \in Walks /\ (w.at # "idle" => Sound(w, r)) /\ Groups(r) \in SUBSET SUBSET Signatures
  BY <1>1, AtValidator, Answered DEF WalkInv
<1>3. ASSUME NEW v, Becomes(q, v), Sound(v, r), v.fill = {} PROVE WalkInv'
  <2>1. CacheInv' /\ Fills(v)
    BY <1>3 DEF Becomes, WalkInv, CacheInv, Heard, Fills
  <2> QED BY <1>1, <1>3, <2>1, WalksOn DEF Becomes
<1>4. CASE Validate(q)
  <2>1. w = Idle
    BY <1>1, <1>4 DEF Validate, WalkInv, WalkStands, Sound
  <2>2. CASE NeedsWalk(answer[q])
    <3>1. walk' = [walk EXCEPT ![q] = [Idle EXCEPT !.at = "set", !.sets = Groups(r)]]
      BY <1>4, <2>1, <2>2 DEF Validate, WalkInv
    <3>2. UNCHANGED <<keyCache, dsCache, verdict, handlerVars>>
      BY <1>4, <2>2 DEF Validate
    <3>3. CacheInv'
      BY <3>2 DEF WalkInv, CacheInv, Heard
    <3>4. Sound([Idle EXCEPT !.at = "set", !.sets = Groups(r)], r) /\ Fills([Idle EXCEPT !.at = "set", !.sets = Groups(r)])
      BY <1>2, StartSound DEF Idle, Fills
    <3> QED BY <1>1, <3>1, <3>2, <3>3, <3>4, WalksOn
  <2>3. CASE ~NeedsWalk(answer[q])
    BY <1>1, <1>4, <2>3, Decides DEF Validate
  <2> QED BY <2>2, <2>3
<1>5. CASE NextSet(q)
  <2>1. w.at = "set" /\ Sound(w, r) /\ w.fill = {}
    BY <1>2, <1>5 DEF NextSet, Walking
  <2>2. CASE w.sets = {}
    <3>1. WellSigned(r, HeardKeys, HeardDS)
      BY <2>1, <2>2, EndsSound DEF WellSigned, GoodSet, Good, Backed
    <3> QED BY <1>1, <1>5, <2>2, <3>1, Decides DEF NextSet
  <2>3. CASE w.sets # {}
    <3>1. PICK s \in w.sets : Becomes(q, [w EXCEPT !.at = "sig", !.sets = @ \ {s}, !.sigs = s])
      BY <1>5, <2>3 DEF NextSet
    <3>2. [w EXCEPT !.at = "sig", !.sets = @ \ {s}, !.sigs = s].fill = {}
      BY <1>2, <2>1 DEF Walks
    <3> QED BY <1>3, <2>1, <3>1, <3>2, NextSetSound
  <2> QED BY <2>2, <2>3
<1>6. CASE NextSig(q)
  <2>1. w.at = "sig" /\ Sound(w, r) /\ w.fill = {}
    BY <1>2, <1>6 DEF NextSig, Walking
  <2>2. CASE w.sigs = {}
    <3>1. WellSigned(r, KeysOf, DelegatedTo) => w.misled
      BY <2>1, <2>2, EndsSound DEF WellSigned, Right, Genuine, Sure
    <3> QED BY <1>1, <1>6, <2>2, <3>1, Decides DEF NextSig
  <2>3. CASE w.sigs # {}
    <3>1. PICK g \in w.sigs : Becomes(q, [w EXCEPT !.at = "keys", !.sigs = @ \ {g}, !.sig = {g}])
      BY <1>6, <2>3 DEF NextSig
    <3>2. [w EXCEPT !.at = "keys", !.sigs = @ \ {g}, !.sig = {g}].fill = {}
      BY <1>2, <2>1 DEF Walks
    <3> QED BY <1>3, <2>1, <3>1, <3>2, NextSigSound
  <2> QED BY <2>2, <2>3
<1>7. CASE TryKeys(q)
  <2>1. w.at = "try" /\ Sound(w, r) /\ w.fill = {}
    BY <1>2, <1>7 DEF TryKeys, Walking
  <2>2. PICK g \in w.sig : Becomes(q, IF Verifies(g, r) /\ g.current /\ g.key \in w.got THEN Call(w, g.key)
                                      ELSE [w EXCEPT !.at = "sig", !.got = {}])
    BY <1>7 DEF TryKeys
  <2>3. CASE Verifies(g, r) /\ g.current /\ g.key \in w.got
    <3>1. Sound(Call(w, g.key), r) /\ Call(w, g.key).fill = {}
      BY <1>2, <2>1, <2>3, TrySound, NothingToFill
    <3> QED BY <1>3, <2>2, <2>3, <3>1
  <2>4. CASE ~(Verifies(g, r) /\ g.current /\ g.key \in w.got)
    <3>1. Sound([w EXCEPT !.at = "sig", !.got = {}], r)
      BY <2>1, <2>4, TryFails
    <3>2. [w EXCEPT !.at = "sig", !.got = {}].fill = {}
      BY <1>2, <2>1 DEF Walks
    <3> QED BY <1>3, <2>2, <2>4, <3>1, <3>2
  <2> QED BY <2>3, <2>4
<1>8. CASE AtRoot(q)
  <2> DEFINE v == IF AnchorKey(Top(w).key) THEN Trusted(w) ELSE Distrusted(w)
  <2>1. w.at = "ds" /\ Sound(w, r) /\ Top(w).up = Root /\ w.fill = {} /\ Becomes(q, v)
    BY <1>2, <1>8 DEF AtRoot, Walking
  <2>2. Sound(v, r) /\ v.fill = {}
    BY <1>2, <2>1, AtRootSound, NothingToFill
  <2> QED BY <1>3, <2>1, <2>2
<1>9. CASE MatchDS(q)
  <2> DEFINE x == [w EXCEPT !.at = "parentKeys", !.got = {}]
             v == IF Top(w).key \in w.got THEN x ELSE NextName(w)
  <2>1. w.at = "match" /\ w.fill = {} /\ Sound(w, r) /\ Becomes(q, v)
    BY <1>2, <1>9 DEF MatchDS, Walking
  <2>2. x.fill = {}
    BY <1>2, <2>1 DEF Walks
  <2>3. Sound(v, r)
    BY <2>1, MatchSound
  <2>4. v.fill = {}
    BY <1>2, <2>1, <2>2, NothingToFill
  <2> QED BY <1>3, <2>1, <2>3, <2>4
<1>10. CASE TryParent(q)
  <2>1. w.at = "parents" /\ w.fill = {} /\ Sound(w, r) /\ \E v \in NextParent(w) : Becomes(q, v)
    BY <1>2, <1>10 DEF TryParent, Walking
  <2> QED BY <1>2, <1>3, <2>1, ParentsSound, NothingToFill
<1>11. CASE FetchSignerKeys(q) \/ FetchDS(q) \/ FetchParentKeys(q)
  BY <1>1, <1>11, FetchStep
<1>12. CASE Fill(q)
  BY <1>12, FillStep
<1> QED BY <1>4, <1>5, <1>6, <1>7, <1>8, <1>9, <1>10, <1>11, <1>12 DEF ValidatorStep

\* The validator's invariant: caches of what was heard, and a sound walk until each verdict
THEOREM WalkInvariant == Spec => []WalkInv
<1>1. Init => WalkInv
  <2> SUFFICES ASSUME Init PROVE WalkInv
    OBVIOUS
  <2>1. HandlerInv /\ CacheInv
    BY HandlerStart DEF Init, ValidatorInit, CacheInv, Heard
  <2>2. /\ walk \in [Queries -> Walks] /\ verdict \in [Queries -> {"none", "valid", "bogus"}]
        /\ \A q \in Queries : walk[q] = Idle /\ verdict[q] = "none"
    BY IdleWalk DEF Init, ValidatorInit
  <2>3. \A q \in Queries : pc[q] = "arrive"
    BY DEF Init, HandlerInit
  <2>4. Rank["arrive"] < Rank["dnssec"] /\ ~(Rank["arrive"] > Rank["dnssec"])
    BY DEF Rank
  <2>5. \A q \in Queries : WalkStands(q)
    BY <2>2, <2>3, <2>4 DEF WalkStands, At
  <2> QED BY <2>1, <2>2, <2>5 DEF WalkInv
<1>2. WalkInv /\ [Next]_vars => WalkInv'
  <2> SUFFICES ASSUME WalkInv, [Next]_vars PROVE WalkInv'
    OBVIOUS
  <2>1. /\ HandlerInv' /\ config' = config
        /\ \/ \E q \in Queries : Handle(q) /\ UNCHANGED now /\ (UNCHANGED handlerVars \/ Moves(q))
           \/ UNCHANGED handlerVars
    BY Steps DEF WalkInv
  <2>2. ASSUME UNCHANGED handlerVars, UNCHANGED validatorVars PROVE WalkInv'
    <3>1. \A q \in Queries : WalkStands(q)'
      BY <2>1, <2>2, StaysFound DEF WalkInv, handlerVars, validatorVars
    <3> QED BY <2>1, <2>2, <3>1 DEF WalkInv, CacheInv, Heard, validatorVars
  <2>3. ASSUME NEW q \in Queries, Handle(q), UNCHANGED now, Moves(q), ~DNSSEC(q) PROVE WalkInv'
    <3>1. ~At(q, "dnssec") /\ UNCHANGED validatorVars
      BY <2>3
         DEF Handle, Enter, Arrive, LowSlow, RecordExfil, AnalyzeExfil, C2Detection, SuspectC2, AnalyzeFlux,
             TrackFlux, TrackNameservers, BeginTrackC2, EndTrackC2, EDNSInspection, InspectOption, Report,
             NoFinding, Relay, Forward, Downgrade, At
    <3>2. WalkStands(q)'
      BY <2>1, <2>3, <3>1, PassesBy DEF validatorVars
    <3>3. ASSUME NEW p \in Queries, p # q PROVE WalkStands(p)'
      BY <2>1, <2>3, <3>1, <3>3, StaysFound DEF WalkInv, Moves, validatorVars
    <3> QED BY <2>1, <3>1, <3>2, <3>3 DEF WalkInv, CacheInv, Heard, validatorVars
  <2>4. ASSUME NEW q \in Queries, DNSSEC(q), UNCHANGED now PROVE WalkInv'
    BY <2>4, ValidatorKeeps DEF DNSSEC
  <2>5. ASSUME NEW q \in Queries, Handle(q), ~DNSSEC(q) PROVE UNCHANGED validatorVars
    BY <2>5 DEF Handle, Enter, LowSlow, C2Detection, EDNSInspection, Relay, Downgrade
  <2>6. ASSUME Cleanup \/ (Tick /\ UNCHANGED validatorVars) \/ UNCHANGED vars
        PROVE  UNCHANGED validatorVars /\ UNCHANGED handlerVars
    BY <2>6 DEF Cleanup, CleanupExfil, CleanupDowngrade, Tick, vars
  <2> QED BY <2>2, <2>3, <2>4, <2>5, <2>6, Steps DEF WalkInv, Next
<1> QED BY <1>1, <1>2, PTL DEF Spec

(* No signed response passes without a chain of keys and DS records, each one  *)
(* that a lookup may give, from a key that is taken for an anchor to a current *)
(* signature of each of its signed types, whatever the shared caches hold at   *)
(* each lookup and however the handlers fill them. With lookups that tell the  *)
(* truth, and no others with an anchor's tag, the chain is one of the truth.   *)
THEOREM AcceptedIsAnchored == Spec => []ValidIsAnchored
<1>1. WalkInv => ValidIsAnchored
  <2> SUFFICES ASSUME WalkInv, NEW q \in Queries, verdict[q] = "valid", NeedsWalk(answer[q])
               PROVE  WellSigned(answer[q], HeardKeys, HeardDS)
    BY DEF ValidIsAnchored
  <2>1. WalkStands(q) /\ pc[q] \in Stages
    BY DEF WalkInv, HandlerInv, HandlerTypeOK
  <2> QED BY <2>1 DEF WalkStands, At, Stages, Rank
<1> QED BY <1>1, WalkInvariant, PTL

(* A response whose signatures lead to an anchor by records of the keys        *)
(* themselves, one label at a time, is rejected only after a lookup or a cache *)
(* gave others: never for the order of signatures, of keys or of the walks.    *)
THEOREM RejectedForTrouble == Spec => []RejectionExplained
<1>1. WalkInv => RejectionExplained
  <2> SUFFICES ASSUME WalkInv, NEW q \in Queries, verdict[q] = "bogus",
                      NeedsWalk(answer[q]), WellSigned(answer[q], KeysOf, DelegatedTo)
               PROVE  walk[q].misled
    BY DEF RejectionExplained
  <2>1. WalkStands(q) /\ pc[q] \in Stages
    BY DEF WalkInv, HandlerInv, HandlerTypeOK
  <2> QED BY <2>1 DEF WalkStands, At, Stages, Rank
<1> QED BY <1>1, WalkInvariant, PTL

-----------------------------------------------------------------------------
(* Low-and-slow exfiltration.                                                *)

\* The query of a handler that reports its apex, or is about to, or that the
\* clock overtook between RecordQuery and Analyze
Caught(q, a) ==
    /\ ApexOf[query[q].name] = a
    /\ leak[q].reason \in {"pending", "many_subdomains"} \/ leak[q].late

\* Names last recorded in the previous window of an apex, at most a window
\* before the current one began
Before(a) ==
    {n \in Names : /\ ApexOf[n] = a /\ asked[n] >= 0
                   /\ asked[n] < exfil[a].first /\ asked[n] >= exfil[a].first - ExfilWindow}

\* A window knows the names recorded in it, and a full one has a reporter,
\* recorded no earlier than any of its names. So has the window before it.
WindowKnown(a) ==
    LET s == exfil[a] IN
    /\ s.total = 0 =>
          \A n \in Names : ApexOf[n] = a /\ asked[n] >= 0 => now - asked[n] > ExfilWindow
    /\ s.total > 0 =>
          /\ s.last - s.first <= ExfilWindow
          /\ \A n \in Names : ApexOf[n] = a /\ asked[n] >= s.first => n \in s.names /\ asked[n] <= s.last
          /\ Cardinality(s.names) >= MaxSubdomains =>
                \E q \in Queries : Caught(q, a) /\ leak[q].recorded = s.last
          /\ IsFiniteSet(Before(a))
          /\ Cardinality(Before(a)) >= MaxSubdomains =>
                \E q \in Queries :
                    /\ Caught(q, a) /\ leak[q].recorded < s.first
                    /\ \A n \in Before(a) : asked[n] <= leak[q].recorded

Domains ==
    [names : SUBSET Names, times : Seq(Nat), total : Nat, first : Nat, last : Nat]

Leaks ==
    [recorded : Nat, late : BOOLEAN,
     reason : {"none", "pending", "many_subdomains", "beaconing", "high_volume"}]

ExfilTyped ==
    /\ exfil \in [Apexes -> Domains]
    /\ \A a \in Apexes : /\ exfil[a].first <= exfil[a].last /\ exfil[a].last <= now
                         /\ IsFiniteSet(exfil[a].names)
                         /\ Len(exfil[a].times) <= exfil[a].total
    /\ asked \in [Names -> -1..now]
    /\ leak \in [Queries -> Leaks]
    /\ \A q \in Queries : leak[q].recorded <= now

ExfilInv ==
    /\ HandlerInv
    /\ ExfilTyped
    /\ \A q \in Queries : Rank[pc[q]] <= Rank["lowslow"] => leak[q].reason = "none" /\ ~leak[q].late
    /\ \A a \in Apexes : WindowKnown(a)

\* Induction over the naturals, on a set
LEMMA NatInduct ==
    ASSUME NEW S, 0 \in S, \A n \in Nat : n \in S => n + 1 \in S
    PROVE  Nat \subseteq S
<1> DEFINE R == OpToRel(<, Nat)
<1> SUFFICES ASSUME Nat \ S # {} PROVE FALSE
  OBVIOUS
<1>1. PICK m \in Nat \ S : \A x \in Nat \ S : <<x, m>> \notin R
  <2>1. IsWellFoundedOn(R, Nat)
    BY NatLessThanWellFounded
  <2>2. Nat \ S \subseteq Nat
    OBVIOUS
  <2> HIDE DEF R
  <2> QED BY <2>1, <2>2, WFMin
<1>2. m # 0 /\ m - 1 \in Nat /\ m - 1 < m
  OBVIOUS
<1>3. <<m - 1, m>> \in R
  BY <1>2 DEF OpToRel
<1>4. m - 1 \in S
  BY <1>1, <1>2, <1>3
<1>5. (m - 1) + 1 = m
  OBVIOUS
<1> QED BY <1>1, <1>2, <1>4, <1>5

\* Pruning leaves a sequence of some of the times.
LEMMA PrunedType ==
    ASSUME NEW times \in Seq(Nat)
    PROVE  Pruned(times) \in Seq(Nat) /\ Len(Pruned(times)) <= Len(times)
<1> DEFINE N == Len(times)
           Keeps(i) == times[i] > now - ExfilWindow
           kept[i \in 0..N] ==
              IF i = 0 THEN <<>> ELSE IF Keeps(i) THEN Append(kept[i - 1], times[i]) ELSE kept[i - 1]
           Step(g, i) ==
              IF i = 0 THEN <<>> ELSE IF Keeps(i) THEN Append(g[i - 1], times[i]) ELSE g[i - 1]
           Prefix(n, g) == g = [i \in 0..n |-> Step(g, i)]
           D == {n \in Nat : n <= N => \E g : Prefix(n, g)}
<1>1. Pruned(times) = kept[N] /\ N \in Nat
  BY DEF Pruned
<1>2. kept = CHOOSE g : Prefix(N, g)
  BY DEF kept
<1>3. 0 \in D
  <2>1. Prefix(0, [i \in 0..0 |-> <<>>])
    <3>1. \A i \in 0..0 : i = 0
      OBVIOUS
    <3> HIDE DEF Keeps
    <3> QED BY <3>1
  <2> HIDE DEF Prefix
  <2> QED BY <2>1
<1>4. \A n \in Nat : n \in D => n + 1 \in D
  <2> SUFFICES ASSUME NEW n \in Nat, n <= N => \E g : Prefix(n, g), n + 1 <= N
               PROVE  \E g : Prefix(n + 1, g)
    <3> HIDE DEF Prefix
    <3> QED OBVIOUS
  <2>1. PICK g : Prefix(n, g)
    <3> HIDE DEF Prefix, N
    <3> QED BY <1>1
  <2> DEFINE h == [i \in 0..(n + 1) |-> IF i <= n THEN g[i] ELSE Step(g, i)]
  <2>2. \A i \in 0..(n + 1) : Step(h, i) = Step(g, i)
    <3>1. \A i \in 1..(n + 1) : h[i - 1] = g[i - 1]
      OBVIOUS
    <3> HIDE DEF h, Keeps
    <3> QED BY <3>1
  <2>3. \A i \in 0..n : g[i] = Step(g, i)
    BY <2>1
  <2>4. h = [i \in 0..(n + 1) |-> Step(g, i)]
    <3> HIDE DEF Step
    <3> QED BY <2>3
  <2>5. Prefix(n + 1, h)
    <3> HIDE DEF h, Step
    <3> QED BY <2>2, <2>4
  <2> QED BY <2>5
<1>5. N \in D
  <2> HIDE DEF D, N
  <2> QED BY <1>1, <1>3, <1>4, NatInduct
<1>6. Prefix(N, kept)
  <2>1. \E g : Prefix(N, g)
    BY <1>1, <1>5
  <2> HIDE DEF Prefix, kept
  <2> QED BY <1>2, <2>1
<1>7. \A i \in 0..N : kept[i] = Step(kept, i)
  <2> HIDE DEF Step, kept, N
  <2> QED BY <1>6
<1> HIDE DEF kept
<1> DEFINE E == {n \in Nat : n <= N => kept[n] \in Seq(Nat) /\ Len(kept[n]) <= n}
<1>8. 0 \in E
  <2>1. kept[0] = <<>>
    BY <1>1, <1>7
  <2>2. kept[0] \in Seq(Nat) /\ Len(kept[0]) <= 0
    BY <2>1
  <2> HIDE DEF N
  <2> QED BY <2>2
<1>9. \A n \in Nat : n \in E => n + 1 \in E
  <2> SUFFICES ASSUME NEW n \in Nat, kept[n] \in Seq(Nat), Len(kept[n]) <= n, n + 1 <= N
               PROVE  kept[n + 1] \in Seq(Nat) /\ Len(kept[n + 1]) <= n + 1
    BY <1>1
  <2>1. kept[n + 1] = IF Keeps(n + 1) THEN Append(kept[n], times[n + 1]) ELSE kept[n]
    BY <1>1, <1>7
  <2>2. times[n + 1] \in Nat
    OBVIOUS
  <2> HIDE DEF Keeps
  <2> QED BY <2>1, <2>2
<1>10. N \in E
  <2> HIDE DEF E, N
  <2> QED BY <1>1, <1>8, <1>9, NatInduct
<1>11. kept[N] \in Seq(Nat) /\ Len(kept[N]) <= N
  BY <1>1, <1>10
<1> QED BY <1>1, <1>11

\* What the types of one apex's record come to
LEMMA WindowTyped ==
    ASSUME HandlerInv, ExfilTyped, NEW a \in Apexes
    PROVE  /\ now \in Nat /\ exfil[a] \in Domains /\ IsFiniteSet(exfil[a].names)
           /\ exfil[a].total \in Nat /\ exfil[a].first \in Nat /\ exfil[a].last \in Nat
           /\ exfil[a].first <= exfil[a].last /\ exfil[a].last <= now
           /\ exfil[a].names \in SUBSET Names /\ exfil[a].times \in Seq(Nat)
           /\ \A n \in Names : asked[n] \in Int /\ asked[n] <= now
           /\ \A q \in Queries : leak[q] \in Leaks /\ leak[q].recorded \in Nat /\ leak[q].recorded <= now
           /\ MaxSubdomains \in Nat /\ MaxSubdomains > 0 /\ ExfilWindow \in Nat /\ ExfilWindow > 0
<1>1. now \in Nat /\ exfil[a] \in Domains
  BY DEF HandlerInv, ExfilTyped
<1>2. \A n \in Names : asked[n] \in Int /\ asked[n] <= now
  BY <1>1 DEF ExfilTyped
<1>3. \A q \in Queries : leak[q] \in Leaks /\ leak[q].recorded \in Nat /\ leak[q].recorded <= now
  BY DEF ExfilTyped, Leaks
<1> QED BY <1>1, <1>2, <1>3, ExfilAssumption DEF ExfilTyped, Domains

\* A window that no step touches stays known, as long as its reporters stay.
LEMMA SameWindow ==
    ASSUME HandlerInv, ExfilTyped, NEW a \in Apexes, WindowKnown(a), now' \in {now, now + 1},
           exfil'[a] = exfil[a], \A n \in Names : ApexOf[n] = a => asked'[n] = asked[n],
           \A q \in Queries : Caught(q, a) => Caught(q, a)' /\ leak'[q].recorded = leak[q].recorded
    PROVE  WindowKnown(a)'
<1> DEFINE s == exfil[a]
<1>1. Before(a)' = Before(a)
  BY DEF Before
<1>2. CASE s.total = 0
  <2>1. \A n \in Names : ApexOf[n] = a /\ asked[n] >= 0 => now - asked[n] > ExfilWindow
    BY <1>2 DEF WindowKnown
  <2>2. \A n \in Names : ApexOf[n] = a /\ asked'[n] >= 0 => now' - asked'[n] > ExfilWindow
    BY <2>1, WindowTyped
  <2> QED BY <1>2, <2>2 DEF WindowKnown
<1>3. CASE s.total # 0
  <2>1. /\ s.last - s.first <= ExfilWindow
        /\ \A n \in Names : ApexOf[n] = a /\ asked[n] >= s.first => n \in s.names /\ asked[n] <= s.last
        /\ Cardinality(s.names) >= MaxSubdomains =>
              \E q \in Queries : Caught(q, a) /\ leak[q].recorded = s.last
        /\ IsFiniteSet(Before(a))
        /\ Cardinality(Before(a)) >= MaxSubdomains =>
              \E q \in Queries :
                  /\ Caught(q, a) /\ leak[q].recorded < s.first
                  /\ \A n \in Before(a) : asked[n] <= leak[q].recorded
    BY <1>3, WindowTyped DEF WindowKnown
  <2>2. Cardinality(s.names) >= MaxSubdomains =>
              \E q \in Queries : Caught(q, a)' /\ leak'[q].recorded = s.last
    BY <2>1
  <2>3. \A n \in Before(a) : asked'[n] = asked[n]
    BY DEF Before
  <2>4. Cardinality(Before(a)) >= MaxSubdomains =>
              \E q \in Queries :
                  /\ Caught(q, a)' /\ leak'[q].recorded < s.first
                  /\ \A n \in Before(a) : asked'[n] <= leak'[q].recorded
    BY <2>1, <2>3
  <2> HIDE DEF s
  <2> QED BY <1>1, <1>3, <2>1, <2>2, <2>4 DEF WindowKnown, s
<1> QED BY <1>2, <1>3

\* Nothing has been recorded at the start.
LEMMA ExfilStart == Init => ExfilInv
<1> SUFFICES ASSUME Init PROVE ExfilInv
  OBVIOUS
<1>1. HandlerInv
  BY HandlerStart
<1>2. now = 0 /\ ExfilInit
  BY DEF Init, ClockInit
<1>3. NoExfil \in Domains /\ IsFiniteSet(NoExfil.names) /\ Len(NoExfil.times) <= NoExfil.total
  BY FS_EmptySet DEF NoExfil, Domains
<1>4. \A a \in Apexes : exfil[a] = NoExfil
  BY <1>2 DEF ExfilInit
<1>5. ExfilTyped
  <2>1. NoExfil.first = 0 /\ NoExfil.last = 0
    BY DEF NoExfil
  <2>2. exfil \in [Apexes -> Domains]
    BY <1>2, <1>3 DEF ExfilInit
  <2>3. asked \in [Names -> -1..now]
    BY <1>2 DEF ExfilInit
  <2>4. leak \in [Queries -> Leaks] /\ \A q \in Queries : leak[q].recorded <= now
    BY <1>2 DEF ExfilInit, Leaks
  <2> QED BY <1>2, <1>3, <1>4, <2>1, <2>2, <2>3, <2>4 DEF ExfilTyped
<1>6. \A a \in Apexes : WindowKnown(a)
  BY <1>2, <1>4 DEF WindowKnown, ExfilInit, NoExfil
<1> QED BY <1>1, <1>2, <1>5, <1>6 DEF ExfilInv, ExfilInit

\* What RecordQuery makes of an apex
LEMMA RecordedTyped ==
    ASSUME HandlerInv, ExfilTyped, NEW a \in Apexes, NEW n \in Names, NEW r, r = Recorded(exfil[a], n)
    PROVE  /\ r \in Domains /\ IsFiniteSet(r.names) /\ Len(r.times) <= r.total
           /\ r.total > 0 /\ r.last = now /\ r.first <= now /\ n \in r.names
<1> DEFINE s == exfil[a]
<1>1. s \in Domains /\ IsFiniteSet(s.names) /\ now \in Nat /\ s.first <= now /\ Len(s.times) <= s.total
  BY WindowTyped DEF ExfilTyped
<1>2. CASE s.total = 0 \/ Expired(s)
  <2>1. r = [names |-> {n}, times |-> <<now>>, total |-> 1, first |-> now, last |-> now]
    BY <1>2 DEF Recorded
  <2>2. <<now>> \in Seq(Nat) /\ Len(<<now>>) = 1
    BY <1>1
  <2>3. /\ r.names = {n} /\ r.times = <<now>> /\ r.total = 1 /\ r.first = now /\ r.last = now
        /\ r \in Domains
    BY <1>1, <2>1, <2>2 DEF Domains
  <2>4. IsFiniteSet({n})
    BY FS_Singleton
  <2> QED BY <1>1, <2>2, <2>3, <2>4
<1>3. CASE ~(s.total = 0 \/ Expired(s))
  <2>1. r = [names |-> s.names \union {n}, times |-> Pruned(Append(s.times, now)),
             total |-> s.total + 1, first |-> s.first, last |-> now]
    BY <1>3 DEF Recorded, Counted
  <2>2. s.times \in Seq(Nat) /\ s.total \in Nat /\ s.first \in Nat
    BY <1>1 DEF Domains
  <2>3. Append(s.times, now) \in Seq(Nat) /\ Len(Append(s.times, now)) = Len(s.times) + 1
    BY <1>1, <2>2
  <2>4. Pruned(Append(s.times, now)) \in Seq(Nat) /\ Len(Pruned(Append(s.times, now))) <= s.total + 1
    <3>1. Pruned(Append(s.times, now)) \in Seq(Nat)
          /\ Len(Pruned(Append(s.times, now))) <= Len(Append(s.times, now))
      BY <2>3, PrunedType
    <3> QED BY <1>1, <2>2, <2>3, <3>1
  <2>5. IsFiniteSet(s.names \union {n}) /\ s.names \union {n} \in SUBSET Names
    BY <1>1, FS_AddElement DEF Domains
  <2> QED BY <1>1, <2>1, <2>2, <2>4, <2>5 DEF Domains
<1> QED BY <1>2, <1>3

\* Two sets that together have 2k - 1 elements: one of them has k.
LEMMA OneHasHalf ==
    ASSUME NEW S, NEW T, NEW k \in Nat, IsFiniteSet(S), IsFiniteSet(T),
           Cardinality(S \union T) >= 2 * k - 1
    PROVE  Cardinality(S) >= k \/ Cardinality(T) >= k
<1>1. Cardinality(S \union T) = Cardinality(S) + Cardinality(T) - Cardinality(S \intersect T)
  BY FS_Union
<1>2. Cardinality(S) \in Nat /\ Cardinality(T) \in Nat
  BY FS_CardinalityType
<1>3. Cardinality(S \intersect T) \in Nat
  BY FS_Intersection, FS_CardinalityType
<1> QED BY <1>1, <1>2, <1>3

\* The parts of WindowKnown, of the window after a step
LEMMA WindowMade ==
    ASSUME NEW a, exfil'[a].total > 0, exfil'[a].last - exfil'[a].first <= ExfilWindow,
           \A m \in Names : ApexOf[m] = a /\ asked'[m] >= exfil'[a].first =>
               m \in exfil'[a].names /\ asked'[m] <= exfil'[a].last,
           Cardinality(exfil'[a].names) >= MaxSubdomains =>
               \E p \in Queries : Caught(p, a)' /\ leak'[p].recorded = exfil'[a].last,
           IsFiniteSet(Before(a)'),
           Cardinality(Before(a)') >= MaxSubdomains =>
               \E p \in Queries :
                   /\ Caught(p, a)' /\ leak'[p].recorded < exfil'[a].first
                   /\ \A m \in Before(a)' : asked'[m] <= leak'[p].recorded
    PROVE  WindowKnown(a)'
<1>1. exfil'[a].total # 0
  OBVIOUS
<1> QED BY <1>1 DEF WindowKnown

\* RecordQuery goes on with the window, or it begins a new one, and then what
\* the names of the old one were asked for matters no more than a window long.
LEMMA WindowRecorded ==
    ASSUME HandlerInv, ExfilTyped, NEW q \in Queries, RecordExfil(q), UNCHANGED now, HandlerInv',
           NEW n \in Names, n = query[q].name, NEW a \in Apexes, a = ApexOf[n], WindowKnown(a),
           \A p \in Queries : Caught(p, a) => p # q
    PROVE  WindowKnown(a)'
<1> DEFINE s == exfil[a]
           r == exfil'[a]
           M == MaxSubdomains
           W == ExfilWindow
<1>0. /\ now \in Nat /\ s.first \in Nat /\ s.last \in Nat /\ s.total \in Nat
      /\ s.first <= s.last /\ s.last <= now /\ W \in Nat /\ W > 0 /\ M \in Nat /\ M > 0
      /\ IsFiniteSet(s.names)
  BY WindowTyped
<1>0a. \A m \in Names : asked[m] \in Int /\ asked[m] <= now
  BY WindowTyped
<1>0b. now \in Nat /\ ~(now < now)
  BY WindowTyped
<1>0c. M \in Nat /\ ~(0 >= M)
  BY ExfilAssumption
<1>1. /\ exfil' = [exfil EXCEPT ![a] = Recorded(@, n)]
      /\ asked' = [asked EXCEPT ![n] = now]
      /\ leak' = [leak EXCEPT ![q] = [recorded |-> now, late |-> FALSE, reason |-> "pending"]]
      /\ UNCHANGED query
  BY DEF RecordExfil
<1>2. r = Recorded(s, n)
  BY <1>1 DEF ExfilTyped
<1>3. r.total > 0 /\ r.last = now /\ n \in r.names
  BY <1>2, RecordedTyped
<1>4. asked'[n] = now /\ \A m \in Names \ {n} : asked'[m] = asked[m]
  BY <1>1 DEF ExfilTyped
<1>5. /\ leak'[q].recorded = now /\ Caught(q, a)'
      /\ \A p \in Queries \ {q} : leak'[p] = leak[p]
  BY <1>1 DEF ExfilTyped, Caught
<1>6. \A p \in Queries : Caught(p, a) => Caught(p, a)' /\ leak'[p].recorded = leak[p].recorded
  BY <1>1, <1>5 DEF Caught
<1>7. Cardinality(r.names) >= M =>
          \E p \in Queries : Caught(p, a)' /\ leak'[p].recorded = r.last
  BY <1>3, <1>5
<1>8. CASE s.total = 0
  <2>1. r.first = now
    BY <1>2, <1>8 DEF Recorded
  <2>2. \A m \in Names : ApexOf[m] = a /\ asked[m] >= 0 => now - asked[m] > W
    BY <1>8 DEF WindowKnown
  <2>3. Before(a)' = {}
    <3> SUFFICES ASSUME NEW m \in Before(a)' PROVE FALSE
      OBVIOUS
    <3>1. m \in Names /\ ApexOf[m] = a /\ asked'[m] < now /\ asked'[m] >= now - W /\ asked'[m] >= 0
      BY <2>1 DEF Before
    <3>2. m # n /\ asked'[m] = asked[m]
      BY <1>0b, <1>4, <3>1
    <3> HIDE DEF s
    <3> QED BY <1>0, <1>0a, <2>2, <3>1, <3>2
  <2>4. IsFiniteSet({}) /\ Cardinality({}) = 0
    BY FS_EmptySet
  <2>5. \A m \in Names : ApexOf[m] = a /\ asked'[m] >= r.first => m \in r.names /\ asked'[m] <= r.last
    <3>1. \A m \in Names \ {n} : ~(ApexOf[m] = a /\ asked[m] >= now)
      <4> HIDE DEF s
      <4> QED BY <1>0, <1>0a, <2>2
    <3> HIDE DEF r, s
    <3>2. now <= r.last
      BY <1>0, <1>3
    <3> QED BY <1>3, <1>4, <2>1, <3>1, <3>2
  <2>6. r.last - r.first <= W
    <3> HIDE DEF r, s
    <3> QED BY <1>0, <1>3, <2>1
  <2>7. Cardinality(Before(a)') >= M => FALSE
    <3>1. Cardinality(Before(a)') = 0
      BY <2>3, <2>4
    <3> QED BY <1>0c, <3>1
  <2> QED BY <1>3, <1>7, <2>3, <2>4, <2>5, <2>6, <2>7, WindowMade
<1>9. CASE s.total > 0 /\ Expired(s)
  <2>1. r.first = now
    BY <1>2, <1>9 DEF Recorded
  <2>2. now - s.first > W
    BY <1>9 DEF Expired
  <2>3. /\ s.last - s.first <= W
        /\ \A m \in Names : ApexOf[m] = a /\ asked[m] >= s.first => m \in s.names /\ asked[m] <= s.last
        /\ Cardinality(s.names) >= M => \E p \in Queries : Caught(p, a) /\ leak[p].recorded = s.last
    BY <1>9 DEF WindowKnown
  <2>4. \A m \in Before(a)' : m \in s.names /\ asked'[m] = asked[m] /\ asked[m] <= s.last
    <3> SUFFICES ASSUME NEW m \in Before(a)'
                 PROVE  m \in s.names /\ asked'[m] = asked[m] /\ asked[m] <= s.last
      OBVIOUS
    <3>1. m \in Names /\ ApexOf[m] = a /\ asked'[m] < now /\ asked'[m] >= now - W
      BY <2>1 DEF Before
    <3>2. asked'[m] = asked[m]
      BY <1>0b, <1>4, <3>1
    <3>3. asked[m] >= s.first
      <4> HIDE DEF s
      <4> QED BY <1>0, <1>0a, <2>2, <3>1, <3>2
    <3> QED BY <2>3, <3>1, <3>2, <3>3
  <2>5. IsFiniteSet(Before(a)') /\ Cardinality(Before(a)') <= Cardinality(s.names)
    BY <1>0, <2>4, FS_Subset
  <2>6. s.last < now
    <3> HIDE DEF s
    <3> QED BY <1>0, <2>2, <2>3
  <2>7. Cardinality(Before(a)') >= M =>
            \E p \in Queries :
                /\ Caught(p, a)' /\ leak'[p].recorded < r.first
                /\ \A m \in Before(a)' : asked'[m] <= leak'[p].recorded
    <3> SUFFICES ASSUME Cardinality(Before(a)') >= M
                 PROVE  \E p \in Queries :
                            /\ Caught(p, a)' /\ leak'[p].recorded < r.first
                            /\ \A m \in Before(a)' : asked'[m] <= leak'[p].recorded
      OBVIOUS
    <3>1. Cardinality(s.names) >= M
      <4>1. Cardinality(Before(a)') \in Nat /\ Cardinality(s.names) \in Nat
        BY <1>0, <2>5, FS_CardinalityType
      <4> DEFINE i == Cardinality(Before(a)')
                 j == Cardinality(s.names)
      <4>2. i >= M /\ i <= j /\ i \in Nat /\ j \in Nat /\ M \in Nat
        BY <1>0, <2>5, <4>1
      <4>3. j >= M
        <5> HIDE DEF i, j, M
        <5> QED BY <4>2
      <4> QED BY <4>3
    <3>2. PICK p \in Queries : Caught(p, a) /\ leak[p].recorded = s.last
      BY <2>3, <3>1
    <3>3. Caught(p, a)' /\ leak'[p].recorded = s.last
      BY <1>6, <3>2
    <3> QED BY <2>1, <2>4, <2>6, <3>3
  <2>8. \A m \in Names : ApexOf[m] = a /\ asked'[m] >= r.first => m \in r.names /\ asked'[m] <= r.last
    <3> SUFFICES ASSUME NEW m \in Names, m # n, ApexOf[m] = a, asked[m] >= now PROVE FALSE
      <4> HIDE DEF r, s
      <4> QED BY <1>0, <1>3, <1>4, <2>1
    <3> HIDE DEF s
    <3> QED BY <1>0, <1>0a, <2>3, <2>6
  <2>9. r.last - r.first <= W
    <3> HIDE DEF r, s
    <3> QED BY <1>0, <1>0b, <1>3, <2>1
  <2> QED BY <1>3, <1>7, <2>5, <2>7, <2>8, <2>9, WindowMade
<1>10. CASE s.total > 0 /\ ~Expired(s)
  <2>0. s.total # 0
    BY <1>10
  <2>1. r.first = s.first /\ r.names = s.names \union {n}
    <3>1. r = [names |-> s.names \union {n}, times |-> Pruned(Append(s.times, now)),
               total |-> s.total + 1, first |-> s.first, last |-> now]
      BY <1>2, <1>10, <2>0 DEF Recorded, Counted
    <3> HIDE DEF r
    <3> QED BY <3>1
  <2>2. /\ \A m \in Names : ApexOf[m] = a /\ asked[m] >= s.first => m \in s.names /\ asked[m] <= s.last
        /\ IsFiniteSet(Before(a))
        /\ Cardinality(Before(a)) >= M =>
              \E p \in Queries :
                  /\ Caught(p, a) /\ leak[p].recorded < s.first
                  /\ \A m \in Before(a) : asked[m] <= leak[p].recorded
    BY <1>10 DEF WindowKnown
  <2>3. r.last - r.first <= W
    <3>1. ~(now - s.first > W)
      BY <1>10 DEF Expired
    <3> HIDE DEF r, s
    <3> QED BY <1>0, <1>3, <2>1, <3>1
  <2>4. \A m \in Names : ApexOf[m] = a /\ asked'[m] >= r.first => m \in r.names /\ asked'[m] <= r.last
    <3> SUFFICES ASSUME NEW m \in Names, ApexOf[m] = a, asked'[m] >= r.first
                 PROVE  m \in r.names /\ asked'[m] <= r.last
      OBVIOUS
    <3> HIDE DEF r, s
    <3>1. CASE m = n
      BY <1>0, <1>3, <1>4, <3>1
    <3>2. CASE m # n
      BY <1>0, <1>0a, <1>3, <1>4, <2>1, <2>2, <3>2
    <3> QED BY <3>1, <3>2
  <2>5. \A m \in Before(a)' : m \in Before(a) /\ asked'[m] = asked[m]
    <3> SUFFICES ASSUME NEW m \in Before(a)' PROVE m \in Before(a) /\ asked'[m] = asked[m]
      OBVIOUS
    <3>0. asked'[m] < s.first
      <4> HIDE DEF s
      <4> QED BY <2>1 DEF Before
    <3>1. m # n
      <4> HIDE DEF s
      <4> QED BY <1>0, <1>4, <3>0
    <3> QED BY <1>4, <2>1, <3>1 DEF Before
  <2>6. IsFiniteSet(Before(a)') /\ Cardinality(Before(a)') <= Cardinality(Before(a))
    BY <2>2, <2>5, FS_Subset
  <2>7. Cardinality(Before(a)') >= M =>
            \E p \in Queries :
                /\ Caught(p, a)' /\ leak'[p].recorded < r.first
                /\ \A m \in Before(a)' : asked'[m] <= leak'[p].recorded
    <3> SUFFICES ASSUME Cardinality(Before(a)') >= M
                 PROVE  \E p \in Queries :
                            /\ Caught(p, a)' /\ leak'[p].recorded < r.first
                            /\ \A m \in Before(a)' : asked'[m] <= leak'[p].recorded
      OBVIOUS
    <3>1. Cardinality(Before(a)) >= M
      <4>1. Cardinality(Before(a)') \in Nat /\ Cardinality(Before(a)) \in Nat
        BY <2>2, <2>6, FS_CardinalityType
      <4> DEFINE i == Cardinality(Before(a)')
                 j == Cardinality(Before(a))
      <4>2. i >= M /\ i <= j /\ i \in Nat /\ j \in Nat /\ M \in Nat
        BY <1>0, <2>6, <4>1
      <4>3. j >= M
        <5> HIDE DEF i, j, M
        <5> QED BY <4>2
      <4> QED BY <4>3
    <3>2. PICK p \in Queries : /\ Caught(p, a) /\ leak[p].recorded < s.first
                               /\ \A m \in Before(a) : asked[m] <= leak[p].recorded
      BY <2>2, <3>1
    <3>3. Caught(p, a)' /\ leak'[p].recorded = leak[p].recorded
      BY <1>6, <3>2
    <3> QED BY <2>1, <2>5, <3>2, <3>3
  <2> QED BY <1>3, <1>7, <2>3, <2>4, <2>6, <2>7, WindowMade
<1>11. s.total = 0 \/ s.total > 0
  <2> HIDE DEF s
  <2> QED BY <1>0
<1> QED BY <1>8, <1>9, <1>10, <1>11

\* RecordQuery keeps the invariant of the low-and-slow detector.
LEMMA ExfilRecords ==
    ASSUME ExfilInv, NEW q \in Queries, RecordExfil(q), UNCHANGED now, HandlerInv', Moves(q)
    PROVE  ExfilInv'
<1> DEFINE n == query[q].name
           a == ApexOf[n]
<1>1. /\ exfil' = [exfil EXCEPT ![a] = Recorded(@, n)]
      /\ asked' = [asked EXCEPT ![n] = now]
      /\ leak' = [leak EXCEPT ![q] = [recorded |-> now, late |-> FALSE, reason |-> "pending"]]
      /\ UNCHANGED query /\ At(q, "lowslow")
  BY DEF RecordExfil
<1>2. n \in Names /\ a \in Apexes /\ now \in Nat
  BY HandlerAssumption DEF ExfilInv, HandlerInv, HandlerTypeOK, Apexes
<1>3. ~Caught(q, a) /\ \A b \in Apexes : ~Caught(q, b)
  BY <1>1 DEF ExfilInv, At, Rank, Caught
<1>4. ExfilTyped'
  <2>1. PICK r : r = Recorded(exfil[a], n)
    OBVIOUS
  <2>2. /\ r \in Domains /\ IsFiniteSet(r.names) /\ Len(r.times) <= r.total
        /\ r.last = now /\ r.first <= now
    BY <1>2, <2>1, RecordedTyped DEF ExfilInv
  <2>3. exfil' = [exfil EXCEPT ![a] = r]
    BY <1>1, <2>1
  <2>4. exfil' \in [Apexes -> Domains]
        /\ \A b \in Apexes : exfil'[b] = IF b = a THEN r ELSE exfil[b]
    BY <2>2, <2>3 DEF ExfilInv, ExfilTyped
  <2>5. \A b \in Apexes : /\ exfil'[b].first <= exfil'[b].last /\ exfil'[b].last <= now
                          /\ IsFiniteSet(exfil'[b].names) /\ Len(exfil'[b].times) <= exfil'[b].total
    BY <1>2, <2>2, <2>4 DEF ExfilInv, ExfilTyped
  <2>6. asked' \in [Names -> -1..now]
    BY <1>1, <1>2 DEF ExfilInv, ExfilTyped
  <2>7. leak' \in [Queries -> Leaks] /\ \A p \in Queries : leak'[p].recorded <= now
    BY <1>1, <1>2 DEF ExfilInv, ExfilTyped, Leaks
  <2> QED BY <2>4, <2>5, <2>6, <2>7 DEF ExfilTyped
<1>5. ASSUME NEW p \in Queries, Rank[pc'[p]] <= Rank["lowslow"]
      PROVE  leak'[p].reason = "none" /\ ~leak'[p].late
  <2>1. p # q
    BY <1>1, <1>5 DEF Moves, At, Rank, HandlerInv, HandlerTypeOK, Stages
  <2>2. pc'[p] = pc[p] /\ leak'[p] = leak[p]
    BY <1>1, <2>1 DEF Moves, ExfilInv, ExfilTyped
  <2> QED BY <1>5, <2>2 DEF ExfilInv
<1>6. ASSUME NEW b \in Apexes PROVE WindowKnown(b)'
  <2>1. CASE b = a
    BY <1>2, <1>3, <2>1, WindowRecorded DEF ExfilInv
  <2>2. CASE b # a
    <3>1. exfil'[b] = exfil[b] /\ \A m \in Names : ApexOf[m] = b => asked'[m] = asked[m]
      BY <1>1, <2>2 DEF ExfilInv, ExfilTyped
    <3>2. \A p \in Queries : Caught(p, b) => Caught(p, b)' /\ leak'[p].recorded = leak[p].recorded
      BY <1>1, <1>3 DEF ExfilInv, ExfilTyped, Caught
    <3> QED BY <3>1, <3>2, SameWindow DEF ExfilInv
  <2> QED BY <2>1, <2>2
<1> QED BY <1>4, <1>5, <1>6 DEF ExfilInv

\* Analyze reports what the window holds, unless the clock has moved on since
\* RecordQuery: one that was to report it still does.
LEMMA ExfilAnalyzes ==
    ASSUME ExfilInv, NEW q \in Queries, AnalyzeExfil(q), UNCHANGED now, HandlerInv', Moves(q)
    PROVE  ExfilInv'
<1> DEFINE a == ApexOf[query[q].name]
           s == exfil[a]
<1>1. /\ leak' = [leak EXCEPT ![q].late = now > leak[q].recorded, ![q].reason = Reason(s)]
      /\ At(q, "leak") /\ UNCHANGED <<query, exfil, asked>>
  BY DEF AnalyzeExfil
<1>2. a \in Apexes /\ now \in Nat
  BY HandlerAssumption DEF ExfilInv, HandlerInv, HandlerTypeOK, Apexes
<1>3. Reason(s) \in {"none", "pending", "many_subdomains", "beaconing", "high_volume"}
  BY DEF Reason
<1>4. /\ \A p \in Queries : leak'[p].recorded = leak[p].recorded
      /\ \A p \in Queries \ {q} : leak'[p] = leak[p]
      /\ leak' \in [Queries -> Leaks]
      /\ leak'[q].late = (now > leak[q].recorded) /\ leak'[q].reason = Reason(s)
  <2> DEFINE late == now > leak[q].recorded
             w == [leak[q] EXCEPT !.late = late, !.reason = Reason(s)]
  <2>1. leak \in [Queries -> Leaks] /\ leak[q] \in Leaks
    BY DEF ExfilInv, ExfilTyped
  <2>2. leak' = [leak EXCEPT ![q] = w]
    BY <1>1, <2>1, Zenon
  <2>3. late \in BOOLEAN
    OBVIOUS
  <2> HIDE DEF late
  <2>4. w \in Leaks /\ w.recorded = leak[q].recorded /\ w.late = late /\ w.reason = Reason(s)
    BY <1>3, <2>1, <2>3 DEF Leaks
  <2> HIDE DEF w
  <2> QED BY <2>1, <2>2, <2>4 DEF late
<1>5. ExfilTyped'
  BY <1>1, <1>4 DEF ExfilInv, ExfilTyped
<1>6. ASSUME NEW p \in Queries, Rank[pc'[p]] <= Rank["lowslow"]
      PROVE  leak'[p].reason = "none" /\ ~leak'[p].late
  <2>1. p # q
    BY <1>1, <1>6 DEF Moves, At, Rank, HandlerInv, HandlerTypeOK, Stages
  <2>2. pc'[p] = pc[p] /\ leak'[p] = leak[p]
    BY <1>4, <2>1 DEF Moves
  <2> QED BY <1>6, <2>2 DEF ExfilInv
<1>7. ASSUME NEW b \in Apexes PROVE WindowKnown(b)'
  <2> DEFINE t == exfil[b]
  <2>1. \A p \in Queries \ {q} : Caught(p, b) => Caught(p, b)'
    BY <1>1, <1>4 DEF Caught
  <2>2. Caught(q, b) /\ leak[q].recorded < now => Caught(q, b)'
    BY <1>1, <1>4, Zenon DEF Caught
  <2>3. CASE t.total = 0
    BY <1>1, <2>3 DEF WindowKnown, ExfilInv
  <2>4. CASE t.total > 0
    <3>1. /\ t.last - t.first <= ExfilWindow
          /\ \A m \in Names : ApexOf[m] = b /\ asked[m] >= t.first => m \in t.names /\ asked[m] <= t.last
          /\ Cardinality(t.names) >= MaxSubdomains =>
                \E p \in Queries : Caught(p, b) /\ leak[p].recorded = t.last
          /\ IsFiniteSet(Before(b))
          /\ Cardinality(Before(b)) >= MaxSubdomains =>
                \E p \in Queries :
                    /\ Caught(p, b) /\ leak[p].recorded < t.first
                    /\ \A m \in Before(b) : asked[m] <= leak[p].recorded
      BY <2>4 DEF WindowKnown, ExfilInv
    <3>2. Before(b)' = Before(b)
      BY <1>1 DEF Before
    <3>3. ASSUME Cardinality(t.names) >= MaxSubdomains
          PROVE  \E p \in Queries : Caught(p, b)' /\ leak'[p].recorded = t.last
      <4>1. PICK p \in Queries : Caught(p, b) /\ leak[p].recorded = t.last
        BY <3>1, <3>3
      <4>2. Caught(p, b)'
        <5>1. CASE p # q
          BY <2>1, <4>1, <5>1
        <5>2. CASE p = q /\ t.last < now
          BY <2>2, <4>1, <5>2
        <5>3. CASE p = q /\ t.last = now
          <6>1. b = a
            BY <4>1, <5>3 DEF Caught
          <6>2. t.total # 0 /\ ~Expired(t)
            BY <2>4, <3>1, <5>3, WindowTyped DEF Expired, ExfilInv
          <6>3. Reason(s) = "many_subdomains"
            BY <3>3, <6>1, <6>2 DEF Reason, ManyNames
          <6> QED BY <1>1, <1>4, <4>1, <5>3, <6>3 DEF Caught
        <5> QED BY <5>1, <5>2, <5>3, WindowTyped DEF ExfilInv
      <4> QED BY <1>4, <4>1, <4>2
    <3>4. ASSUME Cardinality(Before(b)) >= MaxSubdomains
          PROVE  \E p \in Queries :
                    /\ Caught(p, b)' /\ leak'[p].recorded < t.first
                    /\ \A m \in Before(b) : asked[m] <= leak'[p].recorded
      <4>1. PICK p \in Queries : /\ Caught(p, b) /\ leak[p].recorded < t.first
                                 /\ \A m \in Before(b) : asked[m] <= leak[p].recorded
        BY <3>1, <3>4
      <4>2. leak[p].recorded < now
        BY <4>1, WindowTyped DEF ExfilInv
      <4> QED BY <1>4, <2>1, <2>2, <4>1, <4>2
    <3> HIDE DEF t
    <3>5. t = exfil'[b] /\ t.total # 0
      BY <1>1, <2>4, WindowTyped DEF t, ExfilInv
    <3> QED BY <1>1, <3>1, <3>2, <3>3, <3>4, <3>5 DEF WindowKnown
  <2> QED BY <2>3, <2>4, WindowTyped DEF ExfilInv
<1> QED BY <1>5, <1>6, <1>7 DEF ExfilInv

\* Cleanup drops a window whose names have all been asked for too long ago.
LEMMA ExfilCleans ==
    ASSUME ExfilInv, CleanupExfil, UNCHANGED now
    PROVE  ExfilInv'
<1>1. /\ exfil' = [a \in Apexes |-> IF exfil[a].last < now - 2 * ExfilWindow THEN NoExfil ELSE exfil[a]]
      /\ UNCHANGED <<asked, leak, handlerVars>>
  BY DEF CleanupExfil
<1>2. HandlerInv'
  BY <1>1 DEF ExfilInv, handlerVars, HandlerInv, HandlerTypeOK, On
<1>3. NoExfil \in Domains /\ IsFiniteSet(NoExfil.names) /\ Len(NoExfil.times) <= NoExfil.total
      /\ NoExfil.first = 0 /\ NoExfil.last = 0
  BY FS_EmptySet DEF NoExfil, Domains
<1>4. ExfilTyped'
  <2>1. exfil' \in [Apexes -> Domains]
    BY <1>1, <1>3 DEF ExfilInv, ExfilTyped
  <2>2. now \in Nat
    BY DEF ExfilInv, HandlerInv
  <2> QED BY <1>1, <1>3, <2>1, <2>2 DEF ExfilInv, ExfilTyped
<1>5. ASSUME NEW a \in Apexes PROVE WindowKnown(a)'
  <2> DEFINE s == exfil[a]
  <2>1. CASE s.last < now - 2 * ExfilWindow
    <3>1. exfil'[a].total = 0
      BY <1>1, <2>1 DEF NoExfil
    <3>2. \A n \in Names : ApexOf[n] = a /\ asked[n] >= 0 => now - asked[n] > ExfilWindow
      <4> SUFFICES ASSUME NEW n \in Names, ApexOf[n] = a, asked[n] >= 0
                   PROVE  now - asked[n] > ExfilWindow
        OBVIOUS
      <4>1. CASE s.total = 0
        BY <4>1 DEF ExfilInv, WindowKnown
      <4>2. CASE s.total > 0
        <5>1. asked[n] >= s.first => asked[n] <= s.last
          BY <4>2 DEF ExfilInv, WindowKnown
        <5> QED BY <2>1, <5>1, WindowTyped DEF ExfilInv
      <4> QED BY <4>1, <4>2, WindowTyped DEF ExfilInv
    <3> QED BY <1>1, <3>1, <3>2 DEF WindowKnown
  <2>2. CASE ~(s.last < now - 2 * ExfilWindow)
    <3>1. exfil'[a] = exfil[a]
      BY <1>1, <2>2
    <3>2. \A q \in Queries : Caught(q, a) => Caught(q, a)' /\ leak'[q].recorded = leak[q].recorded
      BY <1>1 DEF Caught, handlerVars
    <3> QED BY <1>1, <3>1, <3>2, SameWindow DEF ExfilInv
  <2> QED BY <2>1, <2>2
<1> QED BY <1>1, <1>2, <1>4, <1>5 DEF ExfilInv, handlerVars

\* What other stages and the clock do changes nothing a report depends on.
LEMMA ExfilWaits ==
    ASSUME ExfilInv, HandlerInv', UNCHANGED exfilVars, now' \in {now, now + 1},
           UNCHANGED handlerVars \/ \E q \in Queries : Moves(q)
    PROVE  ExfilInv'
<1>1. UNCHANGED <<exfil, asked, leak>>
  BY DEF exfilVars
<1>2. ASSUME NEW p \in Queries
      PROVE  /\ Rank[pc'[p]] <= Rank["lowslow"] => Rank[pc[p]] <= Rank["lowslow"]
             /\ query'[p] = query[p] \/ At(p, "arrive")
  <2>1. CASE UNCHANGED handlerVars
    BY <2>1 DEF handlerVars
  <2>2. CASE \E q \in Queries : Moves(q)
    <3>1. pc[p] \in Stages /\ pc'[p] \in Stages
      BY DEF ExfilInv, HandlerInv, HandlerTypeOK
    <3>2. pc'[p] = pc[p] \/ Rank[pc'[p]] > Rank[pc[p]]
      BY <2>2 DEF Moves
    <3>3. query'[p] = query[p] \/ At(p, "arrive")
      BY <2>2 DEF Moves
    <3> QED BY <3>1, <3>2, <3>3 DEF Rank, Stages
  <2> QED BY <2>1, <2>2
<1>3. \A p \in Queries : Rank[pc'[p]] <= Rank["lowslow"] => leak'[p].reason = "none" /\ ~leak'[p].late
  BY <1>1, <1>2 DEF ExfilInv
<1>4. ASSUME NEW p \in Queries, NEW a, Caught(p, a) PROVE Caught(p, a)'
  <2>1. ~At(p, "arrive")
    BY <1>4 DEF ExfilInv, Caught, At, Rank
  <2> QED BY <1>1, <1>2, <1>4, <2>1 DEF Caught
<1>5. \A a \in Apexes : WindowKnown(a)'
  BY <1>1, <1>4, SameWindow DEF ExfilInv
<1>6. ExfilTyped'
  <2>1. now \in Nat /\ now' \in Nat /\ now' >= now
    BY DEF ExfilInv, HandlerInv
  <2>2. asked' \in [Names -> -1..now']
    BY <1>1, <2>1 DEF ExfilInv, ExfilTyped
  <2>3. \A q \in Queries : leak'[q].recorded <= now'
    BY <1>1, <2>1 DEF ExfilInv, ExfilTyped, Leaks
  <2>4. \A a \in Apexes : exfil'[a].last <= now'
    BY <1>1, <2>1 DEF ExfilInv, ExfilTyped, Domains
  <2> QED BY <1>1, <2>2, <2>3, <2>4 DEF ExfilInv, ExfilTyped
<1> QED BY <1>3, <1>5, <1>6 DEF ExfilInv

\* The invariant of the low-and-slow detector: each full window has its reporter
THEOREM ExfilInvariant == Spec => []ExfilInv
<1>1. ExfilInv /\ [Next]_vars => ExfilInv'
  <2> SUFFICES ASSUME ExfilInv, [Next]_vars PROVE ExfilInv'
    OBVIOUS
  <2>1. /\ HandlerInv' /\ now' \in {now, now + 1}
        /\ \/ \E q \in Queries : Handle(q) /\ UNCHANGED now /\ (UNCHANGED handlerVars \/ Moves(q))
           \/ UNCHANGED handlerVars
    BY Steps DEF ExfilInv
  <2>2. CASE UNCHANGED exfilVars
    BY <2>1, <2>2, ExfilWaits
  <2>3. CASE \E q \in Queries : LowSlow(q) /\ UNCHANGED now
    <3>1. PICK q \in Queries : LowSlow(q) /\ UNCHANGED now
      BY <2>3
    <3>2. Moves(q)
      BY <3>1, Proceeds DEF LowSlow, RecordExfil, AnalyzeExfil, ExfilInv
    <3> QED BY <2>1, <3>1, <3>2, ExfilRecords, ExfilAnalyzes DEF LowSlow
  <2>4. CASE CleanupExfil /\ UNCHANGED now
    BY <2>4, ExfilCleans
  <2>5. ASSUME NEW q \in Queries, Handle(q), ~LowSlow(q) PROVE UNCHANGED exfilVars
    BY <2>5 DEF Handle, Enter, C2Detection, EDNSInspection, Relay, DNSSEC, Downgrade
  <2>6. CASE Next
    <3>1. \/ UNCHANGED now /\ ((\E q \in Queries : Handle(q)) \/ Cleanup)
          \/ Tick /\ UNCHANGED exfilVars
      BY <2>6 DEF Next
    <3>2. ASSUME Cleanup PROVE CleanupExfil \/ UNCHANGED exfilVars
      BY <3>2 DEF Cleanup
    <3> QED BY <2>2, <2>3, <2>4, <2>5, <3>1, <3>2
  <2>7. CASE UNCHANGED vars
    BY <2>2, <2>7 DEF vars
  <2> QED BY <2>6, <2>7
<1> QED BY <1>1, ExfilStart, PTL DEF Spec

(* A slow leak is reported although the window tumbles: of twice the threshold *)
(* less one names of one apex within a window, the current window or the one   *)
(* before it holds as many as the threshold, and the last query recorded in    *)
(* that window has reported it, is about to, or was overtaken by the clock.    *)
THEOREM SlowLeaksAreCaught == Spec => []SlowLeakCaught
<1>1. ExfilInv => SlowLeakCaught
  <2> SUFFICES ASSUME ExfilInv, NEW a \in Apexes, Cardinality(Under(a)) >= 2 * MaxSubdomains - 1
               PROVE  \E q \in Queries :
                          /\ ApexOf[query[q].name] = a /\ now - leak[q].recorded <= ExfilWindow
                          /\ leak[q].reason \in {"pending", "many_subdomains"} \/ leak[q].late
    BY DEF SlowLeakCaught
  <2> DEFINE s == exfil[a]
             New == {n \in Under(a) : asked[n] >= s.first}
             Old == {n \in Under(a) : asked[n] < s.first}
             M == MaxSubdomains
  <2>1. IsFiniteSet({}) /\ Cardinality({}) = 0
    BY FS_EmptySet
  <2>2. s.total > 0
    <3> SUFFICES ASSUME s.total = 0 PROVE FALSE
      BY WindowTyped DEF ExfilInv
    <3>1. Under(a) = {}
      BY WindowTyped DEF ExfilInv, WindowKnown, Under
    <3> QED BY <2>1, <3>1, WindowTyped DEF ExfilInv
  <2>3. /\ \A m \in Names : ApexOf[m] = a /\ asked[m] >= s.first => m \in s.names /\ asked[m] <= s.last
        /\ Cardinality(s.names) >= M => \E p \in Queries : Caught(p, a) /\ leak[p].recorded = s.last
        /\ IsFiniteSet(Before(a))
        /\ Cardinality(Before(a)) >= M =>
              \E p \in Queries :
                  /\ Caught(p, a) /\ leak[p].recorded < s.first
                  /\ \A m \in Before(a) : asked[m] <= leak[p].recorded
    BY <2>2 DEF ExfilInv, WindowKnown
  <2>4. New \subseteq s.names /\ IsFiniteSet(New) /\ Cardinality(New) <= Cardinality(s.names)
    <3>1. New \subseteq s.names
      <4> SUFFICES ASSUME NEW n \in New PROVE n \in s.names
        OBVIOUS
      <4>1. n \in Names /\ ApexOf[n] = a /\ asked[n] >= s.first
        BY DEF Under
      <4> QED BY <2>3, <4>1
    <3>2. IsFiniteSet(s.names)
      BY WindowTyped DEF ExfilInv
    <3> HIDE DEF New, s
    <3> QED BY <3>1, <3>2, FS_Subset
  <2>5. Old \subseteq Before(a) /\ IsFiniteSet(Old) /\ Cardinality(Old) <= Cardinality(Before(a))
    <3>1. Old \subseteq Before(a)
      <4> SUFFICES ASSUME NEW n \in Old PROVE n \in Before(a)
        OBVIOUS
      <4>1. /\ n \in Names /\ ApexOf[n] = a /\ asked[n] >= 0 /\ now - asked[n] <= ExfilWindow
            /\ asked[n] < s.first
        BY DEF Under
      <4>2. now \in Int /\ asked[n] \in Int /\ s.first \in Int /\ ExfilWindow \in Int /\ s.first <= now
        BY <4>1, WindowTyped DEF ExfilInv
      <4>3. asked[n] >= s.first - ExfilWindow
        <5> HIDE DEF s
        <5> QED BY <4>1, <4>2
      <4> QED BY <4>1, <4>3 DEF Before
    <3> QED BY <2>3, <3>1, FS_Subset
  <2>6. Under(a) = New \union Old
    BY WindowTyped DEF Under, ExfilInv
  <2>7. Cardinality(New) >= M \/ Cardinality(Old) >= M
    <3> HIDE DEF New, Old
    <3> QED BY <2>4, <2>5, <2>6, OneHasHalf, ExfilAssumption
  <2>8. Cardinality(New) \in Nat /\ Cardinality(Old) \in Nat
        /\ Cardinality(s.names) \in Nat /\ Cardinality(Before(a)) \in Nat /\ M \in Nat /\ M > 0
    BY <2>3, <2>4, <2>5, WindowTyped, FS_CardinalityType DEF ExfilInv
  <2>9. CASE Cardinality(New) >= M
    <3>1. PICK n \in New : TRUE
      <4> HIDE DEF New
      <4> QED BY <2>1, <2>8, <2>9
    <3>2. Cardinality(s.names) >= M
      <4> HIDE DEF New, s
      <4> QED BY <2>4, <2>8, <2>9
    <3>3. PICK p \in Queries : Caught(p, a) /\ leak[p].recorded = s.last
      BY <2>3, <3>2
    <3>4. now - s.last <= ExfilWindow
      <4>0. n \in Names /\ ApexOf[n] = a /\ now - asked[n] <= ExfilWindow /\ asked[n] >= s.first
        BY <3>1 DEF Under
      <4>1. n \in Names /\ now - asked[n] <= ExfilWindow /\ asked[n] <= s.last
        BY <2>3, <4>0
      <4>2. now \in Int /\ asked[n] \in Int /\ s.last \in Int /\ ExfilWindow \in Int
        BY <4>1, WindowTyped DEF ExfilInv
      <4> HIDE DEF s
      <4> QED BY <4>1, <4>2
    <3> QED BY <3>3, <3>4 DEF Caught
  <2>10. CASE Cardinality(Old) >= M
    <3>1. PICK n \in Old : TRUE
      <4>1. Old # {}
        <5> HIDE DEF Old
        <5> QED BY <2>1, <2>8, <2>10
      <4> QED BY <4>1
    <3>2. Cardinality(Before(a)) >= M
      <4> HIDE DEF Old
      <4> QED BY <2>5, <2>8, <2>10
    <3>3. PICK p \in Queries : /\ Caught(p, a) /\ leak[p].recorded < s.first
                               /\ \A m \in Before(a) : asked[m] <= leak[p].recorded
      BY <2>3, <3>2
    <3>4. asked[n] <= leak[p].recorded
      BY <2>5, <3>1, <3>3
    <3>5. now - leak[p].recorded <= ExfilWindow
      BY <3>1, <3>4, WindowTyped DEF Under, ExfilInv
    <3> QED BY <3>3, <3>5 DEF Caught
  <2> QED BY <2>7, <2>9, <2>10
<1> QED BY <1>1, ExfilInvariant, PTL

-----------------------------------------------------------------------------
(* What is left of the types: bounds that relate two parts of a state.       *)

\* A walk's frames are about keys of names each above the next one's.
LEMMA FramesFit ==
    ASSUME NEW w, NEW r, Sound(w, r)
    PROVE  Len(w.frames) <= Cardinality(Owners)
<1> DEFINE fs == w.frames
           n == Len(fs)
           zone == [i \in 1..n |-> fs[i].key.zone]
<1>1. fs \in Seq(Frames) /\ n \in Nat /\ FramesInv(w)
  BY DEF Sound, Walks
<1>2. \A i \in 1..n : fs[i].key \in Records /\ fs[i].key.zone \in Owners
  <2>1. \A i \in 1..n : fs[i] \in Frames
    BY <1>1
  <2> QED BY <2>1, RecordsInOwners DEF Frames
<1>3. PICK depth \in [Owners -> 0..Cardinality(Owners)] :
        \A z \in Owners \ {Root} : depth[Above[z]] < depth[z]
  BY ValidatorAssumption
<1>4. \A z \in Owners : depth[z] \in Nat
  <2>1. Cardinality(Owners) \in Nat
    BY ValidatorAssumption, FS_CardinalityType
  <2> QED BY <1>3, <2>1
<1>5. ASSUME NEW i \in 2..n PROVE depth[zone[i - 1]] < depth[zone[i]]
  <2>1. Delegated(fs[i]) /\ fs[i - 1].key \in Upper(fs[i])
    BY <1>1 DEF FramesInv, Waits
  <2>2. i - 1 \in 1..n /\ i \in 1..n
    BY <1>1
  <2>3. zone[i] = fs[i].up /\ zone[i] # Root /\ zone[i] \in Owners
    BY <1>2, <2>1, <2>2 DEF Delegated
  <2>4. Above[zone[i]] \in Owners /\ \A k \in HeardKeys[Above[zone[i]]] : k.zone = Above[zone[i]]
    BY <2>3, RecordsAbove
  <2>5. zone[i - 1] = Above[zone[i]]
    BY <2>1, <2>2, <2>3, <2>4 DEF Upper
  <2> QED BY <1>3, <2>3, <2>5
<1>6. \A i \in 1..n : zone[i] \in Owners /\ depth[zone[i]] \in Nat
  BY <1>2, <1>4
<1> HIDE DEF zone, n
<1> DEFINE S == {j \in Nat : j \in 1..n => \A i \in 1..n : i < j => depth[zone[i]] < depth[zone[j]]}
<1>7. \A j \in Nat : j \in S => j + 1 \in S
  <2> SUFFICES ASSUME NEW j \in Nat, j \in S, j + 1 \in 1..n, NEW i \in 1..n, i < j + 1
               PROVE  depth[zone[i]] < depth[zone[j + 1]]
    OBVIOUS
  <2>1. j \in 1..n /\ j + 1 \in 2..n /\ (j + 1) - 1 = j
    BY <1>1
  <2>2. depth[zone[j]] < depth[zone[j + 1]]
    BY <1>5, <2>1
  <2>3. i = j \/ i < j
    BY <1>1
  <2>4. depth[zone[i]] \in Nat /\ depth[zone[j]] \in Nat /\ depth[zone[j + 1]] \in Nat
    BY <1>6, <2>1
  <2>5. i < j => depth[zone[i]] < depth[zone[j]]
    BY <2>1
  <2> QED BY <2>2, <2>3, <2>4, <2>5
<1>8. Nat \subseteq S
  <2>1. 0 \in S
    BY <1>1
  <2> HIDE DEF S
  <2> QED BY <1>7, <2>1, NatInduct
<1>9. \A i, j \in 1..n : zone[i] = zone[j] => i = j
  <2> SUFFICES ASSUME NEW i \in 1..n, NEW j \in 1..n, i < j, zone[i] = zone[j] PROVE FALSE
    BY <1>1
  <2>1. j \in Nat
    BY <1>1
  <2> QED BY <1>6, <1>8, <2>1
<1>10. zone \in [1..n -> Owners]
  BY <1>6 DEF zone
<1>11. zone \in Injection(1..n, Owners)
  BY <1>9, <1>10 DEF Injection, IsInjective
<1>12. IsFiniteSet(1..n) /\ Cardinality(1..n) = n
  BY <1>1, FS_Interval
<1> QED BY <1>11, <1>12, FS_Injection, ValidatorAssumption DEF n

\* What the inductive invariants of the parts leave open of TypeOK
StateInv ==
    /\ writing \in [Queries -> SUBSET BOOLEAN] /\ aborted \in BOOLEAN
    /\ \A n \in Names : flux[n].minTTL <= flux[n].maxTTL /\ c2[n].minTTL <= c2[n].maxTTL
    /\ \A k \in Records : keyCache[k] <= now + RecordTTL /\ dsCache[k] <= now + RecordTTL
    /\ \A q \in Queries : ~At(q, "dnssec") => walk[q].frames = <<>>
    /\ \A n \in Names : trust[n].failures + trust[n].valids <= Len(trail[n])

\* The invariants of all parts
PartsInv == EDNSInv /\ ExfilInv /\ FluxInv /\ DowngradeInv /\ WalkInv

\* The extremes of the TTLs stay in order.
LEMMA TTLsInOrder ==
    ASSUME NEW low \in Nat, NEW high \in Nat, low <= high, NEW ttl \in Nat
    PROVE  MinTTL(low, ttl) <= MaxTTL(high, ttl)
BY DEF MinTTL, MaxTTL

\* Steps of the two fast-flux detectors
LEMMA FluxBounds ==
    ASSUME StateInv, PartsInv, [Next]_vars, PartsInv'
    PROVE  /\ writing' \in [Queries -> SUBSET BOOLEAN] /\ aborted' \in BOOLEAN
           /\ \A n \in Names : flux'[n].minTTL <= flux'[n].maxTTL /\ c2'[n].minTTL <= c2'[n].maxTTL
<1>1. CASE UNCHANGED fluxVars
  BY <1>1 DEF fluxVars, StateInv
<1>2. ASSUME NEW q \in Queries, C2Detection(q)
      PROVE  /\ writing' \in [Queries -> SUBSET BOOLEAN] /\ aborted' \in BOOLEAN
             /\ \A n \in Names : flux'[n].minTTL <= flux'[n].maxTTL /\ c2'[n].minTTL <= c2'[n].maxTTL
  <2> DEFINE n == query[q].name
             r == answer[q]
  <2>0. /\ FluxTyped /\ n \in Names /\ r.ttl \in Nat
        /\ writing \in [Queries -> SUBSET BOOLEAN]
    BY Traffic DEF PartsInv, FluxInv, StateInv
  <2>1. /\ flux[n].minTTL \in Nat /\ flux[n].maxTTL \in Nat /\ c2[n].minTTL \in Nat /\ c2[n].maxTTL \in Nat
        /\ flux[n].minTTL <= flux[n].maxTTL /\ c2[n].minTTL <= c2[n].maxTTL
    BY <2>0 DEF FluxTyped, StateInv
  <2>2. CASE Collides(q)
    BY <2>2 DEF Collides, StateInv
  <2>3. CASE AnalyzeFlux(q) \/ (SuspectC2(q) /\ ~Collides(q))
    BY <2>3 DEF AnalyzeFlux, SuspectC2, StateInv
  <2>4. CASE TrackFlux(q)
    <3>1. flux' = [flux EXCEPT ![n] = Tracked(@, r)] /\ UNCHANGED <<c2, writing, aborted>>
      BY <2>4 DEF TrackFlux
    <3>2. flux'[n] = Tracked(flux[n], r) /\ \A m \in Names \ {n} : flux'[m] = flux[m]
      BY <2>0, <3>1 DEF FluxTyped
    <3>3. /\ flux'[n].minTTL = MinTTL(flux[n].minTTL, r.ttl)
          /\ flux'[n].maxTTL = MaxTTL(flux[n].maxTTL, r.ttl)
      BY <2>0, <3>2 DEF Tracked, FluxTyped
    <3> QED BY <2>0, <2>1, <3>1, <3>2, <3>3, TTLsInOrder DEF StateInv
  <2>5. CASE TrackNameservers(q)
    <3>1. flux' = [flux EXCEPT ![n] = TrackedNS(@, r)] /\ UNCHANGED <<c2, writing, aborted>>
      BY <2>5 DEF TrackNameservers
    <3>2. flux'[n] = TrackedNS(flux[n], r) /\ \A m \in Names \ {n} : flux'[m] = flux[m]
      BY <2>0, <3>1 DEF FluxTyped
    <3>3. /\ flux'[n].minTTL = flux[n].minTTL /\ flux'[n].maxTTL = flux[n].maxTTL
      BY <2>0, <3>2 DEF TrackedNS, FluxTyped
    <3> QED BY <2>0, <2>1, <3>1, <3>2, <3>3 DEF StateInv
  <2>6. CASE BeginTrackC2(q) /\ ~Collides(q)
    <3>1. writing' = [writing EXCEPT ![q] = {c2[n] # NoC2}] /\ UNCHANGED <<flux, c2, aborted>>
      BY <2>6 DEF BeginTrackC2
    <3>2. {c2[n] # NoC2} \in SUBSET BOOLEAN
      OBVIOUS
    <3>3. writing' \in [Queries -> SUBSET BOOLEAN]
      BY <2>0, <3>1, <3>2
    <3> QED BY <3>1, <3>3 DEF StateInv
  <2>7. CASE EndTrackC2(q) /\ ~Collides(q)
    <3>1. PICK s \in Outcomes(q) : /\ c2' = [c2 EXCEPT ![n] = s] /\ writing' = [writing EXCEPT ![q] = {}]
                                   /\ UNCHANGED <<flux, aborted>>
      BY <2>7 DEF EndTrackC2
    <3>2. writing' \in [Queries -> SUBSET BOOLEAN]
      BY <2>0, <3>1
    <3>3. NoC2.minTTL = 0 /\ NoC2.maxTTL = 0
      BY DEF NoC2
    <3>4. s.minTTL <= s.maxTTL
      <4>1. \/ s = TrackedC2(c2[n], r) \/ s = TrackedC2(NoC2, r) \/ s = c2[n]
        BY <3>1 DEF Outcomes
      <4>2. ASSUME NEW t, t.minTTL \in Nat, t.maxTTL \in Nat, t.minTTL <= t.maxTTL, s = TrackedC2(t, r)
            PROVE  s.minTTL <= s.maxTTL
        BY <2>0, <4>2, TTLsInOrder DEF TrackedC2
      <4> QED BY <2>1, <3>3, <4>1, <4>2
    <3>5. c2'[n] = s /\ \A m \in Names \ {n} : c2'[m] = c2[m]
      BY <2>0, <3>1 DEF FluxTyped
    <3> QED BY <3>1, <3>2, <3>4, <3>5 DEF StateInv
  <2> QED BY <1>2, <2>2, <2>3, <2>4, <2>5, <2>6, <2>7 DEF C2Detection
<1>3. ASSUME NEW q \in Queries, Handle(q), ~C2Detection(q) PROVE UNCHANGED fluxVars
  BY <1>3 DEF Handle, Enter, LowSlow, EDNSInspection, Relay, DNSSEC, Downgrade
<1>4. CASE Next
  <2>1. (\E q \in Queries : Handle(q)) \/ UNCHANGED fluxVars
    BY <1>4 DEF Next, Cleanup
  <2> QED BY <1>1, <1>2, <1>3, <2>1
<1>5. CASE UNCHANGED vars
  BY <1>1, <1>5 DEF vars
<1> QED BY <1>4, <1>5

\* Steps of the validator: what enters a cache expires a TTL from then, and a
\* walk that has ended keeps no frames.
LEMMA ValidatorBounds ==
    ASSUME StateInv, PartsInv, [Next]_vars, PartsInv'
    PROVE  /\ \A k \in Records : keyCache'[k] <= now' + RecordTTL /\ dsCache'[k] <= now' + RecordTTL
           /\ \A q \in Queries : ~At(q, "dnssec")' => walk'[q].frames = <<>>
<1>0. /\ now \in Nat /\ now' \in {now, now + 1} /\ RecordTTL \in Nat
      /\ \A k \in Records : keyCache[k] \in Nat /\ dsCache[k] \in Nat
      /\ \A q \in Queries : walk[q] \in Walks
      /\ keyCache \in [Records -> Nat]
  BY Steps, ValidatorAssumption DEF PartsInv, WalkInv, CacheInv, HandlerInv
<1>1. ASSUME \A k \in Records : keyCache'[k] \in {0, keyCache[k], now + RecordTTL}
                                /\ dsCache'[k] \in {0, dsCache[k], now + RecordTTL}
      PROVE  \A k \in Records : keyCache'[k] <= now' + RecordTTL /\ dsCache'[k] <= now' + RecordTTL
  BY <1>0, <1>1 DEF StateInv
<1>2. ASSUME UNCHANGED <<keyCache, dsCache>>
      PROVE  \A k \in Records : keyCache'[k] <= now' + RecordTTL /\ dsCache'[k] <= now' + RecordTTL
  BY <1>1, <1>2
<1>3. ASSUME NEW q \in Queries, ValidatorStep(q), UNCHANGED now
      PROVE  /\ \A k \in Records : /\ keyCache'[k] \in {0, keyCache[k], now + RecordTTL}
                                   /\ dsCache'[k] \in {0, dsCache[k], now + RecordTTL}
             /\ At(q, "dnssec") /\ \A p \in Queries \ {q} : walk'[p] = walk[p] /\ pc'[p] = pc[p]
             /\ walk'[q].frames = <<>> \/ UNCHANGED handlerVars
  <2>1. CASE Fill(q)
    <3>1. PICK k \in walk[q].fill :
              IF walk[q].at = "match"
              THEN dsCache' = Put(dsCache, k, DSPlace(k)) /\ UNCHANGED keyCache
              ELSE keyCache' = Put(keyCache, k, KeyPlace(k)) /\ UNCHANGED dsCache
      BY <2>1 DEF Fill
    <3>2. \A d \in Records : /\ keyCache'[d] \in {0, keyCache[d], now + RecordTTL}
                             /\ dsCache'[d] \in {0, dsCache[d], now + RecordTTL}
      BY <1>0, <3>1 DEF Put
    <3> QED BY <2>1, <3>2 DEF Fill, PartsInv, WalkInv, handlerVars
  <2>2. ASSUME NEW v, Becomes(q, v), At(q, "dnssec")
        PROVE  /\ \A k \in Records : /\ keyCache'[k] \in {0, keyCache[k], now + RecordTTL}
                                     /\ dsCache'[k] \in {0, dsCache[k], now + RecordTTL}
               /\ At(q, "dnssec") /\ \A p \in Queries \ {q} : walk'[p] = walk[p] /\ pc'[p] = pc[p]
               /\ walk'[q].frames = <<>> \/ UNCHANGED handlerVars
    BY <2>2 DEF Becomes, PartsInv, WalkInv, handlerVars
  <2>3. ASSUME NEW v, Decide(q, v), At(q, "dnssec")
        PROVE  /\ \A k \in Records : /\ keyCache'[k] \in {0, keyCache[k], now + RecordTTL}
                                     /\ dsCache'[k] \in {0, dsCache[k], now + RecordTTL}
               /\ At(q, "dnssec") /\ \A p \in Queries \ {q} : walk'[p] = walk[p] /\ pc'[p] = pc[p]
               /\ walk'[q].frames = <<>> \/ UNCHANGED handlerVars
    <3>1. walk'[q].frames = <<>> /\ \A p \in Queries \ {q} : walk'[p] = walk[p]
      BY <2>3 DEF Decide, PartsInv, WalkInv, Idle
    <3>2. \A p \in Queries \ {q} : pc'[p] = pc[p]
      <4>1. Proceed(q) /\ HandlerInv /\ pc \in [Queries -> Stages]
        BY <2>3 DEF Decide, PartsInv, WalkInv, HandlerInv, HandlerTypeOK
      <4>2. pc' = [pc EXCEPT ![q] = pc'[q]]
        BY <4>1, Onward
      <4> QED BY <4>1, <4>2
    <3> QED BY <2>3, <3>1, <3>2 DEF Decide
  <2>4. CASE Validate(q)
    <3>1. CASE NeedsWalk(answer[q])
      BY <2>4, <3>1 DEF Validate, PartsInv, WalkInv, handlerVars
    <3>2. CASE ~NeedsWalk(answer[q])
      BY <2>3, <2>4, <3>2 DEF Validate
    <3> QED BY <3>1, <3>2
  <2>5. CASE ~Fill(q) /\ ~Validate(q)
    <3>1. At(q, "dnssec") /\ ((\E v : Becomes(q, v)) \/ (\E v : Decide(q, v)))
      BY <1>3, <2>5
         DEF ValidatorStep, NextSet, NextSig, FetchSignerKeys, TryKeys, AtRoot, FetchDS, MatchDS,
             FetchParentKeys, TryParent, FetchKeys, Lookup, Walking
    <3> QED BY <2>2, <2>3, <3>1
  <2> QED BY <2>1, <2>4, <2>5
<1>4. ASSUME UNCHANGED handlerVars \/ (\E q \in Queries : Moves(q) /\ ~At(q, "dnssec")), UNCHANGED walk
      PROVE  \A q \in Queries : ~At(q, "dnssec")' => walk'[q].frames = <<>>
  <2> SUFFICES ASSUME NEW p \in Queries, ~At(p, "dnssec")' PROVE walk[p].frames = <<>>
    BY <1>4
  <2>1. CASE ~At(p, "dnssec")
    BY <2>1 DEF StateInv
  <2>2. CASE At(p, "dnssec")
    BY <1>4, <2>2 DEF At, handlerVars, Moves
  <2> QED BY <2>1, <2>2
<1>5. CASE \E q \in Queries : DNSSEC(q) /\ UNCHANGED now
  <2>1. PICK q \in Queries : ValidatorStep(q) /\ UNCHANGED now
    BY <1>5 DEF DNSSEC
  <2>2. \A p \in Queries : ~At(p, "dnssec")' => walk'[p].frames = <<>>
    <3> SUFFICES ASSUME NEW p \in Queries, ~At(p, "dnssec")' PROVE walk'[p].frames = <<>>
      OBVIOUS
    <3>1. CASE p = q
      BY <1>3, <2>1, <3>1 DEF At, handlerVars
    <3>2. CASE p # q
      BY <1>3, <2>1, <3>2 DEF At, StateInv
    <3> QED BY <3>1, <3>2
  <2> QED BY <1>1, <1>3, <2>1, <2>2
<1>6. CASE ~(\E q \in Queries : DNSSEC(q) /\ UNCHANGED now)
  <2>1. UNCHANGED validatorVars /\ (UNCHANGED handlerVars \/ (\E q \in Queries : Moves(q) /\ ~At(q, "dnssec")))
    <3>1. ASSUME NEW q \in Queries, Handle(q), ~DNSSEC(q)
          PROVE  UNCHANGED validatorVars /\ (UNCHANGED handlerVars \/ ~At(q, "dnssec"))
      BY <3>1
         DEF Handle, Enter, Arrive, LowSlow, RecordExfil, AnalyzeExfil, C2Detection, SuspectC2, AnalyzeFlux,
             TrackFlux, TrackNameservers, BeginTrackC2, EndTrackC2, EDNSInspection, InspectOption, Report,
             NoFinding, Relay, Forward, Downgrade, At
    <3>2. CASE UNCHANGED vars
      BY <3>2 DEF vars
    <3>3. CASE Next /\ ~(\E q \in Queries : Handle(q) /\ UNCHANGED now)
      BY <3>3 DEF Next, Cleanup, CleanupExfil, CleanupDowngrade, Tick
    <3>4. CASE \E q \in Queries : Handle(q) /\ UNCHANGED now
      <4>1. PICK q \in Queries : Handle(q) /\ UNCHANGED now
        BY <3>4
      <4>2. UNCHANGED handlerVars \/ Moves(q)
        BY <4>1, HandlerStep DEF PartsInv, WalkInv
      <4> QED BY <1>6, <3>1, <4>1, <4>2
    <3> QED BY <3>2, <3>3, <3>4
  <2> QED BY <1>2, <1>4, <2>1 DEF validatorVars
<1> QED BY <1>5, <1>6

\* Steps of the downgrade detector: what it counts, it has been told.
LEMMA DowngradeBounds ==
    ASSUME StateInv, PartsInv, [Next]_vars, PartsInv'
    PROVE  \A n \in Names : trust'[n].failures + trust'[n].valids <= Len(trail'[n])
<1>0. DowngradeTyped
  BY DEF PartsInv, DowngradeInv
<1>1. \A n \in Names : /\ trust[n] \in TrustState /\ trust[n].failures \in Nat /\ trust[n].valids \in Nat
                       /\ trail[n] \in Seq(Verdict) /\ Len(trail[n]) \in Nat
                       /\ trust[n].failures + trust[n].valids <= Len(trail[n])
  BY <1>0 DEF DowngradeTyped, TrustState, StateInv
<1>2. CASE UNCHANGED downgradeVars
  BY <1>2 DEF downgradeVars, StateInv
<1>3. ASSUME CleanupDowngrade
      PROVE  \A n \in Names : trust'[n].failures + trust'[n].valids <= Len(trail'[n])
  <2>1. NoTrust.failures = 0 /\ NoTrust.valids = 0
    BY DEF NoTrust
  <2>2. \A n \in Names : (trust'[n] = NoTrust \/ trust'[n] = trust[n]) /\ trail'[n] = trail[n]
    BY <1>3 DEF CleanupDowngrade
  <2> QED BY <1>1, <2>1, <2>2
<1>4. ASSUME NEW q \in Queries, Downgrade(q)
      PROVE  \A n \in Names : trust'[n].failures + trust'[n].valids <= Len(trail'[n])
  <2> DEFINE valid == verdict[q] = "valid"
             m == query[q].name
             s == trust[m]
  <2>1. CASE ~RecordsVerdict(valid)
    BY <1>2, <1>4, <2>1 DEF Downgrade
  <2>2. CASE RecordsVerdict(valid)
    <3>1. RecordValidation(m, valid) /\ m \in Names
      BY <1>4, <2>2, Traffic DEF Downgrade, PartsInv, DowngradeInv
    <3>2. /\ trust' = [trust EXCEPT ![m] = Judged(s, valid)]
          /\ trail' = [trail EXCEPT ![m] = Append(@, Entry(s, valid))]
      BY <3>1 DEF RecordValidation, Judged, Entry
    <3>3. /\ Judged(s, valid).failures + Judged(s, valid).valids <= s.failures + s.valids + 1
      <4>1. s \in TrustState /\ s.failures \in Nat /\ s.valids \in Nat
        BY <1>1, <3>1
      <4>2. CASE valid
        BY <4>1, <4>2 DEF Judged, Validated, TrustState
      <4>3. CASE ~valid
        <5>1. Failed(s).failures = s.failures + 1 /\ Failed(s).valids = s.valids
          BY <4>1 DEF Failed, TrustState
        <5>2. /\ Alerted(Failed(s)).failures = s.failures + 1
              /\ Alerted(Failed(s)).valids = s.valids
          BY <4>1 DEF Alerted, Failed, TrustState
        <5> QED BY <4>1, <4>3, <5>1, <5>2 DEF Judged
      <4> QED BY <4>2, <4>3
    <3>4. /\ trust'[m] = Judged(s, valid) /\ \A n \in Names \ {m} : trust'[n] = trust[n]
          /\ Len(trail'[m]) = Len(trail[m]) + 1 /\ \A n \in Names \ {m} : trail'[n] = trail[n]
      BY <1>0, <1>1, <3>1, <3>2 DEF DowngradeTyped
    <3>5. trust'[m].failures \in Nat /\ trust'[m].valids \in Nat
      BY <3>1 DEF PartsInv, DowngradeInv, DowngradeTyped, TrustState
    <3>6. trust'[m].failures + trust'[m].valids <= Len(trail'[m])
      <4>1. /\ s.failures \in Nat /\ s.valids \in Nat /\ Len(trail[m]) \in Nat
            /\ s.failures + s.valids <= Len(trail[m])
        BY <1>1, <3>1
      <4>2. trust'[m].failures + trust'[m].valids <= s.failures + s.valids + 1
        BY <3>3, <3>4
      <4>3. Len(trail'[m]) = Len(trail[m]) + 1
        BY <3>4
      <4> DEFINE f1 == trust'[m].failures
                 v1 == trust'[m].valids
                 f == s.failures
                 v == s.valids
                 n == Len(trail[m])
                 n1 == Len(trail'[m])
      <4>4. /\ f1 \in Nat /\ v1 \in Nat /\ f \in Nat /\ v \in Nat /\ n \in Nat
            /\ f + v <= n /\ f1 + v1 <= f + v + 1 /\ n1 = n + 1
        BY <3>5, <4>1, <4>2, <4>3
      <4>5. f1 + v1 <= n1
        <5> HIDE DEF f1, v1, f, v, n, n1, s, m
        <5> QED BY <4>4
      <4> QED BY <4>5
    <3> QED BY <1>1, <3>4, <3>6
  <2> QED BY <2>1, <2>2
<1>5. ASSUME NEW q \in Queries, Handle(q), ~Downgrade(q) PROVE UNCHANGED downgradeVars
  BY <1>5 DEF Handle, Enter, LowSlow, C2Detection, EDNSInspection, Relay, DNSSEC
<1>6. CASE Next
  <2>1. (\E q \in Queries : Handle(q)) \/ UNCHANGED downgradeVars \/ CleanupDowngrade
    BY <1>6 DEF Next, Cleanup
  <2> QED BY <1>2, <1>3, <1>4, <1>5, <2>1
<1>7. CASE UNCHANGED vars
  BY <1>2, <1>7 DEF vars
<1> QED BY <1>6, <1>7

(* The handlers and all five detectors keep their types: counters stay below  *)
(* what was recorded, caches below a TTL from now, and a walk's stack below    *)
(* the number of zones.                                                      *)
THEOREM InspectionTypeCorrect == Spec => []TypeOK
<1>1. Init => StateInv
  <2> SUFFICES ASSUME Init PROVE StateInv
    OBVIOUS
  <2>1. now = 0 /\ FluxInit /\ ValidatorInit /\ DowngradeInit
    BY DEF Init, ClockInit
  <2>2. writing \in [Queries -> SUBSET BOOLEAN] /\ aborted \in BOOLEAN
    BY <2>1 DEF FluxInit
  <2>3. \A n \in Names : flux[n].minTTL <= flux[n].maxTTL /\ c2[n].minTTL <= c2[n].maxTTL
    BY <2>1 DEF FluxInit, NoFlux, NoC2
  <2>4. \A k \in Records : keyCache[k] <= now + RecordTTL /\ dsCache[k] <= now + RecordTTL
    BY <2>1, ValidatorAssumption DEF ValidatorInit
  <2>5. \A q \in Queries : walk[q].frames = <<>>
    BY <2>1 DEF ValidatorInit, Idle
  <2>6. \A n \in Names : trust[n].failures + trust[n].valids <= Len(trail[n])
    BY <2>1 DEF DowngradeInit, NoTrust
  <2> QED BY <2>2, <2>3, <2>4, <2>5, <2>6 DEF StateInv
<1>2. StateInv /\ PartsInv /\ PartsInv' /\ [Next]_vars => StateInv'
  BY FluxBounds, ValidatorBounds, DowngradeBounds DEF StateInv, At
<1>3. StateInv /\ PartsInv => TypeOK
  <2> SUFFICES ASSUME StateInv, PartsInv PROVE TypeOK
    OBVIOUS
  <2>1. HandlerTypeOK /\ EDNSTypeOK /\ now \in Nat
    BY DEF PartsInv, EDNSInv, HandlerInv
  <2>2. ExfilTypeOK
    <3>1. \A a \in Apexes :
            /\ exfil[a].names \subseteq Names /\ exfil[a].total \in Nat
            /\ exfil[a].first \in 0..exfil[a].last /\ exfil[a].last \in 0..now
            /\ Len(exfil[a].times) <= exfil[a].total
      BY WindowTyped DEF PartsInv, ExfilInv, ExfilTyped
    <3> QED BY <3>1 DEF PartsInv, ExfilInv, ExfilTyped, ExfilTypeOK
  <2>3. FluxTypeOK
    <3> SUFFICES ASSUME NEW n \in Names
                 PROVE  /\ {s.ip : s \in flux[n].history} \subseteq flux[n].seen
                        /\ flux[n].seen \union c2[n].seen \subseteq Addresses
      BY DEF StateInv, FluxTypeOK
    <3>1. FluxTyped /\ Agree(n)
      BY DEF PartsInv, FluxInv
    <3>2. flux[n].seen \union c2[n].seen \subseteq Addresses
      BY <3>1 DEF FluxTyped
    <3>3. ASSUME NEW s \in flux[n].history PROVE s.ip \in flux[n].seen
      <4>1. s \in [ip : Addresses, at : Nat]
        BY <3>1, <3>3 DEF FluxTyped
      <4>2. s.ip \in Addresses /\ s.at \in Nat /\ s.at = firstSeen[n][s.ip]
        BY <3>1, <3>3, <4>1 DEF Agree
      <4> QED BY <3>1, <4>2 DEF Agree
    <3> QED BY <3>2, <3>3
  <2>4. ValidatorTypeOK
    <3>1. keyCache \in [Records -> 0..(now + RecordTTL)] /\ dsCache \in [Records -> 0..(now + RecordTTL)]
      <4>1. keyCache \in [Records -> Nat] /\ dsCache \in [Records -> Nat] /\ now + RecordTTL \in Nat
        BY <2>1, ValidatorAssumption DEF PartsInv, WalkInv, CacheInv
      <4>2. \A k \in Records : keyCache[k] \in 0..(now + RecordTTL) /\ dsCache[k] \in 0..(now + RecordTTL)
        BY <4>1 DEF StateInv
      <4> QED BY <4>1, <4>2
    <3>2. ASSUME NEW q \in Queries
          PROVE  /\ walk[q].got \union walk[q].fill \subseteq Records
                 /\ Len(walk[q].frames) <= Cardinality(Owners)
      <4>1. walk[q] \in Walks /\ WalkStands(q)
        BY DEF PartsInv, WalkInv
      <4>2. walk[q].got \union walk[q].fill \subseteq Records
        BY <4>1 DEF Walks
      <4>3. CASE walk[q].frames = <<>>
        <5>1. Len(walk[q].frames) = 0 /\ Cardinality(Owners) \in Nat
          BY <4>3, ValidatorAssumption, FS_CardinalityType
        <5> QED BY <4>2, <5>1
      <4>4. CASE walk[q].frames # <<>>
        <5>1. At(q, "dnssec") /\ walk[q] # Idle
          BY <4>4 DEF StateInv, Idle
        <5>2. Sound(walk[q], answer[q])
          BY <4>1, <5>1 DEF WalkStands
        <5> QED BY <4>2, <5>2, FramesFit
      <4> QED BY <4>2, <4>3, <4>4
    <3> QED BY <3>1, <3>2 DEF PartsInv, WalkInv, ValidatorTypeOK
  <2>5. DowngradeTypeOK
    <3>1. \A n \in Names : {trust[n].lastValid, trust[n].lastFailure, trust[n].alertTime} \subseteq -1..now
      BY DEF PartsInv, DowngradeInv, DowngradeTyped, TrustState
    <3> QED BY <3>1 DEF StateInv, DowngradeTypeOK
  <2> QED BY <2>1, <2>2, <2>3, <2>4, <2>5 DEF TypeOK
<1>4. Spec => []PartsInv
  BY EDNSInvariant, ExfilInvariant, FluxInvariant, DowngradeInvariant, WalkInvariant, PTL DEF PartsInv
<1> QED BY <1>1, <1>2, <1>3, <1>4, PTL DEF Spec
=============================================================================
