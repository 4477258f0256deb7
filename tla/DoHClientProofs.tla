--------------------------- MODULE DoHClientProofs ---------------------------
(***************************************************************************)
(* For any number of queries and any threshold: the types of DoHClient, and *)
(* that the breaker is never left closed past its threshold; and what the   *)
(* liveness properties rest on, measures that fall and sets that drain.     *)
(***************************************************************************)
EXTENDS DoHClient, TLAPS

(* The type invariant is inductive: each goroutine stays in its own code.    *)
THEOREM TypeCorrect == Spec => []TypeOK
<1> USE DoHAssumption DEF Procs, Endpoint, Label
<1>1. Init => TypeOK
  <2> SUFFICES ASSUME Init PROVE TypeOK
    OBVIOUS
  <2>1. fails \in 0..FailCap
    BY DEF Init
  <2>2. pc \in [Procs -> {"idle"}]
    BY DEF Init
  <2> QED BY <2>1, <2>2 DEF Init, TypeOK
<1>2. TypeOK /\ [Next]_vars => TypeOK'
  <2> SUFFICES ASSUME TypeOK, [Next]_vars PROVE TypeOK'
    OBVIOUS
  <2> USE DEF TypeOK, Goto
  <2>1. ASSUME NEW q \in Queries, Forward(q) \/ QueryStep(q) PROVE TypeOK'
    <3>1. CASE Forward(q)       BY <3>1 DEF Forward
    <3>2. CASE Recheck(q)       BY <3>2 DEF Recheck
    <3>3. CASE ExchangeEnds(q)  BY <3>3 DEF ExchangeEnds
    <3>4. CASE Reset(q)         BY <3>4 DEF Reset
    <3>5. CASE PlainDNS(q)      BY <3>5 DEF PlainDNS
    <3>6. CASE AddFailure(q)    BY <3>6 DEF AddFailure, Bump, AfterFailure
    <3>7. CASE Judge(q)         BY <3>7 DEF Judge, AfterFailure
    <3>8. CASE Disable(q)       BY <3>8 DEF Disable, AfterFailure
    <3> QED BY <2>1, <3>1, <3>2, <3>3, <3>4, <3>5, <3>6, <3>7, <3>8 DEF QueryStep
  <2>2. CASE CheckerStep
    <3>1. CASE SkipCheck            BY <3>1 DEF SkipCheck
    <3>2. CASE StartCheck           BY <3>2 DEF StartCheck
    <3>3. CASE ProbeEnds            BY <3>3 DEF ProbeEnds, ProbeVerdict
    <3>4. CASE Healthy              BY <3>4 DEF Healthy, HealthyNext
    <3>5. CASE Reset(Checker)       BY <3>5 DEF Reset
    <3>6. CASE AddFailure(Checker)  BY <3>6 DEF AddFailure, Bump, AfterFailure
    <3>7. CASE Judge(Checker)       BY <3>7 DEF Judge, AfterFailure
    <3>8. CASE Disable(Checker)     BY <3>8 DEF Disable, AfterFailure
    <3>9. CASE Enable(Checker)      BY <3>9 DEF Enable, EnableNext, AfterEnable
    <3>10. CASE Clear(Checker)      BY <3>10 DEF Clear, AfterEnable
    <3> QED BY <2>2, <3>1, <3>2, <3>3, <3>4, <3>5, <3>6, <3>7, <3>8, <3>9, <3>10
            DEF CheckerStep, FlagStep
  <2>3. CASE OperatorStep
    <3>1. CASE Disable(Operator)    BY <3>1 DEF Disable, AfterFailure
    <3>2. CASE Enable(Operator)     BY <3>2 DEF Enable, EnableNext, AfterEnable
    <3>3. CASE Clear(Operator)      BY <3>3 DEF Clear, AfterEnable
    <3>4. CASE SetGauge             BY <3>4 DEF SetGauge
    <3> QED BY <2>3, <3>1, <3>2, <3>3, <3>4 DEF OperatorStep, FlagStep
  <2>4. CASE SIGHUP           BY <2>4 DEF SIGHUP
  <2>5. CASE SIGUSR1          BY <2>5 DEF SIGUSR1
  <2>6. CASE SIGUSR2          BY <2>6 DEF SIGUSR2
  <2>7. CASE EndpointChanges  BY <2>7 DEF EndpointChanges
  <2>8. CASE UNCHANGED vars   BY <2>8 DEF vars
  <2> QED BY <2>1, <2>2, <2>3, <2>4, <2>5, <2>6, <2>7, <2>8 DEF Next
<1>3. QED BY <1>1, <1>2, PTL DEF Spec

(* The breaker is never left closed past its threshold, for every number of  *)
(* queries: the step that makes the condition true leaves its goroutine      *)
(* unsettled, and the last unsettled goroutine falsifies it as it settles.   *)
THEOREM BreakerSafe == Spec => []BreakerNotStuckClosed
<1> USE DoHAssumption DEF Procs, Unsettled, BreakerNotStuckClosed
<1>1. Init => BreakerNotStuckClosed
  BY DEF Init
<1>2. TypeOK /\ BreakerNotStuckClosed /\ [Next]_vars => BreakerNotStuckClosed'
  <2> SUFFICES ASSUME TypeOK, BreakerNotStuckClosed, [Next]_vars,
                      enabled', fails' >= MaxFails
               PROVE  \E p \in Procs : Unsettled(p)'
    OBVIOUS
  <2> USE DEF TypeOK, Goto
  <2>1. ASSUME NEW p \in Procs, AddFailure(p) PROVE \E r \in Procs : Unsettled(r)'
    BY <2>1 DEF AddFailure, Trips
  <2>2. ASSUME NEW p \in Procs, Judge(p) PROVE \E r \in Procs : Unsettled(r)'
    BY <2>2 DEF Judge
  <2>3. ASSUME NEW p \in Procs, Disable(p) PROVE FALSE
    BY <2>3 DEF Disable
  <2>4. ASSUME NEW p \in Procs, Enable(p) PROVE \E r \in Procs : Unsettled(r)'
    <3>1. CASE enabled
      <4>1. PICK r \in Procs : Unsettled(r)
        BY <2>4, <3>1 DEF Enable
      <4>2. r # p
        BY <2>4, <4>1 DEF Enable
      <4> QED BY <2>4, <4>1, <4>2 DEF Enable
    <3>2. CASE ~enabled
      BY <2>4, <3>2 DEF Enable, EnableNext
    <3> QED BY <3>1, <3>2
  <2>5. ASSUME NEW p \in Procs, Clear(p) \/ Reset(p) PROVE FALSE
    <3>1. fails' = 0
      BY <2>5 DEF Clear, Reset
    <3>2. fails' >= MaxFails
      OBVIOUS
    <3> HIDE DEF TypeOK, BreakerNotStuckClosed
    <3> QED BY ONLY <3>1, <3>2, DoHAssumption
  <2>6. ASSUME UNCHANGED <<enabled, fails>>,
               \A r \in Procs : Unsettled(r) => Unsettled(r)'
        PROVE  \E r \in Procs : Unsettled(r)'
    BY <2>6
  <2>7. ASSUME NEW q \in Queries, Forward(q) \/ QueryStep(q)
        PROVE  \E r \in Procs : Unsettled(r)'
    <3>1. CASE Forward(q) \/ Recheck(q) \/ ExchangeEnds(q) \/ PlainDNS(q)
      BY <3>1, <2>6 DEF Forward, Recheck, ExchangeEnds, PlainDNS
    <3> QED BY <2>7, <2>1, <2>2, <2>3, <2>5, <3>1 DEF QueryStep
  <2>8. CASE CheckerStep
    <3>1. CASE SkipCheck \/ StartCheck \/ ProbeEnds \/ Healthy
      BY <3>1, <2>6 DEF SkipCheck, StartCheck, ProbeEnds, Healthy
    <3> QED BY <2>8, <2>1, <2>2, <2>3, <2>4, <2>5, <3>1 DEF CheckerStep, FlagStep
  <2>9. CASE OperatorStep
    <3>1. CASE SetGauge
      BY <3>1, <2>6 DEF SetGauge
    <3> QED BY <2>9, <2>3, <2>4, <2>5, <3>1 DEF OperatorStep, FlagStep
  <2>10. CASE SIGHUP \/ SIGUSR1 \/ SIGUSR2
    BY <2>10, <2>6 DEF SIGHUP, SIGUSR1, SIGUSR2
  <2>11. CASE EndpointChanges \/ UNCHANGED vars
    BY <2>11, <2>6 DEF EndpointChanges, vars
  <2> QED BY <2>7, <2>8, <2>9, <2>10, <2>11 DEF Next
<1>3. QED BY <1>1, <1>2, TypeCorrect, PTL DEF Spec

-----------------------------------------------------------------------------
(* What the liveness properties rest on.                                     *)

\* How far a query's goroutine is from its answer
Rank ==
    [idle |-> 0, plain |-> 1, reset |-> 1, disable |-> 2, judge |-> 3, fail |-> 4, post |-> 5,
     recheck |-> 6]

(* A query cannot go round in forwardUpstream, Exchange and recordFailure:    *)
(* each step of its own brings it nearer to its answer, by DoH or by plain    *)
(* DNS, and nobody else's step moves it.                                      *)
QueriesAdvance ==
    \A q \in Queries : /\ pc'[q] = pc[q] \/ pc[q] = "idle" \/ Rank[pc'[q]] < Rank[pc[q]]
                       /\ QueryStep(q) => pc'[q] # pc[q]

\* The goroutines other than the operator's that may yet switch DoH off, and
\* those that may yet switch it on or clear the count
Failing == {p \in Procs \ {Operator} : pc[p] \in {"fail", "judge", "disable"}}
Mending == {p \in Procs \ {Operator} : pc[p] \in {"healthy", "enable", "clear", "reset"}}

(* While the endpoint is up nobody starts to count a failure, so that after   *)
(* the outage DoH goes off at most once for each goroutine it has left behind. *)
FailuresDrain ==
    endpoint = "up" /\ endpoint' = "up" =>
        /\ Failing' \subseteq Failing
        /\ enabled /\ ~enabled' => pc[Operator] = "disable" \/ Failing' # Failing

(* While it is down nobody starts to count a success, by a query or by a      *)
(* probe: DoH goes on, and the count to zero, only for who is left behind.    *)
SuccessesDrain ==
    endpoint = "down" /\ endpoint' = "down" =>
        /\ Mending' \subseteq Mending
        /\ ~enabled /\ enabled' => pc[Operator] = "enable" \/ pc[Checker] = "enable"
        /\ fails' < fails => pc[Operator] = "clear" \/ \E p \in Mending : pc'[p] # pc[p]

\* The steps of one goroutine, and what else there is
Step(p) ==
    \/ p \in Queries /\ (Forward(p) \/ QueryStep(p))
    \/ p = Checker /\ CheckerStep
    \/ p = Operator /\ (OperatorStep \/ SIGHUP \/ SIGUSR1 \/ SIGUSR2)

\* Every step is some goroutine's, or touches neither flag, counter nor goroutine.
LEMMA Steps ==
    ASSUME [Next]_vars
    PROVE  \/ \E p \in Procs : Step(p)
           \/ UNCHANGED <<enabled, fails, pc>>
BY DEF Next, Step, Procs, EndpointChanges, vars

\* A goroutine's step moves nobody else.
LEMMA StepAlone ==
    ASSUME TypeOK, NEW p \in Procs, Step(p)
    PROVE  \E l \in Label : pc' = [pc EXCEPT ![p] = l]
<1> USE DoHAssumption DEF Procs
<1>1. pc = [pc EXCEPT ![p] = pc[p]] /\ pc[p] \in Label
  BY DEF TypeOK
<1>2. CASE p \in Queries
  BY <1>2 DEF Step, Forward, QueryStep, Recheck, ExchangeEnds, Reset, PlainDNS, AddFailure, Judge,
              Disable, Goto, AfterFailure, Label
<1>3. CASE p = Checker
  BY <1>1, <1>3 DEF Step, CheckerStep, SkipCheck, StartCheck, ProbeEnds, ProbeVerdict, Healthy,
              HealthyNext, Reset, AddFailure, Judge, FlagStep, Disable, Enable, EnableNext, AfterEnable,
              Clear, Goto, AfterFailure, Label
<1>4. CASE p = Operator
  BY <1>4 DEF Step, OperatorStep, SetGauge, SIGHUP, SIGUSR1, SIGUSR2, FlagStep, Disable, Enable,
              EnableNext, AfterEnable, Clear, Goto, AfterFailure, Label
<1> QED BY <1>2, <1>3, <1>4

\* A query's own step
LEMMA QueryAdvances ==
    ASSUME TypeOK, NEW q \in Queries, Step(q)
    PROVE  /\ pc'[q] # pc[q] /\ (pc[q] = "idle" \/ Rank[pc'[q]] < Rank[pc[q]])
           /\ endpoint = "up" /\ pc'[q] \in {"fail", "judge", "disable"} =>
                 pc[q] \in {"fail", "judge", "disable"}
           /\ endpoint = "down" /\ pc'[q] = "reset" => pc[q] = "reset"
           /\ enabled' # enabled => pc[q] = "disable" /\ ~enabled'
           /\ fails' < fails => pc[q] = "reset"
           /\ pc'[q] \notin {"healthy", "enable", "clear"}
<1> USE DoHAssumption DEF Procs, TypeOK, Rank, Goto
<1>1. q # Checker /\ q # Operator
  OBVIOUS
<1>2. CASE Forward(q)
  BY <1>2 DEF Forward
<1>3. CASE Recheck(q)
  BY <1>3 DEF Recheck
<1>4. CASE ExchangeEnds(q)
  BY <1>4 DEF ExchangeEnds
<1>5. CASE Reset(q)
  BY <1>5 DEF Reset
<1>6. CASE PlainDNS(q)
  BY <1>6 DEF PlainDNS
<1>7. CASE AddFailure(q)
  BY <1>7 DEF AddFailure, AfterFailure, Bump
<1>8. CASE Judge(q)
  BY <1>8 DEF Judge, AfterFailure
<1>9. CASE Disable(q)
  BY <1>9 DEF Disable, AfterFailure
<1> QED BY <1>1, <1>2, <1>3, <1>4, <1>5, <1>6, <1>7, <1>8, <1>9 DEF Step, QueryStep

\* The checker's
LEMMA CheckerAdvances ==
    ASSUME TypeOK, CheckerStep
    PROVE  /\ endpoint = "up" /\ pc'[Checker] \in {"fail", "judge", "disable"} =>
                 pc[Checker] \in {"fail", "judge", "disable"}
           /\ endpoint = "down" /\ pc'[Checker] \in {"healthy", "enable", "clear", "reset"} =>
                 pc[Checker] \in {"healthy", "enable", "clear", "reset"}
           /\ enabled /\ ~enabled' => pc[Checker] = "disable" /\ pc'[Checker] = "idle"
           /\ ~enabled /\ enabled' => pc[Checker] = "enable"
           /\ fails' < fails => pc[Checker] \in {"clear", "reset"} /\ pc'[Checker] # pc[Checker]
<1> USE DoHAssumption DEF Procs, TypeOK, Goto
<1>1. CASE SkipCheck
  BY <1>1 DEF SkipCheck
<1>2. CASE StartCheck
  BY <1>2 DEF StartCheck
<1>3. CASE ProbeEnds
  BY <1>3 DEF ProbeEnds, ProbeVerdict
<1>4. CASE Healthy
  BY <1>4 DEF Healthy, HealthyNext
<1>5. CASE Reset(Checker)
  BY <1>5 DEF Reset
<1>6. CASE AddFailure(Checker)
  BY <1>6 DEF AddFailure, AfterFailure, Bump
<1>7. CASE Judge(Checker)
  BY <1>7 DEF Judge, AfterFailure
<1>8. CASE Disable(Checker)
  BY <1>8 DEF Disable, AfterFailure
<1>9. CASE Enable(Checker)
  BY <1>9 DEF Enable, EnableNext, AfterEnable
<1>10. CASE Clear(Checker)
  BY <1>10 DEF Clear, AfterEnable
<1> QED BY <1>1, <1>2, <1>3, <1>4, <1>5, <1>6, <1>7, <1>8, <1>9, <1>10 DEF CheckerStep, FlagStep

\* The operator's
LEMMA OperatorAdvances ==
    ASSUME TypeOK, OperatorStep \/ SIGHUP \/ SIGUSR1 \/ SIGUSR2
    PROVE  /\ enabled /\ ~enabled' => pc[Operator] = "disable"
           /\ ~enabled /\ enabled' => pc[Operator] = "enable"
           /\ fails' < fails => pc[Operator] = "clear"
<1> USE DoHAssumption DEF Procs, TypeOK, Goto
<1>1. CASE SIGHUP \/ SIGUSR1 \/ SIGUSR2 \/ SetGauge
  BY <1>1 DEF SIGHUP, SIGUSR1, SIGUSR2, SetGauge
<1>2. CASE Disable(Operator)
  BY <1>2 DEF Disable
<1>3. CASE Enable(Operator)
  BY <1>3 DEF Enable
<1>4. CASE Clear(Operator)
  BY <1>4 DEF Clear
<1> QED BY <1>1, <1>2, <1>3, <1>4 DEF OperatorStep, FlagStep

(* The measure behind EveryQueryAnswered, for any number of queries.          *)
THEOREM QueriesAlwaysAdvance == Spec => [][QueriesAdvance]_vars
<1>1. TypeOK /\ [Next]_vars => QueriesAdvance
  <2> SUFFICES ASSUME TypeOK, [Next]_vars, NEW q \in Queries
               PROVE  /\ pc'[q] = pc[q] \/ pc[q] = "idle" \/ Rank[pc'[q]] < Rank[pc[q]]
                      /\ QueryStep(q) => pc'[q] # pc[q]
    BY DEF QueriesAdvance
  <2>1. CASE Step(q)
    BY <2>1, QueryAdvances
  <2>2. ASSUME NEW p \in Procs, p # q, Step(p) PROVE pc'[q] = pc[q]
    BY <2>2, StepAlone DEF TypeOK, Procs
  <2>3. QueryStep(q) => Step(q)
    BY DEF Step
  <2> QED BY <2>1, <2>2, <2>3, Steps
<1> QED BY <1>1, TypeCorrect, PTL DEF Spec

(* The safety behind RecoversWhenUp.                                          *)
THEOREM FailuresAlwaysDrain == Spec => [][FailuresDrain]_vars
<1>1. TypeOK /\ [Next]_vars => FailuresDrain
  <2> SUFFICES ASSUME TypeOK, [Next]_vars, endpoint = "up"
               PROVE  /\ Failing' \subseteq Failing
                      /\ enabled /\ ~enabled' => pc[Operator] = "disable" \/ Failing' # Failing
    BY DEF FailuresDrain
  <2>1. CASE UNCHANGED <<enabled, fails, pc>>
    BY <2>1 DEF Failing
  <2>2. ASSUME NEW p \in Procs, Step(p)
        PROVE  /\ Failing' \subseteq Failing
               /\ enabled /\ ~enabled' => pc[Operator] = "disable" \/ Failing' # Failing
    <3>1. PICK l \in Label : pc' = [pc EXCEPT ![p] = l]
      BY <2>2, StepAlone
    <3>2. pc'[p] = l /\ \A r \in Procs \ {p} : pc'[r] = pc[r]
      BY <3>1 DEF TypeOK
    <3>3. p # Operator => (l \in {"fail", "judge", "disable"} => pc[p] \in {"fail", "judge", "disable"})
      BY <2>2, <3>2, QueryAdvances, CheckerAdvances DEF Step, Procs
    <3>4. Failing' \subseteq Failing
      BY <3>2, <3>3 DEF Failing
    <3>5. ASSUME p # Operator, enabled, ~enabled' PROVE p \in Failing /\ p \notin Failing'
      <4>1. pc[p] = "disable"
        BY <2>2, <3>5, QueryAdvances, CheckerAdvances DEF Step, Procs
      <4>2. Disable(p)
        BY <2>2, <3>5, <4>1, DoHAssumption DEF Step, Procs, Forward, QueryStep, Recheck, ExchangeEnds,
              Reset, PlainDNS, AddFailure, Judge, CheckerStep, SkipCheck, StartCheck, ProbeEnds, Healthy,
              FlagStep, Enable, Clear, Goto
      <4>3. l \in {"plain", "idle"}
        BY <3>2, <3>5, <4>2 DEF Disable, Goto, AfterFailure, Procs, TypeOK
      <4> QED BY <3>2, <3>5, <4>1, <4>3 DEF Failing
    <3>6. ASSUME p = Operator, enabled, ~enabled' PROVE pc[Operator] = "disable"
      BY <2>2, <3>6, OperatorAdvances, DoHAssumption DEF Step, Procs
    <3> QED BY <3>4, <3>5, <3>6
  <2> QED BY <2>1, <2>2, Steps
<1> QED BY <1>1, TypeCorrect, PTL DEF Spec

(* The safety behind FallsBackWhenDown.                                       *)
THEOREM SuccessesAlwaysDrain == Spec => [][SuccessesDrain]_vars
<1>1. TypeOK /\ [Next]_vars => SuccessesDrain
  <2> DEFINE Goal == /\ Mending' \subseteq Mending
                     /\ ~enabled /\ enabled' => pc[Operator] = "enable" \/ pc[Checker] = "enable"
                     /\ fails' < fails => pc[Operator] = "clear" \/ \E p \in Mending : pc'[p] # pc[p]
  <2> SUFFICES ASSUME TypeOK, [Next]_vars, endpoint = "down" PROVE Goal
    BY DEF SuccessesDrain
  <2>1. CASE UNCHANGED <<enabled, fails, pc>>
    <3>1. fails \in Nat
      BY DoHAssumption DEF TypeOK
    <3>2. ~(fails' < fails)
      BY <2>1, <3>1
    <3> QED BY <2>1, <3>2 DEF Mending
  <2>2. ASSUME NEW p \in Procs, Step(p) PROVE Goal
    <3>1. PICK l \in Label : pc' = [pc EXCEPT ![p] = l]
      BY <2>2, StepAlone
    <3>2. pc'[p] = l /\ \A r \in Procs \ {p} : pc'[r] = pc[r]
      BY <3>1 DEF TypeOK
    <3>3. CASE p \in Queries
      <4>1. /\ l \notin {"healthy", "enable", "clear"}
            /\ l = "reset" => pc[p] = "reset"
            /\ ~(~enabled /\ enabled')
            /\ fails' < fails => pc[p] = "reset" /\ l # pc[p]
        BY <2>2, <3>2, <3>3, QueryAdvances DEF TypeOK
      <4>2. p \in Procs \ {Operator}
        BY <3>3, DoHAssumption DEF Procs
      <4> QED BY <3>2, <4>1, <4>2 DEF Mending
    <3>4. CASE p = Checker
      <4>1. /\ l \in {"healthy", "enable", "clear", "reset"} => pc[p] \in {"healthy", "enable", "clear", "reset"}
            /\ ~enabled /\ enabled' => pc[Checker] = "enable"
            /\ fails' < fails => pc[p] \in {"clear", "reset"} /\ l # pc[p]
        BY <2>2, <3>2, <3>4, CheckerAdvances, DoHAssumption DEF Step
      <4>2. p \in Procs \ {Operator}
        BY <3>4, DoHAssumption DEF Procs
      <4> QED BY <3>2, <3>4, <4>1, <4>2 DEF Mending
    <3>5. CASE p = Operator
      <4>1. /\ ~enabled /\ enabled' => pc[Operator] = "enable"
            /\ fails' < fails => pc[Operator] = "clear"
        BY <2>2, <3>5, OperatorAdvances, DoHAssumption DEF Step
      <4>2. Mending' = Mending
        BY <3>2, <3>5 DEF Mending
      <4> QED BY <4>1, <4>2
    <3> QED BY <3>3, <3>4, <3>5 DEF Procs
  <2> QED BY <2>1, <2>2, Steps
<1> QED BY <1>1, TypeCorrect, PTL DEF Spec
=============================================================================
