---------------------------- MODULE QueryTracking ----------------------------
(***************************************************************************)
(* The two per-query histories of handleDNS, composed in the order the     *)
(* handler calls them (proxy.go 321-404 and 475-507). Each call takes its   *)
(* detector's own mutex, so other queries, the two cleanup goroutines and   *)
(* the clock get in between any two of them.                                *)
(***************************************************************************)
EXTENDS NXDomainTracker, SparseDGA, Sequences

CONSTANTS
    Queries,    \* goroutines of handleDNS, one query each
    Apex        \* ExtractApexDomain, as a function from Names to Domains

ASSUME TrackingAssumption == Apex \in [Names -> Domains]

VARIABLES
    pc,         \* where each query stands
    task,       \* task[q]: the client and the name of q, while it is handled
    fresh,      \* fresh[q]: the client's present sparse-DGA window counted q
    carried,    \* per client: NXDOMAINs in its window from queries not fresh
    nxTimes,    \* history: when the NXDOMAINs of each domain were recorded
    lastTrip    \* history: how many there were when RecordNXDomain last returned true

handlerVars == <<pc, task, fresh>>
vars == <<now, counters, clients, pc, task, fresh, carried, nxTimes, lastTrip>>

Control == {"new", "tracked", "upstream", "nxdomain", "counted", "done"}
InFlight == {"tracked", "upstream", "nxdomain", "counted"}

Task == [client : Clients, name : Names]
NoTask == [client |-> "none", name |-> "none"]

Goto(q, from, to) == pc[q] = from /\ pc' = [pc EXCEPT ![q] = to]

Pending(c, isFresh) ==
    Cardinality({q \in Queries : pc[q] \in InFlight /\ task[q].client = c /\ fresh[q] = isFresh})

Open == [c \in Clients |-> Pending(c, TRUE)]
Old == [c \in Clients |-> Pending(c, FALSE)]

Init ==
    /\ NXInit
    /\ clients = [c \in Clients |-> NoHistory]
    /\ pc = [q \in Queries |-> "new"]
    /\ task = [q \in Queries |-> NoTask]
    /\ fresh = [q \in Queries |-> FALSE]
    /\ carried = [c \in Clients |-> 0]
    /\ nxTimes = [d \in Domains |-> <<>>]
    /\ lastTrip = [d \in Domains |-> 0]

\* When the history of client c starts over, no query of c stays fresh.
AgeQueries(c, q, qFresh) ==
    fresh' = [r \in Queries |->
                 IF r = q THEN qFresh
                 ELSE fresh[r] /\ ~(task[r].client = c /\ Rolls(clients[c]))]

\* 5d. sparseDGA.RecordQuery(clientIP, domain, false)
Arrives(q, c, n) ==
    /\ Goto(q, "new", "tracked")
    /\ task' = [task EXCEPT ![q] = [client |-> c, name |-> n]]
    /\ RecordQuery(c, n, FALSE)
    /\ AgeQueries(c, q, TRUE)
    /\ carried' = IF Rolls(clients[c]) THEN [carried EXCEPT ![c] = 0] ELSE carried
    /\ UNCHANGED <<now, counters, nxTimes, lastTrip>>

\* The handler goes on to `to`, or is done with the query.
Proceed(q, from, to) ==
    /\ Goto(q, from, to)
    /\ IF to = "done"
       THEN task' = [task EXCEPT ![q] = NoTask] /\ fresh' = [fresh EXCEPT ![q] = FALSE]
       ELSE UNCHANGED <<task, fresh>>

\* 6b. nxdomainTracker.IsBlocked(apexDomain): a blocked query ends here
CheckBlock(q) ==
    LET d == Apex[task[q].name] IN
    /\ Proceed(q, "tracked", IF BlockInForce(d) THEN "done" ELSE "upstream")
    /\ IsBlocked(d)
    /\ UNCHANGED <<now, clients, carried, nxTimes, lastTrip>>

\* 7, 8. A cached answer, an error, a rejected answer or another rcode ends the
\* query as far as these histories go; NXDOMAIN from upstream is recorded next.
Answered(q) ==
    /\ \/ Proceed(q, "upstream", "nxdomain")
       \/ Proceed(q, "upstream", "done")
    /\ UNCHANGED <<now, counters, clients, carried, nxTimes, lastTrip>>

CountNXTwice(q) ==
    LET d == Apex[task[q].name] IN
    /\ Goto(q, "nxdomain", "counted")
    /\ RecordNXDomain(d)
    /\ RecordQuery(task[q].client, task[q].name, TRUE)
    /\ nxTimes' = [nxTimes EXCEPT ![d] = Append(@, now)]
    /\ lastTrip' = [lastTrip EXCEPT ![d] = IF Exceeds(counters'[d].count) THEN Len(nxTimes'[d]) ELSE @]
    /\ UNCHANGED <<now, task, fresh, carried>>
\* 8c. nxdomainTracker.RecordNXDomain(apexDomain)
CountNX(q) ==
    LET d == Apex[task[q].name] IN
    /\ Goto(q, "nxdomain", "counted")
    /\ RecordNXDomain(d)
    /\ nxTimes' = [nxTimes EXCEPT ![d] = Append(@, now)]
    /\ lastTrip' = [lastTrip EXCEPT ![d] = IF Exceeds(counters'[d].count) THEN Len(nxTimes'[d]) ELSE @]
    /\ UNCHANGED <<now, clients, task, fresh, carried>>

\* 8d. sparseDGA.RecordQuery(clientIP, queryDomain, true)
CountSparse(q) ==
    LET c == task[q].client IN
    /\ Goto(q, "counted", "done")
    /\ task' = [task EXCEPT ![q] = NoTask]
    /\ RecordQuery(c, task[q].name, TRUE)
    /\ AgeQueries(c, q, FALSE)
    /\ carried' = [carried EXCEPT ![c] =
                      IF Rolls(clients[c]) THEN 1 ELSE IF fresh[q] THEN @ ELSE @ + 1]
    /\ UNCHANGED <<now, counters, nxTimes, lastTrip>>

CleanTracker ==
    /\ NXCleanup
    /\ UNCHANGED <<now, clients, pc, task, fresh, carried, nxTimes, lastTrip>>

CleanSparse ==
    LET gone(c) == clients[c].total > 0 /\ Forgotten(clients[c]) IN
    /\ SparseCleanup
    /\ fresh' = [q \in Queries |-> fresh[q] /\ ~\E c \in Clients : gone(c) /\ task[q].client = c]
    /\ carried' = [c \in Clients |-> IF gone(c) THEN 0 ELSE carried[c]]
    /\ UNCHANGED <<now, counters, pc, task, nxTimes, lastTrip>>

TimePasses ==
    /\ ClockTick
    /\ UNCHANGED <<counters, clients, pc, task, fresh, carried, nxTimes, lastTrip>>

Next ==
    \/ \E q \in Queries :
          \/ \E c \in Clients, n \in Names : Arrives(q, c, n)
          \/ CheckBlock(q) \/ Answered(q) \/ CountNX(q) \/ CountSparse(q)
    \/ CleanTracker
    \/ CleanSparse
    \/ TimePasses

Spec == Init /\ [][Next]_vars

-----------------------------------------------------------------------------

(* Control state, histories and the stamps of both maps keep their types.    *)
TypeOK ==
    /\ NXTypeOK
    /\ clients \in [Clients -> History]
    /\ pc \in [Queries -> Control]
    /\ \A q \in Queries : task[q] \in IF pc[q] \in InFlight THEN Task ELSE {NoTask}
    /\ fresh \in [Queries -> BOOLEAN]
    /\ carried \in [Clients -> Nat]
    /\ nxTimes \in [Domains -> Seq(0..now)]
    /\ \A d \in Domains : lastTrip[d] \in 0..Len(nxTimes[d])

\* When RecordNXDomain last returned true for d
TripTime(d) == nxTimes[d][lastTrip[d]]

(* No false trip: a domain is blocked only after more than Threshold         *)
(* NXDOMAINs within one Window.                                              *)
TripJustified ==
    \A d \in Domains : lastTrip[d] > 0 =>
        /\ lastTrip[d] > Threshold
        /\ TripTime(d) - nxTimes[d][lastTrip[d] - Threshold] <= Window

(* No missed flood: more than twice Threshold NXDOMAINs within any Window    *)
(* trip the tracker during that Window. (Its windows do not slide, so the    *)
(* Threshold itself would not do: a burst may straddle two of them.)         *)
FloodCaught ==
    \A d \in Domains :
        LET n == Len(nxTimes[d]) IN
        n > 2 * Threshold /\ now - nxTimes[d][n - 2 * Threshold] <= Window =>
            lastTrip[d] > 0 /\ now - TripTime(d) <= Window

(* The histories see exactly the calls SparseDGAProtocol allows: never a     *)
(* second NXDOMAIN for one query, none without an arrival before it.         *)
Protocol == INSTANCE SparseDGAProtocol WITH open <- Open, old <- Old
FollowsProtocol == Protocol!SparseSpec

(* The detector fires only on stragglers (see SparseDGAProtocol).            *)
FlagNeedsStragglers == Protocol!FlagNeedsStragglers

(* What the detector's comment says of it, "If NXDOMAIN ratio > threshold AND *)
(* total queries > minimum, flag": of the queries that the window counted, each *)
(* once, when Analyze is called for one that has just arrived. It fails, since *)
(* the detector's own total has a query twice by the time its NXDOMAIN counts. *)
FailingClientFlagged ==
    \A q \in Queries : pc[q] = "tracked" =>
        LET c == task[q].client
            h == clients[c]
            queries == h.total - h.nx
        IN  /\ now - h.first <= SparseWindow
            /\ queries > MinQueries /\ Cardinality(h.names) >= MinUnique
            /\ h.nx * RatioDen > RatioNum * queries
            => Analyze(c)

(* What "block all queries to the domain when threshold exceeded" promises:  *)
(* from the trip to the end of blockUntil, the domain is blocked.            *)
BlockLasts ==
    \A d \in Domains :
        (lastTrip[d] > 0 /\ now <= TripTime(d) + Window) => BlockInForce(d)
=============================================================================
