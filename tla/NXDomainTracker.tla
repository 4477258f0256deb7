--------------------------- MODULE NXDomainTracker ---------------------------
(***************************************************************************)
(* Per-domain NXDOMAIN counting, the defence against DNS water torture:    *)
(* internal/detectors/nxndomain.go. One mutex guards the map, so each      *)
(* exported method is one atomic step; NXSpec lets them be called in any   *)
(* order at any time, whatever handleDNS does.                             *)
(***************************************************************************)
EXTENDS Clock

CONSTANTS
    Domains,    \* apex domains
    Threshold,  \* NXDOMAINs per domain and window that are tolerated
    Window,     \* ticks
    BlockMode   \* blockAction: IsBlocked may answer true

ASSUME NXAssumption ==
    /\ Threshold \in Nat \ {0}
    /\ Window \in Nat \ {0}
    /\ BlockMode \in BOOLEAN

VARIABLE counters   \* the map; a count of 0 stands for a domain not in it

Counter == [count : Nat, first : Nat, last : Nat, blocked : BOOLEAN, until : Nat]

Absent == [count |-> 0, first |-> 0, last |-> 0, blocked |-> FALSE, until |-> 0]

Present(c) == c.count > 0

\* A counter's window is over, seen from RecordNXDomain
Stale(c) == now - c.first > Window

FirstNXFuture ==
    [count |-> 1, first |-> now + Window, last |-> now, blocked |-> FALSE, until |-> 0]
FirstNX ==
    [count |-> 1, first |-> now, last |-> now, blocked |-> FALSE, until |-> 0]

BlockEndHalf == now + Window \div 2
BlockEnd == now + Window

ExceedsAtThreshold(n) == n >= Threshold
ExceedsDouble(n) == n > 2 * Threshold
Exceeds(n) == n > Threshold

NextNX(c) ==
    IF Exceeds(c.count + 1)
    THEN [c EXCEPT !.count = @ + 1, !.last = now, !.blocked = TRUE, !.until = BlockEnd]
    ELSE [c EXCEPT !.count = @ + 1, !.last = now]

\* The first NXDOMAIN after the window replaces the counter, block included.
AfterNX(c) == IF Present(c) /\ ~Stale(c) THEN NextNX(c) ELSE FirstNX

RecordNXDomain(d) ==
    counters' = [counters EXCEPT ![d] = AfterNX(@)]

\* What IsBlocked returns, and the expired block it clears on the way
BlockInForce(d) ==
    BlockMode /\ counters[d].blocked /\ now <= counters[d].until

IsBlocked(d) ==
    counters' = IF BlockMode /\ counters[d].blocked /\ now > counters[d].until
                THEN [counters EXCEPT ![d].blocked = FALSE]
                ELSE counters

IdleTooLongOneWindow(c) == now - c.last >= Window
IdleTooLong(c) == now - c.last > 2 * Window

NXCleanup ==
    counters' = [d \in Domains |->
                    IF IdleTooLong(counters[d]) THEN Absent ELSE counters[d]]

-----------------------------------------------------------------------------

NXInit == ClockInit /\ counters = [d \in Domains |-> Absent]

NXNext ==
    \/ \E d \in Domains : RecordNXDomain(d) /\ UNCHANGED now
    \/ \E d \in Domains : IsBlocked(d) /\ UNCHANGED now
    \/ NXCleanup /\ UNCHANGED now
    \/ ClockTick /\ UNCHANGED counters

NXSpec == NXInit /\ [][NXNext]_<<now, counters>>

(* Types, and the order of the time stamps of a counter.                     *)
NXTypeOK ==
    /\ now \in Nat
    /\ counters \in [Domains -> Counter]
    /\ \A d \in Domains :
          counters[d].first <= counters[d].last /\ counters[d].last <= now

(* The background cleanup never lifts a block that is still in force: it     *)
(* looks at lastSeen only (line 109), not at blockUntil.                     *)
CleanupSparesBlocks ==
    [][\A d \in Domains :
          BlockInForce(d) /\ now' = now => Present(counters'[d])]_<<now, counters>>

(* A block begins exactly when one window has seen Threshold + 1 NXDOMAINs:  *)
(* when a block has run out, a single late NXDOMAIN does not restore it.     *)
BlockBeginsAtThreshold ==
    [][\A d \in Domains :
          ~counters[d].blocked /\ counters'[d].blocked
             => counters[d].count = Threshold]_<<now, counters>>
=============================================================================
