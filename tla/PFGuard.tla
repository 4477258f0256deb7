------------------------------- MODULE PFGuard -------------------------------
(***************************************************************************)
(* internal/pfguard/guard_darwin.go: one goroutine dumps the rules of pf,    *)
(* first the main ruleset, then anchor by anchor, while other programs load  *)
(* and flush rules, and alerts on those that block Apple's network. Each     *)
(* dump is a process of its own and may fail.                               *)
(***************************************************************************)
EXTENDS AlertManager

CONSTANTS
    Anchors,        \* the anchors there are
    CastielAnchor,  \* cfg.CastielAnchor
    PFRules,        \* rules, with what scanRules finds in their text
    GuardInterval   \* cfg.CheckInterval of the guard

ASSUME GuardAssumption == GuardInterval \in Nat \ {0}

Main == "main"      \* the main ruleset
Places == Anchors \union {Main}
Lines == [place : Places, rule : PFRules]

VARIABLES
    inForce,    \* the rules loaded, with their places
    scan,       \* checkRules: the dumps it has yet to take, the lines it has read
                \* and the findings it has yet to send
    steady      \* when the scan began; history: the rules in force ever since at
                \* places whose dump did not fail, and those a whole scan has left

guardVars == <<inForce, scan, steady>>

\* scanRules: a line that names the own anchor is skipped; one that blocks the
\* network is reported, and again if it is about the ports of certificate
\* validation, since the pattern for single addresses matches it too.
Findings(line) ==
    LET r == line.rule IN
    {[line |-> line, kind |-> k] : k \in
        {k \in {"network", "ip"} : ~r.own /\ r.block /\
            IF k = "network" THEN r.target = "network" ELSE r.target # "other" /\ r.ports}}

FindingsIn(lines) == UNION {Findings(l) : l \in lines}
At(place) == {l \in inForce : l.place = place}

\* Another program loads or flushes a rule.
RuleChanges(lines) ==
    /\ \E l \in lines : inForce' = (inForce \ {l}) \union ({l} \ inForce)
    /\ steady' = [steady EXCEPT !.rules = @ \cap inForce']
    /\ UNCHANGED scan

Idle == [at |-> "idle", left |-> {}, lines |-> {}, found |-> {}]

\* The main ruleset: with an error, or without a rule, the scan is over.
ReadMain ==
    /\ scan.at = "idle" /\ Ticked(steady.since, GuardInterval)
    /\ steady' = [since |-> now, rules |-> inForce, passed |-> {}]
    /\ scan' \in {Idle} \union
          (IF At(Main) = {} THEN {} ELSE {[Idle EXCEPT !.at = "list", !.lines = At(Main)]})
    /\ UNCHANGED inForce

OtherAnchors == Anchors \ {CastielAnchor}

\* The names of the anchors: with an error only the main ruleset is scanned.
ListAnchors ==
    /\ scan.at = "list"
    /\ \/ scan' = [scan EXCEPT !.at = "read", !.left = OtherAnchors] /\ UNCHANGED steady
       \/ /\ scan' = [scan EXCEPT !.at = "read"]
          /\ steady' = [steady EXCEPT !.rules = {l \in @ : l.place = Main}]
    /\ UNCHANGED inForce

AppendedOver(lines) == lines
Appended(lines) == scan.lines \union lines

\* The rules of an anchor: with an error they are passed over.
ReadAnchor ==
    /\ scan.at = "read"
    /\ \E a \in scan.left :
          \/ /\ scan' = [scan EXCEPT !.left = @ \ {a}, !.lines = Appended(At(a))]
             /\ UNCHANGED steady
          \/ /\ scan' = [scan EXCEPT !.left = @ \ {a}]
             /\ steady' = [steady EXCEPT !.rules = {l \in @ : l.place # a}]
    /\ UNCHANGED inForce

ScanRules ==
    /\ scan.at = "read" /\ scan.left = {}
    /\ scan' = [Idle EXCEPT !.at = "report", !.found = FindingsIn(scan.lines)]
    /\ UNCHANGED <<inForce, steady>>

\* One finding is sent after the other.
Reported ==
    /\ scan.at = "report"
    /\ \E f \in scan.found : scan' = [scan EXCEPT !.found = @ \ {f}]
    /\ UNCHANGED <<inForce, steady>>

EndScan ==
    /\ scan.at = "report" /\ scan.found = {}
    /\ scan' = Idle
    /\ steady' = [steady EXCEPT !.passed = {l \in steady.rules : l.place # CastielAnchor}]
    /\ UNCHANGED inForce

GuardStep == ReadMain \/ ListAnchors \/ ReadAnchor \/ ScanRules \/ EndScan

GuardInit ==
    /\ inForce \in SUBSET Lines
    /\ scan = Idle
    /\ steady = [since |-> -1, rules |-> {}, passed |-> {}]

GuardTypeOK ==
    /\ inForce \subseteq Lines
    /\ scan \in [at : {"idle", "list", "read", "report"}, left : SUBSET OtherAnchors,
                 lines : SUBSET Lines, found : SUBSET FindingsIn(Lines)]
    /\ steady \in [since : -1..now, rules : SUBSET Lines, passed : SUBSET Lines]

(* A rule that blocks Apple's network and outlives a whole scan is reported   *)
(* in it, or so short a time before that the quota was used up, however rules *)
(* elsewhere change between the dumps.                                       *)
BlockingReported ==
    FindingsIn(steady.passed) # {} =>
        WrittenSince("unauthorized_pf_rule", steady.since - AlertWindow)
=============================================================================
