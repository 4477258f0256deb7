----------------------------- MODULE Inspection ------------------------------
(***************************************************************************)
(* handleDNS with the detectors that keep a history: low-and-slow, C2 and    *)
(* fast-flux, EDNS options, DNSSEC with its downgrade detector. Handlers      *)
(* share the detectors; each call is as atomic as its locks make it.         *)
(***************************************************************************)
EXTENDS EDNSInspector, LowSlowExfil, FastFlux, DNSSECValidator, DNSSECDowngrade

vars == <<now, handlerVars, ednsVars, exfilVars, fluxVars, validatorVars, downgradeVars>>

\* A query comes with the options of its message.
Enter(q) ==
    /\ Arrive(q)
    /\ Carries(q, query'[q].opts)
    /\ UNCHANGED <<exfilVars, fluxVars, validatorVars, downgradeVars>>

\* 5e. Low-and-slow exfiltration tracking
LowSlow(q) ==
    /\ RecordExfil(q) \/ AnalyzeExfil(q)
    /\ UNCHANGED <<ednsVars, fluxVars, validatorVars, downgradeVars>>

\* 6, 6a and 8e. C2 and fast-flux detection
C2Detection(q) ==
    /\ \/ SuspectC2(q) \/ AnalyzeFlux(q)
       \/ TrackFlux(q) \/ TrackNameservers(q) \/ BeginTrackC2(q) \/ EndTrackC2(q)
    /\ UNCHANGED <<ednsVars, exfilVars, validatorVars, downgradeVars>>

\* 6c. EDNS0 option inspection
EDNSInspection(q) ==
    /\ InspectOption(q) \/ Report(q) \/ NoFinding(q)
    /\ UNCHANGED <<exfilVars, fluxVars, validatorVars, downgradeVars>>

Relay(q) ==
    /\ Forward(q)
    /\ UNCHANGED <<ednsVars, exfilVars, fluxVars, validatorVars, downgradeVars>>

\* 9. DNSSEC validation
DNSSEC(q) ==
    /\ ValidatorStep(q)
    /\ UNCHANGED <<ednsVars, exfilVars, fluxVars, downgradeVars>>

\* The verdict is recorded. The client gets the response or, for bogus, SERVFAIL.
Downgrade(q) ==
    /\ At(q, "downgrade")
    /\ LET valid == verdict[q] = "valid" IN
          /\ IF RecordsVerdict(valid) THEN RecordValidation(query[q].name, valid)
                                      ELSE UNCHANGED downgradeVars
          /\ Goto(q, "done")
    /\ UNCHANGED <<query, answer, config, ednsVars, exfilVars, fluxVars, validatorVars>>

Cleanup ==
    \/ CleanupExfil /\ UNCHANGED <<ednsVars, fluxVars, validatorVars, downgradeVars>>
    \/ CleanupDowngrade /\ UNCHANGED <<ednsVars, exfilVars, fluxVars, validatorVars>>

Init ==
    /\ ClockInit /\ HandlerInit
    /\ EDNSInit /\ ExfilInit /\ FluxInit /\ ValidatorInit /\ DowngradeInit

Handle(q) ==
    \/ Enter(q) \/ LowSlow(q) \/ C2Detection(q) \/ EDNSInspection(q)
    \/ Relay(q) \/ DNSSEC(q) \/ Downgrade(q)

Next ==
    /\ ~aborted
    /\ \/ UNCHANGED now /\ ((\E q \in Queries : Handle(q)) \/ Cleanup)
       \/ Tick /\ UNCHANGED <<ednsVars, exfilVars, fluxVars, validatorVars, downgradeVars>>

Spec == Init /\ [][Next]_vars

(* The handlers and every detector keep their types.                         *)
TypeOK ==
    /\ HandlerTypeOK
    /\ EDNSTypeOK
    /\ ExfilTypeOK
    /\ FluxTypeOK
    /\ ValidatorTypeOK
    /\ DowngradeTypeOK
=============================================================================
