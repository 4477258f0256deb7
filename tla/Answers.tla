------------------------------ MODULE Answers ------------------------------
(***************************************************************************)
(* handleDNS with the contents of what it passes on: a response of Pipeline *)
(* stands for the messages of ResponseChecks with its rcode and its flaws.  *)
(***************************************************************************)
EXTENDS Pipeline, ResponseChecks

CONSTANTS
    Records,
    Messages,   \* what an upstream may answer to the question
    Question

ASSUME AnswersAssumption ==
    /\ MaxChainDepth \in Nat
    /\ Question.name \in Seq(STRING)
    /\ \A m \in Messages : m.answer \in Seq(Records)

ContentFlaws == {"malformed", "cname", "rebinding"}

Verdict(m) == <<m.rcode, FlawsOf(m, Question)>>
UnfitVerdicts == {Verdict(m) : m \in {x \in Messages : ~FitsQuestion(x, Question)}}

(* With ValidateResponse and the CNAME checks blocking, what a client gets    *)
(* fits its question: its aliases end within MaxChainDepth steps, an alias    *)
(* comes with an address, and each address belongs to the question's name or  *)
(* to a name an alias before it has led to. Neither check ensures this alone, *)
(* and each comes at a stage of its own.                                      *)
AnswersFit ==
    {"malformed", "cname"} \subseteq config.rejects =>
        \A q \in Queries : \A i \in PassedOn(q) : \A r \in replies[q][i].response :
            <<r.rcode, r.flaws \intersect ContentFlaws>> \notin UnfitVerdicts
=============================================================================
