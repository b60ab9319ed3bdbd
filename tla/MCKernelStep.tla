---------------------------- MODULE MCKernelStep ----------------------------
(***************************************************************************)
(* One step directory, run again and again: a draft step that reads src    *)
(* and owes a report and a decision.                                       *)
(***************************************************************************)
EXTENDS KernelStep, TLC

CONSTANTS draft, src, report, decision, a, b, approve, c1, c2, task, p1

MCInputs == draft :> {src}
MCOutputs == draft :> {report, decision}
MCContentsOf == [r \in Refs |-> IF r = report THEN {a} ELSE {a, b}]
MCRouteOn == draft :> decision
MCRouteValueOf == a :> approve @@ b :> InvalidRoute
MCRetries == draft :> 1
MCOnExhausted == draft :> "failed"
MCContractOf == [c \in Contexts |-> task]

\* Smaller steps: a report with nothing to route on, a decision alone.
MCOneOutput == draft :> {report}
MCDecision == draft :> {decision}
MCNoRouteOn == draft :> NoRoute
MCNoRetries == draft :> 0
MCOneContent == [r \in Refs |-> IF r = src THEN {a, b} ELSE {a}]
=============================================================================
