---------------------------- MODULE MCKernelFlow ----------------------------
(***************************************************************************)
(* Two-step flows: a draft that reads src and writes a report, and a judge *)
(* that reads the report and writes a verdict.  Either file is the         *)
(* decision its step routes on.                                            *)
(***************************************************************************)
EXTENDS KernelFlow

CONSTANTS draft, judge, src, report, verdict, a, b, yes, no, c1, task, p1,
          m1, m2, stop

MCPair(x, y) == [s \in Steps |-> IF s = draft THEN x ELSE y]

MCInputs == MCPair({src}, {report})
MCOutputs == MCPair({report}, {verdict})
MCRouteOn == MCPair(report, verdict)
MCContentsOf == [r \in Refs |-> {a, b}]
MCOneContent == [r \in Refs |-> {a}]
MCReportContents == [r \in Refs |-> IF r = report THEN {a, b} ELSE {a}]
MCVerdictContents == [r \in Refs |-> IF r = verdict THEN {a, b} ELSE {a}]
MCRouteValueOf == [c \in Contents |-> IF c = a THEN yes ELSE no]
MCNoRetries == MCPair(0, 0)
MCOneRetry == MCPair(0, 1)
MCOnExhausted == MCPair("failed", "blocked")
MCContractOf == [c \in Contexts |-> task]
MCPositions == 1..MaxSteps
MCSnapshots == Executions \X Positions

\* draft -> judge -> accepted or rejected.
MCStraight == [r \in {<<draft, yes>>, <<draft, no>>, <<judge, yes>>, <<judge, no>>} |->
                 IF r[1] = draft THEN judge ELSE IF r[2] = yes THEN "accepted" ELSE "rejected"]

\* The same with a bounded loop: the judge sends the report back.
MCLoop == [r \in {<<draft, yes>>, <<draft, no>>, <<judge, yes>>, <<judge, no>>} |->
             IF r[1] = draft THEN judge ELSE IF r[2] = yes THEN "accepted" ELSE draft]

\* The loop with no route for a draft that says no.
MCPartialLoop == [r \in {<<draft, yes>>, <<judge, yes>>, <<judge, no>>} |-> MCLoop[r]]

\* The judge does not route: the flow is completed after it.
MCDraftRoutes == MCPair(report, NoRoute)
MCToJudge == [r \in {<<draft, yes>>, <<draft, no>>} |-> judge]

\* m1 is a message to the flow, m2 to the judge; stop asks the flow to pause.
MCKind == [e \in Events |-> IF e = stop THEN "pause_request" ELSE "message"]
MCDelivery == [e \in Events |-> "next_safe_point"]
MCTarget == [e \in Events |-> IF e = m2 THEN judge ELSE "flow"]
=============================================================================
