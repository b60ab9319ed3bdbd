----------------------------- MODULE KernelFlow -----------------------------
(***************************************************************************)
(* run_flow (kernel/runner.py): the loop that takes a Flow from step to    *)
(* step.  Each turn passes a safe point, where the user events pending for *)
(* the step are read and projected into a snapshot; runs the step through  *)
(* run_step (KernelStep, every action of which is kept); acknowledges the  *)
(* events the step consumed; and routes on the step's decision artifact.   *)
(* A flow that stops runs its projections and writes the ledger and the    *)
(* result of this execution.                                               *)
(*                                                                         *)
(* A Flow lives in one workspace and is executed again and again there: a  *)
(* resume is another execution, which finds the step directories and the   *)
(* interaction files of the ones before it.  An execution dies anywhere.   *)
(***************************************************************************)
EXTENDS KernelStep, InteractionPort, Sequences

CONSTANTS
  First,          \* flow.steps[0]
  Judges,         \* the steps whose role is judge
  Routes,         \* flow.routes: [a set of <<step, route value>> -> Steps \cup Stops]
  FlowStops,      \* statuses of the FlowStop targets
  Projected,      \* the sources of flow.projections; {} for a flow without any
  MaxSteps,       \* limit: the max_steps argument, or twice the steps
  MaxExecutions,  \* bound: executions of the flow in this workspace
  NoRun

Executions == 1..MaxExecutions

\* Projection.validate, of the sources of all projections of the flow.
ProjectionsValid == Projected \subseteq Refs

\* Flow.validate, and the snapshot refs run_flow makes: one to an execution
\* and a loop index.  What a judge accepts rests on an output of another step,
\* which the code also wants declared before the judge; Steps has no order.
FlowValid ==
  /\ MaxExecutions \in Nat
  /\ MaxSteps \in Nat \ {0}
  /\ Positions = 1..MaxSteps
  /\ Snapshots = Executions \X Positions
  /\ First \in Steps
  /\ Judges \subseteq Steps
  /\ FlowStops \cap Steps = {}
  /\ ProjectionsValid
  /\ DOMAIN Routes \subseteq Steps \X RouteValues
  /\ Routes \in [DOMAIN Routes -> Steps \cup FlowStops]
  /\ \A r \in DOMAIN Routes :
       /\ RouteOn[r[1]] # NoRoute
       /\ Routes[r] = "accepted" =>
            /\ r[1] \in Judges
            /\ \E s \in Steps \ Judges : Inputs[r[1]] \cap Outputs[s] # {}

ASSUME FlowDeclarations == FlowValid

VARIABLES
  flowPhase,   \* where run_flow is
  run,         \* its arguments and execution id
  index,       \* the loop index
  current,     \* the step the loop is at
  shown,       \* interaction_snapshot_events, from the first read
  stepSnap,    \* interaction_snapshot_ref
  unacked,     \* the events acknowledge has still to append
  visited,     \* step_results
  flowStatus,  \* status
  executions,  \* the execution directories there are
  ledgers,     \* flow_ledger.jsonl of each execution
  results      \* flow_result.json of each execution

runVars == <<flowPhase, run, index, current, shown, stepSnap, unacked, visited,
             flowStatus>>
archive == <<executions, ledgers, results>>
flowVars == <<stepVars, portVars, runVars, archive>>

FlowPhases == {"idle", "safe_point", "projecting", "ready", "step", "acking",
               "routing", "stopping", "ledger", "result"}

FlowStatus == FlowStops \cup {"completed", "failed", "blocked"}

Visits == [key : Keys, status : StepStatus, recovered : BOOLEAN]

Ledgers == [status : FlowStatus, steps : Seq(Visits)]

FlowTypeOK ==
  /\ PortTypeOK
  /\ flowPhase \in FlowPhases
  /\ run \in [execution : Executions, context : Contexts, resume : BOOLEAN] \cup {NoRun}
  /\ index \in Positions
  /\ current \in Steps
  /\ shown \subseteq Events
  /\ stepSnap \in Snapshots \cup {NoSnapshot}
  /\ unacked \subseteq Events
  /\ visited \in Seq(Visits)
  /\ flowStatus \in FlowStatus
  /\ executions \subseteq Executions
  /\ DOMAIN ledgers \cup DOMAIN results \subseteq Executions
  /\ ledgers \in [DOMAIN ledgers -> Ledgers]
  /\ results \in [DOMAIN results -> Ledgers]

NotRunning ==
  /\ flowPhase' = "idle"
  /\ run' = NoRun
  /\ index' = 1
  /\ current' = First
  /\ shown' = {}
  /\ stepSnap' = NoSnapshot
  /\ unacked' = {}
  /\ visited' = <<>>
  /\ flowStatus' = "failed"

FlowInit ==
  /\ StepInit
  /\ PortInit
  /\ flowPhase = "idle"
  /\ run = NoRun
  /\ index = 1
  /\ current = First
  /\ shown = {}
  /\ stepSnap = NoSnapshot
  /\ unacked = {}
  /\ visited = <<>>
  /\ flowStatus = "failed"
  /\ executions = {}
  /\ ledgers = <<>>
  /\ results = <<>>

----------------------------------------------------------------------------
\* One more than the last of the directories there are.
After(directories) ==
  IF directories = {} THEN 1 ELSE 1 + CHOOSE e \in directories :
                                        \A other \in directories : other <= e

\* Mutant: the id of an execution that left no result is given out again.
NextExecutionAfterResults == After(DOMAIN results)

\* _next_flow_execution_id.
NextExecution == After(executions)

StartFlow(context, resume) ==
  /\ flowPhase = "idle"
  /\ NextExecution \in Executions
  /\ flowPhase' = "safe_point"
  /\ run' = [execution |-> NextExecution, context |-> context, resume |-> resume]
  /\ UNCHANGED <<stepVars, portVars, index, current, shown, stepSnap, unacked,
                 visited, flowStatus, archive>>

\* Mutant: a snapshot at every safe point, empty or not.
ReadPendingAlways ==
  /\ flowPhase = "safe_point"
  /\ shown' = Pending(current)
  /\ stepSnap' = NoSnapshot
  /\ flowPhase' = "projecting"
  /\ UNCHANGED <<stepVars, portVars, run, index, current, unacked, visited,
                 flowStatus, archive>>

\* The first read of the safe point, in _prepare_interaction_snapshot.
ReadPending ==
  /\ flowPhase = "safe_point"
  /\ shown' = Pending(current)
  /\ stepSnap' = NoSnapshot
  /\ flowPhase' = IF shown' = {} THEN "ready" ELSE "projecting"
  /\ UNCHANGED <<stepVars, portVars, run, index, current, unacked, visited,
                 flowStatus, archive>>

\* Mutant: a request among messages is not seen.
StopRequestedAlone == \A event \in shown : Stops(event)

\* _interaction_stop_decision.
StopRequested == \E event \in shown : Stops(event)

\* The snapshot is written from a second read; whether the flow stops is
\* decided on the first one.
ProjectPending ==
  /\ flowPhase = "projecting"
  /\ stepSnap' = <<run.execution, index>>
  /\ WritePendingProjection(stepSnap', current)
  /\ executions' = executions \cup {run.execution}
  /\ IF StopRequested
       THEN flowPhase' = "stopping" /\ flowStatus' = "blocked"
       ELSE flowPhase' = "ready" /\ UNCHANGED flowStatus
  /\ UNCHANGED <<stepVars, run, index, current, shown, unacked, visited,
                 ledgers, results>>

CallStep ==
  /\ flowPhase = "ready"
  /\ flowPhase' = "step"
  /\ Invoke(<<index, current>>, run.context, stepSnap, run.resume)
  /\ UNCHANGED <<portVars, run, index, current, shown, stepSnap, unacked,
                 visited, flowStatus, archive>>

InStep ==
  /\ flowPhase = "step"
  /\ RunStep
  /\ UNCHANGED <<portVars, runVars, archive>>

\* Mutant: the flow goes on whatever the step returned.
ContinuesAlways(status) == TRUE

Continues(status) == status \in {"completed", "skipped"}

\* Mutant: the pending events are read again to acknowledge them.
ToAcknowledgePending == Pending(current)

ToAcknowledge == shown

StepReturned ==
  /\ flowPhase = "step"
  /\ phase = "done"
  /\ Return
  /\ visited' = Append(visited, [key       |-> call.key,
                                 status    |-> outcome.status,
                                 recovered |-> outcome.recovered])
  /\ IF Continues(outcome.status)
       THEN /\ flowPhase' = "acking"
            /\ unacked' = ToAcknowledge
            /\ UNCHANGED flowStatus
       ELSE /\ flowPhase' = "stopping"
            /\ flowStatus' = outcome.status
            /\ UNCHANGED unacked
  /\ UNCHANGED <<portVars, run, index, current, shown, stepSnap, archive>>

\* An exception of run_step leaves run_flow: no ledger and no result.
StepRaised ==
  /\ flowPhase = "step"
  /\ phase = "raised"
  /\ Return
  /\ NotRunning
  /\ UNCHANGED <<portVars, archive>>

\* One turn of the loop in acknowledge; in the code the turns are in the order of
\* submission.
AcknowledgeOne(event) ==
  /\ flowPhase = "acking"
  /\ event \in unacked
  /\ Acknowledge(event, stepSnap, <<index, current>>)
  /\ unacked' = unacked \ {event}
  /\ UNCHANGED <<stepVars, flowPhase, run, index, current, shown, stepSnap,
                 visited, flowStatus, archive>>

AcknowledgedAll ==
  /\ flowPhase = "acking"
  /\ unacked = {}
  /\ flowPhase' = "routing"
  /\ UNCHANGED <<stepVars, portVars, run, index, current, shown, stepSnap,
                 unacked, visited, flowStatus, archive>>

----------------------------------------------------------------------------
StopFlow(status) ==
  /\ flowPhase' = "stopping"
  /\ flowStatus' = status
  /\ UNCHANGED <<index, current>>

DecisionRoute == <<current, RouteValue(file, current)>>

\* Mutant: one turn too many.
TurnsLeftOffByOne == index <= MaxSteps

TurnsLeft == index < MaxSteps

NextIndex == index + 1

Routed == DecisionRoute \in DOMAIN Routes

GoTo(target) ==
  /\ target \in Steps
  /\ flowPhase' = "safe_point"
  /\ index' = NextIndex
  /\ current' = target
  /\ UNCHANGED flowStatus

\* After the step: stop without a route, stop on a decision that does not parse
\* or has no route, stop at a FlowStop, run out of turns, or go on to a step.
Route ==
  /\ flowPhase = "routing"
  /\ \/ RouteOn[current] = NoRoute /\ StopFlow("completed")
     \/ RouteOn[current] # NoRoute /\ ~Routed /\ StopFlow("blocked")
     \/ Routed /\ Routes[DecisionRoute] \in FlowStops /\ StopFlow(Routes[DecisionRoute])
     \/ Routed /\ Routes[DecisionRoute] \in Steps /\ ~TurnsLeft /\ StopFlow("blocked")
     \/ Routed /\ TurnsLeft /\ GoTo(Routes[DecisionRoute])
  /\ UNCHANGED <<stepVars, portVars, run, shown, stepSnap, unacked, visited,
                 archive>>

----------------------------------------------------------------------------
Projecting == Projected # {} /\ flowStatus \notin {"failed", "blocked"}

\* run_projections: each projection reads its sources and writes its output
\* and its record, which makes the directory of this execution.
RunProjections ==
  /\ flowPhase = "stopping"
  /\ Projecting => Existing(file, Projected) = Projected
  /\ executions' = IF Projecting THEN executions \cup {run.execution} ELSE executions
  /\ flowPhase' = "ledger"
  /\ UNCHANGED <<stepVars, portVars, run, index, current, shown, stepSnap,
                 unacked, visited, flowStatus, ledgers, results>>

\* A source is missing or the product's projector raises, perhaps after other
\* projections were recorded.  The exception leaves run_flow.
ProjectionRaises ==
  /\ flowPhase = "stopping"
  /\ Projecting
  /\ executions' \in {executions, executions \cup {run.execution}}
  /\ NotRunning
  /\ UNCHANGED <<stepVars, portVars, ledgers, results>>

Entry == [status |-> flowStatus, steps |-> visited]

Archived(documents) ==
  [e \in DOMAIN documents \cup {run.execution} |->
     IF e = run.execution THEN Entry ELSE documents[e]]

WriteLedger ==
  /\ flowPhase = "ledger"
  /\ executions' = executions \cup {run.execution}
  /\ ledgers' = Archived(ledgers)
  /\ flowPhase' = "result"
  /\ UNCHANGED <<stepVars, portVars, run, index, current, shown, stepSnap,
                 unacked, visited, flowStatus, results>>

WriteFlowResult ==
  /\ flowPhase = "result"
  /\ results' = Archived(results)
  /\ NotRunning
  /\ UNCHANGED <<stepVars, portVars, executions, ledgers>>

----------------------------------------------------------------------------
\* The process dies, in a step or between the steps.
Die ==
  /\ flowPhase # "idle"
  /\ \/ Crash
     \/ phase = "idle" /\ UNCHANGED stepVars
  /\ NotRunning
  /\ UNCHANGED <<portVars, archive>>

\* The host edits the files of a flow between its executions, its sources at
\* any time.
Host ==
  /\ Environment
  /\ flowPhase = "idle" \/ \A s \in Steps : \A r \in Writable[s] : file'[r] = file[r]
  /\ flowPhase = "idle" \/ UNCHANGED installed
  /\ UNCHANGED <<portVars, runVars, archive>>

User ==
  /\ \E event \in Events : SubmitUserEvent(event)
  /\ UNCHANGED <<stepVars, runVars, archive>>

\* What the process of run_flow does by itself.
FlowProgress ==
  \/ ReadPending
  \/ ProjectPending
  \/ CallStep
  \/ InStep
  \/ StepReturned
  \/ StepRaised
  \/ \E event \in Events : AcknowledgeOne(event)
  \/ AcknowledgedAll
  \/ Route
  \/ RunProjections
  \/ ProjectionRaises
  \/ WriteLedger
  \/ WriteFlowResult

FlowNext ==
  \/ \E context \in Contexts, resume \in ResumeModes : StartFlow(context, resume)
  \/ FlowProgress
  \/ Die
  \/ Host
  \/ User

FlowSpec == FlowInit /\ [][FlowNext]_flowVars

FairFlowSpec == FlowSpec /\ WF_flowVars(FlowProgress)
----------------------------------------------------------------------------
Recorded(key) == stepRecord[key] \notin {Absent, Torn}

\* An accepted flow was accepted by its judge: the verdict it was routed on was
\* written by a judge call of this contract and context that read the inputs as
\* they stand now.  Rejections, crashes, failed and retried judges and edited
\* sources in earlier executions leave stale verdicts behind, and none of them
\* is taken for a new one.  Executions in which a failed step was recovered are
\* left out; RecoveredSkipSound is about those.
AcceptedIsJudged ==
  /\ flowPhase \in {"ledger", "result"}
  /\ flowStatus = "accepted"
  /\ \A i \in DOMAIN visited : ~visited[i].recovered
  => /\ current \in Judges
     /\ \E m \in made :
          /\ m[2] = RouteOn[current]
          /\ m[3] = file[RouteOn[current]]
          /\ m[1].step = current
          /\ m[1].context = run.context
          /\ \A s \in Steps : \A r \in Inputs[current] \cap Outputs[s] :
               m[1].inputs[r] = file[r]

\* Resume keeps completed upstream work: as long as the host changes nothing and
\* the user says nothing, a step whose record is completed, for this context and
\* these input contents, is not run again, wherever the execution before died
\* (docs/KERNEL_API_DESIGN.md, Resume Semantics).  The code keeps it only for a
\* flow without loops that always resumes under one contract: see the README.
CompletedStepsKept ==
  [][phase = "check" /\ phase' = "lock" /\ call.resume
       /\ userEvents = {} /\ edits = 0
       => ~ (/\ Recorded(call.key)
             /\ stepRecord[call.key].status = "completed"
             /\ stepRecord[call.key].work.context = call.work.context
             /\ stepRecord[call.key].work.inputs = call.work.inputs)]_flowVars

\* Whatever one execution has put in its directory, no later one changes:
\* ledgers, results and the snapshots that acknowledgements cite.
ExecutionsAppendOnly ==
  [][/\ \A e \in DOMAIN ledgers : e \in DOMAIN ledgers' /\ ledgers'[e] = ledgers[e]
     /\ \A e \in DOMAIN results : e \in DOMAIN results' /\ results'[e] = results[e]
     /\ \A s \in DOMAIN snapshots :
          s \in DOMAIN snapshots' /\ snapshots'[s] = snapshots[s]]_flowVars

\* An event is acknowledged only by a step that was called with a snapshot that
\* holds the event and that completed: neither a failed step nor a skipped one,
\* nor an event that came between the two reads of the safe point.
AcknowledgedByCompletedStep ==
  [][\A ack \in acks' \ acks :
       /\ Recorded(ack.key)
       /\ stepRecord[ack.key].status = "completed"
       /\ stepRecord[ack.key].work.snap = ack.snap
       /\ ack.event \in snapshots[ack.snap]]_flowVars

Earlier(s, t) == s[1] < t[1] \/ (s[1] = t[1] /\ s[2] < t[2])

\* Once a safe point has projected a request to stop the flow, no step is called
\* at a later safe point of this execution or of any later one.  The request may
\* have come between the two reads of that safe point, and then its own step
\* still runs.  Nothing consumes the request, so a paused flow stays paused.
StopWithinOneStep ==
  flowPhase = "step" =>
    \A s \in DOMAIN snapshots : \A event \in snapshots[s] :
      Stops(event) /\ Target[event] = "flow" => ~ Earlier(s, <<run.execution, index>>)

\* What a user is promised: EventDelivery, with the two JSONL files and the
\* snapshots as its state.
Delivered == INSTANCE EventDelivery WITH
  Requests  <- {e \in Events : Stops(e)},
  submitted <- userEvents,
  shown     <- UNION {snapshots[s] : s \in DOMAIN snapshots},
  consumed  <- [e \in Events |-> Cardinality({ack \in acks : ack.event = e})]

ImplementsDelivery == Delivered!DeliverySpec

\* run_flow ends, unless its process dies: the loop and every retry in it are
\* bounded, whatever the workers decide.
FlowEnds == flowPhase = "safe_point" ~> flowPhase = "idle"

\* Work done under a user's intervention stays in the flow: the record of the
\* step that consumed an event is of a call that carried the event's snapshot.
\* The code does not keep it: see the README.
InterventionKept ==
  \A ack \in acks :
    Recorded(ack.key) /\ stepRecord[ack.key].status = "completed"
      => stepRecord[ack.key].work.snap = ack.snap
=============================================================================
