-------------------------- MODULE KernelFlow_proofs --------------------------
(***************************************************************************)
(* Theorems about run_flow, for every value of the constants of KernelFlow *)
(* that its assumptions allow: its type invariant; that the skips in a     *)
(* flow are sound; that its judge accepted what it accepts; and that a     *)
(* resume keeps the work that was completed.                               *)
(***************************************************************************)
EXTENDS KernelFlow, KernelStep_proofs, SequenceTheorems

\* An assumption that is cited is cited with what it says.
USE DEF StepsValid, FailurePoliciesValid, ArtifactsValid, ToolsetsValid,
        CompileContextsValid, UserEventsValid, ProjectionsValid, FlowValid

\* A running execution has its arguments; its directory may not be there yet.
RunKnown ==
  flowPhase # "idle" =>
    run \in [execution : Executions, context : Contexts, resume : ResumeModes]

\* An event that is to be acknowledged was projected into a snapshot.
SnapshotTaken ==
  /\ flowPhase \in {"ready", "step"} /\ shown # {} => stepSnap \in Snapshots
  /\ flowPhase = "acking" /\ unacked # {} => stepSnap \in Snapshots

FlowTyped ==
  /\ StepTyped
  /\ FlowTypeOK
  /\ RunKnown
  /\ SnapshotTaken

\* What a step of the flow leaves alone keeps its type.
flowTyped == <<portVars, runVars, archive>>

LEMMA ShapeOfFlow ==
  /\ 1 \in Positions
  /\ Executions \subseteq Nat
  /\ Snapshots = Executions \X Positions
BY FlowDeclarations DEF Executions

LEMMA NotRunningType ==
  ASSUME NotRunning
  PROVE  /\ flowPhase' \in FlowPhases /\ flowPhase' = "idle"
         /\ run' = NoRun
         /\ index' \in Positions
         /\ current' \in Steps
         /\ shown' \subseteq Events
         /\ stepSnap' \in Snapshots \cup {NoSnapshot}
         /\ unacked' \subseteq Events
         /\ visited' \in Seq(Visits)
         /\ flowStatus' \in FlowStatus
BY FlowDeclarations, ShapeOfFlow, EmptySeq DEF NotRunning, FlowPhases, FlowStatus

\* What an execution writes of itself is a ledger entry of its own.
LEMMA ArchivedType ==
  ASSUME FlowTyped, flowPhase # "idle", NEW documents,
         DOMAIN documents \subseteq Executions,
         documents \in [DOMAIN documents -> Ledgers]
  PROVE  /\ DOMAIN Archived(documents) \subseteq Executions
         /\ Archived(documents) \in [DOMAIN Archived(documents) -> Ledgers]
<1>1. Entry \in Ledgers
  BY DEF FlowTyped, FlowTypeOK, Entry, Ledgers
<1>2. run.execution \in Executions
  BY DEF FlowTyped, RunKnown
<1> QED
  BY <1>1, <1>2 DEF Archived

----------------------------------------------------------------------------
LEMMA FlowTypedInit == FlowInit => FlowTyped
<1> SUFFICES ASSUME FlowInit PROVE FlowTyped
  OBVIOUS
<1>1. StepTyped
  BY StepTypedInit DEF FlowInit
<1>2. FlowTypeOK
  BY FlowDeclarations, ShapeOfFlow, EmptySeq
    DEF FlowInit, FlowTypeOK, PortInit, PortTypeOK, FlowPhases, FlowStatus
<1> QED
  BY <1>1, <1>2 DEF FlowInit, FlowTyped, RunKnown, SnapshotTaken

\* Every step of a flow is a step of KernelStep, or leaves its variables alone.
LEMMA FlowStepIsStep ==
  FlowTyped /\ [FlowNext]_flowVars => [StepNext]_stepVars
<1> SUFFICES ASSUME FlowTyped, [FlowNext]_flowVars
             PROVE  [StepNext]_stepVars
  OBVIOUS
<1>1. CASE CallStep
  <2>1. /\ <<index, current>> \in Keys
        /\ run.context \in Contexts /\ run.resume \in ResumeModes
        /\ stepSnap \in Snapshots \cup {NoSnapshot}
    BY <1>1 DEF CallStep, FlowTyped, FlowTypeOK, RunKnown, Keys
  <2> QED
    BY <1>1, <2>1 DEF CallStep, StepNext
<1>2. CASE InStep
  BY <1>2 DEF InStep, StepNext
<1>3. CASE StepReturned \/ StepRaised
  BY <1>3 DEF StepReturned, StepRaised, StepNext
<1>4. CASE Die
  BY <1>4 DEF Die, StepNext
<1>5. CASE Host
  BY <1>5 DEF Host, StepNext
<1>6. CASE User
  BY <1>6 DEF User
<1>7. CASE UNCHANGED flowVars
  BY <1>7 DEF flowVars
<1>8. ASSUME NEW context \in Contexts, NEW resume \in ResumeModes,
             StartFlow(context, resume)
      PROVE  UNCHANGED stepVars
  BY <1>8 DEF StartFlow
<1>9. ASSUME NEW event \in Events, AcknowledgeOne(event)
      PROVE  UNCHANGED stepVars
  BY <1>9 DEF AcknowledgeOne
<1>10. CASE \/ ReadPending \/ ProjectPending \/ AcknowledgedAll \/ Route
            \/ RunProjections \/ ProjectionRaises \/ WriteLedger \/ WriteFlowResult
  BY <1>10 DEF ReadPending, ProjectPending, AcknowledgedAll, Route, RunProjections,
               ProjectionRaises, WriteLedger, WriteFlowResult
<1> QED
  BY <1>1, <1>2, <1>3, <1>4, <1>5, <1>6, <1>7, <1>8, <1>9, <1>10
    DEF FlowNext, FlowProgress

LEMMA FlowTypedNext == FlowTyped /\ [FlowNext]_flowVars => FlowTyped'
<1> SUFFICES ASSUME FlowTyped, [FlowNext]_flowVars
             PROVE  FlowTyped'
  OBVIOUS
<1>t. StepTyped /\ StepTyped'
  BY FlowStepIsStep, StepTypedNext DEF FlowTyped
<1>a. FlowTypeOK /\ RunKnown /\ SnapshotTaken
  BY DEF FlowTyped
<1> DEFINE Rest == FlowTypeOK /\ RunKnown /\ SnapshotTaken
<1> SUFFICES Rest'
  BY <1>t DEF FlowTyped
<1> USE <1>a
<1>1. CASE UNCHANGED flowTyped
  BY <1>1 DEF flowTyped, portVars, runVars, archive, FlowTypeOK, PortTypeOK,
              RunKnown, SnapshotTaken
<1>2. CASE UNCHANGED flowVars
  BY <1>1, <1>2 DEF flowVars, flowTyped
<1>3. ASSUME NEW context \in Contexts, NEW resume \in ResumeModes,
             StartFlow(context, resume)
      PROVE  Rest'
  BY <1>3, StepParameters
    DEF StartFlow, portVars, archive, FlowTypeOK, PortTypeOK, FlowPhases, RunKnown,
        SnapshotTaken
<1>4. CASE ReadPending
  <2>1. shown' \subseteq Events
    BY <1>4 DEF ReadPending, Pending, FlowTypeOK, PortTypeOK
  <2> QED
    BY <1>4, <2>1
      DEF ReadPending, portVars, archive, FlowTypeOK, PortTypeOK, FlowPhases,
          RunKnown, SnapshotTaken
<1>5. CASE ProjectPending
  <2>1. stepSnap' \in Snapshots /\ run.execution \in Executions
    BY <1>5, ShapeOfFlow DEF ProjectPending, FlowTypeOK, RunKnown
  <2>2. /\ DOMAIN snapshots' \subseteq Snapshots
        /\ snapshots' \in [DOMAIN snapshots' -> SUBSET Events]
    BY <1>5, <2>1
      DEF ProjectPending, WritePendingProjection, Pending, FlowTypeOK, PortTypeOK
  <2>3. PortTypeOK'
    BY <1>5, <2>2 DEF ProjectPending, WritePendingProjection, FlowTypeOK, PortTypeOK
  <2> QED
    BY <1>5, <2>1, <2>3
      DEF ProjectPending, FlowTypeOK, FlowPhases, FlowStatus, RunKnown, SnapshotTaken
<1>6. CASE CallStep
  BY <1>6
    DEF CallStep, portVars, archive, FlowTypeOK, PortTypeOK, FlowPhases, RunKnown,
        SnapshotTaken
<1>7. CASE InStep
  BY <1>1, <1>7 DEF InStep, flowTyped
<1>8. CASE StepReturned
  <2>1. call \in Calls /\ outcome \in Outcomes
    BY <1>8, <1>t DEF StepReturned, StepTyped, Busy
  <2>2. visited' \in Seq(Visits)
    <3>1. [key |-> call.key, status |-> outcome.status,
           recovered |-> outcome.recovered] \in Visits
      BY <2>1 DEF Visits, Calls, Outcomes
    <3> QED
      BY <1>8, <3>1, AppendProperties DEF StepReturned, FlowTypeOK
  <2>3. ~Continues(outcome.status) => outcome.status \in FlowStatus
    BY <2>1 DEF Outcomes, StepStatus, Continues, FlowStatus
  <2> QED
    BY <1>8, <2>2, <2>3
      DEF StepReturned, ToAcknowledge, portVars, archive, FlowTypeOK, PortTypeOK,
          FlowPhases, RunKnown, SnapshotTaken
<1>9. CASE StepRaised
  BY <1>9, NotRunningType
    DEF StepRaised, portVars, archive, FlowTypeOK, PortTypeOK, RunKnown, SnapshotTaken
<1>10. ASSUME NEW event \in Events, AcknowledgeOne(event)
       PROVE  Rest'
  <2>1. stepSnap \in Snapshots /\ <<index, current>> \in Keys
    BY <1>10 DEF AcknowledgeOne, SnapshotTaken, FlowTypeOK, Keys
  <2>2. PortTypeOK'
    BY <1>10, <2>1 DEF AcknowledgeOne, Acknowledge, FlowTypeOK, PortTypeOK, Acks
  <2> QED
    BY <1>10, <2>1, <2>2
      DEF AcknowledgeOne, archive, FlowTypeOK, RunKnown, SnapshotTaken
<1>11. CASE AcknowledgedAll
  BY <1>11
    DEF AcknowledgedAll, portVars, archive, FlowTypeOK, PortTypeOK, FlowPhases,
        RunKnown, SnapshotTaken
<1>12. CASE Route
  <2>1. index' \in Positions /\ current' \in Steps
    BY <1>12, FlowDeclarations
      DEF Route, StopFlow, GoTo, TurnsLeft, NextIndex, FlowTypeOK
  <2>2. flowStatus' \in FlowStatus /\ flowPhase' \in {"stopping", "safe_point"}
    BY <1>12 DEF Route, StopFlow, GoTo, FlowStatus, FlowTypeOK
  <2> QED
    BY <1>12, <2>1, <2>2
      DEF Route, portVars, archive, FlowTypeOK, PortTypeOK, FlowPhases, RunKnown,
          SnapshotTaken
<1>13. CASE RunProjections
  BY <1>13
    DEF RunProjections, portVars, FlowTypeOK, PortTypeOK, FlowPhases, RunKnown,
        SnapshotTaken
<1>14. CASE ProjectionRaises
  BY <1>14, NotRunningType
    DEF ProjectionRaises, portVars, FlowTypeOK, PortTypeOK, RunKnown, SnapshotTaken
<1>15. CASE WriteLedger
  <2>1. /\ DOMAIN ledgers' \subseteq Executions
        /\ ledgers' \in [DOMAIN ledgers' -> Ledgers]
        /\ run.execution \in Executions
    BY <1>15, ArchivedType DEF WriteLedger, FlowTypeOK, RunKnown
  <2> QED
    BY <1>15, <2>1
      DEF WriteLedger, portVars, FlowTypeOK, PortTypeOK, FlowPhases, RunKnown,
          SnapshotTaken
<1>16. CASE WriteFlowResult
  <2>1. /\ DOMAIN results' \subseteq Executions
        /\ results' \in [DOMAIN results' -> Ledgers]
    BY <1>16, ArchivedType DEF WriteFlowResult, FlowTypeOK
  <2> QED
    BY <1>16, <2>1, NotRunningType
      DEF WriteFlowResult, portVars, FlowTypeOK, PortTypeOK, RunKnown, SnapshotTaken
<1>17. CASE Die
  BY <1>17, NotRunningType
    DEF Die, portVars, archive, FlowTypeOK, PortTypeOK, RunKnown, SnapshotTaken
<1>18. CASE Host
  BY <1>1, <1>18 DEF Host, flowTyped
<1>19. CASE User
  BY <1>19 DEF User, SubmitUserEvent, runVars, archive, FlowTypeOK, PortTypeOK,
               RunKnown, SnapshotTaken
<1> QED
  BY <1>2, <1>3, <1>4, <1>5, <1>6, <1>7, <1>8, <1>9, <1>10, <1>11, <1>12, <1>13,
     <1>14, <1>15, <1>16, <1>17, <1>18, <1>19
    DEF FlowNext, FlowProgress

\* The flow, its interaction files and its archive keep their types: the loop
\* index stays within max_steps, and only an execution that has started is named
\* by a snapshot, an acknowledgement, a ledger or a result.
THEOREM FlowTypeCorrect == FlowSpec => []FlowTypeOK
<1>1. FlowTyped => FlowTypeOK
  BY DEF FlowTyped
<1> QED
  BY <1>1, FlowTypedInit, FlowTypedNext, PTL DEF FlowSpec

\* A flow takes steps of KernelStep or leaves its variables alone, by the way it
\* is composed; so a theorem about run_step carries over to a flow.
LEMMA FlowImplementsStep == FlowSpec => StepSpec
<1>1. FlowInit => StepInit
  BY DEF FlowInit
<1> QED
  BY <1>1, FlowTypedInit, FlowTypedNext, FlowStepIsStep, PTL
    DEF FlowSpec, StepSpec

\* Inside a flow, with the PiAgent runtime, a step skipped on a completed record
\* returns outputs that were made for this very call.
THEOREM FlowSkipsAreSound ==
  ASSUME PiAgent
  PROVE  FlowSpec => []CompletedSkipSound
BY FlowImplementsStep, CompletedSkipsAreSound, PTL
----------------------------------------------------------------------------
(***************************************************************************)
(* What an accepted flow rests on.  The verdict a flow is routed on is an  *)
(* output of the step that has just returned: a worker made it for this    *)
(* call (DoneMade, CompletedSkipSound), the call is one of this turn       *)
(* (CallOfTurn), and what the judge read has not changed since it was      *)
(* hashed (JudgeReads).  From the return to the end of the execution       *)
(* nothing is written, so the verdict stands (TurnJudged, StopJudged).     *)
(***************************************************************************)
\* A judge does not write what it judges.
JudgesOnlyRead ==
  \A j \in Judges, s \in Steps : Inputs[j] \cap Outputs[s] \cap Writable[j] = {}

JudgeReads ==
  phase # "idle" /\ step \in Judges =>
    \A s \in Steps : \A r \in Inputs[step] \cap Outputs[s] : call.work.inputs[r] = file[r]

DoneMade == phase = "done" /\ outcome.status = "completed" => OutputsMade

CallOfTurn ==
  phase # "idle" =>
    flowPhase = "step" /\ step = current /\ call.work.context = run.context

NoneRecovered == \A i \in DOMAIN visited : ~visited[i].recovered

\* The decision artifact of a judge is of this contract, context and inputs.
Judged(s) ==
  s \in Judges /\ RouteOn[s] # NoRoute =>
    \E m \in made :
      /\ m[2] = RouteOn[s]
      /\ m[3] = file[RouteOn[s]]
      /\ m[1].step = s
      /\ m[1].context = run.context
      /\ \A t \in Steps : \A r \in Inputs[s] \cap Outputs[t] : m[1].inputs[r] = file[r]

TurnJudged == flowPhase \in {"acking", "routing"} /\ NoneRecovered => Judged(current)

StopJudged ==
  flowPhase \in {"stopping", "ledger", "result"} /\ flowStatus = "accepted" /\ NoneRecovered
    => current \in Judges /\ RouteOn[current] # NoRoute /\ Judged(current)

JudgedInvariant ==
  /\ FlowTyped /\ SkipInvariant
  /\ JudgeReads /\ DoneMade /\ CallOfTurn
  /\ TurnJudged /\ StopJudged

\* Files that some step may write change in no step of the flow but a worker's
\* while an execution runs.
WorkFiles == UNION {Outputs[s] : s \in Steps}

LEMMA JudgedInitially == FlowInit => JudgedInvariant
<1> SUFFICES ASSUME FlowInit PROVE JudgedInvariant
  OBVIOUS
<1>1. FlowTyped
  BY FlowTypedInit
<1>2. SkipInvariant
  BY SkipInvariantInit DEF FlowInit
<1> QED
  BY <1>1, <1>2
    DEF FlowInit, StepInit, JudgedInvariant, JudgeReads, DoneMade, CallOfTurn,
        TurnJudged, StopJudged

\* A verdict stands as long as nothing it is about changes.
LEMMA JudgedKept ==
  ASSUME NEW s \in Steps, Judged(s), made' = made, run' = run,
         \A r \in WorkFiles : file'[r] = file[r]
  PROVE  Judged(s)'
<1>1. RouteOn[s] # NoRoute => RouteOn[s] \in WorkFiles
  BY StepDeclarations DEF WorkFiles
<1>2. \A t \in Steps : Outputs[t] \subseteq WorkFiles
  BY DEF WorkFiles
<1> QED
  BY <1>1, <1>2 DEF Judged

LEMMA StandingKept ==
  ASSUME JudgedInvariant, UNCHANGED <<flowPhase, run, current, visited, flowStatus, made>>,
         flowPhase # "idle" => \A r \in WorkFiles : file'[r] = file[r]
  PROVE  TurnJudged' /\ StopJudged'
<1>1. current \in Steps
  BY DEF JudgedInvariant, FlowTyped, FlowTypeOK
<1>2. flowPhase # "idle" /\ Judged(current) => Judged(current)'
  BY <1>1, JudgedKept
<1>3. current' = current /\ NoneRecovered' = NoneRecovered
  BY DEF NoneRecovered
<1>4. TurnJudged'
  BY <1>2, <1>3 DEF TurnJudged, JudgedInvariant, Judged
<1> QED
  BY <1>2, <1>3, <1>4 DEF StopJudged, JudgedInvariant, Judged

----------------------------------------------------------------------------
LEMMA RunStepKeepsCall == StepTyped /\ RunStep => call'.work = call.work
<1>1. StepTyped /\ PrepareLock => call'.work = call.work
  BY DEF PrepareLock, StepTyped, Busy, Calls
<1> QED
  BY <1>1 DEF RunStep, SkipCurrent, RaiseUnreadable, MustRun, RaiseNotInstalled,
    StartAttempt, WorkerWrite, FinishAttempt, AdapterRaises, OpenResult, WriteResult,
    OpenRecord, WriteRecord

\* A completed step ends with outputs that were made for its call.
LEMMA DoneMadeKept ==
  ASSUME SkipInvariant, DoneMade, [StepNext]_stepVars
  PROVE  DoneMade'
<1>t. StepTyped /\ ResultMade
  BY DEF SkipInvariant
<1>1. CASE WriteRecord
  <2>1. final \in Results /\ step \in Steps
    BY <1>1, <1>t, StepOfType DEF WriteRecord, StepTyped, Busy, Saving, Calls
  <2>2. outcome'.status = StatusOfResult(final.status, step)
    BY <1>1 DEF WriteRecord, RecordOfCall
  <2>3. outcome'.status = "completed" => final.status = "completed"
    BY <2>1, <2>2, StatusOfResultType DEF Results
  <2>4. outcome'.status = "completed" => OutputsMade
    BY <1>1, <1>t, <2>3 DEF WriteRecord, ResultMade, Saving
  <2>5. file' = file /\ call' = call /\ made' = made
    BY <1>1 DEF WriteRecord
  <2> QED
    BY <2>4, <2>5 DEF DoneMade, OutputsMade, Expected, step
<1>2. CASE SkipCurrent
  BY <1>2 DEF SkipCurrent, DoneMade
<1>3. ASSUME NEW ref \in Refs, NEW content \in Contents \cup {Missing},
             EditFile(ref, content)
      PROVE  DoneMade'
  <2> SUFFICES ASSUME phase = "done", outcome.status = "completed" PROVE OutputsMade'
    BY <1>3 DEF EditFile, process, DoneMade
  <2>1. step \in Steps
    BY <1>t, StepOfType DEF StepTyped, Busy, Calls
  <2>2. \A o \in Expected : file'[o] = file[o]
    BY <1>3, <1>t, <2>1, StepDeclarations
      DEF EditFile, Expected, StepTyped, StepTypeOK
  <2> QED
    BY <1>3, <2>2 DEF EditFile, process, DoneMade, OutputsMade, Expected, step
<1>4. CASE UNCHANGED stepVars
  BY <1>4 DEF stepVars, durable, process, DoneMade, OutputsMade, Expected, step
<1>5. ASSUME NEW package \in Packages \cup {NoLock}, ChangePackage(package)
      PROVE  DoneMade'
  BY <1>5 DEF ChangePackage, process, DoneMade, OutputsMade, Expected, step
<1>6. ASSUME NEW key, NEW context, NEW snap, NEW resume, Invoke(key, context, snap, resume)
      PROVE  phase' # "done"
  BY <1>6 DEF Invoke
<1>7. ASSUME NEW ref, NEW content, WorkerWrite(ref, content)
      PROVE  phase' # "done"
  BY <1>7 DEF WorkerWrite
<1>8. ASSUME NEW status, NEW outputs, NEW fatal, FinishAttempt(status, outputs, fatal)
      PROVE  phase' # "done"
  BY <1>8 DEF FinishAttempt
<1>9. RaiseUnreadable \/ MustRun \/ PrepareLock \/ RaiseNotInstalled \/ StartAttempt
      \/ AdapterRaises \/ OpenResult \/ WriteResult \/ OpenRecord \/ Return \/ Crash
        => phase' # "done"
  BY DEF RaiseUnreadable, MustRun, PrepareLock, RaiseNotInstalled, StartAttempt,
    AdapterRaises, OpenResult, WriteResult, OpenRecord, Return, Crash, Forget
<1>10. phase' # "done" => DoneMade'
  BY DEF DoneMade
<1> QED
  BY <1>1, <1>2, <1>3, <1>4, <1>5, <1>6, <1>7, <1>8, <1>9, <1>10
    DEF StepNext, RunStep, Environment

\* What a judge reads stays as it was hashed while the judge runs.
LEMMA JudgeReadsKept ==
  ASSUME JudgesOnlyRead, StepTyped, JudgeReads, [StepNext]_stepVars
  PROVE  JudgeReads'
<1>1. ASSUME NEW key \in Keys, NEW context \in Contexts,
             NEW snap \in Snapshots \cup {NoSnapshot},
             NEW resume \in ResumeModes, Invoke(key, context, snap, resume)
      PROVE  JudgeReads'
  <2>1. step' = StepOf(key) /\ step' \in Steps
    BY <1>1, StepOfType DEF Invoke, step
  <2>2. Inputs[step'] \subseteq Refs
    BY <2>1, StepDeclarations
  <2>3. \A r \in Inputs[step'] : call'.work.inputs[r] = file[r]
    BY <1>1, <2>1, <2>2 DEF Invoke, HashRefs
  <2> QED
    BY <1>1, <2>3 DEF Invoke, durable, JudgeReads
<1>2. CASE phase # "idle" /\ call'.work = call.work
           /\ \A s \in Steps : \A r \in Inputs[step] \cap Outputs[s] :
                step \in Judges => file'[r] = file[r]
  BY <1>2 DEF JudgeReads, step
<1>3. CASE Return \/ Crash
  BY <1>3 DEF Return, Crash, Forget, JudgeReads
<1>4. ASSUME NEW ref \in Refs, NEW content \in Contents, WorkerWrite(ref, content)
      PROVE  JudgeReads'
  <2>1. step \in Steps
    BY <1>4, StepOfType DEF WorkerWrite, StepTyped, Busy, Calls
  <2>2. \A s \in Steps : \A r \in Inputs[step] \cap Outputs[s] :
          step \in Judges => file'[r] = file[r]
    BY <1>4, <2>1, StepDeclarations DEF WorkerWrite, JudgesOnlyRead, StepTyped, StepTypeOK
  <2> QED
    BY <1>2, <1>4, <2>2 DEF WorkerWrite
<1>5. CASE RunStep /\ file' = file
  <2>1. phase # "idle"
    BY <1>5 DEF RunStep, SkipCurrent, RaiseUnreadable, MustRun, PrepareLock,
      RaiseNotInstalled, StartAttempt, WorkerWrite, FinishAttempt, AdapterRaises,
      OpenResult, WriteResult, OpenRecord, WriteRecord
  <2> QED
    BY <1>2, <1>5, <2>1, RunStepKeepsCall
<1>6. RunStep =>
        file' = file \/ \E ref \in Refs, content \in Contents : WorkerWrite(ref, content)
  BY DEF RunStep, SkipCurrent, RaiseUnreadable, MustRun, PrepareLock, RaiseNotInstalled,
    StartAttempt, FinishAttempt, AdapterRaises, OpenResult, WriteResult, OpenRecord,
    WriteRecord, durable
<1>7. ASSUME NEW ref \in Refs, NEW content \in Contents \cup {Missing},
             EditFile(ref, content)
      PROVE  JudgeReads'
  <2>1. CASE phase = "idle"
    BY <1>7, <2>1 DEF EditFile, process, JudgeReads
  <2>2. CASE phase # "idle"
    <3>1. step \in Steps
      BY <1>7, <2>2, StepOfType DEF StepTyped, Busy, Calls
    <3>2. \A s \in Steps : \A r \in Inputs[step] \cap Outputs[s] : file'[r] = file[r]
      BY <1>7, <2>2, <3>1, StepDeclarations DEF EditFile, StepTyped, StepTypeOK
    <3> QED
      BY <1>2, <1>7, <2>2, <3>2 DEF EditFile, process
  <2> QED BY <2>1, <2>2
<1>8. ASSUME NEW package \in Packages \cup {NoLock}, ChangePackage(package)
      PROVE  JudgeReads'
  BY <1>8 DEF ChangePackage, process, JudgeReads, step
<1>9. CASE UNCHANGED stepVars
  BY <1>9 DEF stepVars, durable, process, JudgeReads, step
<1> QED
  BY <1>1, <1>3, <1>4, <1>5, <1>6, <1>7, <1>8, <1>9 DEF StepNext, Environment

----------------------------------------------------------------------------
\* What StepReturned hands to the flow: a verdict on what stands.
LEMMA ReturnJudged ==
  ASSUME JudgedInvariant, StepReturned, Continues(outcome.status), ~outcome.recovered
  PROVE  Judged(current)'
<1>1. phase = "done" /\ step = current /\ call.work.context = run.context /\ call \in Calls
  BY DEF StepReturned, JudgedInvariant, CallOfTurn, FlowTyped, StepTyped, Busy
<1>2. OutputsMade
  BY <1>1 DEF JudgedInvariant, DoneMade, SkipInvariant, CompletedSkipSound, Continues,
    OutputsMade
<1>3. UNCHANGED <<file, made, run, current>>
  BY DEF StepReturned, Return, durable
<1> SUFFICES ASSUME current \in Judges, RouteOn[current] # NoRoute
             PROVE  Judged(current)
  BY <1>3 DEF Judged
<1>4. current \in Steps /\ RouteOn[current] \in Expected
  BY <1>1, StepDeclarations DEF Expected, JudgedInvariant, FlowTyped, FlowTypeOK
<1> DEFINE m == <<call.work, RouteOn[current], file[RouteOn[current]]>>
<1>5. m \in made
  BY <1>2, <1>4 DEF OutputsMade
<1>6. \A t \in Steps : \A r \in Inputs[current] \cap Outputs[t] : m[1].inputs[r] = file[r]
  BY <1>1 DEF JudgedInvariant, JudgeReads
<1> QED
  BY <1>1, <1>5, <1>6 DEF Judged, step

LEMMA CallOfTurnKept ==
  ASSUME JudgedInvariant, [FlowNext]_flowVars
  PROVE  CallOfTurn'
<1>t. StepTyped /\ CallOfTurn
  BY DEF JudgedInvariant, FlowTyped
<1>1. CASE CallStep
  BY <1>1 DEF CallStep, Invoke, CallOfTurn, StepOf, step
<1>2. CASE InStep
  BY <1>2, <1>t, RunStepKeepsCall DEF InStep, runVars, CallOfTurn, step, RunStep,
    SkipCurrent, RaiseUnreadable, MustRun, PrepareLock, RaiseNotInstalled, StartAttempt,
    WorkerWrite, FinishAttempt, AdapterRaises, OpenResult, WriteResult, OpenRecord, WriteRecord
<1>3. CASE StepReturned \/ StepRaised
  BY <1>3 DEF StepReturned, StepRaised, Return, Forget, CallOfTurn
<1>4. CASE Die
  BY <1>4 DEF Die, Crash, Forget, stepVars, process, CallOfTurn
<1>5. CASE Host
  BY <1>5, <1>t DEF Host, Environment, EditFile, ChangePackage, process, runVars, CallOfTurn, step
<1>6. CASE User \/ UNCHANGED flowVars
  BY <1>6, <1>t DEF User, flowVars, stepVars, process, runVars, CallOfTurn, step
<1>7. CASE UNCHANGED stepVars /\ flowPhase # "step"
  BY <1>7, <1>t DEF stepVars, process, CallOfTurn
<1>8. ASSUME NEW context, NEW resume, StartFlow(context, resume) PROVE CallOfTurn'
  BY <1>7, <1>8 DEF StartFlow
<1>9. ASSUME NEW event, AcknowledgeOne(event) PROVE CallOfTurn'
  BY <1>7, <1>9 DEF AcknowledgeOne
<1>10. CASE \/ ReadPending \/ ProjectPending \/ AcknowledgedAll \/ Route
            \/ RunProjections \/ ProjectionRaises \/ WriteLedger \/ WriteFlowResult
  BY <1>7, <1>10 DEF ReadPending, ProjectPending, AcknowledgedAll, Route, RunProjections,
         ProjectionRaises, WriteLedger, WriteFlowResult
<1> QED
  BY <1>1, <1>2, <1>3, <1>4, <1>5, <1>6, <1>8, <1>9, <1>10 DEF FlowNext, FlowProgress

LEMMA VerdictKept ==
  ASSUME JudgedInvariant, [FlowNext]_flowVars
  PROVE  TurnJudged' /\ StopJudged'
<1>t. FlowTyped /\ TurnJudged /\ StopJudged /\ CallOfTurn /\ current \in Steps
  BY DEF JudgedInvariant, FlowTyped, FlowTypeOK
<1>0. ASSUME flowPhase' \notin {"acking", "routing", "stopping", "ledger", "result"}
      PROVE  TurnJudged' /\ StopJudged'
  BY <1>0 DEF TurnJudged, StopJudged
<1>1. ASSUME UNCHANGED <<file, made, run, current>>, Judged(current)
      PROVE  Judged(current)'
  BY <1>1 DEF Judged
<1>2. CASE StepReturned
  <2>1. outcome \in Outcomes /\ visited \in Seq(Visits)
    BY <1>2, <1>t DEF StepReturned, FlowTyped, FlowTypeOK, StepTyped, Busy
  <2>2. CASE Continues(outcome.status)
    <3>1. flowPhase' = "acking"
      BY <1>2, <2>2 DEF StepReturned
    <3>2. NoneRecovered' => ~outcome.recovered
      BY <1>2, <2>1, AppendProperties DEF StepReturned, NoneRecovered
    <3>3. NoneRecovered' => Judged(current)'
      BY <1>2, <2>2, <3>2, ReturnJudged
    <3> QED
      BY <3>1, <3>3 DEF TurnJudged, StopJudged, Judged
  <2>3. CASE ~Continues(outcome.status)
    BY <1>2, <2>1, <2>3 DEF StepReturned, TurnJudged, StopJudged, Outcomes, StepStatus
  <2> QED BY <2>2, <2>3
<1>3. CASE Route
  <2>1. UNCHANGED <<file, made, run, visited>> /\ flowPhase = "routing"
    BY <1>3 DEF Route, stepVars, durable
  <2>2. CASE flowPhase' = "safe_point"
    BY <1>0, <2>2
  <2>3. CASE flowPhase' = "stopping" /\ flowStatus' = "accepted" /\ NoneRecovered'
    <3>1. current' = current /\ Routed /\ Routes[DecisionRoute] = "accepted"
      BY <1>3, <2>3 DEF Route, StopFlow, GoTo
    <3>2. current \in Judges /\ RouteOn[current] # NoRoute
      BY <3>1, FlowDeclarations DEF Routed, DecisionRoute
    <3>3. Judged(current)
      BY <1>t, <2>1, <2>3 DEF TurnJudged, NoneRecovered
    <3>4. Judged(current)'
      BY <1>1, <2>1, <3>1, <3>3
    <3> QED
      BY <2>3, <3>1, <3>2, <3>4 DEF TurnJudged, StopJudged, Judged
  <2>4. flowPhase' \in {"safe_point", "stopping"}
    BY <1>3 DEF Route, StopFlow, GoTo
  <2> QED
    BY <2>2, <2>3, <2>4 DEF TurnJudged, StopJudged
<1>4. ASSUME NEW event, AcknowledgeOne(event) PROVE TurnJudged' /\ StopJudged'
  BY <1>4, StandingKept DEF AcknowledgeOne, stepVars, durable
<1>5. CASE AcknowledgedAll
  <2>1. UNCHANGED <<file, made, run, current, visited>> /\ flowPhase = "acking"
        /\ flowPhase' = "routing"
    BY <1>5 DEF AcknowledgedAll, stepVars, durable
  <2>2. NoneRecovered' => Judged(current)
    BY <1>t, <2>1 DEF TurnJudged, NoneRecovered
  <2> QED
    BY <1>1, <2>1, <2>2 DEF TurnJudged, StopJudged, Judged
<1>6. CASE RunProjections \/ WriteLedger
  <2>1. /\ UNCHANGED <<file, made, run, current, visited, flowStatus>>
        /\ flowPhase \in {"stopping", "ledger", "result"}
        /\ flowPhase' \in {"ledger", "result"}
    BY <1>6 DEF RunProjections, WriteLedger, stepVars, durable
  <2>2. NoneRecovered' <=> NoneRecovered
    BY <2>1 DEF NoneRecovered
  <2> QED
    BY <1>1, <1>t, <2>1, <2>2 DEF TurnJudged, StopJudged, Judged
<1>7. CASE ProjectPending
  BY <1>7 DEF ProjectPending, TurnJudged, StopJudged
<1>8. CASE Host
  <2>1. flowPhase # "idle" => \A r \in WorkFiles : file'[r] = file[r]
    BY <1>8, StepDeclarations DEF Host, WorkFiles
  <2>2. UNCHANGED <<flowPhase, run, current, visited, flowStatus, made>>
    BY <1>8 DEF Host, runVars, Environment, EditFile, ChangePackage
  <2> QED
    BY <2>1, <2>2, StandingKept
<1>9. CASE User \/ UNCHANGED flowVars
  BY <1>9, StandingKept DEF User, flowVars, stepVars, durable, runVars
<1>10. CASE InStep
  BY <1>0, <1>10 DEF InStep, runVars
<1>11. CASE CallStep \/ ReadPending
  BY <1>0, <1>11 DEF CallStep, ReadPending
<1>12. CASE StepRaised \/ ProjectionRaises \/ WriteFlowResult \/ Die
  BY <1>0, <1>12 DEF StepRaised, ProjectionRaises, WriteFlowResult, Die, NotRunning
<1>13. ASSUME NEW context, NEW resume, StartFlow(context, resume)
       PROVE  TurnJudged' /\ StopJudged'
  BY <1>0, <1>13 DEF StartFlow
<1> QED
  BY <1>2, <1>3, <1>4, <1>5, <1>6, <1>7, <1>8, <1>9, <1>10, <1>11, <1>12, <1>13
    DEF FlowNext, FlowProgress

LEMMA JudgedNext ==
  ASSUME PiAgent, JudgesOnlyRead
  PROVE  JudgedInvariant /\ [FlowNext]_flowVars => JudgedInvariant'
<1> SUFFICES ASSUME JudgedInvariant, [FlowNext]_flowVars PROVE JudgedInvariant'
  OBVIOUS
<1>1. FlowTyped /\ SkipInvariant /\ StepTyped /\ JudgeReads /\ DoneMade
  BY DEF JudgedInvariant, FlowTyped
<1>2. [StepNext]_stepVars
  BY <1>1, FlowStepIsStep
<1>3. FlowTyped' /\ SkipInvariant'
  BY <1>1, <1>2, FlowTypedNext, SkipInvariantNext
<1>4. JudgeReads' /\ DoneMade'
  BY <1>1, <1>2, JudgeReadsKept, DoneMadeKept
<1> QED
  BY <1>3, <1>4, CallOfTurnKept, VerdictKept DEF JudgedInvariant

\* An execution that none of its steps recovered is accepted only on a verdict
\* its judge made of this contract and of the work as it stands, if no judge
\* writes what it judges: no stale verdict accepts a flow, whatever earlier
\* executions, crashes and retries left in the workspace.
THEOREM AcceptedByItsJudge ==
  ASSUME PiAgent, JudgesOnlyRead
  PROVE  FlowSpec => []AcceptedIsJudged
<1>1. JudgedInvariant => AcceptedIsJudged
  <2> SUFFICES ASSUME JudgedInvariant, flowPhase \in {"ledger", "result"},
                      flowStatus = "accepted", NoneRecovered
               PROVE  AcceptedIsJudged
    BY DEF AcceptedIsJudged, NoneRecovered
  <2> QED
    BY DEF JudgedInvariant, StopJudged, Judged, AcceptedIsJudged
<1> QED
  BY <1>1, JudgedInitially, JudgedNext, PTL DEF FlowSpec

----------------------------------------------------------------------------
(***************************************************************************)
(* Completed work is kept.  Nothing but its own step disturbs what a       *)
(* record rests on, if steps write files of their own, in the order in     *)
(* which they read each other (InOrder), and if every execution resumes    *)
(* under the one contract.  Then a flow that is left alone takes the same  *)
(* way each time: what was reached at one index is one step, the steps     *)
(* before it are current (Path), and a step runs only while nothing after  *)
(* it has been reached (RunsLast).                                         *)
(***************************************************************************)
\* Routes lead on, a step writes nothing that it or a step before it reads, and
\* no two steps write one file.
InOrder(rank) ==
  /\ rank \in [Steps -> Nat]
  /\ \A r \in DOMAIN Routes : Routes[r] \in Steps => rank[r[1]] < rank[Routes[r]]
  /\ \A s, t \in Steps : s = t \/ rank[s] < rank[t] => Inputs[s] \cap Writable[t] = {}
  /\ \A s, t \in Steps : s # t => Writable[s] \cap Writable[t] = {}

\* Every execution resumes, under one contract and one set of permissions.
SameContract ==
  /\ FALSE \notin ResumeModes
  /\ \A c, d \in Contexts : c = d

\* The host and the user have left the flow alone.
Calm == edits = 0 /\ userEvents = {}

OfContract(result) == \E c \in Contexts : result.contract = ContractOf[c]

\* The skip check would find this step current.
StepCurrent(key) ==
  LET record == stepRecord[key]
      s      == StepOf(key) IN
  /\ Recorded(key)
  /\ callResult[key] \notin {Absent, Torn}
  /\ OfContract(callResult[key])
  /\ record.work.step = s
  /\ record.work.snap = NoSnapshot
  /\ record.work.inputs = HashRefs(file, Inputs[s])
  /\ record.lock = lockFile[key]
  /\ s \in Granted => lockFile[key] # NoLock
  /\ \A o \in Outputs[s] : record.outputs[o] # NotHashed /\ file[o] # Missing
  /\ \A r \in Refs : record.outputs[r] \in {NotHashed, file[r]}
  /\ \/ record.status = "completed"
     \/ /\ RouteOn[s] = NoRoute \/ RouteValue(file, s) # InvalidRoute
        /\ Outputs[s] \subseteq callResult[key].outputs

KeyHere == <<index, current>>

\* The step directories some execution came to, and the one this one is at.
Reached ==
  {k \in Keys : \/ stepRecord[k] # Absent
                \/ flowPhase # "idle" /\ k = KeyHere}

Running == {"lock", "attempt", "working"} \cup Saving

Quiet ==
  /\ flowPhase = "idle" => phase = "idle" /\ index = 1 /\ current = First
  /\ flowPhase # "projecting"
  /\ shown = {} /\ unacked = {} /\ stepSnap = NoSnapshot

CallNow ==
  phase # "idle" =>
    /\ flowPhase = "step"
    /\ call.key = KeyHere
    /\ step = current
    /\ call.resume
    /\ call.work.snap = NoSnapshot
    /\ call.work.inputs = HashRefs(file, Inputs[current])
    /\ call.lock = lockFile[KeyHere]
    /\ phase \in Running \ {"lock"} /\ current \in Granted => call.lock # NoLock

\* A worker reports what it may write, and a record hashes no more.
OwnOutputs ==
  /\ phase = "working" => written \subseteq Writable[step]
  /\ phase \in Saving => final.outputs \subseteq Writable[step] /\ OfContract(final)
  /\ phase \in {"save_record", "record_open"} => callResult[call.key] = final
  /\ \A k \in Keys : Recorded(k) =>
       \A r \in Refs \ Writable[StepOf(k)] : stepRecord[k].outputs[r] = NotHashed

Path(rank) ==
  /\ \A k \in Reached : k[1] = 1 => k[2] = First
  /\ \A k \in Reached, j \in Positions : j < k[1] =>
       \E t \in Steps : StepCurrent(<<j, t>>)
  /\ \A k, l \in Reached : k[1] = l[1] => k = l
  /\ \A k, l \in Reached : k[1] < l[1] => rank[k[2]] < rank[l[2]]
  /\ \A k, l \in Reached : k[1] + 1 = l[1] =>
       LET d == <<k[2], RouteValue(file, k[2])>> IN
       d \in DOMAIN Routes /\ Routes[d] = l[2]

RecordedCompleted(key) == Recorded(key) /\ stepRecord[key].status = "completed"

CompletedCurrent == \A k \in Keys : RecordedCompleted(k) => StepCurrent(k)

RunsLast ==
  phase \in Running =>
    /\ \A k \in Reached : k[1] <= index
    /\ ~RecordedCompleted(KeyHere)

PassedCurrent ==
  \/ flowPhase \in {"acking", "routing"}
  \/ phase = "done" /\ Continues(outcome.status)
  => StepCurrent(KeyHere)

Kept(rank) ==
  /\ Quiet /\ CallNow /\ OwnOutputs
  /\ Path(rank) /\ CompletedCurrent /\ RunsLast /\ PassedCurrent

KeptInvariant(rank) ==
  /\ FlowTyped
  /\ OutputsInvariant
  /\ Calm => Kept(rank)

LEMMA KeyShape ==
  /\ \A k \in Keys : /\ k = <<k[1], k[2]>> /\ StepOf(k) = k[2]
                     /\ k[1] \in Positions /\ k[1] \in Nat /\ k[2] \in Steps
  /\ Positions \subseteq Nat
BY FlowDeclarations DEF Keys, StepOf

LEMMA KeyHereShape ==
  ASSUME FlowTyped
  PROVE  /\ KeyHere \in Keys /\ StepOf(KeyHere) = current /\ current \in Steps
         /\ index \in Positions /\ index \in Nat
         /\ KeyHere[1] = index /\ KeyHere[2] = current
BY KeyShape DEF FlowTyped, FlowTypeOK, KeyHere, Keys, StepOf

\* A step stays current while its directory and what it reads and writes stay.
LEMMA CurrentKept ==
  ASSUME OwnOutputs, NEW k \in Keys, StepCurrent(k),
         stepRecord'[k] = stepRecord[k], callResult'[k] = callResult[k],
         lockFile'[k] = lockFile[k],
         \A r \in Inputs[StepOf(k)] \cup Writable[StepOf(k)] : file'[r] = file[r]
  PROVE  StepCurrent(k)'
<1> DEFINE s == StepOf(k)
           record == stepRecord[k]
<1>1. s \in Steps
  BY StepOfType
<1>2. Outputs[s] \subseteq Writable[s] /\ RouteOn[s] \in Outputs[s] \cup {NoRoute}
  BY <1>1, StepDeclarations
<1>3. RouteValue(file, s)' = RouteValue(file, s)
  BY <1>2 DEF RouteValue
<1>4. HashRefs(file, Inputs[s])' = HashRefs(file, Inputs[s])
  BY DEF HashRefs
<1>5. \A r \in Refs : record.outputs[r] \in {NotHashed, file'[r]}
  <2>1. \A r \in Refs \ Writable[s] : record.outputs[r] = NotHashed
    BY DEF StepCurrent, OwnOutputs
  <2> QED
    BY <2>1 DEF StepCurrent
<1>6. \A o \in Outputs[s] : file'[o] = file[o]
  BY <1>2
<1> QED
  BY <1>3, <1>4, <1>5, <1>6 DEF StepCurrent, Recorded, OfContract

\* A step that is current is not run.
LEMMA CurrentIsSkipped ==
  ASSUME SameContract, FlowTyped, CallNow, phase = "check", StepCurrent(KeyHere)
  PROVE  ~MustRun
<1> DEFINE record == stepRecord[KeyHere]
           result == callResult[KeyHere]
<1>1. call \in Calls /\ call.key = KeyHere /\ step = current
  BY DEF FlowTyped, StepTyped, Busy, CallNow
<1>2. record \in Records
  BY KeyHereShape DEF FlowTyped, StepTyped, StepTypeOK, StepCurrent, Recorded
<1>3. record.work = call.work
  <2>1. record.work \in Works /\ call.work \in Works
    BY <1>1, <1>2 DEF Records, Calls
  <2>2. record.work.context = call.work.context
    BY <2>1 DEF Works, SameContract
  <2>3. record.work.step = call.work.step
    BY <1>1, KeyHereShape DEF StepCurrent, step
  <2>4. /\ record.work.snap = call.work.snap
        /\ record.work.inputs = call.work.inputs
    BY KeyHereShape DEF StepCurrent, CallNow
  <2> QED
    BY <2>1, <2>2, <2>3, <2>4 DEF Works
<1>4. record.lock = call.lock /\ (step \in Granted => call.lock # NoLock)
  BY <1>1, KeyHereShape DEF StepCurrent, CallNow
<1>5. Current(record)
  BY <1>1, <1>3, <1>4, KeyHereShape DEF Current, StepCurrent, Expected
<1>6. call.resume /\ HasCurrentRecord
  BY <1>1, <1>5 DEF HasCurrentRecord, StepCurrent, Recorded, CallNow
<1>7. Reusable(record, result)
  <2>1. call.work.context \in Contexts
    BY <1>1 DEF Calls, Works
  <2>2. result.contract = ContractOf[call.work.context]
    BY <2>1 DEF StepCurrent, OfContract, SameContract
  <2> QED
    BY <1>1, <2>2, KeyHereShape DEF Reusable, StepCurrent, Expected
<1> QED
  BY <1>1, <1>6, <1>7 DEF MustRun, StepCurrent, Recorded

\* A step that is skipped is current.
LEMMA SkippedIsCurrent ==
  ASSUME FlowTyped, CallNow, SkipCurrent
  PROVE  StepCurrent(KeyHere)
<1> DEFINE record == stepRecord[KeyHere]
           result == callResult[KeyHere]
<1>1. call \in Calls /\ call.key = KeyHere /\ step = current /\ phase = "check"
  BY DEF FlowTyped, StepTyped, Busy, CallNow, SkipCurrent
<1>2. Recorded(KeyHere) /\ result \notin {Absent, Torn} /\ Current(record)
      /\ Reusable(record, result)
  BY <1>1 DEF SkipCurrent, HasCurrentRecord, Recorded
<1>3. OfContract(result)
  BY <1>1, <1>2 DEF Reusable, OfContract, Calls, Works
<1>4. record.work = call.work
  BY <1>2 DEF Current
<1>5. /\ record.work.step = current
      /\ record.work.snap = NoSnapshot
      /\ record.work.inputs = HashRefs(file, Inputs[current])
  BY <1>1, <1>4 DEF CallNow, step
<1>6. record.lock = lockFile[KeyHere] /\ (current \in Granted => lockFile[KeyHere] # NoLock)
  BY <1>1, <1>2 DEF Current, CallNow
<1>7. /\ \A o \in Outputs[current] : record.outputs[o] # NotHashed /\ file[o] # Missing
      /\ \A r \in Refs : record.outputs[r] \in {NotHashed, file[r]}
  BY <1>1, <1>2 DEF Current, Expected
<1>8. \/ record.status = "completed"
      \/ /\ RouteOn[current] = NoRoute \/ RouteValue(file, current) # InvalidRoute
         /\ Outputs[current] \subseteq result.outputs
  BY <1>1, <1>2 DEF Current, Reusable, Expected
<1> QED
  BY <1>2, <1>3, <1>5, <1>6, <1>7, <1>8, KeyHereShape DEF StepCurrent

\* A step that completes is current.
LEMMA CompletedIsCurrent ==
  ASSUME OutputsInvariant, FlowTyped, CallNow, OwnOutputs, WriteRecord,
         UNCHANGED <<index, current>>, RecordOfCall.status = "completed"
  PROVE  StepCurrent(KeyHere)'
<1> DEFINE record == RecordOfCall
<1>1. /\ call \in Calls /\ call.key = KeyHere /\ step = current /\ phase = "record_open"
      /\ final \in Results
  BY DEF FlowTyped, StepTyped, Busy, CallNow, WriteRecord, Saving
<1>2. record \in Records
  BY <1>1, RecordOfCallType DEF FlowTyped, Saving
<1>3. KeyHere' = KeyHere
  BY DEF KeyHere
<1>4. stepRecord'[KeyHere] = record
  BY <1>1, KeyHereShape DEF WriteRecord, FlowTyped, StepTyped, StepTypeOK
<1>5. UNCHANGED <<file, callResult, lockFile>>
  BY DEF WriteRecord
<1>6. callResult[KeyHere] = final /\ OfContract(final)
  BY <1>1 DEF OwnOutputs, Saving
<1>7. final \notin {Absent, Torn} /\ record \notin {Absent, Torn}
  BY <1>1, <1>2, RecordDeclarations
<1>8. /\ record.work.step = current
      /\ record.work.snap = NoSnapshot
      /\ record.work.inputs = HashRefs(file, Inputs[current])
      /\ record.lock = lockFile[KeyHere]
      /\ current \in Granted => lockFile[KeyHere] # NoLock
  BY <1>1 DEF RecordOfCall, CallNow, step, Running, Saving
<1>9. final.status = "completed"
  <2>1. final.status \in CallStatus /\ current \in Steps
    BY <1>1, KeyHereShape DEF Results
  <2> QED
    BY <1>1, <2>1, StatusOfResultType DEF RecordOfCall
<1>10. /\ Outputs[current] \subseteq final.outputs
       /\ \A o \in Outputs[current] : file[o] \in Contents
  BY <1>1, <1>9 DEF OutputsInvariant, ResultExists, Saving, Expected
<1>11. \A r \in Refs : record.outputs[r] = IF r \in final.outputs THEN file[r] ELSE NotHashed
  BY DEF RecordOfCall, HashRefs
<1>12. \A o \in Outputs[current] : record.outputs[o] # NotHashed /\ file[o] # Missing
  <2>1. Outputs[current] \subseteq Refs
    BY KeyHereShape, StepDeclarations
  <2> QED
    BY <1>10, <1>11, <2>1, FileDeclarations
<1>13. \A r \in Refs : record.outputs[r] \in {NotHashed, file[r]}
  BY <1>11
<1>14. HashRefs(file, Inputs[current])' = HashRefs(file, Inputs[current])
       /\ current' = current
  BY <1>5 DEF HashRefs
<1> HIDE DEF record
<1>15. Recorded(KeyHere)' /\ stepRecord'[KeyHere] = record
  BY <1>3, <1>4, <1>7 DEF Recorded
<1>16. callResult'[KeyHere] = final /\ lockFile'[KeyHere] = lockFile[KeyHere] /\ file' = file
  BY <1>5, <1>6
<1>17. OfContract(callResult[KeyHere])'
  BY <1>3, <1>6, <1>16 DEF OfContract
<1>18. record.status = "completed"
  BY DEF record
<1> QED
  BY <1>3, <1>7, <1>8, <1>12, <1>13, <1>14, <1>15, <1>16, <1>17, <1>18, KeyHereShape
    DEF StepCurrent

----------------------------------------------------------------------------
\* Nothing a step rests on has changed: it is current if it was.
LEMMA CurrentStands ==
  ASSUME UNCHANGED <<file, stepRecord, callResult, lockFile>>, NEW k \in Keys
  PROVE  StepCurrent(k)' <=> StepCurrent(k)
BY DEF StepCurrent, Recorded, OfContract, HashRefs, RouteValue

\* The way taken stays one if no key is added to it and the steps that were
\* passed stay current and keep their routes.
LEMMA PathKept ==
  ASSUME NEW rank, Path(rank), Reached' \subseteq Reached,
         \A k \in Reached', j \in Positions, t \in Steps :
           j < k[1] /\ StepCurrent(<<j, t>>) => StepCurrent(<<j, t>>)',
         \A k, l \in Reached' :
           k[1] < l[1] => RouteValue(file, k[2])' = RouteValue(file, k[2])
  PROVE  Path(rank)'
<1>1. \A k \in Reached', j \in Positions : j < k[1] =>
        \E t \in Steps : StepCurrent(<<j, t>>)'
  BY DEF Path
<1>2. \A k, l \in Reached' : k[1] + 1 = l[1] =>
        LET d == <<k[2], RouteValue(file, k[2])'>> IN
        d \in DOMAIN Routes /\ Routes[d] = l[2]
  <2> SUFFICES ASSUME NEW k \in Reached', NEW l \in Reached', k[1] + 1 = l[1]
               PROVE  LET d == <<k[2], RouteValue(file, k[2])'>> IN
                      d \in DOMAIN Routes /\ Routes[d] = l[2]
    OBVIOUS
  <2>1. k[1] < l[1]
    BY KeyShape DEF Reached
  <2> QED
    BY <2>1 DEF Path
<1> QED
  BY <1>1, <1>2 DEF Path

\* The same for a step of the flow that leaves the files of the steps alone.
LEMMA PathStands ==
  ASSUME NEW rank, Path(rank), Reached' \subseteq Reached,
         UNCHANGED <<file, stepRecord, callResult, lockFile>>
  PROVE  Path(rank)'
<1>1. \A k \in Reached', j \in Positions, t \in Steps :
        j < k[1] /\ StepCurrent(<<j, t>>) => StepCurrent(<<j, t>>)'
  BY CurrentStands DEF Keys
<1>2. \A s : RouteValue(file, s)' = RouteValue(file, s)
  BY DEF RouteValue
<1> QED
  BY <1>1, <1>2, PathKept

LEMMA CompletedStands ==
  ASSUME CompletedCurrent, UNCHANGED <<file, stepRecord, callResult, lockFile>>
  PROVE  CompletedCurrent'
BY CurrentStands DEF CompletedCurrent, RecordedCompleted, Recorded

\* While a step runs it disturbs no step before it, and there is none after it.
LEMMA OthersUndisturbed ==
  ASSUME NEW rank, InOrder(rank), FlowTyped, OwnOutputs, Path(rank), CompletedCurrent,
         RunsLast, phase \in Running, flowPhase # "idle", Reached' \subseteq Reached,
         \A k \in Keys \ {KeyHere} : /\ stepRecord'[k] = stepRecord[k]
                                  /\ callResult'[k] = callResult[k]
                                  /\ lockFile'[k] = lockFile[k],
         \A r \in Refs \ Writable[current] : file'[r] = file[r]
  PROVE  /\ Path(rank)'
         /\ \A k \in Keys \ {KeyHere} : RecordedCompleted(k)' => StepCurrent(k)'
<1>0. KeyHere \in Reached /\ Reached \subseteq Keys
  BY KeyHereShape DEF Reached
<1>1. ASSUME NEW k \in Reached, k # KeyHere
      PROVE  /\ k[1] < index
             /\ \A r \in Inputs[k[2]] \cup Writable[k[2]] : file'[r] = file[r]
  <2>1. k[1] <= index /\ k[1] # index
    BY <1>0, <1>1, KeyHereShape DEF RunsLast, Path
  <2>2. k[1] < index
    BY <1>0, <1>1, <2>1, KeyHereShape, KeyShape
  <2>3. k[2] \in Steps /\ rank[k[2]] < rank[current]
    BY <1>0, <1>1, <2>2, KeyHereShape, KeyShape DEF Path
  <2>4. k[2] # current
    BY <2>3, KeyHereShape DEF InOrder
  <2>5. /\ Inputs[k[2]] \cap Writable[current] = {}
        /\ Writable[k[2]] \cap Writable[current] = {}
    BY <2>3, <2>4, KeyHereShape DEF InOrder
  <2>6. Inputs[k[2]] \subseteq Refs /\ Writable[k[2]] \subseteq Refs
    BY <2>3, StepDeclarations
  <2> QED
    BY <2>2, <2>5, <2>6
<1>2. ASSUME NEW k \in Keys, k # KeyHere, StepCurrent(k) PROVE StepCurrent(k)'
  <2>1. k \in Reached
    BY <1>2 DEF Reached, StepCurrent, Recorded
  <2> QED
    BY <1>1, <1>2, <2>1, CurrentKept, KeyShape
<1>3. ASSUME NEW k \in Reached', NEW j \in Positions, NEW t \in Steps, j < k[1],
             StepCurrent(<<j, t>>)
      PROVE  StepCurrent(<<j, t>>)'
  <2>1. k[1] <= index /\ k[1] \in Nat /\ j \in Nat
    BY <1>0, KeyShape DEF RunsLast
  <2>2. <<j, t>> \in Keys /\ <<j, t>> # KeyHere
    BY <1>3, <2>1, KeyHereShape DEF Keys, KeyHere
  <2> QED
    BY <1>2, <1>3, <2>2
<1>4. ASSUME NEW k \in Reached', NEW l \in Reached', k[1] < l[1]
      PROVE  RouteValue(file, k[2])' = RouteValue(file, k[2])
  <2>1. k # KeyHere
    BY <1>0, <1>4, KeyHereShape, KeyShape DEF RunsLast
  <2>2. k \in Keys /\ k[2] \in Steps
    BY <1>0, KeyShape
  <2>3. RouteOn[k[2]] \in Writable[k[2]] \cup {NoRoute}
    BY <2>2, StepDeclarations
  <2> QED
    BY <1>1, <2>1, <2>3 DEF RouteValue
<1>5. Path(rank)'
  BY <1>3, <1>4, PathKept
<1>6. ASSUME NEW k \in Keys \ {KeyHere}, RecordedCompleted(k)' PROVE StepCurrent(k)'
  <2>1. RecordedCompleted(k)
    BY <1>6 DEF RecordedCompleted, Recorded
  <2> QED
    BY <1>2, <1>6, <2>1 DEF CompletedCurrent
<1> QED
  BY <1>5, <1>6

----------------------------------------------------------------------------
\* The host and the user do nothing in a step after which they have done nothing.
LEMMA CalmBefore ==
  ASSUME FlowTyped, [FlowNext]_flowVars, Calm'
  PROVE  Calm /\ ~Host /\ ~User
<1>0. edits \in Nat
  BY StepParameters DEF FlowTyped, StepTyped, StepTypeOK
<1>1. ~Host
  BY <1>0 DEF Host, Environment, EditFile, ChangePackage, Calm
<1>2. ~User
  BY DEF User, SubmitUserEvent, Calm
<1>3. edits' = edits
  <2>1. InStep => edits' = edits
    BY DEF InStep, RunStep, SkipCurrent, RaiseUnreadable, MustRun, PrepareLock,
      RaiseNotInstalled, StartAttempt, WorkerWrite, FinishAttempt, AdapterRaises,
      OpenResult, WriteResult, OpenRecord, WriteRecord, durable
  <2>2. CallStep \/ StepReturned \/ StepRaised \/ Die => edits' = edits
    BY DEF CallStep, Invoke, StepReturned, StepRaised, Return, Die, Crash, stepVars, durable
  <2>3. (ReadPending \/ ProjectPending \/ AcknowledgedAll \/ Route \/ RunProjections
        \/ ProjectionRaises \/ WriteLedger \/ WriteFlowResult)
          => edits' = edits
    BY DEF ReadPending, ProjectPending, AcknowledgedAll, Route, RunProjections,
      ProjectionRaises, WriteLedger, WriteFlowResult, stepVars, durable
  <2>4. ASSUME NEW context, NEW resume, StartFlow(context, resume) PROVE edits' = edits
    BY <2>4 DEF StartFlow, stepVars, durable
  <2>5. ASSUME NEW event, AcknowledgeOne(event) PROVE edits' = edits
    BY <2>5 DEF AcknowledgeOne, stepVars, durable
  <2>6. UNCHANGED flowVars => edits' = edits
    BY DEF flowVars, stepVars, durable
  <2> QED
    BY <1>1, <1>2, <2>1, <2>2, <2>3, <2>4, <2>5, <2>6 DEF FlowNext, FlowProgress
<1>4. userEvents \subseteq userEvents'
  <2>1. (ReadPending \/ CallStep \/ InStep \/ StepReturned \/ StepRaised
        \/ AcknowledgedAll \/ Route \/ RunProjections \/ ProjectionRaises
        \/ WriteLedger \/ WriteFlowResult \/ Die \/ UNCHANGED flowVars)
          => userEvents' = userEvents
    BY DEF ReadPending, CallStep, InStep, StepReturned, StepRaised, AcknowledgedAll,
      Route, RunProjections, ProjectionRaises, WriteLedger, WriteFlowResult, Die,
      flowVars, portVars
  <2>2. ProjectPending => userEvents' = userEvents
    BY DEF ProjectPending, WritePendingProjection
  <2>3. ASSUME NEW context, NEW resume, StartFlow(context, resume)
        PROVE  userEvents' = userEvents
    BY <2>3 DEF StartFlow, portVars
  <2>4. ASSUME NEW event, AcknowledgeOne(event) PROVE userEvents' = userEvents
    BY <2>4 DEF AcknowledgeOne, Acknowledge
  <2> QED
    BY <1>1, <1>2, <2>1, <2>2, <2>3, <2>4 DEF FlowNext, FlowProgress
<1> QED
  BY <1>1, <1>2, <1>3, <1>4 DEF Calm

LEMMA RunStepPhases == RunStep => phase # "idle"
BY DEF RunStep, SkipCurrent, RaiseUnreadable, MustRun, PrepareLock, RaiseNotInstalled,
  StartAttempt, WorkerWrite, FinishAttempt, AdapterRaises, OpenResult, WriteResult,
  OpenRecord, WriteRecord

\* The call of a running step stays what it was when its step was called.
LEMMA CallNowInStep ==
  ASSUME NEW rank, InOrder(rank), FlowTyped, CallNow, InStep
  PROVE  CallNow'
<1>0. /\ phase # "idle" /\ call \in Calls /\ flowPhase' = flowPhase /\ KeyHere' = KeyHere
      /\ current' = current /\ KeyHere \in Keys /\ current \in Steps
  BY RunStepPhases, KeyHereShape DEF InStep, runVars, KeyHere, FlowTyped, StepTyped, Busy
<1>c. /\ flowPhase = "step" /\ call.key = KeyHere /\ step = current /\ call.resume
      /\ call.work.snap = NoSnapshot
      /\ call.work.inputs = HashRefs(file, Inputs[current])
      /\ call.lock = lockFile[KeyHere]
      /\ phase \in Running \ {"lock"} /\ current \in Granted => call.lock # NoLock
  BY <1>0 DEF CallNow
<1>1. CASE PrepareLock
  <2>1. /\ call'.key = call.key /\ call'.work = call.work /\ call'.resume = call.resume
        /\ call'.lock = lockFile'[call.key]
    BY <1>0, <1>1 DEF PrepareLock, Calls
  <2>2. lockFile' = IF step \in Granted THEN [lockFile EXCEPT ![call.key] = installed]
                                        ELSE lockFile
    BY <1>1 DEF PrepareLock
  <2>3. current \in Granted => lockFile'[KeyHere] = installed /\ installed # NoLock
    BY <1>0, <1>1, <1>c, <2>2 DEF PrepareLock, FlowTyped, StepTyped, StepTypeOK
  <2>4. file' = file
    BY <1>1 DEF PrepareLock
  <2> QED
    BY <1>0, <1>c, <2>1, <2>3, <2>4 DEF CallNow, step, HashRefs
<1>2. ASSUME NEW ref \in Refs, NEW content \in Contents, WorkerWrite(ref, content)
      PROVE  CallNow'
  <2>1. ref \notin Inputs[current]
    BY <1>0, <1>2, <1>c DEF WorkerWrite, InOrder
  <2>2. \A r \in Inputs[current] : file'[r] = file[r]
    BY <1>0, <1>2, <2>1, StepDeclarations DEF WorkerWrite, FlowTyped, StepTyped, StepTypeOK
  <2>3. HashRefs(file, Inputs[current])' = HashRefs(file, Inputs[current])
    BY <1>0, <2>2 DEF HashRefs
  <2>4. UNCHANGED <<call, lockFile, phase>>
    BY <1>2 DEF WorkerWrite
  <2> QED
    BY <1>0, <1>c, <2>3, <2>4 DEF CallNow, step
<1>3. ASSUME UNCHANGED <<file, call, lockFile>>,
             phase' \in Running \ {"lock"} => phase \in Running \ {"lock"}
      PROVE  CallNow'
  BY <1>0, <1>3, <1>c DEF CallNow, step, HashRefs
<1>4. (SkipCurrent \/ RaiseUnreadable \/ MustRun \/ RaiseNotInstalled \/ StartAttempt
      \/ AdapterRaises \/ OpenResult \/ WriteResult \/ OpenRecord \/ WriteRecord)
        => CallNow'
  BY <1>3 DEF SkipCurrent, RaiseUnreadable, MustRun, RaiseNotInstalled, StartAttempt,
    AdapterRaises, OpenResult, WriteResult, OpenRecord, WriteRecord, durable, Running, Saving
<1>5. ASSUME NEW status, NEW outputs, NEW fatal, FinishAttempt(status, outputs, fatal)
      PROVE  CallNow'
  BY <1>3, <1>5 DEF FinishAttempt, durable, Running, Saving
<1> QED
  BY <1>1, <1>2, <1>4, <1>5 DEF InStep, RunStep

\* A step reports and records only what it may write.
LEMMA OwnOutputsInStep ==
  ASSUME FlowTyped, CallNow, OwnOutputs, InStep
  PROVE  OwnOutputs'
<1>0. /\ phase # "idle" /\ call \in Calls /\ step \in Steps /\ call.key \in Keys
      /\ StepOf(call.key) = step
  BY RunStepPhases, StepOfType DEF InStep, FlowTyped, StepTyped, Busy, Calls
<1> DEFINE Hashed == \A k \in Keys : Recorded(k) =>
             \A r \in Refs \ Writable[StepOf(k)] : stepRecord[k].outputs[r] = NotHashed
<1>h. Hashed
  BY DEF OwnOutputs
<1>u. ASSUME stepRecord' = stepRecord PROVE Hashed'
  BY <1>h, <1>u DEF Recorded
<1>1. CASE SkipCurrent \/ RaiseUnreadable \/ MustRun \/ RaiseNotInstalled \/ AdapterRaises
  BY <1>1, <1>u DEF SkipCurrent, RaiseUnreadable, MustRun, RaiseNotInstalled, AdapterRaises,
    durable, OwnOutputs, Saving
<1>2. CASE PrepareLock
  BY <1>2, <1>u DEF PrepareLock, OwnOutputs, Saving
<1>3. CASE StartAttempt
  BY <1>3, <1>u DEF StartAttempt, durable, OwnOutputs, Saving
<1>4. ASSUME NEW ref, NEW content, WorkerWrite(ref, content) PROVE OwnOutputs'
  BY <1>4, <1>u DEF WorkerWrite, OwnOutputs, Saving, step
<1>5. ASSUME NEW status \in CallStatus, NEW outputs \in SUBSET Refs, NEW fatal,
             FinishAttempt(status, outputs, fatal)
      PROVE  OwnOutputs'
  <2>1. phase = "working" /\ written \subseteq Writable[step]
    BY <1>5 DEF FinishAttempt, OwnOutputs
  <2>2. outputs \subseteq Writable[step]
    BY <1>0, <1>5, <2>1, StepDeclarations
      DEF FinishAttempt, PiAgentReport, ProtocolReport, Existing, Expected
  <2>3. final'.outputs \subseteq outputs
        /\ final'.contract = ContractOf[call.work.context]
    BY <1>5 DEF FinishAttempt, BoundaryChecked, Existing
  <2>4. OfContract(final')
    BY <1>0, <2>3 DEF OfContract, Calls, Works
  <2>5. phase' \in {"save_result", "attempt"} /\ step' = step /\ Hashed'
    BY <1>5, <1>u DEF FinishAttempt, durable, step
  <2> QED
    BY <2>2, <2>3, <2>4, <2>5 DEF OwnOutputs, OfContract
<1>6. CASE OpenResult
  BY <1>6, <1>u DEF OpenResult, OwnOutputs, Saving, step, OfContract
<1>7. CASE WriteResult
  <2>1. callResult'[call.key] = final
    BY <1>0, <1>7 DEF WriteResult, FlowTyped, StepTyped, StepTypeOK
  <2> QED
    BY <1>7, <1>u, <2>1 DEF WriteResult, OwnOutputs, Saving, step, OfContract
<1>8. CASE OpenRecord
  <2>1. \A k \in Keys : stepRecord'[k] = IF k = call.key THEN Torn ELSE stepRecord[k]
    BY <1>0, <1>8 DEF OpenRecord, FlowTyped, StepTyped, StepTypeOK
  <2>2. Hashed'
    BY <1>h, <2>1 DEF Recorded
  <2> QED
    BY <1>8, <2>2 DEF OpenRecord, OwnOutputs, Saving, step, OfContract
<1>9. CASE WriteRecord
  <2>1. \A k \in Keys : stepRecord'[k] = IF k = call.key THEN RecordOfCall ELSE stepRecord[k]
    BY <1>0, <1>9 DEF WriteRecord, FlowTyped, StepTyped, StepTypeOK
  <2>2. \A r \in Refs \ Writable[step] : RecordOfCall.outputs[r] = NotHashed
    BY <1>9 DEF WriteRecord, OwnOutputs, Saving, RecordOfCall, HashRefs
  <2>3. Hashed'
    BY <1>0, <1>h, <2>1, <2>2 DEF Recorded
  <2> QED
    BY <1>9, <2>3 DEF WriteRecord, OwnOutputs, Saving
<1> QED
  BY <1>1, <1>2, <1>3, <1>4, <1>5, <1>6, <1>7, <1>8, <1>9 DEF InStep, RunStep
\* A step that must run is not current, so nothing after it has been reached:
\* whoever came further found it current.
LEMMA MustRunIsLast ==
  ASSUME NEW rank, SameContract, FlowTyped, Kept(rank), flowPhase # "idle",
         phase = "check", MustRun
  PROVE  /\ \A k \in Reached : k[1] <= index
         /\ ~RecordedCompleted(KeyHere)
<1>1. ~StepCurrent(KeyHere)
  BY CurrentIsSkipped DEF Kept
<1>2. ~RecordedCompleted(KeyHere)
  BY <1>1, KeyHereShape DEF Kept, CompletedCurrent
<1>3. ASSUME NEW k \in Reached, index < k[1] PROVE FALSE
  <2>1. PICK t \in Steps : StepCurrent(<<index, t>>)
    BY <1>3, KeyHereShape DEF Kept, Path
  <2>2. <<index, t>> \in Keys
    BY KeyHereShape DEF Keys
  <2>3. <<index, t>> \in Reached /\ KeyHere \in Reached
    BY <2>1, <2>2, KeyHereShape DEF Reached, StepCurrent, Recorded
  <2>4. <<index, t>>[1] = KeyHere[1]
    BY KeyHereShape
  <2>5. <<index, t>> = KeyHere
    BY <2>3, <2>4 DEF Kept, Path
  <2> QED
    BY <1>1, <2>1, <2>5
<1>4. \A k \in Reached : k[1] \in Nat /\ index \in Nat
  BY KeyShape, KeyHereShape DEF Reached
<1> QED
  BY <1>2, <1>3, <1>4

\* No step of run_step disturbs the work that was passed.
LEMMA KeptInStep ==
  ASSUME NEW rank, InOrder(rank), SameContract, FlowTyped, OutputsInvariant, Kept(rank),
         InStep
  PROVE  Kept(rank)'
<1>0. /\ phase # "idle" /\ flowPhase = "step" /\ call \in Calls /\ call.key = KeyHere
      /\ step = current /\ KeyHere \in Keys /\ KeyHere \in Reached
  BY RunStepPhases, KeyHereShape
    DEF InStep, FlowTyped, StepTyped, Busy, Kept, CallNow, Reached
<1>p. /\ Quiet /\ CallNow /\ OwnOutputs
      /\ Path(rank) /\ CompletedCurrent /\ RunsLast /\ PassedCurrent
  BY DEF Kept
<1>1. /\ UNCHANGED <<flowPhase, index, current, shown, unacked, stepSnap>>
      /\ KeyHere' = KeyHere
  BY DEF InStep, runVars, KeyHere
<1>2. Quiet' /\ CallNow' /\ OwnOutputs'
  <2>1. Quiet'
    BY <1>0, <1>1, <1>p DEF Quiet
  <2> QED
    BY <1>p, <2>1, CallNowInStep, OwnOutputsInStep
<1>3. ASSUME \A k \in Keys \ {KeyHere} : stepRecord'[k] = stepRecord[k]
      PROVE  Reached' \subseteq Reached
  BY <1>0, <1>1, <1>3 DEF Reached
<1>4. \A k \in Keys : k[1] \in Nat /\ index \in Nat
  BY KeyShape, KeyHereShape
<1>5. ASSUME UNCHANGED <<file, stepRecord, callResult, lockFile>>,
             phase' \in Running => phase \in Running \/ MustRun,
             phase' = "done" /\ Continues(outcome'.status) => StepCurrent(KeyHere)
      PROVE  Kept(rank)'
  <2>1. Reached' \subseteq Reached
    BY <1>3, <1>5
  <2>2. Path(rank)' /\ CompletedCurrent'
    BY <1>5, <1>p, <2>1, PathStands, CompletedStands
  <2>3. MustRun => phase = "check"
    BY DEF MustRun
  <2>4. phase' \in Running => /\ \A k \in Reached : k[1] <= index
                              /\ ~RecordedCompleted(KeyHere)
    BY <1>0, <1>5, <1>p, <2>3, MustRunIsLast DEF RunsLast
  <2>5. RunsLast'
    BY <1>1, <1>5, <2>1, <2>4 DEF RunsLast, RecordedCompleted, Recorded
  <2>6. PassedCurrent'
    BY <1>0, <1>1, <1>5, CurrentStands DEF PassedCurrent
  <2> QED
    BY <1>2, <2>2, <2>5, <2>6 DEF Kept
<1>6. CASE SkipCurrent
  BY <1>5, <1>6, <1>p, SkippedIsCurrent DEF SkipCurrent, durable, Running, Saving
<1>7. CASE MustRun
  BY <1>5, <1>7 DEF MustRun, durable
<1>8. CASE RaiseUnreadable \/ RaiseNotInstalled \/ StartAttempt \/ AdapterRaises
  BY <1>5, <1>8 DEF RaiseUnreadable, RaiseNotInstalled, StartAttempt, AdapterRaises, durable,
    Running, Saving
<1>9. ASSUME NEW status, NEW outputs, NEW fatal, FinishAttempt(status, outputs, fatal)
      PROVE  Kept(rank)'
  BY <1>5, <1>9 DEF FinishAttempt, durable, Running, Saving
<1>10. ASSUME phase \in Running,
              \A k \in Keys \ {KeyHere} : /\ stepRecord'[k] = stepRecord[k]
                                       /\ callResult'[k] = callResult[k]
                                       /\ lockFile'[k] = lockFile[k],
              \A r \in Refs \ Writable[current] : file'[r] = file[r],
              RecordedCompleted(KeyHere)' => phase' = "done" /\ StepCurrent(KeyHere)',
              phase' = "done" /\ Continues(outcome'.status) => RecordedCompleted(KeyHere)'
       PROVE  Kept(rank)'
  <2>1. Reached' \subseteq Reached
    BY <1>3, <1>10
  <2>2. Path(rank)' /\ \A k \in Keys \ {KeyHere} : RecordedCompleted(k)' => StepCurrent(k)'
    BY <1>0, <1>10, <1>p, <2>1, OthersUndisturbed
  <2>3. CompletedCurrent'
    BY <1>1, <1>10, <2>2 DEF CompletedCurrent
  <2>4. RunsLast'
    BY <1>1, <1>10, <1>p, <2>1 DEF RunsLast, Running, Saving
  <2>5. PassedCurrent'
    BY <1>0, <1>1, <1>10 DEF PassedCurrent
  <2> QED
    BY <1>2, <2>2, <2>3, <2>4, <2>5 DEF Kept
<1>11. phase \in Running => ~RecordedCompleted(KeyHere)
  BY <1>p DEF RunsLast
<1>12. CASE PrepareLock
  <2>1. \A k \in Keys \ {KeyHere} : lockFile'[k] = lockFile[k]
    BY <1>0, <1>12 DEF PrepareLock, FlowTyped, StepTyped, StepTypeOK
  <2>2. UNCHANGED <<file, stepRecord, callResult>> /\ phase = "lock" /\ phase' = "attempt"
    BY <1>12 DEF PrepareLock
  <2>3. phase \in Running /\ ~RecordedCompleted(KeyHere)'
    BY <1>1, <1>11, <2>2 DEF Running, RecordedCompleted, Recorded
  <2> QED
    BY <1>10, <2>1, <2>2, <2>3
<1>13. ASSUME NEW ref \in Refs, NEW content \in Contents, WorkerWrite(ref, content)
       PROVE  Kept(rank)'
  <2>1. \A r \in Refs \ Writable[current] : file'[r] = file[r]
    BY <1>0, <1>13 DEF WorkerWrite, FlowTyped, StepTyped, StepTypeOK
  <2>2. UNCHANGED <<stepRecord, callResult, lockFile>> /\ phase = "working" /\ phase' = phase
    BY <1>13 DEF WorkerWrite
  <2>3. phase \in Running /\ ~RecordedCompleted(KeyHere)'
    BY <1>1, <1>11, <2>2 DEF Running, RecordedCompleted, Recorded
  <2> QED
    BY <1>10, <2>1, <2>2, <2>3
<1>14. CASE OpenResult \/ WriteResult
  <2>1. \A k \in Keys \ {KeyHere} : callResult'[k] = callResult[k]
    BY <1>0, <1>14 DEF OpenResult, WriteResult, FlowTyped, StepTyped, StepTypeOK
  <2>2. /\ UNCHANGED <<file, stepRecord, lockFile>>
        /\ phase \in Saving /\ phase' # "done"
    BY <1>14 DEF OpenResult, WriteResult, Saving
  <2>3. phase \in Running /\ ~RecordedCompleted(KeyHere)'
    BY <1>1, <1>11, <2>2 DEF Running, RecordedCompleted, Recorded
  <2> QED
    BY <1>10, <2>1, <2>2, <2>3
<1>15. CASE OpenRecord
  <2>1. /\ stepRecord'[KeyHere] = Torn
        /\ \A k \in Keys \ {KeyHere} : stepRecord'[k] = stepRecord[k]
    BY <1>0, <1>15 DEF OpenRecord, FlowTyped, StepTyped, StepTypeOK
  <2>2. UNCHANGED <<file, callResult, lockFile>> /\ phase = "save_record"
        /\ phase' = "record_open"
    BY <1>15 DEF OpenRecord
  <2>3. phase \in Running /\ ~RecordedCompleted(KeyHere)'
    BY <1>1, <2>1, <2>2 DEF Running, Saving, RecordedCompleted, Recorded
  <2> QED
    BY <1>10, <2>1, <2>2, <2>3
<1>16. CASE WriteRecord
  <2>1. /\ stepRecord'[KeyHere] = RecordOfCall
        /\ \A k \in Keys \ {KeyHere} : stepRecord'[k] = stepRecord[k]
    BY <1>0, <1>16 DEF WriteRecord, FlowTyped, StepTyped, StepTypeOK
  <2>2. UNCHANGED <<file, callResult, lockFile>> /\ phase = "record_open" /\ phase' = "done"
        /\ outcome'.status = RecordOfCall.status
    BY <1>16 DEF WriteRecord
  <2>3. phase \in Running
    BY <2>2 DEF Running, Saving
  <2>4. RecordedCompleted(KeyHere)' => RecordOfCall.status = "completed"
    BY <1>1, <2>1 DEF RecordedCompleted
  <2>5. RecordOfCall.status = "completed" => StepCurrent(KeyHere)'
    BY <1>1, <1>16, <1>p, CompletedIsCurrent
  <2>6. RecordOfCall \in Records /\ RecordOfCall.status # "skipped"
    <3>1. final.status \in CallStatus /\ step \in Steps
      BY <1>0, <2>2, KeyHereShape DEF FlowTyped, StepTyped, Busy, Saving, Results
    <3>2. StatusOfResult(final.status, step) # "skipped"
      BY <3>1, StepDeclarations DEF StatusOfResult
    <3> QED
      BY <2>2, <3>2, RecordOfCallType DEF RecordOfCall, FlowTyped, Saving
  <2>7. Continues(outcome'.status) => RecordedCompleted(KeyHere)'
    BY <1>1, <2>1, <2>2, <2>6, RecordDeclarations DEF Continues, RecordedCompleted, Recorded
  <2> QED
    BY <1>10, <2>1, <2>2, <2>3, <2>4, <2>5, <2>7
<1> QED
  BY <1>6, <1>7, <1>8, <1>9, <1>12, <1>13, <1>14, <1>15, <1>16 DEF InStep, RunStep

----------------------------------------------------------------------------
\* Between the steps nothing is written: what was passed stands as long as the
\* flow goes on or ends, and does not come to another step.
LEMMA KeptBetween ==
  ASSUME NEW rank, Kept(rank), phase = "idle", UNCHANGED stepVars, Quiet',
         Reached' \subseteq Reached,
         flowPhase' \in {"acking", "routing"} => StepCurrent(KeyHere) /\ KeyHere' = KeyHere
  PROVE  Kept(rank)'
<1>1. UNCHANGED <<file, stepRecord, callResult, lockFile, written, final, outcome>>
      /\ phase' = "idle"
  BY DEF stepVars, durable, process
<1>2. CallNow' /\ RunsLast' /\ OwnOutputs'
  BY <1>1 DEF CallNow, RunsLast, Running, Saving, Kept, OwnOutputs, Recorded
<1>3. Path(rank)' /\ CompletedCurrent'
  BY <1>1, PathStands, CompletedStands DEF Kept
<1>4. PassedCurrent'
  <2>1. StepCurrent(KeyHere) /\ KeyHere' = KeyHere => StepCurrent(KeyHere)'
    BY <1>1 DEF StepCurrent, Recorded, OfContract, HashRefs, RouteValue
  <2> QED
    BY <1>1, <2>1 DEF PassedCurrent
<1> QED
  BY <1>2, <1>3, <1>4 DEF Kept

\* An execution that has ended leaves what was passed.
LEMMA KeptAtTheEnd ==
  ASSUME NEW rank, Kept(rank), NotRunning, phase' = "idle",
         UNCHANGED <<file, stepRecord, callResult>>,
         lockFile' = lockFile \/ (/\ phase = "lock" /\ flowPhase # "idle" /\ FlowTyped
                                  /\ InOrder(rank)
                                  /\ \A k \in Keys \ {KeyHere} : lockFile'[k] = lockFile[k])
  PROVE  Kept(rank)'
<1>1. Quiet' /\ CallNow' /\ RunsLast' /\ PassedCurrent'
  BY DEF NotRunning, Quiet, CallNow, RunsLast, Running, Saving, PassedCurrent
<1>2. OwnOutputs'
  BY DEF Kept, OwnOutputs, Saving, Recorded
<1>3. Reached' \subseteq Reached
  BY DEF NotRunning, Reached
<1>4. Path(rank)' /\ CompletedCurrent'
  <2>1. CASE lockFile' = lockFile
    BY <1>3, <2>1, PathStands, CompletedStands DEF Kept
  <2>2. CASE lockFile' # lockFile
    <3>1. /\ phase \in Running /\ flowPhase # "idle" /\ ~RecordedCompleted(KeyHere)
          /\ \A k \in Keys \ {KeyHere} : lockFile'[k] = lockFile[k]
      BY <2>2 DEF Running, Kept, RunsLast
    <3>2. Path(rank)' /\ \A k \in Keys \ {KeyHere} : RecordedCompleted(k)' => StepCurrent(k)'
      BY <1>3, <2>2, <3>1, OthersUndisturbed DEF Kept
    <3>3. ASSUME NEW k \in Keys, RecordedCompleted(k)' PROVE StepCurrent(k)'
      <4>1. RecordedCompleted(k)
        BY <3>3 DEF RecordedCompleted, Recorded
      <4> QED
        BY <3>1, <3>2, <3>3, <4>1
    <3> QED
      BY <3>2, <3>3 DEF CompletedCurrent
  <2> QED BY <2>1, <2>2
<1> QED
  BY <1>1, <1>2, <1>4 DEF Kept

\* A flow starts at its first step, where every execution before it started.
LEMMA KeptAtTheStart ==
  ASSUME NEW rank, FlowTyped, Kept(rank), NEW context, NEW resume,
         StartFlow(context, resume)
  PROVE  Kept(rank)'
<1>1. /\ flowPhase = "idle" /\ phase = "idle" /\ index = 1 /\ current = First
      /\ flowPhase' = "safe_point" /\ KeyHere' = KeyHere
      /\ UNCHANGED <<stepVars, index, current, shown, unacked, stepSnap>>
  BY DEF StartFlow, Kept, Quiet, KeyHere
<1>2. UNCHANGED <<file, stepRecord, callResult, lockFile, phase>> /\ KeyHere \in Keys
      /\ KeyHere[1] = 1 /\ KeyHere[2] = First
  BY <1>1, KeyHereShape DEF stepVars, durable, process
<1>3. Reached' \subseteq Reached \cup {KeyHere}
  BY <1>1, <1>2 DEF Reached
<1>4. \A k \in Reached : k[1] = 1 => k = KeyHere
  BY <1>2, KeyShape DEF Kept, Path, Reached, KeyHere
<1>5. ASSUME NEW k \in Reached, 1 < k[1] PROVE KeyHere \in Reached
  <2>1. PICK t \in Steps : StepCurrent(<<1, t>>)
    BY <1>1, <1>5, KeyHereShape DEF Kept, Path
  <2>2. <<1, t>> \in Keys /\ <<1, t>>[1] = 1
    BY <1>1, KeyHereShape DEF Keys
  <2>3. <<1, t>> \in Reached
    BY <2>1, <2>2 DEF Reached, StepCurrent, Recorded
  <2> QED
    BY <1>4, <2>2, <2>3
<1>6. \A k \in Reached \cup {KeyHere} : k[1] \in Nat /\ k[1] >= 1
  BY <1>2, KeyShape, FlowDeclarations DEF Reached
<1>7. CASE KeyHere \in Reached
  <2>1. Reached' \subseteq Reached
    BY <1>3, <1>7
  <2>2. Quiet'
    BY <1>1, <1>2 DEF Kept, Quiet
  <2> QED
    BY <1>1, <2>1, <2>2, KeptBetween
<1>8. CASE KeyHere \notin Reached
  <2>1. Reached = {}
    BY <1>4, <1>5, <1>6, <1>8
  <2>2. Reached' \subseteq {KeyHere}
    BY <1>3, <2>1
  <2>3. \A k \in Reached' : k[1] = 1 /\ k[2] = First
    BY <1>2, <2>2
  <2>4. Path(rank)'
    <3>1. \A j \in Positions : ~(j < 1)
      BY FlowDeclarations
    <3> QED
      BY <2>2, <2>3, <3>1 DEF Path
  <2>5. CompletedCurrent'
    BY <1>2, CompletedStands DEF Kept
  <2>6. Quiet' /\ CallNow' /\ RunsLast' /\ PassedCurrent'
    BY <1>1, <1>2 DEF Kept, Quiet, CallNow, RunsLast, Running, Saving, PassedCurrent
  <2>7. OwnOutputs'
    BY <1>1, <1>2 DEF Kept, OwnOutputs, Saving, Recorded
  <2> QED
    BY <2>4, <2>5, <2>6, <2>7 DEF Kept
<1> QED BY <1>7, <1>8

\* A flow goes on where every execution that came so far went on.
LEMMA KeptOnward ==
  ASSUME NEW rank, InOrder(rank), FlowTyped, Kept(rank), Route, flowPhase' = "safe_point"
  PROVE  Kept(rank)'
<1> DEFINE target == Routes[DecisionRoute]
<1>1. /\ flowPhase = "routing" /\ phase = "idle" /\ phase' = "idle"
      /\ UNCHANGED <<file, stepRecord, callResult, lockFile, written, final, outcome,
                     shown, unacked, stepSnap>>
  BY DEF Route, stepVars, durable, process, Kept, CallNow
<1>2. /\ Routed /\ target \in Steps /\ index < MaxSteps
      /\ index' = index + 1 /\ current' = target
  BY DEF Route, StopFlow, GoTo, TurnsLeft, NextIndex
<1>3. StepCurrent(KeyHere)
  BY <1>1 DEF Kept, PassedCurrent
<1>4. /\ KeyHere \in Keys /\ KeyHere[1] = index /\ KeyHere[2] = current /\ index \in Nat
      /\ current \in Steps
  BY KeyHereShape
<1>5. /\ KeyHere' \in Keys /\ KeyHere'[1] = index + 1 /\ KeyHere'[2] = target
  BY <1>2, <1>4, FlowDeclarations DEF KeyHere, Keys
<1>6. KeyHere \in Reached /\ Reached \subseteq Keys
  BY <1>1, <1>4 DEF Reached
<1>7. Reached' \subseteq Reached \cup {KeyHere'}
  BY <1>1 DEF Reached
<1>8. rank[current] < rank[target] /\ rank \in [Steps -> Nat]
  BY <1>2, <1>4 DEF InOrder, Routed, DecisionRoute
<1>9. \A k \in Reached : k[1] \in Nat /\ k[2] \in Steps
  BY <1>6, KeyShape
<1>10. \A k \in Reached : k[1] = index => k = KeyHere
  BY <1>4, <1>6 DEF Kept, Path
\* What was reached next is the step the flow goes to now.
<1>11. \A k \in Reached : k[1] = index + 1 => k = KeyHere'
  <2> SUFFICES ASSUME NEW k \in Reached, k[1] = index + 1 PROVE k = KeyHere'
    OBVIOUS
  <2>1. k[2] = target
    BY <1>4, <1>6 DEF Kept, Path, DecisionRoute
  <2> QED
    BY <1>2, <1>6, <2>1, KeyShape DEF KeyHere
<1>12. ASSUME NEW k \in Reached, index + 1 < k[1] PROVE KeyHere' \in Reached
  <2>1. index + 1 \in Positions
    BY <1>2, <1>5, KeyShape
  <2>2. PICK t \in Steps : StepCurrent(<<index + 1, t>>)
    BY <1>12, <2>1 DEF Kept, Path
  <2>3. <<index + 1, t>> \in Keys /\ <<index + 1, t>>[1] = index + 1
    BY <2>1 DEF Keys
  <2>4. <<index + 1, t>> \in Reached
    BY <2>2, <2>3 DEF Reached, StepCurrent, Recorded
  <2> QED
    BY <1>11, <2>3, <2>4
<1>13. Quiet' /\ CallNow' /\ RunsLast' /\ PassedCurrent' /\ OwnOutputs' /\ CompletedCurrent'
  <2>1. Quiet' /\ CallNow' /\ RunsLast' /\ PassedCurrent'
    BY <1>1 DEF Kept, Quiet, CallNow, RunsLast, Running, Saving, PassedCurrent
  <2>2. OwnOutputs'
    BY <1>1 DEF Kept, OwnOutputs, Saving, Recorded
  <2> QED
    BY <1>1, <2>1, <2>2, CompletedStands DEF Kept
<1>14. CASE KeyHere' \in Reached
  <2>1. Path(rank)'
    BY <1>1, <1>7, <1>14, PathStands DEF Kept
  <2> QED
    BY <1>13, <2>1 DEF Kept
<1>15. CASE KeyHere' \notin Reached
  <2>1. \A k \in Reached : k[1] <= index
    BY <1>4, <1>9, <1>11, <1>12, <1>15
  <2> DEFINE all == Reached \cup {KeyHere'}
  <2>2. \A k \in all : k[1] = 1 => k[2] = First
    BY <1>2, <1>4, <1>5, KeyShape, FlowDeclarations DEF Kept, Path
  <2>3. \A k \in all, j \in Positions : j < k[1] => \E t \in Steps : StepCurrent(<<j, t>>)'
    <3>1. \A k \in Reached, j \in Positions : j < k[1] => \E t \in Steps : StepCurrent(<<j, t>>)
      BY DEF Kept, Path
    <3>2. \A j \in Positions : j < index + 1 => \E t \in Steps : StepCurrent(<<j, t>>)
      <4> SUFFICES ASSUME NEW j \in Positions, j < index + 1
                   PROVE  \E t \in Steps : StepCurrent(<<j, t>>)
        OBVIOUS
      <4>1. CASE j < index
        BY <1>4, <1>6, <3>1, <4>1
      <4>2. CASE j = index
        BY <1>3, <1>4, <4>2 DEF KeyHere
      <4>3. j \in Nat /\ index \in Nat
        BY <1>4, KeyShape
      <4>4. j < index \/ j = index
        BY <4>3
      <4> QED
        BY <4>1, <4>2, <4>4
    <3>3. \A j \in Positions, t \in Steps : StepCurrent(<<j, t>>) => StepCurrent(<<j, t>>)'
      BY <1>1, CurrentStands DEF Keys
    <3> QED
      BY <1>5, <3>1, <3>2, <3>3
  <2>4. \A k, l \in all : k[1] = l[1] => k = l
    BY <1>4, <1>5, <1>9, <2>1 DEF Kept, Path
  <2>5. \A k, l \in all : k[1] < l[1] => rank[k[2]] < rank[l[2]]
    <3>1. \A k, l \in Reached : k[1] < l[1] => rank[k[2]] < rank[l[2]]
      BY DEF Kept, Path
    <3>2. \A k \in Reached : rank[k[2]] < rank[target]
      <4> SUFFICES ASSUME NEW k \in Reached PROVE rank[k[2]] < rank[target]
        OBVIOUS
      <4>1. CASE k[1] = index
        BY <1>4, <1>8, <1>10, <4>1
      <4>2. CASE k[1] < index
        <5>1. rank[k[2]] < rank[current]
          BY <1>4, <1>6, <3>1, <4>2
        <5>2. rank[k[2]] \in Nat /\ rank[current] \in Nat /\ rank[target] \in Nat
          BY <1>2, <1>4, <1>8, <1>9
        <5> QED
          BY <1>8, <5>1, <5>2
      <4> QED
        BY <1>4, <1>9, <2>1, <4>1, <4>2
    <3>3. \A k \in all : ~(KeyHere'[1] < k[1])
      BY <1>4, <1>5, <1>9, <2>1
    <3> QED
      BY <1>5, <3>1, <3>2, <3>3
  <2>6. \A k, l \in all : k[1] + 1 = l[1] =>
          LET d == <<k[2], RouteValue(file, k[2])>> IN
          d \in DOMAIN Routes /\ Routes[d] = l[2]
    <3> SUFFICES ASSUME NEW k \in all, NEW l \in all, k[1] + 1 = l[1]
                 PROVE  /\ <<k[2], RouteValue(file, k[2])>> \in DOMAIN Routes
                        /\ Routes[<<k[2], RouteValue(file, k[2])>>] = l[2]
      OBVIOUS
    <3>1. k \in Reached
      BY <1>4, <1>5, <1>9, <2>1
    <3>2. CASE l \in Reached
      BY <3>1, <3>2 DEF Kept, Path
    <3>3. CASE l = KeyHere'
      <4>1. k = KeyHere
        BY <1>4, <1>5, <1>9, <1>10, <3>1, <3>3
      <4> QED
        BY <1>2, <1>4, <1>5, <3>3, <4>1 DEF Routed, DecisionRoute
    <3> QED BY <3>2, <3>3
  <2>7. \A s : RouteValue(file, s)' = RouteValue(file, s)
    BY <1>1 DEF RouteValue
  <2>8. Path(rank)'
    BY <1>7, <2>2, <2>3, <2>4, <2>5, <2>6, <2>7 DEF Path
  <2> QED
    BY <1>13, <2>8 DEF Kept
<1> QED BY <1>14, <1>15

LEMMA KeptInitially == ASSUME NEW rank PROVE FlowInit => KeptInvariant(rank)
<1> SUFFICES ASSUME FlowInit PROVE KeptInvariant(rank)
  OBVIOUS
<1>1. FlowTyped /\ OutputsInvariant
  BY FlowTypedInit, OutputsInvariantInit DEF FlowInit
<1>2. Reached = {} /\ \A k \in Keys : ~Recorded(k)
  BY DEF FlowInit, StepInit, Reached, Recorded
<1>3. Quiet /\ CallNow /\ OwnOutputs /\ RunsLast /\ PassedCurrent
  BY <1>2 DEF FlowInit, StepInit, Quiet, CallNow, OwnOutputs, RunsLast, Running, Saving,
    PassedCurrent
<1>4. Path(rank) /\ CompletedCurrent
  BY <1>2 DEF Path, CompletedCurrent, RecordedCompleted
<1> QED
  BY <1>1, <1>3, <1>4 DEF KeptInvariant, Kept

LEMMA KeptNext ==
  ASSUME NEW rank, InOrder(rank), SameContract
  PROVE  KeptInvariant(rank) /\ [FlowNext]_flowVars => KeptInvariant(rank)'
<1> SUFFICES ASSUME KeptInvariant(rank), [FlowNext]_flowVars PROVE KeptInvariant(rank)'
  OBVIOUS
<1>t. FlowTyped /\ OutputsInvariant
  BY DEF KeptInvariant
<1>u. FlowTyped' /\ OutputsInvariant'
  BY <1>t, FlowTypedNext, FlowStepIsStep, OutputsInvariantNext
<1> SUFFICES ASSUME Calm' PROVE Kept(rank)'
  BY <1>u DEF KeptInvariant
<1>c. /\ Calm /\ ~Host /\ ~User /\ Kept(rank)
      /\ Quiet /\ CallNow /\ PassedCurrent
  BY <1>t, CalmBefore DEF KeptInvariant, Kept
<1>i. flowPhase # "step" => phase = "idle"
  BY <1>c DEF CallNow
<1>r. UNCHANGED <<stepRecord, index, current>> /\ flowPhase # "idle" => Reached' \subseteq Reached
  BY DEF Reached, KeyHere
<1>h. UNCHANGED <<index, current>> => KeyHere' = KeyHere
  BY DEF KeyHere
<1>1. ASSUME NEW context, NEW resume, StartFlow(context, resume) PROVE Kept(rank)'
  BY <1>1, <1>c, <1>t, KeptAtTheStart
<1>2. CASE ReadPending
  <2>1. shown' = {} /\ stepSnap' = NoSnapshot /\ flowPhase' = "ready" /\ unacked' = {}
    BY <1>2, <1>c DEF ReadPending, Pending, Calm, Quiet
  <2>2. Quiet'
    BY <2>1 DEF Quiet
  <2> QED
    BY <1>2, <1>c, <1>i, <1>r, <2>1, <2>2, KeptBetween DEF ReadPending, stepVars, durable
<1>3. CASE ProjectPending
  BY <1>3, <1>c DEF ProjectPending, Quiet
<1>4. CASE CallStep
  <2>1. /\ flowPhase = "ready" /\ flowPhase' = "step" /\ phase = "idle" /\ phase' = "check"
        /\ UNCHANGED <<durable, written, final, outcome, index, current, shown, unacked,
                       stepSnap>>
    BY <1>4 DEF CallStep, Invoke
  <2>2. UNCHANGED <<file, stepRecord, callResult, lockFile>> /\ KeyHere' = KeyHere
    BY <2>1, <1>h DEF durable
  <2>3. /\ KeyHere \in Keys /\ StepOf(KeyHere) = current
        /\ run.resume \in ResumeModes /\ stepSnap = NoSnapshot
    BY <1>c, <1>t, <2>1, KeyHereShape DEF FlowTyped, RunKnown, Quiet
  <2>4. run.resume = TRUE
    BY <2>3, StepParameters DEF SameContract
  <2>5. call' = [key    |-> KeyHere,
                 work   |-> [step    |-> current,
                             context |-> run.context,
                             snap    |-> NoSnapshot,
                             inputs  |-> HashRefs(file, Inputs[current])],
                 lock   |-> lockFile[KeyHere],
                 resume |-> TRUE]
    BY <1>4, <2>3, <2>4 DEF CallStep, Invoke, KeyHere
  <2>6. HashRefs(file, Inputs[current])' = HashRefs(file, Inputs[current])
    BY <2>1, <2>2 DEF HashRefs
  <2>7. CallNow'
    BY <2>1, <2>2, <2>5, <2>6 DEF CallNow, step, Running, Saving
  <2>8. Quiet' /\ RunsLast' /\ PassedCurrent'
    BY <1>c, <2>1 DEF Quiet, RunsLast, Running, Saving, PassedCurrent
  <2>9. OwnOutputs'
    BY <1>c, <2>1, <2>2 DEF Kept, OwnOutputs, Saving, Recorded
  <2>10. Path(rank)' /\ CompletedCurrent'
    BY <1>c, <1>r, <2>1, <2>2, PathStands, CompletedStands DEF Kept
  <2> QED
    BY <2>7, <2>8, <2>9, <2>10 DEF Kept
<1>5. CASE InStep
  BY <1>5, <1>c, <1>t, KeptInStep
<1>6. CASE StepReturned
  <2>1. /\ flowPhase = "step" /\ phase = "done" /\ phase' = "idle"
        /\ UNCHANGED <<file, stepRecord, callResult, lockFile, index, current, shown,
                       stepSnap>>
        /\ flowPhase' \in {"acking", "stopping"}
        /\ flowPhase' = "acking" => Continues(outcome.status)
    BY <1>6 DEF StepReturned, Return, Forget, durable
  <2>2. unacked' = {}
    BY <1>6, <1>c DEF StepReturned, ToAcknowledge, Quiet
  <2>3. Quiet' /\ CallNow' /\ RunsLast'
    BY <1>c, <2>1, <2>2 DEF Quiet, CallNow, RunsLast, Running, Saving
  <2>4. OwnOutputs'
    BY <1>c, <2>1 DEF Kept, OwnOutputs, Saving, Recorded
  <2>5. Path(rank)' /\ CompletedCurrent'
    BY <1>c, <1>r, <2>1, PathStands, CompletedStands DEF Kept
  <2>6. flowPhase' = "acking" => StepCurrent(KeyHere)
    BY <1>c, <2>1 DEF PassedCurrent
  <2>7. StepCurrent(KeyHere)' <=> StepCurrent(KeyHere)
    BY <1>h, <1>t, <2>1, KeyHereShape, CurrentStands
  <2>8. PassedCurrent'
    BY <2>1, <2>6, <2>7 DEF PassedCurrent
  <2> QED
    BY <2>3, <2>4, <2>5, <2>8 DEF Kept
<1>7. CASE StepRaised
  BY <1>7, <1>c, KeptAtTheEnd DEF StepRaised, Return, Forget, durable
<1>8. ASSUME NEW event, AcknowledgeOne(event) PROVE Kept(rank)'
  BY <1>8, <1>c DEF AcknowledgeOne, Quiet
<1>9. CASE AcknowledgedAll
  <2>1. /\ flowPhase = "acking" /\ flowPhase' = "routing"
        /\ UNCHANGED <<stepVars, stepRecord, index, current, shown, unacked, stepSnap>>
    BY <1>9 DEF AcknowledgedAll, stepVars, durable
  <2>2. Quiet'
    BY <1>c, <2>1 DEF Quiet
  <2> QED
    BY <1>c, <1>h, <1>i, <1>r, <2>1, <2>2, KeptBetween DEF PassedCurrent
<1>10. CASE Route
  <2>1. flowPhase = "routing" /\ flowPhase' \in {"stopping", "safe_point"}
        /\ UNCHANGED <<stepVars, stepRecord, shown, unacked, stepSnap>>
    BY <1>10 DEF Route, StopFlow, GoTo, stepVars, durable
  <2>2. CASE flowPhase' = "safe_point"
    BY <1>10, <1>c, <1>t, <2>2, KeptOnward
  <2>3. CASE flowPhase' = "stopping"
    <3>1. UNCHANGED <<index, current>>
      BY <1>10, <2>3 DEF Route, StopFlow, GoTo
    <3>2. Quiet'
      BY <1>c, <2>1, <2>3 DEF Quiet
    <3> QED
      BY <1>c, <1>i, <1>r, <2>1, <2>3, <3>1, <3>2, KeptBetween
  <2> QED BY <2>1, <2>2, <2>3
<1>11. CASE RunProjections \/ WriteLedger
  <2>1. /\ flowPhase \in {"stopping", "ledger"} /\ flowPhase' \in {"ledger", "result"}
        /\ UNCHANGED <<stepVars, stepRecord, index, current, shown, unacked, stepSnap>>
    BY <1>11 DEF RunProjections, WriteLedger, stepVars, durable
  <2>2. Quiet'
    BY <1>c, <2>1 DEF Quiet
  <2> QED
    BY <1>c, <1>i, <1>r, <2>1, <2>2, KeptBetween
<1>12. CASE ProjectionRaises \/ WriteFlowResult
  <2>1. /\ NotRunning /\ flowPhase \in {"stopping", "result"}
        /\ UNCHANGED <<file, stepRecord, callResult, lockFile, phase>>
    BY <1>12 DEF ProjectionRaises, WriteFlowResult, stepVars, durable, process
  <2> QED
    BY <1>c, <1>i, <2>1, KeptAtTheEnd
<1>13. CASE Die
  <2>1. NotRunning /\ flowPhase # "idle"
    BY <1>13 DEF Die
  <2>2. CASE Crash
    <3>1. /\ UNCHANGED <<file, stepRecord, callResult>> /\ phase' = "idle" /\ phase # "idle"
          /\ \/ lockFile' = lockFile
             \/ phase = "lock" /\ lockFile' = [lockFile EXCEPT ![call.key] = NoLock]
      BY <2>2 DEF Crash, Forget
    <3>2. call.key = KeyHere
      BY <1>c, <3>1 DEF CallNow
    <3>3. lockFile' # lockFile => \A k \in Keys \ {KeyHere} : lockFile'[k] = lockFile[k]
      BY <1>t, <3>1, <3>2 DEF FlowTyped, StepTyped, StepTypeOK
    <3> QED
      BY <1>c, <1>t, <2>1, <3>1, <3>3, KeptAtTheEnd
  <2>3. CASE phase = "idle" /\ UNCHANGED stepVars
    BY <1>c, <2>1, <2>3, KeptAtTheEnd DEF stepVars, durable, process
  <2> QED
    BY <1>13, <2>2, <2>3 DEF Die
<1>14. CASE UNCHANGED flowVars
  <2>1. UNCHANGED <<file, stepRecord, callResult, lockFile, phase, call, written, final,
                    outcome, flowPhase, index, current, shown, unacked, stepSnap>>
    BY <1>14 DEF flowVars, stepVars, durable, process, runVars
  <2>2. Quiet' /\ CallNow'
    BY <1>c, <2>1 DEF Quiet, CallNow, step, KeyHere, HashRefs
  <2>3. OwnOutputs'
    BY <1>c, <2>1 DEF Kept, OwnOutputs, Recorded, step, OfContract, KeyHere
  <2>4. Reached' = Reached /\ KeyHere' = KeyHere
    BY <2>1 DEF Reached, KeyHere
  <2>5. Path(rank)' /\ CompletedCurrent'
    BY <1>c, <2>1, <2>4, PathStands, CompletedStands DEF Kept
  <2>6. RunsLast'
    BY <1>c, <2>1, <2>4 DEF Kept, RunsLast, RecordedCompleted, Recorded
  <2>7. PassedCurrent'
    BY <1>c, <1>t, <2>1, <2>4, KeyHereShape, CurrentStands DEF PassedCurrent
  <2> QED
    BY <2>2, <2>3, <2>5, <2>6, <2>7 DEF Kept
<1> QED
  BY <1>1, <1>2, <1>3, <1>4, <1>5, <1>6, <1>7, <1>8, <1>9, <1>10, <1>11, <1>12, <1>13,
     <1>14, <1>c DEF FlowNext, FlowProgress

\* A step that completed for this context and these inputs is not run again,
\* wherever the execution before died, in a flow whose steps write files of their
\* own in the order of its routes and whose every execution resumes under the one
\* contract.  A loop breaks the order; an execution that does not resume, or that
\* comes with another contract, may overwrite outputs and die.
THEOREM CompletedWorkIsKept ==
  ASSUME NEW rank, InOrder(rank), SameContract
  PROVE  FlowSpec => CompletedStepsKept
<1> DEFINE Action ==
      phase = "check" /\ phase' = "lock" /\ call.resume
         /\ userEvents = {} /\ edits = 0
         => ~ (/\ Recorded(call.key)
               /\ stepRecord[call.key].status = "completed"
               /\ stepRecord[call.key].work.context = call.work.context
               /\ stepRecord[call.key].work.inputs = call.work.inputs)
<1>1. ASSUME KeptInvariant(rank), [FlowNext]_flowVars
      PROVE  Action
  <2> SUFFICES ASSUME phase = "check", phase' = "lock", userEvents = {}, edits = 0
               PROVE  ~RecordedCompleted(call.key)
    BY DEF RecordedCompleted
  <2>1. FlowTyped /\ Kept(rank)
    BY <1>1 DEF KeptInvariant, Calm
  <2>2. call.key = KeyHere /\ flowPhase # "idle"
    BY <2>1 DEF Kept, CallNow
  <2>3. MustRun
    <3>1. [StepNext]_stepVars
      BY <1>1, <2>1, FlowStepIsStep
    <3> QED
      BY <3>1 DEF StepNext, RunStep, Invoke, SkipCurrent, RaiseUnreadable, PrepareLock,
        RaiseNotInstalled, StartAttempt, WorkerWrite, FinishAttempt, AdapterRaises,
        OpenResult, WriteResult, OpenRecord, WriteRecord, Return, Crash, Forget,
        Environment, EditFile, ChangePackage, stepVars, process
  <2> QED
    BY <2>1, <2>2, <2>3, MustRunIsLast
<1>2. KeptInvariant(rank) /\ [FlowNext]_flowVars => [Action]_flowVars
  BY <1>1
<1> QED
  BY <1>2, KeptInitially, KeptNext, PTL DEF FlowSpec, CompletedStepsKept
=============================================================================
