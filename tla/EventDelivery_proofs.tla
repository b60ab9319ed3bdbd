------------------------ MODULE EventDelivery_proofs ------------------------
(***************************************************************************)
(* Theorems about what run_flow does with user events and with its own     *)
(* archive, for every value of the constants: executions only add to what  *)
(* earlier ones left, a request to stop is obeyed, and the interaction     *)
(* files implement EventDelivery.                                          *)
(***************************************************************************)
EXTENDS KernelFlow_proofs, FiniteSetTheorems, WellFoundedInduction

\* An assumption that is cited is cited with what it says.
USE DEF StepsValid, FailurePoliciesValid, ArtifactsValid, ToolsetsValid,
        CompileContextsValid, UserEventsValid, ProjectionsValid, FlowValid

Here == <<run.execution, index>>

\* Every file of an execution lies in a directory that its id is counted from.
DirectoriesCounted ==
  /\ \A s \in DOMAIN snapshots : s[1] \in executions
  /\ DOMAIN ledgers \subseteq executions
  /\ DOMAIN results \subseteq executions
  /\ flowPhase = "result" => run.execution \in executions

\* A running execution has not yet written what it is going to write.
NothingAhead ==
  flowPhase # "idle" =>
    /\ run.execution \notin DOMAIN results
    /\ flowPhase # "result" => run.execution \notin DOMAIN ledgers
    /\ \A s \in DOMAIN snapshots : s[1] = run.execution => s[2] <= index
    /\ flowPhase \in {"safe_point", "projecting"} => Here \notin DOMAIN snapshots

ArchiveInvariant == FlowTyped /\ DirectoriesCounted /\ NothingAhead

\* A snapshot shows submitted events.
ShownSubmitted == \A s \in DOMAIN snapshots : snapshots[s] \subseteq userEvents

\* The first read of a safe point holds pending events, and the second one read
\* them again.
ReadPendingHolds ==
  /\ flowPhase \in {"projecting", "ready", "step"} =>
       shown \subseteq Pending(current)
  /\ flowPhase = "acking" =>
       unacked \subseteq Pending(current)

\* What is left to acknowledge was shown to the step and asks for no stop.
ToAcknowledgeShown ==
  /\ flowPhase \in {"ready", "step"} /\ shown # {} =>
       /\ stepSnap \in DOMAIN snapshots
       /\ shown \subseteq snapshots[stepSnap]
       /\ ~StopRequested
  /\ flowPhase = "acking" /\ unacked # {} =>
       /\ stepSnap \in DOMAIN snapshots
       /\ unacked \subseteq snapshots[stepSnap]
       /\ \A e \in unacked : ~Stops(e)

\* Nobody acknowledges a request to stop.
RequestsKept == \A e \in Acknowledged : ~Stops(e)

StopsFlow(s) == \E e \in snapshots[s] : Stops(e) /\ Target[e] = "flow"

\* A request that an earlier safe point projected is read at this one, and no
\* step is called after such a read.
RequestsRead ==
  /\ flowPhase = "projecting" =>
       \A s \in DOMAIN snapshots : \A e \in snapshots[s] :
         Stops(e) /\ Target[e] = "flow" => e \in shown
  /\ flowPhase \in {"ready", "step"} =>
       \A s \in DOMAIN snapshots : StopsFlow(s) => s = Here

DeliveryInvariant ==
  /\ ArchiveInvariant
  /\ ShownSubmitted
  /\ ReadPendingHolds
  /\ ToAcknowledgeShown
  /\ RequestsKept
  /\ RequestsRead

----------------------------------------------------------------------------
\* A nonempty set of execution ids has a last one.
LEMMA LastExecution ==
  ASSUME NEW ids \in SUBSET Executions, ids # {}
  PROVE  \E last \in ids : \A other \in ids : other <= last
<1> DEFINE less == OpToRel(<, Nat)
           left == {MaxExecutions - id : id \in ids}
<1>1. MaxExecutions \in Nat /\ ids \subseteq 1..MaxExecutions
  BY FlowDeclarations DEF Executions
<1>2. left \subseteq Nat /\ left # {}
  <2>1. \A id \in ids : MaxExecutions - id \in Nat
    BY <1>1
  <2>2. left \subseteq Nat
    BY <2>1
  <2>3. PICK id \in ids : TRUE
    OBVIOUS
  <2>4. MaxExecutions - id \in left
    BY <2>3
  <2> QED
    BY <2>2, <2>4
<1>3. PICK n \in left : \A m \in left : <<m, n>> \notin less
  <2> HIDE DEF less, left
  <2>1. IsWellFoundedOn(less, Nat)
    BY NatLessThanWellFounded DEF less
  <2> QED
    BY <1>2, <2>1, WFMin
<1>4. \A m \in left : ~(m < n)
  <2> SUFFICES ASSUME NEW m \in left, m < n PROVE FALSE
    OBVIOUS
  <2>1. m \in Nat /\ n \in Nat
    BY <1>2, <1>3
  <2>2. <<m, n>> \in {ss \in Nat \X Nat : ss[1] < ss[2]}
    BY <2>1
  <2>3. <<m, n>> \in less
    BY <2>2 DEF OpToRel
  <2> QED
    BY <1>3, <2>3
<1>5. PICK last \in ids : n = MaxExecutions - last
  BY <1>3
<1>6. \A other \in ids : other <= last
  <2> SUFFICES ASSUME NEW other \in ids PROVE other <= last
    OBVIOUS
  <2>1. ~(MaxExecutions - other < MaxExecutions - last)
    BY <1>4, <1>5
  <2> QED
    BY <1>1, <2>1
<1> QED
  BY <1>6

\* The id of the next execution is not taken.
LEMMA NextExecutionFresh ==
  ASSUME executions \subseteq Executions
  PROVE  NextExecution \notin executions
<1>1. CASE executions = {}
  BY <1>1
<1>2. CASE executions # {}
  <2> DEFINE last == CHOOSE e \in executions : \A other \in executions : other <= e
  <2>1. last \in executions /\ \A other \in executions : other <= last
    BY <1>2, LastExecution
  <2>2. NextExecution = 1 + last
    BY <1>2 DEF NextExecution, After
  <2>3. last \in Nat
    BY <2>1, ShapeOfFlow
  <2> HIDE DEF last
  <2>4. ~(1 + last <= last)
    BY <2>3
  <2> QED
    BY <2>1, <2>2, <2>4
<1> QED
  BY <1>1, <1>2

LEMMA ArchiveInvariantInit == FlowInit => ArchiveInvariant
BY FlowTypedInit
  DEF FlowInit, PortInit, ArchiveInvariant, DirectoriesCounted, NothingAhead

LEMMA ArchiveInvariantNext ==
  ArchiveInvariant /\ [FlowNext]_flowVars => ArchiveInvariant'
<1> SUFFICES ASSUME ArchiveInvariant, [FlowNext]_flowVars
             PROVE  ArchiveInvariant'
  OBVIOUS
<1>t. FlowTyped /\ FlowTyped'
  BY FlowTypedNext DEF ArchiveInvariant
<1>i. /\ index \in Nat /\ executions \subseteq Executions
      /\ DOMAIN snapshots \subseteq Executions \X Positions
      /\ Positions \subseteq Nat
  BY <1>t, FlowDeclarations, ShapeOfFlow DEF FlowTyped, FlowTypeOK, PortTypeOK
<1> DEFINE Rest == DirectoriesCounted /\ NothingAhead
<1> SUFFICES Rest'
  BY <1>t DEF ArchiveInvariant
<1>0. Rest
  BY DEF ArchiveInvariant
<1> USE <1>0
<1>1. CASE \/ UNCHANGED flowVars \/ InStep \/ Host \/ User
  BY <1>1 DEF flowVars, portVars, runVars, archive, InStep, Host, User,
              SubmitUserEvent, DirectoriesCounted, NothingAhead, Here
<1>2. ASSUME NEW context \in Contexts, NEW resume \in ResumeModes,
             StartFlow(context, resume)
      PROVE  Rest'
  <2>1. NextExecution \notin executions
    BY <1>i, NextExecutionFresh
  <2> QED
    BY <1>2, <2>1
      DEF StartFlow, portVars, archive, DirectoriesCounted, NothingAhead, Here
<1>3. CASE ReadPending \/ CallStep \/ StepReturned \/ AcknowledgedAll
  BY <1>3
    DEF ReadPending, CallStep, StepReturned, AcknowledgedAll, portVars, archive,
        DirectoriesCounted, NothingAhead, Here
<1>4. CASE ProjectPending
  <2>1. /\ DOMAIN snapshots' = DOMAIN snapshots \cup {Here}
        /\ executions' = executions \cup {run.execution}
    BY <1>4 DEF ProjectPending, WritePendingProjection, Here
  <2> QED
    BY <1>4, <1>i, <2>1 DEF ProjectPending, DirectoriesCounted, NothingAhead, Here
<1>5. ASSUME NEW event \in Events, AcknowledgeOne(event)
      PROVE  Rest'
  BY <1>5 DEF AcknowledgeOne, Acknowledge, archive, DirectoriesCounted, NothingAhead
<1>6. CASE Route
  <2>1. CASE flowPhase' = "stopping"
    BY <1>6, <2>1
      DEF Route, StopFlow, GoTo, portVars, archive, DirectoriesCounted, NothingAhead
  <2>2. CASE flowPhase' = "safe_point"
    <3>1. index' = index + 1 /\ flowPhase = "routing"
      BY <1>6, <2>2 DEF Route, StopFlow, GoTo, NextIndex
    <3>2. ASSUME NEW s \in DOMAIN snapshots, s[1] = run.execution
          PROVE  s[2] <= index' /\ s[2] # index'
      <4>1. s[2] \in Nat
        BY <1>i
      <4>2. s[2] <= index
        BY <3>1, <3>2 DEF NothingAhead
      <4> QED
        BY <1>i, <3>1, <4>1, <4>2
    <3>3. Here' \notin DOMAIN snapshots
      <4>1. run' = run
        BY <1>6 DEF Route
      <4>2. Here'[1] = run.execution /\ Here'[2] = index'
        BY <4>1 DEF Here
      <4> QED
        BY <3>2, <4>2
    <3>4. \A s \in DOMAIN snapshots : s[1] = run.execution => s[2] <= index'
      BY <3>2
    <3> QED
      BY <1>6, <2>2, <3>1, <3>3, <3>4
        DEF Route, portVars, archive, DirectoriesCounted, NothingAhead
  <2> QED
    BY <1>6, <2>1, <2>2 DEF Route, StopFlow, GoTo
<1>7. CASE RunProjections
  BY <1>7 DEF RunProjections, portVars, DirectoriesCounted, NothingAhead
<1>8. CASE StepRaised \/ ProjectionRaises \/ Die
  BY <1>8 DEF StepRaised, ProjectionRaises, Die, NotRunning, portVars, archive,
              DirectoriesCounted, NothingAhead
<1>9. CASE WriteLedger
  BY <1>9 DEF WriteLedger, Archived, portVars, DirectoriesCounted, NothingAhead
<1>10. CASE WriteFlowResult
  <2>1. run.execution \in executions
    BY <1>10 DEF WriteFlowResult, DirectoriesCounted
  <2> QED
    BY <1>10, <2>1
      DEF WriteFlowResult, Archived, NotRunning, portVars, DirectoriesCounted,
          NothingAhead
<1> QED
  BY <1>1, <1>2, <1>3, <1>4, <1>5, <1>6, <1>7, <1>8, <1>9, <1>10
    DEF FlowNext, FlowProgress

\* What an execution has put in its directory, no later one changes.
THEOREM ExecutionsOnlyAdd == FlowSpec => ExecutionsAppendOnly
<1>1. ArchiveInvariant /\ [FlowNext]_flowVars =>
        [/\ \A e \in DOMAIN ledgers : e \in DOMAIN ledgers' /\ ledgers'[e] = ledgers[e]
         /\ \A e \in DOMAIN results : e \in DOMAIN results' /\ results'[e] = results[e]
         /\ \A s \in DOMAIN snapshots :
              s \in DOMAIN snapshots' /\ snapshots'[s] = snapshots[s]]_flowVars
  <2> SUFFICES ASSUME ArchiveInvariant, FlowNext
               PROVE  /\ \A e \in DOMAIN ledgers :
                           e \in DOMAIN ledgers' /\ ledgers'[e] = ledgers[e]
                      /\ \A e \in DOMAIN results :
                           e \in DOMAIN results' /\ results'[e] = results[e]
                      /\ \A s \in DOMAIN snapshots :
                           s \in DOMAIN snapshots' /\ snapshots'[s] = snapshots[s]
    OBVIOUS
  <2>1. CASE UNCHANGED <<ledgers, results, snapshots>>
    BY <2>1
  <2>2. CASE ProjectPending
    <3>1. Here \notin DOMAIN snapshots
      BY <2>2 DEF ProjectPending, ArchiveInvariant, NothingAhead
    <3> QED
      BY <2>2, <3>1 DEF ProjectPending, WritePendingProjection, Here
  <2>3. CASE WriteLedger
    <3>1. run.execution \notin DOMAIN ledgers
      BY <2>3 DEF WriteLedger, ArchiveInvariant, NothingAhead
    <3> QED
      BY <2>3, <3>1 DEF WriteLedger, Archived, portVars
  <2>4. CASE WriteFlowResult
    <3>1. run.execution \notin DOMAIN results
      BY <2>4 DEF WriteFlowResult, ArchiveInvariant, NothingAhead
    <3> QED
      BY <2>4, <3>1 DEF WriteFlowResult, Archived, portVars
  <2>5. \/ UNCHANGED <<ledgers, results, snapshots>>
        \/ ProjectPending \/ WriteLedger \/ WriteFlowResult
    BY DEF FlowNext, FlowProgress, StartFlow, ReadPending, CallStep, InStep,
           StepReturned, StepRaised, AcknowledgeOne, Acknowledge, AcknowledgedAll,
           Route, RunProjections, ProjectionRaises, Die, Host, User, SubmitUserEvent,
           portVars, archive
  <2> QED
    BY <2>1, <2>2, <2>3, <2>4, <2>5
<1> QED
  BY <1>1, ArchiveInvariantInit, ArchiveInvariantNext, PTL
    DEF FlowSpec, ExecutionsAppendOnly

----------------------------------------------------------------------------
LEMMA DeliveryInvariantInit == FlowInit => DeliveryInvariant
BY ArchiveInvariantInit
  DEF FlowInit, PortInit, DeliveryInvariant, ShownSubmitted, ReadPendingHolds,
      ToAcknowledgeShown, RequestsKept, RequestsRead, Acknowledged

\* An event that asks a flow to stop stays pending at every step once submitted.
LEMMA RequestPending ==
  ASSUME ShownSubmitted, RequestsKept,
         NEW s \in DOMAIN snapshots, NEW e \in snapshots[s], NEW target,
         Stops(e), Target[e] = "flow"
  PROVE  e \in Pending(target)
BY DEF ShownSubmitted, RequestsKept, Pending

LEMMA DeliveryInvariantNext ==
  DeliveryInvariant /\ [FlowNext]_flowVars => DeliveryInvariant'
<1> SUFFICES ASSUME DeliveryInvariant, [FlowNext]_flowVars
             PROVE  DeliveryInvariant'
  OBVIOUS
<1>t. /\ ArchiveInvariant /\ ArchiveInvariant'
      /\ FlowTypeOK
  BY ArchiveInvariantNext DEF DeliveryInvariant, ArchiveInvariant, FlowTyped
<1> DEFINE Rest == /\ ShownSubmitted /\ ReadPendingHolds /\ ToAcknowledgeShown
                   /\ RequestsKept /\ RequestsRead
<1> SUFFICES Rest'
  BY <1>t DEF DeliveryInvariant
<1>0. Rest
  BY DEF DeliveryInvariant
<1> USE <1>0
<1> USE DEF ShownSubmitted, RequestsKept
<1>1. CASE UNCHANGED flowVars \/ InStep \/ Host
  BY <1>1 DEF flowVars, portVars, runVars, archive, InStep, Host, ReadPendingHolds,
              Pending, Acknowledged, ToAcknowledgeShown, StopRequested, RequestsRead,
              StopsFlow, Here
<1>2. CASE User
  BY <1>2 DEF User, SubmitUserEvent, runVars, archive, ReadPendingHolds, Pending,
              Acknowledged, ToAcknowledgeShown, StopRequested, RequestsRead, StopsFlow,
              Here
<1>3. ASSUME NEW context \in Contexts, NEW resume \in ResumeModes,
             StartFlow(context, resume)
      PROVE  Rest'
  BY <1>3 DEF StartFlow, portVars, Acknowledged, ReadPendingHolds,
              ToAcknowledgeShown, RequestsRead
<1>4. CASE ReadPending
  <2>1. UNCHANGED <<portVars, run, index, current>> /\ shown' = Pending(current)
    BY <1>4 DEF ReadPending
  <2>2. ReadPendingHolds'
    BY <1>4, <2>1 DEF ReadPending, ReadPendingHolds, Pending, Acknowledged, portVars
  <2>3. ToAcknowledgeShown'
    BY <1>4 DEF ReadPending, ToAcknowledgeShown
  <2>4. \A s \in DOMAIN snapshots : \A e \in snapshots[s] :
          Stops(e) /\ Target[e] = "flow" => e \in shown'
    BY <2>1, RequestPending
  <2>5. RequestsRead'
    BY <1>4, <2>1, <2>4 DEF ReadPending, RequestsRead, StopsFlow, portVars
  <2> QED
    BY <2>1, <2>2, <2>3, <2>5 DEF portVars, Acknowledged
<1>5. CASE ProjectPending
  <2>1. /\ snapshots' = [s \in DOMAIN snapshots \cup {Here} |->
                           IF s = Here THEN Pending(current) ELSE snapshots[s]]
        /\ stepSnap' = Here
        /\ UNCHANGED <<userEvents, acks, shown, run, index, current, unacked>>
    BY <1>5 DEF ProjectPending, WritePendingProjection, Here
  <2>2. shown \subseteq Pending(current)
    BY <1>5 DEF ProjectPending, ReadPendingHolds
  <2>3. ShownSubmitted'
    BY <2>1 DEF Pending
  <2>4. ReadPendingHolds'
    BY <1>5, <2>1, <2>2
      DEF ProjectPending, ReadPendingHolds, Pending, Acknowledged
  <2>5. ToAcknowledgeShown'
    BY <1>5, <2>1, <2>2 DEF ProjectPending, ToAcknowledgeShown, StopRequested
  <2>6. RequestsRead'
    <3> SUFFICES ASSUME flowPhase' = "ready",
                        NEW s \in DOMAIN snapshots', StopsFlow(s)'
                 PROVE  s = Here'
      BY <1>5 DEF ProjectPending, RequestsRead
    <3>1. CASE s \in DOMAIN snapshots /\ s # Here
      <4>1. PICK e \in snapshots[s] : Stops(e) /\ Target[e] = "flow"
        BY <2>1, <3>1 DEF StopsFlow
      <4>2. e \in shown
        BY <1>5, <3>1, <4>1 DEF ProjectPending, RequestsRead
      <4>3. ~StopRequested
        BY <1>5 DEF ProjectPending
      <4> QED
        BY <4>1, <4>2, <4>3 DEF StopRequested
    <3>2. CASE s = Here
      BY <2>1, <3>2 DEF Here
    <3> QED
      BY <2>1, <3>1, <3>2
  <2> QED
    BY <2>1, <2>3, <2>4, <2>5, <2>6 DEF Acknowledged
<1>6. CASE CallStep
  BY <1>6 DEF CallStep, portVars, archive, ReadPendingHolds, Pending, Acknowledged,
              ToAcknowledgeShown, StopRequested, RequestsRead, StopsFlow, Here
<1>7. CASE StepReturned
  <2>1. UNCHANGED <<portVars, current, stepSnap>>
    BY <1>7 DEF StepReturned
  <2>2. flowPhase' = "acking" => unacked' = shown
    BY <1>7 DEF StepReturned, ToAcknowledge
  <2>3. ReadPendingHolds' /\ ToAcknowledgeShown'
    BY <1>7, <2>1, <2>2
      DEF StepReturned, portVars, ReadPendingHolds, Pending, Acknowledged,
          ToAcknowledgeShown, StopRequested
  <2> QED
    BY <1>7, <2>1, <2>3 DEF StepReturned, portVars, RequestsRead, Acknowledged
<1>8. CASE StepRaised \/ ProjectionRaises \/ WriteFlowResult \/ Die
  BY <1>8 DEF StepRaised, ProjectionRaises, WriteFlowResult, Die, NotRunning, portVars,
              ReadPendingHolds, Acknowledged, ToAcknowledgeShown, RequestsRead
<1>9. ASSUME NEW event \in Events, AcknowledgeOne(event)
      PROVE  Rest'
  <2>a. /\ UNCHANGED <<userEvents, snapshots, flowPhase, run, index, current, shown,
                       stepSnap>>
        /\ unacked' = unacked \ {event}
        /\ flowPhase = "acking" /\ event \in unacked
    BY <1>9 DEF AcknowledgeOne, Acknowledge
  <2>b. Acknowledged' = Acknowledged \cup {event}
    <3> DEFINE new == [event |-> event, snap |-> stepSnap, key |-> <<index, current>>]
    <3>1. acks' = acks \cup {new} /\ new.event = event
      BY <1>9 DEF AcknowledgeOne, Acknowledge
    <3> HIDE DEF new
    <3> QED
      BY <3>1 DEF Acknowledged
  <2>1. /\ UNCHANGED <<userEvents, snapshots, flowPhase, run, index, current, shown,
                       stepSnap>>
        /\ unacked' = unacked \ {event}
        /\ Acknowledged' = Acknowledged \cup {event}
        /\ flowPhase = "acking" /\ event \in unacked
    BY <2>a, <2>b
  <2>2. ~Stops(event)
    BY <2>1 DEF ToAcknowledgeShown
  <2>3. RequestsKept'
    BY <2>1, <2>2
  <2>4. ReadPendingHolds'
    BY <2>1 DEF ReadPendingHolds, Pending
  <2>5. ToAcknowledgeShown'
    BY <2>1 DEF ToAcknowledgeShown
  <2> QED
    BY <2>1, <2>3, <2>4, <2>5 DEF RequestsRead
<1>10. CASE AcknowledgedAll \/ Route \/ RunProjections \/ WriteLedger
  BY <1>10 DEF AcknowledgedAll, Route, StopFlow, GoTo, RunProjections, WriteLedger,
               portVars, archive, ReadPendingHolds, Acknowledged, ToAcknowledgeShown,
               RequestsRead
<1> QED
  BY <1>1, <1>2, <1>3, <1>4, <1>5, <1>6, <1>7, <1>8, <1>9, <1>10
    DEF FlowNext, FlowProgress

\* A step is never called once an earlier safe point has projected a request to
\* stop the flow.
THEOREM StopsAreObeyed == FlowSpec => []StopWithinOneStep
<1>1. DeliveryInvariant => StopWithinOneStep
  <2> SUFFICES ASSUME DeliveryInvariant, flowPhase = "step",
                      NEW s \in DOMAIN snapshots, NEW e \in snapshots[s],
                      Stops(e), Target[e] = "flow"
               PROVE  ~ Earlier(s, <<run.execution, index>>)
    BY DEF StopWithinOneStep
  <2>1. s = <<run.execution, index>>
    BY DEF DeliveryInvariant, RequestsRead, StopsFlow, Here
  <2>2. run.execution \in Nat /\ index \in Nat
    BY FlowDeclarations, ShapeOfFlow
      DEF DeliveryInvariant, ArchiveInvariant, FlowTyped, RunKnown, FlowTypeOK
  <2> QED
    BY <2>1, <2>2 DEF Earlier
<1> QED
  BY <1>1, DeliveryInvariantInit, DeliveryInvariantNext, PTL DEF FlowSpec

----------------------------------------------------------------------------
(***************************************************************************)
(* The refinement of EventDelivery.  Three actions of the flow matter:     *)
(* User submits, ProjectPending shows, AcknowledgeOne consumes.            *)
(***************************************************************************)
AcksOf(event) == {ack \in acks : ack.event = event}

Consumed == [e \in Events |-> Cardinality(AcksOf(e))]

Shown == UNION {snapshots[s] : s \in DOMAIN snapshots}

\* An event nothing has acknowledged counts as consumed no time.
LEMMA PendingUnconsumed ==
  ASSUME NEW e \in Events, e \notin Acknowledged
  PROVE  AcksOf(e) = {} /\ Consumed[e] = 0
<1>1. AcksOf(e) = {}
  BY DEF AcksOf, Acknowledged
<1> QED
  BY <1>1, FS_EmptySet DEF Consumed

LEMMA DeliveryStep ==
  DeliveryInvariant /\ [FlowNext]_flowVars =>
    [Delivered!DeliveryNext]_(Delivered!deliveryVars)
<1> SUFFICES ASSUME DeliveryInvariant, [FlowNext]_flowVars
             PROVE  [Delivered!DeliveryNext]_(Delivered!deliveryVars)
  OBVIOUS
<1>1. CASE UNCHANGED portVars
  BY <1>1 DEF portVars, Delivered!deliveryVars
<1>2. ASSUME NEW event \in Events, SubmitUserEvent(event)
      PROVE  Delivered!DeliveryNext
  <2>1. Delivered!Submit(event)
    BY <1>2 DEF SubmitUserEvent, Delivered!Submit
  <2> QED
    BY <2>1 DEF Delivered!DeliveryNext
<1>3. CASE ProjectPending
  <2>1. Here \notin DOMAIN snapshots
    BY <1>3 DEF ProjectPending, DeliveryInvariant, ArchiveInvariant, NothingAhead
  <2>2. /\ snapshots' = [s \in DOMAIN snapshots \cup {Here} |->
                           IF s = Here THEN Pending(current) ELSE snapshots[s]]
        /\ UNCHANGED <<userEvents, acks>>
    BY <1>3 DEF ProjectPending, WritePendingProjection, Here
  <2>3. Shown' = Shown \cup Pending(current)
    BY <2>1, <2>2 DEF Shown
  <2>4. \A e \in Pending(current) : e \in userEvents /\ e \in Events /\ Consumed[e] = 0
    BY PendingUnconsumed
      DEF Pending, DeliveryInvariant, ArchiveInvariant, FlowTyped, FlowTypeOK, PortTypeOK
  <2>5. PICK events \in SUBSET Events : events = Pending(current)
    BY <2>4
  <2>6. Delivered!Show(events)
    BY <2>2, <2>3, <2>4, <2>5 DEF Delivered!Show, Shown, Consumed, AcksOf
  <2> QED
    BY <2>5, <2>6 DEF Delivered!DeliveryNext
<1>4. ASSUME NEW event \in Events, AcknowledgeOne(event)
      PROVE  Delivered!DeliveryNext
  <2> DEFINE new == [event |-> event, snap |-> stepSnap, key |-> <<index, current>>]
  <2>1. /\ event \in unacked /\ flowPhase = "acking"
        /\ acks' = acks \cup {new}
        /\ UNCHANGED <<userEvents, snapshots>>
    BY <1>4 DEF AcknowledgeOne, Acknowledge
  <2>2. event \in Shown /\ ~Stops(event) /\ event \notin Acknowledged
    BY <2>1 DEF DeliveryInvariant, ToAcknowledgeShown, ReadPendingHolds, Pending, Shown
  <2>3. Consumed[event] = 0
    BY <2>2, PendingUnconsumed
  <2>4. Consumed' = [Consumed EXCEPT ![event] = 1]
    <3>1. AcksOf(event)' = {new}
      BY <2>1, <2>2, PendingUnconsumed DEF AcksOf
    <3>2. Cardinality(AcksOf(event)') = 1
      BY <3>1, FS_Singleton
    <3>3. \A e \in Events \ {event} : AcksOf(e)' = AcksOf(e)
      BY <2>1 DEF AcksOf
    <3> QED
      BY <3>2, <3>3 DEF Consumed
  <2>5. Delivered!Consume(event)
    BY <2>1, <2>2, <2>3, <2>4 DEF Delivered!Consume, Shown, Consumed, AcksOf
  <2> QED
    BY <2>5 DEF Delivered!DeliveryNext
<1>5. \/ UNCHANGED portVars
      \/ \E event \in Events : SubmitUserEvent(event)
      \/ ProjectPending
      \/ \E event \in Events : AcknowledgeOne(event)
  BY DEF FlowNext, FlowProgress, flowVars, StartFlow, ReadPending, CallStep, InStep,
         StepReturned, StepRaised, AcknowledgedAll, Route, RunProjections,
         ProjectionRaises, WriteLedger, WriteFlowResult, Die, Host, User
<1> QED
  BY <1>1, <1>2, <1>3, <1>4, <1>5

\* What the two JSONL files and the snapshots hold is what a user is promised,
\* wherever an execution dies: an event is shown only while it is pending, and
\* consumed at most once, after it was shown, and never if it asks for a stop.
THEOREM FlowImplementsDelivery == FlowSpec => ImplementsDelivery
<1>1. FlowInit => Delivered!DeliveryInit
  <2> SUFFICES ASSUME FlowInit PROVE Delivered!DeliveryInit
    OBVIOUS
  <2>1. userEvents = {} /\ acks = {} /\ snapshots = <<>>
    BY DEF FlowInit, PortInit
  <2>2. \A e \in Events : Cardinality({ack \in acks : ack.event = e}) = 0
    BY <2>1, FS_EmptySet
  <2>3. UNION {snapshots[s] : s \in DOMAIN snapshots} = {}
    BY <2>1
  <2> QED
    BY <2>1, <2>2, <2>3 DEF Delivered!DeliveryInit
<1> QED
  BY <1>1, DeliveryInvariantInit, DeliveryInvariantNext, DeliveryStep, PTL
    DEF FlowSpec, ImplementsDelivery, Delivered!DeliverySpec
----------------------------------------------------------------------------
(***************************************************************************)
(* Who acknowledges.  A snapshot is written anew at every safe point that  *)
(* has events, so no record carries it before its own step is recorded     *)
(* (SnapUnrecorded); the step is therefore not skipped, and when it comes  *)
(* back completed it has left its record (DoneRecorded), which is there    *)
(* while its events are acknowledged (AckRecorded).                        *)
(***************************************************************************)
RecordedSnaps ==
  \A k \in Keys : Recorded(k) /\ stepRecord[k].work.snap # NoSnapshot =>
    stepRecord[k].work.snap \in DOMAIN snapshots

SnapOfTurn ==
  flowPhase \in {"ready", "step"} => stepSnap \in DOMAIN snapshots \cup {NoSnapshot}

CallOfSnap ==
  phase # "idle" =>
    flowPhase = "step" /\ call.key = <<index, current>> /\ call.work.snap = stepSnap

SnapUnrecorded ==
  flowPhase \in {"ready", "step"} /\ phase # "done" /\ stepSnap # NoSnapshot =>
    \A k \in Keys : Recorded(k) => stepRecord[k].work.snap # stepSnap

RecordedHere ==
  /\ Recorded(<<index, current>>)
  /\ stepRecord[<<index, current>>].status = "completed"
  /\ stepRecord[<<index, current>>].work.snap = stepSnap

DoneRecorded ==
  phase = "done" /\ stepSnap # NoSnapshot /\ Continues(outcome.status) => RecordedHere

AckRecorded == flowPhase = "acking" /\ unacked # {} => RecordedHere

AckInvariant ==
  /\ DeliveryInvariant
  /\ RecordedSnaps /\ SnapOfTurn /\ CallOfSnap
  /\ SnapUnrecorded /\ DoneRecorded /\ AckRecorded

LEMMA AckInvariantInit == FlowInit => AckInvariant
BY DeliveryInvariantInit
  DEF FlowInit, StepInit, AckInvariant, RecordedSnaps, SnapOfTurn, CallOfSnap,
      SnapUnrecorded, DoneRecorded, AckRecorded, Recorded

\* run_step touches the record of its call, and no other, in two steps.
LEMMA RunStepRecords ==
  ASSUME StepTyped, RunStep
  PROVE  /\ phase # "idle" /\ phase # "done"
         /\ call'.work = call.work /\ call'.key = call.key
         /\ stepRecord' = stepRecord \/ OpenRecord \/ WriteRecord
         /\ phase' # "done" \/ SkipCurrent \/ WriteRecord
         /\ phase' # "idle"
<1>1. call'.work = call.work
  BY RunStepKeepsCall
<1>2. call'.key = call.key
  <2>1. PrepareLock => call'.key = call.key
    BY DEF PrepareLock, StepTyped, Busy, Calls
  <2> QED
    BY <2>1 DEF RunStep, SkipCurrent, RaiseUnreadable, MustRun, RaiseNotInstalled,
      StartAttempt, WorkerWrite, FinishAttempt, AdapterRaises, OpenResult, WriteResult,
      OpenRecord, WriteRecord
<1>3. stepRecord' = stepRecord \/ OpenRecord \/ WriteRecord
  BY DEF RunStep, SkipCurrent, RaiseUnreadable, MustRun, PrepareLock, RaiseNotInstalled,
    StartAttempt, WorkerWrite, FinishAttempt, AdapterRaises, OpenResult, WriteResult, durable
<1>4. phase # "idle" /\ phase # "done" /\ phase' # "idle"
  BY DEF RunStep, SkipCurrent, RaiseUnreadable, MustRun, PrepareLock, RaiseNotInstalled,
    StartAttempt, WorkerWrite, FinishAttempt, AdapterRaises, OpenResult, WriteResult,
    OpenRecord, WriteRecord
<1>5. phase' # "done" \/ SkipCurrent \/ WriteRecord
  BY DEF RunStep, RaiseUnreadable, MustRun, PrepareLock, RaiseNotInstalled,
    StartAttempt, WorkerWrite, FinishAttempt, AdapterRaises, OpenResult, WriteResult,
    OpenRecord
<1> QED
  BY <1>1, <1>2, <1>3, <1>4, <1>5

\* A step of run_step inside a flow.
LEMMA InStepAcks ==
  ASSUME AckInvariant, InStep
  PROVE  /\ RecordedSnaps' /\ SnapOfTurn' /\ CallOfSnap'
         /\ SnapUnrecorded' /\ DoneRecorded' /\ AckRecorded'
<1>1. StepTyped /\ FlowTypeOK
  BY DEF AckInvariant, DeliveryInvariant, ArchiveInvariant, FlowTyped
<1>2. /\ RunStep /\ flowPhase = "step"
      /\ UNCHANGED <<flowPhase, run, index, current, stepSnap, unacked, snapshots>>
  BY DEF InStep, portVars, runVars
<1>3. /\ phase # "idle" /\ phase # "done" /\ phase' # "idle"
      /\ call'.work = call.work /\ call'.key = call.key
      /\ stepRecord' = stepRecord \/ OpenRecord \/ WriteRecord
      /\ phase' # "done" \/ SkipCurrent \/ WriteRecord
  BY <1>1, <1>2, RunStepRecords
<1>4. /\ call \in Calls /\ call.key \in Keys
      /\ call.key = <<index, current>> /\ call.work.snap = stepSnap
  BY <1>1, <1>3 DEF AckInvariant, CallOfSnap, StepTyped, Busy, Calls
<1>5. SnapOfTurn' /\ CallOfSnap' /\ AckRecorded'
  BY <1>2, <1>3, <1>4 DEF AckInvariant, SnapOfTurn, CallOfSnap, AckRecorded
<1>6. stepSnap # NoSnapshot => \A k \in Keys : Recorded(k) => stepRecord[k].work.snap # stepSnap
  BY <1>2, <1>3 DEF AckInvariant, SnapUnrecorded
<1>7. CASE stepRecord' = stepRecord /\ ~ WriteRecord
  <2>1. RecordedSnaps' /\ SnapUnrecorded'
    BY <1>2, <1>6, <1>7 DEF AckInvariant, RecordedSnaps, SnapUnrecorded, Recorded
  <2>2. SkipCurrent => stepSnap = NoSnapshot
    <3> SUFFICES ASSUME SkipCurrent PROVE stepSnap = NoSnapshot
      OBVIOUS
    <3>1. Recorded(call.key) /\ stepRecord[call.key].work = call.work
      BY DEF SkipCurrent, HasCurrentRecord, Current, Recorded
    <3> QED
      BY <1>4, <1>6, <3>1
  <2>3. DoneRecorded'
    BY <1>2, <1>3, <1>7, <2>2 DEF DoneRecorded
  <2> QED BY <1>5, <2>1, <2>3
<1>8. CASE OpenRecord
  <2>1. /\ phase' # "done"
        /\ \A k \in Keys : Recorded(k)' => Recorded(k) /\ stepRecord'[k] = stepRecord[k]
    BY <1>1, <1>4, <1>8 DEF OpenRecord, Recorded, StepTyped, StepTypeOK
  <2> QED
    BY <1>2, <1>5, <1>6, <2>1
    DEF AckInvariant, RecordedSnaps, SnapUnrecorded, DoneRecorded
<1>9. CASE WriteRecord
  <2>1. stepRecord'[call.key] = RecordOfCall /\ phase' = "done"
        /\ outcome'.status = RecordOfCall.status
        /\ \A k \in Keys \ {call.key} : stepRecord'[k] = stepRecord[k]
    BY <1>1, <1>4, <1>9 DEF WriteRecord, StepTyped, StepTypeOK
  <2>2. RecordOfCall \in Records /\ RecordOfCall.work.snap = stepSnap
    BY <1>1, <1>4, <1>9, RecordOfCallType DEF WriteRecord, StepTyped, Busy, Saving, RecordOfCall
  <2>3. RecordOfCall.status # "skipped"
    <3>1. step \in Steps
      BY <1>1, <1>3, StepOfType DEF StepTyped, Busy, Calls
    <3> QED
      BY <3>1, StepDeclarations DEF RecordOfCall, StatusOfResult
  <2>4. RecordedSnaps'
    BY <1>2, <1>4, <2>1, <2>2 DEF AckInvariant, RecordedSnaps, SnapOfTurn, Recorded
  <2>5. DoneRecorded'
    BY <1>2, <1>4, <2>1, <2>2, <2>3, RecordDeclarations
    DEF DoneRecorded, RecordedHere, Recorded, Continues
  <2>6. SnapUnrecorded'
    BY <2>1 DEF SnapUnrecorded
  <2> QED BY <1>5, <2>4, <2>5, <2>6
<1> QED
  BY <1>3, <1>7, <1>8, <1>9

LEMMA AckInvariantNext ==
  AckInvariant /\ [FlowNext]_flowVars => AckInvariant'
<1> SUFFICES ASSUME AckInvariant, [FlowNext]_flowVars PROVE AckInvariant'
  OBVIOUS
<1>d. DeliveryInvariant /\ DeliveryInvariant'
  BY DeliveryInvariantNext DEF AckInvariant
<1>t. FlowTypeOK /\ StepTyped
  BY <1>d DEF DeliveryInvariant, ArchiveInvariant, FlowTyped
<1> DEFINE Rest == /\ RecordedSnaps /\ SnapOfTurn /\ CallOfSnap
                   /\ SnapUnrecorded /\ DoneRecorded /\ AckRecorded
<1> SUFFICES Rest'
  BY <1>d DEF AckInvariant
<1>0. Rest
  BY DEF AckInvariant
<1>1. CASE InStep
  BY <1>1, InStepAcks
\* Nothing is recorded, and no step is called or returns.
<1>2. ASSUME UNCHANGED <<stepRecord, snapshots>>, flowPhase' \notin {"ready", "step", "acking"},
             phase' = "idle"
      PROVE  Rest'
  BY <1>0, <1>2
  DEF RecordedSnaps, SnapOfTurn, CallOfSnap, SnapUnrecorded, DoneRecorded, AckRecorded, Recorded
<1>3. flowPhase # "step" => phase = "idle"
  BY <1>0 DEF CallOfSnap
<1>4. CASE \/ \E context \in Contexts, resume \in ResumeModes : StartFlow(context, resume)
           \/ AcknowledgedAll \/ Route \/ RunProjections \/ WriteLedger
  BY <1>2, <1>3, <1>4
  DEF StartFlow, AcknowledgedAll, Route, StopFlow, GoTo, RunProjections, WriteLedger,
      stepVars, durable, process, portVars
<1>5. CASE StepRaised \/ ProjectionRaises \/ WriteFlowResult \/ Die
  BY <1>2, <1>3, <1>5
  DEF StepRaised, ProjectionRaises, WriteFlowResult, Die, NotRunning, Return, Crash, Forget,
      stepVars, durable, process, portVars
<1>6. CASE ReadPending
  <2>1. /\ UNCHANGED <<stepRecord, snapshots, phase>> /\ phase = "idle"
        /\ stepSnap' = NoSnapshot /\ flowPhase' \in {"ready", "projecting"}
    BY <1>3, <1>6 DEF ReadPending, stepVars, durable, process, portVars
  <2> QED
    BY <1>0, <2>1
    DEF RecordedSnaps, SnapOfTurn, CallOfSnap, SnapUnrecorded, DoneRecorded, AckRecorded, Recorded
<1>7. CASE ProjectPending
  <2>1. /\ UNCHANGED <<stepRecord, phase>> /\ phase = "idle"
        /\ stepSnap' = Here /\ flowPhase' \in {"ready", "stopping"}
        /\ DOMAIN snapshots' = DOMAIN snapshots \cup {Here}
    BY <1>3, <1>7
    DEF ProjectPending, WritePendingProjection, Here, stepVars, durable, process
  <2>2. Here \notin DOMAIN snapshots
    BY <1>7, <1>d DEF ProjectPending, DeliveryInvariant, ArchiveInvariant, NothingAhead
  <2>3. \A k \in Keys : Recorded(k) /\ stepRecord[k].work.snap # NoSnapshot
          => stepRecord[k].work.snap \in DOMAIN snapshots
    BY <1>0 DEF RecordedSnaps
  <2> QED
    BY <2>1, <2>2, <2>3
    DEF RecordedSnaps, SnapOfTurn, CallOfSnap, SnapUnrecorded, DoneRecorded, AckRecorded, Recorded
<1>8. CASE CallStep
  <2>1. /\ UNCHANGED <<stepRecord, snapshots, stepSnap, index, current>>
        /\ phase' = "check" /\ phase = "idle" /\ flowPhase = "ready" /\ flowPhase' = "step"
        /\ call'.key = <<index, current>> /\ call'.work.snap = stepSnap
    BY <1>8 DEF CallStep, Invoke, durable, portVars
  <2> QED
    BY <1>0, <2>1
    DEF RecordedSnaps, SnapOfTurn, CallOfSnap, SnapUnrecorded, DoneRecorded, AckRecorded, Recorded
<1>9. CASE StepReturned
  <2>1. /\ UNCHANGED <<stepRecord, snapshots, stepSnap, index, current>>
        /\ phase = "done" /\ phase' = "idle" /\ flowPhase = "step"
        /\ flowPhase' \in {"acking", "stopping"}
        /\ flowPhase' = "acking" => unacked' = shown /\ Continues(outcome.status)
    BY <1>9 DEF StepReturned, Return, Forget, durable, portVars, ToAcknowledge
  <2>2. shown # {} => stepSnap # NoSnapshot
    BY <1>d, <1>t, <2>1, CallDeclarations
    DEF DeliveryInvariant, ToAcknowledgeShown, FlowTypeOK, PortTypeOK
  <2>3. AckRecorded'
    BY <1>0, <2>1, <2>2 DEF AckRecorded, DoneRecorded, RecordedHere, Recorded
  <2> QED
    BY <1>0, <2>1, <2>3
    DEF RecordedSnaps, SnapOfTurn, CallOfSnap, SnapUnrecorded, DoneRecorded, Recorded
<1>10. ASSUME NEW event \in Events, AcknowledgeOne(event) PROVE Rest'
  <2>1. /\ UNCHANGED <<stepRecord, snapshots, stepSnap, index, current, phase, flowPhase>>
        /\ flowPhase = "acking" /\ phase = "idle" /\ event \in unacked
    BY <1>3, <1>10 DEF AcknowledgeOne, Acknowledge, stepVars, durable, process
  <2> QED
    BY <1>0, <2>1
    DEF RecordedSnaps, SnapOfTurn, CallOfSnap, SnapUnrecorded, DoneRecorded, AckRecorded,
        RecordedHere, Recorded
<1>11. CASE Host \/ User \/ UNCHANGED flowVars
  <2>1. UNCHANGED <<stepRecord, snapshots, stepSnap, index, current, phase, call, outcome,
                    flowPhase, unacked>>
    BY <1>11 DEF Host, User, SubmitUserEvent, Environment, EditFile, ChangePackage,
      flowVars, stepVars, durable, process, portVars, runVars
  <2> QED
    BY <1>0, <2>1
    DEF RecordedSnaps, SnapOfTurn, CallOfSnap, SnapUnrecorded, DoneRecorded, AckRecorded,
        RecordedHere, Recorded
<1> QED
  BY <1>1, <1>4, <1>5, <1>6, <1>7, <1>8, <1>9, <1>10, <1>11 DEF FlowNext, FlowProgress

\* An event is acknowledged only with a completed record beside it, of a call
\* that carried a snapshot with the event: neither a failed nor a skipped step
\* consumes what its worker has not seen.
THEOREM AcknowledgedByItsStep == FlowSpec => AcknowledgedByCompletedStep
<1> DEFINE ByStep == \A ack \in acks' \ acks :
                       /\ Recorded(ack.key)
                       /\ stepRecord[ack.key].status = "completed"
                       /\ stepRecord[ack.key].work.snap = ack.snap
                       /\ ack.event \in snapshots[ack.snap]
<1>1. AckInvariant /\ [FlowNext]_flowVars => [ByStep]_flowVars
  <2> SUFFICES ASSUME AckInvariant, FlowNext PROVE ByStep
    OBVIOUS
  <2>1. CASE acks' = acks
    BY <2>1
  <2>2. ASSUME NEW event \in Events, AcknowledgeOne(event) PROVE ByStep
    <3> DEFINE new == [event |-> event, snap |-> stepSnap, key |-> <<index, current>>]
    <3>1. acks' = acks \cup {new} /\ flowPhase = "acking" /\ event \in unacked
      BY <2>2 DEF AcknowledgeOne, Acknowledge
    <3>2. RecordedHere /\ event \in snapshots[stepSnap]
      BY <3>1 DEF AckInvariant, AckRecorded, DeliveryInvariant, ToAcknowledgeShown
    <3> QED
      BY <3>1, <3>2 DEF RecordedHere
  <2>3. acks' = acks \/ \E event \in Events : AcknowledgeOne(event)
    BY DEF FlowNext, FlowProgress, StartFlow, ReadPending, ProjectPending,
      WritePendingProjection, CallStep, InStep, StepReturned, StepRaised, AcknowledgedAll,
      Route, RunProjections, ProjectionRaises, WriteLedger, WriteFlowResult, Die, Host,
      User, SubmitUserEvent, portVars
  <2> QED
    BY <2>1, <2>2, <2>3
<1> QED
  BY <1>1, AckInvariantInit, AckInvariantNext, PTL
    DEF FlowSpec, AcknowledgedByCompletedStep
=============================================================================
