------------------------- MODULE DeepResearch_proofs -------------------------
(***************************************************************************)
(* Theorems about a DeepResearch session, for any texts, number of calls,  *)
(* user events and review rounds: first the desk, then the research run.   *)
(***************************************************************************)
EXTENDS DeepResearch, TLAPS

\* The steps of the desk, its workers and its end.
DeskAction == DeskStep \/ UserStep \/ WorkerStep \/ Leave \/ Die

\* A session has its document before anything reads it.
Drafted ==
  control # NoFile \/ orphans \/ phase \notin {"off", "idle", "opening"}
    => requirements # NoFile

\* A turn is begun only while calls are left; a call of the turn is counted.
Counted ==
  /\ phase \in {"opening", "controlling", "compiling"} => attempts < MaxCalls
  /\ latest <= attempts
  /\ callId <= attempts
  /\ phase = "starting" => callId > latest

\* Request and projection are of one text, unless a process died between them.
Projected ==
  /\ ~halfway => request = projection
  /\ phase = "half" => halfway /\ request = basis
  /\ phase = "granting" => basis = projection /\ basis \in Texts
  /\ phase = "research" => approved # NoApproval
  /\ phase = "research" /\ ~halfway => approved.request = approved.requirements

DeskInvariant == DeskTypeOK /\ Drafted /\ Counted /\ Projected

LEMMA DeskInitially == DeskInit => DeskInvariant
<1> SUFFICES ASSUME DeskInit PROVE DeskInvariant
  OBVIOUS
<1>1. 0 \in 0..MaxCalls
  BY FrontDeskDeclarations
<1>2. DeskTypeOK
  BY <1>1 DEF DeskInit, DeskTypeOK, Phases
<1>3. Drafted
  BY DEF DeskInit, Drafted
<1>4. Counted
  BY DEF DeskInit, Counted
<1>5. Projected
  BY DEF DeskInit, Projected
<1> QED BY <1>2, <1>3, <1>4, <1>5 DEF DeskInvariant

LEMMA DeskTypeKept ==
  ASSUME DeskInvariant, DeskAction \/ UNCHANGED deskVars
  PROVE  DeskTypeOK'
<1> USE FrontDeskDeclarations DEF DeskInvariant, DeskTypeOK
<1>1. ASSUME Launch PROVE DeskTypeOK'
  BY <1>1 DEF Launch, Counted, Drafted, Projected, Phases, Controls, Decisions, documents, projected, turnVars, runVars
<1>2. ASSUME Message PROVE DeskTypeOK'
  BY <1>2 DEF Message, Counted, Drafted, Projected, Phases, Controls, Decisions, documents, projected, turnVars, runVars
<1>3. ASSUME WriteTemplate PROVE DeskTypeOK'
  BY <1>3 DEF WriteTemplate, Counted, Drafted, Projected, Phases, Controls, Decisions, documents, projected, turnVars, runVars
<1>4. ASSUME WriteControl PROVE DeskTypeOK'
  BY <1>4 DEF WriteControl, Counted, Drafted, Projected, Phases, Controls, Decisions, documents, projected, turnVars, runVars
<1>5. ASSUME PrepareCall PROVE DeskTypeOK'
  BY <1>5 DEF PrepareCall, NextCallId, Counted, Drafted, Projected, Phases, Controls, Decisions, documents, projected, turnVars, runVars
<1>6. ASSUME LockFails PROVE DeskTypeOK'
  BY <1>6 DEF LockFails, NoTurn, Counted, Drafted, Projected, Phases, Controls, Decisions, documents, projected, turnVars, runVars
<1>7. ASSUME StartWorker PROVE DeskTypeOK'
  BY <1>7 DEF StartWorker, Counted, Drafted, Projected, Phases, Controls, Decisions, documents, projected, turnVars, runVars
<1>8. ASSUME CallReturns PROVE DeskTypeOK'
  BY <1>8 DEF CallReturns, NoTurn, Counted, Drafted, Projected, Phases, Controls, Decisions, documents, projected, turnVars, runVars
<1>9. ASSUME ReadDecision PROVE DeskTypeOK'
  BY <1>9 DEF ReadDecision, NoTurn, Counted, Drafted, Projected, Phases, Controls, Decisions, documents, projected, turnVars, runVars
<1>10. ASSUME ReadRequirements PROVE DeskTypeOK'
  BY <1>10 DEF ReadRequirements, Counted, Drafted, Projected, Phases, Controls, Decisions, documents, projected, turnVars, runVars
<1>11. ASSUME WriteRequest PROVE DeskTypeOK'
  BY <1>11 DEF WriteRequest, Counted, Drafted, Projected, Phases, Controls, Decisions, documents, projected, turnVars, runVars
<1>12. ASSUME WriteProjection PROVE DeskTypeOK'
  BY <1>12 DEF WriteProjection, Counted, Drafted, Projected, Phases, Controls, Decisions, documents, projected, turnVars, runVars
<1>13. ASSUME ReportTurn PROVE DeskTypeOK'
  BY <1>13 DEF ReportTurn, NoTurn, Counted, Drafted, Projected, Phases, Controls, Decisions, documents, projected, turnVars, runVars
<1>14. ASSUME Approve PROVE DeskTypeOK'
  BY <1>14 DEF Approve, Counted, Drafted, Projected, Phases, Controls, Decisions, documents, projected, turnVars, runVars
<1>15. ASSUME CompareHash PROVE DeskTypeOK'
  BY <1>15 DEF CompareHash, NoTurn, UnchangedSinceProjection, Counted, Drafted, Projected, Phases, Controls, Decisions, documents, projected, turnVars, runVars
<1>16. ASSUME Grant PROVE DeskTypeOK'
  BY <1>16 DEF Grant, NoTurn, Counted, Drafted, Projected, Phases, Controls, Decisions, documents, projected, turnVars, runVars
<1>17. ASSUME Leave PROVE DeskTypeOK'
  BY <1>17 DEF Leave, Counted, Drafted, Projected, Phases, Controls, Decisions, documents, projected, turnVars, runVars
<1>18. ASSUME Die PROVE DeskTypeOK'
  <2>1. /\ phase' = "off" /\ phase' \in Phases
        /\ callId' \in 0..MaxCalls /\ basis' \in Texts \cup {NoFile}
        /\ approved' = NoApproval
        /\ attempts' \in 0..MaxCalls /\ latest' \in 0..MaxCalls
    BY <1>18 DEF Die, NoTurn, Phases
  <2>2. orphans' \in BOOLEAN
    BY <1>18 DEF Die
  <2>3. halfway' \in BOOLEAN
    BY <1>18 DEF Die
  <2>4. requirements' \in Texts \cup {NoFile}
    BY <1>18 DEF Die
  <2>5. control' \in Controls \cup {NoFile}
    BY <1>18 DEF Die, Controls
  <2>6. request' \in Texts \cup {NoFile, Torn}
    BY <1>18 DEF Die
  <2>7. projection' \in Texts \cup {NoFile, Torn}
    BY <1>18 DEF Die
  <2> QED BY <2>1, <2>2, <2>3, <2>4, <2>5, <2>6, <2>7
<1>19. ASSUME NEW text \in Texts, WriteRequirements(text) PROVE DeskTypeOK'
  BY <1>19 DEF WriteRequirements, AWorkerRuns, Counted, Drafted, Projected, Phases, Controls, Decisions, documents, projected, turnVars, runVars
<1>20. ASSUME NEW decision \in Controls, WriteDecision(decision) PROVE DeskTypeOK'
  BY <1>20 DEF WriteDecision, AWorkerRuns, Counted, Drafted, Projected, Phases, Controls, Decisions, documents, projected, turnVars, runVars
<1>21. ASSUME OrphansEnd PROVE DeskTypeOK'
  <2>1. orphans' \in BOOLEAN
    BY <1>21 DEF OrphansEnd
  <2>2. UNCHANGED <<requirements, control, request, projection, halfway, attempts, phase,
                    callId, basis, approved, latest>>
    BY <1>21 DEF OrphansEnd, documents, projected, turnVars
  <2> QED BY <2>1, <2>2
<1>22. CASE UNCHANGED deskVars
  BY <1>22 DEF deskVars, Counted, Drafted, Projected, Phases, Controls, Decisions, documents, projected, turnVars, runVars
<1> HIDE DEF DeskInvariant, DeskTypeOK
<1> QED
  BY <1>1, <1>2, <1>3, <1>4, <1>5, <1>6, <1>7, <1>8, <1>9, <1>10, <1>11, <1>12, <1>13, <1>14, <1>15, <1>16, <1>17, <1>18, <1>19, <1>20, <1>21, <1>22 DEF DeskAction, DeskStep, UserStep, WorkerStep

LEMMA DraftedKept ==
  ASSUME DeskInvariant, DeskAction \/ UNCHANGED deskVars
  PROVE  Drafted'
<1> USE FrontDeskDeclarations DEF DeskInvariant, Drafted
<1>1. ASSUME Launch PROVE Drafted'
  BY <1>1 DEF Launch, documents, projected, turnVars, runVars
<1>2. ASSUME Message PROVE Drafted'
  BY <1>2 DEF Message, documents, projected, turnVars, runVars
<1>3. ASSUME WriteTemplate PROVE Drafted'
  BY <1>3 DEF WriteTemplate, documents, projected, turnVars, runVars
<1>4. ASSUME WriteControl PROVE Drafted'
  BY <1>4 DEF WriteControl, documents, projected, turnVars, runVars
<1>5. ASSUME PrepareCall PROVE Drafted'
  BY <1>5 DEF PrepareCall, NextCallId, documents, projected, turnVars, runVars
<1>6. ASSUME LockFails PROVE Drafted'
  BY <1>6 DEF LockFails, NoTurn, documents, projected, turnVars, runVars
<1>7. ASSUME StartWorker PROVE Drafted'
  BY <1>7 DEF StartWorker, documents, projected, turnVars, runVars
<1>8. ASSUME CallReturns PROVE Drafted'
  BY <1>8 DEF CallReturns, NoTurn, documents, projected, turnVars, runVars
<1>9. ASSUME ReadDecision PROVE Drafted'
  BY <1>9 DEF ReadDecision, NoTurn, documents, projected, turnVars, runVars
<1>10. ASSUME ReadRequirements PROVE Drafted'
  BY <1>10 DEF ReadRequirements, documents, projected, turnVars, runVars
<1>11. ASSUME WriteRequest PROVE Drafted'
  BY <1>11 DEF WriteRequest, documents, projected, turnVars, runVars
<1>12. ASSUME WriteProjection PROVE Drafted'
  BY <1>12 DEF WriteProjection, documents, projected, turnVars, runVars
<1>13. ASSUME ReportTurn PROVE Drafted'
  BY <1>13 DEF ReportTurn, NoTurn, documents, projected, turnVars, runVars
<1>14. ASSUME Approve PROVE Drafted'
  BY <1>14 DEF Approve, documents, projected, turnVars, runVars
<1>15. ASSUME CompareHash PROVE Drafted'
  BY <1>15 DEF CompareHash, NoTurn, UnchangedSinceProjection, documents, projected, turnVars, runVars
<1>16. ASSUME Grant PROVE Drafted'
  BY <1>16 DEF Grant, NoTurn, documents, projected, turnVars, runVars
<1>17. ASSUME Leave PROVE Drafted'
  BY <1>17 DEF Leave, documents, projected, turnVars, runVars
<1>18. ASSUME Die PROVE Drafted'
  BY <1>18 DEF Die, NoTurn, documents, projected, turnVars, runVars
<1>19. ASSUME NEW text \in Texts, WriteRequirements(text) PROVE Drafted'
  BY <1>19 DEF WriteRequirements, AWorkerRuns, documents, projected, turnVars, runVars
<1>20. ASSUME NEW decision \in Controls, WriteDecision(decision) PROVE Drafted'
  BY <1>20 DEF WriteDecision, AWorkerRuns, documents, projected, turnVars, runVars
<1>21. ASSUME OrphansEnd PROVE Drafted'
  BY <1>21 DEF OrphansEnd, documents, projected, turnVars, runVars
<1>22. CASE UNCHANGED deskVars
  BY <1>22 DEF deskVars, documents, projected, turnVars, runVars
<1> HIDE DEF DeskInvariant, Drafted
<1> QED
  BY <1>1, <1>2, <1>3, <1>4, <1>5, <1>6, <1>7, <1>8, <1>9, <1>10, <1>11, <1>12, <1>13, <1>14, <1>15, <1>16, <1>17, <1>18, <1>19, <1>20, <1>21, <1>22 DEF DeskAction, DeskStep, UserStep, WorkerStep

LEMMA CountedKept ==
  ASSUME DeskInvariant, DeskAction \/ UNCHANGED deskVars
  PROVE  Counted'
<1> USE FrontDeskDeclarations DEF DeskInvariant, DeskTypeOK, Counted
<1>1. ASSUME Launch PROVE Counted'
  BY <1>1 DEF Launch, documents, projected, turnVars, runVars
<1>2. ASSUME Message PROVE Counted'
  BY <1>2 DEF Message, documents, projected, turnVars, runVars
<1>3. ASSUME WriteTemplate PROVE Counted'
  BY <1>3 DEF WriteTemplate, documents, projected, turnVars, runVars
<1>4. ASSUME WriteControl PROVE Counted'
  BY <1>4 DEF WriteControl, documents, projected, turnVars, runVars
<1>5. ASSUME PrepareCall PROVE Counted'
  BY <1>5 DEF PrepareCall, NextCallId, documents, projected, turnVars, runVars
<1>6. ASSUME LockFails PROVE Counted'
  BY <1>6 DEF LockFails, NoTurn, documents, projected, turnVars, runVars
<1>7. ASSUME StartWorker PROVE Counted'
  BY <1>7 DEF StartWorker, documents, projected, turnVars, runVars
<1>8. ASSUME CallReturns PROVE Counted'
  BY <1>8 DEF CallReturns, NoTurn, documents, projected, turnVars, runVars
<1>9. ASSUME ReadDecision PROVE Counted'
  BY <1>9 DEF ReadDecision, NoTurn, documents, projected, turnVars, runVars
<1>10. ASSUME ReadRequirements PROVE Counted'
  BY <1>10 DEF ReadRequirements, documents, projected, turnVars, runVars
<1>11. ASSUME WriteRequest PROVE Counted'
  BY <1>11 DEF WriteRequest, documents, projected, turnVars, runVars
<1>12. ASSUME WriteProjection PROVE Counted'
  BY <1>12 DEF WriteProjection, documents, projected, turnVars, runVars
<1>13. ASSUME ReportTurn PROVE Counted'
  BY <1>13 DEF ReportTurn, NoTurn, documents, projected, turnVars, runVars
<1>14. ASSUME Approve PROVE Counted'
  BY <1>14 DEF Approve, documents, projected, turnVars, runVars
<1>15. ASSUME CompareHash PROVE Counted'
  BY <1>15 DEF CompareHash, NoTurn, UnchangedSinceProjection, documents, projected, turnVars, runVars
<1>16. ASSUME Grant PROVE Counted'
  BY <1>16 DEF Grant, NoTurn, documents, projected, turnVars, runVars
<1>17. ASSUME Leave PROVE Counted'
  BY <1>17 DEF Leave, documents, projected, turnVars, runVars
<1>18. ASSUME Die PROVE Counted'
  BY <1>18 DEF Die, NoTurn, documents, projected, turnVars, runVars
<1>19. ASSUME NEW text \in Texts, WriteRequirements(text) PROVE Counted'
  BY <1>19 DEF WriteRequirements, AWorkerRuns, documents, projected, turnVars, runVars
<1>20. ASSUME NEW decision \in Controls, WriteDecision(decision) PROVE Counted'
  BY <1>20 DEF WriteDecision, AWorkerRuns, documents, projected, turnVars, runVars
<1>21. ASSUME OrphansEnd PROVE Counted'
  BY <1>21 DEF OrphansEnd, documents, projected, turnVars, runVars
<1>22. CASE UNCHANGED deskVars
  BY <1>22 DEF deskVars, documents, projected, turnVars, runVars
<1> HIDE DEF DeskInvariant, DeskTypeOK, Counted
<1> QED
  BY <1>1, <1>2, <1>3, <1>4, <1>5, <1>6, <1>7, <1>8, <1>9, <1>10, <1>11, <1>12, <1>13, <1>14, <1>15, <1>16, <1>17, <1>18, <1>19, <1>20, <1>21, <1>22 DEF DeskAction, DeskStep, UserStep, WorkerStep

LEMMA ProjectedKept ==
  ASSUME DeskInvariant, DeskAction \/ UNCHANGED deskVars
  PROVE  Projected'
<1> USE FrontDeskDeclarations DEF DeskInvariant, Projected
<1>1. ASSUME Launch PROVE Projected'
  BY <1>1 DEF Launch, DeskTypeOK, Drafted, documents, projected, turnVars, runVars
<1>2. ASSUME Message PROVE Projected'
  BY <1>2 DEF Message, DeskTypeOK, Drafted, documents, projected, turnVars, runVars
<1>3. ASSUME WriteTemplate PROVE Projected'
  BY <1>3 DEF WriteTemplate, DeskTypeOK, Drafted, documents, projected, turnVars, runVars
<1>4. ASSUME WriteControl PROVE Projected'
  BY <1>4 DEF WriteControl, DeskTypeOK, Drafted, documents, projected, turnVars, runVars
<1>5. ASSUME PrepareCall PROVE Projected'
  BY <1>5 DEF PrepareCall, NextCallId, DeskTypeOK, Drafted, documents, projected, turnVars, runVars
<1>6. ASSUME LockFails PROVE Projected'
  BY <1>6 DEF LockFails, NoTurn, DeskTypeOK, Drafted, documents, projected, turnVars, runVars
<1>7. ASSUME StartWorker PROVE Projected'
  BY <1>7 DEF StartWorker, DeskTypeOK, Drafted, documents, projected, turnVars, runVars
<1>8. ASSUME CallReturns PROVE Projected'
  BY <1>8 DEF CallReturns, NoTurn, DeskTypeOK, Drafted, documents, projected, turnVars, runVars
<1>9. ASSUME ReadDecision PROVE Projected'
  BY <1>9 DEF ReadDecision, NoTurn, DeskTypeOK, Drafted, documents, projected, turnVars, runVars
<1>10. ASSUME ReadRequirements PROVE Projected'
  BY <1>10 DEF ReadRequirements, DeskTypeOK, Drafted, documents, projected, turnVars, runVars
<1>11. ASSUME WriteRequest PROVE Projected'
  BY <1>11 DEF WriteRequest, DeskTypeOK, Drafted, documents, projected, turnVars, runVars
<1>12. ASSUME WriteProjection PROVE Projected'
  BY <1>12 DEF WriteProjection, DeskTypeOK, Drafted, documents, projected, turnVars, runVars
<1>13. ASSUME ReportTurn PROVE Projected'
  BY <1>13 DEF ReportTurn, NoTurn, DeskTypeOK, Drafted, documents, projected, turnVars, runVars
<1>14. ASSUME Approve PROVE Projected'
  BY <1>14 DEF Approve, DeskTypeOK, Drafted, documents, projected, turnVars, runVars
<1>15. ASSUME CompareHash PROVE Projected'
  BY <1>15 DEF CompareHash, NoTurn, UnchangedSinceProjection, DeskTypeOK, Drafted, documents, projected, turnVars, runVars
<1>16. ASSUME Grant PROVE Projected'
  BY <1>16 DEF Grant, NoTurn, DeskTypeOK, Drafted, documents, projected, turnVars, runVars
<1>17. ASSUME Leave PROVE Projected'
  BY <1>17 DEF Leave, DeskTypeOK, Drafted, documents, projected, turnVars, runVars
<1>18. ASSUME Die PROVE Projected'
  BY <1>18 DEF Die, NoTurn, DeskTypeOK, Drafted, documents, projected, turnVars, runVars
<1>19. ASSUME NEW text \in Texts, WriteRequirements(text) PROVE Projected'
  BY <1>19 DEF WriteRequirements, AWorkerRuns, DeskTypeOK, Drafted, documents, projected, turnVars, runVars
<1>20. ASSUME NEW decision \in Controls, WriteDecision(decision) PROVE Projected'
  BY <1>20 DEF WriteDecision, AWorkerRuns, DeskTypeOK, Drafted, documents, projected, turnVars, runVars
<1>21. ASSUME OrphansEnd PROVE Projected'
  BY <1>21 DEF OrphansEnd, DeskTypeOK, Drafted, documents, projected, turnVars, runVars
<1>22. CASE UNCHANGED deskVars
  BY <1>22 DEF deskVars, DeskTypeOK, Drafted, documents, projected, turnVars, runVars
<1> HIDE DEF DeskInvariant, Projected
<1> QED
  BY <1>1, <1>2, <1>3, <1>4, <1>5, <1>6, <1>7, <1>8, <1>9, <1>10, <1>11, <1>12, <1>13, <1>14, <1>15, <1>16, <1>17, <1>18, <1>19, <1>20, <1>21, <1>22 DEF DeskAction, DeskStep, UserStep, WorkerStep

LEMMA SessionIsDesk == [SessionNext]_sessionVars => DeskAction \/ UNCHANGED deskVars
BY DEF SessionNext, sessionVars, DeskAction, Desk, Workers, Begin, Research, Listen, Finish, ProcessDies

LEMMA DeskKept == DeskInvariant /\ [SessionNext]_sessionVars => DeskInvariant'
BY SessionIsDesk, DeskTypeKept, DraftedKept, CountedKept, ProjectedKept DEF DeskInvariant

LEMMA DeskInvariantHolds == SessionSpec => []DeskInvariant
BY DeskInitially, DeskKept, PTL DEF SessionSpec, SessionInit

\* What a user approved is what will be researched, for any texts and any number
\* of calls, deaths and workers that live on, unless a projection was cut short.
THEOREM ApprovedRequestsStand == SessionSpec => []ApprovedRequestStands
<1>1. DeskInvariant => ApprovedRequestStands
  BY DEF DeskInvariant, Projected, ApprovedRequestStands
<1> QED BY DeskInvariantHolds, <1>1, PTL

\* A worker call never takes the id, and with it the directory, of another.
THEOREM CallIdsAreFresh == SessionSpec => CallIdsFresh
<1>1. DeskInvariant /\ [SessionNext]_sessionVars =>
        [phase = "starting" /\ phase' = "calling" => callId > latest]_deskVars
  BY DEF DeskInvariant, Counted
<1> QED BY DeskInvariantHolds, <1>1, PTL DEF SessionSpec, CallIdsFresh
----------------------------------------------------------------------------
\* The research run.  Where a flow that only went onward and back from the
\* reviewer is in its rounds.
Position == [source_mapper |-> 1, researcher |-> 2, reviewer |-> 3, judge |-> 4]

Running == stage \notin {"off", "stopped", "summarised"}

\* Every turn is a step onward or a round that the reviewer asked for.
TurnsAdd ==
  /\ revisions + 1 <= turn
  /\ ~detoured => turn = Position[step] + 2 * revisions

\* The step that routes is the one that returned, and nothing has stopped yet.
Routing ==
  /\ Running => stop = NoStop
  /\ stage \in {"acking", "routing"} => last = step

FlowInvariant ==
  ResearchTypeOK /\ TurnsAdd /\ Routing /\ ReviewRoundsFit

LEMMA EnoughSteps == MaxSteps \in Nat /\ MaxSteps >= 6 /\ MaxSteps >= 4 + 2 * MaxReviewRounds
BY IntensityDeclarations DEF IntensityValid, MaxSteps, MaxOf

LEMMA RoutesLead ==
  ASSUME NEW decision, NEW target \in TargetsOf(decision)
  PROVE  target \in Researchers \cup FlowStatuses
<1>1. \A r \in DeclaredRoutes : r[3] \in Researchers \cup FlowStatuses
  BY DEF DeclaredRoutes, Researchers, FlowStatuses
<1>2. PICK r \in DeclaredRoutes : r[1] = step /\ r[3] = target
  BY DEF TargetsOf
<1> QED BY <1>1, <1>2

LEMMA FlowInitially ==
  SessionInit => FlowInvariant /\ (stage # "off" => phase = "research")
<1> SUFFICES ASSUME SessionInit
             PROVE  FlowInvariant /\ (stage # "off" => phase = "research")
  OBVIOUS
<1>1. DeliveryTypeOK
  BY DEF SessionInit, ResearchInit, DeliveryInit, DeliveryTypeOK
<1>2. 1 \in 1..MaxSteps /\ 0 \in 0..MaxSteps /\ NoStop \in Stops
  BY EnoughSteps DEF Stops
<1>3. ResearchTypeOK
  BY <1>1, <1>2
  DEF SessionInit, ResearchInit, DeliveryInit, ResearchTypeOK, Stages, Researchers
<1>4. TurnsAdd /\ Routing /\ ReviewRoundsFit
  BY DEF SessionInit, ResearchInit, TurnsAdd, Routing, Running, Position, NoStop,
         ReviewRoundsFit
<1> QED
  BY <1>3, <1>4 DEF SessionInit, ResearchInit, FlowInvariant

\* A run that starts, or is left, is as if nothing had run.
LEMMA ResetKeepsFlow ==
  ASSUME FlowInvariant, StartResearch \/ AbandonResearch
  PROVE  FlowInvariant'
<1>1. /\ step' = "source_mapper" /\ turn' = 1 /\ seen' = {} /\ revisions' = 0
      /\ detoured' = FALSE /\ last' = "none"
      /\ stop' = NoStop /\ returned' = "none" /\ stage' \in {"off", "safe_point"}
      /\ UNCHANGED deliveryVars
  BY DEF StartResearch, AbandonResearch
<1>2. 1 \in 1..MaxSteps /\ 0 \in 0..MaxSteps /\ NoStop \in Stops
  BY EnoughSteps DEF Stops
<1>3. DeliveryTypeOK'
  BY <1>1 DEF FlowInvariant, ResearchTypeOK, DeliveryTypeOK, deliveryVars
<1>4. ResearchTypeOK'
  BY <1>1, <1>2, <1>3 DEF ResearchTypeOK, Stages, Researchers
<1> QED
  BY <1>1, <1>4
  DEF FlowInvariant, TurnsAdd, Routing, Running, Position, NoStop, ReviewRoundsFit

LEMMA EventsKeepFlow ==
  ASSUME FlowInvariant,
         \/ \E event \in Events : UserTypes(event) \/ AckOne(event)
         \/ ReadPending \/ AckedAll
  PROVE  FlowInvariant'
<1>1. ASSUME NEW event \in Events, UserTypes(event) PROVE FlowInvariant'
  BY <1>1
  DEF FlowInvariant, UserTypes, Submit, ResearchTypeOK, DeliveryTypeOK, loopVars,
      TurnsAdd, Routing, Running, ReviewRoundsFit
<1>2. ASSUME NEW event \in Events, AckOne(event) PROVE FlowInvariant'
  BY <1>2
  DEF FlowInvariant, AckOne, Consume, ResearchTypeOK, DeliveryTypeOK, loopVars,
      TurnsAdd, Routing, Running, ReviewRoundsFit
<1>3. ASSUME ReadPending \/ AckedAll PROVE FlowInvariant'
  BY <1>3
  DEF FlowInvariant, ReadPending, Pending, AckedAll, ResearchTypeOK, DeliveryTypeOK,
      deliveryVars, loopVars, Stages, TurnsAdd, Routing, Running, ReviewRoundsFit
<1> QED BY <1>1, <1>2, <1>3

LEMMA StepsKeepFlow ==
  ASSUME FlowInvariant,
         ShowPending \/ StepFails \/ StepCompletes \/ Unrouted \/ Summarise \/ Conclude
  PROVE  FlowInvariant'
<1>1. ASSUME ShowPending PROVE FlowInvariant'
  <2>1. DeliveryTypeOK' /\ UNCHANGED submitted
    BY <1>1 DEF FlowInvariant, ShowPending, Show, ResearchTypeOK, DeliveryTypeOK
  <2>2. UNCHANGED <<loopVars, returned>>
    BY <1>1 DEF ShowPending
  <2>3. \/ stage' = "stopped" /\ stop' = [status |-> "blocked", reason |-> "user_request"]
        \/ stage' = "working" /\ stop' = stop /\ stage = "showing"
    BY <1>1 DEF ShowPending, StopWith
  <2> QED
    BY <2>1, <2>2, <2>3
    DEF FlowInvariant, ResearchTypeOK, loopVars, Stages, Stops, FlowStatuses, Reasons,
        TurnsAdd, Routing, Running, ReviewRoundsFit
<1>2. ASSUME StepFails PROVE FlowInvariant'
  BY <1>2
  DEF FlowInvariant, StepFails, StopWith, ResearchTypeOK, DeliveryTypeOK, deliveryVars,
      Stages, Stops, FlowStatuses, Reasons, TurnsAdd, Routing, Running, ReviewRoundsFit
<1>3. ASSUME StepCompletes PROVE FlowInvariant'
  BY <1>3
  DEF FlowInvariant, StepCompletes, ResearchTypeOK, DeliveryTypeOK, deliveryVars,
      Stages, NoStop, TurnsAdd, Routing, Running, ReviewRoundsFit
<1>4. ASSUME Unrouted PROVE FlowInvariant'
  BY <1>4
  DEF FlowInvariant, Unrouted, StopWith, ResearchTypeOK, DeliveryTypeOK, deliveryVars,
      loopVars, Stages, Stops, FlowStatuses, Reasons, TurnsAdd, Routing, Running,
      ReviewRoundsFit
<1>5. ASSUME Summarise PROVE FlowInvariant'
  BY <1>5
  DEF FlowInvariant, Summarise, ResearchTypeOK, DeliveryTypeOK, deliveryVars, loopVars,
      Stages, TurnsAdd, Routing, Running, ReviewRoundsFit
<1>6. ASSUME Conclude PROVE FlowInvariant'
  <2>1. stop.status \in ProductStatuses \cup {"none"}
    BY DEF FlowInvariant, ResearchTypeOK, Stops, NoStop, ProductStatuses
  <2>2. ProjectedStatus \in ProductStatuses \cup {"none"}
    BY <2>1 DEF ProjectedStatus, ProductStatuses
  <2> QED
    BY <1>6, <2>2
    DEF FlowInvariant, Conclude, ResearchTypeOK, DeliveryTypeOK, deliveryVars, loopVars,
        Stages, TurnsAdd, Routing, Running, ReviewRoundsFit
<1> QED BY <1>1, <1>2, <1>3, <1>4, <1>5, <1>6

\* The turns that are left cover the rounds the intensity allows.
LEMMA RouteKeepsFlow ==
  ASSUME FlowInvariant, NEW decision, RouteOn(decision)
  PROVE  FlowInvariant'
<1> USE DEF FlowInvariant
<1>1. /\ stage = "routing" /\ last = step /\ stop = NoStop
      /\ UNCHANGED <<deliveryVars, returned>>
  BY DEF RouteOn, Routing, Running
<1>2. PICK target \in TargetsOf(decision) :
        IF target \in FlowStatuses
          THEN StopWith(target, "terminal_route") /\ UNCHANGED loopVars
          ELSE IF TurnsLeft
                 THEN GoTo(target)
                 ELSE StopWith("blocked", "max_steps_exhausted") /\ UNCHANGED loopVars
  BY DEF RouteOn
<1>3. target \in Researchers \cup FlowStatuses
  BY RoutesLead
<1>4. CASE target \in FlowStatuses
  BY <1>1, <1>2, <1>3, <1>4
  DEF StopWith, ResearchTypeOK, DeliveryTypeOK, deliveryVars, loopVars, Stages, Stops,
      FlowStatuses, Reasons, TurnsAdd, Routing, Running, ReviewRoundsFit
<1>5. CASE target \notin FlowStatuses /\ TurnsLeft
  <2>1. GoTo(target) /\ target \in Researchers
    BY <1>2, <1>3, <1>5
  <2>2. turn' \in 1..MaxSteps /\ turn' = turn + 1
    BY <2>1, <1>5, EnoughSteps DEF GoTo, TurnsLeft, ResearchTypeOK
  <2>3. revisions' \in 0..MaxSteps /\ revisions' + 1 <= turn'
    BY <2>1, <2>2, EnoughSteps DEF GoTo, ResearchTypeOK, TurnsAdd
  <2>4. ~detoured' => turn' = Position[step'] + 2 * revisions'
    <3> SUFFICES ASSUME ~detoured' PROVE turn' = Position[step'] + 2 * revisions'
      OBVIOUS
    <3>1. /\ ~detoured
          /\ <<step, target>> \in Onward \cup {<<"reviewer", "researcher">>}
      BY <2>1 DEF GoTo, ResearchTypeOK
    <3>2. turn = Position[step] + 2 * revisions /\ revisions \in Nat /\ step' = target
      BY <2>1, <3>1, EnoughSteps DEF TurnsAdd, ResearchTypeOK, GoTo
    <3>3. CASE <<step, target>> = <<"reviewer", "researcher">>
      BY <2>1, <2>2, <3>2, <3>3 DEF GoTo, Position
    <3>4. CASE <<step, target>> \in Onward
      <4>1. revisions' = revisions
        BY <2>1, <3>4 DEF GoTo, Onward
      <4>2. Position[target] = Position[step] + 1
        BY <3>4 DEF Onward, Position
      <4>3. Position[step] \in Nat
        BY <3>4 DEF Onward, Position
      <4> QED BY <2>2, <3>2, <4>1, <4>2, <4>3
    <3> QED BY <3>1, <3>3, <3>4
  <2>5. /\ stage' = "safe_point" /\ step' = target /\ UNCHANGED <<seen, last, stop>>
        /\ detoured' \in BOOLEAN
    BY <2>1 DEF GoTo, ResearchTypeOK
  <2>6. ResearchTypeOK'
    BY <1>1, <2>1, <2>2, <2>3, <2>5
    DEF ResearchTypeOK, DeliveryTypeOK, deliveryVars, Stages
  <2>7. TurnsAdd' /\ Routing'
    BY <1>1, <2>3, <2>4, <2>5 DEF TurnsAdd, Routing
  <2>8. ReviewRoundsFit'
    BY <1>1, <2>5 DEF NoStop, ReviewRoundsFit
  <2> QED BY <2>6, <2>7, <2>8
<1>6. CASE target \notin FlowStatuses /\ ~TurnsLeft
  <2>1. /\ stage' = "stopped" /\ UNCHANGED loopVars
        /\ stop' = [status |-> "blocked", reason |-> "max_steps_exhausted"]
    BY <1>2, <1>6 DEF StopWith
  <2>2. revisions > MaxReviewRounds \/ detoured \/ last = "judge"
    <3> SUFFICES ASSUME ~detoured, last # "judge" PROVE revisions > MaxReviewRounds
      OBVIOUS
    <3>1. turn = MaxSteps
      BY <1>6, EnoughSteps DEF TurnsLeft, ResearchTypeOK
    <3>2. Position[step] \in 1..3
      BY <1>1 DEF ResearchTypeOK, Researchers, Position
    <3>3. turn = Position[step] + 2 * revisions /\ revisions \in Nat
      BY EnoughSteps DEF TurnsAdd, ResearchTypeOK
    <3> QED BY <3>1, <3>2, <3>3, EnoughSteps, IntensityDeclarations
       DEF IntensityValid
  <2>3. ResearchTypeOK'
    BY <1>1, <2>1
    DEF ResearchTypeOK, DeliveryTypeOK, deliveryVars, loopVars, Stages, Stops,
        FlowStatuses, Reasons
  <2> QED
    BY <1>1, <2>1, <2>2, <2>3
    DEF loopVars, TurnsAdd, Routing, Running, ReviewRoundsFit
<1> QED BY <1>4, <1>5, <1>6

LEMMA FlowKept == FlowInvariant /\ [SessionNext]_sessionVars => FlowInvariant'
<1> SUFFICES ASSUME FlowInvariant, [SessionNext]_sessionVars PROVE FlowInvariant'
  OBVIOUS
<1>1. CASE UNCHANGED researchVars
  BY <1>1
  DEF FlowInvariant, researchVars, deliveryVars, loopVars, ResearchTypeOK,
      DeliveryTypeOK, TurnsAdd, Routing, Running, ReviewRoundsFit
<1>2. CASE Begin \/ Finish \/ ProcessDies
  BY <1>2, ResetKeepsFlow DEF Begin, Finish, ProcessDies
<1>3. CASE Research \/ Listen
  BY <1>3, EventsKeepFlow, StepsKeepFlow, RouteKeepsFlow
  DEF Research, Listen, ResearchStep
<1> QED BY <1>1, <1>2, <1>3 DEF SessionNext, Desk, Workers, sessionVars

\* A research run is one of the process that holds the approval.
LEMMA OnlyApprovedRuns ==
  (stage # "off" => phase = "research") /\ [SessionNext]_sessionVars
    => (stage # "off" => phase = "research")'
<1> SUFFICES ASSUME stage # "off" => phase = "research", [SessionNext]_sessionVars,
                    stage' # "off"
             PROVE  phase' = "research"
  OBVIOUS
<1>1. CASE Desk
  <2>1. stage # "off"
    BY <1>1 DEF Desk, researchVars
  <2> QED
    BY <1>1, <2>1
    DEF Desk, DeskStep, UserStep, Launch, Message, Approve, WriteTemplate, WriteControl,
        PrepareCall, LockFails, StartWorker, CallReturns, ReadDecision, ReadRequirements,
        WriteRequest, WriteProjection, ReportTurn, CompareHash, Grant
<1>2. CASE Workers
  BY <1>2
  DEF Workers, researchVars, WorkerStep, WriteRequirements, WriteDecision, OrphansEnd
<1>3. CASE Begin
  BY <1>3 DEF Begin, deskVars
<1>4. CASE Research
  BY <1>4
  DEF Research, deskVars, ResearchStep, ReadPending, ShowPending, StepFails,
      StepCompletes, AckOne, AckedAll, RouteOn, Unrouted, Summarise, Conclude
<1>5. CASE Listen
  BY <1>5 DEF Listen, UserTypes, deskVars
<1>6. CASE Finish \/ ProcessDies
  BY <1>6 DEF Finish, ProcessDies, AbandonResearch
<1>7. CASE UNCHANGED sessionVars
  BY <1>7 DEF sessionVars, deskVars, researchVars
<1> QED BY <1>1, <1>2, <1>3, <1>4, <1>5, <1>6, <1>7 DEF SessionNext

\* The session is well typed, and only the process of an approval researches.
THEOREM SessionTypeCorrect == SessionSpec => []SessionTypeOK
<1>1. DeskInvariant /\ FlowInvariant /\ (stage # "off" => phase = "research")
        => SessionTypeOK
  BY DEF DeskInvariant, FlowInvariant, SessionTypeOK
<1> QED
  BY <1>1, FlowInitially, DeskInvariantHolds, FlowKept, OnlyApprovedRuns, PTL
  DEF SessionSpec

LEMMA FlowInvariantHolds == SessionSpec => []FlowInvariant
BY FlowInitially, FlowKept, PTL DEF SessionSpec

\* The limit of the loop never cuts short the review rounds that the intensity
\* allows, for any number of them.
THEOREM ReviewRoundsAlwaysFit == SessionSpec => []ReviewRoundsFit
<1>1. FlowInvariant => ReviewRoundsFit
  BY DEF FlowInvariant
<1> QED BY FlowInvariantHolds, <1>1, PTL
=============================================================================
