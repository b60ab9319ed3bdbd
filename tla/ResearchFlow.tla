---------------------------- MODULE ResearchFlow ----------------------------
(***************************************************************************)
(* A DeepResearch run (kernel_v2.py): the declared flow of four steps with *)
(* its routes, limits and failure policies, and what the product writes    *)
(* once the flow has stopped.  The flow runner is KernelFlow; here a step  *)
(* returns a status and a decision, which is what the routes see of it,    *)
(* and user events are EventDelivery, which KernelFlow implements.         *)
(***************************************************************************)
EXTENDS EventDelivery, FiniteSets

CONSTANT MaxReviewRounds  \* research_intensity_profile

\* The profiles allow 2 rounds (standard) and 4 (intensive); any number here.
IntensityValid == MaxReviewRounds \in Nat

ASSUME IntensityDeclarations == IntensityValid

VARIABLES
  stage,      \* where run_deepresearch_kernel_v2 is
  step,       \* the step the flow is at
  turn,       \* the loop index
  seen,       \* the events of this safe point
  revisions,  \* how often the reviewer sent the report back
  detoured,   \* the flow went back in another way
  last,       \* the step that returned last, "none" before any
  stop,       \* flow status, and why
  returned    \* the status of the result package of this run

loopVars == <<step, turn, seen, revisions, detoured, last>>
researchVars == <<deliveryVars, stage, loopVars, stop, returned>>

Researchers == {"source_mapper", "researcher", "reviewer", "judge"}

\* Flow.routes of build_deepresearch_kernel_v2_flow.
DeclaredRoutes ==
  {<<"source_mapper", "ready_for_synthesis", "researcher">>,
   <<"source_mapper", "continue",            "source_mapper">>,
   <<"source_mapper", "blocked",             "blocked">>,
   <<"researcher",    "ready_for_review",    "reviewer">>,
   <<"researcher",    "continue",            "researcher">>,
   <<"researcher",    "blocked",             "blocked">>,
   <<"reviewer",      "ready_for_judge",     "judge">>,
   <<"reviewer",      "revise_report",       "researcher">>,
   <<"reviewer",      "continue",            "source_mapper">>,
   <<"reviewer",      "blocked",             "blocked">>,
   <<"reviewer",      "rejected",            "failed">>,
   <<"judge",         "accepted",            "accepted">>,
   <<"judge",         "repair",              "researcher">>,
   <<"judge",         "revision_required",   "blocked">>,
   <<"judge",         "rejected",            "failed">>}

Onward ==
  {<<"source_mapper", "researcher">>, <<"researcher", "reviewer">>,
   <<"reviewer", "judge">>}

FlowStatuses == {"accepted", "blocked", "failed"}

ProductStatuses == FlowStatuses \cup {"review_blocked", "judge_blocked"}

NoStop == [status |-> "none", reason |-> "none"]

Reasons == {"terminal_route", "step_not_completed", "unrouted_decision",
            "invalid_decision_artifact", "max_steps_exhausted", "user_request"}

Stops == [status : FlowStatuses, reason : Reasons] \cup {NoStop}

Stages == {"off", "safe_point", "showing", "working", "acking", "routing",
           "stopped", "summarised"}

MaxOf(m, n) == IF m >= n THEN m ELSE n

\* Mutant: the judge's turn is not counted.
MaxStepsWithoutJudge == MaxOf(3 + MaxReviewRounds * 2, 3)

\* _kernel_v2_max_steps.
MaxSteps == MaxOf(4 + MaxReviewRounds * 2, 6)

ResearchTypeOK ==
  /\ DeliveryTypeOK
  /\ stage \in Stages
  /\ step \in Researchers
  /\ turn \in 1..MaxSteps
  /\ seen \subseteq submitted
  /\ revisions \in 0..MaxSteps /\ detoured \in BOOLEAN
  /\ last \in Researchers \cup {"none"}
  /\ stop \in Stops
  /\ returned \in ProductStatuses \cup {"none"}

ResearchInit ==
  /\ DeliveryInit
  /\ stage = "off"
  /\ step = "source_mapper" /\ turn = 1 /\ seen = {}
  /\ revisions = 0 /\ detoured = FALSE /\ last = "none"
  /\ stop = NoStop
  /\ returned = "none"

----------------------------------------------------------------------------
\* Every run starts at the first step; what is done already is skipped there.
StartResearch ==
  /\ stage = "off"
  /\ stage' = "safe_point"
  /\ step' = "source_mapper" /\ turn' = 1 /\ seen' = {}
  /\ revisions' = 0 /\ detoured' = FALSE /\ last' = "none"
  /\ stop' = NoStop
  /\ returned' = "none"
  /\ UNCHANGED deliveryVars

\* The research listener of the TUI records what the user types, while the
\* flow runs and, as its thread is not ended by stop(), also after it.
UserTypes(event) ==
  /\ stage # "off"
  /\ Submit(event)
  /\ UNCHANGED <<stage, loopVars, stop, returned>>

Pending == {event \in submitted : consumed[event] = 0}

ReadPending ==
  /\ stage = "safe_point"
  /\ seen' = Pending
  /\ stage' = IF Pending = {} THEN "working" ELSE "showing"
  /\ UNCHANGED <<deliveryVars, step, turn, revisions, detoured, last, stop, returned>>

StopWith(status, reason) ==
  /\ stage' = "stopped"
  /\ stop' = [status |-> status, reason |-> reason]

StopRequested == seen \cap Requests # {}

\* Mutant: a request makes the flow wait at its safe point.
ShowPendingWaits ==
  /\ stage = "showing"
  /\ Show(Pending)
  /\ stage' = IF StopRequested THEN "safe_point" ELSE "working"
  /\ UNCHANGED <<loopVars, stop, returned>>

\* The events are shown to the next worker, or stop the flow before it.
ShowPending ==
  /\ stage = "showing"
  /\ Show(Pending)
  /\ IF StopRequested
       THEN StopWith("blocked", "user_request")
       ELSE stage' = "working" /\ UNCHANGED stop
  /\ UNCHANGED <<loopVars, returned>>

\* A step that is not completed blocks the flow, as every failure policy here
\* says.
StepFails ==
  /\ stage = "working"
  /\ last' = step
  /\ StopWith("blocked", "step_not_completed")
  /\ UNCHANGED <<deliveryVars, step, turn, seen, revisions, detoured, returned>>

\* A step that ran, one that is skipped and one that is recovered return alike
\* to the routes; what a reviewer read of the report is not modelled here.
StepCompletes ==
  /\ stage = "working"
  /\ last' = step
  /\ stage' = "acking"
  /\ UNCHANGED <<deliveryVars, step, turn, seen, revisions, detoured, stop, returned>>

AckOne(event) ==
  /\ stage = "acking"
  /\ event \in seen
  /\ Consume(event)
  /\ seen' = seen \ {event}
  /\ UNCHANGED <<stage, step, turn, revisions, detoured, last, stop, returned>>

AckedAll ==
  /\ stage = "acking"
  /\ seen = {}
  /\ stage' = "routing"
  /\ UNCHANGED <<deliveryVars, loopVars, stop, returned>>

----------------------------------------------------------------------------
TargetsOf(decision) == {r[3] : r \in {s \in DeclaredRoutes : s[1] = step /\ s[2] = decision}}

GoTo(target) ==
  /\ stage' = "safe_point"
  /\ turn' = turn + 1
  /\ step' = target
  /\ revisions' = IF <<step, target>> = <<"reviewer", "researcher">>
                    THEN revisions + 1 ELSE revisions
  /\ detoured' = (detoured \/ <<step, target>> \notin
                                Onward \cup {<<"reviewer", "researcher">>})
  /\ UNCHANGED <<seen, last, stop>>

\* Mutant: one turn too many.
TurnsLeftOffByOne == turn <= MaxSteps

TurnsLeft == turn < MaxSteps

\* The decision artifact routes to a target, holds a decision without a route,
\* or none that can be read.
RouteOn(decision) ==
  /\ stage = "routing"
  /\ \E target \in TargetsOf(decision) :
       IF target \in FlowStatuses
         THEN StopWith(target, "terminal_route") /\ UNCHANGED loopVars
         ELSE IF TurnsLeft
                THEN GoTo(target)
                ELSE StopWith("blocked", "max_steps_exhausted") /\ UNCHANGED loopVars
  /\ UNCHANGED <<deliveryVars, returned>>

Unrouted ==
  /\ stage = "routing"
  /\ \E reason \in {"unrouted_decision", "invalid_decision_artifact"} :
       StopWith("blocked", reason)
  /\ UNCHANGED <<deliveryVars, loopVars, returned>>

----------------------------------------------------------------------------
\* _kernel_v2_projected_status.  The reviewer and the judge run only after
\* both of the steps whose outputs make a draft.
ProjectedStatus ==
  IF stop.status # "blocked" \/ stop.reason = "unrouted_decision"
    THEN stop.status
    ELSE CASE last = "reviewer" -> "review_blocked"
           [] last = "judge"    -> "judge_blocked"
           [] OTHER             -> "blocked"

\* The report is rendered, the claim index held against the source packet, the
\* usage summed up.  A claim index that is no object is not caught there, and
\* then the run ends without a status and a package.
Summarise ==
  /\ stage = "stopped"
  /\ stage' = "summarised"
  /\ UNCHANGED <<deliveryVars, loopVars, stop, returned>>

\* The run status and the result package are written from the flow's result.
Conclude ==
  /\ stage = "summarised"
  /\ returned' = ProjectedStatus
  /\ stage' = "off"
  /\ UNCHANGED <<deliveryVars, loopVars, stop>>

\* The run is left by an exception, or its process dies.
AbandonResearch ==
  /\ stage' = "off"
  /\ step' = "source_mapper" /\ turn' = 1 /\ seen' = {}
  /\ revisions' = 0 /\ detoured' = FALSE /\ last' = "none"
  /\ stop' = NoStop
  /\ returned' = "none"
  /\ UNCHANGED deliveryVars

Decided == {"ready_for_synthesis", "ready_for_review", "ready_for_judge",
            "continue", "blocked", "revise_report", "repair",
            "revision_required", "rejected", "accepted"}

ResearchStep ==
  \/ ReadPending \/ ShowPending
  \/ StepFails \/ StepCompletes
  \/ \E event \in Events : AckOne(event)
  \/ AckedAll
  \/ \E decision \in Decided : RouteOn(decision)
  \/ Unrouted
  \/ Summarise \/ Conclude
----------------------------------------------------------------------------
\* The review rounds that an intensity allows fit into the limit of the loop:
\* a flow that only goes onward and back from the reviewer, no more often than
\* that, is never stopped by the limit before its judge has spoken.
ReviewRoundsFit ==
  stop.reason = "max_steps_exhausted" =>
    revisions > MaxReviewRounds \/ detoured \/ last = "judge"
=============================================================================
