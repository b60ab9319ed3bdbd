----------------------------- MODULE FrontDesk -----------------------------
(***************************************************************************)
(* The front desk of DeepResearch (integrations/deepresearch, frontdesk.py *)
(* and the chat loop of tui.py): turns of a worker that writes a           *)
(* requirements document and a control decision, the research request      *)
(* projected from the document, and its approval.  A session lives in one  *)
(* run workspace; a process dies anywhere and another one goes on from the *)
(* files.  The worker of a process that was killed is not killed with it   *)
(* and goes on writing.                                                    *)
(*                                                                         *)
(* A half-written document is a document with another text, so it needs no *)
(* value of its own; a half-written JSON file is Torn.  The dialogue, the  *)
(* assistant's turn and the session state are written and shown, and no    *)
(* decision reads them.                                                    *)
(***************************************************************************)
EXTENDS Naturals

CONSTANTS
  Texts,         \* contents of the requirements document
  Template,      \* the one a new session starts with
  NoFile, Torn,
  NoApproval,
  MaxCalls       \* bound: worker calls of the session

ASSUME FrontDeskDeclarations ==
  /\ Template \in Texts
  /\ NoFile \notin Texts /\ Torn \notin Texts
  /\ NoFile \notin {"needs_user_answer", "ready_for_approval", "other"}
  /\ NoApproval \notin [request : Texts, requirements : Texts]
  /\ MaxCalls \in Nat

VARIABLES
  requirements,  \* research_requirements.md
  control,       \* frontdesk_control.json, by its decision
  request,       \* the text research_request.json was projected from
  projection,    \* requirements_hash of research_projection.json
  attempts,      \* directories of frontdesk/attempts
  phase,         \* where the process is; "off" when there is none
  callId,
  basis,         \* the text the process has read
  approved,      \* what approve_frontdesk_requirements returned
  orphans,       \* a worker of a process that died still runs
  latest,        \* the id of the last call made
  halfway        \* a projection was cut short after its request

documents == <<requirements, control>>
projected == <<request, projection, halfway>>
turnVars == <<callId, basis>>
runVars == <<orphans, latest>>
deskVars == <<documents, projected, attempts, phase, turnVars, approved, runVars>>

Decisions == {"needs_user_answer", "ready_for_approval"}

\* A worker may write a decision of its own, or something that is no JSON.
Controls == Decisions \cup {"other", Torn}

Phases == {"off", "idle", "opening", "controlling", "compiling", "starting",
           "calling", "answered", "reading", "projecting", "half", "reporting",
           "approving", "granting", "research"}

DeskTypeOK ==
  /\ requirements \in Texts \cup {NoFile}
  /\ control \in Controls \cup {NoFile}
  /\ request \in Texts \cup {NoFile, Torn}
  /\ projection \in Texts \cup {NoFile, Torn}
  /\ attempts \in 0..MaxCalls
  /\ phase \in Phases
  /\ callId \in 0..MaxCalls
  /\ basis \in Texts \cup {NoFile}
  /\ approved \in [request : Texts, requirements : Texts] \cup {NoApproval}
  /\ orphans \in BOOLEAN
  /\ latest \in 0..MaxCalls
  /\ halfway \in BOOLEAN

\* What a turn or an approval has in memory goes with it.
NoTurn == callId' = 0 /\ basis' = NoFile

DeskInit ==
  /\ requirements = NoFile /\ control = NoFile
  /\ request = NoFile /\ projection = NoFile /\ halfway = FALSE
  /\ attempts = 0
  /\ phase = "off"
  /\ callId = 0 /\ basis = NoFile
  /\ approved = NoApproval
  /\ orphans = FALSE /\ latest = 0

----------------------------------------------------------------------------
\* The process starts: the TUI, or one of the scripted commands.
Launch ==
  /\ phase = "off"
  /\ phase' = "idle"
  /\ UNCHANGED <<documents, projected, attempts, turnVars, approved, runVars>>

\* The user says something: a turn begins.
Message ==
  /\ phase = "idle"
  /\ attempts < MaxCalls
  /\ phase' = "opening"
  /\ UNCHANGED <<documents, projected, attempts, turnVars, approved, runVars>>

\* _write_frontdesk_workspace writes what is not there yet.
WriteTemplate ==
  /\ phase = "opening"
  /\ requirements' = IF requirements = NoFile THEN Template ELSE requirements
  /\ phase' = "controlling"
  /\ UNCHANGED <<control, projected, attempts, turnVars, approved, runVars>>

WriteControl ==
  /\ phase = "controlling"
  /\ control' = IF control = NoFile THEN "needs_user_answer" ELSE control
  /\ phase' = "compiling"
  /\ UNCHANGED <<requirements, projected, attempts, turnVars, approved, runVars>>

\* Mutant: only the requests projected so far are counted.
NextCallIdAfterRequests == IF request = NoFile THEN 1 ELSE attempts + 1

\* _next_frontdesk_call_id counts the directories there are.
NextCallId == attempts + 1

\* The call is compiled and its directory made, by its lock or by its record.
PrepareCall ==
  /\ phase = "compiling"
  /\ callId' = NextCallId
  /\ attempts' = IF callId' > attempts THEN callId' ELSE attempts
  /\ phase' = "starting"
  /\ UNCHANGED <<documents, projected, basis, approved, runVars>>

\* prepare_extension_lock refuses the extensions there are: the turn fails
\* before it has a directory, and the user may try again.
LockFails ==
  /\ phase = "compiling"
  /\ phase' = "idle"
  /\ NoTurn
  /\ UNCHANGED <<documents, projected, attempts, approved, runVars>>

StartWorker ==
  /\ phase = "starting"
  /\ phase' = "calling"
  /\ latest' = callId
  /\ UNCHANGED <<documents, projected, attempts, turnVars, approved, orphans>>

\* The worker of the call, or one that outlived its process.
AWorkerRuns == phase = "calling" \/ orphans

\* Any worker that runs, in any order and as often as it likes.
WriteRequirements(text) ==
  /\ AWorkerRuns
  /\ requirements' = text
  /\ UNCHANGED <<control, projected, attempts, phase, turnVars, approved, runVars>>

WriteDecision(decision) ==
  /\ AWorkerRuns
  /\ control' = decision
  /\ UNCHANGED <<requirements, projected, attempts, phase, turnVars, approved, runVars>>

\* Workers whose process died end some day.
OrphansEnd ==
  /\ orphans
  /\ orphans' = FALSE
  /\ UNCHANGED <<documents, projected, attempts, phase, turnVars, approved, latest>>

\* run_piworker_call returns: completed, not completed, or it raises what the
\* TUI catches, which is then all that is shown of the turn.
CallReturns ==
  /\ phase = "calling"
  /\ phase' \in {"answered", "reporting", "idle"}
  /\ IF phase' = "idle" THEN NoTurn ELSE UNCHANGED turnVars
  /\ UNCHANGED <<documents, projected, attempts, approved, runVars>>

\* _frontdesk_status of a completed call.  A control file that is no JSON is
\* not caught, and ends the process.
ReadDecision ==
  /\ phase = "answered"
  /\ phase' = CASE control = "ready_for_approval" -> "reading"
                [] control = Torn                 -> "off"
                [] OTHER                          -> "reporting"
  /\ IF phase' = "off" THEN NoTurn ELSE UNCHANGED turnVars
  /\ UNCHANGED <<documents, projected, attempts, approved, runVars>>

----------------------------------------------------------------------------
\* _write_research_request_projection reads the document once ...
ReadRequirements ==
  /\ phase = "reading"
  /\ basis' = requirements
  /\ phase' = "projecting"
  /\ UNCHANGED <<documents, projected, attempts, callId, approved, runVars>>

\* ... and writes two files from it.
WriteRequest ==
  /\ phase = "projecting"
  /\ request' = basis
  /\ halfway' = TRUE
  /\ phase' = "half"
  /\ UNCHANGED <<documents, projection, attempts, turnVars, approved, runVars>>

\* Mutant: the document is read again for its hash.
WriteProjectionRereads ==
  /\ phase = "half"
  /\ projection' = requirements
  /\ halfway' = FALSE
  /\ phase' = "reporting"
  /\ UNCHANGED <<documents, request, attempts, turnVars, approved, runVars>>

WriteProjection ==
  /\ phase = "half"
  /\ projection' = basis
  /\ halfway' = FALSE
  /\ phase' = "reporting"
  /\ UNCHANGED <<documents, request, attempts, turnVars, approved, runVars>>

\* The result of the turn is written and shown.
ReportTurn ==
  /\ phase = "reporting"
  /\ phase' = "idle"
  /\ NoTurn
  /\ UNCHANGED <<documents, projected, attempts, approved, runVars>>

----------------------------------------------------------------------------
\* approve_frontdesk_requirements.  A decision other than ready leaves the
\* user where he was; whatever fails after it ends the process.
Approve ==
  /\ phase = "idle"
  /\ control = "ready_for_approval"
  /\ phase' = "approving"
  /\ UNCHANGED <<documents, projected, attempts, turnVars, approved, runVars>>

\* The requirements are those the projection was made from.
UnchangedSinceProjection == projection = requirements

CompareHash ==
  /\ phase = "approving"
  /\ IF UnchangedSinceProjection
       THEN phase' = "granting" /\ basis' = requirements /\ UNCHANGED callId
       ELSE phase' = "off" /\ NoTurn
  /\ UNCHANGED <<documents, projected, attempts, approved, runVars>>

Grant ==
  /\ phase = "granting"
  /\ IF request \in Texts
       THEN /\ phase' = "research"
            /\ approved' = [request |-> request, requirements |-> basis]
       ELSE phase' = "off" /\ UNCHANGED approved
  /\ NoTurn
  /\ UNCHANGED <<documents, projected, attempts, runVars>>

\* The research run has returned, and with it the process.
Leave ==
  /\ phase = "research"
  /\ phase' = "off"
  /\ approved' = NoApproval
  /\ UNCHANGED <<documents, projected, attempts, turnVars, runVars>>

----------------------------------------------------------------------------
\* The process dies, but not the worker it waits for; a file it was writing
\* may be torn.
Die ==
  /\ phase # "off"
  /\ phase' = "off"
  /\ \/ UNCHANGED <<requirements, control, request, projection, halfway>>
     \/ /\ phase = "opening" /\ requirements = NoFile
        /\ requirements' \in Texts
        /\ UNCHANGED <<control, request, projection, halfway>>
     \/ /\ phase = "controlling" /\ control = NoFile
        /\ control' = Torn
        /\ UNCHANGED <<requirements, request, projection, halfway>>
     \/ /\ phase = "projecting"
        /\ request' = Torn /\ halfway' = TRUE
        /\ UNCHANGED <<requirements, control, projection>>
     \/ /\ phase = "half"
        /\ projection' = Torn
        /\ UNCHANGED <<requirements, control, request, halfway>>
  /\ NoTurn
  /\ approved' = NoApproval
  /\ orphans' = (orphans \/ phase = "calling")
  /\ UNCHANGED <<attempts, latest>>

\* What the process of the desk does by itself once it was asked.
DeskStep ==
  \/ WriteTemplate \/ WriteControl
  \/ PrepareCall \/ LockFails \/ StartWorker \/ CallReturns
  \/ ReadDecision
  \/ ReadRequirements \/ WriteRequest \/ WriteProjection
  \/ ReportTurn
  \/ CompareHash \/ Grant

UserStep == Launch \/ Message \/ Approve

WorkerStep ==
  \/ \E text \in Texts : WriteRequirements(text)
  \/ \E decision \in Controls : WriteDecision(decision)
  \/ OrphansEnd
----------------------------------------------------------------------------
\* What a user approves is what will be researched: the frozen request was
\* projected from exactly the requirements that stood when they were compared,
\* whatever turns failed or were cut short before and whichever workers of dead
\* processes still write.  The code keeps it as long as no process died between
\* the request and the projection: see the README.
ApprovedRequestStands ==
  (phase = "research" /\ ~halfway) => approved.request = approved.requirements

\* A call id names the directory of one worker call, also after processes that
\* died before, during or after their call.
CallIdsFresh ==
  [][phase = "starting" /\ phase' = "calling" => callId > latest]_deskVars
=============================================================================
