---------------------------- MODULE DeepResearch ----------------------------
(***************************************************************************)
(* A DeepResearch session: the front desk, and the research run that an    *)
(* approval starts, in one process after the other over one run workspace  *)
(* (tui.py, cli.py).                                                       *)
(***************************************************************************)
EXTENDS FrontDesk, ResearchFlow

sessionVars == <<deskVars, researchVars>>

SessionTypeOK ==
  /\ DeskTypeOK
  /\ ResearchTypeOK
  /\ stage # "off" => phase = "research"

SessionInit == DeskInit /\ ResearchInit

\* The desk, alone in its process.
Desk ==
  /\ DeskStep \/ UserStep
  /\ UNCHANGED researchVars

\* The worker of a turn, and those of processes that died.
Workers ==
  /\ WorkerStep
  /\ UNCHANGED researchVars

\* _run_approved_research: the run of an approved request, and the listener.
Begin ==
  /\ phase = "research"
  /\ returned = "none"
  /\ StartResearch
  /\ UNCHANGED deskVars

Research ==
  /\ ResearchStep
  /\ UNCHANGED deskVars

Listen ==
  /\ \E event \in Events : UserTypes(event)
  /\ UNCHANGED deskVars

\* The TUI prints the result and ends.
Finish ==
  /\ returned # "none"
  /\ Leave
  /\ AbandonResearch

ProcessDies == Die /\ AbandonResearch

SessionStep == (DeskStep /\ UNCHANGED researchVars) \/ Begin \/ Research \/ Finish

SessionNext == Desk \/ Workers \/ Begin \/ Research \/ Listen \/ Finish \/ ProcessDies

SessionSpec == SessionInit /\ [][SessionNext]_sessionVars

\* A worker call and a step of the flow return, because their workers run with
\* a timeout (PiAgentCall), and Python goes on executing.
FairSessionSpec == SessionSpec /\ WF_sessionVars(SessionStep)
----------------------------------------------------------------------------
\* A user who says something or approves gets an answer: the turn is reported,
\* refused or the run is over, however often the reviewers send work back and
\* whatever he types meanwhile.
SessionAnswers == phase \notin {"off", "idle"} ~> phase \in {"off", "idle"}
=============================================================================
