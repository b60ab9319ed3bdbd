--------------------------- MODULE WorkerAttempt ---------------------------
(***************************************************************************)
(* What a step may expect of one call of a worker, whatever happens to the *)
(* worker's process: it changes refs it may write and nothing else, and it *)
(* is reported completed only if it changed every expected output and all  *)
(* of them are there.  KernelStep assumes exactly this of PiAgent, in      *)
(* WorkerWrite and PiAgentReport.                                          *)
(***************************************************************************)
CONSTANTS
  Writable,   \* the refs a worker may change
  Outputs,    \* the expected outputs of the call
  NoReport

VARIABLES
  exists,   \* the refs that have a file
  changed,  \* the refs the worker changed during this call
  report    \* the last report: its status and output refs

attemptVars == <<exists, changed, report>>

Statuses == {"completed", "failed"}

AttemptInit ==
  /\ exists \subseteq Writable
  /\ changed = {}
  /\ report = NoReport

Begin ==
  /\ changed' = {}
  /\ report' = NoReport
  /\ UNCHANGED exists

\* Refs of S are written or removed.
Change(S) ==
  /\ report = NoReport
  /\ exists' \in {(exists \ S) \cup T : T \in SUBSET S}
  /\ changed' = changed \cup S
  /\ UNCHANGED report

Report(status, outputs) ==
  /\ report = NoReport
  /\ status = "completed" => Outputs \subseteq changed \cap exists
  /\ Outputs \cap exists \subseteq outputs
  /\ outputs \subseteq (Outputs \cap exists) \cup changed
  /\ report' = [status |-> status, outputs |-> outputs]
  /\ UNCHANGED <<exists, changed>>

AttemptNext ==
  \/ Begin
  \/ \E S \in SUBSET Writable : Change(S)
  \/ \E status \in Statuses, outputs \in SUBSET Writable :
       Report(status, outputs)

AttemptSpec == AttemptInit /\ [][AttemptNext]_attemptVars
=============================================================================
