---------------------------- MODULE PiAgentCall ----------------------------
(***************************************************************************)
(* PiAgentRuntimeAdapter.run_call (adapters/pi_agent_runtime.py) around    *)
(* the worker process: start it with a timeout, take the output artifact   *)
(* it left or write a failed one, hold it against the workspace, report.   *)
(*                                                                         *)
(* The directory of a call is named by its call id, so a call made again   *)
(* finds the output artifact and the savepoints of the earlier ones.       *)
(***************************************************************************)
EXTENDS PiWorkerRuntime

CONSTANTS NoResult, NoReport

VARIABLES
  adapter,  \* where run_call is
  result,   \* run_result
  report    \* status and output refs of the ExecutionReport

callVars == <<workerVars, adapter, result, report>>

CallTypeOK ==
  /\ WorkerTypeOK
  /\ adapter \in {"idle", "running", "loaded", "enforced"}
  /\ result \in RunOutputs \cup {NoResult}
  /\ report \in [status : {"completed", "failed"}, outputs : SUBSET Refs]
                  \cup {NoReport}

CallInit ==
  /\ WorkerInit
  /\ adapter = "idle"
  /\ result = NoResult
  /\ report = NoReport

----------------------------------------------------------------------------
\* run_call writes its input documents and starts the process.
RunCall ==
  /\ adapter = "idle"
  /\ attempt < MaxAttempts
  /\ adapter' = "running"
  /\ result' = NoResult
  /\ report' = NoReport
  /\ StartWorker

\* _prepare_default_runtime_command: the worker is not built and npm fails;
\* or the command cannot be run at all.
SetupFails ==
  /\ adapter = "running"
  /\ worker = "starting"
  /\ worker' = "off"
  /\ exit' \in {"error", "timeout"}
  /\ UNCHANGED <<workspace, logs, run, loop, verdict, command, adapter,
                 result, report>>

\* Mutant: only an exit code counts, so that the timeout of a process does not.
CommandFailedByCode == exit = "error"

\* _command_failure.
CommandFailed == exit \in {"error", "timeout"}

\* _write_failure_result: nothing the process left is believed.
FailureResult == [status |-> "failed", produced |-> {}]

\* _load_or_failure_result.
LoadResult ==
  /\ adapter = "running"
  /\ exit # "none"
  /\ worker = "off"
  /\ result' = IF CommandFailed \/ outputFile \in {NoOutput, Torn}
                 THEN FailureResult ELSE outputFile
  /\ outputFile' = result'
  /\ adapter' = "loaded"
  /\ UNCHANGED <<workspace, savepoints, run, loop, verdict, worker, command,
                 exit, report>>

\* _output_package_refs: what was produced, and every expected output there is.
OutputPackage == result.produced \cup (Outputs \cap exists)

\* missing_outputs and missing_files of _enforce_output_contract.
PackageHolds ==
  /\ Outputs \subseteq OutputPackage
  /\ result.produced \subseteq exists

\* _can_recover_completed_artifact_package.
Recoverable ==
  /\ result.status = "failed"
  /\ PackageHolds
  /\ Outputs \subseteq result.produced
  /\ savepoints # {}

\* _enforce_output_contract; a rewritten result keeps what was produced and
\* replaces the output artifact.
EnforcedStatus ==
  CASE Recoverable -> "completed"
    [] result.status = "completed" /\ ~PackageHolds -> "failed"
    [] result.status \in {"completed", "cancelled"} /\ savepoints = {} -> "failed"
    [] OTHER -> result.status

EnforceContract ==
  /\ adapter = "loaded"
  /\ result' = [result EXCEPT !.status = EnforcedStatus]
  /\ outputFile' = result'
  /\ adapter' = "enforced"
  /\ UNCHANGED <<workspace, savepoints, run, loop, verdict, worker, command,
                 exit, report>>

\* The ExecutionReport: a cancelled call is reported failed.
WriteReport ==
  /\ adapter = "enforced"
  /\ report' = [status  |-> IF result.status = "completed" THEN "completed"
                                                           ELSE "failed",
                outputs |-> OutputPackage]
  /\ adapter' = "idle"
  /\ UNCHANGED <<workerVars, result>>

----------------------------------------------------------------------------
WorkerRuns == WorkerStep /\ UNCHANGED <<adapter, result, report>>

WorkerDies ==
  /\ \E how \in {"error", "timeout"} : Killed(how)
  /\ UNCHANGED <<adapter, result, report>>

AdapterStep == LoadResult \/ EnforceContract \/ WriteReport

CallNext ==
  \/ RunCall
  \/ SetupFails
  \/ WorkerRuns
  \/ WorkerDies
  \/ AdapterStep

CallSpec == CallInit /\ [][CallNext]_callVars

(***************************************************************************)
(* The adapter and the worker go on executing; a provider answers or       *)
(* throws; a command ends, at the latest at its timeout; the tool calls of *)
(* an answer are finitely many, so the tools of a turn are done however    *)
(* many commands it starts.  Nothing here relies on the adapter's timeout. *)
(***************************************************************************)
WorkerGoesOn ==
  \/ MainRejects \/ BoundaryReady \/ BoundaryFails
  \/ TurnStart
  \/ \E kind \in {"tools", "text"} \cup Failures : Answer(kind)
  \/ \E kind \in Failures : ProviderThrows(kind)
  \/ TurnEnd
  \/ \E pressure \in {"low", "soft", "hard"}, writable \in BOOLEAN :
       StopCheck(pressure, writable)
  \/ Remind \/ PromptsDone
  \/ WriteOutput \/ ProcessEnds

CallFairness ==
  /\ WF_callVars(AdapterStep)
  /\ WF_callVars(WorkerGoesOn /\ UNCHANGED <<adapter, result, report>>)
  /\ WF_callVars(CommandEnds /\ UNCHANGED <<adapter, result, report>>)
  /\ SF_callVars(ToolsDone /\ UNCHANGED <<adapter, result, report>>)
  /\ SF_callVars(ProcessEnds /\ UNCHANGED <<adapter, result, report>>)

FairCallSpec == CallSpec /\ CallFairness

----------------------------------------------------------------------------
(***************************************************************************)
(* A step is told no more than the worker of this very call did: whatever  *)
(* the process leaves behind, however it ends, and whatever earlier calls  *)
(* left in the directory of the call, a completed report means that this   *)
(* process changed every expected output and that all are there, and       *)
(* nothing of the worker changes a file after the report.                  *)
(***************************************************************************)
Promise == INSTANCE WorkerAttempt
             WITH changed <- touched

ImplementsAttempt == Promise!AttemptSpec

(***************************************************************************)
(* A cancelled run tells its caller to resume from a savepoint of a        *)
(* completed turn: this very run has left one.                             *)
(***************************************************************************)
CancelledCanResume ==
  (adapter = "enforced" /\ result.status = "cancelled") => attempt \in savepoints

(***************************************************************************)
(* The reminders for missing outputs share the turn limit with the main    *)
(* prompt.  A main prompt that ended by itself leaves them the turns kept  *)
(* for them, but for one turn for each time the provider was asked again.  *)
(***************************************************************************)
ReserveKept ==
  (worker = "prompted" /\ reminders = 0) =>
    \/ turns <= 1 + tries
    \/ turns + CompletionRetries <= MaxTurns + tries

(***************************************************************************)
(* Every call ends with a report, also of a model that never stops calling *)
(* tools, of a provider that fails again and again, and of a worker that   *)
(* never writes what it is reminded of.                                    *)
(***************************************************************************)
CallEnds == (adapter = "running") ~> (adapter = "idle")
=============================================================================
