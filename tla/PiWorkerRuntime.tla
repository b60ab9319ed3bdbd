-------------------------- MODULE PiWorkerRuntime --------------------------
(***************************************************************************)
(* The worker process of one call (workers/pi-agent-runtime: main.ts,      *)
(* runtime.ts, sandbox.ts, filesystem-snapshot.ts, evidence-recorder.ts,   *)
(* result-writer.ts): turns of a model with tools, provider retries,       *)
(* reminders for missing outputs, checkpoints, cancellation, and the       *)
(* output artifact it leaves.                                              *)
(*                                                                         *)
(* A failure message is "transient" when isTransientProviderFailure says   *)
(* so and "fatal" otherwise.  The agent loop itself is a library: it emits *)
(* turn_start, asks the provider, runs the tools the answer calls, emits   *)
(* turn_end and, unless the answer was an error, asks                      *)
(* shouldStopAfterTurn.                                                    *)
(***************************************************************************)
EXTENDS ToolAuthority, Naturals

CONSTANTS
  Directories,      \* the refs that name directories
  Outputs,          \* call_spec.expected_outputs
  Scope,            \* call_spec.allowed_scope
  FirstOutput,      \* the first expected output, the faux provider's fallback
  Providers,        \* the provider settings a process may find, see below
  Bash,             \* the manifest allows a command
  MaxTurns,         \* effectiveMaxTurns
  ProviderRetries,  \* provider.providerRetryLimit
  CompletionRetries,\* DEFAULT_COMPLETION_RETRY_LIMIT
  MaxAttempts,      \* bound: calls of the same call id
  NoOutput, Torn    \* no output artifact, and one cut off while written

\* resolveProviderConfig: faux or real, and the turns after which the process
\* writes a checkpoint and cancels itself, 0 for never.
ProviderConfigs == [faux : BOOLEAN, compactAfter : Nat, cancelAfter : Nat]

\* PiAgentCallSpec.from_call: the refs a call may write, and what it owes; the
\* outputs are files that the gateway lets the worker write.
CallSpecValid ==
  /\ Outputs \subseteq GatewayWrites \ Directories
  /\ FirstOutput \in Outputs
  /\ Scope \subseteq Refs

ASSUME WorkerDeclarations ==
  /\ CallSpecValid
  /\ Providers \subseteq ProviderConfigs
  /\ Bash \in BOOLEAN
  /\ MaxTurns \in Nat \ {0}
  /\ ProviderRetries \in Nat /\ CompletionRetries \in Nat
  /\ MaxAttempts \in Nat

VARIABLES
  exists,      \* refs with a file
  touched,     \* refs this process wrote or removed
  before,      \* refs in the snapshot at start
  seen,        \* refs whose size or time differs from that snapshot
  savepoints,  \* the attempts that have a line in the savepoints file
  outputFile,  \* the output artifact
  attempt,     \* how often the call was made
  worker,      \* where the process is
  provider,    \* its provider settings
  turns,       \* turnStartCount
  tries,       \* provider retries of this prompt
  reminders,   \* retryCount of promptForMissingExpectedOutputs
  answer,      \* what the model answered, until the turn is over
  failures,    \* kinds of messages in failures
  cancelled, checkpointed,
  command,     \* a bash command runs
  exit         \* the exit code, or how the process was killed

\* The files a worker may write.
Writable == GatewayWrites \ Directories

workspace == <<exists, touched, before, seen>>
logs == <<savepoints, outputFile>>
run == <<attempt, provider>>
loop == <<turns, tries, reminders, answer>>
verdict == <<failures, cancelled, checkpointed>>
workerVars == <<workspace, logs, run, loop, verdict, worker, command, exit>>

Failures == {"transient", "fatal"}

Stages == {"off", "starting", "turn", "answering", "tools", "turn_end",
           "stop_check", "prompted", "closing", "leaving"}

RunOutputs == [status   : {"completed", "failed", "cancelled"},
               produced : SUBSET Refs]

WorkerTypeOK ==
  /\ exists \subseteq Writable
  /\ touched \subseteq Writable
  /\ before \subseteq Writable
  /\ seen \subseteq touched \cap exists
  /\ savepoints \subseteq 1..attempt
  /\ outputFile \in RunOutputs \cup {NoOutput, Torn}
  /\ attempt \in 0..MaxAttempts
  /\ worker \in Stages
  /\ provider \in Providers
  /\ turns \in 0..MaxTurns + 1
  /\ tries \in 0..ProviderRetries
  /\ reminders \in 0..CompletionRetries
  /\ answer \in Failures \cup {"none", "tools", "text"}
  /\ failures \subseteq Failures
  /\ cancelled \in BOOLEAN /\ checkpointed \in BOOLEAN /\ command \in BOOLEAN
  /\ exit \in {"none", "zero", "error", "timeout"}

WorkerInit ==
  /\ exists \in SUBSET Writable
  /\ touched = {} /\ before = {} /\ seen = {}
  /\ savepoints = {}
  /\ outputFile = NoOutput
  /\ attempt = 0
  /\ worker = "off"
  /\ provider \in Providers
  /\ turns = 0 /\ tries = 0 /\ reminders = 0
  /\ answer = "none"
  /\ failures = {}
  /\ cancelled = FALSE /\ checkpointed = FALSE /\ command = FALSE
  /\ exit = "none"

----------------------------------------------------------------------------
\* Mutant: no turn is kept for the reminders.
MainTurnLimitUnreserved == MaxTurns

MinOf(m, n) == IF m <= n THEN m ELSE n

\* mainTurnLimitWithCompletionReserve; a call has at least one output.
MainTurnLimit ==
  IF MaxTurns <= 1 \/ CompletionRetries = 0
    THEN MaxTurns
    ELSE MaxTurns - MinOf(CompletionRetries, MaxTurns - 1)

\* collectMissingExpectedOutputRefs.
MissingOutputs == Outputs \ (exists \cap seen)

\* The files of refs S are written.  changedRefs sees every new file, but not
\* one that has the size and the millisecond it had in the snapshot.
Written(S) ==
  /\ exists' = exists \cup S
  /\ touched' = touched \cup S
  /\ \E unseen \in SUBSET (S \cap before) :
       seen' = (seen \cup S) \ unseen
  /\ UNCHANGED before

\* The process starts: snapshotWorkspace, before anything can be written.
StartWorker ==
  /\ attempt' = attempt + 1
  /\ worker' = "starting"
  /\ provider' \in Providers
  /\ touched' = {} /\ before' = exists /\ seen' = {}
  /\ turns' = 0 /\ tries' = 0 /\ reminders' = 0
  /\ answer' = "none"
  /\ failures' = {}
  /\ cancelled' = FALSE /\ checkpointed' = FALSE
  /\ exit' = "none"
  /\ UNCHANGED <<exists, logs, command>>

\* The exit code is set; the process lives on while a command it started does.
Exits(code) ==
  /\ worker' = "leaving"
  /\ exit' = code
  /\ UNCHANGED command

\* The catch of main: the input does not parse, no provider is configured, or
\* runMissionForgePiAgent rejects outside of its own try.  The failed output
\* is written only if the input had parsed.
MainRejects ==
  /\ worker \in {"starting", "closing"}
  /\ \/ outputFile' = [status |-> "failed", produced |-> {}]
     \/ worker = "starting" /\ UNCHANGED outputFile
  /\ Exits("error")
  /\ UNCHANGED <<workspace, savepoints, run, loop, verdict>>

\* Long memory, the extension lock and the tools are loaded; what throws here
\* is caught by runMissionForgePiAgent itself.
BoundaryReady ==
  /\ worker = "starting"
  /\ worker' = "turn"
  /\ UNCHANGED <<workspace, logs, run, loop, verdict, command, exit>>

BoundaryFails ==
  /\ worker = "starting"
  /\ worker' = "closing"
  /\ failures' = failures \cup {"fatal"}
  /\ UNCHANGED <<workspace, logs, run, loop, cancelled, checkpointed,
                 command, exit>>

\* The catch of runMissionForgePiAgent, once the tools are there: a failure,
\* and with the faux provider an artifact in place of the first output.
Caught(kind) ==
  /\ worker' = "closing"
  /\ failures' = failures \cup {kind}
  /\ \/ ~provider.faux /\ UNCHANGED workspace
     \/ provider.faux /\ Written({FirstOutput})

----------------------------------------------------------------------------
\* Mutant: provider retries do not count their turns.
TurnStartRetriesFree ==
  /\ worker = "turn"
  /\ worker' = "answering"
  /\ turns' = IF tries = 0 THEN turns + 1 ELSE turns
  /\ UNCHANGED <<workspace, logs, run, tries, reminders, answer, verdict,
                 command, exit>>

\* recordEvent(turn_start); one turn too many throws.
TurnStart ==
  /\ worker = "turn"
  /\ turns' = turns + 1
  /\ IF turns' > MaxTurns
       THEN Caught("fatal")
       ELSE worker' = "answering" /\ UNCHANGED <<workspace, failures>>
  /\ UNCHANGED <<logs, run, tries, reminders, answer, cancelled, checkpointed,
                 command, exit>>

\* The provider answers with tool calls, with text, or with an error message.
Answer(kind) ==
  /\ worker = "answering"
  /\ answer' = kind
  /\ worker' = IF kind = "tools" THEN "tools" ELSE "turn_end"
  /\ UNCHANGED <<workspace, logs, run, turns, tries, reminders, verdict,
                 command, exit>>

\* runAgentLoopWithProviderRetry: a transient failure starts the prompt again,
\* with the transcript and the turns it had, up to the limit.
ProviderThrows(kind) ==
  /\ worker = "answering"
  /\ IF kind = "transient" /\ tries < ProviderRetries
       THEN /\ tries' = tries + 1
            /\ worker' = "turn"
            /\ UNCHANGED <<workspace, failures>>
       ELSE Caught(kind) /\ UNCHANGED tries
  /\ UNCHANGED <<logs, run, turns, reminders, answer, cancelled, checkpointed,
                 command, exit>>

\* writeSavepoint, after every completed turn.
WriteSavepoint == savepoints' = savepoints \cup {attempt}

\* writeContextCheckpoint, at most once for a process.
MarkCheckpoint(due) == checkpointed' = (checkpointed \/ due)

\* The recorder cannot write an event, a savepoint or a checkpoint; tools that
\* run go on.
RecorderThrows ==
  /\ worker \in {"answering", "tools", "turn_end"}
  /\ Caught("fatal")
  /\ \/ UNCHANGED savepoints
     \/ worker = "turn_end" /\ WriteSavepoint
  /\ answer' = "none"
  /\ UNCHANGED <<outputFile, run, turns, tries, reminders, cancelled,
                 checkpointed, command, exit>>

----------------------------------------------------------------------------
\* write and edit, behind the gateway.
ToolWrites(ref) ==
  /\ worker = "tools"
  /\ ref \in Writable
  /\ Written({ref})
  /\ UNCHANGED <<logs, run, loop, verdict, worker, command, exit>>

\* ensureWritableHostPath creates what a writable mount needs and is not there.
CreateMounts ==
  Written(((WriteRoots \cap SandboxWrites) \ Directories) \ exists)

\* bash, when the gateway lets the command through: bubblewrap runs it.
StartCommand ==
  /\ worker = "tools"
  /\ Bash
  /\ ~command
  /\ command' = TRUE
  /\ CreateMounts
  /\ UNCHANGED <<logs, run, loop, verdict, worker, exit>>

CommandWrites(ref) ==
  /\ command
  /\ ref \in SandboxWrites \ Directories
  /\ Written({ref})
  /\ UNCHANGED <<logs, run, loop, verdict, worker, command, exit>>

\* A command cannot remove what is itself a mount.
CommandRemoves(ref) ==
  /\ command
  /\ ref \in (SandboxWrites \ WriteRoots) \cap exists
  /\ exists' = exists \ {ref}
  /\ touched' = touched \cup {ref}
  /\ seen' = seen \ {ref}
  /\ UNCHANGED before
  /\ UNCHANGED <<logs, run, loop, verdict, worker, command, exit>>

\* The command exits, or its process group is killed at the tool timeout.
CommandEnds ==
  /\ command
  /\ command' = FALSE
  /\ UNCHANGED <<workspace, logs, run, loop, verdict, worker, exit>>

ToolsDone ==
  /\ worker = "tools"
  /\ ~command
  /\ worker' = "turn_end"
  /\ UNCHANGED <<workspace, logs, run, loop, verdict, command, exit>>

----------------------------------------------------------------------------
\* Mutant: only a turn that called tools leaves a savepoint.
TurnEndSavesTools ==
  /\ worker = "turn_end"
  /\ savepoints' = IF answer = "tools" THEN savepoints \cup {attempt} ELSE savepoints
  /\ checkpointed' = (checkpointed \/ provider.compactAfter \in 1..turns)
  /\ worker' = IF answer \in Failures THEN "prompted" ELSE "stop_check"
  /\ failures' = failures \cup ({answer} \cap Failures)
  /\ answer' = IF worker' = "stop_check" THEN answer ELSE "none"
  /\ UNCHANGED <<workspace, cancelled, outputFile, run, turns, tries, reminders,
                 command, exit>>

\* recordEvent(turn_end): the savepoint, then a checkpoint after CompactAfter
\* turns, then cancellation after CancelAfter turns, which throws.  An error
\* answer ends the loop, and collectAgentFailures takes its message.
TurnEnd ==
  /\ worker = "turn_end"
  /\ WriteSavepoint
  /\ MarkCheckpoint(provider.compactAfter \in 1..turns)
  /\ IF provider.cancelAfter \in 1..turns
       THEN cancelled' = TRUE /\ Caught("fatal")
       ELSE /\ worker' = IF answer \in Failures THEN "prompted" ELSE "stop_check"
            /\ failures' = failures \cup ({answer} \cap Failures)
            /\ UNCHANGED <<workspace, cancelled>>
  /\ answer' = IF worker' = "stop_check" THEN answer ELSE "none"
  /\ UNCHANGED <<outputFile, run, turns, tries, reminders, command, exit>>

\* shouldStopAfterTurn under a context pressure: a checkpoint unless one was
\* written, whose failure is only noted; then stop when nothing is missing or
\* the main prompt has used its turns; then stop, cancelled, at a checkpoint
\* of this turn under hard pressure.  Otherwise the loop ends with text and
\* goes on with tools.
StopCheck(pressure, writable) ==
  LET due  == ~checkpointed /\ pressure # "low"
      hard == due /\ writable /\ pressure = "hard"
      stop == MissingOutputs = {} \/ turns >= MainTurnLimit
  IN  /\ worker = "stop_check"
      /\ MarkCheckpoint(due /\ writable)
      /\ failures' = IF due /\ ~writable THEN failures \cup {"fatal"} ELSE failures
      /\ cancelled' = (cancelled \/ (~stop /\ hard))
      /\ worker' = IF stop \/ hard \/ answer = "text" THEN "prompted" ELSE "turn"
      /\ answer' = "none"
      /\ UNCHANGED <<workspace, logs, run, turns, tries, reminders, command, exit>>

\* Mutant: one reminder too many.
RemindOnceMore ==
  /\ worker = "prompted"
  /\ MissingOutputs # {}
  /\ reminders <= CompletionRetries
  /\ turns < MaxTurns
  /\ reminders' = reminders + 1
  /\ tries' = 0
  /\ worker' = "turn"
  /\ UNCHANGED <<workspace, logs, run, turns, answer, verdict, command, exit>>

\* promptForMissingExpectedOutputs: one more prompt, of the same call.
Remind ==
  /\ worker = "prompted"
  /\ MissingOutputs # {}
  /\ reminders < CompletionRetries
  /\ turns < MaxTurns
  /\ reminders' = reminders + 1
  /\ tries' = 0
  /\ worker' = "turn"
  /\ UNCHANGED <<workspace, logs, run, turns, answer, verdict, command, exit>>

\* The session is written, or it cannot be, which is caught.
PromptsDone ==
  /\ worker = "prompted"
  /\ \/ MissingOutputs = {}
     \/ reminders = CompletionRetries
     \/ turns >= MaxTurns
  /\ \/ worker' = "closing" /\ UNCHANGED <<workspace, failures>>
     \/ Caught("fatal")
  /\ UNCHANGED <<logs, run, loop, cancelled, checkpointed, command, exit>>

\* statusOverride and buildRuntimeOutput.
FinalStatus ==
  IF cancelled /\ (failures # {} \/ MissingOutputs # {})
    THEN "cancelled"
    ELSE IF MissingOutputs = {} /\ failures \subseteq (IF cancelled THEN {} ELSE {"transient"})
           THEN "completed"
           ELSE "failed"

\* The refs that changed and are there: the expected outputs, then the rest of
\* the allowed scope.
Produced == seen \cap exists \cap (Outputs \cup Scope)

\* writeRuntimeOutput, and exit code 0.
WriteOutput ==
  /\ worker = "closing"
  /\ outputFile' = [status |-> FinalStatus, produced |-> Produced]
  /\ Exits("zero")
  /\ UNCHANGED <<workspace, savepoints, run, loop, verdict>>

ProcessEnds ==
  /\ worker = "leaving"
  /\ ~command
  /\ worker' = "off"
  /\ UNCHANGED <<workspace, logs, run, loop, verdict, command, exit>>

\* The adapter's timeout kills the process, or it dies by itself, possibly
\* in the middle of its output artifact.  Its command dies with it
\* (--die-with-parent).
Killed(how) ==
  /\ worker # "off"
  /\ how \in {"error", "timeout"}
  /\ \/ UNCHANGED outputFile
     \/ worker = "closing" /\ outputFile' = Torn
  /\ worker' = "off"
  /\ command' = FALSE
  /\ exit' = how
  /\ UNCHANGED <<workspace, savepoints, run, loop, verdict>>

\* The steps of the process and of the command it runs.
WorkerStep ==
  \/ MainRejects \/ BoundaryReady \/ BoundaryFails
  \/ TurnStart
  \/ \E kind \in {"tools", "text"} \cup Failures : Answer(kind)
  \/ \E kind \in Failures : ProviderThrows(kind)
  \/ RecorderThrows
  \/ \E ref \in Writable : ToolWrites(ref)
  \/ StartCommand
  \/ \E ref \in SandboxWrites \ Directories : CommandWrites(ref) \/ CommandRemoves(ref)
  \/ CommandEnds
  \/ ToolsDone
  \/ TurnEnd
  \/ \E pressure \in {"low", "soft", "hard"}, writable \in BOOLEAN :
       StopCheck(pressure, writable)
  \/ Remind \/ PromptsDone
  \/ WriteOutput \/ ProcessEnds
=============================================================================
