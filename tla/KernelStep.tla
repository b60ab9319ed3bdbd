----------------------------- MODULE KernelStep -----------------------------
(***************************************************************************)
(* run_step (kernel/runner.py): compile one Step, skip it when its         *)
(* artifact boundary is current, otherwise run the PiWorker with bounded   *)
(* retries and write piworker_call_result.json, then step_record.json.     *)
(*                                                                         *)
(* Durable state is the workspace; everything else is the Python process   *)
(* that runs the step and is lost in a crash.  write_json_ref truncates a  *)
(* file before it writes it, so the two JSON artifacts a later run reads   *)
(* back pass through Torn.  Files of a step that nothing reads back        *)
(* (step_spec, piworker_call, permission_manifest, attempts/*, reuse       *)
(* records) are not kept.                                                  *)
(***************************************************************************)
EXTENDS KernelContracts

CONSTANTS
  PiAgent,       \* TRUE: PiAgentRuntimeAdapter; FALSE: any PiWorkerCallAdapter
  ResumeModes,   \* the values of run_step's resume flag a host uses
  MaxEdits,      \* bound: changes the host makes to files and packages
  NoCall, NoResult, NoOutcome

ASSUME StepParameters ==
  /\ PiAgent \in BOOLEAN
  /\ ResumeModes \subseteq BOOLEAN
  /\ MaxEdits \in Nat

VARIABLES
  file,        \* contents of the workspace refs
  stepRecord,  \* step_record.json of each step directory
  callResult,  \* piworker_call_result.json of each step directory
  lockFile,    \* extension_lock.json of each step directory
  installed,   \* the installed extension package
  edits,       \* changes the host has made so far
  phase,       \* where run_step is
  call,        \* the compiled call, and what was hashed before the skip check
  attempt,     \* attempt_index
  written,     \* refs the worker changed in this attempt
  final,       \* the result of the last attempt
  outcome,     \* what run_step returns
  made         \* history: <<work, ref, content>> written by a worker

durable == <<file, stepRecord, callResult, lockFile, installed, edits>>
process == <<phase, call, attempt, written, final, outcome>>
stepVars == <<durable, process, made>>

Phases == {"idle", "check", "lock", "attempt", "working", "save_result",
           "result_open", "save_record", "record_open", "done", "raised"}

Calls == [key : Keys, work : Works, lock : Packages \cup {NoLock},
          resume : BOOLEAN]

Outcomes == [status : StepStatus, recovered : BOOLEAN]

step == call.work.step

Expected == Outputs[step]

StepTypeOK ==
  /\ file \in [Refs -> Contents \cup {Missing}]
  /\ stepRecord \in [Keys -> Records \cup {Absent, Torn}]
  /\ callResult \in [Keys -> Results \cup {Absent, Torn}]
  /\ lockFile \in [Keys -> Packages \cup {NoLock}]
  /\ installed \in Packages \cup {NoLock}
  /\ edits \in 0..MaxEdits
  /\ phase \in Phases
  /\ call \in Calls \cup {NoCall}
  /\ attempt \in Nat
  /\ written \in SUBSET Refs
  /\ final \in Results \cup {NoResult}
  /\ outcome \in Outcomes \cup {NoOutcome}
  /\ made \subseteq Works \X Refs \X Contents

StepInit ==
  /\ file \in [Refs -> Contents \cup {Missing}]
  /\ \A r \in Refs : file[r] \in ContentsOf[r] \cup {Missing}
  /\ stepRecord = [k \in Keys |-> Absent]
  /\ callResult = [k \in Keys |-> Absent]
  /\ lockFile = [k \in Keys |-> NoLock]
  /\ installed \in Packages \cup {NoLock}
  /\ edits = 0
  /\ phase = "idle"
  /\ call = NoCall
  /\ attempt = 0
  /\ written = {}
  /\ final = NoResult
  /\ outcome = NoOutcome
  /\ made = {}

----------------------------------------------------------------------------
\* compile_step and the hashes taken before the skip check.
Invoke(key, context, snap, resume) ==
  /\ phase = "idle"
  /\ phase' = "check"
  /\ call' = [key    |-> key,
              work   |-> [step    |-> StepOf(key),
                          context |-> context,
                          snap    |-> snap,
                          inputs  |-> HashRefs(file, Inputs[StepOf(key)])],
              lock   |-> lockFile[key],
              resume |-> resume]
  /\ UNCHANGED <<durable, attempt, written, final, outcome, made>>

\* Mutant: the input hashes are not compared.
CurrentWithoutInputs(record) ==
  /\ record.work.step = step
  /\ record.work.context = call.work.context
  /\ record.work.snap = call.work.snap
  /\ \A o \in Expected : record.outputs[o] # NotHashed /\ file[o] # Missing
  /\ \A r \in Refs : record.outputs[r] \in {NotHashed, file[r]}
  /\ record.status = "completed"

\* _can_skip_from_record, for a record that parsed.
Current(record) ==
  /\ record.work = call.work
  /\ record.lock = call.lock
  /\ step \in Granted => call.lock # NoLock
  /\ \A o \in Expected : record.outputs[o] # NotHashed /\ file[o] # Missing
  /\ \A r \in Refs : record.outputs[r] \in {NotHashed, file[r]}
  /\ \/ record.status = "completed"
     \/ RouteOn[step] = NoRoute
     \/ RouteValue(file, step) # InvalidRoute

\* The rest of _skip_result_if_current, for a result that parsed.
Reusable(record, result) ==
  /\ result.contract = ContractOf[call.work.context]
  /\ record.status = "completed" \/ Expected \subseteq result.outputs

HasCurrentRecord ==
  /\ call.resume
  /\ stepRecord[call.key] \notin {Absent, Torn}
  /\ Current(stepRecord[call.key])

\* The boundary is current: the step returns a skipped record, written beside
\* the original, and the worker is not called.
SkipCurrent ==
  /\ phase = "check"
  /\ HasCurrentRecord
  /\ callResult[call.key] \notin {Absent, Torn}
  /\ Reusable(stepRecord[call.key], callResult[call.key])
  /\ phase' = "done"
  /\ outcome' = [status    |-> "skipped",
                 recovered |-> stepRecord[call.key].status # "completed"]
  /\ UNCHANGED <<durable, call, attempt, written, final, made>>

\* read_json_ref raises on an artifact that does not parse, and nothing in
\* run_step or run_flow catches it.
RaiseUnreadable ==
  /\ phase = "check"
  /\ \/ call.resume /\ stepRecord[call.key] = Torn
     \/ HasCurrentRecord /\ callResult[call.key] = Torn
  /\ phase' = "raised"
  /\ UNCHANGED <<durable, call, attempt, written, final, outcome, made>>

MustRun ==
  /\ phase = "check"
  /\ \/ ~call.resume
     \/ stepRecord[call.key] # Torn /\ ~HasCurrentRecord
     \/ HasCurrentRecord /\ callResult[call.key] = Absent
     \/ /\ HasCurrentRecord
        /\ callResult[call.key] \notin {Absent, Torn}
        /\ ~Reusable(stepRecord[call.key], callResult[call.key])
  /\ phase' = "lock"
  /\ UNCHANGED <<durable, call, attempt, written, final, outcome, made>>

----------------------------------------------------------------------------
\* prepare_extension_lock: lock the installed package, or nothing to lock.  A
\* lock that the host made itself and hands to run_step is left out.
PrepareLock ==
  /\ phase = "lock"
  /\ step \in Granted => installed # NoLock
  /\ lockFile' = IF step \in Granted
                   THEN [lockFile EXCEPT ![call.key] = installed]
                   ELSE lockFile
  /\ call' = [call EXCEPT !.lock = lockFile'[call.key]]
  /\ phase' = "attempt"
  /\ UNCHANGED <<file, stepRecord, callResult, installed, edits,
                 attempt, written, final, outcome, made>>

RaiseNotInstalled ==
  /\ phase = "lock"
  /\ step \in Granted
  /\ installed = NoLock
  /\ phase' = "raised"
  /\ UNCHANGED <<durable, call, attempt, written, final, outcome, made>>

\* Mutant: an attempt is not counted.
StartAttemptUncounted ==
  /\ phase = "attempt"
  /\ phase' = "working"
  /\ written' = {}
  /\ UNCHANGED <<durable, call, attempt, final, outcome, made>>

\* One turn of the loop in _run_piworker_with_failure_policy.
StartAttempt ==
  /\ phase = "attempt"
  /\ phase' = "working"
  /\ attempt' = attempt + 1
  /\ written' = {}
  /\ UNCHANGED <<durable, call, final, outcome, made>>

\* The worker process writes one of its writable refs.
WorkerWrite(ref, content) ==
  /\ phase = "working"
  /\ ref \in Writable[step] \ written
  /\ content \in ContentsOf[ref]
  /\ file' = [file EXCEPT ![ref] = content]
  /\ written' = written \cup {ref}
  /\ made' = made \cup {<<call.work, ref, content>>}
  /\ UNCHANGED <<stepRecord, callResult, lockFile, installed, edits,
                 phase, call, attempt, final, outcome>>

\* What PiAgentRuntimeAdapter can report.  The runtime completes a call only
\* when every expected output changed in this attempt; the output package also
\* lists every expected output that exists, changed or not.
PiAgentReport(status, outputs) ==
  /\ status \in {"completed", "failed"}
  /\ status = "completed" => Expected \subseteq written
  /\ Existing(file, Expected) \subseteq outputs
  /\ outputs \subseteq Existing(file, Expected) \cup written

\* What run_piworker_call lets through from any other adapter.
ProtocolReport(status, outputs) ==
  /\ status \in CallStatus
  /\ outputs \subseteq Writable[step]
  /\ status = "completed" => Expected \subseteq outputs

\* Mutant: the report is believed.
BoundaryUnchecked(status, outputs) ==
  [contract |-> ContractOf[call.work.context], status |-> status, outputs |-> outputs]

\* _validate_attempt_output_boundary.
BoundaryChecked(status, outputs) ==
  IF status = "completed"
     /\ Existing(file, Expected \cup outputs) # Expected \cup outputs
    THEN [contract |-> ContractOf[call.work.context],
          status |-> "invalid_output", outputs |-> Existing(file, outputs)]
    ELSE [contract |-> ContractOf[call.work.context],
          status |-> status, outputs |-> outputs]

\* Stop on a completed attempt, on a provider error that is not worth a retry,
\* or when retries + 1 attempts are spent.
FinishAttempt(status, outputs, fatal) ==
  /\ phase = "working"
  /\ IF PiAgent THEN PiAgentReport(status, outputs)
                ELSE ProtocolReport(status, outputs)
  /\ final' = BoundaryChecked(status, outputs)
  /\ phase' = IF final'.status = "completed" \/ fatal \/ attempt > Retries[step]
                THEN "save_result" ELSE "attempt"
  /\ UNCHANGED <<durable, call, attempt, written, outcome, made>>

\* The adapter raises: no runtime command, a report outside the write roots, a
\* completed report without an expected output.
AdapterRaises ==
  /\ phase = "working"
  /\ phase' = "raised"
  /\ UNCHANGED <<durable, call, attempt, written, final, outcome, made>>

----------------------------------------------------------------------------
\* write_json_ref(piworker_call_result.json): truncate, then write.
OpenResult ==
  /\ phase = "save_result"
  /\ callResult' = [callResult EXCEPT ![call.key] = Torn]
  /\ phase' = "result_open"
  /\ UNCHANGED <<file, stepRecord, lockFile, installed, edits,
                 call, attempt, written, final, outcome, made>>

WriteResult ==
  /\ phase = "result_open"
  /\ callResult' = [callResult EXCEPT ![call.key] = final]
  /\ phase' = "save_record"
  /\ UNCHANGED <<file, stepRecord, lockFile, installed, edits,
                 call, attempt, written, final, outcome, made>>

\* Mutant: the status of the call is recorded as the status of the step.
RecordWithCallStatus ==
  [work    |-> call.work,
   lock    |-> call.lock,
   status  |-> final.status,
   outputs |-> HashRefs(file, final.outputs)]

\* The StepRecord, its output hashes taken after the last attempt.
RecordOfCall ==
  [work    |-> call.work,
   lock    |-> call.lock,
   status  |-> StatusOfResult(final.status, step),
   outputs |-> HashRefs(file, final.outputs)]

OpenRecord ==
  /\ phase = "save_record"
  /\ stepRecord' = [stepRecord EXCEPT ![call.key] = Torn]
  /\ phase' = "record_open"
  /\ UNCHANGED <<file, callResult, lockFile, installed, edits,
                 call, attempt, written, final, outcome, made>>

WriteRecord ==
  /\ phase = "record_open"
  /\ stepRecord' = [stepRecord EXCEPT ![call.key] = RecordOfCall]
  /\ phase' = "done"
  /\ outcome' = [status |-> RecordOfCall.status, recovered |-> FALSE]
  /\ UNCHANGED <<file, callResult, lockFile, installed, edits,
                 call, attempt, written, final, made>>

----------------------------------------------------------------------------
Forget ==
  /\ phase' = "idle"
  /\ call' = NoCall
  /\ attempt' = 0
  /\ written' = {}
  /\ final' = NoResult
  /\ outcome' = NoOutcome

\* run_step returns to its caller, or its exception propagates.
Return ==
  /\ phase \in {"done", "raised"}
  /\ Forget
  /\ UNCHANGED <<durable, made>>

\* The process dies.  The lock file is written with write_text as well, and an
\* unparsable one reads as no lock.
Crash ==
  /\ phase # "idle"
  /\ Forget
  /\ \/ UNCHANGED lockFile
     \/ /\ phase = "lock"
        /\ step \in Granted
        /\ lockFile' = [lockFile EXCEPT ![call.key] = NoLock]
  /\ UNCHANGED <<file, stepRecord, callResult, installed, edits, made>>

\* The host or its user changes a file: a source at any time, a file that
\* workers write only while no step runs.
EditFile(ref, content) ==
  /\ edits < MaxEdits
  /\ content \in (ContentsOf[ref] \cup {Missing}) \ {file[ref]}
  /\ phase = "idle" \/ \A s \in Steps : ref \notin Writable[s]
  /\ file' = [file EXCEPT ![ref] = content]
  /\ edits' = edits + 1
  /\ UNCHANGED <<stepRecord, callResult, lockFile, installed, process, made>>

\* The host installs, upgrades or removes the extension package between runs.
ChangePackage(package) ==
  /\ edits < MaxEdits
  /\ phase = "idle"
  /\ package \in (Packages \cup {NoLock}) \ {installed}
  /\ installed' = package
  /\ edits' = edits + 1
  /\ UNCHANGED <<file, stepRecord, callResult, lockFile, process, made>>

----------------------------------------------------------------------------
\* Steps of run_step between its call and its return.
RunStep ==
  \/ SkipCurrent
  \/ RaiseUnreadable
  \/ MustRun
  \/ PrepareLock
  \/ RaiseNotInstalled
  \/ StartAttempt
  \/ \E ref \in Refs, content \in Contents : WorkerWrite(ref, content)
  \/ \E status \in CallStatus, outputs \in SUBSET Refs, fatal \in BOOLEAN :
       FinishAttempt(status, outputs, fatal)
  \/ AdapterRaises
  \/ OpenResult
  \/ WriteResult
  \/ OpenRecord
  \/ WriteRecord

Environment ==
  \/ \E ref \in Refs, content \in Contents \cup {Missing} :
       EditFile(ref, content)
  \/ \E package \in Packages \cup {NoLock} : ChangePackage(package)

StepNext ==
  \/ \E key \in Keys, context \in Contexts, snap \in Snapshots \cup {NoSnapshot},
        resume \in ResumeModes : Invoke(key, context, snap, resume)
  \/ RunStep
  \/ Return
  \/ Crash
  \/ Environment

StepSpec == StepInit /\ [][StepNext]_stepVars

----------------------------------------------------------------------------
\* A step skipped because a completed record is current returns outputs that a
\* worker wrote for this very call: the same step, context, interaction
\* snapshot and input contents.  Edits, package changes, failed reruns, retries
\* and crashes in between cannot make _skip_result_if_current reuse anything
\* else (docs/KERNEL_API_DESIGN.md, the skip rule).
CompletedSkipSound ==
  phase = "done" /\ outcome.status = "skipped" /\ ~outcome.recovered
    => \A o \in Expected : <<call.work, o, file[o]>> \in made

\* A step that is recovered from a failed or blocked record does not hand back
\* what an older call made from other inputs, another context or another
\* snapshot: recovery is for "tail failures after durable artifacts were
\* written" (docs/KERNEL_API_DESIGN.md).  The code does not keep it: see the
\* README.
RecoveredSkipSound ==
  phase = "done" /\ outcome.recovered
    => \A o \in Expected :
         LET makers == {work \in Works : <<work, o, file[o]>> \in made}
         IN  makers = {} \/ call.work \in makers

\* A completed record never lists an expected output without a file, whatever
\* an adapter claims and however often run_step was retried or interrupted:
\* _validate_attempt_output_boundary stands between the claim and the record.
CompletedOutputsExist ==
  \A k \in Keys : stepRecord[k] \notin {Absent, Torn} /\ stepRecord[k].status = "completed"
    => \A o \in Outputs[StepOf(k)] : stepRecord[k].outputs[o] \in Contents

\* The skip check decides, it never raises ("if any condition is uncertain, the
\* step runs again").  The code does not keep it for a torn JSON artifact.
SkipCheckNeverRaises ==
  [][phase = "check" => phase' # "raised"]_stepVars
=============================================================================
