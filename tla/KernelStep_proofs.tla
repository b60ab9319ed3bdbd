-------------------------- MODULE KernelStep_proofs --------------------------
(***************************************************************************)
(* Theorems about run_step, for every value of the constants of KernelStep *)
(* that its assumptions allow.                                             *)
(***************************************************************************)
EXTENDS KernelStep, TLAPS

\* An assumption that is cited is cited with what it says.
USE DEF StepsValid, FailurePoliciesValid, ArtifactsValid, ToolsetsValid,
        CompileContextsValid

Saving == {"save_result", "result_open", "save_record", "record_open"}

\* While a step runs its call is compiled for its own directory, and once its
\* last attempt is over there is a result to write, then an outcome to return.
Busy ==
  /\ phase # "idle" => call \in Calls /\ step = StepOf(call.key)
  /\ phase \in Saving => final \in Results
  /\ phase = "done" => outcome \in Outcomes

StepTyped == StepTypeOK /\ Busy

\* Hashing a set of refs gives a hash, or the mark of a ref left out, to each.
LEMMA HashRefsType ==
  ASSUME StepTypeOK, NEW refs \in SUBSET Refs
  PROVE  HashRefs(file, refs) \in [Refs -> Hashes]
BY DEF StepTypeOK, HashRefs, Hashes

\* The status a step gets from its call is a step status, and completed only if
\* the call completed.
LEMMA StatusOfResultType ==
  ASSUME NEW s \in Steps, NEW status \in CallStatus
  PROVE  /\ StatusOfResult(status, s) \in StepStatus
         /\ StatusOfResult(status, s) = "completed" <=> status = "completed"
BY StepDeclarations DEF StatusOfResult, StepStatus, CallStatus

LEMMA StepOfType == \A key \in Keys : StepOf(key) \in Steps
BY DEF Keys, StepOf

\* What a finished attempt reports is a result, and one that claims completion
\* claims only outputs that exist.
LEMMA BoundaryCheckedType ==
  ASSUME StepTyped, call \in Calls,
         NEW status \in CallStatus, NEW outputs \in SUBSET Refs
  PROVE  /\ BoundaryChecked(status, outputs) \in Results
         /\ BoundaryChecked(status, outputs).status = "completed" =>
              /\ status = "completed"
              /\ BoundaryChecked(status, outputs).outputs = outputs
              /\ \A o \in outputs : file[o] # Missing
<1>1. ContractOf[call.work.context] \in Contracts
  BY CallDeclarations DEF Calls, Works
<1>2. Existing(file, outputs) \in SUBSET Refs
  BY DEF Existing
<1>3. "invalid_output" \in CallStatus
  BY DEF CallStatus
<1> QED
  BY <1>1, <1>2, <1>3 DEF BoundaryChecked, Existing, Results

----------------------------------------------------------------------------
LEMMA RecordOfCallType ==
  ASSUME StepTyped, phase \in Saving
  PROVE  RecordOfCall \in Records
<1>1. call \in Calls /\ final \in Results /\ step \in Steps
  BY StepOfType DEF StepTyped, Busy, Saving, Calls
<1>2. final.status \in CallStatus /\ final.outputs \in SUBSET Refs
  BY <1>1 DEF Results
<1>3. HashRefs(file, final.outputs) \in [Refs -> Hashes]
  BY <1>2, HashRefsType DEF StepTyped
<1>4. call.work \in Works /\ call.lock \in Packages \cup {NoLock}
  BY <1>1 DEF Calls
<1> QED
  BY <1>1, <1>2, <1>3, <1>4, StatusOfResultType DEF RecordOfCall, Records

LEMMA StepTypedInit == StepInit => StepTyped
BY StepParameters DEF StepInit, StepTyped, StepTypeOK, Busy, Phases, Saving

LEMMA StepTypedNext == StepTyped /\ [StepNext]_stepVars => StepTyped'
<1> SUFFICES ASSUME StepTyped, [StepNext]_stepVars
             PROVE  StepTyped'
  OBVIOUS
<1> USE DEF StepTyped
<1>1. CASE UNCHANGED stepVars
  BY <1>1 DEF stepVars, durable, process, StepTypeOK, Busy, step, Saving
<1>2. ASSUME NEW key \in Keys, NEW context \in Contexts,
             NEW snap \in Snapshots \cup {NoSnapshot},
             NEW resume \in ResumeModes, Invoke(key, context, snap, resume)
      PROVE  StepTyped'
  <2>1. HashRefs(file, Inputs[StepOf(key)]) \in [Refs -> Hashes]
    BY HashRefsType, StepOfType, StepDeclarations
  <2>2. call' \in Calls /\ step' = StepOf(call'.key)
    BY <1>2, <2>1, StepOfType, StepParameters
      DEF Invoke, StepTypeOK, Calls, Works, step
  <2> QED
    BY <1>2, <2>2 DEF Invoke, durable, StepTypeOK, Busy, Phases, Saving
<1>3. CASE SkipCurrent
  BY <1>3 DEF SkipCurrent, durable, StepTypeOK, Busy, step, Phases, Saving,
              Outcomes, StepStatus
<1>4. CASE RaiseUnreadable
  BY <1>4 DEF RaiseUnreadable, durable, StepTypeOK, Busy, step, Phases, Saving
<1>5. CASE MustRun
  BY <1>5 DEF MustRun, durable, StepTypeOK, Busy, step, Phases, Saving
<1>6. CASE PrepareLock
  <2>1. call \in Calls /\ call.key \in Keys /\ step = StepOf(call.key)
    BY <1>6 DEF PrepareLock, Busy, Calls
  <2>2. lockFile' \in [Keys -> Packages \cup {NoLock}]
    BY <1>6, <2>1 DEF PrepareLock, StepTypeOK
  <2>3. call' \in Calls /\ call'.key = call.key /\ call'.work = call.work
    BY <1>6, <2>1, <2>2 DEF PrepareLock, Calls
  <2> QED
    BY <1>6, <2>1, <2>2, <2>3
      DEF PrepareLock, StepTypeOK, Busy, step, Phases, Saving
<1>7. CASE RaiseNotInstalled
  BY <1>7 DEF RaiseNotInstalled, durable, StepTypeOK, Busy, step, Phases, Saving
<1>8. CASE StartAttempt
  BY <1>8 DEF StartAttempt, durable, StepTypeOK, Busy, step, Phases, Saving
<1>9. ASSUME NEW ref \in Refs, NEW content \in Contents, WorkerWrite(ref, content)
      PROVE  StepTyped'
  <2>1. call \in Calls /\ call.work \in Works
    BY <1>9 DEF WorkerWrite, Busy, Calls
  <2> QED
    BY <1>9, <2>1 DEF WorkerWrite, StepTypeOK, Busy, step, Phases, Saving
<1>10. ASSUME NEW status \in CallStatus, NEW outputs \in SUBSET Refs,
              NEW fatal \in BOOLEAN, FinishAttempt(status, outputs, fatal)
       PROVE  StepTyped'
  <2>1. call \in Calls
    BY <1>10 DEF FinishAttempt, Busy
  <2>2. final' \in Results
    BY <1>10, <2>1, BoundaryCheckedType DEF FinishAttempt
  <2> QED
    BY <1>10, <2>2 DEF FinishAttempt, durable, StepTypeOK, Busy, step, Phases, Saving
<1>11. CASE AdapterRaises
  BY <1>11 DEF AdapterRaises, durable, StepTypeOK, Busy, step, Phases, Saving
<1>12. CASE OpenResult
  BY <1>12 DEF OpenResult, StepTypeOK, Busy, step, Phases, Saving
<1>13. CASE WriteResult
  BY <1>13 DEF WriteResult, StepTypeOK, Busy, step, Phases, Saving
<1>14. CASE OpenRecord
  BY <1>14 DEF OpenRecord, StepTypeOK, Busy, step, Phases, Saving
<1>15. CASE WriteRecord
  <2>2. RecordOfCall \in Records
    BY <1>15, RecordOfCallType DEF WriteRecord, Saving
  <2>3. outcome' \in Outcomes
    BY <1>15, <2>2 DEF WriteRecord, Outcomes, Records
  <2> QED
    BY <1>15, <2>2, <2>3 DEF WriteRecord, StepTypeOK, Busy, step, Phases, Saving
<1>16. CASE Return
  BY <1>16 DEF Return, Forget, durable, StepTypeOK, Busy, Phases, Saving
<1>17. CASE Crash
  <2>1. lockFile' \in [Keys -> Packages \cup {NoLock}]
    BY <1>17 DEF Crash, StepTypeOK
  <2> QED
    BY <1>17, <2>1 DEF Crash, Forget, StepTypeOK, Busy, Phases, Saving
<1>18. ASSUME NEW ref \in Refs, NEW content \in Contents \cup {Missing},
              EditFile(ref, content)
       PROVE  StepTyped'
  BY <1>18, StepParameters
    DEF EditFile, process, StepTypeOK, Busy, step, Phases, Saving
<1>19. ASSUME NEW package \in Packages \cup {NoLock}, ChangePackage(package)
       PROVE  StepTyped'
  BY <1>19, StepParameters
    DEF ChangePackage, process, StepTypeOK, Busy, step, Phases, Saving
<1> QED
  BY <1>1, <1>2, <1>3, <1>4, <1>5, <1>6, <1>7, <1>8, <1>9, <1>10, <1>11, <1>12,
     <1>13, <1>14, <1>15, <1>16, <1>17, <1>18, <1>19
    DEF StepNext, RunStep, Environment

\* run_step and its artifacts keep their types: a record is a whole record or
\* torn, and names the call and the hashes a later run compares it with.
THEOREM StepTypeCorrect == StepSpec => []StepTypeOK
<1>1. StepTyped => StepTypeOK
  BY DEF StepTyped
<1> QED
  BY <1>1, StepTypedInit, StepTypedNext, PTL DEF StepSpec

----------------------------------------------------------------------------
(***************************************************************************)
(* Why a completed step may be skipped.  What SkipCurrent reuses is only a *)
(* record, so the argument runs from the worker to the record and back:    *)
(* what this attempt wrote stands in the workspace (AttemptMade), so do    *)
(* the expected outputs of a completed result until its record is written  *)
(* (ResultMade), and the hashes in the record name contents made for the   *)
(* recorded call for ever after (RecordsMade), whatever becomes of the     *)
(* files.  A record that is current names the call and the contents of     *)
(* now.                                                                    *)
(***************************************************************************)
Completed(key) ==
  stepRecord[key] \notin {Absent, Torn} /\ stepRecord[key].status = "completed"

RecordsMade ==
  \A k \in Keys : Completed(k) =>
    \A o \in Outputs[StepOf(k)] :
      <<stepRecord[k].work, o, stepRecord[k].outputs[o]>> \in made

OutputsMade == \A o \in Expected : <<call.work, o, file[o]>> \in made

AttemptMade ==
  phase = "working" =>
    /\ written \subseteq Writable[step]
    /\ \A r \in written : <<call.work, r, file[r]>> \in made

ResultMade ==
  phase \in Saving /\ final.status = "completed" =>
    Expected \subseteq final.outputs /\ OutputsMade

SkipInvariant ==
  /\ StepTyped
  /\ RecordsMade
  /\ AttemptMade
  /\ ResultMade
  /\ CompletedSkipSound

LEMMA SkipInvariantInit == StepInit => SkipInvariant
<1> SUFFICES ASSUME StepInit PROVE SkipInvariant
  OBVIOUS
<1>1. StepTyped
  BY StepTypedInit
<1>2. RecordsMade
  BY DEF StepInit, RecordsMade, Completed
<1> QED
  BY <1>1, <1>2
    DEF StepInit, SkipInvariant, AttemptMade, ResultMade, Saving, CompletedSkipSound

\* A step that leaves the records and the history alone keeps RecordsMade, and
\* one that only adds to the history does too.
LEMMA RecordsMadeKept ==
  ASSUME RecordsMade, stepRecord' = stepRecord, made \subseteq made'
  PROVE  RecordsMade'
BY DEF RecordsMade, Completed

\* What a current record is worth: the step's outputs were made for this call.
LEMMA CurrentMade ==
  ASSUME StepTyped, RecordsMade, phase = "check", HasCurrentRecord,
         stepRecord[call.key].status = "completed"
  PROVE  OutputsMade
<1> DEFINE record == stepRecord[call.key]
<1>1. call.key \in Keys /\ step = StepOf(call.key)
  BY DEF StepTyped, Busy, Calls
<1>2. record.work = call.work
  BY DEF HasCurrentRecord, Current
<1>3. \A o \in Expected : record.outputs[o] = file[o]
  <2>1. Expected \subseteq Refs
    BY <1>1, StepOfType, StepDeclarations DEF Expected
  <2> QED
    BY <2>1 DEF HasCurrentRecord, Current
<1>4. \A o \in Outputs[StepOf(call.key)] : <<record.work, o, record.outputs[o]>> \in made
  BY <1>1 DEF HasCurrentRecord, RecordsMade, Completed
<1> QED
  BY <1>1, <1>2, <1>3, <1>4 DEF OutputsMade, Expected

\* A completed attempt of the PiAgent runtime made every expected output.
LEMMA CompletedAttemptMade ==
  ASSUME StepTyped, AttemptMade, phase = "working", PiAgent,
         NEW outputs \in SUBSET Refs, PiAgentReport("completed", outputs)
  PROVE  Expected \subseteq outputs /\ OutputsMade
<1>1. Expected \subseteq written
  BY DEF PiAgentReport
<1>2. OutputsMade
  BY <1>1 DEF AttemptMade, OutputsMade
<1>3. \A o \in Expected : file[o] \in Contents
  BY <1>2 DEF OutputsMade, StepTyped, StepTypeOK
<1>4. \A o \in Expected : file[o] # Missing
  BY <1>3, FileDeclarations
<1> QED
  BY <1>2, <1>4 DEF PiAgentReport, Existing

LEMMA SkipInvariantNext ==
  ASSUME PiAgent
  PROVE  SkipInvariant /\ [StepNext]_stepVars => SkipInvariant'
<1> SUFFICES ASSUME SkipInvariant, [StepNext]_stepVars
             PROVE  SkipInvariant'
  OBVIOUS
<1>t. StepTyped /\ StepTyped'
  BY StepTypedNext DEF SkipInvariant
<1> DEFINE Rest == RecordsMade /\ AttemptMade /\ ResultMade /\ CompletedSkipSound
<1> SUFFICES Rest'
  BY <1>t DEF SkipInvariant
<1>0. Rest
  BY DEF SkipInvariant
<1> USE <1>t, <1>0
<1>1. CASE UNCHANGED stepVars
  BY <1>1 DEF stepVars, durable, process, RecordsMade, Completed, AttemptMade,
              ResultMade, CompletedSkipSound, OutputsMade, Expected, step, Saving
<1>2. ASSUME NEW key \in Keys, NEW context \in Contexts,
             NEW snap \in Snapshots \cup {NoSnapshot},
             NEW resume \in ResumeModes, Invoke(key, context, snap, resume)
      PROVE  Rest'
  BY <1>2, RecordsMadeKept
    DEF Invoke, durable, AttemptMade, ResultMade, CompletedSkipSound, Saving
<1>3. CASE SkipCurrent
  <2>1. RecordsMade' /\ AttemptMade' /\ ResultMade'
    BY <1>3, RecordsMadeKept DEF SkipCurrent, durable, AttemptMade, ResultMade, Saving
  <2>2. CompletedSkipSound'
    <3> SUFFICES ASSUME ~outcome'.recovered PROVE OutputsMade'
      BY DEF CompletedSkipSound, OutputsMade
    <3>1. stepRecord[call.key].status = "completed"
      BY <1>3 DEF SkipCurrent
    <3>2. OutputsMade
      BY <1>3, <3>1, CurrentMade DEF SkipCurrent
    <3> QED
      BY <1>3, <3>2 DEF SkipCurrent, durable, OutputsMade, Expected, step
  <2> QED
    BY <2>1, <2>2
<1>4. CASE RaiseUnreadable
  BY <1>4, RecordsMadeKept DEF RaiseUnreadable, durable, AttemptMade, ResultMade,
                               CompletedSkipSound, Saving
<1>5. CASE MustRun
  BY <1>5, RecordsMadeKept DEF MustRun, durable, AttemptMade, ResultMade,
                               CompletedSkipSound, Saving
<1>6. CASE PrepareLock
  BY <1>6, RecordsMadeKept DEF PrepareLock, AttemptMade, ResultMade,
                               CompletedSkipSound, Saving
<1>7. CASE RaiseNotInstalled
  BY <1>7, RecordsMadeKept DEF RaiseNotInstalled, durable, AttemptMade, ResultMade,
                               CompletedSkipSound, Saving, StepTyped, StepTypeOK
<1>8. CASE StartAttempt
  BY <1>8, RecordsMadeKept DEF StartAttempt, durable, AttemptMade, ResultMade,
                               CompletedSkipSound, Saving
<1>9. ASSUME NEW ref \in Refs, NEW content \in Contents, WorkerWrite(ref, content)
      PROVE  Rest'
  <2>1. RecordsMade'
    BY <1>9, RecordsMadeKept DEF WorkerWrite
  <2>2. AttemptMade'
    BY <1>9 DEF WorkerWrite, AttemptMade, step, StepTyped, StepTypeOK
  <2> QED
    BY <1>9, <2>1, <2>2 DEF WorkerWrite, ResultMade, CompletedSkipSound, Saving
<1>10. ASSUME NEW status \in CallStatus, NEW outputs \in SUBSET Refs,
              NEW fatal \in BOOLEAN, FinishAttempt(status, outputs, fatal)
       PROVE  Rest'
  <2>1. call \in Calls
    BY <1>10 DEF FinishAttempt, StepTyped, Busy
  <2>2. final'.status = "completed" => Expected \subseteq final'.outputs /\ OutputsMade
    BY <1>10, <2>1, CompletedAttemptMade, BoundaryCheckedType DEF FinishAttempt
  <2>3. ResultMade'
    BY <1>10, <2>2 DEF FinishAttempt, durable, ResultMade, OutputsMade, Expected, step
  <2>4. RecordsMade'
    BY <1>10, RecordsMadeKept DEF FinishAttempt, durable
  <2> QED
    BY <1>10, <2>3, <2>4 DEF FinishAttempt, AttemptMade, CompletedSkipSound
<1>11. CASE AdapterRaises
  BY <1>11, RecordsMadeKept DEF AdapterRaises, durable, AttemptMade, ResultMade,
                                CompletedSkipSound, Saving
<1>12. CASE OpenResult
  BY <1>12, RecordsMadeKept DEF OpenResult, AttemptMade, ResultMade, OutputsMade,
                                Expected, step, CompletedSkipSound, Saving
<1>13. CASE WriteResult
  BY <1>13, RecordsMadeKept DEF WriteResult, AttemptMade, ResultMade, OutputsMade,
                                Expected, step, CompletedSkipSound, Saving
<1>14. CASE OpenRecord
  <2>1. RecordsMade'
    <3> SUFFICES ASSUME NEW k \in Keys, Completed(k)'
                 PROVE  Completed(k) /\ stepRecord'[k] = stepRecord[k]
      BY <1>14 DEF OpenRecord, RecordsMade
    <3> QED
      BY <1>14 DEF OpenRecord, Completed, StepTyped, StepTypeOK
  <2> QED
    BY <1>14, <2>1 DEF OpenRecord, AttemptMade, ResultMade, OutputsMade, Expected,
                       step, CompletedSkipSound, Saving
<1>15. CASE WriteRecord
  <2>1. /\ call \in Calls /\ call.key \in Keys /\ step = StepOf(call.key)
        /\ final \in Results /\ step \in Steps
    BY <1>15, StepOfType DEF WriteRecord, StepTyped, Busy, Saving, Calls
  <2>2. stepRecord' = [stepRecord EXCEPT ![call.key] = RecordOfCall]
    BY <1>15 DEF WriteRecord
  <2>3. RecordsMade'
    <3> SUFFICES ASSUME NEW k \in Keys, Completed(k)', NEW o \in Outputs[StepOf(k)]
                 PROVE  <<stepRecord'[k].work, o, stepRecord'[k].outputs[o]>> \in made
      BY <1>15 DEF WriteRecord, RecordsMade
    <3>1. CASE k # call.key
      BY <2>2, <3>1 DEF RecordsMade, Completed, StepTyped, StepTypeOK
    <3>2. CASE k = call.key
      <4>1. stepRecord'[k] = RecordOfCall
        BY <2>1, <2>2, <3>2 DEF StepTyped, StepTypeOK
      <4>2. final.status = "completed"
        <5>1. RecordOfCall.status = "completed"
          BY <4>1 DEF Completed
        <5>2. final.status \in CallStatus
          BY <2>1 DEF Results
        <5> QED
          BY <2>1, <5>1, <5>2, StatusOfResultType DEF RecordOfCall
      <4>3. o \in Expected /\ o \in final.outputs /\ o \in Refs
        BY <1>15, <2>1, <3>2, <4>2, StepDeclarations
          DEF WriteRecord, ResultMade, Saving, Expected
      <4>4. RecordOfCall.outputs[o] = file[o]
        BY <4>3 DEF RecordOfCall, HashRefs
      <4>5. <<call.work, o, file[o]>> \in made
        BY <1>15, <4>2, <4>3 DEF WriteRecord, ResultMade, OutputsMade, Saving
      <4> QED
        BY <4>1, <4>4, <4>5 DEF RecordOfCall
    <3> QED
      BY <3>1, <3>2
  <2>4. CompletedSkipSound'
    <3>1. RecordOfCall.status # "skipped"
      BY <2>1, StepDeclarations DEF RecordOfCall, StatusOfResult
    <3> QED
      BY <1>15, <3>1 DEF WriteRecord, CompletedSkipSound
  <2> QED
    BY <1>15, <2>3, <2>4 DEF WriteRecord, AttemptMade, ResultMade, Saving
<1>16. CASE Return
  BY <1>16, RecordsMadeKept DEF Return, Forget, durable, AttemptMade, ResultMade,
                                CompletedSkipSound, Saving
<1>17. CASE Crash
  BY <1>17, RecordsMadeKept DEF Crash, Forget, AttemptMade, ResultMade,
                                CompletedSkipSound, Saving
<1>18. ASSUME NEW ref \in Refs, NEW content \in Contents \cup {Missing},
              EditFile(ref, content)
       PROVE  Rest'
  <2>1. RecordsMade'
    BY <1>18, RecordsMadeKept DEF EditFile
  <2>2. CASE phase = "idle"
    BY <1>18, <2>1, <2>2 DEF EditFile, process, AttemptMade, ResultMade,
                             CompletedSkipSound, Saving
  <2>3. CASE phase # "idle"
    <3>1. call.work.step \in Steps
      BY <2>3 DEF StepTyped, Busy, Calls, Works
    <3>2. /\ Expected \subseteq Writable[step] /\ Expected \subseteq Refs
          /\ Writable[step] \subseteq Refs
      BY <3>1, StepDeclarations DEF Expected, step
    <3>3. \A r \in Writable[step] : file'[r] = file[r]
      BY <1>18, <2>3, <3>1, <3>2 DEF EditFile, step, StepTyped, StepTypeOK
    <3> QED
      BY <1>18, <2>1, <3>2, <3>3
        DEF EditFile, process, AttemptMade, ResultMade, OutputsMade,
            CompletedSkipSound, Saving, Expected, step
  <2> QED
    BY <2>2, <2>3
<1>19. ASSUME NEW package \in Packages \cup {NoLock}, ChangePackage(package)
       PROVE  Rest'
  BY <1>19, RecordsMadeKept DEF ChangePackage, process, AttemptMade, ResultMade,
                                CompletedSkipSound, Saving
<1> QED
  BY <1>1, <1>2, <1>3, <1>4, <1>5, <1>6, <1>7, <1>8, <1>9, <1>10, <1>11, <1>12,
     <1>13, <1>14, <1>15, <1>16, <1>17, <1>18, <1>19
    DEF StepNext, RunStep, Environment

\* With the PiAgent runtime, a step skipped on a completed record returns outputs
\* that a worker wrote for this very call, however many runs, edits, retries and
\* crashes lie between.
THEOREM CompletedSkipsAreSound ==
  ASSUME PiAgent
  PROVE  StepSpec => []CompletedSkipSound
<1>1. SkipInvariant => CompletedSkipSound
  BY DEF SkipInvariant
<1> QED
  BY <1>1, SkipInvariantInit, SkipInvariantNext, PTL DEF StepSpec

----------------------------------------------------------------------------
(***************************************************************************)
(* The boundary check, for any adapter: an output that a completed result  *)
(* lists exists when the result is made and when its record is written,    *)
(* and it lists every expected output.                                     *)
(***************************************************************************)
AttemptExists ==
  phase = "working" =>
    written \subseteq Writable[step] /\ \A r \in written : file[r] \in Contents

ResultExists ==
  phase \in Saving /\ final.status = "completed" =>
    Expected \subseteq final.outputs /\ \A o \in Expected : file[o] \in Contents

OutputsInvariant ==
  /\ StepTyped
  /\ AttemptExists
  /\ ResultExists
  /\ CompletedOutputsExist

LEMMA OutputsInvariantInit == StepInit => OutputsInvariant
<1> SUFFICES ASSUME StepInit PROVE OutputsInvariant
  OBVIOUS
<1>1. StepTyped
  BY StepTypedInit
<1>2. CompletedOutputsExist
  BY DEF StepInit, CompletedOutputsExist
<1> QED
  BY <1>1, <1>2 DEF StepInit, OutputsInvariant, AttemptExists, ResultExists, Saving

LEMMA CompletedOutputsExistKept ==
  ASSUME CompletedOutputsExist, stepRecord' = stepRecord
  PROVE  CompletedOutputsExist'
BY DEF CompletedOutputsExist

\* Whichever adapter made the report, a completed result lists every expected
\* output and each of them exists.
LEMMA CompletedResultExists ==
  ASSUME StepTyped, AttemptExists, phase = "working",
         NEW status \in CallStatus, NEW outputs \in SUBSET Refs,
         IF PiAgent THEN PiAgentReport(status, outputs)
                    ELSE ProtocolReport(status, outputs),
         BoundaryChecked(status, outputs).status = "completed"
  PROVE  /\ Expected \subseteq BoundaryChecked(status, outputs).outputs
         /\ \A o \in Expected : file[o] \in Contents
<1>1. call \in Calls /\ step \in Steps
  BY StepOfType DEF StepTyped, Busy, Calls
<1>2. /\ status = "completed"
      /\ BoundaryChecked(status, outputs).outputs = outputs
      /\ \A o \in outputs : file[o] # Missing
  BY <1>1, BoundaryCheckedType
<1>3. CASE PiAgent
  <2>1. Expected \subseteq written /\ Existing(file, Expected) \subseteq outputs
    BY <1>2, <1>3 DEF PiAgentReport
  <2>2. \A o \in Expected : file[o] \in Contents
    BY <2>1 DEF AttemptExists
  <2>3. \A o \in Expected : file[o] # Missing
    BY <2>2, FileDeclarations
  <2> QED
    BY <1>2, <2>1, <2>2, <2>3 DEF Existing
<1>4. CASE ~PiAgent
  <2>1. Expected \subseteq outputs
    BY <1>2, <1>4 DEF ProtocolReport
  <2>2. \A o \in outputs : file[o] \in Contents
    BY <1>2 DEF StepTyped, StepTypeOK
  <2> QED
    BY <1>2, <2>1, <2>2
<1> QED
  BY <1>3, <1>4

LEMMA OutputsInvariantNext ==
  OutputsInvariant /\ [StepNext]_stepVars => OutputsInvariant'
<1> SUFFICES ASSUME OutputsInvariant, [StepNext]_stepVars
             PROVE  OutputsInvariant'
  OBVIOUS
<1>t. StepTyped /\ StepTyped'
  BY StepTypedNext DEF OutputsInvariant
<1> DEFINE Rest == AttemptExists /\ ResultExists /\ CompletedOutputsExist
<1> SUFFICES Rest'
  BY <1>t DEF OutputsInvariant
<1>0. Rest
  BY DEF OutputsInvariant
<1> USE <1>t, <1>0
<1>1. CASE UNCHANGED stepVars
  BY <1>1, CompletedOutputsExistKept
    DEF stepVars, durable, process, AttemptExists, ResultExists, Expected, step, Saving
<1>2. ASSUME NEW key \in Keys, NEW context \in Contexts,
             NEW snap \in Snapshots \cup {NoSnapshot},
             NEW resume \in ResumeModes, Invoke(key, context, snap, resume)
      PROVE  Rest'
  BY <1>2, CompletedOutputsExistKept
    DEF Invoke, durable, AttemptExists, ResultExists, Saving
<1>3. CASE SkipCurrent \/ RaiseUnreadable \/ MustRun
  BY <1>3, CompletedOutputsExistKept
    DEF SkipCurrent, RaiseUnreadable, MustRun, durable, AttemptExists, ResultExists,
        Saving
<1>4. CASE PrepareLock \/ RaiseNotInstalled \/ StartAttempt \/ AdapterRaises
  BY <1>4, CompletedOutputsExistKept
    DEF PrepareLock, RaiseNotInstalled, StartAttempt, AdapterRaises, durable,
        AttemptExists, ResultExists, Saving
<1>5. ASSUME NEW ref \in Refs, NEW content \in Contents, WorkerWrite(ref, content)
      PROVE  Rest'
  <2>1. AttemptExists'
    BY <1>5 DEF WorkerWrite, AttemptExists, step, StepTyped, StepTypeOK
  <2> QED
    BY <1>5, <2>1, CompletedOutputsExistKept DEF WorkerWrite, ResultExists, Saving
<1>6. ASSUME NEW status \in CallStatus, NEW outputs \in SUBSET Refs,
             NEW fatal \in BOOLEAN, FinishAttempt(status, outputs, fatal)
      PROVE  Rest'
  <2>1. final'.status = "completed" =>
          Expected \subseteq final'.outputs /\ \A o \in Expected : file[o] \in Contents
    BY <1>6, CompletedResultExists DEF FinishAttempt
  <2>2. ResultExists'
    BY <1>6, <2>1 DEF FinishAttempt, durable, ResultExists, Expected, step
  <2> QED
    BY <1>6, <2>2, CompletedOutputsExistKept DEF FinishAttempt, durable, AttemptExists
<1>7. CASE OpenResult \/ WriteResult
  BY <1>7, CompletedOutputsExistKept
    DEF OpenResult, WriteResult, AttemptExists, ResultExists, Expected, step, Saving
<1>8. CASE OpenRecord
  <2>1. CompletedOutputsExist'
    BY <1>8 DEF OpenRecord, CompletedOutputsExist, StepTyped, StepTypeOK
  <2> QED
    BY <1>8, <2>1
      DEF OpenRecord, AttemptExists, ResultExists, Expected, step, Saving
<1>9. CASE WriteRecord
  <2>1. /\ call \in Calls /\ call.key \in Keys /\ step = StepOf(call.key)
        /\ final \in Results /\ step \in Steps
    BY <1>9, StepOfType DEF WriteRecord, StepTyped, Busy, Saving, Calls
  <2>2. CompletedOutputsExist'
    <3>1. final.status \in CallStatus
      BY <2>1 DEF Results
    <3>2. RecordOfCall.status = "completed" =>
            \A o \in Expected : RecordOfCall.outputs[o] \in Contents
      <4> SUFFICES ASSUME RecordOfCall.status = "completed", NEW o \in Expected
                   PROVE  RecordOfCall.outputs[o] \in Contents
        OBVIOUS
      <4>1. final.status = "completed"
        BY <2>1, <3>1, StatusOfResultType DEF RecordOfCall
      <4>2. o \in final.outputs /\ file[o] \in Contents /\ o \in Refs
        BY <1>9, <2>1, <4>1, StepDeclarations
          DEF WriteRecord, ResultExists, Saving, Expected
      <4> QED
        BY <4>2 DEF RecordOfCall, HashRefs
    <3>3. stepRecord' = [stepRecord EXCEPT ![call.key] = RecordOfCall]
      BY <1>9 DEF WriteRecord
    <3> QED
      BY <2>1, <3>2, <3>3 DEF CompletedOutputsExist, Expected, StepTyped, StepTypeOK
  <2> QED
    BY <1>9, <2>2 DEF WriteRecord, AttemptExists, ResultExists, Saving
<1>10. CASE Return \/ Crash
  BY <1>10, CompletedOutputsExistKept
    DEF Return, Crash, Forget, durable, AttemptExists, ResultExists, Saving
<1>11. ASSUME NEW ref \in Refs, NEW content \in Contents \cup {Missing},
              EditFile(ref, content)
       PROVE  Rest'
  <2>1. CompletedOutputsExist'
    BY <1>11, CompletedOutputsExistKept DEF EditFile
  <2>2. CASE phase = "idle"
    BY <1>11, <2>1, <2>2 DEF EditFile, process, AttemptExists, ResultExists, Saving
  <2>3. CASE phase # "idle"
    <3>1. call.work.step \in Steps
      BY <2>3 DEF StepTyped, Busy, Calls, Works
    <3>2. /\ Expected \subseteq Writable[step] /\ Expected \subseteq Refs
          /\ Writable[step] \subseteq Refs
      BY <3>1, StepDeclarations DEF Expected, step
    <3>3. \A r \in Writable[step] : file'[r] = file[r]
      BY <1>11, <2>3, <3>1, <3>2 DEF EditFile, step, StepTyped, StepTypeOK
    <3> QED
      BY <1>11, <2>1, <3>2, <3>3
        DEF EditFile, process, AttemptExists, ResultExists, Saving, Expected, step
  <2> QED
    BY <2>2, <2>3
<1>12. ASSUME NEW package \in Packages \cup {NoLock}, ChangePackage(package)
       PROVE  Rest'
  BY <1>12, CompletedOutputsExistKept
    DEF ChangePackage, process, AttemptExists, ResultExists, Saving, Expected, step
<1> QED
  BY <1>1, <1>2, <1>3, <1>4, <1>5, <1>6, <1>7, <1>8, <1>9, <1>10, <1>11, <1>12
    DEF StepNext, RunStep, Environment

\* Whatever adapter runs the worker, and whatever it claims, a completed record
\* names existing contents for every expected output.
THEOREM CompletedOutputsAreThere == StepSpec => []CompletedOutputsExist
<1>1. OutputsInvariant => CompletedOutputsExist
  BY DEF OutputsInvariant
<1> QED
  BY <1>1, OutputsInvariantInit, OutputsInvariantNext, PTL DEF StepSpec
=============================================================================
