------------------------- MODULE PiAgentCall_proofs -------------------------
(***************************************************************************)
(* Theorems about a worker call, for any manifest, expected outputs, turn  *)
(* and retry limits and number of attempts: what its tools may touch, what *)
(* its report says, and what its cancellation and its reminders can count  *)
(* on.                                                                     *)
(***************************************************************************)
EXTENDS PiAgentCall, TLAPS

\* An assumption that is cited is cited with what it says.
USE DEF ManifestValid, CallSpecValid

LEMMA UnderRefs == \A roots \in SUBSET Refs : RefsUnder(roots) \subseteq Refs
<1> SUFFICES ASSUME NEW roots \in SUBSET Refs, NEW r \in RefsUnder(roots)
             PROVE  r \in Refs
  OBVIOUS
<1>1. PICK root \in roots : r \in Under[root]
  BY DEF RefsUnder
<1> QED BY <1>1, ManifestDeclarations

\* bash can write exactly what the gateway lets write and edit touch, although
\* one is mounts and the other a comparison of refs.
THEOREM SandboxWritesAsGateway == SandboxWrites = GatewayWrites
<1>1. RefsUnder(WriteRoots) \subseteq Refs
  BY UnderRefs, ManifestDeclarations
<1>2. \A r : r \in RefsUnder(WriteRoots) /\ r \notin RefsUnder(DenyRoots)
               <=> SandboxMode(r) = "write"
  <2> SUFFICES ASSUME NEW r
               PROVE  r \in RefsUnder(WriteRoots) /\ r \notin RefsUnder(DenyRoots)
                        <=> SandboxMode(r) = "write"
    OBVIOUS
  <2>1. CASE r \in RefsUnder(DenyRoots)
    <3>1. SandboxMode(r) = "hidden"
      BY <2>1 DEF SandboxMode, SandboxProfile, RefsUnder
    <3> QED BY <2>1, <3>1
  <2>2. CASE r \notin RefsUnder(DenyRoots) /\ r \in RefsUnder(WriteRoots)
    <3>1. r \in RefsUnder(DenyRoots \cup WriteRoots)
      BY <2>2 DEF RefsUnder
    <3> QED BY <2>2, <3>1 DEF SandboxMode, SandboxProfile
  <2>3. CASE r \notin RefsUnder(DenyRoots) /\ r \notin RefsUnder(WriteRoots)
    BY <2>3 DEF SandboxMode, SandboxProfile
  <2> QED BY <2>1, <2>2, <2>3
<1> QED BY <1>1, <1>2 DEF SandboxWrites, GatewayWrites, Allowed

\* bash can read what the gateway lets read, and beyond it only what it may
\* write: a writable mount is readable, a writable ref is no readable one.
THEOREM SandboxReadsAsGateway ==
  /\ GatewayReads \subseteq SandboxReads
  /\ SandboxReads \subseteq GatewayReads \cup GatewayWrites
<1>1. ASSUME NEW r \in GatewayReads PROVE r \in SandboxReads
  <2>1. r \in RefsUnder(ReadRoots) /\ r \notin RefsUnder(DenyRoots) /\ r \in Refs
    BY UnderRefs, ManifestDeclarations DEF GatewayReads, Allowed
  <2>2. CASE r \in RefsUnder(WriteRoots)
    BY <2>1, <2>2, SandboxWritesAsGateway
    DEF GatewayWrites, Allowed, SandboxWrites, SandboxReads
  <2>3. CASE r \notin RefsUnder(WriteRoots)
    <3>1. PICK root \in ReadRoots : r \in Under[root]
      BY <2>1 DEF RefsUnder
    <3>2. root \notin RefsUnder(WriteRoots)
      BY <2>3, <3>1, ManifestDeclarations DEF RefsUnder
    <3>3. r \in RefsUnder(ReadonlyMounts)
      BY <3>1, <3>2 DEF ReadonlyMounts, SandboxProfile, RefsUnder
    <3>4. r \notin RefsUnder(DenyRoots \cup WriteRoots)
      BY <2>1, <2>3 DEF RefsUnder
    <3>5. SandboxMode(r) = "read"
      BY <2>1, <2>3, <3>3, <3>4 DEF SandboxMode, SandboxProfile
    <3> QED BY <2>1, <3>5 DEF SandboxReads
  <2> QED BY <2>2, <2>3
<1>2. ASSUME NEW r \in SandboxReads PROVE r \in GatewayReads \cup GatewayWrites
  <2>1. CASE SandboxMode(r) = "write"
    BY <2>1, SandboxWritesAsGateway DEF SandboxReads, SandboxWrites
  <2>2. CASE SandboxMode(r) = "read"
    <3>1. r \notin RefsUnder(DenyRoots) /\ r \in RefsUnder(ReadonlyMounts)
      BY <2>2 DEF SandboxMode, SandboxProfile, RefsUnder
    <3>2. r \in RefsUnder(ReadRoots)
      BY <3>1 DEF ReadonlyMounts, SandboxProfile, RefsUnder
    <3> QED BY <3>1, <3>2 DEF GatewayReads, Allowed
  <2> QED BY <2>1, <2>2 DEF SandboxReads
<1> QED BY <1>1, <1>2
----------------------------------------------------------------------------
\* What an output artifact of this process may say.
Fresh(output) ==
  /\ output.produced \subseteq touched
  /\ output.status = "completed" => Outputs \subseteq output.produced
  /\ output.status = "cancelled" => attempt \in savepoints

\* There is a process only while the adapter waits for it, and a command only
\* while there is a process.
Contained ==
  /\ worker # "off" => adapter = "running" /\ attempt >= 1
  /\ command => worker \notin {"off", "starting"}
  /\ exit = "zero" => worker \in {"leaving", "off"}
  /\ worker \notin {"closing", "leaving", "off"} => turns <= MaxTurns
  /\ adapter # "idle" => report = NoReport
  /\ adapter \in {"loaded", "enforced"} => result \in RunOutputs

Saved == worker = "stop_check" \/ cancelled => attempt \in savepoints

\* Only an exit code of zero makes the adapter believe the artifact it finds.
Believed ==
  /\ exit = "zero" => outputFile \in RunOutputs /\ Fresh(outputFile)
  /\ adapter \in {"loaded", "enforced"} => Fresh(result)
  /\ adapter = "enforced" /\ result.status = "completed" => PackageHolds

\* The turns of the main prompt, each of which a provider retry may repeat.
Reserved ==
  reminders = 0 =>
    /\ worker = "starting" => turns = 0
    /\ worker = "turn" => turns < MainTurnLimit + tries
    /\ worker \in {"answering", "tools", "turn_end", "stop_check", "prompted"}
         => turns <= MainTurnLimit + tries

CallInvariant == CallTypeOK /\ Contained /\ Saved /\ Believed /\ Reserved

LEMMA WritableFiles ==
  /\ Writable \subseteq Refs
  /\ SandboxWrites \ Directories = Writable
  /\ Outputs \subseteq Writable /\ FirstOutput \in Writable
  /\ ((WriteRoots \cap SandboxWrites) \ Directories) \ exists \subseteq Writable
BY UnderRefs, SandboxWritesAsGateway, ManifestDeclarations, WorkerDeclarations
DEF Writable, GatewayWrites, Allowed

\* Everything a worker writes it may write; what it wrote stays noted.
LEMMA WrittenTyped ==
  ASSUME WorkerTypeOK, NEW S \in SUBSET Writable, Written(S)
  PROVE  /\ exists' \subseteq Writable /\ touched' \subseteq Writable
         /\ before' \subseteq Writable /\ seen' \subseteq touched' \cap exists'
         /\ touched \subseteq touched'
BY DEF WorkerTypeOK, Written

\* What a step of the worker may do to the files.
FilesMove ==
  \/ UNCHANGED workspace
  \/ \E S \in SUBSET Writable : Written(S)
  \/ \E ref \in Writable :
       /\ exists' = exists \ {ref} /\ touched' = touched \cup {ref}
       /\ seen' = seen \ {ref} /\ UNCHANGED before

FilesTyped ==
  /\ exists \subseteq Writable /\ touched \subseteq Writable
  /\ before \subseteq Writable /\ seen \subseteq touched \cap exists

LEMMA WorkerMovesFiles == WorkerStep => FilesMove
<1> SUFFICES ASSUME WorkerStep PROVE FilesMove
  OBVIOUS
<1>1. ASSUME NEW kind, Caught(kind) PROVE FilesMove
  <2>1. {FirstOutput} \in SUBSET Writable
    BY WritableFiles
  <2> QED BY <1>1, <2>1 DEF Caught, FilesMove
<1>2. CASE TurnStart \/ (\E kind \in Failures : ProviderThrows(kind)) \/ RecorderThrows
             \/ TurnEnd \/ PromptsDone
  BY <1>1, <1>2
  DEF TurnStart, ProviderThrows, RecorderThrows, TurnEnd, PromptsDone, FilesMove, workspace
<1>3. CASE \/ \E ref \in Writable : ToolWrites(ref)
           \/ StartCommand
           \/ \E ref \in SandboxWrites \ Directories : CommandWrites(ref)
  <2>1. PICK S : Written(S) /\ S \subseteq Writable
    BY <1>3, WritableFiles DEF ToolWrites, StartCommand, CreateMounts, CommandWrites
  <2> QED BY <2>1 DEF FilesMove
<1>4. CASE \E ref \in SandboxWrites \ Directories : CommandRemoves(ref)
  BY <1>4, WritableFiles DEF CommandRemoves, FilesMove
<1>5. CASE MainRejects \/ BoundaryReady \/ BoundaryFails \/ CommandEnds \/ ToolsDone
             \/ (\E kind \in {"tools", "text"} \cup Failures : Answer(kind))
  BY <1>5
  DEF MainRejects, BoundaryReady, BoundaryFails, CommandEnds, ToolsDone, Answer, FilesMove
<1>6. CASE Remind \/ WriteOutput \/ ProcessEnds
             \/ \E pressure \in {"low", "soft", "hard"}, writable \in BOOLEAN :
                  StopCheck(pressure, writable)
  BY <1>6 DEF Remind, WriteOutput, ProcessEnds, StopCheck, FilesMove
<1> QED BY <1>2, <1>3, <1>4, <1>5, <1>6 DEF WorkerStep

LEMMA FilesStayTyped ==
  ASSUME WorkerTypeOK, FilesMove
  PROVE  FilesTyped' /\ touched \subseteq touched'
<1>1. CASE UNCHANGED workspace
  BY <1>1 DEF workspace, WorkerTypeOK, FilesTyped
<1>2. ASSUME NEW S \in SUBSET Writable, Written(S)
      PROVE  FilesTyped' /\ touched \subseteq touched'
  BY <1>2, WrittenTyped DEF FilesTyped
<1>3. CASE \E ref \in Writable :
             /\ exists' = exists \ {ref} /\ touched' = touched \cup {ref}
             /\ seen' = seen \ {ref} /\ UNCHANGED before
  BY <1>3 DEF WorkerTypeOK, FilesTyped
<1> QED BY <1>1, <1>2, <1>3 DEF FilesMove

\* The types of the rest of the worker.
RunTyped ==
  /\ savepoints \subseteq 1..attempt
  /\ outputFile \in RunOutputs \cup {NoOutput, Torn}
  /\ attempt \in 0..MaxAttempts
  /\ worker \in Stages
  /\ provider \in Providers
  /\ turns \in 0..MaxTurns + 1
  /\ tries \in 0..ProviderRetries
  /\ reminders \in 0..CompletionRetries
  /\ answer \in Failures \cup {"none", "tools", "text"}
  /\ failures \subseteq Failures
  /\ cancelled \in BOOLEAN /\ checkpointed \in BOOLEAN /\ command \in BOOLEAN
  /\ exit \in {"none", "zero", "error", "timeout"}

LEMMA CaughtCloses ==
  ASSUME NEW kind \in Failures, Caught(kind)
  PROVE  worker' = "closing" /\ failures' = failures \cup {kind}
BY DEF Caught

LEMMA OutputsTyped ==
  /\ [status |-> "failed", produced |-> {}] \in RunOutputs
  /\ [status |-> FinalStatus, produced |-> Produced] \in RunOutputs
<1>1. Produced \subseteq Refs
  BY WritableFiles, WorkerDeclarations DEF Produced
<1>2. FinalStatus \in {"completed", "failed", "cancelled"}
  BY DEF FinalStatus
<1> QED BY <1>1, <1>2 DEF RunOutputs

LEMMA RunStaysTyped ==
  ASSUME CallInvariant, WorkerStep, UNCHANGED <<adapter, result, report>>
  PROVE  RunTyped'
<1>1. ASSUME MainRejects PROVE RunTyped'
  BY <1>1, OutputsTyped
  DEF MainRejects, Exits, RunTyped, CallInvariant, CallTypeOK, WorkerTypeOK, Stages, run,
      loop, verdict
<1>2. ASSUME BoundaryReady PROVE RunTyped'
  BY <1>2, WorkerDeclarations DEF BoundaryReady, RunTyped, CallInvariant,
      CallTypeOK, WorkerTypeOK, Contained, Stages, Failures, logs, run, loop,
      verdict
<1>3. ASSUME BoundaryFails PROVE RunTyped'
  BY <1>3, WorkerDeclarations DEF BoundaryFails, RunTyped, CallInvariant,
      CallTypeOK, WorkerTypeOK, Contained, Stages, Failures, logs, run, loop,
      verdict
<1>4. ASSUME TurnStart PROVE RunTyped'
  <2>1. turns' \in 0..MaxTurns + 1
    BY <1>4, WorkerDeclarations
    DEF TurnStart, CallInvariant, CallTypeOK, WorkerTypeOK, Contained
  <2>2. worker' \in Stages /\ failures' \subseteq Failures
    BY <1>4, CaughtCloses
    DEF TurnStart, CallInvariant, CallTypeOK, WorkerTypeOK, Stages, Failures
  <2> QED
    BY <1>4, <2>1, <2>2 DEF TurnStart, RunTyped, CallInvariant, CallTypeOK, WorkerTypeOK, logs, run
<1>5. ASSUME NEW kind \in {"tools", "text"} \cup Failures, Answer(kind)
     PROVE  RunTyped'
  BY <1>5, WorkerDeclarations DEF Answer, RunTyped, CallInvariant, CallTypeOK,
      WorkerTypeOK, Contained, Stages, Failures, logs, run, loop, verdict
<1>6. ASSUME NEW kind \in Failures, ProviderThrows(kind) PROVE RunTyped'
  <2>1. tries' \in 0..ProviderRetries
    BY <1>6, WorkerDeclarations DEF ProviderThrows, CallInvariant, CallTypeOK, WorkerTypeOK
  <2>2. worker' \in Stages /\ failures' \subseteq Failures
    BY <1>6, CaughtCloses
    DEF ProviderThrows, CallInvariant, CallTypeOK, WorkerTypeOK, Stages
  <2> QED
    BY <1>6, <2>1, <2>2
    DEF ProviderThrows, RunTyped, CallInvariant, CallTypeOK, WorkerTypeOK, logs, run
<1>7. ASSUME RecorderThrows PROVE RunTyped'
  <2>1. worker' = "closing" /\ failures' = failures \cup {"fatal"}
    BY <1>7, CaughtCloses DEF RecorderThrows, Failures
  <2>2. attempt \in 1..attempt
    BY <1>7 DEF RecorderThrows, CallInvariant, CallTypeOK, WorkerTypeOK, Contained
  <2>3. savepoints' \subseteq 1..attempt
    BY <1>7, <2>2
    DEF RecorderThrows, WriteSavepoint, CallInvariant, CallTypeOK, WorkerTypeOK
  <2> QED
    BY <1>7, <2>1, <2>3
    DEF RecorderThrows, RunTyped, CallInvariant, CallTypeOK, WorkerTypeOK, Stages, Failures, run
<1>8. ASSUME NEW ref \in Writable, ToolWrites(ref) PROVE RunTyped'
  BY <1>8, WorkerDeclarations DEF ToolWrites, Written, RunTyped, CallInvariant,
      CallTypeOK, WorkerTypeOK, Contained, Stages, Failures, logs, run, loop,
      verdict
<1>9. ASSUME StartCommand PROVE RunTyped'
  BY <1>9, WorkerDeclarations DEF StartCommand, CreateMounts, Written, RunTyped,
      CallInvariant, CallTypeOK, WorkerTypeOK, Contained, Stages, Failures, logs,
      run, loop, verdict
<1>10. ASSUME NEW ref \in SandboxWrites \ Directories, CommandWrites(ref)
     PROVE  RunTyped'
  BY <1>10, WorkerDeclarations DEF CommandWrites, Written, RunTyped, CallInvariant,
      CallTypeOK, WorkerTypeOK, Contained, Stages, Failures, logs, run, loop,
      verdict
<1>11. ASSUME NEW ref \in SandboxWrites \ Directories, CommandRemoves(ref)
     PROVE  RunTyped'
  BY <1>11, WorkerDeclarations DEF CommandRemoves, RunTyped, CallInvariant,
      CallTypeOK, WorkerTypeOK, Contained, Stages, Failures, logs, run, loop,
      verdict
<1>12. ASSUME CommandEnds PROVE RunTyped'
  <2>1. command' \in BOOLEAN
    BY <1>12 DEF CommandEnds
  <2>2. UNCHANGED <<logs, run, loop, verdict, worker, exit>>
    BY <1>12 DEF CommandEnds
  <2> QED
    BY <2>1, <2>2
    DEF RunTyped, CallInvariant, CallTypeOK, WorkerTypeOK, logs, run, loop, verdict
<1>13. ASSUME ToolsDone PROVE RunTyped'
  BY <1>13, WorkerDeclarations DEF ToolsDone, RunTyped, CallInvariant, CallTypeOK,
      WorkerTypeOK, Contained, Stages, Failures, logs, run, loop, verdict
<1>14. ASSUME TurnEnd PROVE RunTyped'
  <2>1. savepoints' \subseteq 1..attempt
    BY <1>14 DEF TurnEnd, WriteSavepoint, CallInvariant, CallTypeOK, WorkerTypeOK, Contained
  <2>2. /\ worker' \in {"closing", "prompted", "stop_check"}
        /\ failures' \subseteq Failures /\ cancelled' \in BOOLEAN
    BY <1>14, CaughtCloses DEF TurnEnd, CallInvariant, CallTypeOK, WorkerTypeOK, Failures
  <2>3. answer' \in Failures \cup {"none", "tools", "text"} /\ checkpointed' \in BOOLEAN
    BY <1>14 DEF TurnEnd, MarkCheckpoint, CallInvariant, CallTypeOK, WorkerTypeOK
  <2> QED
    BY <1>14, <2>1, <2>2, <2>3
    DEF TurnEnd, RunTyped, CallInvariant, CallTypeOK, WorkerTypeOK, Stages, run
<1>15. ASSUME NEW pressure \in {"low", "soft", "hard"}, NEW writable \in BOOLEAN,
    StopCheck(pressure, writable)
     PROVE  RunTyped'
  BY <1>15, WorkerDeclarations DEF StopCheck, MarkCheckpoint, RunTyped,
      CallInvariant, CallTypeOK, WorkerTypeOK, Contained, Stages, Failures, logs,
      run, loop, verdict
<1>16. ASSUME Remind PROVE RunTyped'
  BY <1>16, WorkerDeclarations DEF Remind, RunTyped, CallInvariant, CallTypeOK,
      WorkerTypeOK, Contained, Stages, Failures, logs, run, loop, verdict
<1>17. ASSUME PromptsDone PROVE RunTyped'
  BY <1>17, WorkerDeclarations DEF PromptsDone, Caught, Written, RunTyped,
      CallInvariant, CallTypeOK, WorkerTypeOK, Contained, Stages, Failures, logs,
      run, loop, verdict
<1>18. ASSUME WriteOutput PROVE RunTyped'
  BY <1>18, OutputsTyped
  DEF WriteOutput, Exits, RunTyped, CallInvariant, CallTypeOK, WorkerTypeOK, Stages, run,
      loop, verdict
<1>19. ASSUME ProcessEnds PROVE RunTyped'
  BY <1>19, WorkerDeclarations DEF ProcessEnds, RunTyped, CallInvariant, CallTypeOK,
      WorkerTypeOK, Contained, Stages, Failures, logs, run, loop, verdict
<1> QED BY <1>1, <1>2, <1>3, <1>4, <1>5, <1>6, <1>7, <1>8, <1>9, <1>10, <1>11,
    <1>12, <1>13, <1>14, <1>15, <1>16, <1>17, <1>18, <1>19 DEF WorkerStep

LEMMA WorkerStaysContained ==
  ASSUME CallInvariant, WorkerStep, UNCHANGED <<adapter, result, report>>
  PROVE  Contained'
<1>1. ASSUME MainRejects PROVE Contained'
  BY <1>1, WorkerDeclarations DEF MainRejects, Exits, CallInvariant, Contained,
      CallTypeOK, WorkerTypeOK, logs, run, loop, verdict
<1>2. ASSUME BoundaryReady PROVE Contained'
  BY <1>2, WorkerDeclarations DEF BoundaryReady, CallInvariant, Contained,
      CallTypeOK, WorkerTypeOK, logs, run, loop, verdict
<1>3. ASSUME BoundaryFails PROVE Contained'
  BY <1>3, WorkerDeclarations DEF BoundaryFails, CallInvariant, Contained,
      CallTypeOK, WorkerTypeOK, logs, run, loop, verdict
<1>4. ASSUME TurnStart PROVE Contained'
  BY <1>4, WorkerDeclarations DEF TurnStart, Caught, Written, CallInvariant,
      Contained, CallTypeOK, WorkerTypeOK, logs, run, loop, verdict
<1>5. ASSUME NEW kind \in {"tools", "text"} \cup Failures, Answer(kind)
     PROVE  Contained'
  BY <1>5, WorkerDeclarations DEF Answer, CallInvariant, Contained, CallTypeOK,
      WorkerTypeOK, logs, run, loop, verdict
<1>6. ASSUME NEW kind \in Failures, ProviderThrows(kind) PROVE Contained'
  BY <1>6, WorkerDeclarations DEF ProviderThrows, Caught, Written, CallInvariant,
      Contained, CallTypeOK, WorkerTypeOK, logs, run, loop, verdict
<1>7. ASSUME RecorderThrows PROVE Contained'
  BY <1>7, WorkerDeclarations DEF RecorderThrows, Caught, Written, WriteSavepoint,
      CallInvariant, Contained, CallTypeOK, WorkerTypeOK, logs, run, loop, verdict
<1>8. ASSUME NEW ref \in Writable, ToolWrites(ref) PROVE Contained'
  BY <1>8, WorkerDeclarations DEF ToolWrites, Written, CallInvariant, Contained,
      CallTypeOK, WorkerTypeOK, logs, run, loop, verdict
<1>9. ASSUME StartCommand PROVE Contained'
  BY <1>9, WorkerDeclarations DEF StartCommand, CreateMounts, Written,
      CallInvariant, Contained, CallTypeOK, WorkerTypeOK, logs, run, loop, verdict
<1>10. ASSUME NEW ref \in SandboxWrites \ Directories, CommandWrites(ref)
     PROVE  Contained'
  BY <1>10, WorkerDeclarations DEF CommandWrites, Written, CallInvariant, Contained,
      CallTypeOK, WorkerTypeOK, logs, run, loop, verdict
<1>11. ASSUME NEW ref \in SandboxWrites \ Directories, CommandRemoves(ref)
     PROVE  Contained'
  BY <1>11, WorkerDeclarations DEF CommandRemoves, CallInvariant, Contained,
      CallTypeOK, WorkerTypeOK, logs, run, loop, verdict
<1>12. ASSUME CommandEnds PROVE Contained'
  BY <1>12, WorkerDeclarations DEF CommandEnds, CallInvariant, Contained,
      CallTypeOK, WorkerTypeOK, logs, run, loop, verdict
<1>13. ASSUME ToolsDone PROVE Contained'
  BY <1>13, WorkerDeclarations DEF ToolsDone, CallInvariant, Contained, CallTypeOK,
      WorkerTypeOK, logs, run, loop, verdict
<1>14. ASSUME TurnEnd PROVE Contained'
  BY <1>14, WorkerDeclarations DEF TurnEnd, WriteSavepoint, MarkCheckpoint, Caught,
      Written, CallInvariant, Contained, CallTypeOK, WorkerTypeOK, logs, run, loop,
      verdict
<1>15. ASSUME NEW pressure \in {"low", "soft", "hard"}, NEW writable \in BOOLEAN,
    StopCheck(pressure, writable)
     PROVE  Contained'
  BY <1>15, WorkerDeclarations DEF StopCheck, MarkCheckpoint, CallInvariant,
      Contained, CallTypeOK, WorkerTypeOK, logs, run, loop, verdict
<1>16. ASSUME Remind PROVE Contained'
  BY <1>16, WorkerDeclarations DEF Remind, CallInvariant, Contained, CallTypeOK,
      WorkerTypeOK, logs, run, loop, verdict
<1>17. ASSUME PromptsDone PROVE Contained'
  BY <1>17, WorkerDeclarations DEF PromptsDone, Caught, Written, CallInvariant,
      Contained, CallTypeOK, WorkerTypeOK, logs, run, loop, verdict
<1>18. ASSUME WriteOutput PROVE Contained'
  BY <1>18, WorkerDeclarations DEF WriteOutput, Exits, CallInvariant, Contained,
      CallTypeOK, WorkerTypeOK, logs, run, loop, verdict
<1>19. ASSUME ProcessEnds PROVE Contained'
  BY <1>19, WorkerDeclarations DEF ProcessEnds, CallInvariant, Contained,
      CallTypeOK, WorkerTypeOK, logs, run, loop, verdict
<1> QED BY <1>1, <1>2, <1>3, <1>4, <1>5, <1>6, <1>7, <1>8, <1>9, <1>10, <1>11,
    <1>12, <1>13, <1>14, <1>15, <1>16, <1>17, <1>18, <1>19 DEF WorkerStep

\* Nothing is cancelled before the savepoint of its turn.
LEMMA SavedBeforeCancelled ==
  ASSUME CallInvariant, WorkerStep, UNCHANGED <<adapter, result, report>>
  PROVE  Saved'
<1>1. ASSUME MainRejects PROVE Saved'
  BY <1>1 DEF MainRejects, Exits, CallInvariant, Saved, Contained, logs, run, loop,
      verdict
<1>2. ASSUME BoundaryReady PROVE Saved'
  BY <1>2 DEF BoundaryReady, CallInvariant, Saved, Contained, logs, run, loop,
      verdict
<1>3. ASSUME BoundaryFails PROVE Saved'
  BY <1>3 DEF BoundaryFails, CallInvariant, Saved, Contained, logs, run, loop,
      verdict
<1>4. ASSUME TurnStart PROVE Saved'
  BY <1>4 DEF TurnStart, Caught, Written, CallInvariant, Saved, Contained, logs,
      run, loop, verdict
<1>5. ASSUME NEW kind \in {"tools", "text"} \cup Failures, Answer(kind) PROVE Saved'
  BY <1>5 DEF Answer, CallInvariant, Saved, Contained, logs, run, loop, verdict
<1>6. ASSUME NEW kind \in Failures, ProviderThrows(kind) PROVE Saved'
  BY <1>6 DEF ProviderThrows, Caught, Written, CallInvariant, Saved, Contained,
      logs, run, loop, verdict
<1>7. ASSUME RecorderThrows PROVE Saved'
  BY <1>7 DEF RecorderThrows, Caught, Written, WriteSavepoint, CallInvariant, Saved,
      Contained, logs, run, loop, verdict
<1>8. ASSUME NEW ref \in Writable, ToolWrites(ref) PROVE Saved'
  BY <1>8 DEF ToolWrites, Written, CallInvariant, Saved, Contained, logs, run, loop,
      verdict
<1>9. ASSUME StartCommand PROVE Saved'
  BY <1>9 DEF StartCommand, CreateMounts, Written, CallInvariant, Saved, Contained,
      logs, run, loop, verdict
<1>10. ASSUME NEW ref \in SandboxWrites \ Directories, CommandWrites(ref)
     PROVE  Saved'
  BY <1>10 DEF CommandWrites, Written, CallInvariant, Saved, Contained, logs, run,
      loop, verdict
<1>11. ASSUME NEW ref \in SandboxWrites \ Directories, CommandRemoves(ref)
     PROVE  Saved'
  BY <1>11 DEF CommandRemoves, CallInvariant, Saved, Contained, logs, run, loop,
      verdict
<1>12. ASSUME CommandEnds PROVE Saved'
  BY <1>12 DEF CommandEnds, CallInvariant, Saved, Contained, logs, run, loop,
      verdict
<1>13. ASSUME ToolsDone PROVE Saved'
  BY <1>13 DEF ToolsDone, CallInvariant, Saved, Contained, logs, run, loop, verdict
<1>14. ASSUME TurnEnd PROVE Saved'
  BY <1>14 DEF TurnEnd, WriteSavepoint, MarkCheckpoint, Caught, Written,
      CallInvariant, Saved, Contained, logs, run, loop, verdict
<1>15. ASSUME NEW pressure \in {"low", "soft", "hard"}, NEW writable \in BOOLEAN,
    StopCheck(pressure, writable)
     PROVE  Saved'
  BY <1>15 DEF StopCheck, MarkCheckpoint, CallInvariant, Saved, Contained, logs,
      run, loop, verdict
<1>16. ASSUME Remind PROVE Saved'
  BY <1>16 DEF Remind, CallInvariant, Saved, Contained, logs, run, loop, verdict
<1>17. ASSUME PromptsDone PROVE Saved'
  BY <1>17 DEF PromptsDone, Caught, Written, CallInvariant, Saved, Contained, logs,
      run, loop, verdict
<1>18. ASSUME WriteOutput PROVE Saved'
  BY <1>18 DEF WriteOutput, Exits, CallInvariant, Saved, Contained, logs, run, loop,
      verdict
<1>19. ASSUME ProcessEnds PROVE Saved'
  BY <1>19 DEF ProcessEnds, CallInvariant, Saved, Contained, logs, run, loop,
      verdict
<1> QED BY <1>1, <1>2, <1>3, <1>4, <1>5, <1>6, <1>7, <1>8, <1>9, <1>10, <1>11,
    <1>12, <1>13, <1>14, <1>15, <1>16, <1>17, <1>18, <1>19 DEF WorkerStep

LEMMA ArtifactsStayFresh ==
  ASSUME CallInvariant, WorkerStep, UNCHANGED <<adapter, result, report>>
  PROVE  Believed'
<1>1. adapter' = "running" /\ UNCHANGED attempt
  BY DEF CallInvariant, Contained, WorkerStep, MainRejects, BoundaryReady, BoundaryFails,
         TurnStart, Answer, ProviderThrows, RecorderThrows, ToolWrites, StartCommand,
         CommandWrites, CommandRemoves, CommandEnds, ToolsDone, TurnEnd, StopCheck, Remind,
         PromptsDone, WriteOutput, ProcessEnds, run
<1>2. touched \subseteq touched'
  BY WorkerMovesFiles, FilesStayTyped DEF CallInvariant, CallTypeOK
<1>3. CASE WriteOutput
  <2>1. /\ outputFile' = [status |-> FinalStatus, produced |-> Produced]
        /\ UNCHANGED savepoints
    BY <1>3 DEF WriteOutput
  <2>2. Produced \subseteq touched
    BY DEF Produced, CallInvariant, CallTypeOK, WorkerTypeOK
  <2>3. FinalStatus = "completed" => Outputs \subseteq Produced
    BY DEF FinalStatus, MissingOutputs, Produced
  <2>4. FinalStatus = "cancelled" => attempt \in savepoints
    BY DEF FinalStatus, CallInvariant, Saved
  <2> QED
    BY <1>1, <1>2, <2>1, <2>2, <2>3, <2>4, OutputsTyped DEF Believed, Fresh
<1>4. CASE MainRejects
  BY <1>1, <1>4 DEF MainRejects, Exits, Believed
<1>5. CASE ~WriteOutput /\ ~MainRejects
  <2>1. UNCHANGED <<outputFile, exit>> /\ savepoints \subseteq savepoints'
    BY <1>5
    DEF WorkerStep, BoundaryReady, BoundaryFails, TurnStart, Answer, ProviderThrows,
        RecorderThrows, ToolWrites, StartCommand, CommandWrites, CommandRemoves,
        CommandEnds, ToolsDone, TurnEnd, StopCheck, Remind, PromptsDone, ProcessEnds,
        WriteSavepoint, logs
  <2> QED BY <1>1, <1>2, <2>1 DEF CallInvariant, Believed, Fresh
<1> QED BY <1>3, <1>4, <1>5

LEMMA LimitIsTurns ==
  /\ MainTurnLimit \in Nat /\ MainTurnLimit >= 1
  /\ MainTurnLimit <= 1 \/ MainTurnLimit + CompletionRetries <= MaxTurns
BY WorkerDeclarations DEF MainTurnLimit, MinOf

LEMMA ReserveStays ==
  ASSUME CallInvariant, WorkerStep, UNCHANGED <<adapter, result, report>>
  PROVE  Reserved'
<1>1. ASSUME MainRejects PROVE Reserved'
  BY <1>1, LimitIsTurns DEF MainRejects, Exits, CallInvariant, Reserved, CallTypeOK,
      WorkerTypeOK, logs, run, loop, verdict
<1>2. ASSUME BoundaryReady PROVE Reserved'
  BY <1>2, LimitIsTurns DEF BoundaryReady, CallInvariant, Reserved, CallTypeOK,
      WorkerTypeOK, logs, run, loop, verdict
<1>3. ASSUME BoundaryFails PROVE Reserved'
  BY <1>3, LimitIsTurns DEF BoundaryFails, CallInvariant, Reserved, CallTypeOK,
      WorkerTypeOK, logs, run, loop, verdict
<1>4. ASSUME TurnStart PROVE Reserved'
  BY <1>4, LimitIsTurns DEF TurnStart, Caught, Written, CallInvariant, Reserved,
      CallTypeOK, WorkerTypeOK, logs, run, loop, verdict
<1>5. ASSUME NEW kind \in {"tools", "text"} \cup Failures, Answer(kind)
     PROVE  Reserved'
  BY <1>5, LimitIsTurns DEF Answer, CallInvariant, Reserved, CallTypeOK,
      WorkerTypeOK, logs, run, loop, verdict
<1>6. ASSUME NEW kind \in Failures, ProviderThrows(kind) PROVE Reserved'
  BY <1>6, LimitIsTurns DEF ProviderThrows, Caught, Written, CallInvariant,
      Reserved, CallTypeOK, WorkerTypeOK, logs, run, loop, verdict
<1>7. ASSUME RecorderThrows PROVE Reserved'
  BY <1>7, LimitIsTurns DEF RecorderThrows, Caught, Written, WriteSavepoint,
      CallInvariant, Reserved, CallTypeOK, WorkerTypeOK, logs, run, loop, verdict
<1>8. ASSUME NEW ref \in Writable, ToolWrites(ref) PROVE Reserved'
  BY <1>8, LimitIsTurns DEF ToolWrites, Written, CallInvariant, Reserved,
      CallTypeOK, WorkerTypeOK, logs, run, loop, verdict
<1>9. ASSUME StartCommand PROVE Reserved'
  BY <1>9, LimitIsTurns DEF StartCommand, CreateMounts, Written, CallInvariant,
      Reserved, CallTypeOK, WorkerTypeOK, logs, run, loop, verdict
<1>10. ASSUME NEW ref \in SandboxWrites \ Directories, CommandWrites(ref)
     PROVE  Reserved'
  BY <1>10, LimitIsTurns DEF CommandWrites, Written, CallInvariant, Reserved,
      CallTypeOK, WorkerTypeOK, logs, run, loop, verdict
<1>11. ASSUME NEW ref \in SandboxWrites \ Directories, CommandRemoves(ref)
     PROVE  Reserved'
  BY <1>11, LimitIsTurns DEF CommandRemoves, CallInvariant, Reserved, CallTypeOK,
      WorkerTypeOK, logs, run, loop, verdict
<1>12. ASSUME CommandEnds PROVE Reserved'
  BY <1>12, LimitIsTurns DEF CommandEnds, CallInvariant, Reserved, CallTypeOK,
      WorkerTypeOK, logs, run, loop, verdict
<1>13. ASSUME ToolsDone PROVE Reserved'
  BY <1>13, LimitIsTurns DEF ToolsDone, CallInvariant, Reserved, CallTypeOK,
      WorkerTypeOK, logs, run, loop, verdict
<1>14. ASSUME TurnEnd PROVE Reserved'
  BY <1>14, LimitIsTurns DEF TurnEnd, WriteSavepoint, MarkCheckpoint, Caught,
      Written, CallInvariant, Reserved, CallTypeOK, WorkerTypeOK, logs, run, loop,
      verdict
<1>15. ASSUME NEW pressure \in {"low", "soft", "hard"}, NEW writable \in BOOLEAN,
    StopCheck(pressure, writable)
     PROVE  Reserved'
  BY <1>15, LimitIsTurns DEF StopCheck, MarkCheckpoint, CallInvariant, Reserved,
      CallTypeOK, WorkerTypeOK, logs, run, loop, verdict
<1>16. ASSUME Remind PROVE Reserved'
  BY <1>16, LimitIsTurns DEF Remind, CallInvariant, Reserved, CallTypeOK,
      WorkerTypeOK, logs, run, loop, verdict
<1>17. ASSUME PromptsDone PROVE Reserved'
  BY <1>17, LimitIsTurns DEF PromptsDone, Caught, Written, CallInvariant, Reserved,
      CallTypeOK, WorkerTypeOK, logs, run, loop, verdict
<1>18. ASSUME WriteOutput PROVE Reserved'
  BY <1>18, LimitIsTurns DEF WriteOutput, Exits, CallInvariant, Reserved,
      CallTypeOK, WorkerTypeOK, logs, run, loop, verdict
<1>19. ASSUME ProcessEnds PROVE Reserved'
  BY <1>19, LimitIsTurns DEF ProcessEnds, CallInvariant, Reserved, CallTypeOK,
      WorkerTypeOK, logs, run, loop, verdict
<1> QED BY <1>1, <1>2, <1>3, <1>4, <1>5, <1>6, <1>7, <1>8, <1>9, <1>10, <1>11,
    <1>12, <1>13, <1>14, <1>15, <1>16, <1>17, <1>18, <1>19 DEF WorkerStep

----------------------------------------------------------------------------
LEMMA CallInitially == CallInit => CallInvariant
<1> SUFFICES ASSUME CallInit PROVE CallInvariant
  OBVIOUS
<1>1. 0 \in 0..MaxAttempts /\ 0 \in 0..MaxTurns + 1 /\ 0 \in 0..ProviderRetries
      /\ 0 \in 0..CompletionRetries
  BY WorkerDeclarations
<1>2. CallTypeOK
  BY <1>1 DEF CallInit, WorkerInit, CallTypeOK, WorkerTypeOK, Stages
<1> QED
  BY <1>2
  DEF CallInit, WorkerInit, CallInvariant, Contained, Saved, Believed, Reserved

LEMMA WorkerKeeps ==
  ASSUME CallInvariant, WorkerRuns
  PROVE  CallInvariant'
<1>1. WorkerStep /\ UNCHANGED <<adapter, result, report>>
  BY DEF WorkerRuns
<1>2. FilesTyped'
  BY <1>1, WorkerMovesFiles, FilesStayTyped DEF CallInvariant, CallTypeOK
<1>3. CallTypeOK'
  BY <1>1, <1>2, RunStaysTyped
  DEF CallInvariant, CallTypeOK, WorkerTypeOK, FilesTyped, RunTyped
<1> QED
  BY <1>1, <1>3, WorkerStaysContained, SavedBeforeCancelled, ArtifactsStayFresh,
     ReserveStays
  DEF CallInvariant

LEMMA PackageTyped ==
  ASSUME CallTypeOK, result \in RunOutputs
  PROVE  OutputPackage \subseteq Refs
BY WritableFiles DEF CallTypeOK, OutputPackage, RunOutputs

\* The process starts, cannot start, or is killed.
LEMMA ProcessKeeps ==
  ASSUME CallInvariant, RunCall \/ SetupFails \/ WorkerDies
  PROVE  CallInvariant'
<1>1. ASSUME RunCall PROVE CallInvariant'
  <2>1. attempt' \in 0..MaxAttempts /\ attempt' = attempt + 1
    BY <1>1, WorkerDeclarations
    DEF RunCall, StartWorker, CallInvariant, CallTypeOK, WorkerTypeOK
  <2>2. 0 \in 0..MaxTurns + 1 /\ 0 \in 0..ProviderRetries /\ 0 \in 0..CompletionRetries
    BY WorkerDeclarations
  <2>3. worker = "off" /\ ~command /\ savepoints' \subseteq 1..attempt'
    BY <1>1, <2>1
    DEF RunCall, StartWorker, logs, CallInvariant, Contained, CallTypeOK, WorkerTypeOK
  <2>4. CallTypeOK'
    BY <1>1, <2>1, <2>2, <2>3
    DEF RunCall, StartWorker, logs, CallInvariant, CallTypeOK, WorkerTypeOK, Stages
  <2>5. Contained' /\ Saved' /\ Believed' /\ Reserved'
    BY <1>1, <2>1, <2>3, WorkerDeclarations
    DEF RunCall, StartWorker, logs, CallInvariant, CallTypeOK, WorkerTypeOK, Contained,
        Saved, Believed, Reserved
  <2> QED BY <2>4, <2>5 DEF CallInvariant
<1>2. ASSUME SetupFails PROVE CallInvariant'
  <2>1. CallTypeOK'
    BY <1>2
    DEF SetupFails, CallInvariant, CallTypeOK, WorkerTypeOK, Stages, workspace, logs, run,
        loop, verdict
  <2> QED
    BY <1>2, <2>1
    DEF SetupFails, CallInvariant, Contained, Saved, Believed, Reserved, logs, run, loop,
        verdict
<1>3. ASSUME NEW how \in {"error", "timeout"}, Killed(how),
             UNCHANGED <<adapter, result, report>>
      PROVE  CallInvariant'
  <2>0. /\ worker' \in Stages /\ command' \in BOOLEAN
        /\ exit' \in {"none", "zero", "error", "timeout"}
        /\ outputFile' \in {outputFile, Torn}
        /\ UNCHANGED <<workspace, savepoints, run, loop, verdict, adapter, result, report>>
    BY <1>3 DEF Killed, Stages
  <2>1. CallTypeOK'
    BY <2>0
    DEF CallInvariant, CallTypeOK, WorkerTypeOK, workspace, run, loop, verdict
  <2>2. adapter' = "running"
    BY <1>3 DEF Killed, CallInvariant, Contained
  <2> QED
    BY <1>3, <2>1, <2>2
    DEF Killed, CallInvariant, Contained, Saved, Believed, Reserved, run, loop, verdict
<1> QED BY <1>1, <1>2, <1>3 DEF WorkerDies

\* What the adapter believes, and what it makes of it.
LEMMA AdapterKeeps ==
  ASSUME CallInvariant, AdapterStep
  PROVE  CallInvariant'
<1>1. ASSUME LoadResult PROVE CallInvariant'
  <2>1. FailureResult \in RunOutputs /\ Fresh(FailureResult)
    BY OutputsTyped DEF FailureResult, Fresh
  <2>2. result' \in RunOutputs /\ Fresh(result') /\ outputFile' = result'
    <3>1. CASE CommandFailed \/ outputFile \in {NoOutput, Torn}
      BY <1>1, <2>1, <3>1 DEF LoadResult
    <3>2. CASE ~CommandFailed /\ outputFile \notin {NoOutput, Torn}
      <4>1. exit = "zero" /\ result' = outputFile
        BY <1>1, <3>2 DEF LoadResult, CommandFailed, CallInvariant, CallTypeOK, WorkerTypeOK
      <4> QED BY <1>1, <4>1 DEF LoadResult, CallInvariant, Believed
    <3> QED BY <1>1, <3>1, <3>2 DEF LoadResult
  <2>3. /\ UNCHANGED <<workspace, savepoints, run, loop, verdict, worker, command, exit,
                       report>>
        /\ adapter = "running" /\ adapter' = "loaded" /\ worker = "off"
    BY <1>1 DEF LoadResult
  <2>4. Fresh(outputFile)' /\ Fresh(result)'
    BY <2>2, <2>3 DEF Fresh, workspace, run
  <2>5. CallTypeOK'
    BY <2>2, <2>3
    DEF CallInvariant, CallTypeOK, WorkerTypeOK, workspace, run, loop, verdict
  <2> QED
    BY <2>2, <2>3, <2>4, <2>5
    DEF CallInvariant, Contained, Saved, Believed, Reserved, run, loop, verdict
<1>2. ASSUME EnforceContract PROVE CallInvariant'
  <2>1. /\ UNCHANGED <<workspace, savepoints, run, loop, verdict, worker, command, exit,
                       report>>
        /\ adapter = "loaded" /\ adapter' = "enforced" /\ outputFile' = result'
        /\ result' = [result EXCEPT !.status = EnforcedStatus]
    BY <1>2 DEF EnforceContract
  <2>2. result \in RunOutputs /\ Fresh(result)
    BY <2>1 DEF CallInvariant, Contained, Believed
  <2>3. EnforcedStatus \in {"completed", "failed", "cancelled"}
    BY <2>2 DEF EnforcedStatus, RunOutputs
  <2>4. result'.status = EnforcedStatus /\ result'.produced = result.produced
    BY <2>1, <2>2 DEF RunOutputs
  <2>5. result' \in RunOutputs
    BY <2>1, <2>2, <2>3 DEF RunOutputs
  <2>6. EnforcedStatus = "completed" => PackageHolds /\ Outputs \subseteq result.produced
    BY <2>2 DEF EnforcedStatus, Recoverable, Fresh
  <2>7. EnforcedStatus = "cancelled" => result.status = "cancelled"
    BY <2>2 DEF EnforcedStatus
  <2>8. Fresh(result)' /\ Fresh(outputFile)'
    BY <2>1, <2>2, <2>4, <2>6, <2>7 DEF Fresh, workspace, run
  <2>9. EnforcedStatus = "completed" => PackageHolds'
    BY <2>1, <2>4, <2>6 DEF PackageHolds, OutputPackage, workspace
  <2>10. CallTypeOK'
    BY <2>1, <2>5
    DEF CallInvariant, CallTypeOK, WorkerTypeOK, workspace, run, loop, verdict
  <2>11. Believed'
    BY <2>1, <2>4, <2>5, <2>8, <2>9 DEF Believed
  <2> QED
    BY <2>1, <2>5, <2>10, <2>11
    DEF CallInvariant, Contained, Saved, Reserved, run, loop, verdict
<1>3. ASSUME WriteReport PROVE CallInvariant'
  <2>1. OutputPackage \subseteq Refs
    BY <1>3, PackageTyped DEF WriteReport, CallInvariant, Contained
  <2>2. CallTypeOK'
    BY <1>3, <2>1
    DEF WriteReport, CallInvariant, CallTypeOK, WorkerTypeOK, workerVars, workspace, logs,
        run, loop, verdict
  <2> QED
    BY <1>3, <2>2
    DEF WriteReport, CallInvariant, Contained, Saved, Believed, Fresh, Reserved, workerVars,
        workspace, logs, run, loop, verdict
<1> QED BY <1>1, <1>2, <1>3 DEF AdapterStep

LEMMA CallKept == CallInvariant /\ [CallNext]_callVars => CallInvariant'
<1> SUFFICES ASSUME CallInvariant, [CallNext]_callVars PROVE CallInvariant'
  OBVIOUS
<1>1. CASE UNCHANGED callVars
  BY <1>1
  DEF callVars, workerVars, workspace, logs, run, loop, verdict, CallInvariant, CallTypeOK,
      WorkerTypeOK, Contained, Saved, Believed, Fresh, PackageHolds, OutputPackage, Reserved
<1> QED
  BY <1>1, WorkerKeeps, ProcessKeeps, AdapterKeeps DEF CallNext

LEMMA CallInvariantHolds == CallSpec => []CallInvariant
BY CallInitially, CallKept, PTL DEF CallSpec

\* The adapter and its worker are well typed; in particular no tool and no
\* command ever changes a file that its manifest does not let it write.
THEOREM CallTypeCorrect == CallSpec => []CallTypeOK
<1>1. CallInvariant => CallTypeOK
  BY DEF CallInvariant
<1> QED BY CallInvariantHolds, <1>1, PTL

\* A call that is cancelled has a savepoint of its own to resume from.
THEOREM CancelledCallsResume == CallSpec => []CancelledCanResume
<1>1. CallInvariant => CancelledCanResume
  BY DEF CallInvariant, Believed, Fresh, CancelledCanResume
<1> QED BY CallInvariantHolds, <1>1, PTL

\* The reminders keep their turns, but for one for each provider retry.
THEOREM ReserveIsKept == CallSpec => []ReserveKept
<1>1. CallInvariant => ReserveKept
  BY LimitIsTurns, WorkerDeclarations
  DEF CallInvariant, CallTypeOK, WorkerTypeOK, Reserved, ReserveKept
<1> QED BY CallInvariantHolds, <1>1, PTL

----------------------------------------------------------------------------
LEMMA AttemptInitially == CallInit => Promise!AttemptInit
BY DEF CallInit, WorkerInit, Promise!AttemptInit

LEMMA AttemptChanges ==
  ASSUME CallInvariant, WorkerRuns
  PROVE  Promise!AttemptNext \/ UNCHANGED Promise!attemptVars
<1>1. FilesMove /\ UNCHANGED report
  BY WorkerMovesFiles DEF WorkerRuns
<1>2. report = NoReport
  <2>1. worker # "off"
    BY DEF WorkerRuns, CallInvariant, Contained, WorkerStep, MainRejects, BoundaryReady,
           BoundaryFails, TurnStart, Answer, ProviderThrows, RecorderThrows, ToolWrites,
           StartCommand, CommandWrites, CommandRemoves, CommandEnds, ToolsDone, TurnEnd,
           StopCheck, Remind, PromptsDone, WriteOutput, ProcessEnds
  <2> QED BY <2>1 DEF CallInvariant, Contained
<1>3. CASE UNCHANGED workspace
  BY <1>1, <1>3 DEF workspace, Promise!attemptVars
<1>4. ASSUME NEW S \in SUBSET Writable, Written(S) PROVE Promise!Change(S)
  <2>1. exists' = (exists \ S) \cup S
    BY <1>4 DEF Written
  <2> QED BY <1>1, <1>2, <1>4, <2>1 DEF Written, Promise!Change
<1>5. ASSUME NEW ref \in Writable,
             exists' = exists \ {ref}, touched' = touched \cup {ref}
      PROVE  Promise!Change({ref})
  <2>1. exists' = (exists \ {ref}) \cup {}
    BY <1>5
  <2> QED BY <1>1, <1>2, <1>5, <2>1 DEF Promise!Change
<1> QED
  BY <1>1, <1>3, <1>4, <1>5 DEF FilesMove, Promise!AttemptNext

LEMMA AttemptReports ==
  ASSUME CallInvariant, WriteReport
  PROVE  Promise!AttemptNext
<1> DEFINE status == IF result.status = "completed" THEN "completed" ELSE "failed"
<1>1. /\ report = NoReport /\ result \in RunOutputs /\ Fresh(result)
      /\ result.status = "completed" => PackageHolds
  BY DEF WriteReport, CallInvariant, Contained, Believed
<1>2. /\ report' = [status |-> status, outputs |-> OutputPackage]
      /\ UNCHANGED <<exists, touched>>
  BY DEF WriteReport, workerVars, workspace
<1>3. status = "completed" => Outputs \subseteq touched \cap exists
  BY <1>1 DEF Fresh, PackageHolds
<1>4. /\ Outputs \cap exists \subseteq OutputPackage
      /\ OutputPackage \subseteq (Outputs \cap exists) \cup touched
  BY <1>1 DEF OutputPackage, Fresh
<1>5. OutputPackage \in SUBSET Writable
  BY <1>1, WritableFiles
  DEF OutputPackage, Fresh, CallInvariant, CallTypeOK, WorkerTypeOK
<1>6. status \in Promise!Statuses
  BY DEF Promise!Statuses
<1>7. Promise!Report(status, OutputPackage)
  BY <1>1, <1>2, <1>3, <1>4 DEF Promise!Report
<1> QED BY <1>5, <1>6, <1>7 DEF Promise!AttemptNext

\* A step is told no more than the worker of this very call did, whatever the
\* process leaves behind and however it ends.
THEOREM CallImplementsAttempt == CallSpec => ImplementsAttempt
<1>1. CallInvariant /\ [CallNext]_callVars => [Promise!AttemptNext]_Promise!attemptVars
  <2> SUFFICES ASSUME CallInvariant, [CallNext]_callVars
               PROVE  [Promise!AttemptNext]_Promise!attemptVars
    OBVIOUS
  <2>1. CASE RunCall
    BY <2>1 DEF RunCall, StartWorker, Promise!Begin, Promise!AttemptNext
  <2>2. CASE SetupFails \/ WorkerDies
    BY <2>2 DEF SetupFails, WorkerDies, Killed, workspace, Promise!attemptVars
  <2>3. CASE WorkerRuns
    BY <2>3, AttemptChanges
  <2>4. CASE LoadResult \/ EnforceContract
    BY <2>4 DEF LoadResult, EnforceContract, workspace, Promise!attemptVars
  <2>5. CASE WriteReport
    BY <2>5, AttemptReports
  <2>6. CASE UNCHANGED callVars
    BY <2>6 DEF callVars, workerVars, workspace, Promise!attemptVars
  <2> QED BY <2>1, <2>2, <2>3, <2>4, <2>5, <2>6 DEF CallNext, AdapterStep
<1> QED
  BY <1>1, AttemptInitially, CallInvariantHolds, PTL
  DEF CallSpec, ImplementsAttempt, Promise!AttemptSpec
=============================================================================
