# MissionForge in TLA+

MissionForge runs AI workers ("PiWorkers") on steps of a declared flow and keeps
everything that matters in files of a workspace: a step is skipped, resumed or
routed on artifacts and their hashes, never on what a worker says.  This
directory holds TLA+ models of the kernel, of the worker process under it, of
the services around it and of a product on top of it, the TLC configurations
that check them, and theorems about them checked by TLAPS.  Paths are relative
to the repository, whose package lies in `src/missionforge/`; `runner.py` is
`src/missionforge/kernel/runner.py`, `runtime.ts` and the other `.ts` files are in
`workers/pi-agent-runtime/src/`.

## 1. The system

### Components, their state and operations

| Component | State | Operations | Modelled by |
|---|---|---|---|
| Kernel contracts, compiler (`kernel/contracts.py`, `compiler.py`, `io.py`) | none; declarations and hashes | `validate`, `compile_step`, `hash_refs`, `write_json_ref` | `KernelContracts` |
| Step runner (`run_step`) | step directory: `piworker_call_result.json`, `step_record.json`, `extension_lock.json`, attempts | skip check, recovery, lock, attempts, output boundary, record | `KernelStep` |
| Flow runner (`run_flow`) | execution directory: ledger, result, snapshots, projections | safe point, call a step, acknowledge, route, project, archive | `KernelFlow` |
| Interaction port (`interaction.py`) | event, acknowledgement and snapshot files | submit, pending, project, acknowledge | `InteractionPort`, abstractly `EventDelivery` |
| PiAgent adapter (`adapters/pi_agent_runtime.py`) | input, output and log files of a call | run the worker, load its result, enforce the output contract, report | `PiAgentCall`, abstractly `WorkerAttempt` |
| Worker process (`runtime.ts`, `result-writer.ts`, `filesystem-snapshot.ts`) | session, metrics, savepoints, output file | turns, retries, reminders, checkpoints, cancellation, tools | `PiWorkerRuntime` |
| Tool gateway, sandbox (`tool-gateway.ts`, `sandbox.ts`, `tools.ts`) | none | allow a ref, mount a ref | `ToolAuthority` |
| Context projection (`context-projector.ts`, `context-observations.ts`) | transcript, observations, archive, raw evidence | observe, project, archive, demote, cite | `ContextView` |
| Progress (`piworker_progress.py`, `progress_stream.py`) | offset into the worker's events, the stream | poll from a thread, forward, render | `ProgressTail` |
| Evidence store (`evidence_store.py`) | one file per record, a list in memory | open, append, roll back | `EvidenceStore` |
| Task contract, projections (`task_contract.py`, `task_projection.py`) | a frozen contract, its revisions, briefs and rubrics | freeze, load, revise, project | `TaskRun` |
| Decision ledger (`decision_ledger.py`) | one line per entry | append, validate, replay | `TaskRun` |
| Host gateway (`runtime_control.py`, `permissions.py`, `workspace_runtime.py`) | grants, two manifests from one policy | grant, revoke, dispatch, read, write | `HostGateway` |
| Extension locks (`extensions.py`, `kernel/extensions.py`) | lock file, installed packages | install, verify, lock, load | `ExtensionLock`; the lock of a step in `KernelStep` |
| DeepResearch front desk (`frontdesk.py`, `tui.py`, `cli.py` of `integrations/deepresearch`) | requirements, control, request, projection, calls | open, turn, project, approve | `FrontDesk` |
| DeepResearch run (`kernel_v2.py`) | the flow's files, the run status | run the flow, summarise, conclude | `ResearchFlow`, with the desk `DeepResearch` |
| Product gate, context summary, long memory, provider settings, frozen FrontDesk, academic sources | value objects, advice, I/O | validate, render, request | no, see section 6 |

### How they interact

`run_flow` calls `run_step` for one step at a time.  `run_step` calls the
adapter, the adapter starts the worker as a process of its own and waits for it
with a timeout; the worker calls a provider, runs tools of one answer in
parallel, and writes into the workspace.  Meanwhile a thread of the host tails
the worker's events into the progress stream, a view in another thread prints
that stream, and a user interface appends to the event file.  They meet in files:
the only state that survives a process is the workspace.  A "resume" is another
call of `run_flow` on the same workspace; it starts at the first step and relies
on completed steps to be skipped.  The front desk of DeepResearch makes worker
calls of its own until the user approves what its files say, and starts a flow
in the same process.

The gateway, the evidence store, the task contract with its ledger and the
extension locks are libraries that hosts use; they share no state with each
other.

### What is hard

* **Skipping.** A step is skipped on evidence earlier runs left: two JSON files and
  the outputs.  Edits, failed reruns and crashes lie in between.
* **Crashes.** `write_json_ref` truncates, then writes; result and record, request
  and projection are two files; packages are removed, then copied.  A process may
  die between any two steps, and its worker may outlive it.
* **Reads that do not agree.** A safe point reads the events twice; an approval
  compares hashes, then reads the request; an evidence number is looked up, then
  written.
* **Stale files.** Outputs, verdicts, locks, savepoints and output artifacts of
  earlier attempts stay in place and look like new ones.
* **A worker that reports on itself.** Its process may fail, be killed, or be
  cancelled in any turn; what it claims is checked by the adapter against files.
* **Two readers of a growing file.** The last line may be half there, the thread
  that reads it may be stuck, and the run may end between read and check.
* **A view that forgets.** The model sees a projection of its history; calls and
  results must stay together, and what is cut must be cited and on disk.
* **Late answers.** A judge may report on a contract that was revised meanwhile.
* **Bounds.** Retries, turns kept for reminders, review rounds against loop
  turns, ids counted from directories or lists.

PROJECT.json lists these under "hazards", each with its line and the property
that covers it, or the reason why none does.

## 2. The modules

```
KernelContracts          steps, refs, contents, records; their assumptions
  |        \
KernelStep  InteractionPort     EventDelivery (abstract) <--- ResearchFlow
  |    \        |                    ^                           |
  +---> KernelFlow -- implements ----+        FrontDesk --- DeepResearch

ToolAuthority -> PiWorkerRuntime -> PiAgentCall -- implements --> WorkerAttempt

ContextView  ProgressTail  EvidenceStore  TaskRun  HostGateway  ExtensionLock
     \____________\____________|____________/_________/____________/
                           HostServices
```

Arrows to the right and down are EXTENDS.  Theorems are in `*_proofs` modules, the
instances for TLC in `MC*` modules.

**KernelContracts.**  A workspace ref is an element of `Refs`, a file's content one
of a small set, and a hash is the content itself, because the code only compares
hashes.  Everything the code hashes as the text of the step, the contract and the
permissions is one member of `Contexts`.  What the `validate` methods of the code
refuse is the assumptions `StepsValid`, `ArtifactsValid`, `CompileContextsValid`.

**KernelStep.**  One action per step of `run_step` that another process or a crash
can tell apart: `Invoke` (compile, hash the inputs and the lock), `SkipCurrent`,
`RaiseUnreadable` or `MustRun` (the skip check), `PrepareLock` (of an installed
package; a lock the host supplies is left out), `StartAttempt`,
`WorkerWrite`, `FinishAttempt` (report, boundary check, retry decision),
`OpenResult`/`WriteResult` and `OpenRecord`/`WriteRecord` (the two halves of
`write_json_ref`).  `Crash` ends the process anywhere.  `EditFile` and
`ChangePackage` are the host.  `Current` and `Reusable` are `_can_skip_from_record`
and the rest of `_skip_result_if_current`, compared field by field as sets of
equal records.  `made` is a history variable: who wrote which content for which
call.  With `PiAgent = TRUE` the worker reports what `WorkerAttempt` promises and
`PiAgentCall` is shown to keep; with `FALSE`, anything the PiWorkerCall protocol
lets through.

**InteractionPort.**  Event, acknowledgement and snapshot files.  Lines are kept as
sets, since no decision depends on their order; the loop of `acknowledge` takes
the events in any order here and in the order of submission in the code.

**KernelFlow.**  `run_flow` over both: `ReadPending` and `ProjectPending` are the two
reads of the safe point; `CallStep`, `InStep`, `StepReturned` and `StepRaised` run
KernelStep's own actions; `AcknowledgeOne` appends one line; `Route` has one
disjunct per way out of a turn; `RunProjections` or `ProjectionRaises`,
`WriteLedger`, `WriteFlowResult` end an execution; `Die` ends it anywhere.  The
host edits worker-owned files and packages only between executions, sources at
any time.

**EventDelivery.**  What a user is promised: submitted, shown, consumed at most once.

**ToolAuthority.**  For one manifest, what the gateway lets the read, write and edit
tools touch and how the sandbox mounts each ref, as operators.

**PiWorkerRuntime.**  The process of one call, one action per point of `runtime.ts` at
which something else can happen: `BoundaryReady` (snapshot, savepoint directory),
`TurnStart`, `Answer`, `ProviderThrows`, `ToolWrites`, `StartCommand`,
`CommandWrites`, `CommandEnds`, `ToolsDone`, `TurnEnd` (savepoint), `StopCheck`
(checkpoint, cancellation), `Remind`, `PromptsDone`, `WriteOutput`, `ProcessEnds`,
and `Killed` anywhere.  The provider's answers, context pressure and the failure
of any recording write are free.

**PiAgentCall.**  The adapter around it: `RunCall`, `SetupFails`, `LoadResult`,
`EnforceContract` with the recovery of a failed result, `WriteReport`.  A call id
may be used again, over what the earlier call left.

**WorkerAttempt.**  What a step may expect of a call, in three variables.

**ContextView.**  Transcript, observations and view; `Project` is what happens before
each request, with the pressure a free choice; observation of a result is a
sequence of its own per tool call (`Recording`), in parallel with the others.
Messages are records of a role and call ids, not text.  The large reads of a run are
of one file, `source`: `SourceChanges` is a running command or edit that changes or
removes it, `ToolReturns` keeps what a read returned (`saw`), and `CiteSource` reads
the file again and cites the hash of what is there then.

**ProgressTail.**  The worker's file is a sequence of half lines; the thread and the
host poll it by the same actions, `Start`, `Loop` and `Join` are the thread's
life, `Handed` the append to the stream under its lock, `Render` and `LastRender`
the view.

**EvidenceStore.**  `append` as the code takes it: claim a number in memory, look at
the disk, write in two halves, acknowledge; several stores, each may die.

**TaskRun.**  A contract object whose lists can be changed by whoever holds them,
frozen and revised by hash; briefs and rubrics projected from it; the ledger as
lines that anyone with a projection may append, and `Replay` as an operator.
`Freeze` and `ReviseContract` change the object and its file, `RecordContract`
appends the entry for it later or never: `HostDies` and `TearLastLine` end the
product between the two, in the file or in the line.  `force` and a line's `given`
are history: what the ledger was last told is in force, and what the reporter's
projection said.

**HostGateway.**  `Dispatch` decides a read or write under a copy of a grant, from the
profile derived for a sandbox; `RunWorkspace` is what the run workspace lets the
host itself touch.

**ExtensionLock.**  `Install` with its removal and copy, `VerifyInstalled`,
`LockEntry` one by one, `WriteLock`, `Load`, and `Revise`: the next call comes with
another manifest.

**FrontDesk.**  One action per file written or read in a turn of the desk; the
worker writes requirements and decision in any order, and one whose process died
goes on writing.  `Approve`, `CompareHash` and `Grant` are the approval.

**ResearchFlow.**  The flow that `kernel_v2.py` declares: four steps, fifteen routes,
the turn limit, and user events as `EventDelivery` states them.  A step completes
alike whether it ran, was skipped or was recovered, and reports have no content, so
nothing is said of what a reviewer read.  It builds on the
kernel's abstract promise and not on `KernelFlow` itself, which would multiply two
state spaces without a question that needs both.

**DeepResearch.**  Desk and run in one process after the other.

**HostServices.**  The six services that share no state, in one state space whose first
state chooses the one that takes steps.

Not code, and marked external in the map: crashes, the host's edits, and what a
provider or a user does.

## 3. The runs

| Run | Question | Instance | Result |
|---|---|---|---|
| `step_pi` | Is a skip on a completed record sound? | one step with a source, a report and a decision, one retry, two host edits, crashes | holds |
| `step_protocol` | Do records list only existing outputs, for any adapter? | one output, an extension grant, two contexts, resume on and off, one edit | holds |
| `step_recovered` | Does recovery hand back what another call made? | a decision step, two edits | **violated** |
| `step_torn` | Does the skip check ever raise? | smallest step | **violated** |
| `flow_accept` | Judged acceptance, kept work, untouched archives | draft and judge, two executions, one edit, a projection, deaths anywhere | holds |
| `flow_events` | Event delivery and stopping | draft and judge, two messages and a pause request, two executions | holds |
| `flow_ends` | Types and turn limit, termination | looping flow with a missing route, four turns, a retry | holds |
| `flow_loop` | Is completed work kept in a flow with a loop? | the loop, two executions, no edit | **violated** |
| `flow_intervention` | Does work stay as its intervention made it? | one message, two executions | **violated** |
| `worker_call` | May a step believe the report of a worker call, and does every call end? | a report owed, a scratch directory, three turns, one retry of provider and of completion, two calls of one id | holds |
| `host_services` | Six services, each on its own | see below | holds |
| `research_session` | Is what was approved researched, do the review rounds fit, does every turn answer? | three desk calls, two documents, a message and a pause request, one review round | holds |

Bounds of the kernel runs.  Two executions are the least in which one can find what
another left; each may die at every step, so every durable state an execution can
leave is met by the next one.  `step_pi` has no bound on executions: its step
directory is run again and again, with `MaxEdits` = 2, enough to change an input
and change it back.  Two contents tell "the same" from "another"; the proofs show
that more make no difference to the step invariants.  `MaxSteps` = 4 lets the loop
go round twice and run out.

Bounds of `worker_call`.  Three turns are a turn of the main prompt, a turn tried
again and a reminder, or a turn that hits the limit; `ProviderRetries` and
`CompletionRetries` = 1 make each mechanism happen and run out.  Two calls of one
call id are the least in which the second finds an output artifact, savepoints and
outputs of the first.  Providers are one that is left alone and one in test mode
that checkpoints and cancels itself in its second turn.

Bounds of `host_services`.  The first state chooses the service, so the states are
the sum of the six.  Context: `Preserved` = 3 messages with three tool calls in four
turns is the least in which an archive cut can fall between a call and its
results, a stub be made and a prompt be repeated; two texts of the file that is read
tell a citation of what was shown from one of what came after.  Progress: two events of the
worker, one note, one report, lines in two halves, a thread the join may give up
on.  Evidence: two stores and four appends.  Task: two contents, three ledger
entries (frozen, revision, report), which is enough for a late report, a revision
whose entry was never written, and a second freeze after a death.  Gateway: a root with a denied ref
under it; every manifest; one tick.  Extension: two packages in places of their own,
one power.

Bounds of `research_session`.  Three calls let one die, one outlive its process and
one be approved.  One review round is what distinguishes a limit that fits; the
code's own profiles allow two or four, for which the theorem
`ReviewRoundsAlwaysFit` speaks.

The flow, worker, services and session runs stop when their bounds are spent, so
their cfgs switch the deadlock check off; the step runs keep it on.

Fairness.

* `FairFlowSpec`: weak fairness of `FlowProgress`, the steps that `run_flow`'s own
  process takes.  Python goes on executing, a worker call returns because the
  adapter runs the worker with a timeout, and nothing else in the loop waits.
  Starting executions, deaths, edits and user events are not fair.  `FlowEnds`
  therefore says that the loop and the retries in it are bounded, whatever the
  workers decide; an execution that dies has ended too.
* `FairCallSpec`: weak fairness of the adapter, of the worker's own steps
  (`WorkerGoesOn`: a provider answers or throws, since requests have a timeout)
  and of `CommandEnds` (commands have one).  Strong fairness of `ToolsDone`: an
  answer holds finitely many tool calls, so the tools of a turn are done although
  each of them may start a command and disable it for a while; and of
  `ProcessEnds`, for the same reason of a process.  The adapter's own timeout is
  not relied on: `CallEnds` holds by the worker's bounds alone.
* `FairSessionSpec`: weak fairness of `SessionStep`, the steps of the session's own
  process, of which a worker call is one because of `CallEnds`.  The user is not
  fair, neither are workers that outlived their host.

## 4. What the violated runs show

Each run is a disagreement between a sentence of the documents and the code, and
each was reproduced with the Python code.

1. `step_recovered`.  A worker writes its decision for the source as it is, and the
   process dies before there is a record; the source changes; the call for the new
   source returns failed and has written nothing.  Its record holds the new input
   hashes and the hash of the decision that lies there, so the next run "recovers"
   the old decision as the failed call's.  The same happens after an older call that
   completed, on a longer trace.  A content that no call made is not counted: a file
   the host put there itself is the host's to judge.  `docs/KERNEL_API_DESIGN.md:438-442` describes
   recovery as handling failures "after durable artifacts were written".
2. `step_torn`.  A process that dies inside `write_json_ref` leaves a
   `step_record.json` that does not parse, and every resume raises on it, where
   `docs/KERNEL_API_DESIGN.md:434-435` says "If any condition is uncertain, the
   step runs again".
3. `flow_loop`.  Turn 3 overwrites the outputs that turn 1's record names, so a
   resumed flow runs completed steps again
   (`docs/KERNEL_API_DESIGN.md:454-455`: "should not discard completed upstream
   steps").  Without loops the property holds in run `flow_accept`; section 5 says
   under which conditions it is proved.
4. `flow_intervention`.  Acknowledging an event removes the snapshot from the
   inputs of the resumed call; the step runs again without the intervention
   (`docs/INTERACTION_PORT.md:22-23`).

Seen while modelling, without a run of their own:

* Kernel.  A `blocked` call makes the step `blocked` whatever `on_exhausted` says
  (`runner.py:906`, against `docs/KERNEL_API_DESIGN.md:393`).  A rerun that dies
  between its two writes leaves a completed record beside a failed result, and a
  later skip returns both (`runner.py:198`).  A pause request is acknowledged by
  nothing in the kernel, so it blocks every later execution until a host appends
  the acknowledgement.
* Worker.  A worker that stopped under hard context pressure is still reminded of
  missing outputs (`runtime.ts:246`), with provider requests over the same
  transcript, where `docs/CONTEXT_MANAGEMENT_SHORT_TERM_PLAN.md:139-141` says that it
  "stops before the next provider request".  The docstring at
  `adapters/pi_agent_runtime.py:1104-1107` lets an output that was left in place
  count, the worker's own result does not.
* Approval.  A host that dies between `research_request.json` and its projection
  (`frontdesk.py:560-573`) leaves a new request beside an old hash; if the
  requirements return to what they were, the approval compares equal and the run
  researches another request than the one approved.  `ApprovedRequestStands` leaves
  this one case out (`halfway`); without that it is violated with three calls.
* Ledger.  One report under an old hash, or one torn line, makes a ledger
  unreplayable for good: `AcceptedInForce` holds because replay then refuses.
  Replay says accepted on a final package without comparing it with a verdict, and
  it replays a ledger that was never told of a freeze.  A product that dies between
  the revised contract file and the entry for it goes on with a contract that every
  further entry contradicts.
* Context.  A read is cited by a hash that is taken after it returned
  (`context-observations.ts:185`): when another tool of the answer wrote the file
  in between, the citation is of a text the model was not shown.  `EvidenceCited`
  leaves this out (`Beside`).
* Evidence.  Two stores past the look at one file overwrite each other's record:
  `AcknowledgedKept` leaves that out (`raced`).
* Gateway.  A manifest that lists no readable refs stands for all inputs of the
  policy in a sandbox and for none in the run workspace; the property says so.  A
  copy of a grant that was revoked later stays active until it expires.
* Extensions.  Verifying installed packages locks half a package that a dead
  installer left (`cut` in `LoadedWhole`); local packages of one base name replace
  each other; the package hash in a lock is not compared at load.
* Progress.  A torn line in the stream silences the view for good.  The bridge starts
  at offset 0 and hands on the events of an earlier attempt.
* Session.  A pause typed during a research run is acknowledged by nobody; an event
  typed after the last safe point reaches the next run.

## 5. What is proved

For every value of the constants that the named assumptions allow:
`StepDeclarations`, `FileDeclarations`, `CallDeclarations`, `StepParameters`,
`EventDeclarations`, `FlowDeclarations`, `ManifestDeclarations`,
`WorkerDeclarations`, `MaxRecordsNat`, `TaskRunDeclarations`, `PolicyDeclarations`,
`ExtensionDeclarations`, `FrontDeskDeclarations`, `IntensityDeclarations`,
`RecordDeclarations`, `ContextDeclarations`, `ProgressDeclarations`.  They are
checks of the code's `validate` methods or the abstraction's own.

**The step (`KernelStep_proofs`).**  `StepTypeCorrect`; `CompletedSkipsAreSound`: with the
PiAgent runtime, `StepSpec => []CompletedSkipSound`.  A skip reads only a record,
so the inductive invariant follows an output from the worker to the record:
`AttemptMade` (what this attempt wrote is still in the workspace, since the host
does not touch worker-owned files while a step runs), `ResultMade` (so are the
expected outputs of a completed result until its record is written) and
`RecordsMade` (the hashes in a completed record name contents made for the recorded
call, whatever becomes of the files).  `CompletedOutputsAreThere`: for any adapter,
by the same route with existence in the place of authorship.

**The flow (`KernelFlow_proofs`, `EventDelivery_proofs`).**  `FlowTypeCorrect`;
`FlowSkipsAreSound`, since a flow runs KernelStep's own actions (the lemma
`FlowImplementsStep`, which holds by the shape of the model and says nothing of the
code).  `ExecutionsOnlyAdd`: an id is
one more than the last directory, so it is fresh once every file lies in a counted
directory (`DirectoriesCounted`) and a running execution has written nothing it is
still to write (`NothingAhead`).  `StopsAreObeyed`: nobody acknowledges a stop
request (`RequestsKept`), so one that was projected is read at the next safe point
(`RequestsRead`) and stops the flow there.  `FlowImplementsDelivery`: the two reads
of a safe point agree on everything the first one saw (`ReadPendingHolds`), what is
left to acknowledge lies in the snapshot the step was called with
(`ToAcknowledgeShown`), and an event is consumed as often as it has
acknowledgements, counted with `Cardinality`.  `AcknowledgedByItsStep` carries the
archive's snapshots into the records: no record names the snapshot of a turn before
its own step has written one (`SnapUnrecorded`), since it is an earlier one
(`RecordedSnaps`), so a step that got a snapshot cannot be skipped, and what makes the
flow go on is its own completed record (`DoneRecorded`, `AckRecorded`).
`AcceptedByItsJudge` starts from `RecordsMade` of the step's proof: outside a step
nothing touches the files, the step that ran last returns outputs a worker made of the
inputs as they are (`DoneMade`, `TurnJudged`), and the flow stops on them
(`StopJudged`).  It assumes the PiAgent runtime and `JudgesOnlyRead`, that no judge may
write a ref it judges; the code's validation does not enforce it, and a judge that
rewrote its input would make the verdict one about work that is gone.

`CompletedWorkIsKept` shows under what conditions a resume keeps completed work.  A flow
with a loop does not (run `flow_loop`), so the theorem assumes `InOrder`: there is a
ranking of the steps that every route raises, a step writes no input of its own or of a
step ranked below it, and no two steps write one file.  It also assumes
`SameContract`: every execution resumes, and all come with one compile context.  TLC
finds the property violated with three executions when either is dropped: an
execution that does not resume, or that runs under another contract, overwrites the
outputs of a completed record and dies, and the execution after it, back under the
first contract, runs the step again.  The invariant says of a flow that host and user
have left alone: what was ever reached at one index is one step, and every step before
it is one the skip check finds current (`Path`, `StepCurrent`), whatever its record's
status; a completed record is current (`CompletedCurrent`); and a step runs only while
nothing after it was reached (`RunsLast`), because a later step would mean that this
one was current, and then it is skipped (`MustRunIsLast`).  So a running step
overwrites nothing that a step before it rests on (`OthersUndisturbed`).  It holds for
any adapter.

**The call (`PiAgentCall_proofs`).**  `SandboxWritesAsGateway`, `SandboxReadsAsGateway`:
the two ways a worker reaches a ref agree for every manifest.  `CallTypeCorrect`,
`CancelledCallsResume`, `ReserveIsKept`, `CallImplementsAttempt`, from
`CallInvariant`: there is a process only while the adapter waits for it, and a
command only while there is a process (`Contained`); a run that may be cancelled
has its savepoint (`Saved`); only an exit code of zero makes the adapter believe an
output artifact, and that one names what this process changed (`Believed`); the
turns of the main prompt stay below its limit but for repeated requests
(`Reserved`).

**The session (`DeepResearch_proofs`).**  `SessionTypeCorrect`; `ApprovedRequestsStand`
and `CallIdsAreFresh` from `DeskInvariant`: a session has its document before
anything reads it (`Drafted`), call ids are counted (`Counted`), request and
projection are of one text unless `halfway` (`Projected`).  `ReviewRoundsAlwaysFit`,
for any number of allowed rounds, from `FlowInvariant`: without a detour the turn is
the position in the flow plus two for every revision (`TurnsAdd`).

**The view (`ContextView_proofs`).**  `ContextTypeCorrect`; `ViewsKeepPairs`,
`ObservationsCiteEvidence`, `CitedArchivesAreWritten` and `NothingHiddenUnseen` from
`ContextInvariant`.  Where the archive may be cut depends on the shape of the transcript
(`Shaped`): the results of a turn stand in one block behind the message that called
for them, and every call is answered in that block unless its turn is still going on
(`Asked`, `Answered`).  The boundary moves back out of such a block, so it never parts
a call from its results, and it never moves back over what it has passed
(`ArchiveGrows`).  `NothingHiddenUnseen` adds `Unshown`: a result that no request has
shown is of this turn, or of the one before while a request is built, and nothing but
results, and at most one prompt, stands behind it.  For `ObservationsCiteEvidence`, a
turn does not go on before its observations are recorded, so only a tool of the same
turn can come between what a read returned and what is cited of it (`Fresh`): without
one, the file is still what the read saw when it is hashed (`Cited`, `Evidence`).  The theorem assumes
`Preserved > 1`; in the code that is 24 (`context-projector.ts:17-18`).  With one
preserved message TLC finds the property violated: the prompt of the next turn alone
is kept, and results are archived before a request has shown them.

**The progress (`ProgressTail_proofs`).**  `ProgressTypeCorrect`; `EveryLineTailedOnce` from
`TailInvariant`: the lines on disk are numbered in their order (`Ordered`), the reader
stands behind the last newline it has read and holds what follows it (`ReadWell`), and a
line that lies before this position has been handed to the sink once, or is in the
hands of exactly one of the two readers (`CountedOnce`).  `ViewShowsTheRun` from
`ViewInvariant`: one writer at a time adds the next number to the stream (`OneWriter`,
`Numbered`), what the view has printed is the stream from the first event of this run
to where it has read (`PrintedPrefix`), and a view that closes has seen the host's last
events (`ClosedAtEnd`).  Least and greatest elements come from the well-foundedness of
the naturals, with relations and not operators as parameters, so that it stays within
the prover's reach.

**The services (`HostServices_proofs`).**
`AcknowledgedRecordsKept` (a store that has claimed a number holds all lower ones
as they are on disk); `TaskTypeCorrect`; `AcceptedIsInForce` (a
rubric says what was hashed, `RubricFaithful`, and so does the line of the judge it was
given to, `JudgesGiven`; in a ledger that can be replayed the hash changes only where
the ledger says so, so its last line has the hash in force, `TailInForce`); `AllowedByWorkspace`; `LoadedIsGranted` and `LoadedIsWhole` (half a package is one
an install is still at, or one whose installer died).  A behavior of the composition
is, part by part, one of each service's own specification (the lemma
`PartsKeepTheirSpecs`, true by construction), so what is proved of a service holds
there; with the type invariants of the six it gives `HostTypeCorrect`.

Only model-checked: the liveness properties `FlowEnds`, `CallEnds` and `SessionAnswers`,
which are out of the prover's reach, as is ENABLED.  Every other property of a
passing run is stated by a theorem; `AcceptedIsJudged` and `CompletedStepsKept`,
`CompletedSkipSound` and `ShownBeforeHidden` under the hypotheses named above.

## 6. What is not modelled

* The text of briefs, prompts, reports and pages, hashing, redaction, schemas,
  argument parsing: no decision that a property is about depends on them.
* Commands by name, network, environment and symlinks in the gateways, tools of
  extensions, npm.
* The product gate and integration, context summaries: value objects without state.
  Long memory and provider settings: advice or choices made before a worker
  starts.  The frozen FrontDesk: nothing outside `src/frozen` imports it.  Academic
  sources: HTTP without state.
* `with_repair` and `with_resume` of the adapter, which only tests call.
* Two executions of one flow at a time, for which nothing in the code provides;
  disks that fill up; power that fails (a file that was written stays).
* Content of reports in the research flow, and with it whether the report that was
  accepted is the one its reviewer read: a reviewer's step may be recovered without a
  call, and a worker that outlived its host may rewrite the report.
* A lock that the host makes itself and hands to `run_step`
  (`kernel/extensions.py:46-49`): it is read and verified, never written.
* A background process that a worker's command leaves behind when it returns:
  `ContextView` lets a file change only while a command or an edit runs.
* Orphans in the kernel: a worker whose host was killed goes on writing in
  `FrontDesk`, but not in `KernelStep`, where a crash ends both.
* In `KernelStep` a worker writes refs and does not remove them, and its write is
  visible as a change although the runtime compares size and millisecond.
* In `ProgressTail` a thread that outlives its join is stuck in a slow sink and not in
  a read.  In `EvidenceStore` ids of the caller's choice, in `TaskRun` the contents of
  a final package, in `ContextView` the arithmetic of the token budget are left out.

## 7. Plan

Done, in this order: the kernel with its proofs; the worker call, shown to keep
what `KernelStep` assumes of it; DeepResearch's session; the host's services.

Left:

1. Orphaned workers in `KernelStep`, with the property that a completed record's
   outputs are those of its own attempt whatever an orphan writes, which the code
   is expected to violate.
2. `KernelFlow` under `ResearchFlow`: that its flow declaration satisfies
   `FlowDeclarations`.
