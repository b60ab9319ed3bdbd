-------------------------- MODULE KernelContracts --------------------------
(***************************************************************************)
(* The declarations a kernel Step is built from (kernel/contracts.py) and  *)
(* what compiling one against a StepCompileContext fixes for its PiWorker  *)
(* call (kernel/compiler.py).  A Flow's declarations (routes, stops) are   *)
(* in KernelFlow.                                                          *)
(*                                                                         *)
(* Abstractions.  A workspace ref is a member of Refs and a file is one of *)
(* a small set of contents; a hash is the content itself, because the code *)
(* only compares hashes.  A Step's own text (brief, tools, budget, read    *)
(* and write roots) and everything the host passes beside it (contract ref *)
(* and hash, workspace policy, denied refs, toolsets) is one member of     *)
(* Contexts: the code hashes them into step_spec_hash, contract_hash and   *)
(* permission_manifest_hash and compares the three for equality.           *)
(***************************************************************************)
EXTENDS Naturals, FiniteSets

CONSTANTS
  Steps,         \* ids of the declared steps
  Positions,     \* the loop indexes of run_flow that a step can run at
  Refs,          \* workspace refs: sources the host owns, outputs workers own
  Contents,      \* file contents, hence hashes of existing files
  Missing,       \* the state of a ref with no file, and hash_ref of it
  NotHashed,     \* marks a ref outside a hash map
  ContentsOf,    \* [Refs -> SUBSET Contents]: what may be written to a ref
  Inputs,        \* [Steps -> SUBSET Refs]: Step.inputs
  Outputs,       \* [Steps -> SUBSET Refs]: Step.outputs, the expected outputs
  Writable,      \* [Steps -> SUBSET Refs]: the refs under Step.write
  RouteOn,       \* [Steps -> Refs \cup {NoRoute}]: Step.route_on
  NoRoute,
  RouteValues,   \* joined route field values
  InvalidRoute,  \* the decision artifact does not parse to a route value
  RouteValueOf,  \* [Contents -> RouteValues \cup {InvalidRoute}]
  Retries,       \* [Steps -> Nat]: FailurePolicy.retries
  OnExhausted,   \* [Steps -> {"failed", "blocked"}]: FailurePolicy.on_exhausted
  Granted,       \* the steps whose tools name a toolset (extension grants)
  Packages,      \* hashes of an installed extension package
  NoLock,        \* no readable extension_lock.json
  Contexts,      \* the host's StepCompileContext and Step text, see above
  Contracts,     \* frozen task contracts
  ContractOf,    \* [Contexts -> Contracts]
  Absent, Torn,  \* a JSON artifact not there, and one that does not parse
  Snapshots,     \* interaction snapshots a call may carry
  NoSnapshot     \* the call has no interaction snapshot

Hashes == Contents \cup {Missing, NotHashed}

\* FailurePolicy.validate: retries are bounded, and a step that exhausts them is
\* failed or blocked.
FailurePoliciesValid ==
  /\ Retries \in [Steps -> Nat]
  /\ OnExhausted \in [Steps -> {"failed", "blocked"}]

(***************************************************************************)
(* Step.validate: outputs are not empty, the route artifact is an output;  *)
(* _validate_ref_authority: every output lies under the write roots.       *)
(***************************************************************************)
StepsValid ==
  /\ Inputs \in [Steps -> SUBSET Refs]
  /\ Outputs \in [Steps -> SUBSET Refs]
  /\ Writable \in [Steps -> SUBSET Refs]
  /\ RouteOn \in [Steps -> Refs \cup {NoRoute}]
  /\ FailurePoliciesValid
  /\ \A s \in Steps : /\ Outputs[s] # {}
                      /\ Outputs[s] \subseteq Writable[s]
                      /\ RouteOn[s] \in Outputs[s] \cup {NoRoute}

ASSUME StepDeclarations == StepsValid

ArtifactsValid ==
  /\ ContentsOf \in [Refs -> SUBSET Contents]
  /\ RouteValueOf \in [Contents -> RouteValues \cup {InvalidRoute}]
  /\ Missing \notin Contents
  /\ NotHashed \notin Contents
  /\ Missing # NotHashed
  /\ NoRoute \notin Refs
  /\ InvalidRoute \notin RouteValues

ASSUME FileDeclarations == ArtifactsValid

\* Each Toolset a step names becomes an extension grant of its call; all a
\* record holds of the grants is whether there are any and the hash of the
\* installed package, one to a workspace.
ToolsetsValid ==
  /\ Granted \subseteq Steps
  /\ NoLock \notin Packages

CompileContextsValid ==
  /\ ToolsetsValid
  /\ NoSnapshot \notin Snapshots
  /\ ContractOf \in [Contexts -> Contracts]

ASSUME CallDeclarations == CompileContextsValid

----------------------------------------------------------------------------
\* The directory a step runs in, kernel/{flow}/runs/{run}/steps/{index}-{step}.
\* It names the position and the step, not the execution: run_id is the flow id.
Keys == Positions \X Steps

StepOf(key) == key[2]

\* The calls a step can make: the step, the context it is compiled in, the
\* interaction snapshot among its inputs and the hashes of its other inputs.
Works == [step : Steps, context : Contexts, snap : Snapshots \cup {NoSnapshot},
          inputs : [Refs -> Hashes]]

StepStatus == {"completed", "skipped", "failed", "blocked"}

\* PiWorkerCallResultStatus; unauthorized_output and runtime_error are treated
\* exactly as failed is, and stand under it.
CallStatus == {"completed", "failed", "blocked", "invalid_output"}

\* step_record.json: the call it records, the extension lock hash, and the
\* hashes of the refs the worker reported (NotHashed for the others).
Records == [work : Works, lock : Packages \cup {NoLock}, status : StepStatus,
            outputs : [Refs -> Hashes]]

\* piworker_call_result.json, as far as a later run reads it back.
Results == [contract : Contracts, status : CallStatus, outputs : SUBSET Refs]

ASSUME RecordDeclarations == {Absent, Torn} \cap (Records \cup Results) = {}

\* hash_refs over a set of refs of a workspace.
HashRefs(file, refs) == [r \in Refs |-> IF r \in refs THEN file[r] ELSE NotHashed]

Existing(file, refs) == {r \in refs : file[r] # Missing}

\* _route_value_for_step: a missing or unparsable artifact raises, here
\* InvalidRoute.
RouteValue(file, step) ==
  IF RouteOn[step] = NoRoute \/ file[RouteOn[step]] = Missing
    THEN InvalidRoute
    ELSE RouteValueOf[file[RouteOn[step]]]

\* _step_status_from_call_result.
StatusOfResult(callStatus, step) ==
  CASE callStatus = "completed" -> "completed"
    [] callStatus = "blocked"   -> "blocked"
    [] OTHER                    -> OnExhausted[step]
=============================================================================
