----------------------------- MODULE HostServices -----------------------------
(***************************************************************************)
(* Six services of the host and the worker that share no state, composed   *)
(* so that one run explores them: the first state chooses one of them, and *)
(* only that one takes steps.  The others stay in one of their initial     *)
(* states, so the distinct states are the sum, not the product, of the     *)
(* parts'.                                                                 *)
(***************************************************************************)
EXTENDS ContextView, ProgressTail, EvidenceStore, TaskRun, HostGateway, ExtensionLock

VARIABLE part    \* the service explored in this behavior

hostVars == <<part, contextVars, progressVars, evidenceVars, taskVars, gatewayVars, extensionVars>>

Parts == {"context", "progress", "evidence", "task", "gateway", "extension"}

\* The one initial state in which a part of several stays while it is not explored.
ContextIdle == source = (CHOOSE t \in SourceTexts : TRUE)
ProgressIdle == file = <<>> /\ stream = <<>> /\ ~torn
GatewayIdle == manifest.read = {} /\ manifest.write = {} /\ manifest.deny = {}
               /\ result.ref = (CHOOSE r \in Refs : TRUE)
ExtensionIdle == \A g \in Grantees : declared.needs[g] = {}

HostInit ==
  /\ part \in Parts
  /\ ContextInit /\ (part # "context" => ContextIdle)
  /\ ProgressInit /\ (part # "progress" => ProgressIdle)
  /\ EvidenceInit
  /\ TaskInit
  /\ GatewayInit /\ (part # "gateway" => GatewayIdle)
  /\ ExtensionInit /\ (part # "extension" => ExtensionIdle)

HostNext ==
  \/ /\ part = "context" /\ ContextNext
     /\ UNCHANGED <<part, progressVars, evidenceVars, taskVars, gatewayVars, extensionVars>>
  \/ /\ part = "progress" /\ ProgressNext
     /\ UNCHANGED <<part, contextVars, evidenceVars, taskVars, gatewayVars, extensionVars>>
  \/ /\ part = "evidence" /\ EvidenceNext
     /\ UNCHANGED <<part, contextVars, progressVars, taskVars, gatewayVars, extensionVars>>
  \/ /\ part = "task" /\ TaskNext
     /\ UNCHANGED <<part, contextVars, progressVars, evidenceVars, gatewayVars, extensionVars>>
  \/ /\ part = "gateway" /\ GatewayNext
     /\ UNCHANGED <<part, contextVars, progressVars, evidenceVars, taskVars, extensionVars>>
  \/ /\ part = "extension" /\ ExtensionNext
     /\ UNCHANGED <<part, contextVars, progressVars, evidenceVars, taskVars, gatewayVars>>

HostSpec == HostInit /\ [][HostNext]_hostVars

\* The type invariants of the six parts: also that no bound of theirs, such as
\* the turns of a worker, is passed.
HostTypeOK ==
  /\ ContextTypeOK /\ ProgressTypeOK /\ EvidenceTypeOK
  /\ TaskTypeOK /\ GatewayTypeOK /\ ExtensionTypeOK
=============================================================================
