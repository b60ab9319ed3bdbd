----------------------------- MODULE HostGateway -----------------------------
(***************************************************************************)
(* What the host lets a tool touch, decided in two places: a request with a*)
(* capability grant goes through the tool gateway and a sandbox profile    *)
(* (runtime_control.py), and the host's own reads and writes go through the*)
(* run workspace (workspace_runtime.py).  Both ask a permission enforcer   *)
(* (permissions.py), each with a manifest it derives by itself from the    *)
(* same workspace policy and permission manifest.                          *)
(*                                                                         *)
(* A grant is a value: revoking it makes another value, and a holder of the*)
(* old one still has that.                                                 *)
(***************************************************************************)
EXTENDS Integers

CONSTANTS
  Refs, Under,   \* as in ToolAuthority
  Inputs, Outputs, \* input_refs and artifact_root_refs of the policy
  PolicyDenied,  \* denied_refs of the policy
  Expires, MaxTime \* expires_at of the grant, and the last moment: a bound

\* WorkspacePolicy.validate; the scratch roots take part in no decision here.
PolicyValid ==
  /\ Inputs \subseteq Refs
  /\ Outputs \subseteq Refs
  /\ PolicyDenied \subseteq Refs

ASSUME PolicyDeclarations ==
  /\ Under \in [Refs -> SUBSET Refs]
  /\ PolicyValid
  /\ Expires \in Nat /\ MaxTime \in Nat

VARIABLES
  manifest,      \* [read, write, deny] roots
  now,
  copies,        \* the values of the grant that are held
  result         \* of the last request

gatewayVars == <<manifest, now, copies, result>>

Manifest == [read : SUBSET Refs, write : SUBSET Refs, deny : SUBSET Refs]
Tools == {"read", "write"}
\* Of a grant, whether it is revoked; when it expires is the same for all.
CapabilityGrant == [revoked : BOOLEAN]

Decisions == {"none", "allowed", "grant_inactive", "read_denied", "write_denied"}

\* The last result, with what was asked, and when.
ToolGatewayResult ==
  [decision : Decisions, tool : Tools, ref : Refs, revoked : BOOLEAN, at : 0..MaxTime]

GatewayTypeOK ==
  /\ manifest \in Manifest
  /\ now \in 0..MaxTime
  /\ copies \subseteq CapabilityGrant
  /\ result \in ToolGatewayResult

GatewayInit ==
  /\ manifest \in Manifest
  /\ now = 0
  /\ copies = {[revoked |-> FALSE]}
  /\ \E ref \in Refs :
       result = [decision |-> "none", tool |-> "read", ref |-> ref, revoked |-> FALSE, at |-> 0]
----------------------------------------------------------------------------
RootsUnder(roots) == UNION {Under[root] : root \in roots}

\* _check_ref: a denied root wins.
Enforced(m, tool) ==
  RootsUnder(IF tool = "read" THEN m.read ELSE m.write) \ RootsUnder(m.deny)

\* _effective_permission_manifest of the run workspace.
WorkspaceManifest == [manifest EXCEPT !.deny = @ \cup PolicyDenied]

\* What read_text and write_text of the run workspace let the host touch.
RunWorkspace(tool) == Enforced(WorkspaceManifest, tool)

Unless(roots, default) == IF roots = {} THEN default ELSE roots

\* Mutant: the profile denies what the manifest denies.
ProfileOfManifest ==
  [read |-> Unless(manifest.read, Inputs), write |-> Unless(manifest.write, Outputs),
   deny |-> manifest.deny]

\* create_sandbox_profile_from_workspace.
SandboxProfile ==
  [read |-> Unless(manifest.read, Inputs), write |-> Unless(manifest.write, Outputs),
   deny |-> manifest.deny \cup PolicyDenied]

IsActive(grant) == ~grant.revoked /\ now < Expires
----------------------------------------------------------------------------
\* dispatch, and run of the host's sandbox runner.
Dispatch(grant, tool, ref) ==
  /\ result' = [tool |-> tool, ref |-> ref, revoked |-> grant.revoked, at |-> now,
                decision |->
                  IF ~IsActive(grant) THEN "grant_inactive"
                  ELSE IF ref \in Enforced(SandboxProfile, tool) THEN "allowed"
                  ELSE IF tool = "read" THEN "read_denied" ELSE "write_denied"]
  /\ UNCHANGED <<manifest, now, copies>>

Revoke ==
  /\ copies' = copies \cup {[revoked |-> TRUE]}
  /\ UNCHANGED <<manifest, now, result>>

Tick ==
  /\ now < MaxTime
  /\ now' = now + 1
  /\ UNCHANGED <<manifest, copies, result>>

GatewayNext ==
  \/ \E grant \in copies, tool \in Tools, ref \in Refs : Dispatch(grant, tool, ref)
  \/ Revoke \/ Tick

GatewaySpec == GatewayInit /\ [][GatewayNext]_gatewayVars
----------------------------------------------------------------------------
\* A request that is allowed is made in the lifetime of its grant, and touches
\* nothing that the run workspace would keep from the host itself; but a
\* manifest that lists no readable (writable) ref stands for all inputs
\* (outputs) of the policy in a sandbox, and for none in the workspace.
AllowedAsWorkspace ==
  result.decision = "allowed" =>
    /\ result.at < Expires /\ ~result.revoked
    /\ LET roots   == IF result.tool = "read" THEN manifest.read ELSE manifest.write
           implied == IF result.tool = "read" THEN Inputs ELSE Outputs
       IN  IF roots # {}
             THEN result.ref \in RunWorkspace(result.tool)
             ELSE result.ref \in RootsUnder(implied) \ RootsUnder(WorkspaceManifest.deny)
=============================================================================
