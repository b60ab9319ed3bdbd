--------------------------- MODULE ToolAuthority ---------------------------
(***************************************************************************)
(* What the tools of a worker may touch: the gateway in front of read,     *)
(* edit and write (permissions.ts, tool-gateway.ts) and the mounts of the  *)
(* sandbox that bash runs in (sandbox.ts).  Both are built from the same   *)
(* permission manifest, by different code.                                 *)
(*                                                                         *)
(* A path is a workspace ref here: guardWorkspacePath refuses what leaves  *)
(* the workspace and assertNoSymlinkSegments what crosses a symlink, so    *)
(* that a path that is let through names the file of its ref.              *)
(***************************************************************************)
EXTENDS FiniteSets

CONSTANTS
  Refs,        \* workspace refs
  Under,       \* [Refs -> SUBSET Refs]: a ref and the refs below it
  ReadRoots,   \* readable_refs of the manifest
  WriteRoots,  \* writable_refs
  DenyRoots    \* denied_refs

\* The manifest of the call, or the one made of the refs of a call without.
ManifestValid ==
  /\ ReadRoots \subseteq Refs
  /\ WriteRoots \subseteq Refs
  /\ DenyRoots \subseteq Refs

ASSUME ManifestDeclarations ==
  /\ Under \in [Refs -> SUBSET Refs]
  /\ \A r \in Refs : r \in Under[r]
  /\ \A r, s \in Refs : s \in Under[r] => Under[s] \subseteq Under[r]
  /\ ManifestValid

\* refIsUnder, for any of the roots.
RefsUnder(roots) == UNION {Under[root] : root \in roots}

\* ensureRefAllowed: a denied root wins over an allowed one.
Allowed(roots) == RefsUnder(roots) \ RefsUnder(DenyRoots)

GatewayReads == Allowed(ReadRoots)

GatewayWrites == Allowed(WriteRoots)

\* _runtime_authority_payloads copies the roots of the manifest into the
\* profile of the sandbox, and _validate_runtime_authority compares the two.
SandboxProfile ==
  [readable |-> ReadRoots, writable |-> WriteRoots, denied |-> DenyRoots]

\* readonlyMountRoots: a readable root below a writable one is not mounted
\* again.
ReadonlyMounts ==
  {r \in SandboxProfile.readable : r \notin RefsUnder(SandboxProfile.writable)}

(***************************************************************************)
(* buildBubblewrapPlan binds the read-only roots, then the writable ones,  *)
(* then covers the denied ones; a later mount hides an earlier one.        *)
(***************************************************************************)
SandboxMode(r) ==
  CASE r \in RefsUnder(SandboxProfile.denied) -> "hidden"
    [] r \notin RefsUnder(SandboxProfile.denied)
         /\ r \in RefsUnder(SandboxProfile.writable) -> "write"
    [] r \notin RefsUnder(SandboxProfile.denied \cup SandboxProfile.writable)
         /\ r \in RefsUnder(ReadonlyMounts) -> "read"
    [] OTHER -> "absent"

SandboxWrites == {r \in Refs : SandboxMode(r) = "write"}

SandboxReads == {r \in Refs : SandboxMode(r) \in {"read", "write"}}
=============================================================================
