--------------------------- MODULE MCPiAgentCall ---------------------------
(***************************************************************************)
(* A call that owes one report and may keep notes in a scratch directory,  *)
(* made again and again under the same call id.                            *)
(***************************************************************************)
EXTENDS PiAgentCall, TLC

CONSTANTS report_md, scratch, notes

MCUnder == [r \in Refs |-> IF r = scratch THEN {scratch, notes} ELSE {r}]
MCRefs == {report_md, scratch, notes}

\* A process that is left alone, and one in test mode that cancels itself.
MCProviders == {[faux |-> FALSE, compactAfter |-> 0, cancelAfter |-> 0],
                [faux |-> TRUE,  compactAfter |-> 2, cancelAfter |-> 2]}
=============================================================================
