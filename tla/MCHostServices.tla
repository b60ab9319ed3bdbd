--------------------------- MODULE MCHostServices ---------------------------
(***************************************************************************)
(* The host services with the smallest values at which their hazards happen.*)
(***************************************************************************)
EXTENDS HostServices

\* Values for the constants.
UnderMC == [r \in Refs |-> IF r = "a" THEN {"a", "a/b"} ELSE {r}]
GrantsMC == <<"sources", "search">>
PlaceMC == [g \in {"sources", "search"} |-> g]
=============================================================================
