--------------------------- MODULE MCDeepResearch ---------------------------
(***************************************************************************)
(* A session of three worker calls over two documents, one message and one *)
(* request to pause, and an intensity that allows one review round.        *)
(***************************************************************************)
EXTENDS DeepResearch

CONSTANTS draft, revised, message, pause
=============================================================================
