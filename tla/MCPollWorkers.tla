--------------------------- MODULE MCPollWorkers ---------------------------
(* Small worker pools for TLC. *)
EXTENDS PollWorkers
CONSTANTS w1, w2
=============================================================================
