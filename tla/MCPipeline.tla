----------------------------- MODULE MCPipeline -----------------------------
(* Three events through channels of one slot, one reader and the forwarder. *)
EXTENDS Pipeline
=============================================================================
