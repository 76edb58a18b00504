-------------------------------- MODULE MCHub --------------------------------
(* Two connections, buffers of one slot and a threshold of one drop.        *)
EXTENDS Hub
==============================================================================
