------------------------------- MODULE MCRtr -------------------------------
(* Two VRPs that the store accepts and one that it refuses. *)
EXTENDS Rtr
=============================================================================
