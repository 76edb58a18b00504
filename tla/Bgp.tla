-------------------------------- MODULE Bgp --------------------------------
(***************************************************************************)
(* The vocabulary every stage of the pipeline shares (internal/bgp).       *)
(*                                                                         *)
(* AS numbers are naturals, because the relationship store orders them;    *)
(* 0 is the code's "no AS": an empty path, a withdraw, or an origin hidden *)
(* in an AS_SET.                                                           *)
(***************************************************************************)

NoAS == 0

UpdateKind == {"announce", "withdraw"}

RelStatus == {"unknown", "customer", "provider", "peer", "sibling"}

VFStatus == {"valid", "leak", "hijack", "unknown"}

RPKIStatus == {"notfound", "valid", "invalid"}

\* The relationship as seen from the other end of the adjacency.
Invert(rel) ==
  CASE rel = "customer" -> "provider"
    [] rel = "provider" -> "customer"
    [] OTHER            -> rel

\* The ranking a "worst status" would be computed with.
Severity(status) ==
  CASE status = "hijack" -> 3
    [] status = "leak"   -> 2
    [] status = "valid"  -> 1
    [] OTHER             -> 0

=============================================================================
