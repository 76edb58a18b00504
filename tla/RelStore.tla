------------------------------ MODULE RelStore ------------------------------
(***************************************************************************)
(* The immutable AS-relationship store (relationships/store.go).  One      *)
(* relationship is kept per unordered pair, from the smaller AS toward the *)
(* larger one; the other direction is derived on lookup.                   *)
(***************************************************************************)
EXTENDS Integers, Bgp

CONSTANT ASN

ASSUME RelStoreAssumption == ASN \subseteq Nat

\* pairKey: canonical unordered pairs.
Pair == {p \in ASN \X ASN : p[1] < p[2]}

\* A sealed store: the pairs with known relationships, seen from the smaller AS.
IsStore(edges) ==
  DOMAIN edges \subseteq Pair /\ edges \in [DOMAIN edges -> RelStatus \ {"unknown"}]

PairKey(a, b) == IF a < b THEN <<a, b>> ELSE <<b, a>>

\* rel is a's view of b; the view of the smaller of the two, or back again.
FromLo(a, b, rel) == IF a < b THEN rel ELSE Invert(rel)

\* a's relationship toward b.
Lookup(edges, a, b) ==
  IF a = b THEN "sibling"
  ELSE IF PairKey(a, b) \in DOMAIN edges
       THEN FromLo(a, b, edges[PairKey(a, b)])
       ELSE "unknown"

=============================================================================
