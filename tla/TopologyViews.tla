--------------------------- MODULE TopologyViews ---------------------------
(***************************************************************************)
(* What the actor answers to the REST handlers and the snapshot (topology/ *)
(* views.go).  Every view is built in one step of the actor, from the      *)
(* state as it is.                                                         *)
(***************************************************************************)
EXTENDS Topology

CONSTANT TopOriginsLimit \* topOriginsLimit: cards the stats frame carries

\* buildASNDetail's neighbours; both directions of an adjacency are listed.
Neighbors(asn) ==
  {[asn |-> e[2], direction |-> "downstream", rel |-> edges[e].rel,
    status |-> edges[e].status] : e \in {x \in DOMAIN edges : x[1] = asn}}
  \cup
  {[asn |-> e[1], direction |-> "upstream", rel |-> Invert(edges[e].rel),
    status |-> edges[e].status] : e \in {x \in DOMAIN edges : x[2] = asn}}

\* buildEdgeDetail.
EdgeDetail(from, to, limit) ==
  IF <<from, to>> \in DOMAIN edges
  THEN [found |-> TRUE, edge |-> edges[<<from, to>>], events |-> Ring!ByEdge(from, to, limit)]
  ELSE [found |-> FALSE]

\* The order of the cards: most events first, then the smaller AS.
Busier(a, b) ==
  \/ nodes[a].events > nodes[b].events
  \/ nodes[a].events = nodes[b].events /\ a < b

\* topOrigins: the ASes seen as an origin, each after all that are busier, and at
\* most TopOriginsLimit of them.
TopOrigins ==
  LET seen   == {a \in DOMAIN nodes : nodes[a].events > 0}
      count  == Cardinality(seen)
      Nth(k) == CHOOSE a \in seen : Cardinality({b \in seen : Busier(b, a)}) = k - 1
  IN  [k \in 1 .. IF count > TopOriginsLimit THEN TopOriginsLimit ELSE count |-> Nth(k)]

=============================================================================
