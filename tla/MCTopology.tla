----------------------------- MODULE MCTopology -----------------------------
(***************************************************************************)
(* The graph under a handful of updates chosen for what they do to it, and *)
(* classified by the real classifier: an origin change that is a hijack,   *)
(* prepending, a leak, a path that crosses an edge twice, an AS_SET        *)
(* origin, a lone AS, an AS nothing is known about, withdraws.             *)
(***************************************************************************)
EXTENDS ViewsHistory

C == INSTANCE Classify

\* 2 provides 1; 2 and 3 peer; 3 provides 1; nothing is known of 4.
Store0 == [p \in {<<1, 2>>, <<2, 3>>, <<1, 3>>} |-> IF p = <<2, 3>> THEN "peer" ELSE "provider"]

P == [fam |-> "v4", bits |-> <<1, 0>>, len |-> 1]
Q == [fam |-> "v4", bits |-> <<0, 0>>, len |-> 1]

VRPs == {[fam |-> "v4", bits |-> <<1, 0>>, len |-> 1, maxLen |-> 1, origin |-> 1]}

Ann(at, p, path, set) ==
  [id |-> 0, at |-> at, kind |-> "announce", prefix |-> p, path |-> path, hasASSet |-> set,
   origin |-> C!OriginAS(path, set)]

Wdr(p) ==
  [id |-> 0, at |-> 0, kind |-> "withdraw", prefix |-> p, path |-> <<>>, hasASSet |-> FALSE,
   origin |-> NoAS]

Raw ==
  {Ann(0, P, <<2, 1>>, FALSE), Ann(4, P, <<3, 3, 1>>, FALSE), Ann(1, P, <<2, 3>>, FALSE),
   Ann(2, P, <<3, 2>>, TRUE), Ann(0, Q, <<3, 1, 2>>, FALSE), Ann(7, Q, <<1, 2, 1, 2>>, FALSE),
   Ann(9, Q, <<1>>, FALSE), Ann(3, Q, <<4, 2>>, FALSE), Wdr(P), Wdr(Q)}

Updates == {C!Classify(Store0, VRPs, u) : u \in Raw}

Blocks == {P, Q}

StoreRel == [e \in ASN \X ASN |-> C!Lookup(Store0, e[1], e[2])]

Queries == {Junk, Absent, -1, 0, 1, 2, 3}

-----------------------------------------------------------------------------

(***************************************************************************)
(* What graph.go:48 says of Edge.Status, "worst status seen recently", and *)
(* bgp/types.go:122 of Severity: no event the edge still keeps a sample of *)
(* was worse than the status shown.                                        *)
(***************************************************************************)
StatusIsWorstRecent ==
  \A e \in DOMAIN edges : \A k \in DOMAIN edges[e].samples :
    Severity(edges[e].status) >= Severity(log[edges[e].samples[k]].vf)

=============================================================================
