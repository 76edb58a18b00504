----------------------------- MODULE ValleyFree -----------------------------
(***************************************************************************)
(* The Gao-Rexford verdict on one AS path (valleyfree/classifier.go).      *)
(* Paths are in wire order: index 1 is nearest the collector, the last     *)
(* element is the origin.  The walk goes the other way, in the direction   *)
(* the route travelled.                                                    *)
(***************************************************************************)
EXTENDS RelStore, Sequences, FiniteSets

\* The positions where a run of one AS starts, and the k-th of them.
Starts(path) == {i \in 1 .. Len(path) : i = 1 \/ path[i] # path[i - 1]}

Rank(path, i) == Cardinality({j \in Starts(path) : j <= i})

KthStart(path, k) == CHOOSE i \in Starts(path) : Rank(path, i) = k

\* dedupeConsecutive: AS-path prepending collapses to one entry.
Dedupe(path) == [k \in 1 .. Cardinality(Starts(path)) |-> path[KthStart(path, k)]]

\* One annotation per adjacency, in wire order.
BuildHops(edges, seq) ==
  [k \in 1 .. Len(seq) - 1 |->
     [from |-> seq[k], to |-> seq[k + 1], rel |-> Lookup(edges, seq[k], seq[k + 1])]]

KnownHops(edges, seq) ==
  {k \in 1 .. Len(seq) - 1 : Lookup(edges, seq[k], seq[k + 1]) # "unknown"}

-----------------------------------------------------------------------------

\* The move the route made from seq[i] to its neighbour nearer the collector.
Move(edges, seq, i) == Lookup(edges, seq[i], seq[i - 1])

\* phaseDown: some earlier move of the walk was a peer or a downhill one.
Descended(edges, seq, i) ==
  \E j \in i + 1 .. Len(seq) : Move(edges, seq, j) \in {"peer", "customer"}

\* Mutated Violates: a link without data is held against the path.
ViolatesOnUnknown(edges, seq, i) ==
  Move(edges, seq, i) \in {"provider", "peer", "unknown"} /\ Descended(edges, seq, i)

\* A climb or a peer link once the route has peered or started down.
Violates(edges, seq, i) ==
  Move(edges, seq, i) \in {"provider", "peer"} /\ Descended(edges, seq, i)

\* The first violation the walk meets, as the position of the leaking AS; 0 if none.
FindValley(edges, seq) ==
  LET bad == {i \in 2 .. Len(seq) : Violates(edges, seq, i)}
  IN  IF bad = {} THEN 0 ELSE CHOOSE i \in bad : \A j \in bad : j <= i

\* Mutated ClassifyPath: the leaking AS is read off the path as it was received.
ClassifyPathRaw(edges, path, hasASSet) ==
  LET seq == Dedupe(path)
      bad == IF Len(seq) <= 1 \/ hasASSet THEN 0 ELSE FindValley(edges, seq)
  IN  [isLeak   |-> bad # 0,
       offender |-> IF bad = 0 THEN NoAS ELSE path[bad],
       offHop   |-> IF bad = 0 THEN 0 ELSE bad - 1,
       hops     |-> BuildHops(edges, seq),
       known    |-> KnownHops(edges, seq)]

\* The verdict; a path with an AS_SET is never flagged.
ClassifyPath(edges, path, hasASSet) ==
  LET seq == Dedupe(path)
      bad == IF Len(seq) <= 1 \/ hasASSet THEN 0 ELSE FindValley(edges, seq)
  IN  [isLeak   |-> bad # 0,
       offender |-> IF bad = 0 THEN NoAS ELSE seq[bad],
       offHop   |-> IF bad = 0 THEN 0 ELSE bad - 1,
       hops     |-> BuildHops(edges, seq),
       known    |-> KnownHops(edges, seq)]

=============================================================================
