--------------------------- MODULE TopologyProofs ---------------------------
(***************************************************************************)
(* The graph's type correctness, the agreement of its two ownership        *)
(* indexes and the closure of its edges, for every set of ASes, prefixes   *)
(* and updates; from these, that it implements the table of owners, and    *)
(* that owners, counters and edges are what the whole history says; from   *)
(* that, that a page draws what it was sent and catches up, and that every *)
(* view a reader asks for is one of the whole history.                     *)
(***************************************************************************)
EXTENDS Browser, ViewsHistory, FiniteSetTheorems, SequenceTheorems, WellFoundedInduction, TLAPS

(***************************************************************************)
(* The inductive invariant: the type invariant bounds what the other two   *)
(* talk about, and the two indexes must agree for a withdraw to find every *)
(* copy of the prefix it takes away.                                       *)
(***************************************************************************)
GraphInv == TypeOK /\ RibPrefixesAgree /\ EdgesClosed

-----------------------------------------------------------------------------
(* The event                                                               *)

LEMMA NumberedEvent ==
  ASSUME TypeOK, Len(log) < MaxEvents, NEW u \in Update
  PROVE  /\ Numbered(u) \in Classified
         /\ Numbered(u) \in Events
         /\ Numbered(u).id \in 1 .. MaxEvents
<1>1. Len(log) \in Nat /\ Len(log) + 1 \in 1 .. MaxEvents
  BY TopologyAssumption, LenProperties DEF TypeOK
<1>2. u \in Classified
  BY TopologyAssumption
<1>3. Numbered(u) = [u EXCEPT !.id = Len(log) + 1]
  BY DEF Numbered
<1>4. Numbered(u) \in Classified /\ Numbered(u).id = Len(log) + 1
  BY <1>1, <1>2, <1>3 DEF Classified
<1>5. Numbered(u) \in Events
  BY <1>1, <1>3 DEF Events
<1> QED
  BY <1>1, <1>4, <1>5

\* The edges and endpoints of a path are made of the path's ASes, without self-loops.
LEMMA PathShape ==
  ASSUME NEW path \in Seq(ASN)
  PROVE  /\ Endpoints(path) \subseteq ASN
         /\ EdgesOf(path) \subseteq ASN \X ASN
         /\ \A e \in EdgesOf(path) :
              /\ e[1] \in Endpoints(path) /\ e[2] \in Endpoints(path)
              /\ e[1] # e[2]
         /\ \A e : Cardinality(Crosses(path, e)) \in Nat
<1>1. Len(path) \in Nat /\ \A k \in 1 .. Len(path) : path[k] \in ASN
  BY LenProperties
<1>2. \A k \in Steps(path) : /\ path[k] \in ASN /\ path[k + 1] \in ASN
                             /\ path[k] # path[k + 1]
  BY <1>1 DEF Steps
<1>3. \A e \in EdgesOf(path) :
        \E k \in Steps(path) : e = <<path[k], path[k + 1]>>
  BY DEF EdgesOf
<1>4. ASSUME NEW e
      PROVE  Cardinality(Crosses(path, e)) \in Nat
  <2>1. IsFiniteSet(1 .. Len(path) - 1)
    BY <1>1, FS_Interval
  <2>2. Crosses(path, e) \in SUBSET (1 .. Len(path) - 1)
    BY DEF Crosses, Steps
  <2> QED
    BY <2>1, <2>2, FS_Subset, FS_CardinalityType
<1>5. Endpoints(path) \subseteq ASN
  BY <1>2 DEF Endpoints
<1>6. EdgesOf(path) \subseteq ASN \X ASN
  BY <1>2, <1>3
<1>7. \A e \in EdgesOf(path) :
        e[1] \in Endpoints(path) /\ e[2] \in Endpoints(path) /\ e[1] # e[2]
  BY <1>2, <1>3 DEF Endpoints
<1> QED
  BY <1>4, <1>5, <1>6, <1>7

-----------------------------------------------------------------------------
(* Nodes                                                                   *)

LEMMA NewCountersType == NewCounters \in Counters
BY SeriesAssumption DEF NewCounters, Counters, Slots

LEMMA CountedType ==
  ASSUME NEW rc \in Counters, NEW t \in Int
  PROVE  Counted(rc, t) \in Counters
<1> DEFINE from == Started(rc, t)
           n == Buckets(from, t)
           to == IF n >= SparkBuckets THEN [NewCounters EXCEPT !.curStart = t, !.started = TRUE]
                 ELSE TurnOn(from, n)
<1>1. from \in Counters
  BY DEF Started, Counters
<1>2. n \in Nat
  <2>1. from.curStart \in Int /\ BucketWidth \in Nat \ {0}
    BY <1>1, SeriesAssumption DEF Counters
  <2> HIDE DEF from
  <2> QED
    BY <2>1 DEF Buckets
<1> HIDE DEF from, n
<1>3. TurnOn(from, n) \in Counters
  <2>1. (from.curIdx + n) % SparkBuckets \in Slots
    BY SMTT(30), <1>1, <1>2, SeriesAssumption DEF Counters, Slots
  <2>2. from.curStart + n * BucketWidth \in Int
    BY <1>1, <1>2, SeriesAssumption DEF Counters
  <2> QED
    BY <1>1, <2>1, <2>2 DEF TurnOn, Counters
<1>4. to \in Counters
  BY <1>3, NewCountersType DEF Counters
<1>5. Counted(rc, t) = [to EXCEPT !.buckets[to.curIdx] = to.buckets[to.curIdx] + 1]
  BY DEF Counted, from, n
<1> HIDE DEF to
<1> QED
  BY <1>4, <1>5 DEF Counters

LEMMA NewNodeType == NewNode \in Node /\ NewNode.prefixes = {}
BY NewCountersType DEF NewNode, Node, RPKIStatus

LEMMA ObservedType ==
  ASSUME NEW n \in Node, NEW ev \in Classified
  PROVE  Observed(n, ev) \in Node /\ Observed(n, ev).prefixes = n.prefixes
<1> DEFINE more == n.events + 1
           tally == [n.rpki EXCEPT ![ev.rpki] = @ + 1]
           worst == WorseRPKI(n.worst, ev.rpki)
           series == Counted(n.series, ev.at)
<1>1. more \in Nat
  BY DEF Node
<1>2. worst \in RPKIStatus
  BY DEF WorseRPKI, RPKIStatus
<1>3. tally \in [RPKIStatus -> Nat]
  BY DEF Node, Classified
<1>4. series \in Counters
  BY CountedType DEF Node, Classified
<1>5. Observed(n, ev) = [n EXCEPT !.events = more, !.rpki = tally, !.worst = worst,
                                  !.series = series]
  BY DEF Observed, Node
<1> HIDE DEF more, tally, worst, series
<1> QED
  BY <1>1, <1>2, <1>3, <1>4, <1>5 DEF Node

\* What a tracked announcement leaves of the nodes.
LEMMA TrackedNodes ==
  ASSUME TypeOK, NEW ev \in Classified, AnnounceTracked(ev)
  PROVE  /\ DOMAIN nodes' = DOMAIN nodes \cup {ev.origin} \cup Endpoints(ev.path)
         /\ nodes' \in [DOMAIN nodes' -> Node]
         /\ \A a \in DOMAIN nodes' : (nodes'[a]).prefixes = Moved(a, Owns(a), ev)
<1> DEFINE S == {ev.origin} \cup Endpoints(ev.path)
           seen == WithNodes(nodes, S)
           at(a) == IF a = ev.origin THEN Observed(seen[a], ev) ELSE seen[a]
           D == DOMAIN nodes \cup S
<1>1. DOMAIN seen = D
  BY DEF WithNodes
<1>2. ASSUME NEW a \in D
      PROVE  seen[a] \in Node /\ seen[a].prefixes = Owns(a)
  <2>1. seen[a] = IF a \in DOMAIN nodes THEN nodes[a] ELSE NewNode
    BY DEF WithNodes
  <2>2. a \in DOMAIN nodes => nodes[a] \in Node
    BY DEF TypeOK
  <2> QED
    BY <2>1, <2>2, NewNodeType DEF Owns
<1>3. ASSUME NEW a \in D
      PROVE  at(a) \in Node /\ at(a).prefixes = Owns(a)
  BY <1>2, ObservedType
<1>4. nodes' = [a \in D |-> [at(a) EXCEPT !.prefixes = Moved(a, at(a).prefixes, ev)]]
  BY <1>1 DEF AnnounceTracked
<1>5. ev.prefix \in Prefix
  BY DEF Classified
<1> HIDE DEF at, D
<1>6. ASSUME NEW a \in D
      PROVE  nodes'[a] \in Node /\ (nodes'[a]).prefixes = Moved(a, Owns(a), ev)
  <2>1. at(a).prefixes \in SUBSET Prefix
    BY <1>3 DEF Node
  <2>2. Moved(a, at(a).prefixes, ev) \in SUBSET Prefix
    BY <2>1, <1>5 DEF Moved
  <2>3. nodes'[a] = [at(a) EXCEPT !.prefixes = Moved(a, at(a).prefixes, ev)]
    BY <1>4
  <2> QED
    BY <1>3, <2>2, <2>3 DEF Node
<1>7. DOMAIN nodes' = D
  BY <1>4
<1> QED
  BY <1>4, <1>6, <1>7 DEF D

\* What an announcement of unknown origin leaves of the nodes.
LEMMA UntrackedNodes ==
  ASSUME TypeOK, NEW ev \in Classified, AnnounceUntracked(ev)
  PROVE  /\ DOMAIN nodes' = DOMAIN nodes \cup Endpoints(ev.path)
         /\ nodes' \in [DOMAIN nodes' -> Node]
         /\ \A a \in DOMAIN nodes' : (nodes'[a]).prefixes = Owns(a)
<1> DEFINE D == DOMAIN nodes \cup Endpoints(ev.path)
<1>1. nodes' = [a \in D |-> IF a \in DOMAIN nodes THEN nodes[a] ELSE NewNode]
  BY DEF AnnounceUntracked, WithNodes
<1>2. \A a \in DOMAIN nodes : nodes[a] \in Node
  BY DEF TypeOK
<1> QED
  BY <1>1, <1>2, NewNodeType DEF Owns

\* What a withdraw leaves of the nodes.
LEMMA WithdrawnNodes ==
  ASSUME TypeOK, NEW ev \in Classified, Withdraw(ev)
  PROVE  /\ DOMAIN nodes' = DOMAIN nodes
         /\ nodes' \in [DOMAIN nodes' -> Node]
         /\ \A a \in DOMAIN nodes' : (nodes'[a]).prefixes = Disowned(a, Owns(a), ev)
<1>1. nodes' = [a \in DOMAIN nodes |->
                  [nodes[a] EXCEPT !.prefixes = Disowned(a, nodes[a].prefixes, ev)]]
  BY DEF Withdraw
<1>2. ASSUME NEW a \in DOMAIN nodes
      PROVE  nodes'[a] \in Node /\ (nodes'[a]).prefixes = Disowned(a, Owns(a), ev)
  <2>1. nodes[a] \in Node
    BY DEF TypeOK
  <2>2. Disowned(a, nodes[a].prefixes, ev) \in SUBSET Prefix
    BY <2>1 DEF Disowned, Node
  <2> QED
    BY <1>1, <2>1, <2>2 DEF Node, Owns
<1> QED
  BY <1>1, <1>2

-----------------------------------------------------------------------------
(* Edges                                                                   *)

LEMMA NewestType ==
  ASSUME NEW S, NEW s \in Seq(S)
  PROVE  Newest(s) \in Seq(S) /\ Len(Newest(s)) <= MaxSamples
<1> DEFINE first == IF Len(s) > MaxSamples THEN Len(s) - MaxSamples + 1 ELSE 1
<1>1. MaxSamples \in Nat /\ Len(s) \in Nat
  BY TopologyAssumption, LenProperties
<1>2. first \in Int /\ first >= 1 /\ first \in 1 .. Len(s) + 1
  BY <1>1
<1>3. \A i \in first .. Len(s) : s[i] \in S
  BY <1>1, <1>2, LenProperties
<1>4. /\ SubSeq(s, first, Len(s)) \in Seq(S)
      /\ Len(SubSeq(s, first, Len(s))) = IF first <= Len(s) THEN Len(s) - first + 1 ELSE 0
  <2> HIDE DEF first
  <2> QED
    BY <1>1, <1>2, <1>3, SubSeqProperties
<1>5. Newest(s) = SubSeq(s, first, Len(s))
  BY DEF Newest
<1> QED
  BY <1>1, <1>4, <1>5

\* A well-formed edge: typed, bounded samples, consistent tallies.
GoodEdge(d) ==
  /\ d \in Edge
  /\ Len(d.samples) <= MaxSamples
  /\ d.leaks + d.hijacks <= d.count

\* Every non-empty set of positions has a first one.
LEMMA FirstPosition ==
  ASSUME NEW T \in SUBSET Nat, T # {}
  PROVE  \E k \in T : \A j \in T : k <= j
<1>1. PICK k \in T : \A j \in T : ~(<<j, k>> \in OpToRel(<, Nat))
  BY NatLessThanWellFounded, WFMin
<1>2. \A j \in T : ~(j < k)
  BY <1>1 DEF OpToRel
<1> QED
  BY <1>2

LEMMA NewEdgeIsGood ==
  ASSUME NEW e, NEW ev \in Classified
  PROVE  GoodEdge(NewEdge(e, ev))
<1>1. RelForHop(ev.hops, e) \in RelStatus
  <2> DEFINE at == {k \in 1 .. Len(ev.hops) : ev.hops[k].from = e[1] /\ ev.hops[k].to = e[2]}
  <2>1. Len(ev.hops) \in Nat /\ \A k \in 1 .. Len(ev.hops) : ev.hops[k] \in Hop
    BY LenProperties DEF Classified
  <2>2. CASE at = {}
    BY <2>2 DEF RelForHop, RelStatus
  <2>3. CASE at # {}
    <3>1. \E k \in at : \A j \in at : k <= j
      <4>1. at \in SUBSET Nat /\ at # {}
        BY <2>1, <2>3
      <4> HIDE DEF at
      <4> QED
        BY <4>1, FirstPosition
    <3>2. (CHOOSE k \in at : \A j \in at : k <= j) \in at
      BY <3>1
    <3>3. ev.hops[CHOOSE k \in at : \A j \in at : k <= j].rel \in RelStatus
      BY <2>1, <3>2 DEF Hop
    <3> QED
      BY <2>3, <3>3 DEF RelForHop
  <2> QED
    BY <2>2, <2>3
<1>2. <<>> \in Seq(1 .. MaxEvents) /\ Len(<<>>) = 0
  OBVIOUS
<1>3. "valid" \in VFStatus /\ 0 \in 0 .. MaxEvents /\ MaxSamples \in Nat
  BY TopologyAssumption DEF VFStatus
<1> QED
  BY <1>1, <1>2, <1>3 DEF GoodEdge, NewEdge, Edge

LEMMA UpsertIsGood ==
  ASSUME NEW d, GoodEdge(d), NEW n \in Nat, NEW ev \in Classified, ev.id \in 1 .. MaxEvents
  PROVE  GoodEdge(Upsert(d, n, ev))
<1> DEFINE more == d.count + n
           leaks == IF ev.vf = "leak" THEN d.leaks + n ELSE d.leaks
           hijacks == IF ev.vf = "hijack" THEN d.hijacks + n ELSE d.hijacks
           id == ev.id
           samples == Newest(d.samples \o [k \in 1 .. n |-> id])
<1>1. MaxEvents \in Nat /\ id \in 0 .. MaxEvents /\ ev.vf \in VFStatus
  BY TopologyAssumption DEF Classified
<1>2. more \in Nat /\ leaks \in Nat /\ hijacks \in Nat /\ leaks + hijacks <= more
  BY DEF GoodEdge, Edge
<1>3. samples \in Seq(1 .. MaxEvents) /\ Len(samples) <= MaxSamples
  <2>1. [k \in 1 .. n |-> id] \in Seq(1 .. MaxEvents)
    OBVIOUS
  <2>2. d.samples \in Seq(1 .. MaxEvents)
    BY DEF GoodEdge, Edge
  <2>3. d.samples \o [k \in 1 .. n |-> id] \in Seq(1 .. MaxEvents)
    BY <2>1, <2>2, ConcatProperties
  <2> QED
    BY <2>3, NewestType
<1>4. Upsert(d, n, ev) = [d EXCEPT !.count = more, !.leaks = leaks, !.hijacks = hijacks,
                                   !.status = ev.vf, !.last = id, !.samples = samples]
  BY DEF Upsert, GoodEdge, Edge
<1> HIDE DEF more, leaks, hijacks, id, samples
<1> QED
  BY <1>1, <1>2, <1>3, <1>4 DEF GoodEdge, Edge

\* What an announcement leaves of the edges.
LEMMA AppliedEdges ==
  ASSUME TypeOK, EdgesClosed, NEW ev \in Classified, ev.id \in 1 .. MaxEvents, ApplyEdges(ev)
  PROVE  /\ DOMAIN edges' = DOMAIN edges \cup EdgesOf(ev.path)
         /\ \A e \in DOMAIN edges' : GoodEdge(edges'[e])
<1> DEFINE old(e) == IF e \in DOMAIN edges THEN edges[e] ELSE NewEdge(e, ev)
           D == DOMAIN edges \cup EdgesOf(ev.path)
<1>1. ASSUME NEW e PROVE GoodEdge(old(e))
  BY NewEdgeIsGood DEF TypeOK, EdgesClosed, GoodEdge
<1>2. ev.path \in Seq(ASN)
  BY DEF Classified
<1>3. edges' = [e \in D |-> IF e \in EdgesOf(ev.path)
                            THEN Upsert(old(e), Cardinality(Crosses(ev.path, e)), ev)
                            ELSE old(e)]
  BY DEF ApplyEdges
<1>4. ASSUME NEW e PROVE GoodEdge(Upsert(old(e), Cardinality(Crosses(ev.path, e)), ev))
  <2> HIDE DEF old
  <2> QED
    BY <1>1, <1>2, PathShape, UpsertIsGood
<1> HIDE DEF old
<1> QED
  BY <1>1, <1>3, <1>4

-----------------------------------------------------------------------------
(* The steps                                                               *)

LEMMA StoreType ==
  ASSUME TypeOK, Len(log) < MaxEvents, NEW ev \in Events, ev \in Classified, Store(ev)
  PROVE  Ring!TypeOK' /\ stats' \in StatsType /\ log' \in Seq(Events) /\ Len(log') <= MaxEvents
<1>1. Ring!TypeOK'
  <2>1. Ring!Cap \in Nat \ {0}
    BY TopologyAssumption DEF Ring!Cap
  <2>2. head + 1 \in Nat /\ (head + 1) % Ring!Cap \in 0 .. Ring!Cap - 1
    BY <2>1 DEF TypeOK, Ring!TypeOK
  <2> QED
    BY <2>1, <2>2 DEF TypeOK, Ring!TypeOK, Store, Ring!Push
<1>2. stats' \in StatsType
  <2> DEFINE announced == ev.kind = "announce"
             rpki == [stats.rpki EXCEPT ![ev.rpki] = IF announced THEN @ + 1 ELSE @]
             total == stats.total + 1
             tick == stats.tick + 1
             announces == IF announced THEN stats.announces + 1 ELSE stats.announces
             withdraws == IF announced THEN stats.withdraws ELSE stats.withdraws + 1
             leaks == IF ev.vf = "leak" THEN stats.leaks + 1 ELSE stats.leaks
             hijacks == IF ev.vf = "hijack" THEN stats.hijacks + 1 ELSE stats.hijacks
  <2>1. stats \in StatsType
    BY DEF TypeOK
  <2>2. rpki \in [RPKIStatus -> Nat]
    <3>1. stats.rpki \in [RPKIStatus -> Nat]
      BY <2>1 DEF StatsType
    <3>2. ev.rpki \in RPKIStatus
      BY DEF Classified
    <3>3. CASE announced
      BY <3>1, <3>2, <3>3
    <3>4. CASE ~announced
      BY <3>1, <3>2, <3>4
    <3> QED
      BY <3>3, <3>4
  <2>3. /\ total \in Nat /\ tick \in Nat /\ announces \in Nat
        /\ withdraws \in Nat /\ leaks \in Nat /\ hijacks \in Nat
    BY <2>1 DEF StatsType
  <2>4. stats' = [stats EXCEPT !.total = total, !.tick = tick, !.announces = announces,
                    !.withdraws = withdraws, !.leaks = leaks, !.hijacks = hijacks,
                    !.rpki = rpki]
    BY <2>1 DEF Store, Record, StatsType
  <2> HIDE DEF announced, rpki, total, tick, announces, withdraws, leaks, hijacks
  <2> QED
    BY <2>1, <2>2, <2>3, <2>4 DEF StatsType
<1>3. log' = Append(log, ev) /\ log \in Seq(Events)
  BY DEF Store, TypeOK
<1>4. log' \in Seq(Events) /\ Len(log') = Len(log) + 1
  BY <1>3
<1> QED
  BY <1>1, <1>2, <1>4, TopologyAssumption, LenProperties DEF TypeOK

LEMMA TrackedKeepsInv ==
  ASSUME GraphInv, Len(log) < MaxEvents, NEW ev \in Events, ev \in Classified,
         ev.id \in 1 .. MaxEvents, AnnounceTracked(ev)
  PROVE  GraphInv'
<1>1. Store(ev) /\ ApplyEdges(ev) /\ ev.origin \in ASN /\ ev.prefix \in Prefix
      /\ rib' = [rib EXCEPT ![ev.prefix] = ev.origin] /\ ev.path \in Seq(ASN)
  BY DEF AnnounceTracked, Classified
<1>2. /\ DOMAIN nodes' = DOMAIN nodes \cup {ev.origin} \cup Endpoints(ev.path)
      /\ nodes' \in [DOMAIN nodes' -> Node]
      /\ \A a \in DOMAIN nodes' : (nodes'[a]).prefixes = Moved(a, Owns(a), ev)
  BY TrackedNodes DEF GraphInv
<1>3. /\ DOMAIN edges' = DOMAIN edges \cup EdgesOf(ev.path)
      /\ \A e \in DOMAIN edges' : GoodEdge(edges'[e])
  BY <1>1, AppliedEdges DEF GraphInv
<1>4. TypeOK'
  <2>1. DOMAIN nodes' \subseteq ASN /\ DOMAIN edges' \subseteq ASN \X ASN
    BY <1>1, <1>2, <1>3, PathShape DEF GraphInv, TypeOK
  <2>2. /\ edges' \in [DOMAIN edges' -> Edge]
        /\ \A e \in DOMAIN edges' : Len((edges'[e]).samples) <= MaxSamples
    <3>1. edges' = [e \in DOMAIN edges' |-> edges'[e]]
      BY <1>1 DEF ApplyEdges
    <3> QED
      BY <1>3, <3>1 DEF GoodEdge
  <2>3. rib' \in [Prefix -> ASN \cup {NoAS}]
    BY <1>1 DEF GraphInv, TypeOK
  <2> QED
    BY <1>1, <1>2, <2>1, <2>2, <2>3, StoreType DEF GraphInv, TypeOK
<1>5. RibPrefixesAgree'
  <2>1. \A p \in Prefix : rib'[p] = IF p = ev.prefix THEN ev.origin ELSE rib[p]
    BY <1>1 DEF GraphInv, TypeOK
  <2>2. \A p \in Prefix : rib'[p] \in DOMAIN nodes' \cup {NoAS}
    BY <1>2, <2>1 DEF GraphInv, RibPrefixesAgree
  <2>3. ASSUME NEW a \in DOMAIN nodes', NEW p \in Prefix
        PROVE  p \in (nodes'[a]).prefixes <=> rib'[p] = a
    <3>1. a \in ASN
      BY <1>4 DEF TypeOK
    <3>2. p \in Owns(a) <=> rib[p] = a
      BY <3>1, TopologyAssumption DEF Owns, GraphInv, RibPrefixesAgree
    <3> QED
      BY ZenonT(60), <1>1, <1>2, <2>1, <3>2 DEF Moved
  <2> QED
    BY <2>2, <2>3 DEF RibPrefixesAgree
<1>6. EdgesClosed'
  BY <1>1, <1>2, <1>3, PathShape DEF GraphInv, EdgesClosed, GoodEdge
<1> QED
  BY <1>4, <1>5, <1>6 DEF GraphInv

LEMMA UntrackedKeepsInv ==
  ASSUME GraphInv, Len(log) < MaxEvents, NEW ev \in Events, ev \in Classified,
         ev.id \in 1 .. MaxEvents, AnnounceUntracked(ev)
  PROVE  GraphInv'
<1>1. Store(ev) /\ ApplyEdges(ev) /\ rib' = rib /\ ev.path \in Seq(ASN)
  BY DEF AnnounceUntracked, Classified
<1>2. /\ DOMAIN nodes' = DOMAIN nodes \cup Endpoints(ev.path)
      /\ nodes' \in [DOMAIN nodes' -> Node]
      /\ \A a \in DOMAIN nodes' : (nodes'[a]).prefixes = Owns(a)
  BY UntrackedNodes DEF GraphInv
<1>3. /\ DOMAIN edges' = DOMAIN edges \cup EdgesOf(ev.path)
      /\ \A e \in DOMAIN edges' : GoodEdge(edges'[e])
  BY <1>1, AppliedEdges DEF GraphInv
<1>4. TypeOK'
  <2>1. DOMAIN nodes' \subseteq ASN /\ DOMAIN edges' \subseteq ASN \X ASN
    BY <1>1, <1>2, <1>3, PathShape DEF GraphInv, TypeOK
  <2>2. /\ edges' \in [DOMAIN edges' -> Edge]
        /\ \A e \in DOMAIN edges' : Len((edges'[e]).samples) <= MaxSamples
    <3>1. edges' = [e \in DOMAIN edges' |-> edges'[e]]
      BY <1>1 DEF ApplyEdges
    <3> QED
      BY <1>3, <3>1 DEF GoodEdge
  <2> QED
    BY <1>1, <1>2, <2>1, <2>2, StoreType DEF GraphInv, TypeOK
<1>5. RibPrefixesAgree'
  <2>1. \A p \in Prefix : rib'[p] \in DOMAIN nodes' \cup {NoAS}
    BY <1>1, <1>2 DEF GraphInv, RibPrefixesAgree
  <2>2. ASSUME NEW a \in DOMAIN nodes', NEW p \in Prefix
        PROVE  p \in (nodes'[a]).prefixes <=> rib'[p] = a
    <3>1. a \in ASN
      BY <1>4 DEF TypeOK
    <3>2. p \in Owns(a) <=> rib[p] = a
      BY <3>1, TopologyAssumption DEF Owns, GraphInv, RibPrefixesAgree
    <3> QED
      BY <1>1, <1>2, <3>2
  <2> QED
    BY <2>1, <2>2 DEF RibPrefixesAgree
<1>6. EdgesClosed'
  BY <1>1, <1>2, <1>3, PathShape DEF GraphInv, EdgesClosed, GoodEdge
<1> QED
  BY <1>4, <1>5, <1>6 DEF GraphInv

LEMMA WithdrawKeepsInv ==
  ASSUME GraphInv, Len(log) < MaxEvents, NEW ev \in Events, ev \in Classified, Withdraw(ev)
  PROVE  GraphInv'
<1>1. Store(ev) /\ edges' = edges /\ rib' = [rib EXCEPT ![ev.prefix] = NoAS]
      /\ ev.prefix \in Prefix
  BY DEF Withdraw, Classified
<1>2. /\ DOMAIN nodes' = DOMAIN nodes
      /\ nodes' \in [DOMAIN nodes' -> Node]
      /\ \A a \in DOMAIN nodes' : (nodes'[a]).prefixes = Disowned(a, Owns(a), ev)
  BY WithdrawnNodes DEF GraphInv
<1>3. TypeOK'
  <2>1. rib' \in [Prefix -> ASN \cup {NoAS}]
    BY <1>1 DEF GraphInv, TypeOK
  <2> QED
    BY <1>1, <1>2, <2>1, StoreType DEF GraphInv, TypeOK
<1>4. RibPrefixesAgree'
  <2>1. \A p \in Prefix : rib'[p] = IF p = ev.prefix THEN NoAS ELSE rib[p]
    BY <1>1 DEF GraphInv, TypeOK
  <2>2. \A p \in Prefix : rib'[p] \in DOMAIN nodes' \cup {NoAS}
    BY <1>2, <2>1 DEF GraphInv, RibPrefixesAgree
  <2>3. ASSUME NEW a \in DOMAIN nodes', NEW p \in Prefix
        PROVE  p \in (nodes'[a]).prefixes <=> rib'[p] = a
    <3>1. a \in ASN /\ a # NoAS
      BY <1>3, TopologyAssumption DEF TypeOK
    <3>2. p \in Owns(a) <=> rib[p] = a
      BY <1>2 DEF Owns, GraphInv, RibPrefixesAgree
    <3>3. (nodes'[a]).prefixes = Disowned(a, Owns(a), ev)
      BY <1>2
    <3>4. CASE p = ev.prefix
      BY <2>1, <3>1, <3>2, <3>3, <3>4 DEF Disowned
    <3>5. CASE p # ev.prefix
      BY <2>1, <3>2, <3>3, <3>5 DEF Disowned
    <3> QED
      BY <3>4, <3>5
  <2> QED
    BY <2>2, <2>3 DEF RibPrefixesAgree
<1>5. EdgesClosed'
  BY <1>1, <1>2 DEF GraphInv, EdgesClosed
<1> QED
  BY <1>3, <1>4, <1>5 DEF GraphInv

LEMMA TickKeepsInv ==
  ASSUME GraphInv, Tick
  PROVE  GraphInv'
<1>1. stats' \in StatsType
  <2> DEFINE rated == stats.rated + stats.tick
  <2>1. rated \in Nat /\ stats \in StatsType
    BY DEF GraphInv, TypeOK, StatsType
  <2>2. stats' = [stats EXCEPT !.rated = rated, !.tick = 0]
    BY <2>1 DEF Tick, StatsType
  <2> HIDE DEF rated
  <2> QED
    BY <2>1, <2>2 DEF StatsType
<1> QED
  BY <1>1 DEF GraphInv, TypeOK, RibPrefixesAgree, EdgesClosed, Tick, Ring!TypeOK

LEMMA InitInv == Init => GraphInv
<1> SUFFICES ASSUME Init PROVE GraphInv
  OBVIOUS
<1>1. nodes = [a \in {} |-> NewNode] /\ edges = [e \in {} |-> 0]
      /\ rib = [p \in Prefix |-> NoAS] /\ log = <<>> /\ stats = NoStats
  BY DEF Init
<1>2. Ring!TypeOK
  <2>1. Ring!Cap \in Nat \ {0}
    BY TopologyAssumption DEF Ring!Cap
  <2> QED
    BY <2>1 DEF Init, Ring!Init, Ring!TypeOK
<1>3. stats \in StatsType
  BY <1>1 DEF NoStats, StatsType
<1>4. log \in Seq(Events) /\ Len(log) <= MaxEvents
  BY <1>1, TopologyAssumption
<1>5. TypeOK
  BY <1>1, <1>2, <1>3, <1>4 DEF TypeOK
<1> QED
  BY <1>1, <1>5 DEF GraphInv, RibPrefixesAgree, EdgesClosed

LEMMA NextInv == GraphInv /\ [Next]_vars => GraphInv'
<1> SUFFICES ASSUME GraphInv, [Next]_vars PROVE GraphInv'
  OBVIOUS
<1>1. ASSUME Len(log) < MaxEvents, NEW u \in Update, Apply(Numbered(u))
      PROVE  GraphInv'
  BY <1>1, NumberedEvent, TrackedKeepsInv, UntrackedKeepsInv, WithdrawKeepsInv
     DEF Apply, GraphInv
<1>2. CASE UNCHANGED vars
  BY <1>2 DEF vars, GraphInv, TypeOK, RibPrefixesAgree, EdgesClosed, Ring!TypeOK
<1> QED
  BY <1>1, <1>2, TickKeepsInv DEF Next

LEMMA GraphInvAlways == Spec => []GraphInv
BY InitInv, NextInv, PTL DEF Spec

(***************************************************************************)
(* The maps, counters and ring of the actor keep their types, and no edge  *)
(* ever holds more than MaxSamples samples (apply.go, ring.go, stats.go).  *)
(***************************************************************************)
THEOREM TypeCorrect == Spec => []TypeOK
<1>1. GraphInv => TypeOK
  BY DEF GraphInv
<1> QED
  BY <1>1, GraphInvAlways, PTL

(***************************************************************************)
(* A prefix is in a node's set exactly while the RIB names that node       *)
(* (apply.go: applyRIB).                                                   *)
(***************************************************************************)
THEOREM IndexesAgree == Spec => []RibPrefixesAgree
<1>1. GraphInv => RibPrefixesAgree
  BY DEF GraphInv
<1> QED
  BY <1>1, GraphInvAlways, PTL

(***************************************************************************)
(* Every edge has both its nodes and consistent tallies (apply.go:         *)
(* applyEdges, upsertEdge).                                                *)
(***************************************************************************)
THEOREM EdgesAlwaysClosed == Spec => []EdgesClosed
<1>1. GraphInv => EdgesClosed
  BY DEF GraphInv
<1> QED
  BY <1>1, GraphInvAlways, PTL

-----------------------------------------------------------------------------
(* The refinement                                                          *)

\* Ownership after an event, AS by AS, given that the two indexes agreed before.
LEMMA OwnsByRib ==
  ASSUME GraphInv, NEW a \in ASN, NEW p \in Prefix
  PROVE  p \in Owns(a) <=> rib[p] = a
BY TopologyAssumption DEF GraphInv, RibPrefixesAgree, Owns

(***************************************************************************)
(* The graph implements the table of owners: an announcement takes its     *)
(* prefix from everybody else and a withdraw from everybody, although      *)
(* applyRIB only visits the one node the RIB names (apply.go).             *)
(***************************************************************************)
THEOREM GraphImplementsOriginTable == Spec => GraphIsOriginTable
<1> DEFINE owns == [a \in ASN |-> Owns(a)]
<1>1. Init => Origins!Init
  BY DEF Init, Origins!Init, Owns
<1>2. GraphInv /\ GraphInv' /\ [Next]_vars => [Origins!Next]_owns
  <2> SUFFICES ASSUME GraphInv, GraphInv', [Next]_vars PROVE Origins!Next \/ owns' = owns
    OBVIOUS
  <2>1. ASSUME Len(log) < MaxEvents, NEW u \in Update, Apply(Numbered(u))
        PROVE  Origins!Next \/ owns' = owns
    <3> DEFINE ev == Numbered(u)
    <3>1. ev \in Classified /\ ev.prefix \in Prefix /\ ev.origin \in ASN \cup {NoAS}
      BY <2>1, NumberedEvent DEF Classified, GraphInv
    <3> HIDE DEF ev
    <3>2. CASE AnnounceTracked(ev)
      <4>1. ev.origin \in ASN
        BY <3>1, <3>2 DEF AnnounceTracked
      <4>2. ASSUME NEW a \in ASN
            PROVE  Owns(a)' = IF a = ev.origin THEN Owns(a) \cup {ev.prefix}
                              ELSE Owns(a) \ {ev.prefix}
        <5>1. Owns(a)' = IF a \in DOMAIN nodes' THEN Moved(a, Owns(a), ev) ELSE {}
          BY <3>1, <3>2, TrackedNodes DEF Owns, GraphInv
        <5>2. a = ev.origin \/ a \in DOMAIN nodes => a \in DOMAIN nodes'
          BY <3>1, <3>2, TrackedNodes DEF GraphInv
        <5>3. a \notin DOMAIN nodes => Owns(a) = {}
          BY DEF Owns
        <5>4. ev.prefix \in Owns(a) <=> rib[ev.prefix] = a
          BY <3>1, OwnsByRib
        <5> QED
          BY <5>1, <5>2, <5>3, <5>4 DEF Moved
      <4>3. Origins!Originate(ev.prefix, ev.origin)
        BY <4>2 DEF Origins!Originate
      <4> QED
        BY <3>1, <4>1, <4>3 DEF Origins!Next
    <3>3. CASE AnnounceUntracked(ev)
      <4>1. \A a \in ASN : Owns(a)' = Owns(a)
        BY <3>1, <3>3, UntrackedNodes DEF Owns, GraphInv
      <4> QED
        BY <4>1
    <3>4. CASE Withdraw(ev)
      <4>1. ASSUME NEW a \in ASN
            PROVE  Owns(a)' = Owns(a) \ {ev.prefix}
        <5>1. Owns(a)' = IF a \in DOMAIN nodes THEN Disowned(a, Owns(a), ev) ELSE {}
          BY <3>1, <3>4, WithdrawnNodes DEF Owns, GraphInv
        <5>2. a \notin DOMAIN nodes => Owns(a) = {}
          BY DEF Owns
        <5>3. ev.prefix \in Owns(a) <=> rib[ev.prefix] = a
          BY <3>1, OwnsByRib
        <5> QED
          BY <5>1, <5>2, <5>3 DEF Disowned
      <4>2. Origins!Release(ev.prefix)
        BY <4>1 DEF Origins!Release
      <4> QED
        BY <3>1, <4>2 DEF Origins!Next
    <3> QED
      BY <2>1, <3>2, <3>3, <3>4 DEF Apply, ev
  <2>2. CASE Tick \/ UNCHANGED vars
    BY <2>2 DEF Tick, vars, Owns
  <2> QED
    BY <2>1, <2>2 DEF Next
<1> QED
  BY <1>1, <1>2, GraphInvAlways, PTL DEF Spec, GraphIsOriginTable, Origins!Spec

-----------------------------------------------------------------------------
(* The ring                                                                *)

RingProofs == INSTANCE EventRingProofs WITH Capacity <- RingCap, Event <- Events

LEMMA EventsAreClassified == Events \subseteq Classified
<1> SUFFICES ASSUME NEW u \in Update, NEW k \in 1 .. MaxEvents
             PROVE  [u EXCEPT !.id = k] \in Classified
  BY DEF Events
<1>1. u \in Classified /\ k \in Nat
  BY TopologyAssumption
<1> QED
  BY <1>1 DEF Classified

LEMMA RingHasItsParameters == RingProofs!RingParameters
  BY EventsAreClassified, TopologyAssumption DEF RingProofs!RingParameters

\* Whatever else a step does, to the ring it is a push or nothing.
LEMMA GraphDrivesRing == Spec => RingProofs!Spec
<1>1. Init => RingProofs!Init
  BY DEF Init, Ring!Init, RingProofs!Init, Ring!Cap, RingProofs!Cap
<1>2. GraphInv /\ [Next]_vars => [RingProofs!Next]_(RingProofs!ringVars)
  <2> SUFFICES ASSUME GraphInv, [Next]_vars
               PROVE  RingProofs!Next \/ UNCHANGED RingProofs!ringVars
    OBVIOUS
  <2>1. ASSUME Len(log) < MaxEvents, NEW u \in Update, Apply(Numbered(u))
        PROVE  RingProofs!Next
    <3>1. Numbered(u) \in Events
      BY <2>1, NumberedEvent DEF GraphInv
    <3>2. Ring!Push(Numbered(u))
      BY <2>1 DEF Apply, AnnounceTracked, AnnounceUntracked, Withdraw, Store
    <3>3. RingProofs!Push(Numbered(u))
      BY <3>2 DEF Ring!Push, RingProofs!Push, Ring!Cap, RingProofs!Cap
    <3> QED
      BY <3>1, <3>3 DEF RingProofs!Next
  <2>2. CASE Tick \/ UNCHANGED vars
    BY <2>2 DEF Tick, vars, RingProofs!ringVars
  <2> QED
    BY <2>1, <2>2 DEF Next
<1> QED
  BY <1>1, <1>2, GraphInvAlways, PTL DEF Spec, RingProofs!Spec

(***************************************************************************)
(* Inside the actor too, the ring read backwards is the bounded log of the *)
(* newest updates, for every capacity (ring.go; apply.go: apply).          *)
(***************************************************************************)
THEOREM ActorKeepsRecentLog == Spec => RingIsRecentLog
<1>1. RingProofs!Spec => RingProofs!RingIsRecentLog
  BY RingHasItsParameters, RingProofs!RingImplementsLog
<1>2. RingProofs!Recent(0) = Ring!Recent(0) /\ RingProofs!Cap = Ring!Cap
  BY DEF RingProofs!Recent, Ring!Recent, RingProofs!Slot, Ring!Slot, RingProofs!Cap, Ring!Cap
<1>3. RingProofs!Log!Init => Ring!Log!Init
  BY <1>2 DEF RingProofs!Log!Init, Ring!Log!Init
<1>4. [RingProofs!Log!Next]_(RingProofs!Recent(0)) => [Ring!Log!Next]_(Ring!Recent(0))
  BY <1>2 DEF RingProofs!Log!Next, Ring!Log!Next, RingProofs!Log!Push, Ring!Log!Push,
              RingProofs!Recent, Ring!Recent, RingProofs!Slot, Ring!Slot,
              RingProofs!Cap, Ring!Cap
<1> QED
  BY <1>1, <1>3, <1>4, GraphDrivesRing, PTL
     DEF RingIsRecentLog, Ring!RingIsRecentLog, RingProofs!RingIsRecentLog,
         Ring!Log!Spec, RingProofs!Log!Spec

-----------------------------------------------------------------------------
(* The history                                                             *)

LEMMA Appended ==
  ASSUME log \in Seq(Events), NEW ev \in Events, log' = Append(log, ev)
  PROVE  /\ Len(log) \in Nat /\ Len(log') = Len(log) + 1
         /\ 1 .. Len(log') = (1 .. Len(log)) \cup {Len(log) + 1}
         /\ log'[Len(log) + 1] = ev
         /\ \A i \in 1 .. Len(log) : log'[i] = log[i]
<1>1. Len(log) \in Nat /\ Len(log') = Len(log) + 1
  BY AppendProperties, LenProperties
<1>2. 1 .. Len(log') = (1 .. Len(log)) \cup {Len(log) + 1}
  BY <1>1
<1> QED
  BY <1>1, <1>2, AppendProperties

\* A set of earlier updates, and the same with one more.
LEMMA OneMore ==
  ASSUME NEW n \in Nat, NEW S \in SUBSET (1 .. n)
  PROVE  /\ IsFiniteSet(S) /\ Cardinality(S) \in Nat /\ (Cardinality(S) = 0 <=> S = {})
         /\ Cardinality(S \cup {n + 1}) = Cardinality(S) + 1
         /\ Latest(S \cup {n + 1}) = n + 1
         /\ S # {} => Latest(S) \in S /\ \A j \in S : j <= Latest(S)
<1>1. IsFiniteSet(S)
  <2>1. IsFiniteSet(1 .. n)
    BY FS_Interval
  <2> QED
    BY <2>1, FS_Subset
<1>2. Cardinality(S \cup {n + 1}) = Cardinality(S) + 1
  BY <1>1, FS_AddElement
<1>3. Latest(S \cup {n + 1}) = n + 1
  <2>1. /\ n + 1 \in S \cup {n + 1} /\ \A j \in S \cup {n + 1} : j <= n + 1
        /\ \A i \in S \cup {n + 1} : (\A j \in S \cup {n + 1} : j <= i) => i = n + 1
    OBVIOUS
  <2> QED
    BY <2>1 DEF Latest
<1>4. ASSUME S # {} PROVE Latest(S) \in S /\ \A j \in S : j <= Latest(S)
  <2> DEFINE T == {n - i : i \in S}
  <2>1. T \in SUBSET Nat /\ T # {}
    <3>1. \A i \in S : i \in 1 .. n /\ n - i \in Nat
      OBVIOUS
    <3>2. PICK i \in S : TRUE
      BY <1>4
    <3> QED
      BY <3>1, <3>2
  <2>2. PICK k \in T : \A j \in T : k <= j
    <3> HIDE DEF T
    <3> QED
      BY <2>1, FirstPosition
  <2>3. \E i \in S : \A j \in S : j <= i
    BY <2>2
  <2> QED
    BY <2>3 DEF Latest
<1> QED
  BY <1>1, <1>2, <1>3, <1>4, FS_CardinalityType, FS_EmptySet

(***************************************************************************)
(* An update is a last word on its prefix exactly when it changes, or      *)
(* confirms, what the RIB says.                                            *)
(***************************************************************************)
LEMMA OwnerStep ==
  ASSUME TypeOK, OwnerIsFromTheLastWord, NEW ev \in Events, ev \in Classified, Apply(ev)
  PROVE  OwnerIsFromTheLastWord'
<1>1. log \in Seq(Events) /\ log' = Append(log, ev)
  BY DEF TypeOK, Apply, AnnounceTracked, AnnounceUntracked, Withdraw, Store
<1>2. ev.prefix \in Prefix /\ ev.kind \in {"announce", "withdraw"}
  BY DEF Classified, UpdateKind
<1>3. SUFFICES ASSUME NEW p \in Prefix
               PROVE  rib'[p] = IF WordsOn(p)' = {} THEN NoAS
                                ELSE LET word == log'[Latest(WordsOn(p)')]
                                     IN  IF Withdrawn(word) THEN NoAS ELSE word.origin
  BY DEF OwnerIsFromTheLastWord
<1> DEFINE Word == ev.prefix = p /\ (Withdrawn(ev) \/ ev.origin # NoAS)
<1>4. WordsOn(p) \in SUBSET (1 .. Len(log))
  BY DEF WordsOn, Such
<1>5. WordsOn(p)' = IF Word THEN WordsOn(p) \cup {Len(log) + 1} ELSE WordsOn(p)
  BY <1>1, Appended DEF WordsOn, Such
<1>6. rib'[p] = IF Word THEN (IF Withdrawn(ev) THEN NoAS ELSE ev.origin) ELSE rib[p]
  BY <1>2 DEF Apply, AnnounceTracked, AnnounceUntracked, Withdraw, Withdrawn, TypeOK
<1>7. CASE Word
  <2>1. Latest(WordsOn(p)') = Len(log) + 1 /\ WordsOn(p)' # {}
    <3>1. WordsOn(p)' = WordsOn(p) \cup {Len(log) + 1} /\ Len(log) \in Nat
      BY <1>1, <1>5, <1>7, Appended
    <3> DEFINE S == WordsOn(p)
    <3>2. S \in SUBSET (1 .. Len(log)) /\ WordsOn(p)' = S \cup {Len(log) + 1}
      BY <1>4, <3>1
    <3> HIDE DEF S
    <3>3. Latest(S \cup {Len(log) + 1}) = Len(log) + 1
      BY <3>1, <3>2, OneMore
    <3> QED
      BY <3>2, <3>3
  <2> QED
    BY <1>1, <1>6, <1>7, <2>1, Appended
<1>8. CASE ~Word
  <2>1. WordsOn(p) # {} => log'[Latest(WordsOn(p))] = log[Latest(WordsOn(p))]
    BY <1>1, <1>4, Appended, OneMore
  <2> QED
    BY <1>5, <1>6, <1>8, <2>1 DEF OwnerIsFromTheLastWord
<1> QED
  BY <1>7, <1>8

(***************************************************************************)
(* The RIB names the origin of the last event that says anything about the *)
(* prefix's owner, after any history (apply.go: applyRIB).                 *)
(***************************************************************************)
THEOREM OwnerAlwaysFromTheLastWord == Spec => []OwnerIsFromTheLastWord
<1>1. Init => OwnerIsFromTheLastWord
  BY DEF Init, OwnerIsFromTheLastWord, WordsOn, Such
<1>2. GraphInv /\ OwnerIsFromTheLastWord /\ [Next]_vars => OwnerIsFromTheLastWord'
  <2> SUFFICES ASSUME GraphInv, OwnerIsFromTheLastWord, [Next]_vars
               PROVE  OwnerIsFromTheLastWord'
    OBVIOUS
  <2>1. ASSUME Len(log) < MaxEvents, NEW u \in Update, Apply(Numbered(u))
        PROVE  OwnerIsFromTheLastWord'
    BY <2>1, NumberedEvent, OwnerStep DEF GraphInv
  <2>2. CASE Tick \/ UNCHANGED vars
    BY <2>2 DEF Tick, vars, OwnerIsFromTheLastWord, WordsOn, Such
  <2> QED
    BY <2>1, <2>2 DEF Next
<1> QED
  BY <1>1, <1>2, GraphInvAlways, PTL DEF Spec

-----------------------------------------------------------------------------
(* Counters                                                                *)

\* A set of updates after one more that is in it, or not.
Plus(S, b) == IF b THEN S \cup {Len(log) + 1} ELSE S
Bit(b) == IF b THEN 1 ELSE 0

LEMMA Tally ==
  ASSUME Len(log) \in Nat, NEW S \in SUBSET Ids, NEW b \in BOOLEAN
  PROVE  Cardinality(Plus(S, b)) = Cardinality(S) + Bit(b)
<1>1. CASE b
  BY <1>1, OneMore DEF Plus, Bit, Ids
<1>2. CASE ~b
  <2>1. Cardinality(S) \in Nat
    BY OneMore DEF Ids
  <2> QED
    BY <1>2, <2>1 DEF Plus, Bit
<1> QED
  BY <1>1, <1>2

LEMMA TotalsStep ==
  ASSUME TypeOK, TotalsAreTheHistory, NEW ev \in Events, ev \in Classified, Store(ev)
  PROVE  TotalsAreTheHistory'
<1>1. log \in Seq(Events) /\ log' = Append(log, ev) /\ Len(log) \in Nat
      /\ Len(log') = Len(log) + 1
  BY Appended DEF TypeOK, Store
<1>2. /\ stats' = [stats EXCEPT !.total = @ + 1, !.tick = @ + 1,
                     !.announces = IF Announced(ev) THEN @ + 1 ELSE @,
                     !.withdraws = IF Announced(ev) THEN @ ELSE @ + 1,
                     !.leaks = IF Leaked(ev) THEN @ + 1 ELSE @,
                     !.hijacks = IF Hijacked(ev) THEN @ + 1 ELSE @,
                     !.rpki[ev.rpki] = IF Announced(ev) THEN @ + 1 ELSE @]
      /\ stats \in StatsType
  BY DEF Store, Record, Announced, Leaked, Hijacked, TypeOK
<1>3. /\ stats'.total = stats.total + 1
      /\ stats'.announces = stats.announces + Bit(Announced(ev))
      /\ stats'.withdraws = stats.withdraws + Bit(Withdrawn(ev))
      /\ stats'.leaks = stats.leaks + Bit(Leaked(ev))
      /\ stats'.hijacks = stats.hijacks + Bit(Hijacked(ev))
      /\ \A s \in RPKIStatus :
           stats'.rpki[s] = stats.rpki[s] + Bit(Announced(ev) /\ ev.rpki = s)
  BY <1>2 DEF StatsType, Classified, UpdateKind, Announced, Withdrawn, Bit
<1> USE <1>1
<1>4. Cardinality(Announcements(log)') = Cardinality(Announcements(log)) + Bit(Announced(ev))
  <2>1. /\ Announcements(log) \in SUBSET Ids /\ Announced(ev) \in BOOLEAN
        /\ Announcements(log)' = Plus(Announcements(log), Announced(ev))
    BY Appended DEF Announcements, Such, Ids, Announced, Plus
  <2> QED
    BY <2>1, Tally
<1>5. Cardinality(Withdraws(log)') = Cardinality(Withdraws(log)) + Bit(Withdrawn(ev))
  <2>1. /\ Withdraws(log) \in SUBSET Ids /\ Withdrawn(ev) \in BOOLEAN
        /\ Withdraws(log)' = Plus(Withdraws(log), Withdrawn(ev))
    BY Appended DEF Withdraws, Such, Ids, Withdrawn, Plus
  <2> QED
    BY <2>1, Tally
<1>6. Cardinality(Leaks(log)') = Cardinality(Leaks(log)) + Bit(Leaked(ev))
  <2>1. /\ Leaks(log) \in SUBSET Ids /\ Leaked(ev) \in BOOLEAN
        /\ Leaks(log)' = Plus(Leaks(log), Leaked(ev))
    BY Appended DEF Leaks, Such, Ids, Leaked, Plus
  <2> QED
    BY <2>1, Tally
<1>7. Cardinality(Hijacks(log)') = Cardinality(Hijacks(log)) + Bit(Hijacked(ev))
  <2>1. /\ Hijacks(log) \in SUBSET Ids /\ Hijacked(ev) \in BOOLEAN
        /\ Hijacks(log)' = Plus(Hijacks(log), Hijacked(ev))
    BY Appended DEF Hijacks, Such, Ids, Hijacked, Plus
  <2> QED
    BY <2>1, Tally
<1>8. ASSUME NEW s \in RPKIStatus
      PROVE  Cardinality(Judged(s)') = Cardinality(Judged(s)) + Bit(Announced(ev) /\ ev.rpki = s)
  <2>1. /\ Judged(s) \in SUBSET Ids /\ (Announced(ev) /\ ev.rpki = s) \in BOOLEAN
        /\ Judged(s)' = Plus(Judged(s), Announced(ev) /\ ev.rpki = s)
    BY Appended DEF Judged, Such, Ids, Announced, Plus
  <2> QED
    BY <2>1, Tally
<1> QED
  BY <1>3, <1>4, <1>5, <1>6, <1>7, <1>8 DEF TotalsAreTheHistory

\* Only the ASes on the graph have announced anything.
OriginsOnGraph == \A a \in ASN : By(a) # {} => a \in DOMAIN nodes

\* What a step leaves of the tallies of a node that was there, or of a new one.
TalliedOr(a, b, ev) ==
  LET old == IF a \in DOMAIN nodes THEN nodes[a] ELSE NewNode
  IN  IF b THEN /\ nodes'[a].events = old.events + 1
                /\ \A s \in RPKIStatus : nodes'[a].rpki[s] = old.rpki[s] + Bit(ev.rpki = s)
                /\ nodes'[a].worst = WorseRPKI(old.worst, ev.rpki)
      ELSE /\ nodes'[a].events = old.events /\ nodes'[a].rpki = old.rpki
           /\ nodes'[a].worst = old.worst

LEMMA NodesTallied ==
  ASSUME TypeOK, NEW ev \in Classified, Apply(ev), NEW a \in ASN, a \in DOMAIN nodes'
  PROVE  TalliedOr(a, Announced(ev) /\ ev.origin = a, ev)
<1> DEFINE old == IF a \in DOMAIN nodes THEN nodes[a] ELSE NewNode
<1>1. old \in Node
  BY NewNodeType DEF TypeOK
<1>2. CASE AnnounceTracked(ev)
  <2>1. CASE a = ev.origin
    <3>1. nodes'[a] = [Observed(old, ev) EXCEPT !.prefixes = Moved(a, Observed(old, ev).prefixes, ev)]
      BY <1>2, <2>1 DEF AnnounceTracked, WithNodes
    <3>2. Observed(old, ev) \in Node
      BY <1>1, ObservedType
    <3>3. /\ nodes'[a].events = Observed(old, ev).events /\ nodes'[a].rpki = Observed(old, ev).rpki
          /\ nodes'[a].worst = Observed(old, ev).worst
      BY <3>1, <3>2 DEF Node
    <3>4. /\ Observed(old, ev).events = old.events + 1
          /\ Observed(old, ev).rpki = [old.rpki EXCEPT ![ev.rpki] = @ + 1]
          /\ Observed(old, ev).worst = WorseRPKI(old.worst, ev.rpki)
      BY <1>1 DEF Observed, Node
    <3>5. \A s \in RPKIStatus :
            [old.rpki EXCEPT ![ev.rpki] = @ + 1][s] = old.rpki[s] + Bit(ev.rpki = s)
      BY <1>1 DEF Node, Bit
    <3> HIDE DEF old
    <3>6. /\ nodes'[a].events = old.events + 1
          /\ \A s \in RPKIStatus : nodes'[a].rpki[s] = old.rpki[s] + Bit(ev.rpki = s)
          /\ nodes'[a].worst = WorseRPKI(old.worst, ev.rpki)
      BY <3>3, <3>4, <3>5
    <3>7. Announced(ev) /\ ev.origin = a
      BY <1>2, <2>1 DEF AnnounceTracked, Announced
    <3> QED
      BY <3>6, <3>7 DEF TalliedOr, old
  <2>2. CASE a # ev.origin
    <3>1. nodes'[a] = [old EXCEPT !.prefixes = Moved(a, old.prefixes, ev)]
      BY <1>2, <2>2 DEF AnnounceTracked, WithNodes
    <3> QED
      BY <1>1, <2>2, <3>1 DEF TalliedOr, Node
  <2> QED
    BY <2>1, <2>2
<1>3. CASE AnnounceUntracked(ev)
  <2>1. nodes'[a] = old
    BY <1>3 DEF AnnounceUntracked, WithNodes
  <2> QED
    BY <1>3, <2>1, TopologyAssumption DEF TalliedOr, AnnounceUntracked, TypeOK
<1>4. CASE Withdraw(ev)
  <2>1. nodes'[a] = [old EXCEPT !.prefixes = Disowned(a, old.prefixes, ev)] /\ ~Announced(ev)
    BY <1>4 DEF Withdraw, Announced
  <2> QED
    BY <1>1, <2>1 DEF TalliedOr, Node
<1> QED
  BY <1>2, <1>3, <1>4 DEF Apply

LEMMA WorstOfTwo ==
  ASSUME NEW i, NEW v, NEW s,
         NEW w, w = IF i # {} THEN "invalid" ELSE IF v # {} THEN "valid" ELSE "notfound"
  PROVE  WorseRPKI(w, s) = IF i # {} \/ s = "invalid" THEN "invalid"
                           ELSE IF v # {} \/ s = "valid" THEN "valid" ELSE "notfound"
  BY DEF WorseRPKI

LEMMA NodesStep ==
  ASSUME GraphInv, GraphInv', NodesAreTheHistory, OriginsOnGraph, NEW ev \in Events,
         ev \in Classified, Apply(ev)
  PROVE  NodesAreTheHistory' /\ OriginsOnGraph'
<1>1. log \in Seq(Events) /\ log' = Append(log, ev) /\ Len(log) \in Nat
      /\ Len(log') = Len(log) + 1 /\ DOMAIN nodes' \subseteq ASN
  BY Appended DEF GraphInv, TypeOK, Apply, AnnounceTracked, AnnounceUntracked, Withdraw, Store
<1>2. ASSUME NEW a \in ASN
      PROVE  /\ By(a) \in SUBSET Ids
             /\ By(a)' = Plus(By(a), Announced(ev) /\ ev.origin = a)
             /\ \A s : /\ Verdicts(a, s) \in SUBSET By(a)
                       /\ Verdicts(a, s)' = Plus(Verdicts(a, s), Announced(ev) /\ ev.origin = a /\ ev.rpki = s)
  BY <1>1, Appended DEF By, Verdicts, Such, Ids, Plus
<1>3. DOMAIN nodes \subseteq DOMAIN nodes'
      /\ (Announced(ev) /\ ev.origin \in ASN => ev.origin \in DOMAIN nodes')
  BY TrackedNodes, UntrackedNodes, WithdrawnNodes, TopologyAssumption
  DEF GraphInv, Apply, Announced, AnnounceUntracked, Withdraw
<1>4. OriginsOnGraph'
  BY <1>2, <1>3 DEF OriginsOnGraph, Plus
<1>5. ASSUME NEW a \in DOMAIN nodes'
      PROVE  /\ nodes'[a].events = Cardinality(By(a)')
             /\ \A s \in RPKIStatus : nodes'[a].rpki[s] = Cardinality(Verdicts(a, s)')
             /\ nodes'[a].worst = IF Verdicts(a, "invalid")' # {} THEN "invalid"
                                  ELSE IF Verdicts(a, "valid")' # {} THEN "valid" ELSE "notfound"
  <2> DEFINE old == IF a \in DOMAIN nodes THEN nodes[a] ELSE NewNode
             b == Announced(ev) /\ ev.origin = a
  <2>0. a \in ASN
    BY <1>1
  <2>1. /\ old.events = Cardinality(By(a))
        /\ \A s \in RPKIStatus : old.rpki[s] = Cardinality(Verdicts(a, s))
        /\ old.worst = IF Verdicts(a, "invalid") # {} THEN "invalid"
                       ELSE IF Verdicts(a, "valid") # {} THEN "valid" ELSE "notfound"
    <3>1. CASE a \in DOMAIN nodes
      BY <3>1 DEF NodesAreTheHistory
    <3>2. CASE a \notin DOMAIN nodes
      <4>1. By(a) = {} /\ \A s : Verdicts(a, s) = {}
        BY <1>2, <2>0, <3>2 DEF OriginsOnGraph
      <4> QED
        BY <3>2, <4>1, FS_EmptySet DEF NewNode
    <3> QED
      BY <3>1, <3>2
  <2>2. TalliedOr(a, b, ev)
    BY <1>1, <2>0, NodesTallied DEF GraphInv
  <2>3. Cardinality(By(a)') = Cardinality(By(a)) + Bit(b) /\ Cardinality(By(a)) \in Nat
    <3>1. b \in BOOLEAN
      OBVIOUS
    <3> QED
      BY ZenonT(60), <1>1, <1>2, <2>0, <3>1, Tally, OneMore DEF Ids
  <2>4. ASSUME NEW s \in RPKIStatus
        PROVE  /\ Cardinality(Verdicts(a, s)') = Cardinality(Verdicts(a, s)) + Bit(b /\ ev.rpki = s)
               /\ Cardinality(Verdicts(a, s)) \in Nat
    <3>1. (b /\ ev.rpki = s) \in BOOLEAN /\ Verdicts(a, s) \in SUBSET Ids
      BY <1>2, <2>0
    <3> QED
      BY ZenonT(60), <1>1, <1>2, <2>0, <3>1, Tally, OneMore DEF Ids
  <2> HIDE DEF old
  <2>5. CASE b
    <3>1. /\ nodes'[a].events = old.events + 1
          /\ \A s \in RPKIStatus : nodes'[a].rpki[s] = old.rpki[s] + Bit(ev.rpki = s)
          /\ nodes'[a].worst = WorseRPKI(old.worst, ev.rpki)
      BY <2>2, <2>5 DEF TalliedOr, old
    <3>2. \A s : Verdicts(a, s)' = Plus(Verdicts(a, s), ev.rpki = s)
      BY <1>2, <2>0, <2>5
    <3>3. nodes'[a].worst = IF Verdicts(a, "invalid")' # {} THEN "invalid"
                            ELSE IF Verdicts(a, "valid")' # {} THEN "valid" ELSE "notfound"
      <4>1. \A s : Verdicts(a, s)' # {} <=> Verdicts(a, s) # {} \/ ev.rpki = s
        BY <3>2 DEF Plus
      <4> QED
        <5>1. WorseRPKI(old.worst, ev.rpki) =
                IF Verdicts(a, "invalid") # {} \/ ev.rpki = "invalid" THEN "invalid"
                ELSE IF Verdicts(a, "valid") # {} \/ ev.rpki = "valid" THEN "valid" ELSE "notfound"
          BY <2>1, WorstOfTwo
        <5> QED
          BY <3>1, <4>1, <5>1
    <3> QED
      BY <2>1, <2>3, <2>4, <2>5, <3>1, <3>3 DEF Bit
  <2>6. CASE ~b
    <3>1. nodes'[a].events = old.events /\ nodes'[a].rpki = old.rpki /\ nodes'[a].worst = old.worst
      BY <2>2, <2>6 DEF TalliedOr, old
    <3>2. \A s : Verdicts(a, s)' = Verdicts(a, s)
      BY <1>2, <2>0, <2>6 DEF Plus
    <3> QED
      BY <2>1, <2>3, <2>6, <3>1, <3>2 DEF Bit
  <2> QED
    BY <2>5, <2>6
<1> QED
  BY <1>4, <1>5 DEF NodesAreTheHistory

CountersInv == CountersAreTheHistory /\ OriginsOnGraph

LEMMA CountersInit == Init => CountersInv
<1> SUFFICES ASSUME Init PROVE CountersInv
  OBVIOUS
<1>1. /\ nodes = [a \in {} |-> NewNode] /\ log = <<>> /\ stats = NoStats /\ Len(log) = 0
  BY DEF Init
<1>2. /\ Announcements(log) = {} /\ Withdraws(log) = {} /\ Leaks(log) = {}
      /\ Hijacks(log) = {} /\ (\A s : Judged(s) = {}) /\ \A a : By(a) = {}
  BY <1>1 DEF Announcements, Withdraws, Leaks, Hijacks, Such, Judged, By
<1>3. /\ Cardinality(Announcements(log)) = 0 /\ Cardinality(Withdraws(log)) = 0
      /\ Cardinality(Leaks(log)) = 0 /\ Cardinality(Hijacks(log)) = 0
      /\ \A s \in RPKIStatus : Cardinality(Judged(s)) = 0
  BY Zenon, <1>2, FS_EmptySet
<1>4. TotalsAreTheHistory /\ stats.rated + stats.tick = stats.total
  <2>1. /\ stats.total = 0 /\ stats.announces = 0 /\ stats.withdraws = 0 /\ stats.leaks = 0
        /\ stats.hijacks = 0 /\ stats.tick = 0 /\ stats.rated = 0
        /\ \A s \in RPKIStatus : stats.rpki[s] = 0
        /\ Len(log) = 0
    BY <1>1 DEF NoStats
  <2> QED
    BY <1>3, <2>1 DEF TotalsAreTheHistory
<1>5. NodesAreTheHistory /\ OriginsOnGraph
  BY <1>1, <1>2 DEF NodesAreTheHistory, OriginsOnGraph
<1> QED
  BY <1>4, <1>5 DEF CountersInv, CountersAreTheHistory

LEMMA SameHistory ==
  ASSUME log' = log
  PROVE  /\ Announcements(log)' = Announcements(log)
         /\ Withdraws(log)' = Withdraws(log)
         /\ Leaks(log)' = Leaks(log) /\ Hijacks(log)' = Hijacks(log)
         /\ \A s : Judged(s)' = Judged(s)
         /\ \A a : By(a)' = By(a) /\ \A s : Verdicts(a, s)' = Verdicts(a, s)
  BY DEF Announcements, Withdraws, Leaks, Hijacks, Such, Judged, By, Verdicts

LEMMA CountersStep == GraphInv /\ GraphInv' /\ CountersInv /\ [Next]_vars => CountersInv'
<1> SUFFICES ASSUME GraphInv, GraphInv', CountersInv, [Next]_vars PROVE CountersInv'
  OBVIOUS
<1>1. ASSUME Len(log) < MaxEvents, NEW u \in Update, Apply(Numbered(u)) PROVE CountersInv'
  <2> DEFINE ev == Numbered(u)
  <2>1. ev \in Events /\ ev \in Classified
    BY <1>1, NumberedEvent DEF GraphInv
  <2> HIDE DEF ev
  <2>2. Apply(ev) /\ Store(ev)
    BY <1>1 DEF Apply, AnnounceTracked, AnnounceUntracked, Withdraw, ev
  <2>3. TotalsAreTheHistory' /\ NodesAreTheHistory' /\ OriginsOnGraph'
    BY <2>1, <2>2, TotalsStep, NodesStep DEF GraphInv, CountersInv, CountersAreTheHistory
  <2>4. stats'.rated + stats'.tick = stats'.total
    <3>1. /\ stats'.total = stats.total + 1 /\ stats'.tick = stats.tick + 1
          /\ stats'.rated = stats.rated
      BY <2>2 DEF Store, Record, GraphInv, TypeOK, StatsType
    <3> QED
      BY SMTT(40), <3>1 DEF CountersInv, CountersAreTheHistory, GraphInv, TypeOK, StatsType
  <2> QED
    BY <2>3, <2>4 DEF CountersInv, CountersAreTheHistory
<1>2. CASE Tick
  <2>1. /\ stats'.rated = stats.rated + stats.tick /\ stats'.tick = 0 /\ stats'.total = stats.total
        /\ stats'.announces = stats.announces /\ stats'.withdraws = stats.withdraws
        /\ stats'.leaks = stats.leaks /\ stats'.hijacks = stats.hijacks /\ stats'.rpki = stats.rpki
    BY <1>2 DEF Tick, GraphInv, TypeOK, StatsType
  <2>2. nodes' = nodes /\ log' = log
    BY <1>2 DEF Tick
  <2>3. TotalsAreTheHistory'
    BY <2>1, <2>2, SameHistory DEF CountersInv, CountersAreTheHistory, TotalsAreTheHistory
  <2>4. NodesAreTheHistory' /\ OriginsOnGraph'
    BY <2>2, SameHistory DEF CountersInv, CountersAreTheHistory, NodesAreTheHistory, OriginsOnGraph
  <2>5. stats'.rated + stats'.tick = stats'.total
    BY <2>1 DEF CountersInv, CountersAreTheHistory, GraphInv, TypeOK, StatsType
  <2> QED
    BY <2>3, <2>4, <2>5 DEF CountersInv, CountersAreTheHistory
<1>3. CASE UNCHANGED vars
  <2>1. nodes' = nodes /\ log' = log /\ stats' = stats
    BY <1>3 DEF vars
  <2>2. TotalsAreTheHistory'
    BY <2>1, SameHistory DEF CountersInv, CountersAreTheHistory, TotalsAreTheHistory
  <2>3. NodesAreTheHistory' /\ OriginsOnGraph'
    BY <2>1, SameHistory DEF CountersInv, CountersAreTheHistory, NodesAreTheHistory, OriginsOnGraph
  <2> QED
    BY <2>1, <2>2, <2>3 DEF CountersInv, CountersAreTheHistory
<1> QED
  BY <1>1, <1>2, <1>3 DEF Next

(***************************************************************************)
(* The counters of the stats frame and the tallies of every node are those *)
(* of the history, a node's status is the worst verdict its announcements  *)
(* ever got, and no event is rated twice or never (apply.go: applyOrigin,  *)
(* worseRPKI; stats.go: record, tick).                                     *)
(***************************************************************************)
THEOREM CountersAlwaysTheHistory == Spec => []CountersAreTheHistory
<1>1. CountersInv => CountersAreTheHistory
  BY DEF CountersInv
<1> QED
  BY <1>1, CountersInit, CountersStep, GraphInvAlways, PTL DEF Spec

-----------------------------------------------------------------------------
(* Edges against the history                                               *)

\* How often one update crosses an edge.
LEMMA CrossedAtFinite ==
  ASSUME NEW ev \in Classified, NEW e
  PROVE  /\ IsFiniteSet(CrossedAt(ev, e)) /\ Cardinality(CrossedAt(ev, e)) \in Nat
         /\ Cardinality(CrossedAt(ev, e)) = 0 <=> CrossedAt(ev, e) = {}
<1>1. IsFiniteSet(1 .. Len(ev.path) - 1)
  <2>1. Len(ev.path) \in Nat
    BY LenProperties DEF Classified
  <2> QED
    BY <2>1, FS_Interval
<1>2. CrossedAt(ev, e) \in SUBSET (1 .. Len(ev.path) - 1)
  BY DEF CrossedAt
<1>3. IsFiniteSet(CrossedAt(ev, e))
  BY <1>1, <1>2, FS_Subset
<1> QED
  BY <1>3, FS_CardinalityType, FS_EmptySet

\* The crossings of some updates of a history are finitely many.
LEMMA CrossingsFinite ==
  ASSUME NEW h \in Seq(Classified), NEW e, NEW I \in SUBSET (1 .. Len(h))
  PROVE  IsFiniteSet(UNION {{i} \X CrossedAt(h[i], e) : i \in I})
<1> DEFINE At(i) == {i} \X CrossedAt(h[i], e)
<1>1. IsFiniteSet(I)
  <2>1. Len(h) \in Nat
    BY LenProperties
  <2> QED
    BY <2>1, OneMore
<1>2. \A i \in I : IsFiniteSet(At(i))
  <2>1. \A i \in I : h[i] \in Classified
    BY LenProperties
  <2> QED
    BY <2>1, CrossedAtFinite, FS_Singleton, FS_Product
<1>3. IsFiniteSet({At(i) : i \in I})
  <2> HIDE DEF At
  <2>1. [i \in I |-> At(i)] \in Surjection(I, {At(i) : i \in I})
    BY DEF Surjection
  <2> QED
    BY <1>1, <2>1, FS_Surjection
<1> QED
  BY <1>2, <1>3, FS_UNION

\* The crossings of one more update are added to those of the earlier ones.
LEMMA CrossingsExtended ==
  ASSUME NEW h \in Seq(Classified), NEW ev \in Classified, NEW e, NEW I \in SUBSET (1 .. Len(h))
  PROVE  /\ Crossings(h, e, I) \in Nat
         /\ Crossings(Append(h, ev), e, I) = Crossings(h, e, I)
         /\ Crossings(Append(h, ev), e, I \cup {Len(h) + 1}) =
              Crossings(h, e, I) + Cardinality(CrossedAt(ev, e))
<1> DEFINE n == Len(h) + 1
           g == Append(h, ev)
           At(f, i) == {i} \X CrossedAt(f[i], e)
           All(f, J) == UNION {At(f, i) : i \in J}
<1>1. /\ Len(h) \in Nat /\ g[n] = ev /\ n \notin I
      /\ \A i \in I : i \in 1 .. Len(h) /\ h[i] \in Classified /\ g[i] = h[i]
  BY LenProperties, AppendProperties
<1>2. IsFiniteSet(All(h, I))
  BY CrossingsFinite
<1>3. IsFiniteSet(At(g, n)) /\ Cardinality(At(g, n)) = Cardinality(CrossedAt(ev, e))
  <2>1. /\ IsFiniteSet({n}) /\ Cardinality({n}) = 1 
        /\ IsFiniteSet(CrossedAt(ev, e)) /\ Cardinality(CrossedAt(ev, e)) \in Nat
    BY CrossedAtFinite, FS_Singleton
  <2>2. /\ IsFiniteSet({n} \X CrossedAt(ev, e))
        /\ Cardinality({n} \X CrossedAt(ev, e)) = 1 * Cardinality(CrossedAt(ev, e))
    BY <2>1, FS_Product
  <2> QED
    BY <1>1, <2>1, <2>2
<1>4. All(g, I) = All(h, I)
  BY <1>1
<1>5. All(g, I \cup {n}) = All(h, I) \cup At(g, n)
  BY <1>1
<1>6. All(h, I) \cap At(g, n) = {}
  BY <1>1
<1>7. Crossings(h, e, I) = Cardinality(All(h, I)) /\ Crossings(g, e, I) = Cardinality(All(g, I))
      /\ Crossings(g, e, I \cup {n}) = Cardinality(All(g, I \cup {n}))
  BY DEF Crossings
<1> HIDE DEF At, All, g, n
<1>8. Cardinality(All(h, I) \cup At(g, n)) = Cardinality(All(h, I)) + Cardinality(At(g, n))
  <2>1. Cardinality(All(h, I) \cap At(g, n)) = 0
    BY Zenon, <1>6, FS_EmptySet
  <2>2. Cardinality(All(h, I)) \in Nat /\ Cardinality(At(g, n)) \in Nat
    BY <1>2, <1>3, FS_CardinalityType
  <2> QED
    BY <1>2, <1>3, <2>1, <2>2, FS_Union
<1>9. Crossings(h, e, I) \in Nat
  BY <1>2, <1>7, FS_CardinalityType
<1> QED
  BY <1>3, <1>4, <1>5, <1>7, <1>8, <1>9 DEF g, n

\* Updates that do not cross the edge contribute nothing.
LEMMA NoCrossings ==
  ASSUME NEW h, NEW e, NEW I, \A i \in I : CrossedAt(h[i], e) = {}
  PROVE  Crossings(h, e, I) = 0
<1>1. UNION {{i} \X CrossedAt(h[i], e) : i \in I} = {}
  OBVIOUS
<1> QED
  BY Zenon, <1>1, FS_EmptySet DEF Crossings

\* The history's sets after one more update.
LEMMA HistoryExtended ==
  ASSUME NEW h \in Seq(Classified), NEW ev \in Classified, NEW e
  PROVE  /\ CrossedBy(h, e) \in SUBSET (1 .. Len(h))
         /\ Leaks(h) \in SUBSET (1 .. Len(h)) /\ Hijacks(h) \in SUBSET (1 .. Len(h))
         /\ CrossedBy(Append(h, ev), e) =
              IF CrossedAt(ev, e) # {} THEN CrossedBy(h, e) \cup {Len(h) + 1} ELSE CrossedBy(h, e)
         /\ Leaks(Append(h, ev)) = IF Leaked(ev) THEN Leaks(h) \cup {Len(h) + 1} ELSE Leaks(h)
         /\ Hijacks(Append(h, ev)) =
              IF Hijacked(ev) THEN Hijacks(h) \cup {Len(h) + 1} ELSE Hijacks(h)
<1> DEFINE n == Len(h) + 1
           g == Append(h, ev)
<1>1. /\ Len(h) \in Nat /\ Len(g) = n /\ g[n] = ev /\ \A i \in 1 .. Len(h) : g[i] = h[i]
      /\ 1 .. Len(g) = (1 .. Len(h)) \cup {n}
  BY LenProperties, AppendProperties
<1> HIDE DEF g, n
<1>2. CrossedBy(g, e) = IF CrossedAt(ev, e) # {} THEN CrossedBy(h, e) \cup {n} ELSE CrossedBy(h, e)
  BY <1>1 DEF CrossedBy
<1>3. Leaks(g) = IF Leaked(ev) THEN Leaks(h) \cup {n} ELSE Leaks(h)
  BY <1>1 DEF Leaks, Such
<1>4. Hijacks(g) = IF Hijacked(ev) THEN Hijacks(h) \cup {n} ELSE Hijacks(h)
  BY <1>1 DEF Hijacks, Such
<1> QED
  BY <1>2, <1>3, <1>4 DEF g, n, CrossedBy, Leaks, Hijacks, Such

\* The last MaxSamples of a sequence, counted from its end.
LEMMA NewestFromTheEnd ==
  ASSUME NEW S, NEW t \in Seq(S)
  PROVE  /\ Newest(t) \in Seq(S) /\ Len(t) \in Nat
         /\ Len(Newest(t)) = LesserOf(MaxSamples, Len(t))
         /\ \A k \in 1 .. Len(Newest(t)) :
              /\ k + (Len(t) - Len(Newest(t))) \in 1 .. Len(t)
              /\ Newest(t)[k] = t[k + (Len(t) - Len(Newest(t)))]
<1> DEFINE first == IF Len(t) > MaxSamples THEN Len(t) - MaxSamples + 1 ELSE 1
<1>1. MaxSamples \in Nat /\ Len(t) \in Nat
  BY TopologyAssumption, LenProperties
<1>2. first \in Int /\ first >= 1 /\ first \in 1 .. Len(t) + 1
      /\ LesserOf(MaxSamples, Len(t)) = Len(t) - first + 1
  BY <1>1 DEF LesserOf
<1>3. \A i \in first .. Len(t) : t[i] \in S
  BY <1>1, <1>2, LenProperties
<1>4. Newest(t) = SubSeq(t, first, Len(t))
  BY DEF Newest
<1> HIDE DEF first
<1>5. /\ SubSeq(t, first, Len(t)) \in Seq(S)
      /\ Len(SubSeq(t, first, Len(t))) = IF first <= Len(t) THEN Len(t) - first + 1 ELSE 0
      /\ \A k \in 1 .. Len(t) - first + 1 : SubSeq(t, first, Len(t))[k] = t[first + k - 1]
  BY <1>1, <1>2, <1>3, SubSeqProperties
<1>6. Len(Newest(t)) = LesserOf(MaxSamples, Len(t)) /\ first = Len(t) - Len(Newest(t)) + 1
      /\ Newest(t) \in Seq(S)
  BY <1>1, <1>2, <1>4, <1>5
<1>7. ASSUME NEW k \in 1 .. Len(Newest(t))
      PROVE  /\ k + (Len(t) - Len(Newest(t))) \in 1 .. Len(t)
             /\ Newest(t)[k] = t[k + (Len(t) - Len(Newest(t)))]
  <2>1. k \in 1 .. Len(t) - first + 1 /\ first + k - 1 = k + (Len(t) - Len(Newest(t)))
    BY <1>1, <1>2, <1>6
  <2>2. Newest(t)[k] = t[first + k - 1]
    BY <1>4, <1>5, <2>1
  <2>3. k + (Len(t) - Len(Newest(t))) \in 1 .. Len(t)
    BY <1>1, <1>2, <2>1
  <2> QED
    BY <2>1, <2>2, <2>3
<1> QED
  BY <1>1, <1>6, <1>7

\* Counts of the history before an event become counts of the history with it.
LEMMA CountsExtended ==
  ASSUME NEW h \in Seq(Classified), NEW ev \in Classified, NEW e, NEW d, NEW new,
         CountsCrossings(d, e, h), d.count \in Nat, d.leaks \in Nat, d.hijacks \in Nat,
         new.count = d.count + Cardinality(CrossedAt(ev, e)),
         new.leaks = IF Leaked(ev) THEN d.leaks + Cardinality(CrossedAt(ev, e)) ELSE d.leaks,
         new.hijacks = IF Hijacked(ev) THEN d.hijacks + Cardinality(CrossedAt(ev, e))
                       ELSE d.hijacks
  PROVE  CountsCrossings(new, e, Append(h, ev))
<1> DEFINE n == Cardinality(CrossedAt(ev, e))
           id == Len(h) + 1
           g == Append(h, ev)
<1>1. Len(h) \in Nat /\ Len(g) = id /\ 1 .. Len(g) = (1 .. Len(h)) \cup {id}
  BY LenProperties, AppendProperties
<1>2. \A I \in SUBSET (1 .. Len(h)) :
        /\ Crossings(g, e, I) = Crossings(h, e, I)
        /\ Crossings(g, e, I \cup {id}) = Crossings(h, e, I) + n
  BY CrossingsExtended
<1>3. /\ Leaks(h) \in SUBSET (1 .. Len(h)) /\ Hijacks(h) \in SUBSET (1 .. Len(h))
      /\ Leaks(g) = IF Leaked(ev) THEN Leaks(h) \cup {id} ELSE Leaks(h)
      /\ Hijacks(g) = IF Hijacked(ev) THEN Hijacks(h) \cup {id} ELSE Hijacks(h)
  BY HistoryExtended
<1>4. new.count = Crossings(g, e, 1 .. Len(g))
  BY <1>1, <1>2 DEF CountsCrossings
<1>5. new.leaks = Crossings(g, e, Leaks(g))
  BY <1>2, <1>3 DEF CountsCrossings
<1>6. new.hijacks = Crossings(g, e, Hijacks(g))
  BY <1>2, <1>3 DEF CountsCrossings
<1> QED
  BY <1>4, <1>5, <1>6 DEF CountsCrossings

\* What one event that crosses the edge n times makes of an edge that was the summary
\* of the history before it.
LEMMA EdgeSumsExtended ==
  ASSUME NEW h \in Seq(Classified), NEW ev \in Classified, ev.id = Len(h) + 1, NEW e,
         NEW d, d \in Edge, EdgeSums(d, e, h)
  PROVE  LET n == Cardinality(CrossedAt(ev, e))
         IN  EdgeSums(IF CrossedAt(ev, e) # {} THEN Upsert(d, n, ev) ELSE d, e, Append(h, ev))
<1> DEFINE n == Cardinality(CrossedAt(ev, e))
           id == Len(h) + 1
           g == Append(h, ev)
           new == IF CrossedAt(ev, e) # {} THEN Upsert(d, n, ev) ELSE d
           t == d.samples \o [k \in 1 .. n |-> id]
           LaterIn(f, i) == Crossings(f, e, i + 1 .. Len(f))
<1>1. /\ Len(h) \in Nat /\ Len(g) = id /\ g[id] = ev /\ \A i \in 1 .. Len(h) : g[i] = h[i]
      /\ n \in Nat /\ (n = 0 <=> CrossedAt(ev, e) = {})
  BY LenProperties, AppendProperties, CrossedAtFinite
<1>2. \A I \in SUBSET (1 .. Len(h)) :
        /\ Crossings(h, e, I) \in Nat
        /\ Crossings(g, e, I) = Crossings(h, e, I)
        /\ Crossings(g, e, I \cup {id}) = Crossings(h, e, I) + n
  BY CrossingsExtended
<1>3. /\ new.count = d.count + n
      /\ new.leaks = IF Leaked(ev) THEN d.leaks + n ELSE d.leaks
      /\ new.hijacks = IF Hijacked(ev) THEN d.hijacks + n ELSE d.hijacks
      /\ new.samples = IF n = 0 THEN d.samples ELSE Newest(t)
      /\ d.count \in Nat /\ d.leaks \in Nat /\ d.hijacks \in Nat
      /\ d.samples \in Seq(1 .. MaxEvents)
  BY <1>1 DEF Upsert, Edge, Leaked, Hijacked
<1>4. CountsCrossings(new, e, g)
  <2> HIDE DEF new
  <2> QED
    BY <1>3, CountsExtended DEF EdgeSums
<1>7. \A i \in 1 .. Len(h) : LaterIn(g, i) = LaterIn(h, i) + n /\ LaterIn(h, i) \in Nat
  <2> TAKE i \in 1 .. Len(h)
  <2>1. i + 1 .. Len(g) = (i + 1 .. Len(h)) \cup {id} /\ i + 1 .. Len(h) \in SUBSET (1 .. Len(h))
    BY <1>1
  <2> QED
    BY <1>2, <2>1
<1>8. LaterIn(g, id) = 0
  <2>1. id + 1 .. Len(g) = {}
    BY <1>1
  <2> QED
    BY <2>1, NoCrossings
<1>9. SamplesAreTheNewest(new, e, g)
  <2> DEFINE s == d.samples
             L == Len(s)
  <2>1. /\ L \in Nat /\ MaxSamples \in Nat /\ L = LesserOf(MaxSamples, d.count)
        /\ \A k \in 1 .. L : /\ s[k] \in 1 .. Len(h)
                             /\ LaterIn(h, s[k]) <= L - k
                             /\ L - k < LaterIn(h, s[k]) + Cardinality(CrossedAt(h[s[k]], e))
    BY <1>3, TopologyAssumption, LenProperties DEF EdgeSums, SamplesAreTheNewest
  <2>2. CASE n = 0
    <3>1. new.samples = s /\ new.count = d.count
      BY <1>3, <2>2
    <3>2. ASSUME NEW k \in 1 .. L
          PROVE  /\ s[k] \in 1 .. Len(g)
                 /\ LaterIn(g, s[k]) <= L - k
                 /\ L - k < LaterIn(g, s[k]) + Cardinality(CrossedAt(g[s[k]], e))
      <4>1. s[k] \in 1 .. Len(h) /\ g[s[k]] = h[s[k]] /\ LaterIn(g, s[k]) = LaterIn(h, s[k])
        BY <1>1, <1>7, <2>1, <2>2
      <4> HIDE DEF g, s, LaterIn
      <4> QED
        BY <1>1, <2>1, <4>1
    <3> HIDE DEF new, g, n
    <3> QED
      BY <2>1, <3>1, <3>2 DEF SamplesAreTheNewest
  <2>3. CASE n # 0
    <3> DEFINE w == Newest(t)
               off == Len(t) - Len(w)
    <3>1. /\ t \in Seq(1 .. MaxEvents \cup {id}) /\ Len(t) = L + n
          /\ \A k \in 1 .. Len(t) : t[k] = IF k <= L THEN s[k] ELSE id
      <4> DEFINE ids == 1 .. MaxEvents \cup {id}
                 tail == [k \in 1 .. n |-> id]
      <4>1. tail \in Seq(ids) /\ Len(tail) = n /\ \A k \in 1 .. n : tail[k] = id
        BY <1>1
      <4>2. s \in Seq(ids)
        <5>1. 1 .. MaxEvents \subseteq ids
          OBVIOUS
        <5> HIDE DEF ids
        <5> QED
          BY <1>3, <5>1, SeqMonotonic
      <4> HIDE DEF ids, tail, s
      <4> HIDE DEF n
      <4>3. s \o tail \in Seq(ids) /\ Len(s \o tail) = L + n
            /\ \A k \in 1 .. L + n : (s \o tail)[k] = IF k <= L THEN s[k] ELSE tail[k - L]
        <5>1. /\ s \o tail \in Seq(ids) /\ Len(s \o tail) = Len(s) + Len(tail)
              /\ \A k \in 1 .. Len(s) + Len(tail) :
                   (s \o tail)[k] = IF k <= Len(s) THEN s[k] ELSE tail[k - Len(s)]
          BY Zenon, <4>2, <4>1, ConcatProperties
        <5> QED
          BY Zenon, <5>1, <4>1
      <4>4. \A k \in 1 .. L + n : k > L => tail[k - L] = id
        BY <1>1, <2>1, <4>1
      <4>5. t = s \o tail
        BY DEF s, tail
      <4> HIDE DEF t
      <4> QED
        BY <4>3, <4>4, <4>5 DEF ids
    <3>2. /\ Len(w) = LesserOf(MaxSamples, Len(t)) /\ Len(w) \in Nat
          /\ \A k \in 1 .. Len(w) : k + off \in 1 .. Len(t) /\ w[k] = t[k + off]
      BY <3>1, NewestFromTheEnd, LenProperties
    <3>3. Len(w) = LesserOf(MaxSamples, new.count)
      BY SMTT(40), <1>1, <1>3, <2>1, <3>1, <3>2 DEF LesserOf
    <3>4. ASSUME NEW j \in 1 .. Len(t)
          PROVE  /\ t[j] \in 1 .. Len(g)
                 /\ LaterIn(g, t[j]) <= Len(t) - j
                 /\ Len(t) - j < LaterIn(g, t[j]) + Cardinality(CrossedAt(g[t[j]], e))
      <4>1. CASE j <= L
        <5>1. j \in 1 .. L /\ t[j] = s[j]
          BY <2>1, <3>1, <4>1
        <5>2. s[j] \in 1 .. Len(h) /\ g[s[j]] = h[s[j]] /\ LaterIn(g, s[j]) = LaterIn(h, s[j]) + n
          BY <1>1, <1>7, <2>1, <5>1
        <5>3. LaterIn(h, s[j]) <= L - j
              /\ L - j < LaterIn(h, s[j]) + Cardinality(CrossedAt(h[s[j]], e))
              /\ LaterIn(h, s[j]) \in Nat
          BY <1>7, <2>1, <5>1
        <5>4. Cardinality(CrossedAt(h[s[j]], e)) \in Nat
          BY <5>2, CrossedAtFinite, LenProperties
        <5> HIDE DEF t, g, n, s, LaterIn
        <5> QED
          BY <1>1, <2>1, <3>1, <5>1, <5>2, <5>3, <5>4
      <4>2. CASE j > L
        <5> HIDE DEF t, s, LaterIn
        <5>1. t[j] = id /\ Len(t) - j \in Nat /\ Len(t) - j < n
          BY <1>1, <2>1, <3>1, <4>2
        <5>2. CrossedAt(g[t[j]], e) = CrossedAt(ev, e) /\ t[j] \in 1 .. Len(g)
          BY <1>1, <5>1
        <5> QED
          BY <1>1, <1>8, <5>1, <5>2
      <4>3. j <= L \/ j > L
        BY <2>1
      <4> QED
        BY <4>1, <4>2, <4>3
    <3>5. ASSUME NEW k \in 1 .. Len(w)
          PROVE  /\ w[k] \in 1 .. Len(g)
                 /\ LaterIn(g, w[k]) <= Len(w) - k
                 /\ Len(w) - k < LaterIn(g, w[k]) + Cardinality(CrossedAt(g[w[k]], e))
      <4>1. k + off \in 1 .. Len(t) /\ w[k] = t[k + off]
        BY <3>2
      <4>2. Len(t) - (k + off) = Len(w) - k
        BY <2>1, <1>1, <3>1, <3>2
      <4> HIDE DEF w, off, t, g, n
      <4> QED
        BY <3>4, <4>1, <4>2
    <3>6. new.samples = w
      BY <1>3, <2>3
    <3> HIDE DEF w, new, g, t, n
    <3> QED
      BY <3>3, <3>5, <3>6 DEF SamplesAreTheNewest
  <2> QED
    BY <2>2, <2>3
<1> QED
  BY <1>4, <1>9 DEF EdgeSums

\* The numbering leaves the path and its annotation alone.
LEMMA NumberedAnnotated ==
  ASSUME Len(log) \in Nat, NEW u \in Update
  PROVE  Numbered(u).id = Len(log) + 1 /\ Annotated(Numbered(u))
<1>1. u \in Classified /\ Annotated(u)
  BY TopologyAssumption, HistoryAssumption
<1>2. Numbered(u) = [u EXCEPT !.id = Len(log) + 1]
  BY DEF Numbered
<1>3. Numbered(u).id = Len(log) + 1 /\ Numbered(u).hops = u.hops /\ Numbered(u).path = u.path
  BY <1>1, <1>2 DEF Classified
<1> QED
  BY <1>1, <1>3 DEF Annotated

\* What applyEdges walks is what the history says is crossed.
LEMMA CrossesIsCrossedAt ==
  ASSUME NEW ev \in Classified, Announced(ev), NEW e \in ASN \X ASN, e[1] # e[2]
  PROVE  /\ Crosses(ev.path, e) = CrossedAt(ev, e)
         /\ e \in EdgesOf(ev.path) <=> CrossedAt(ev, e) # {}
<1>1. \A a, b : <<a, b>> = e <=> a = e[1] /\ b = e[2]
  OBVIOUS
<1>2. Crosses(ev.path, e) = CrossedAt(ev, e)
  BY <1>1 DEF Crosses, Steps, CrossedAt
<1>3. e \in EdgesOf(ev.path) <=> Crosses(ev.path, e) # {}
  BY DEF EdgesOf, Crosses
<1> QED
  BY <1>2, <1>3

\* An edge is created with the store's relationship.
LEMMA FirstHopIsTheStores ==
  ASSUME NEW ev \in Classified, Annotated(ev), NEW e \in EdgesOf(ev.path)
  PROVE  RelForHop(ev.hops, e) = RelOf[e]
<1> DEFINE at == {k \in 1 .. Len(ev.hops) : ev.hops[k].from = e[1] /\ ev.hops[k].to = e[2]}
<1>1. PICK k \in Steps(ev.path) : e = <<ev.path[k], ev.path[k + 1]>>
  BY DEF EdgesOf
<1>2. at # {} /\ at \in SUBSET Nat
  <2>1. k \in 1 .. Len(ev.path) - 1 /\ ev.path[k] # ev.path[k + 1]
    BY DEF Steps
  <2>2. PICK j \in 1 .. Len(ev.hops) : ev.hops[j].from = ev.path[k] /\ ev.hops[j].to = ev.path[k + 1]
    BY <2>1 DEF Annotated
  <2>3. j \in at
    BY <1>1, <2>2
  <2>4. Len(ev.hops) \in Nat
    BY LenProperties DEF Classified
  <2> QED
    BY <2>3, <2>4
<1>3. \E i \in at : \A j \in at : i <= j
  <2> HIDE DEF at
  <2> QED
    BY <1>2, FirstPosition
<1>4. PICK i \in at : i = CHOOSE j \in at : \A l \in at : j <= l
  BY <1>3
<1>5. ev.hops[i].rel = RelOf[<<ev.hops[i].from, ev.hops[i].to>>]
  BY <1>4 DEF Annotated
<1>6. RelForHop(ev.hops, e) = ev.hops[i].rel
  BY <1>2, <1>4 DEF RelForHop
<1>7. <<ev.hops[i].from, ev.hops[i].to>> = e
  BY <1>1, <1>4
<1> QED
  BY <1>5, <1>6, <1>7

\* The same claim for one record.
EdgeIsTheHistory(d, e, h) ==
  CrossedBy(h, e) # {} /\ EdgeSums(d, e, h) /\ EdgeLatest(d, e, h) /\ d.rel = RelOf[e]

\* A record carried over an event that does not cross its edge.
LEMMA EdgeUntouched ==
  ASSUME NEW h \in Seq(Classified), NEW ev \in Classified, ev.id = Len(h) + 1, NEW e,
         NEW d \in Edge, EdgeIsTheHistory(d, e, h), CrossedAt(ev, e) = {}
  PROVE  EdgeIsTheHistory(d, e, Append(h, ev))
<1> DEFINE g == Append(h, ev)
<1>1. CrossedBy(g, e) = CrossedBy(h, e) /\ CrossedBy(h, e) \in SUBSET (1 .. Len(h))
  BY HistoryExtended
<1>2. EdgeSums(d, e, g)
  BY EdgeSumsExtended DEF EdgeIsTheHistory
<1>3. d.last \in 1 .. Len(h)
  <2>1. Len(h) \in Nat /\ CrossedBy(h, e) # {}
    BY LenProperties DEF EdgeIsTheHistory
  <2> QED
    BY <1>1, <2>1, OneMore DEF EdgeIsTheHistory, EdgeLatest
<1>4. g[d.last] = h[d.last]
  BY <1>3, AppendProperties
<1> QED
  BY <1>1, <1>2, <1>4 DEF EdgeIsTheHistory, EdgeLatest

\* A record of the history, updated by an event that crosses its edge.
LEMMA EdgeCrossed ==
  ASSUME NEW h \in Seq(Classified), NEW ev \in Classified, ev.id = Len(h) + 1, NEW e,
         NEW d \in Edge, EdgeSums(d, e, h), d.rel = RelOf[e], CrossedAt(ev, e) # {}
  PROVE  EdgeIsTheHistory(Upsert(d, Cardinality(CrossedAt(ev, e)), ev), e, Append(h, ev))
<1> DEFINE g == Append(h, ev)
           new == Upsert(d, Cardinality(CrossedAt(ev, e)), ev)
<1>1. /\ CrossedBy(g, e) = CrossedBy(h, e) \cup {Len(h) + 1}
      /\ CrossedBy(h, e) \in SUBSET (1 .. Len(h)) /\ Len(h) \in Nat
  BY HistoryExtended, LenProperties
<1>2. EdgeSums(new, e, g)
  BY EdgeSumsExtended
<1>3. new.last = Len(h) + 1 /\ new.status = ev.vf /\ new.rel = d.rel
  BY DEF Upsert, Edge
<1>4. Latest(CrossedBy(g, e)) = Len(h) + 1
  <2> DEFINE S == CrossedBy(h, e)
  <2>1. S \in SUBSET (1 .. Len(h)) /\ CrossedBy(g, e) = S \cup {Len(h) + 1}
    BY <1>1
  <2> HIDE DEF g, S
  <2>2. Latest(S \cup {Len(h) + 1}) = Len(h) + 1
    BY <1>1, <2>1, OneMore
  <2> QED
    BY <2>1, <2>2
<1>5. g[Len(h) + 1] = ev
  BY AppendProperties
<1> HIDE DEF g, new
<1>6. CrossedBy(g, e) # {} /\ EdgeLatest(new, e, g)
  BY <1>1, <1>3, <1>4, <1>5 DEF EdgeLatest
<1> QED
  BY <1>2, <1>3, <1>6 DEF EdgeIsTheHistory, g, new

\* A new edge is the summary of a history that never crossed it.
LEMMA NewEdgeSums ==
  ASSUME NEW h \in Seq(Classified), NEW ev \in Classified, Annotated(ev),
         NEW e \in EdgesOf(ev.path), CrossedBy(h, e) = {}
  PROVE  /\ EdgeSums(NewEdge(e, ev), e, h) /\ NewEdge(e, ev) \in Edge
         /\ NewEdge(e, ev).rel = RelOf[e]
<1>1. \A i \in 1 .. Len(h) : CrossedAt(h[i], e) = {}
  BY DEF CrossedBy
<1>2. \A I \in SUBSET (1 .. Len(h)) : Crossings(h, e, I) = 0
  BY <1>1, NoCrossings
<1>3. NewEdge(e, ev) \in Edge /\ NewEdge(e, ev).rel = RelOf[e]
  BY NewEdgeIsGood, FirstHopIsTheStores DEF GoodEdge, NewEdge
<1>4. /\ NewEdge(e, ev).count = 0 /\ NewEdge(e, ev).leaks = 0 /\ NewEdge(e, ev).hijacks = 0
      /\ NewEdge(e, ev).samples = <<>> /\ LesserOf(MaxSamples, 0) = 0
  BY TopologyAssumption DEF NewEdge, LesserOf
<1>5. Leaks(h) \in SUBSET (1 .. Len(h)) /\ Hijacks(h) \in SUBSET (1 .. Len(h))
  BY DEF Leaks, Hijacks, Such
<1>6. SamplesAreTheNewest(NewEdge(e, ev), e, h)
  BY <1>4 DEF SamplesAreTheNewest
<1> QED
  BY <1>2, <1>3, <1>4, <1>5, <1>6 DEF EdgeSums, CountsCrossings

LEMMA AnnouncementCrosses ==
  ASSUME GraphInv, GraphInv', EdgesAreTheHistory, log \in Seq(Classified), NEW ev \in Classified,
         Annotated(ev), ev.id = Len(log) + 1, log' = Append(log, ev), Announced(ev), ApplyEdges(ev)
  PROVE  EdgesAreTheHistory'
<1> DEFINE D == DOMAIN edges \cup EdgesOf(ev.path)
           old(e) == IF e \in DOMAIN edges THEN edges[e] ELSE NewEdge(e, ev)
<1>1. DOMAIN edges' = D /\ \A e \in D : edges'[e] = IF e \in EdgesOf(ev.path)
                                         THEN Upsert(old(e), Cardinality(Crosses(ev.path, e)), ev)
                                         ELSE old(e)
  BY DEF ApplyEdges
<1>2. ev.path \in Seq(ASN) /\ D \subseteq ASN \X ASN /\ \A e \in D : e[1] # e[2]
  BY PathShape DEF Classified, GraphInv, TypeOK, EdgesClosed
<1>3. \A e \in DOMAIN edges : edges[e] \in Edge /\ EdgeIsTheHistory(edges[e], e, log)
  BY DEF EdgesAreTheHistory, EdgeIsTheHistory, GraphInv, TypeOK
<1>4. ASSUME NEW e \in D PROVE EdgeIsTheHistory(edges'[e], e, Append(log, ev))
  <2>1. e \in EdgesOf(ev.path) <=> CrossedAt(ev, e) # {}
    BY <1>2, CrossesIsCrossedAt
  <2>2. CASE CrossedAt(ev, e) = {}
    <3>1. edges'[e] = edges[e] /\ e \in DOMAIN edges
      BY <1>1, <2>1, <2>2
    <3> QED
      BY <1>3, <2>2, <3>1, EdgeUntouched
  <2>3. CASE CrossedAt(ev, e) # {}
    <3>1. edges'[e] = Upsert(old(e), Cardinality(CrossedAt(ev, e)), ev)
      BY <1>1, <1>2, <2>1, <2>3, CrossesIsCrossedAt
    <3>2. old(e) \in Edge /\ EdgeSums(old(e), e, log) /\ old(e).rel = RelOf[e]
      <4>1. CASE e \in DOMAIN edges
        BY <1>3, <4>1 DEF EdgeIsTheHistory
      <4>2. CASE e \notin DOMAIN edges
        <5>1. CrossedBy(log, e) = {}
          BY <1>2, <4>2 DEF EdgesAreTheHistory
        <5> QED
          BY <2>1, <2>3, <4>2, <5>1, NewEdgeSums
      <4> QED
        BY <4>1, <4>2
    <3> HIDE DEF old
    <3> QED
      BY <2>3, <3>1, <3>2, EdgeCrossed
  <2> QED
    BY <2>2, <2>3
<1>5. ASSUME NEW e \in ASN \X ASN, e[1] # e[2], CrossedBy(log', e) # {} PROVE e \in DOMAIN edges'
  <2>1. CASE CrossedAt(ev, e) # {}
    BY <1>1, <1>5, <2>1, CrossesIsCrossedAt
  <2>2. CASE CrossedAt(ev, e) = {}
    BY <1>1, <1>5, <2>2, HistoryExtended DEF EdgesAreTheHistory
  <2> QED
    BY <2>1, <2>2
<1> QED
  BY <1>1, <1>4, <1>5 DEF EdgesAreTheHistory, EdgeIsTheHistory

LEMMA WithdrawCrossesNothing ==
  ASSUME GraphInv, EdgesAreTheHistory, log \in Seq(Classified), NEW ev \in Classified,
         ev.id = Len(log) + 1, log' = Append(log, ev), ~Announced(ev), edges' = edges
  PROVE  EdgesAreTheHistory'
<1>1. \A e : CrossedAt(ev, e) = {}
  BY DEF CrossedAt
<1>2. \A e : CrossedBy(log', e) = CrossedBy(log, e)
  BY <1>1, HistoryExtended
<1>3. ASSUME NEW e \in DOMAIN edges PROVE EdgeIsTheHistory(edges[e], e, log')
  <2>1. edges[e] \in Edge /\ EdgeIsTheHistory(edges[e], e, log)
    BY DEF EdgesAreTheHistory, EdgeIsTheHistory, GraphInv, TypeOK
  <2> QED
    BY <1>1, <2>1, EdgeUntouched
<1> QED
  BY <1>2, <1>3 DEF EdgesAreTheHistory, EdgeIsTheHistory

LEMMA EdgesStep == GraphInv /\ GraphInv' /\ EdgesAreTheHistory /\ [Next]_vars => EdgesAreTheHistory'
<1> SUFFICES ASSUME GraphInv, GraphInv', EdgesAreTheHistory, [Next]_vars
             PROVE  EdgesAreTheHistory'
  OBVIOUS
<1>1. ASSUME Len(log) < MaxEvents, NEW u \in Update, Apply(Numbered(u))
      PROVE  EdgesAreTheHistory'
  <2> DEFINE ev == Numbered(u)
  <2>1. log \in Seq(Classified) /\ Len(log) \in Nat
    BY EventsAreClassified, SeqMonotonic, LenProperties DEF GraphInv, TypeOK
  <2>2. ev \in Classified /\ ev.id = Len(log) + 1 /\ Annotated(ev)
    BY <1>1, <2>1, NumberedEvent, NumberedAnnotated DEF GraphInv
  <2> HIDE DEF ev
  <2>3. log' = Append(log, ev)
    BY <1>1 DEF Apply, AnnounceTracked, AnnounceUntracked, Withdraw, Store, ev
  <2>4. CASE AnnounceTracked(ev) \/ AnnounceUntracked(ev)
    <3>1. Announced(ev) /\ ApplyEdges(ev)
      BY <2>4 DEF AnnounceTracked, AnnounceUntracked, Announced
    <3> QED
      BY <2>1, <2>2, <2>3, <3>1, AnnouncementCrosses
  <2>5. CASE Withdraw(ev)
    <3>1. ~Announced(ev) /\ edges' = edges
      BY <2>5 DEF Withdraw, Announced
    <3> QED
      BY <2>1, <2>2, <2>3, <3>1, WithdrawCrossesNothing
  <2> QED
    BY <1>1, <2>4, <2>5 DEF Apply, ev
<1>2. CASE Tick \/ UNCHANGED vars
  <2>1. log' = log /\ edges' = edges
    BY <1>2 DEF Tick, vars
  <2> QED
    BY <2>1 DEF EdgesAreTheHistory
<1> QED
  BY <1>1, <1>2 DEF Next

(***************************************************************************)
(* An edge is what the history says of it, however often and in whatever   *)
(* order its crossings came: counts, tallies, latest event, the newest     *)
(* samples, and the store's relationship, which is read only once (apply.  *)
(* go: applyEdges, upsertEdge, appendSample, relForHop).                   *)
(***************************************************************************)
THEOREM EdgesAlwaysTheHistory == Spec => []EdgesAreTheHistory
<1>1. Init => EdgesAreTheHistory
  BY DEF Init, EdgesAreTheHistory, CrossedBy
<1> QED
  BY <1>1, EdgesStep, GraphInvAlways, PTL DEF Spec


-----------------------------------------------------------------------------
(* The page                                                                *)

\* The edges a history crosses, and the ASes it puts on the graph.
CrossedEdges(h) == {e \in ASN \X ASN : e[1] # e[2] /\ CrossedBy(h, e) # {}}
SeenBy(ev) == IF Announced(ev) THEN Endpoints(ev.path) \cup ({ev.origin} \ {NoAS}) ELSE {}
SeenIn(h) == UNION {SeenBy(h[k]) : k \in 1 .. Len(h)}

\* What the page's links and nodes say of the events behind them.
Link == [rel : RelStatus, status : VFStatus, count : Nat, leaks : Nat, hijacks : Nat]
LinkIsTheHistory(l, e, h) ==
  /\ CountsCrossings(l, e, h)
  /\ l.status = h[Latest(CrossedBy(h, e))].vf
  /\ l.rel = RelOf[e]
LinksAre(D, h) ==
  DOMAIN D = CrossedEdges(h) /\ \A e \in DOMAIN D : D[e] \in Link /\ LinkIsTheHistory(D[e], e, h)

\* The events of a history that carry their place in it, and a queue of frames
\* whose events are such.
Told(h) == {h[i] : i \in {j \in 1 .. Len(h) : h[j].id = j}}
FrameIsTold(f, h) == f.type = "event" => f.ev \in Told(h)
QueueIsTold(q, h) ==
  q \in Seq({q[k] : k \in DOMAIN q}) /\ \A k \in DOMAIN q : FrameIsTold(q[k], h)

LEMMA CrossedEdgesOf ==
  ASSUME NEW h \in Seq(Classified)
  PROVE  UNION {EdgesOf(h[k].path) : k \in Announcements(h)} = CrossedEdges(h)
<1>1. \A k \in 1 .. Len(h) : h[k] \in Classified /\ h[k].path \in Seq(ASN)
  <2>1. \A k \in 1 .. Len(h) : h[k] \in Classified
    BY LenProperties
  <2> QED
    BY <2>1 DEF Classified
<1>2. Announcements(h) = {k \in 1 .. Len(h) : Announced(h[k])}
  BY DEF Announcements, Such
<1>3. ASSUME NEW k \in Announcements(h), NEW e \in EdgesOf(h[k].path) PROVE e \in CrossedEdges(h)
  <2>1. e \in ASN \X ASN /\ e[1] # e[2]
    BY <1>1, <1>2, PathShape
  <2>2. CrossedAt(h[k], e) # {}
    BY <1>1, <1>2, <2>1, CrossesIsCrossedAt
  <2> QED
    BY <1>2, <2>1, <2>2 DEF CrossedEdges, CrossedBy
<1>4. ASSUME NEW e \in CrossedEdges(h) PROVE \E k \in Announcements(h) : e \in EdgesOf(h[k].path)
  <2>1. PICK k \in 1 .. Len(h) : CrossedAt(h[k], e) # {}
    BY DEF CrossedEdges, CrossedBy
  <2>2. Announced(h[k])
    BY <2>1 DEF CrossedAt
  <2> QED
    BY <1>1, <1>2, <2>1, <2>2, CrossesIsCrossedAt DEF CrossedEdges
<1> QED
  BY <1>3, <1>4

LEMMA CrossedEdgesExtended ==
  ASSUME NEW h \in Seq(Classified), NEW ev \in Classified
  PROVE  CrossedEdges(Append(h, ev)) =
           CrossedEdges(h) \cup (IF Announced(ev) THEN EdgesOf(ev.path) ELSE {})
<1> DEFINE g == Append(h, ev)
<1>1. \A e : CrossedBy(g, e) = IF CrossedAt(ev, e) # {} THEN CrossedBy(h, e) \cup {Len(h) + 1}
                               ELSE CrossedBy(h, e)
  BY HistoryExtended
<1>2. \A e \in ASN \X ASN : e[1] # e[2] =>
        (CrossedAt(ev, e) # {} <=> Announced(ev) /\ e \in EdgesOf(ev.path))
  <2>1. ~Announced(ev) => \A e : CrossedAt(ev, e) = {}
    BY DEF CrossedAt
  <2> QED
    BY <2>1, CrossesIsCrossedAt
<1>3. \A e \in EdgesOf(ev.path) : e \in ASN \X ASN /\ e[1] # e[2]
  BY PathShape DEF Classified
<1> HIDE DEF g
<1> QED
  BY <1>1, <1>2, <1>3 DEF CrossedEdges, g

LEMMA SeenExtended ==
  ASSUME NEW h \in Seq(Classified), NEW ev \in Classified
  PROVE  SeenIn(Append(h, ev)) = SeenIn(h) \cup SeenBy(ev)
<1> DEFINE g == Append(h, ev)
<1>1. /\ Len(h) \in Nat /\ 1 .. Len(g) = (1 .. Len(h)) \cup {Len(h) + 1}
      /\ g[Len(h) + 1] = ev /\ \A i \in 1 .. Len(h) : g[i] = h[i]
  BY LenProperties, AppendProperties
<1> HIDE DEF g
<1> QED
  BY <1>1 DEF SeenIn, g

LEMMA PrefixOf ==
  ASSUME NEW h \in Seq(Classified), NEW n \in 0 .. Len(h)
  PROVE  /\ SubSeq(h, 1, n) \in Seq(Classified) /\ Len(SubSeq(h, 1, n)) = n
         /\ \A k \in 1 .. n : SubSeq(h, 1, n)[k] = h[k]
         /\ SubSeq(h, 1, Len(h)) = h
<1>1. /\ Len(h) \in Nat /\ 1 \in 1 .. Len(h) + 1
      /\ \A i \in 1 .. Len(h) : h[i] \in Classified
  BY LenProperties
<1>2. ASSUME NEW m \in 0 .. Len(h)
      PROVE  /\ SubSeq(h, 1, m) \in Seq(Classified) /\ Len(SubSeq(h, 1, m)) = m
             /\ \A k \in 1 .. m : SubSeq(h, 1, m)[k] = h[k]
  <2>1. \A i \in 1 .. m : h[i] \in Classified
    BY <1>1
  <2>2. /\ SubSeq(h, 1, m) \in Seq(Classified)
        /\ Len(SubSeq(h, 1, m)) = IF 1 <= m THEN m - 1 + 1 ELSE 0
        /\ \A k \in 1 .. m - 1 + 1 : SubSeq(h, 1, m)[k] = h[1 + k - 1]
    BY <1>1, <2>1, SubSeqProperties
  <2> QED
    BY <1>1, <2>2
<1>3. SubSeq(h, 1, Len(h)) = h
  <2>1. Len(h) \in 0 .. Len(h)
    BY <1>1
  <2> DEFINE s == SubSeq(h, 1, Len(h))
  <2>2. s \in Seq(Classified) /\ Len(s) = Len(h) /\ \A k \in 1 .. Len(h) : s[k] = h[k]
    BY <1>2, <2>1
  <2> HIDE DEF s
  <2>3. s = h
    BY <2>2, SeqEqual
  <2> QED
    BY <2>3 DEF s
<1> QED
  BY <1>2, <1>3

\* A prefix of a history stays one, and what was told stays told.
LEMMA PrefixKept ==
  ASSUME NEW h \in Seq(Classified), NEW ev \in Classified, NEW n \in 0 .. Len(h)
  PROVE  /\ SubSeq(Append(h, ev), 1, n) = SubSeq(h, 1, n)
         /\ Told(h) \subseteq Told(Append(h, ev))
<1> DEFINE g == Append(h, ev)
<1>1. /\ Len(h) \in Nat /\ Len(g) = Len(h) + 1 /\ g \in Seq(Classified)
      /\ \A i \in 1 .. Len(h) : g[i] = h[i] /\ h[i] \in Classified
  BY LenProperties, AppendProperties
<1> HIDE DEF g
<1>2. \A s \in {g, h} : /\ SubSeq(s, 1, n) \in Seq(Classified) /\ Len(SubSeq(s, 1, n)) = n
                         /\ \A k \in 1 .. n : SubSeq(s, 1, n)[k] = s[k]
  <2>1. n \in 0 .. Len(g)
    BY <1>1
  <2> QED
    BY <1>1, <2>1, PrefixOf
<1>3. SubSeq(g, 1, n) = SubSeq(h, 1, n)
  BY <1>1, <1>2, SeqEqual
<1>4. Told(h) \subseteq Told(g)
  BY <1>1 DEF Told
<1> QED
  BY <1>1, <1>2, <1>3, <1>4 DEF g

\* A link carried over an event that does not cross it, and one drawn by an event.
LEMMA LinkUntouched ==
  ASSUME NEW h \in Seq(Classified), NEW ev \in Classified, NEW e, NEW l \in Link,
         LinkIsTheHistory(l, e, h), CrossedBy(h, e) # {}, CrossedAt(ev, e) = {}
  PROVE  LinkIsTheHistory(l, e, Append(h, ev))
<1> DEFINE g == Append(h, ev)
           last == Latest(CrossedBy(h, e))
<1>1. CrossedBy(g, e) = CrossedBy(h, e) /\ CrossedBy(h, e) \in SUBSET (1 .. Len(h))
  BY HistoryExtended
<1>2. last \in 1 .. Len(h) /\ g[last] = h[last]
  <2>1. Len(h) \in Nat
    BY LenProperties
  <2>2. last \in CrossedBy(h, e)
    BY <1>1, <2>1, OneMore
  <2> HIDE DEF last
  <2> QED
    BY <1>1, <2>2, AppendProperties
<1>3. CountsCrossings(l, e, g)
  <2>1. Cardinality(CrossedAt(ev, e)) = 0
    BY CrossedAtFinite
  <2>2. l.count \in Nat /\ l.leaks \in Nat /\ l.hijacks \in Nat
    BY DEF Link
  <2>3. /\ l.count = l.count + Cardinality(CrossedAt(ev, e))
        /\ l.leaks = IF Leaked(ev) THEN l.leaks + Cardinality(CrossedAt(ev, e)) ELSE l.leaks
        /\ l.hijacks = IF Hijacked(ev) THEN l.hijacks + Cardinality(CrossedAt(ev, e))
                        ELSE l.hijacks
    BY <2>1, <2>2
  <2>4. CountsCrossings(l, e, h)
    BY DEF LinkIsTheHistory
  <2> QED
    BY <2>2, <2>3, <2>4, CountsExtended
<1> QED
  BY <1>1, <1>2, <1>3 DEF LinkIsTheHistory

LEMMA LinkDrawn ==
  ASSUME NEW h \in Seq(Classified), NEW ev \in Classified, Annotated(ev),
         NEW e \in EdgesOf(ev.path), NEW l \in Link,
         CountsCrossings(l, e, h), l.rel = RelOf[e], CrossedAt(ev, e) # {}
  PROVE  LET new == DrawnAgain(l, Cardinality(CrossedAt(ev, e)), e, ev)
         IN  new \in Link /\ LinkIsTheHistory(new, e, Append(h, ev))
<1> DEFINE n == Cardinality(CrossedAt(ev, e))
           g == Append(h, ev)
           new == DrawnAgain(l, n, e, ev)
<1>1. RelForHop(ev.hops, e) = RelOf[e] /\ n \in Nat
  BY FirstHopIsTheStores, CrossedAtFinite
<1>2. /\ l.count \in Nat /\ l.leaks \in Nat /\ l.hijacks \in Nat /\ ev.vf \in VFStatus
      /\ l.rel \in RelStatus
  BY DEF Link, Classified
<1>3. /\ new.count = l.count + n
      /\ new.leaks = IF Leaked(ev) THEN l.leaks + n ELSE l.leaks
      /\ new.hijacks = IF Hijacked(ev) THEN l.hijacks + n ELSE l.hijacks
      /\ new.status = ev.vf /\ new.rel = RelOf[e]
      /\ new \in Link
  <2>1. /\ new.count = l.count + n
        /\ new.leaks = IF ev.vf = "leak" THEN l.leaks + n ELSE l.leaks
        /\ new.hijacks = IF ev.vf = "hijack" THEN l.hijacks + n ELSE l.hijacks
        /\ new.status = ev.vf
        /\ new.rel = IF l.rel = "unknown" THEN RelForHop(ev.hops, e) ELSE l.rel
    BY DEF DrawnAgain, Link
  <2>3. new.rel \in RelStatus /\ new.status \in VFStatus /\ new.count \in Nat
        /\ new.leaks \in Nat /\ new.hijacks \in Nat /\ new.rel = RelOf[e]
    <3> HIDE DEF new, n
    <3> QED
      BY <1>1, <1>2, <2>1
  <2>4. new \in Link
    <3> DEFINE a == [l EXCEPT !.count = new.count]
               b == [a EXCEPT !.leaks = new.leaks]
               c == [b EXCEPT !.hijacks = new.hijacks]
               d == [c EXCEPT !.status = new.status]
    <3>1. a.leaks = l.leaks /\ b.hijacks = l.hijacks /\ d.rel = l.rel
      BY DEF Link
    <3>2. new = [d EXCEPT !.rel = new.rel]
      BY <2>1, <3>1 DEF DrawnAgain
    <3> HIDE DEF new
    <3>3. a \in Link /\ b \in Link
      BY <2>3 DEF Link
    <3> HIDE DEF b
    <3>4. c \in Link /\ d \in Link
      BY <2>3, <3>3 DEF Link
    <3> HIDE DEF d
    <3> QED
      BY <2>3, <3>2, <3>4 DEF Link
  <2> HIDE DEF new, n
  <2> QED
    BY <2>1, <2>3, <2>4 DEF Leaked, Hijacked
<1>4. CountsCrossings(new, e, g)
  <2> HIDE DEF new
  <2> QED
    BY <1>2, <1>3, CountsExtended
<1>5. g[Latest(CrossedBy(g, e))] = ev
  <2>1. /\ CrossedBy(g, e) = CrossedBy(h, e) \cup {Len(h) + 1}
        /\ CrossedBy(h, e) \in SUBSET (1 .. Len(h)) /\ Len(h) \in Nat
    BY HistoryExtended, LenProperties
  <2>2. g[Len(h) + 1] = ev
    BY AppendProperties
  <2> DEFINE S == CrossedBy(h, e)
  <2>3. S \in SUBSET (1 .. Len(h)) /\ CrossedBy(g, e) = S \cup {Len(h) + 1}
    BY <2>1
  <2> HIDE DEF g, S
  <2>4. Latest(S \cup {Len(h) + 1}) = Len(h) + 1
    BY <2>1, <2>3, OneMore
  <2> QED
    BY <2>2, <2>3, <2>4
<1> HIDE DEF new, g
<1>6. LinkIsTheHistory(new, e, g)
  BY <1>3, <1>4, <1>5 DEF LinkIsTheHistory
<1> QED
  BY <1>3, <1>6 DEF new, g

\* applyEvent: the links of an announcement's history are those of the history with it.
LEMMA LinksDrawn ==
  ASSUME NEW h \in Seq(Classified), NEW ev \in Classified, Annotated(ev), Announced(ev),
         LinksAre(vLinks, h), DrawLinks(ev)
  PROVE  LinksAre(vLinks', Append(h, ev))
<1> DEFINE D == DOMAIN vLinks \cup EdgesOf(ev.path)
           old(e) == IF e \in DOMAIN vLinks THEN vLinks[e] ELSE NewLink(e, ev)
<1>1. DOMAIN vLinks' = D /\ \A e \in D : vLinks'[e] =
                              IF e \in EdgesOf(ev.path)
                              THEN DrawnAgain(old(e), Cardinality(Crosses(ev.path, e)), e, ev)
                              ELSE old(e)
  BY DEF DrawLinks
<1>2. D = CrossedEdges(Append(h, ev)) /\ \A e \in D : e \in ASN \X ASN /\ e[1] # e[2]
  BY CrossedEdgesExtended DEF LinksAre, CrossedEdges
<1>3. ASSUME NEW e \in D
      PROVE  vLinks'[e] \in Link /\ LinkIsTheHistory(vLinks'[e], e, Append(h, ev))
  <2>1. e \in EdgesOf(ev.path) <=> CrossedAt(ev, e) # {}
    BY <1>2, CrossesIsCrossedAt
  <2>2. CASE CrossedAt(ev, e) = {}
    <3>1. /\ vLinks'[e] = vLinks[e] /\ CrossedBy(h, e) # {}
          /\ vLinks[e] \in Link /\ LinkIsTheHistory(vLinks[e], e, h)
      BY <1>1, <2>1, <2>2 DEF LinksAre, CrossedEdges
    <3> QED
      BY <2>2, <3>1, LinkUntouched
  <2>3. CASE CrossedAt(ev, e) # {}
    <3>1. vLinks'[e] = DrawnAgain(old(e), Cardinality(CrossedAt(ev, e)), e, ev)
      BY <1>1, <1>2, <2>1, <2>3, CrossesIsCrossedAt
    <3>2. old(e) \in Link /\ CountsCrossings(old(e), e, h) /\ old(e).rel = RelOf[e]
      <4>1. CASE e \in DOMAIN vLinks
        BY <4>1 DEF LinksAre, LinkIsTheHistory
      <4>2. CASE e \notin DOMAIN vLinks
        <5>1. CrossedBy(h, e) = {}
          BY <1>2, <4>2 DEF LinksAre, CrossedEdges
        <5>2. NewEdge(e, ev) \in Edge /\ NewEdge(e, ev).rel = RelOf[e] /\ EdgeSums(NewEdge(e, ev), e, h)
          BY <2>1, <2>3, <5>1, NewEdgeSums
        <5>3. /\ NewLink(e, ev).count = 0 /\ NewLink(e, ev).leaks = 0 /\ NewLink(e, ev).hijacks = 0
              /\ NewEdge(e, ev).count = 0 /\ NewEdge(e, ev).leaks = 0 /\ NewEdge(e, ev).hijacks = 0
              /\ NewLink(e, ev).rel = NewEdge(e, ev).rel
          BY DEF NewLink, NewEdge
        <5>4. NewLink(e, ev) \in Link
          BY <5>2 DEF NewLink, NewEdge, Link, Edge, Classified
        <5> QED
          BY <4>2, <5>2, <5>3, <5>4 DEF EdgeSums, CountsCrossings
      <4> QED
        BY <4>1, <4>2
    <3> HIDE DEF old
    <3> QED
      BY <2>1, <2>3, <3>1, <3>2, LinkDrawn
  <2> QED
    BY <2>2, <2>3
<1> QED
  BY <1>1, <1>2, <1>3 DEF LinksAre

\* A withdraw draws nothing.
LEMMA LinksKept ==
  ASSUME NEW h \in Seq(Classified), NEW ev \in Classified, ~Announced(ev), NEW D, LinksAre(D, h)
  PROVE  LinksAre(D, Append(h, ev))
<1>1. CrossedEdges(Append(h, ev)) = CrossedEdges(h)
  BY CrossedEdgesExtended
<1>2. ASSUME NEW e \in DOMAIN D PROVE LinkIsTheHistory(D[e], e, Append(h, ev))
  <2>1. /\ CrossedAt(ev, e) = {} /\ CrossedBy(h, e) # {}
        /\ D[e] \in Link /\ LinkIsTheHistory(D[e], e, h)
    BY DEF LinksAre, CrossedEdges, CrossedAt
  <2> QED
    BY <2>1, LinkUntouched
<1> QED
  BY <1>1, <1>2 DEF LinksAre

\* The events behind a page of which the first b came with the snapshot.
ShownFrom(h, b, g) == LET B == [k \in 1 .. b |-> k] \o g IN [k \in DOMAIN B |-> h[B[k]]]

LEMMA ShownIs ==
  ASSUME NEW h \in Seq(Classified), NEW b \in 0 .. Len(h), NEW g \in Seq(1 .. Len(h))
  PROVE  LET s == ShownFrom(h, b, g)
         IN  /\ s \in Seq(Classified) /\ Len(s) = b + Len(g) /\ Len(g) \in Nat
             /\ \A k \in 1 .. b : s[k] = h[k]
             /\ \A k \in 1 .. Len(g) : g[k] \in 1 .. Len(h)
             /\ \A k \in b + 1 .. b + Len(g) : s[k] = h[g[k - b]]
<1> DEFINE front == [k \in 1 .. b |-> k]
           B == front \o g
           s == [k \in DOMAIN B |-> h[B[k]]]
<1>1. /\ Len(h) \in Nat /\ b \in Nat /\ b <= Len(h) /\ Len(g) \in Nat
      /\ \A i \in 1 .. Len(h) : h[i] \in Classified
      /\ \A k \in 1 .. Len(g) : g[k] \in 1 .. Len(h)
  BY LenProperties
<1>2. front \in Seq(1 .. Len(h)) /\ Len(front) = b /\ \A k \in 1 .. b : front[k] = k
  BY <1>1
<1> HIDE DEF front
<1>3. /\ B \in Seq(1 .. Len(h)) /\ Len(B) = b + Len(g)
      /\ \A k \in 1 .. b + Len(g) : B[k] = IF k <= b THEN front[k] ELSE g[k - b]
  BY <1>2, ConcatProperties
<1>4. DOMAIN B = 1 .. b + Len(g) /\ \A k \in DOMAIN B : B[k] \in 1 .. Len(h)
  BY <1>3, LenProperties
<1> HIDE DEF B
<1>5. s \in Seq(Classified) /\ Len(s) = b + Len(g) /\ \A k \in 1 .. b + Len(g) : s[k] = h[B[k]]
  BY <1>1, <1>4
<1> HIDE DEF s
<1>6. \A k \in 1 .. b : s[k] = h[k]
  BY <1>1, <1>2, <1>3, <1>5
<1>7. ASSUME NEW k \in b + 1 .. b + Len(g) PROVE s[k] = h[g[k - b]]
  <2>1. k \in 1 .. b + Len(g) /\ ~(k <= b)
    BY <1>1
  <2> QED
    BY <1>3, <1>5, <2>1
<1> QED
  BY <1>1, <1>5, <1>6, <1>7 DEF ShownFrom, s, B, front

\* One more frame is one more event; a snapshot alone is a prefix of the history; and
\* what is shown does not change when the history goes on.
LEMMA ShownExtended ==
  ASSUME NEW h \in Seq(Classified), NEW b \in 0 .. Len(h), NEW g \in Seq(1 .. Len(h)),
         NEW i \in 1 .. Len(h)
  PROVE  /\ ShownFrom(h, b, Append(g, i)) = Append(ShownFrom(h, b, g), h[i])
         /\ Append(g, i) \in Seq(1 .. Len(h))
<1> DEFINE s == ShownFrom(h, b, g)
           t == ShownFrom(h, b, Append(g, i))
           m == b + Len(g)
<1>1. /\ Append(g, i) \in Seq(1 .. Len(h)) /\ Len(Append(g, i)) = Len(g) + 1
      /\ \A k \in 1 .. Len(g) : Append(g, i)[k] = g[k]
      /\ Append(g, i)[Len(g) + 1] = i
      /\ b \in Nat /\ Len(g) \in Nat /\ h[i] \in Classified
  BY AppendProperties, LenProperties
<1>2. /\ s \in Seq(Classified) /\ Len(s) = m
      /\ \A k \in 1 .. b : s[k] = h[k]
      /\ \A k \in b + 1 .. b + Len(g) : s[k] = h[g[k - b]]
  BY ShownIs
<1>3. /\ t \in Seq(Classified) /\ Len(t) = m + 1
      /\ \A k \in 1 .. b : t[k] = h[k]
      /\ \A k \in b + 1 .. m + 1 : t[k] = h[Append(g, i)[k - b]]
  <2> DEFINE f == Append(g, i)
  <2>1. /\ t \in Seq(Classified) /\ Len(t) = b + Len(f)
        /\ \A k \in 1 .. b : t[k] = h[k]
        /\ \A k \in b + 1 .. b + Len(f) : t[k] = h[f[k - b]]
    BY <1>1, ShownIs
  <2>2. b + Len(f) = m + 1
    BY <1>1
  <2> HIDE DEF t, m
  <2> QED
    BY <2>1, <2>2
<1>4. /\ Append(s, h[i]) \in Seq(Classified) /\ Len(Append(s, h[i])) = m + 1
      /\ \A k \in 1 .. m : Append(s, h[i])[k] = s[k]
      /\ Append(s, h[i])[m + 1] = h[i]
  BY <1>1, <1>2, AppendProperties
<1> HIDE DEF s, t
<1>5. ASSUME NEW k \in 1 .. m + 1 PROVE t[k] = Append(s, h[i])[k]
  <2>1. CASE k <= b
    BY <1>1, <1>2, <1>3, <1>4, <2>1
  <2>2. CASE k > b
    <3>1. k - b \in 1 .. Len(g) + 1 /\ k \in b + 1 .. m + 1
      BY <1>1, <2>2
    <3>2. CASE k <= m
      <4>1. k - b \in 1 .. Len(g) /\ k \in b + 1 .. m /\ k \in 1 .. m
        BY <1>1, <3>1, <3>2
      <4>2. t[k] = h[Append(g, i)[k - b]] /\ Append(g, i)[k - b] = g[k - b]
        BY <1>1, <1>3, <3>1, <4>1
      <4>3. s[k] = h[g[k - b]] /\ Append(s, h[i])[k] = s[k]
        BY <1>2, <1>4, <4>1
      <4> QED
        BY <4>2, <4>3
    <3>3. CASE k = m + 1
      <4>1. k - b = Len(g) + 1
        BY <1>1, <3>3
      <4> QED
        BY <1>1, <1>3, <1>4, <3>1, <3>3, <4>1
    <3>4. k <= m \/ k = m + 1
      <4>1. m \in Nat
        BY <1>1
      <4> HIDE DEF m
      <4> QED
        BY <4>1
    <3> QED
      BY <3>2, <3>3, <3>4
  <2>3. k <= b \/ k > b
    BY <1>1
  <2> QED
    BY <2>1, <2>2, <2>3
<1>6. t = Append(s, h[i])
  BY <1>3, <1>4, <1>5, SeqEqual
<1> QED
  BY <1>1, <1>6 DEF s, t

LEMMA ShownKept ==
  ASSUME NEW h \in Seq(Classified), NEW b \in 0 .. Len(h), NEW g \in Seq(1 .. Len(h)),
         NEW ev \in Classified
  PROVE  /\ ShownFrom(Append(h, ev), b, g) = ShownFrom(h, b, g)
         /\ b \in 0 .. Len(Append(h, ev)) /\ g \in Seq(1 .. Len(Append(h, ev)))
<1> DEFINE h2 == Append(h, ev)
<1>1. /\ h2 \in Seq(Classified) /\ Len(h2) = Len(h) + 1 /\ Len(h) \in Nat
      /\ \A k \in 1 .. Len(h) : h2[k] = h[k]
      /\ b \in Nat /\ Len(g) \in Nat /\ 1 .. b \subseteq 1 .. Len(h)
  BY AppendProperties, LenProperties
<1> HIDE DEF h2
<1>2. b \in 0 .. Len(h2) /\ g \in Seq(1 .. Len(h2))
  <2>1. 1 .. Len(h) \subseteq 1 .. Len(h2)
    BY <1>1
  <2> QED
    BY <1>1, <2>1, SeqMonotonic
<1>3. ShownFrom(h2, b, g) = ShownFrom(h, b, g)
  <2> DEFINE s == ShownFrom(h, b, g)
             t == ShownFrom(h2, b, g)
  <2>1. /\ s \in Seq(Classified) /\ Len(s) = b + Len(g)
        /\ \A k \in 1 .. b : s[k] = h[k]
        /\ \A k \in 1 .. Len(g) : g[k] \in 1 .. Len(h)
        /\ \A k \in b + 1 .. b + Len(g) : s[k] = h[g[k - b]]
    BY ShownIs
  <2>2. /\ t \in Seq(Classified) /\ Len(t) = b + Len(g)
        /\ \A k \in 1 .. b : t[k] = h2[k]
        /\ \A k \in b + 1 .. b + Len(g) : t[k] = h2[g[k - b]]
    BY <1>1, <1>2, ShownIs
  <2> HIDE DEF s, t
  <2>3. ASSUME NEW k \in 1 .. b + Len(g) PROVE s[k] = t[k]
    <3>1. CASE k <= b
      BY <1>1, <2>1, <2>2, <3>1
    <3>2. CASE k > b
      <4>1. k - b \in 1 .. Len(g) /\ k \in b + 1 .. b + Len(g)
        BY <1>1, <3>2
      <4> QED
        BY <1>1, <2>1, <2>2, <4>1
    <3> QED
      BY <1>1, <3>1, <3>2
  <2>4. s = t
    BY <2>1, <2>2, <2>3, SeqEqual
  <2> QED
    BY <2>4 DEF s, t
<1> QED
  BY <1>2, <1>3 DEF h2

\* What the snapshot alone shows.
LEMMA ShownAtFirst ==
  ASSUME NEW h \in Seq(Classified), NEW b \in 0 .. Len(h)
  PROVE  ShownFrom(h, b, <<>>) = SubSeq(h, 1, b) /\ <<>> \in Seq(1 .. Len(h))
<1> DEFINE s == ShownFrom(h, b, <<>>)
           t == SubSeq(h, 1, b)
<1>1. <<>> \in Seq(1 .. Len(h)) /\ Len(<<>>) = 0 /\ b \in Nat
  BY LenProperties
<1>2. s \in Seq(Classified) /\ Len(s) = b /\ \A k \in 1 .. b : s[k] = h[k]
  <2>1. s \in Seq(Classified) /\ Len(s) = b + Len(<<>>) /\ \A k \in 1 .. b : s[k] = h[k]
    BY <1>1, ShownIs
  <2> HIDE DEF s
  <2> QED
    BY <1>1, <2>1
<1>3. t \in Seq(Classified) /\ Len(t) = b /\ \A k \in 1 .. b : t[k] = h[k]
  BY PrefixOf
<1> HIDE DEF s, t
<1>4. s = t
  BY <1>2, <1>3, SeqEqual
<1> QED
  BY <1>4 DEF s, t

LEMMA OfItsOwnElements ==
  ASSUME NEW S, NEW s \in Seq(S)
  PROVE  s \in Seq({s[k] : k \in DOMAIN s})
<1> DEFINE R == {s[k] : k \in DOMAIN s}
<1>1. Len(s) \in Nat /\ DOMAIN s = 1 .. Len(s) /\ \A k \in 1 .. Len(s) : s[k] \in R
  BY LenProperties
<1>2. s = [k \in 1 .. Len(s) |-> s[k]]
  OBVIOUS
<1> HIDE DEF R
<1>3. [k \in 1 .. Len(s) |-> s[k]] \in Seq(R)
  BY <1>1
<1> QED
  BY <1>2, <1>3 DEF R

\* Frames enter a queue at one end and leave it at the other.
LEMMA QueueMoves ==
  ASSUME NEW q, NEW f, NEW h, QueueIsTold(q, h)
  PROVE  /\ FrameIsTold(f, h) => QueueIsTold(Append(q, f), h)
         /\ q # <<>> => QueueIsTold(Tail(q), h) /\ FrameIsTold(Head(q), h)
<1> DEFINE S == {q[k] : k \in DOMAIN q}
<1>1. q \in Seq(S) /\ Len(q) \in Nat /\ DOMAIN q = 1 .. Len(q) /\ \A k \in DOMAIN q : FrameIsTold(q[k], h)
  BY LenProperties DEF QueueIsTold
<1>2. ASSUME FrameIsTold(f, h) PROVE QueueIsTold(Append(q, f), h)
  <2> DEFINE a == Append(q, f)
             T == S \cup {f}
  <2>1. q \in Seq(T) /\ f \in T
    <3>1. S \subseteq T
      OBVIOUS
    <3> HIDE DEF S, T
    <3>2. q \in Seq(T)
      BY <1>1, <3>1, SeqMonotonic
    <3> QED
      BY <3>2 DEF T
  <2> HIDE DEF S, T
  <2>2. /\ a \in Seq(T) /\ Len(a) = Len(q) + 1 /\ a[Len(q) + 1] = f
        /\ \A i \in 1 .. Len(q) : a[i] = q[i]
    BY <2>1, AppendProperties
  <2> HIDE DEF a
  <2>3. DOMAIN a = 1 .. Len(a)
    BY <2>2, LenProperties
  <2>4. \A k \in DOMAIN a : FrameIsTold(a[k], h)
    BY <1>1, <1>2, <2>2, <2>3
  <2>5. a \in Seq({a[k] : k \in DOMAIN a})
    BY <2>2, OfItsOwnElements
  <2> QED
    BY <2>4, <2>5 DEF QueueIsTold, a
<1>3. ASSUME q # <<>> PROVE QueueIsTold(Tail(q), h) /\ FrameIsTold(Head(q), h)
  <2> DEFINE t == Tail(q)
  <2>1. /\ t \in Seq(S) /\ Len(t) = Len(q) - 1 /\ \A i \in 1 .. Len(t) : t[i] = q[i + 1]
        /\ Head(q) \in S
    <3> HIDE DEF S
    <3> QED
      BY <1>1, <1>3, HeadTailProperties
  <2> HIDE DEF t
  <2>2. DOMAIN t = 1 .. Len(t)
    BY <2>1, LenProperties
  <2>3. \A k \in DOMAIN t : FrameIsTold(t[k], h)
    BY <1>1, <2>1, <2>2
  <2>4. t \in Seq({t[k] : k \in DOMAIN t})
    BY <2>1, OfItsOwnElements
  <2> QED
    BY <1>1, <2>1, <2>3, <2>4 DEF QueueIsTold, t
<1> QED
  BY <1>2, <1>3

\* What is queued stays told while the history goes on.
LEMMA QueueKept ==
  ASSUME NEW h \in Seq(Classified), NEW ev \in Classified, NEW q, QueueIsTold(q, h)
  PROVE  QueueIsTold(q, Append(h, ev))
<1>1. Told(h) \subseteq Told(Append(h, ev))
  <2>1. 0 \in 0 .. Len(h)
    BY LenProperties
  <2> QED
    BY <2>1, PrefixKept
<1> QED
  BY <1>1 DEF QueueIsTold, FrameIsTold

(***************************************************************************)
(* The inductive invariant of the page and its server: besides what the    *)
(* graph says of the history, every event on its way is one of the         *)
(* history's, carrying its place in it; a snapshot on its way says what    *)
(* the history said up to the moment it was taken; and what is drawn says  *)
(* what the events shown say, in the order they were shown.                *)
(***************************************************************************)
ServerInv == GraphInv /\ EdgesAreTheHistory /\ DOMAIN nodes = SeenIn(log)

QueuesInv == bcast \in Seq(Told(log)) /\ QueueIsTold(backlog, log) /\ QueueIsTold(send, log)

SnapInv ==
  \A s \in snap :
    /\ s.at \in 0 .. Len(log)
    /\ LinksAre(s.edges, SubSeq(log, 1, s.at)) /\ SeenIn(SubSeq(log, 1, s.at)) \subseteq DOMAIN s.nodes

PageInv ==
  /\ base \in 0 .. Len(log) /\ got \in Seq(1 .. Len(log))
  /\ LinksAre(vLinks, ShownFrom(log, base, got))
  /\ SeenIn(ShownFrom(log, base, got)) \subseteq DOMAIN vNodes

BrowserInv == ServerInv /\ QueuesInv /\ SnapInv /\ PageInv

LEMMA LogIsClassified ==
  ASSUME TypeOK
  PROVE  /\ log \in Seq(Classified) /\ Len(log) \in Nat
         /\ \A i \in 1 .. Len(log) : log[i] \in Events
  BY EventsAreClassified, SeqMonotonic, LenProperties DEF TypeOK

\* Every event is annotated, and its origin is on its path.
LEMMA EventIsAnnotated ==
  ASSUME NEW ev \in Events
  PROVE  ev \in Classified /\ Annotated(ev) /\ ev.origin \in OnPath(ev) \cup {NoAS}
<1>1. PICK u \in Update, k \in 1 .. MaxEvents : ev = [u EXCEPT !.id = k]
  BY DEF Events
<1>2. u \in Classified /\ Annotated(u) /\ u.origin \in OnPath(u) \cup {NoAS}
  BY TopologyAssumption, HistoryAssumption, OriginAssumption
<1>3. ev.hops = u.hops /\ ev.path = u.path /\ ev.origin = u.origin
  BY <1>1, <1>2 DEF Classified
<1> QED
  BY <1>2, <1>3, EventsAreClassified DEF Annotated, OnPath

\* The events a page was shown are among the history's.
LEMMA ShownAreLogged ==
  ASSUME ServerInv, PageInv
  PROVE  LET s == ShownFrom(log, base, got)
         IN  /\ s \in Seq(Classified)
             /\ \A k \in 1 .. Len(s) : \E i \in 1 .. Len(log) : s[k] = log[i]
             /\ CrossedEdges(s) \subseteq CrossedEdges(log)
<1> DEFINE s == ShownFrom(log, base, got)
<1>1. /\ log \in Seq(Classified) /\ Len(log) \in Nat
      /\ base \in 0 .. Len(log) /\ got \in Seq(1 .. Len(log))
  BY LogIsClassified DEF ServerInv, GraphInv, PageInv
<1>2. /\ s \in Seq(Classified) /\ Len(s) = base + Len(got) /\ Len(got) \in Nat
      /\ \A k \in 1 .. base : s[k] = log[k]
      /\ \A k \in 1 .. Len(got) : got[k] \in 1 .. Len(log)
      /\ \A k \in base + 1 .. base + Len(got) : s[k] = log[got[k - base]]
  BY <1>1, ShownIs
<1> HIDE DEF s
<1>3. ASSUME NEW k \in 1 .. Len(s) PROVE \E i \in 1 .. Len(log) : s[k] = log[i]
  <2>1. CASE k \in 1 .. base
    BY SMTT(40), <1>1, <1>2, <2>1
  <2>2. CASE k \in base + 1 .. base + Len(got)
    <3>1. k - base \in 1 .. Len(got)
      BY SMTT(40), <1>1, <1>2, <2>2
    <3> QED
      BY SMTT(40), <1>2, <2>2, <3>1
  <2>3. k \in 1 .. base \/ k \in base + 1 .. base + Len(got)
    BY SMTT(40), <1>1, <1>2
  <2> QED
    BY <2>1, <2>2, <2>3
<1>4. CrossedEdges(s) \subseteq CrossedEdges(log)
  BY ZenonT(60), <1>3 DEF CrossedEdges, CrossedBy
<1> QED
  BY <1>2, <1>3, <1>4 DEF s

LEMMA ShownIsFrom == Shown = ShownFrom(log, base, got)
  BY DEF Shown, Behind, ShownFrom

\* The invariant says what is drawn.
LEMMA InvShows == BrowserInv => ViewIsSnapshotPlusFrames
<1> SUFFICES ASSUME BrowserInv PROVE ViewIsSnapshotPlusFrames
  OBVIOUS
<1> DEFINE s == ShownFrom(log, base, got)
<1>1. s \in Seq(Classified) /\ CrossedEdges(s) \subseteq CrossedEdges(log) /\ LinksAre(vLinks, s)
  BY ShownAreLogged DEF BrowserInv, PageInv
<1> HIDE DEF s
<1>2. \A e \in DOMAIN vLinks : edges[e].rel = RelOf[e]
  <2>1. \A e \in DOMAIN vLinks : e \in DOMAIN edges
    BY <1>1 DEF LinksAre, CrossedEdges, BrowserInv, ServerInv, EdgesAreTheHistory
  <2> QED
    BY <2>1 DEF BrowserInv, ServerInv, EdgesAreTheHistory
<1>3. DOMAIN vLinks = UNION {EdgesOf(s[k].path) : k \in Announcements(s)}
  BY <1>1, CrossedEdgesOf DEF LinksAre
<1>4. ASSUME NEW e \in DOMAIN vLinks
      PROVE  /\ CountsCrossings(vLinks[e], e, s)
             /\ vLinks[e].status = s[Latest(CrossedBy(s, e))].vf
             /\ vLinks[e].rel = edges[e].rel
  BY <1>1, <1>2 DEF LinksAre, LinkIsTheHistory
<1>5. Shown = s
  BY ShownIsFrom DEF s
<1> QED
  BY <1>3, <1>4, <1>5 DEF ViewIsSnapshotPlusFrames

\* Having missed nothing, the page was shown every event of the history, some of them
\* twice; Pos says where it was shown an event for the last time.
Pos(i) ==
  LET first == IF got = <<>> THEN base + 1 ELSE got[1]
  IN  IF i < first THEN i ELSE base + (i - first + 1)

LEMMA EverythingShown ==
  ASSUME BrowserInv, NothingMissed
  PROVE  LET s == ShownFrom(log, base, got)
         IN  /\ s \in Seq(Classified) /\ Len(s) \in Nat /\ Len(log) \in Nat
             /\ \A i \in 1 .. Len(log) : Pos(i) \in 1 .. Len(s) /\ s[Pos(i)] = log[i]
             /\ \A i, j \in 1 .. Len(log) : i < j => Pos(i) < Pos(j)
             /\ \A k \in 1 .. Len(s) : \E i \in 1 .. Len(log) : s[k] = log[i] /\ k <= Pos(i)
<1> DEFINE s == ShownFrom(log, base, got)
           first == IF got = <<>> THEN base + 1 ELSE got[1]
           n == Len(log)
<1>1. /\ log \in Seq(Classified) /\ Len(log) \in Nat
      /\ base \in 0 .. Len(log) /\ got \in Seq(1 .. Len(log))
  BY LogIsClassified DEF BrowserInv, ServerInv, GraphInv, PageInv
<1>2. /\ s \in Seq(Classified) /\ Len(s) = base + Len(got) /\ Len(got) \in Nat
      /\ \A k \in 1 .. base : s[k] = log[k]
      /\ \A k \in 1 .. Len(got) : got[k] \in 1 .. Len(log)
      /\ \A k \in base + 1 .. base + Len(got) : s[k] = log[got[k - base]]
  BY <1>1, ShownIs
<1> HIDE DEF s
<1>3. first \in 1 .. base + 1 /\ got = [k \in 1 .. n - first + 1 |-> first + k - 1]
  <2>1. first <= base + 1 /\ got = [k \in 1 .. n - first + 1 |-> first + k - 1]
    BY DEF NothingMissed
  <2>2. first \in Nat \ {0}
    <3>1. CASE got = <<>>
      BY <1>1, <3>1
    <3>2. CASE got # <<>>
      <4>1. 1 \in 1 .. Len(got)
        BY <1>1, <1>2, <3>2
      <4> QED
        BY <1>1, <1>2, <3>2, <4>1
    <3> QED
      BY <3>1, <3>2
  <2> QED
    BY <1>1, <2>1, <2>2
<1>4. Len(got) = n - first + 1 /\ \A k \in 1 .. n - first + 1 : got[k] = first + k - 1
  <2> HIDE DEF first
  <2>1. n - first + 1 \in Nat
    BY <1>1, <1>3
  <2> QED
    BY <1>3, <2>1
<1>5. \A i : Pos(i) = IF i < first THEN i ELSE base + (i - first + 1)
  BY DEF Pos
<1> HIDE DEF first
<1>6. ASSUME NEW i \in 1 .. n PROVE Pos(i) \in 1 .. Len(s) /\ s[Pos(i)] = log[i]
  <2>1. CASE i < first
    BY <1>1, <1>2, <1>3, <1>5, <2>1
  <2>2. CASE ~(i < first)
    <3>1. Pos(i) = base + (i - first + 1) /\ Pos(i) \in base + 1 .. base + Len(got)
          /\ Pos(i) - base = i - first + 1 /\ i - first + 1 \in 1 .. n - first + 1
      BY <1>1, <1>2, <1>3, <1>4, <1>5, <2>2
    <3>2. got[i - first + 1] = i
      BY <1>1, <1>3, <1>4, <3>1
    <3> QED
      BY <1>1, <1>2, <3>1, <3>2
  <2> QED
    BY <2>1, <2>2
<1>7. ASSUME NEW i \in 1 .. n, NEW j \in 1 .. n, i < j PROVE Pos(i) < Pos(j)
  <2>1. /\ Pos(i) = IF i < first THEN i ELSE base + (i - first + 1)
        /\ Pos(j) = IF j < first THEN j ELSE base + (j - first + 1)
    BY <1>5
  <2>2. base \in Nat /\ first \in Nat /\ first <= base + 1 /\ i \in Nat /\ j \in Nat
    BY <1>1, <1>3
  <2> QED
    BY <1>7, <2>1, <2>2
<1>8. ASSUME NEW k \in 1 .. Len(s) PROVE \E i \in 1 .. n : s[k] = log[i] /\ k <= Pos(i)
  <2>1. CASE k <= base
    <3>1. k \in 1 .. n /\ s[k] = log[k] /\ k <= Pos(k)
      BY <1>1, <1>2, <1>3, <1>5, <2>1
    <3> QED
      BY <3>1
  <2>2. CASE k > base
    <3>1. k - base \in 1 .. n - first + 1 /\ k \in base + 1 .. base + Len(got)
      BY <1>1, <1>2, <1>4, <2>2
    <3> DEFINE i == first + (k - base) - 1
    <3>2. i \in 1 .. n /\ ~(i < first) /\ base + (i - first + 1) = k
      BY <1>1, <1>3, <3>1
    <3>3. s[k] = log[i]
      BY <1>2, <1>4, <3>1
    <3>4. Pos(i) = k
      BY <1>5, <3>2
    <3> HIDE DEF i
    <3> QED
      BY <3>2, <3>3, <3>4
  <2>3. k <= base \/ k > base
    BY <1>1
  <2> QED
    BY <2>1, <2>2, <2>3
<1>9. Len(s) \in Nat
  BY <1>1, <1>2
<1>10. /\ s \in Seq(Classified) /\ Len(s) \in Nat /\ Len(log) \in Nat
       /\ \A i \in 1 .. Len(log) : Pos(i) \in 1 .. Len(s) /\ s[Pos(i)] = log[i]
       /\ \A i, j \in 1 .. Len(log) : i < j => Pos(i) < Pos(j)
       /\ \A k \in 1 .. Len(s) : \E i \in 1 .. Len(log) : s[k] = log[i] /\ k <= Pos(i)
  BY <1>1, <1>2, <1>6, <1>7, <1>8, <1>9
<1> QED
  BY <1>10 DEF s

\* Shown everything, the page counts no fewer crossings than the server.
LEMMA ShownAtLeastOnce ==
  ASSUME BrowserInv, NothingMissed, NEW e
  PROVE  LET s == ShownFrom(log, base, got)
         IN  Crossings(log, e, 1 .. Len(log)) <= Crossings(s, e, 1 .. Len(s))
<1> DEFINE s == ShownFrom(log, base, got)
           All(h) == UNION {{i} \X CrossedAt(h[i], e) : i \in 1 .. Len(h)}
<1>1. /\ s \in Seq(Classified) /\ Len(s) \in Nat /\ Len(log) \in Nat
      /\ \A i \in 1 .. Len(log) : Pos(i) \in 1 .. Len(s) /\ s[Pos(i)] = log[i]
      /\ \A i, j \in 1 .. Len(log) : i < j => Pos(i) < Pos(j)
  BY EverythingShown
<1> HIDE DEF s
<1>2. \A i, j \in 1 .. Len(log) : Pos(i) = Pos(j) => i = j
  BY <1>1
<1>3. IsFiniteSet(All(s))
  BY <1>1, CrossingsFinite
<1> DEFINE f == [x \in All(log) |-> <<Pos(x[1]), x[2]>>]
<1>4. f \in Injection(All(log), All(s))
  <2>1. ASSUME NEW x \in All(log)
        PROVE  x[1] \in 1 .. Len(log) /\ x[2] \in CrossedAt(log[x[1]], e) /\ x = <<x[1], x[2]>>
    OBVIOUS
  <2>2. ASSUME NEW x \in All(log) PROVE <<Pos(x[1]), x[2]>> \in All(s)
    <3>1. Pos(x[1]) \in 1 .. Len(s) /\ x[2] \in CrossedAt(s[Pos(x[1])], e)
      BY <1>1, <2>1
    <3> QED
      BY <3>1
  <2>3. ASSUME NEW x \in All(log), NEW y \in All(log), f[x] = f[y] PROVE x = y
    <3>1. Pos(x[1]) = Pos(y[1]) /\ x[2] = y[2]
      BY <2>3
    <3>2. x[1] = y[1]
      BY <1>2, <2>1, <3>1
    <3> QED
      BY <2>1, <3>1, <3>2
  <2>4. f \in [All(log) -> All(s)]
    BY <2>2
  <2> HIDE DEF f, All
  <2> QED
    BY <2>3, <2>4 DEF Injection, IsInjective
<1>5. Cardinality(All(log)) <= Cardinality(All(s))
  <2> HIDE DEF All, f
  <2> QED
    BY <1>3, <1>4, FS_Injection
<1> QED
  BY <1>5 DEF Crossings, s

LEMMA CaughtUp == BrowserInv => CaughtUpAgrees
<1> SUFFICES ASSUME BrowserInv, NothingMissed
             PROVE  /\ DOMAIN vLinks = DOMAIN edges /\ DOMAIN nodes \subseteq DOMAIN vNodes
                    /\ \A e \in DOMAIN edges : /\ vLinks[e].status = edges[e].status
                                               /\ vLinks[e].rel = edges[e].rel
                                               /\ vLinks[e].count >= edges[e].count
  BY DEF CaughtUpAgrees
<1> DEFINE s == ShownFrom(log, base, got)
<1>1. /\ s \in Seq(Classified) /\ Len(s) \in Nat /\ Len(log) \in Nat
      /\ \A i \in 1 .. Len(log) : Pos(i) \in 1 .. Len(s) /\ s[Pos(i)] = log[i]
      /\ \A i, j \in 1 .. Len(log) : i < j => Pos(i) < Pos(j)
      /\ \A k \in 1 .. Len(s) : \E i \in 1 .. Len(log) : s[k] = log[i] /\ k <= Pos(i)
  BY EverythingShown
<1>2. LinksAre(vLinks, s) /\ SeenIn(s) \subseteq DOMAIN vNodes
  BY DEF BrowserInv, PageInv
<1> HIDE DEF s
<1>3. CrossedEdges(s) = CrossedEdges(log)
  <2>1. CrossedEdges(s) \subseteq CrossedEdges(log)
    BY ShownAreLogged DEF BrowserInv, s
  <2>2. ASSUME NEW e, CrossedBy(log, e) # {} PROVE CrossedBy(s, e) # {}
    <3>1. PICK i \in 1 .. Len(log) : CrossedAt(log[i], e) # {}
      BY <2>2 DEF CrossedBy
    <3>2. Pos(i) \in 1 .. Len(s) /\ CrossedAt(s[Pos(i)], e) # {}
      BY <1>1, <3>1
    <3> QED
      BY <3>2 DEF CrossedBy
  <2> QED
    BY <2>1, <2>2 DEF CrossedEdges
<1>4. DOMAIN edges = CrossedEdges(log)
  <2>1. \A e \in DOMAIN edges : e \in ASN \X ASN /\ e[1] # e[2]
    BY DEF BrowserInv, ServerInv, GraphInv, TypeOK, EdgesClosed
  <2> QED
    BY <2>1 DEF BrowserInv, ServerInv, EdgesAreTheHistory, CrossedEdges
<1>5. SeenIn(log) \subseteq SeenIn(s)
  BY <1>1 DEF SeenIn
<1>6. ASSUME NEW e \in DOMAIN edges
      PROVE  /\ vLinks[e].status = edges[e].status
             /\ vLinks[e].rel = edges[e].rel
             /\ vLinks[e].count >= edges[e].count
  <2>1. /\ EdgeSums(edges[e], e, log) /\ EdgeLatest(edges[e], e, log) /\ edges[e].rel = RelOf[e]
        /\ CrossedBy(log, e) # {}
    BY DEF BrowserInv, ServerInv, EdgesAreTheHistory
  <2>2. LinkIsTheHistory(vLinks[e], e, s) /\ CrossedBy(s, e) # {}
    BY <1>2, <1>3, <1>4 DEF LinksAre, CrossedEdges
  <2>3. vLinks[e].count >= edges[e].count
    <3>1. Crossings(log, e, 1 .. Len(log)) <= Crossings(s, e, 1 .. Len(s))
      BY ShownAtLeastOnce DEF s
    <3>2. vLinks[e].count = Crossings(s, e, 1 .. Len(s))
          /\ edges[e].count = Crossings(log, e, 1 .. Len(log))
      BY <2>1, <2>2 DEF LinkIsTheHistory, EdgeSums, CountsCrossings
    <3> QED
      BY <3>1, <3>2
  <2>4. s[Latest(CrossedBy(s, e))] = log[Latest(CrossedBy(log, e))]
    <3> DEFINE A == CrossedBy(log, e)
               B == CrossedBy(s, e)
               m == Latest(A)
               k == Latest(B)
    <3>1. A \in SUBSET (1 .. Len(log)) /\ B \in SUBSET (1 .. Len(s)) /\ A # {} /\ B # {}
      BY <2>1, <2>2 DEF CrossedBy
    <3>2. m \in A /\ k \in B
      <4> HIDE DEF A, B
      <4> QED
        BY <1>1, <3>1, OneMore
    <3>3. (\A i \in A : i <= m) /\ \A i \in B : i <= k
      <4> HIDE DEF A, B
      <4> QED
        BY <1>1, <3>1, OneMore
    <3>4. PICK i \in 1 .. Len(log) : s[k] = log[i] /\ k <= Pos(i)
      BY <1>1, <3>1, <3>2
    <3>5. i \in A /\ Pos(m) \in B
      BY <1>1, <3>1, <3>2, <3>4 DEF CrossedBy
    <3>6. i <= m /\ Pos(m) <= k
      BY <3>3, <3>5
    <3>7. i = m
      <4>1. i \in Nat /\ m \in 1 .. Len(log) /\ k \in Nat /\ Pos(i) \in Nat /\ Pos(m) \in Nat
        <5>1. m \in 1 .. Len(log) /\ k \in 1 .. Len(s)
          BY <3>1, <3>2
        <5> HIDE DEF m, k
        <5>2. Pos(i) \in 1 .. Len(s) /\ Pos(m) \in 1 .. Len(s)
          BY <1>1, <5>1
        <5>3. i \in 1 .. Len(log) /\ Len(log) \in Nat /\ Len(s) \in Nat
          BY <1>1
        <5> QED
          BY ONLY <5>1, <5>2, <5>3
      <4>2. i < m => Pos(i) < Pos(m)
        BY <1>1, <3>4, <4>1
      <4> HIDE DEF m, k
      <4> QED
        BY <3>4, <3>6, <4>1, <4>2
    <3> QED
      BY <3>4, <3>7
  <2> QED
    BY <2>1, <2>2, <2>3, <2>4 DEF LinkIsTheHistory, EdgeLatest
<1> QED
  BY <1>2, <1>3, <1>4, <1>5, <1>6 DEF LinksAre, BrowserInv, ServerInv

-----------------------------------------------------------------------------

LEMMA NothingQueued ==
  ASSUME NEW h
  PROVE  QueueIsTold(<<>>, h)
  BY DEF QueueIsTold

LEMMA BrowserInitInv == BrowserInit => BrowserInv
<1> SUFFICES ASSUME BrowserInit PROVE BrowserInv
  OBVIOUS
<1>1. /\ log = <<>> /\ bcast = <<>> /\ backlog = <<>> /\ send = <<>> /\ snap = {}
      /\ base = 0 /\ got = <<>> /\ DOMAIN vLinks = {} /\ DOMAIN nodes = {} /\ DOMAIN edges = {}
  BY DEF BrowserInit, Init
<1>2. GraphInv /\ EdgesAreTheHistory
  <2>1. GraphInv
    BY InitInv DEF BrowserInit
  <2> QED
    BY <1>1, <2>1 DEF EdgesAreTheHistory, CrossedBy
<1>3. SeenIn(<<>>) = {} /\ CrossedEdges(<<>>) = {}
  BY DEF SeenIn, CrossedEdges, CrossedBy
<1>4. QueuesInv
  BY <1>1, NothingQueued DEF QueuesInv
<1>5. ShownFrom(log, base, got) = <<>>
  <2>1. <<>> \in Seq(Classified) /\ 0 \in 0 .. Len(<<>>) /\ <<>> \in Seq(1 .. Len(<<>>)) /\ Len(<<>>) = 0
    OBVIOUS
  <2> DEFINE s == ShownFrom(<<>>, 0, <<>>)
  <2>2. s \in Seq(Classified) /\ Len(s) = 0 + Len(<<>>)
    BY <2>1, ShownIs
  <2> HIDE DEF s
  <2>3. s = <<>>
    BY <2>1, <2>2
  <2> QED
    BY <1>1, <2>3 DEF s
<1>6. PageInv
  BY <1>1, <1>3, <1>5 DEF PageInv, LinksAre
<1> QED
  BY <1>1, <1>2, <1>3, <1>4, <1>6 DEF BrowserInv, ServerInv, SnapInv

\* An event puts its endpoints and its origin on the graph, and tells its place.
LEMMA ServerApplied ==
  ASSUME ServerInv, NEW u \in Update, Len(log) < MaxEvents, Apply(Numbered(u))
  PROVE  /\ ServerInv'
         /\ log \in Seq(Classified) /\ Numbered(u) \in Classified
         /\ log' = Append(log, Numbered(u)) /\ Numbered(u) \in Told(log')
<1> DEFINE ev == Numbered(u)
<1>1. log \in Seq(Classified) /\ Len(log) \in Nat /\ TypeOK
  BY LogIsClassified DEF ServerInv, GraphInv
<1>2. ev \in Classified /\ ev.id = Len(log) + 1
  BY <1>1, NumberedEvent, NumberedAnnotated
<1>3. GraphInv' /\ EdgesAreTheHistory'
  <2>1. Next
    BY DEF Next
  <2> QED
    BY <2>1, NextInv, EdgesStep DEF ServerInv
<1>4. Apply(ev)
  OBVIOUS
<1> HIDE DEF ev
<1>5. log' = Append(log, ev)
  BY <1>4 DEF Apply, AnnounceTracked, AnnounceUntracked, Withdraw, Store
<1>6. ev \in Told(log')
  <2>1. /\ Len(log') = Len(log) + 1 /\ log'[Len(log) + 1] = ev
    BY <1>1, <1>2, <1>5, AppendProperties
  <2> QED
    BY <1>1, <1>2, <2>1 DEF Told
<1>7. DOMAIN nodes' = DOMAIN nodes \cup SeenBy(ev)
  <2>1. CASE AnnounceTracked(ev)
    <3>1. Announced(ev) /\ ev.origin # NoAS
      BY <2>1 DEF AnnounceTracked, Announced
    <3> QED
      BY <1>1, <1>2, <2>1, <3>1, TrackedNodes DEF SeenBy
  <2>2. CASE AnnounceUntracked(ev)
    <3>1. Announced(ev) /\ ev.origin = NoAS
      BY <2>2 DEF AnnounceUntracked, Announced
    <3> QED
      BY <1>1, <1>2, <2>2, <3>1, UntrackedNodes DEF SeenBy
  <2>3. CASE Withdraw(ev)
    <3>1. ~Announced(ev)
      BY <2>3 DEF Withdraw, Announced
    <3> QED
      BY <1>1, <1>2, <2>3, <3>1, WithdrawnNodes DEF SeenBy
  <2> QED
    BY <1>4, <2>1, <2>2, <2>3 DEF Apply
<1>8. DOMAIN nodes' = SeenIn(log')
  BY <1>1, <1>2, <1>5, <1>7, SeenExtended DEF ServerInv
<1> QED
  BY <1>1, <1>2, <1>3, <1>5, <1>6, <1>8 DEF ServerInv, ev

LEMMA ServerAppliesKeeps ==
  ASSUME BrowserInv, NEW u \in Update, ServerApplies(u)
  PROVE  BrowserInv'
<1> DEFINE ev == Numbered(u)
<1>1. /\ ServerInv' /\ log \in Seq(Classified) /\ ev \in Classified
      /\ log' = Append(log, ev) /\ ev \in Told(log')
  BY ServerApplied DEF BrowserInv, ServerApplies
<1>2. Len(log) \in Nat /\ Len(log') = Len(log) + 1
  BY <1>1, LenProperties, AppendProperties
<1>3. UNCHANGED <<backlog, send, snap, vNodes, vLinks, base, got>>
      /\ bcast' \in {bcast, Append(bcast, ev)}
  BY DEF ServerApplies, view
<1> HIDE DEF ev
<1>4. QueuesInv'
  <2>1. Told(log) \subseteq Told(log')
    <3>1. 0 \in 0 .. Len(log)
      BY <1>2
    <3> QED
      BY <1>1, <3>1, PrefixKept
  <2>2. bcast' \in Seq(Told(log'))
    <3> DEFINE T == Told(log')
    <3>1. bcast \in Seq(T) /\ ev \in T
      BY <1>1, <2>1, SeqMonotonic DEF BrowserInv, QueuesInv
    <3> HIDE DEF T
    <3>2. Append(bcast, ev) \in Seq(T)
      BY <3>1, AppendProperties
    <3> QED
      BY <1>3, <3>1, <3>2 DEF T
  <2>3. QueueIsTold(backlog, log') /\ QueueIsTold(send, log')
    BY <1>1, QueueKept DEF BrowserInv, QueuesInv
  <2> QED
    BY <1>3, <2>2, <2>3 DEF QueuesInv
<1>5. SnapInv'
  <2>1. ASSUME NEW s \in snap
        PROVE  /\ s.at \in 0 .. Len(log')
               /\ SubSeq(log', 1, s.at) = SubSeq(log, 1, s.at)
    BY <1>1, <1>2, PrefixKept DEF BrowserInv, SnapInv
  <2> QED
    BY <1>3, <2>1 DEF BrowserInv, SnapInv
<1>6. PageInv'
  <2>1. /\ ShownFrom(log', base, got) = ShownFrom(log, base, got)
        /\ base \in 0 .. Len(log') /\ got \in Seq(1 .. Len(log'))
    BY <1>1, ShownKept DEF BrowserInv, PageInv
  <2> QED
    BY <1>3, <2>1 DEF BrowserInv, PageInv
<1> QED
  BY <1>1, <1>4, <1>5, <1>6 DEF BrowserInv

\* What the steps that leave the server alone keep of the invariant.
LEMMA ServerKept ==
  ASSUME BrowserInv, UNCHANGED server
  PROVE  ServerInv' /\ log' = log
<1>1. UNCHANGED vars
  BY DEF server, vars
<1>2. UNCHANGED <<nodes, edges, log>>
  BY DEF server
<1>3. GraphInv' /\ EdgesAreTheHistory'
  BY <1>1, NextInv, EdgesStep DEF BrowserInv, ServerInv
<1> QED
  BY <1>2, <1>3 DEF BrowserInv, ServerInv

LEMMA FramesMoveKeeps == BrowserInv /\ (ForwardEvent \/ ForwardStats \/ FanOut) => BrowserInv'
<1> SUFFICES ASSUME BrowserInv, ForwardEvent \/ ForwardStats \/ FanOut PROVE BrowserInv'
  OBVIOUS
<1>1. UNCHANGED <<server, snap, vNodes, vLinks, base, got>>
  BY DEF ForwardEvent, ForwardStats, FanOut, view
<1>2. ServerInv' /\ log' = log
  BY <1>1, ServerKept
<1>3. SnapInv' /\ PageInv'
  BY <1>1, <1>2 DEF BrowserInv, SnapInv, PageInv
<1>4. ASSUME NEW f, FrameIsTold(f, log), Queued(f) PROVE QueueIsTold(backlog', log)
  BY <1>4, QueueMoves DEF Queued, BrowserInv, QueuesInv
<1>5. CASE ForwardEvent
  <2> DEFINE f == [type |-> "event", ev |-> Head(bcast)]
             T == Told(log)
  <2>1. Queued(f) /\ bcast # <<>> /\ bcast' = Tail(bcast) /\ send' = send
    BY <1>5 DEF ForwardEvent
  <2>2. Head(bcast) \in T /\ Tail(bcast) \in Seq(T)
    <3>1. bcast \in Seq(T)
      BY DEF BrowserInv, QueuesInv
    <3> HIDE DEF T
    <3> QED
      BY <2>1, <3>1, HeadTailProperties
  <2>3. FrameIsTold(f, log)
    BY <2>2 DEF FrameIsTold
  <2> HIDE DEF f
  <2>4. QueueIsTold(backlog', log)
    BY <1>4, <2>1, <2>3
  <2> QED
    BY <1>2, <1>3, <2>1, <2>2, <2>4 DEF BrowserInv, QueuesInv
<1>6. CASE ForwardStats
  <2> DEFINE f == [type |-> "stats", cards |-> Cards]
  <2>1. Queued(f) /\ bcast' = bcast /\ send' = send
    BY <1>6 DEF ForwardStats
  <2>2. FrameIsTold(f, log)
    BY DEF FrameIsTold
  <2> HIDE DEF f
  <2>3. QueueIsTold(backlog', log)
    BY <1>4, <2>1, <2>2
  <2> QED
    BY <1>2, <1>3, <2>1, <2>3 DEF BrowserInv, QueuesInv
<1>7. CASE FanOut
  <2>1. /\ backlog # <<>> /\ backlog' = Tail(backlog) /\ bcast' = bcast
        /\ send' \in {send, Append(send, Head(backlog)), Append(Tail(send), Head(backlog))}
        /\ send = <<>> => send' \in {send, Append(send, Head(backlog))}
    <3>1. send = <<>> => Len(send) < SendBuf
      BY BrowserAssumption
    <3> QED
      BY <1>7, <3>1 DEF FanOut
  <2>2. QueueIsTold(backlog', log) /\ FrameIsTold(Head(backlog), log)
    BY <2>1, QueueMoves DEF BrowserInv, QueuesInv
  <2>3. QueueIsTold(send, log) /\ QueueIsTold(Append(send, Head(backlog)), log)
    BY <2>2, QueueMoves DEF BrowserInv, QueuesInv
  <2>4. send # <<>> => QueueIsTold(Append(Tail(send), Head(backlog)), log)
    <3> SUFFICES ASSUME send # <<>> PROVE QueueIsTold(Append(Tail(send), Head(backlog)), log)
      OBVIOUS
    <3>1. QueueIsTold(Tail(send), log)
      BY <2>3, QueueMoves
    <3> QED
      BY <2>2, <3>1, QueueMoves
  <2> QED
    BY <1>2, <1>3, <2>1, <2>2, <2>3, <2>4 DEF BrowserInv, QueuesInv
<1> QED
  BY <1>5, <1>6, <1>7

\* The snapshot says of every link what the history says, and has every node.
LEMMA SnapshotIsTheHistory ==
  ASSUME ServerInv
  PROVE  /\ Snapshot.at \in 0 .. Len(log)
         /\ LinksAre(Snapshot.edges, SubSeq(log, 1, Snapshot.at))
         /\ SeenIn(SubSeq(log, 1, Snapshot.at)) \subseteq DOMAIN Snapshot.nodes
<1> DEFINE D == [e \in DOMAIN edges |->
                   [rel |-> edges[e].rel, status |-> edges[e].status, count |-> edges[e].count,
                    leaks |-> edges[e].leaks, hijacks |-> edges[e].hijacks]]
<1>1. log \in Seq(Classified) /\ Len(log) \in Nat
  BY LogIsClassified DEF ServerInv, GraphInv
<1>2. Snapshot.at = Len(log) /\ Snapshot.edges = D /\ DOMAIN Snapshot.nodes = DOMAIN nodes
  BY DEF Snapshot
<1>3. SubSeq(log, 1, Len(log)) = log
  <2>1. Len(log) \in 0 .. Len(log)
    BY <1>1
  <2> QED
    BY <1>1, <2>1, PrefixOf
<1>4. DOMAIN edges = CrossedEdges(log)
  <2>1. \A e \in DOMAIN edges : e \in ASN \X ASN /\ e[1] # e[2]
    BY DEF ServerInv, GraphInv, TypeOK, EdgesClosed
  <2> QED
    BY <2>1 DEF ServerInv, EdgesAreTheHistory, CrossedEdges
<1>5. ASSUME NEW e \in DOMAIN D PROVE D[e] \in Link /\ LinkIsTheHistory(D[e], e, log)
  <2>1. /\ D[e].rel = edges[e].rel /\ D[e].status = edges[e].status
        /\ D[e].count = edges[e].count /\ D[e].leaks = edges[e].leaks
        /\ D[e].hijacks = edges[e].hijacks
    OBVIOUS
  <2>2. edges[e] \in Edge
    BY DEF ServerInv, GraphInv, TypeOK
  <2>3. D[e] \in Link
    BY <2>2 DEF Edge, Link
  <2>4. /\ EdgeSums(edges[e], e, log) /\ EdgeLatest(edges[e], e, log) /\ edges[e].rel = RelOf[e]
    BY DEF ServerInv, EdgesAreTheHistory
  <2> HIDE DEF D
  <2>5. LinkIsTheHistory(D[e], e, log)
    BY <2>1, <2>4 DEF LinkIsTheHistory, EdgeSums, EdgeLatest, CountsCrossings
  <2> QED
    BY <2>3, <2>5
<1>6. LinksAre(D, log)
  BY <1>4, <1>5 DEF LinksAre
<1> HIDE DEF D
<1> DEFINE s0 == Snapshot
<1>7. s0.at = Len(log) /\ s0.edges = D /\ DOMAIN s0.nodes = DOMAIN nodes /\ Len(log) \in 0 .. Len(log)
  BY <1>1, <1>2
<1>8. DOMAIN nodes = SeenIn(log)
  BY DEF ServerInv
<1> HIDE DEF s0
<1>9. /\ s0.at \in 0 .. Len(log) /\ LinksAre(s0.edges, SubSeq(log, 1, s0.at))
      /\ SeenIn(SubSeq(log, 1, s0.at)) \subseteq DOMAIN s0.nodes
  BY <1>3, <1>6, <1>7, <1>8
<1> QED
  BY <1>9 DEF s0

LEMMA ConnectionKeeps == BrowserInv /\ (Connect \/ Register \/ ConnectionLost) => BrowserInv'
<1> SUFFICES ASSUME BrowserInv, Connect \/ Register \/ ConnectionLost PROVE BrowserInv'
  OBVIOUS
<1>1. /\ UNCHANGED <<server, bcast, backlog, vNodes, vLinks, base, got>>
      /\ send' \in {send, <<>>} /\ snap' \in {snap, {}, {Snapshot}}
  BY DEF Connect, Register, ConnectionLost, view
<1>2. ServerInv' /\ log' = log
  BY <1>1, ServerKept
<1>3. QueuesInv'
  BY <1>1, <1>2, NothingQueued DEF BrowserInv, QueuesInv
<1>4. SnapInv'
  <2> DEFINE s0 == Snapshot
  <2>1. /\ s0.at \in 0 .. Len(log)
        /\ LinksAre(s0.edges, SubSeq(log, 1, s0.at))
        /\ SeenIn(SubSeq(log, 1, s0.at)) \subseteq DOMAIN s0.nodes
    BY SnapshotIsTheHistory DEF BrowserInv
  <2>2. snap' \in {snap, {}, {s0}}
    BY <1>1
  <2> HIDE DEF s0
  <2> QED
    BY <1>2, <2>1, <2>2 DEF BrowserInv, SnapInv
<1>5. PageInv'
  BY <1>1, <1>2 DEF BrowserInv, PageInv
<1> QED
  BY <1>2, <1>3, <1>4, <1>5 DEF BrowserInv

LEMMA SnapshotShownKeeps == BrowserInv /\ ShowSnapshot => BrowserInv'
<1> SUFFICES ASSUME BrowserInv, ShowSnapshot PROVE BrowserInv'
  OBVIOUS
<1>1. PICK s \in snap : /\ vNodes' = WithCards(s.nodes, s.cards) /\ vLinks' = s.edges
                        /\ base' = s.at /\ got' = <<>> /\ snap' = {}
                        /\ UNCHANGED <<server, bcast, backlog, send>>
  BY DEF ShowSnapshot
<1>2. ServerInv' /\ log' = log
  BY <1>1, ServerKept
<1>3. QueuesInv' /\ SnapInv'
  BY <1>1, <1>2 DEF BrowserInv, QueuesInv, SnapInv
<1>4. /\ s.at \in 0 .. Len(log) /\ LinksAre(s.edges, SubSeq(log, 1, s.at))
      /\ SeenIn(SubSeq(log, 1, s.at)) \subseteq DOMAIN s.nodes
  BY DEF BrowserInv, SnapInv
<1>5. log \in Seq(Classified)
  BY LogIsClassified DEF BrowserInv, ServerInv, GraphInv
<1>6. ShownFrom(log, s.at, <<>>) = SubSeq(log, 1, s.at) /\ <<>> \in Seq(1 .. Len(log))
  BY <1>4, <1>5, ShownAtFirst
<1>7. DOMAIN s.nodes \subseteq DOMAIN vNodes'
  BY <1>1 DEF WithCards
<1>8. PageInv'
  BY <1>1, <1>2, <1>4, <1>6, <1>7 DEF PageInv
<1> QED
  BY <1>2, <1>3, <1>8 DEF BrowserInv

LEMMA EventShownKeeps == BrowserInv /\ ShowEvent => BrowserInv'
<1> SUFFICES ASSUME BrowserInv, ShowEvent PROVE BrowserInv'
  OBVIOUS
<1> DEFINE ev == Head(send).ev
           s == ShownFrom(log, base, got)
<1>1. /\ send # <<>> /\ Head(send).type = "event" /\ send' = Tail(send)
      /\ ev.kind = "announce" => DrawNodes(ev) /\ DrawLinks(ev)
      /\ ev.kind # "announce" => UNCHANGED <<vNodes, vLinks>>
      /\ got' = Append(got, ev.id)
      /\ UNCHANGED <<server, bcast, backlog, snap, base>>
  BY DEF ShowEvent
<1>2. ServerInv' /\ log' = log
  BY <1>1, ServerKept
<1>3. QueueIsTold(send', log) /\ FrameIsTold(Head(send), log)
  <2>1. QueueIsTold(send, log) /\ send # <<>> /\ send' = Tail(send)
    BY <1>1 DEF BrowserInv, QueuesInv
  <2>2. QueueIsTold(Tail(send), log) /\ FrameIsTold(Head(send), log)
    BY ONLY <2>1, QueueMoves
  <2> QED
    BY <2>1, <2>2
<1>4. QueuesInv' /\ SnapInv'
  BY <1>1, <1>2, <1>3 DEF BrowserInv, QueuesInv, SnapInv
<1>5. ev.id \in 1 .. Len(log) /\ log[ev.id] = ev
  BY <1>1, <1>3 DEF FrameIsTold, Told
<1>6. /\ log \in Seq(Classified) /\ base \in 0 .. Len(log) /\ got \in Seq(1 .. Len(log))
      /\ ev \in Events
  BY <1>5, LogIsClassified DEF BrowserInv, ServerInv, GraphInv, PageInv
<1> HIDE DEF ev
<1>7. ev \in Classified /\ Annotated(ev) /\ ev.origin \in OnPath(ev) \cup {NoAS}
  BY <1>6, EventIsAnnotated
<1>8. /\ ShownFrom(log, base, got') = Append(s, ev) /\ got' \in Seq(1 .. Len(log))
      /\ s \in Seq(Classified)
  <2>1. /\ ShownFrom(log, base, Append(got, ev.id)) = Append(s, log[ev.id])
        /\ Append(got, ev.id) \in Seq(1 .. Len(log))
    BY <1>5, <1>6, ShownExtended
  <2>2. s \in Seq(Classified)
    BY <1>6, ShownIs
  <2> QED
    BY <1>1, <1>5, <2>1, <2>2
<1>9. LinksAre(vLinks, s) /\ SeenIn(s) \subseteq DOMAIN vNodes
  BY DEF BrowserInv, PageInv
<1> HIDE DEF s
<1>10. LinksAre(vLinks', Append(s, ev)) /\ SeenIn(Append(s, ev)) \subseteq DOMAIN vNodes'
  <2>1. SeenIn(Append(s, ev)) = SeenIn(s) \cup SeenBy(ev)
    BY <1>7, <1>8, SeenExtended
  <2>2. CASE Announced(ev)
    <3>1. DrawNodes(ev) /\ DrawLinks(ev)
      BY <1>1, <2>2 DEF Announced
    <3>2. LinksAre(vLinks', Append(s, ev))
      BY <1>7, <1>8, <1>9, <2>2, <3>1, LinksDrawn
    <3>3. Endpoints(ev.path) \subseteq OnPath(ev)
      <4>1. ev.path \in Seq(ASN)
        BY <1>7 DEF Classified
      <4>2. Len(ev.path) \in Nat /\ DOMAIN ev.path = 1 .. Len(ev.path)
        BY <4>1, LenProperties
      <4>3. \A k \in Steps(ev.path) : k \in DOMAIN ev.path /\ k + 1 \in DOMAIN ev.path
        BY <4>2 DEF Steps
      <4> QED
        BY <4>3 DEF Endpoints, OnPath
    <3>4. DOMAIN vNodes' = DOMAIN vNodes \cup OnPath(ev)
      BY <3>1 DEF DrawNodes
    <3> QED
      BY <1>7, <1>9, <2>1, <3>2, <3>3, <3>4 DEF SeenBy
  <2>3. CASE ~Announced(ev)
    <3>1. UNCHANGED <<vNodes, vLinks>> /\ SeenBy(ev) = {}
      BY <1>1, <2>3 DEF Announced, SeenBy
    <3>2. LinksAre(vLinks, Append(s, ev))
      BY <1>7, <1>8, <1>9, <2>3, LinksKept
    <3> QED
      BY <1>9, <2>1, <3>1, <3>2
  <2> QED
    BY <2>2, <2>3
<1>11. PageInv'
  BY <1>1, <1>2, <1>6, <1>8, <1>10 DEF PageInv
<1> QED
  BY <1>2, <1>4, <1>11 DEF BrowserInv

LEMMA StatsShownKeeps == BrowserInv /\ ShowStats => BrowserInv'
<1> SUFFICES ASSUME BrowserInv, ShowStats PROVE BrowserInv'
  OBVIOUS
<1>1. /\ send # <<>> /\ send' = Tail(send) /\ vNodes' = WithCards(vNodes, Head(send).cards)
      /\ UNCHANGED <<server, bcast, backlog, snap, vLinks, base, got>>
  BY DEF ShowStats
<1>2. ServerInv' /\ log' = log
  BY <1>1, ServerKept
<1>3. QueueIsTold(send', log)
  BY <1>1, QueueMoves DEF BrowserInv, QueuesInv
<1>4. DOMAIN vNodes \subseteq DOMAIN vNodes'
  BY <1>1 DEF WithCards
<1>5. QueuesInv' /\ SnapInv' /\ PageInv'
  BY <1>1, <1>2, <1>3, <1>4 DEF BrowserInv, QueuesInv, SnapInv, PageInv
<1> QED
  BY <1>2, <1>5 DEF BrowserInv

LEMMA BrowserNextInv == BrowserInv /\ [BrowserNext]_allVars => BrowserInv'
<1> SUFFICES ASSUME BrowserInv, [BrowserNext]_allVars PROVE BrowserInv'
  OBVIOUS
<1>1. CASE UNCHANGED allVars
  <2>1. UNCHANGED <<server, bcast, backlog, send, snap, vNodes, vLinks, base, got>>
    BY <1>1 DEF allVars, view
  <2>2. ServerInv' /\ log' = log
    BY <2>1, ServerKept
  <2> QED
    BY <2>1, <2>2 DEF BrowserInv, QueuesInv, SnapInv, PageInv
<1> QED
  BY <1>1, ServerAppliesKeeps, FramesMoveKeeps, ConnectionKeeps, SnapshotShownKeeps,
     EventShownKeeps, StatsShownKeeps DEF BrowserNext

LEMMA BrowserInvAlways == BrowserSpec => []BrowserInv
  BY BrowserInitInv, BrowserNextInv, PTL DEF BrowserSpec

(***************************************************************************)
(* Whatever is dropped on the way, in whatever order snapshots, frames and *)
(* reconnects fall, the page draws the snapshot's events and the frames    *)
(* shown since, every one as often as it was shown, and no other           *)
(* (graphStore.ts: applyEvent, applyTopology; useWebSocket.ts:             *)
(* dispatchFrame).                                                         *)
(***************************************************************************)
THEOREM PageAlwaysSnapshotPlusFrames == BrowserSpec => []ViewIsSnapshotPlusFrames
  BY BrowserInvAlways, InvShows, PTL

(***************************************************************************)
(* The frames queued between the snapshot and the registration are shown a *)
(* second time, older ones after newer ones; once the page is shown the    *)
(* last event, having missed none, it agrees with the server all the same  *)
(* (hub.go: Handler; aggregator.go: broadcast; graphStore.ts).             *)
(***************************************************************************)
THEOREM CaughtUpAlwaysAgrees == BrowserSpec => []CaughtUpAgrees
  BY BrowserInvAlways, CaughtUp, PTL
-----------------------------------------------------------------------------
(* Ranks                                                                   *)

(***************************************************************************)
(* In a finite set with a strict total order R, the elements before an     *)
(* element number it: no two have as many, and every number has one.       *)
(***************************************************************************)
LEMMA Ranks ==
  ASSUME NEW S, IsFiniteSet(S), NEW R,
         \A a \in S : <<a, a>> \notin R,
         \A a, b \in S : a = b \/ <<a, b>> \in R \/ <<b, a>> \in R,
         \A a, b, c \in S : <<a, b>> \in R /\ <<b, c>> \in R => <<a, c>> \in R
  PROVE  /\ Cardinality(S) \in Nat
         /\ \A a \in S : Cardinality({c \in S : <<c, a>> \in R}) \in 0 .. Cardinality(S) - 1
         /\ \A a, b \in S : <<a, b>> \in R <=>
              Cardinality({c \in S : <<c, a>> \in R}) < Cardinality({c \in S : <<c, b>> \in R})
         /\ \A k \in 1 .. Cardinality(S) :
              \E a \in S : Cardinality({c \in S : <<c, a>> \in R}) = k - 1
<1> DEFINE Before(a) == {b \in S : <<b, a>> \in R}
           n == Cardinality(S)
           rank == [a \in S |-> Cardinality(Before(a))]
<1>1. n \in Nat
  BY FS_CardinalityType
<1>2. \A a \in S : /\ IsFiniteSet(Before(a)) /\ Cardinality(Before(a)) \in Nat
                   /\ Cardinality(Before(a)) < n
  <2> TAKE a \in S
  <2>1. IsFiniteSet(S \ {a}) /\ Cardinality(S \ {a}) = n - 1
    BY FS_RemoveElement
  <2>2. Before(a) \in SUBSET (S \ {a})
    OBVIOUS
  <2> DEFINE B == Before(a)
  <2> HIDE DEF B
  <2>3. IsFiniteSet(B) /\ Cardinality(B) <= Cardinality(S \ {a})
    BY <2>1, <2>2, FS_Subset DEF B
  <2>4. Cardinality(B) \in Nat
    BY <2>3, FS_CardinalityType
  <2> QED
    BY <1>1, <2>1, <2>3, <2>4 DEF B
<1>3. \A a, b \in S : <<a, b>> \in R => rank[a] < rank[b]
  <2> SUFFICES ASSUME NEW a \in S, NEW b \in S, <<a, b>> \in R
               PROVE  Cardinality(Before(a)) < Cardinality(Before(b))
    OBVIOUS
  <2> DEFINE A == Before(a)
             B == Before(b)
  <2>1. A \cup {a} \in SUBSET B /\ a \notin A
    OBVIOUS
  <2>2. IsFiniteSet(A) /\ IsFiniteSet(B) /\ Cardinality(A) \in Nat /\ Cardinality(B) \in Nat
    BY <1>2
  <2> HIDE DEF A, B
  <2>3. Cardinality(A \cup {a}) = Cardinality(A) + 1
    BY <2>1, <2>2, FS_AddElement
  <2>4. Cardinality(A \cup {a}) <= Cardinality(B)
    BY <2>1, <2>2, FS_Subset
  <2> QED
    BY <2>2, <2>3, <2>4 DEF A, B
<1>4. rank \in [S -> 0 .. n - 1] /\ \A a \in S : rank[a] \in Nat
  <2>1. \A a \in S : rank[a] \in 0 .. n - 1
    BY <1>1, <1>2
  <2> QED
    BY <2>1
<1>5. \A a \in S : rank[a] = Cardinality({b \in S : <<b, a>> \in R})
  OBVIOUS
<1> HIDE DEF rank, n
<1>6. \A a, b \in S : /\ rank[a] < rank[b] <=> <<a, b>> \in R
                      /\ rank[a] = rank[b] => a = b
  <2> SUFFICES ASSUME NEW a \in S, NEW b \in S
               PROVE  /\ rank[a] < rank[b] <=> <<a, b>> \in R
                      /\ rank[a] = rank[b] => a = b
    OBVIOUS
  <2>1. a = b \/ <<a, b>> \in R \/ <<b, a>> \in R
    OBVIOUS
  <2>2. (<<a, b>> \in R => rank[a] < rank[b]) /\ (<<b, a>> \in R => rank[b] < rank[a])
    BY <1>3
  <2>3. rank[a] \in Nat /\ rank[b] \in Nat
    BY <1>4
  <2> QED
    BY <2>1, <2>2, <2>3
<1>7. \A k \in 1 .. n : \E a \in S : rank[a] = k - 1
  <2>1. rank \in Injection(S, 0 .. n - 1)
    BY <1>4, <1>6 DEF Injection, IsInjective
  <2>2. IsFiniteSet(0 .. n - 1) /\ Cardinality(0 .. n - 1) = n
    BY <1>1, FS_Interval
  <2>3. rank \in Surjection(S, 0 .. n - 1)
    BY <2>1, <2>2, FS_Injection DEF n
  <2>4. \A k \in 1 .. n : k - 1 \in 0 .. n - 1
    BY <1>1
  <2> QED
    BY <2>3, <2>4 DEF Surjection
<1> DEFINE C(a) == Cardinality({c \in S : <<c, a>> \in R})
<1>8. \A a \in S : C(a) = rank[a]
  BY <1>5
<1> HIDE DEF C
<1>9. /\ \A a \in S : C(a) \in 0 .. n - 1
      /\ \A a, b \in S : <<a, b>> \in R <=> C(a) < C(b)
      /\ \A k \in 1 .. n : \E a \in S : C(a) = k - 1
  BY <1>4, <1>6, <1>7, <1>8
<1> QED
  BY <1>1, <1>9 DEF n, C

\* Counted from the other end, a set of positions is as large.
LEMMA Mirrored ==
  ASSUME NEW n \in Nat, NEW H \in SUBSET (1 .. n)
  PROVE  IsFiniteSet(H) /\ Cardinality({n + 1 - j : j \in H}) = Cardinality(H)
<1> DEFINE M == {n + 1 - j : j \in H}
           f == [j \in H |-> n + 1 - j]
<1>1. IsFiniteSet(H)
  <2>1. IsFiniteSet(1 .. n)
    BY FS_Interval
  <2> QED
    BY <2>1, FS_Subset
<1>2. f \in [H -> M] /\ \A m \in M : \E j \in H : f[j] = m
  OBVIOUS
<1>3. \A i, j \in H : f[i] = f[j] => i = j
  OBVIOUS
<1> HIDE DEF f, M
<1>4. ExistsBijection(H, M)
  BY <1>2, <1>3 DEF ExistsBijection, Bijection, Injection, Surjection, IsInjective
<1> QED
  BY <1>1, <1>4, FS_Bijection DEF M


-----------------------------------------------------------------------------
(* The ring against the history                                            *)

LEMMA SameRing ==
  /\ RingProofs!Recent(0) = Ring!Recent(0) /\ RingProofs!Cap = Ring!Cap
  /\ RingProofs!Recent(0)' = Ring!Recent(0)'
  /\ RingProofs!TypeOK <=> Ring!TypeOK
  /\ RingProofs!TypeOK' <=> Ring!TypeOK'
  BY DEF RingProofs!Recent, Ring!Recent, RingProofs!Slot, Ring!Slot, RingProofs!Cap, Ring!Cap,
         RingProofs!TypeOK, Ring!TypeOK

\* What a push leaves of the ring, read backwards.
LEMMA RingPushed ==
  ASSUME TypeOK, TypeOK', NEW ev \in Events, Ring!Push(ev)
  PROVE  LET n == IF size < Ring!Cap THEN size + 1 ELSE size
         IN  /\ size \in Nat /\ Ring!Cap \in Nat \ {0} /\ size <= Ring!Cap /\ size' = n
             /\ Ring!Recent(0)' =
                  [k \in 1 .. n |-> IF k = 1 THEN ev ELSE Ring!Recent(0)[k - 1]]
<1>1. RingProofs!TypeOK /\ RingProofs!TypeOK' /\ RingProofs!Push(ev)
  BY SameRing DEF TypeOK, Ring!Push, RingProofs!Push, Ring!Cap, RingProofs!Cap
<1>2. RingProofs!Log!Push(ev) /\ Len(RingProofs!Recent(0)) = size
  BY <1>1, RingHasItsParameters, RingProofs!PushRefines, RingProofs!RecentShape
<1>3. Ring!Cap \in Nat \ {0}
  BY SameRing, RingHasItsParameters, RingProofs!CapPositive
<1>4. size \in 0 .. Ring!Cap
  BY DEF TypeOK, Ring!TypeOK
<1>5. size' = IF size < Ring!Cap THEN size + 1 ELSE size
  BY DEF Ring!Push
<1>6. Ring!Recent(0)' = [k \in 1 .. (IF size < Ring!Cap THEN size + 1 ELSE Ring!Cap) |->
                           IF k = 1 THEN ev ELSE Ring!Recent(0)[k - 1]]
  BY <1>2, SameRing DEF RingProofs!Log!Push
<1>7. (IF size < Ring!Cap THEN size + 1 ELSE Ring!Cap) = IF size < Ring!Cap THEN size + 1 ELSE size
  BY <1>3, <1>4
<1> QED
  BY <1>3, <1>4, <1>5, <1>6, <1>7

(***************************************************************************)
(* The ring holds the end of the history, every update under its number.   *)
(***************************************************************************)
RecentInv ==
  /\ \A i \in Ids : log[i].id = i
  /\ size = LesserOf(Len(log), Ring!Cap)
  /\ \A k \in 1 .. size : Ring!Recent(0)[k] = log[Len(log) + 1 - k]

LEMMA RecentInit == Init => RecentInv
<1> SUFFICES ASSUME Init PROVE RecentInv
  OBVIOUS
<1>1. log = <<>> /\ size = 0 /\ Len(log) = 0
  BY DEF Init, Ring!Init
<1>2. Ring!Cap \in Nat \ {0}
  BY SameRing, RingHasItsParameters, RingProofs!CapPositive
<1> QED
  BY <1>1, <1>2 DEF RecentInv, Ids, LesserOf

LEMMA RecentStep == GraphInv /\ GraphInv' /\ RecentInv /\ [Next]_vars => RecentInv'
<1> SUFFICES ASSUME GraphInv, GraphInv', RecentInv, [Next]_vars PROVE RecentInv'
  OBVIOUS
<1>1. ASSUME Len(log) < MaxEvents, NEW u \in Update, Apply(Numbered(u)) PROVE RecentInv'
  <2> DEFINE ev == Numbered(u)
             n == Len(log)
             c == Ring!Cap
             r == Ring!Recent(0)
  <2>1. ev \in Events /\ ev.id = n + 1 /\ log \in Seq(Events)
    BY <1>1, NumberedEvent, NumberedAnnotated, LogIsClassified DEF GraphInv, TypeOK
  <2>2. log' = Append(log, ev) /\ Ring!Push(ev)
    BY <1>1 DEF Apply, AnnounceTracked, AnnounceUntracked, Withdraw, Store
  <2> HIDE DEF ev
  <2>3. /\ n \in Nat /\ Len(log') = n + 1 /\ log'[n + 1] = ev
        /\ 1 .. Len(log') = (1 .. n) \cup {n + 1} /\ \A i \in 1 .. n : log'[i] = log[i]
    BY <2>1, <2>2, Appended
  <2>4. \A i \in 1 .. Len(log') : log'[i].id = i
    BY <2>1, <2>3 DEF RecentInv, Ids
  <2>5. /\ size \in Nat /\ c \in Nat \ {0} /\ size <= c
        /\ size' = IF size < c THEN size + 1 ELSE size
        /\ r' = [k \in 1 .. (IF size < c THEN size + 1 ELSE size) |-> IF k = 1 THEN ev ELSE r[k - 1]]
    BY <2>1, <2>2, RingPushed DEF GraphInv
  <2>6. size = IF n < c THEN n ELSE c
    BY DEF RecentInv, LesserOf
  <2>7. \A k \in 1 .. size : r[k] = log[n + 1 - k]
    BY DEF RecentInv
  <2>8. c' = c /\ Len(log)' = Len(log')
    BY DEF Ring!Cap
  <2> HIDE DEF n, c, r
  <2>9. size' = IF n + 1 < c THEN n + 1 ELSE c
    BY <2>3, <2>5, <2>6
  <2>10. ASSUME NEW k \in 1 .. size' PROVE r'[k] = log'[n + 2 - k]
    <3>1. r'[k] = IF k = 1 THEN ev ELSE r[k - 1]
      BY <2>5
    <3>2. CASE k = 1
      BY <2>3, <3>1, <3>2
    <3>3. CASE k # 1
      <4>1. k - 1 \in 1 .. size /\ n + 1 - (k - 1) = n + 2 - k /\ n + 2 - k \in 1 .. n
        BY <2>3, <2>5, <2>6, <3>3
      <4> QED
        BY <2>3, <2>7, <3>1, <3>3, <4>1
    <3> QED
      BY <3>2, <3>3
  <2>11. \A k \in 1 .. size' : r'[k] = log'[Len(log') + 1 - k]
    <3>1. \A k \in 1 .. size' : Len(log') + 1 - k = n + 2 - k
      BY <2>3, <2>5
    <3> QED
      BY <2>10, <3>1
  <2> QED
    BY <2>3, <2>4, <2>8, <2>9, <2>11 DEF RecentInv, Ids, LesserOf, c, r, n
<1>2. CASE Tick \/ UNCHANGED vars
  <2>1. log' = log /\ size' = size /\ buf' = buf /\ head' = head
    BY <1>2 DEF Tick, vars
  <2> QED
    BY <2>1 DEF RecentInv, Ids, Ring!Recent, Ring!Slot, Ring!Cap
<1> QED
  BY <1>1, <1>2 DEF Next


-----------------------------------------------------------------------------
(* Answers                                                                 *)

LEMMA LimitParsed ==
  ASSUME NEW q \in Int, NEW d \in 1 .. MaxEventsLimit
  PROVE  /\ ParseLimit(q, d) \in 1 .. MaxEventsLimit
         /\ q \in 1 .. MaxEventsLimit => ParseLimit(q, d) = q
  BY RestAssumption DEF ParseLimit, Absent

\* Positions of the ring and updates are counted from opposite ends.
LEMMA KeptAreInTheRing ==
  ASSUME GraphInv, RecentInv
  PROVE  /\ Len(log) \in Nat /\ size \in 0 .. Len(log) /\ Ring!Cap \in Nat \ {0}
         /\ Kept = {Len(log) + 1 - j : j \in 1 .. size}
<1>1. Len(log) \in Nat
  BY LogIsClassified DEF GraphInv
<1>2. Ring!Cap \in Nat \ {0}
  BY SameRing, RingHasItsParameters, RingProofs!CapPositive
<1>3. size = IF Len(log) < Ring!Cap THEN Len(log) ELSE Ring!Cap
  BY DEF RecentInv, LesserOf
<1> DEFINE n == Len(log)
           c == Ring!Cap
<1>4. n \in Nat /\ c \in Nat \ {0} /\ size = IF n < c THEN n ELSE c
  BY <1>1, <1>2, <1>3
<1>5. Kept = {i \in 1 .. n : i > n - c}
  BY DEF Kept, Ids
<1> HIDE DEF n, c
<1>6. ASSUME NEW i \in 1 .. n, i > n - c PROVE \E j \in 1 .. size : i = n + 1 - j
  <2>1. n + 1 - i \in 1 .. size /\ i = n + 1 - (n + 1 - i)
    BY <1>4, <1>6
  <2> QED
    BY <2>1
<1>7. ASSUME NEW j \in 1 .. size PROVE n + 1 - j \in 1 .. n /\ n + 1 - j > n - c
  BY <1>4
<1>8. Kept = {n + 1 - j : j \in 1 .. size}
  BY <1>5, <1>6, <1>7
<1> QED
  BY <1>4, <1>8 DEF n, c

\* The first m of some positions of the ring, in order, are the newest m of the
\* updates there.
LEMMA NewestFirst ==
  ASSUME GraphInv, RecentInv, NEW q, NEW limit \in 1 .. MaxEventsLimit,
         q \in 1 .. MaxEventsLimit => limit = q,
         NEW H \in SUBSET (1 .. size), NEW m, m = LesserOf(limit, Cardinality(H)),
         NEW at \in [1 .. m -> H],
         \A k \in 1 .. m : Cardinality({j \in H : j < at[k]}) = k - 1
  PROVE  AnswersWith([k \in 1 .. m |-> log[Len(log) + 1 - at[k]]],
                     {Len(log) + 1 - j : j \in H}, q)
<1> DEFINE n == Len(log)
           S == {n + 1 - j : j \in H}
           g == [k \in 1 .. m |-> log[n + 1 - at[k]]]
<1>1. n \in Nat /\ size \in 0 .. n
  BY KeptAreInTheRing
<1>2. H \in SUBSET (1 .. n)
  BY <1>1
<1>3. IsFiniteSet(H) /\ Cardinality(S) = Cardinality(H) /\ Cardinality(H) \in Nat
      /\ (Cardinality(H) = 0 <=> H = {})
  <2> HIDE DEF n
  <2> QED
    BY <1>1, <1>2, Mirrored, FS_CardinalityType, FS_EmptySet
<1>4. m \in Nat /\ m <= limit /\ limit \in Nat /\ limit <= MaxEventsLimit /\ limit >= 1
  BY <1>3, RestAssumption DEF LesserOf
<1>5. Len(g) = m
  BY <1>4
<1>6. S # {} => g # <<>>
  <2>1. S # {} => H # {}
    OBVIOUS
  <2>2. H # {} => m # 0
    <3> DEFINE c == Cardinality(H)
    <3>1. m = (IF limit < c THEN limit ELSE c) /\ (H # {} => c # 0)
      BY <1>3 DEF LesserOf
    <3> HIDE DEF c
    <3> QED
      BY <1>4, <3>1
  <2>3. Len(<<>>) = 0
    OBVIOUS
  <2> HIDE DEF g, S
  <2> QED
    BY <1>5, <2>1, <2>2, <2>3
<1>7. ASSUME NEW k \in 1 .. m
      PROVE  /\ g[k].id \in S /\ g[k] = log[g[k].id]
             /\ Cardinality({i \in S : i > g[k].id}) = k - 1
  <2> DEFINE p == at[k]
             B == {j \in H : j < p}
  <2>1. p \in H /\ p \in 1 .. n /\ n + 1 - p \in 1 .. n
    <3>1. p \in H /\ p \in 1 .. n
      BY <1>2
    <3> HIDE DEF n, p
    <3> QED
      BY <1>1, <3>1
  <2>2. g[k] = log[n + 1 - p] /\ log[n + 1 - p].id = n + 1 - p
    BY <2>1 DEF RecentInv, Ids
  <2>3. {i \in S : i > n + 1 - p} = {n + 1 - j : j \in B}
    <3> HIDE DEF n, p
    <3>1. \A j \in H : j \in Nat /\ (n + 1 - j > n + 1 - p <=> j < p)
      BY <1>1, <1>2, <2>1
    <3> QED
      BY <3>1
  <2>4. B \in SUBSET (1 .. n)
    BY <1>2
  <2>5. Cardinality({n + 1 - j : j \in B}) = Cardinality(B)
    <3> HIDE DEF n, B
    <3> QED
      BY <1>1, <2>4, Mirrored
  <2>6. Cardinality(B) = k - 1
    OBVIOUS
  <2>7. n + 1 - p \in S
    BY <2>1
  <2> HIDE DEF n, p, B, S, g
  <2> QED
    BY <2>2, <2>3, <2>5, <2>6, <2>7
<1>8. q \in 1 .. MaxEventsLimit => Len(g) = LesserOf(q, Cardinality(S))
  BY <1>3, <1>5
<1>9. Len(g) <= MaxEventsLimit
  BY <1>4, <1>5, RestAssumption
<1>10. AnswersWith(g, S, q)
  <2> HIDE DEF g, S, n
  <2> QED
    BY <1>5, <1>6, <1>7, <1>8, <1>9 DEF AnswersWith
<1> QED
  BY <1>10

\* /api/events.
LEMMA EventsAreAnswered ==
  ASSUME GraphInv, RecentInv
  PROVE  EventsAnswered
<1> SUFFICES ASSUME NEW q \in Limits
             PROVE  /\ q = Junk <=> HandleEvents(q).status = 400
                    /\ q # Junk => AnswersWith(HandleEvents(q).events, Kept, q)
  BY DEF EventsAnswered
<1>1. CASE q = Junk
  BY <1>1 DEF HandleEvents, Refused
<1>2. CASE q # Junk
  <2> DEFINE limit == ParseLimit(q, DefaultEventsLimit)
             H == 1 .. size
             m == LesserOf(limit, Cardinality(H))
             at == [k \in 1 .. m |-> k]
  <2>1. limit \in 1 .. MaxEventsLimit /\ (q \in 1 .. MaxEventsLimit => limit = q)
    BY LimitParsed, RestAssumption, ViewsAssumption
  <2>2. /\ Len(log) \in Nat /\ size \in 0 .. Len(log)
        /\ Kept = {Len(log) + 1 - j : j \in H}
    BY KeptAreInTheRing
  <2>3. Cardinality(H) = size
    BY <2>2, FS_Interval
  <2> HIDE DEF limit, H
  <2>4. m \in 0 .. size /\ m = IF limit < size THEN limit ELSE size
    BY <2>1, <2>2, <2>3 DEF LesserOf
  <2>5. at \in [1 .. m -> H]
    BY <2>2, <2>4 DEF H
  <2>6. ASSUME NEW k \in 1 .. m PROVE Cardinality({j \in H : j < at[k]}) = k - 1
    <3>1. {j \in H : j < k} = 1 .. k - 1 /\ k - 1 \in Nat
      BY <2>2, <2>4 DEF H
    <3>2. Cardinality(1 .. k - 1) = k - 1
      BY <3>1, FS_Interval
    <3> QED
      BY <3>1, <3>2
  <2>7. HandleEvents(q).status = 200 /\ HandleEvents(q).events = Ring!Recent(limit)
    BY <1>2 DEF HandleEvents, limit
  <2>8. Ring!Recent(limit) = [k \in 1 .. m |-> Ring!Recent(0)[k]]
    <3>1. (IF limit <= 0 \/ limit > size THEN size ELSE limit) = m
      BY <2>1, <2>2, <2>4
    <3>2. \A k \in 1 .. m : k \in 1 .. size
      BY <2>2, <2>4
    <3>3. Ring!Recent(0) = [k \in 1 .. size |-> buf[Ring!Slot(k - 1)]]
      BY DEF Ring!Recent
    <3>4. Ring!Recent(limit) = [k \in 1 .. m |-> buf[Ring!Slot(k - 1)]]
      BY <3>1 DEF Ring!Recent
    <3> HIDE DEF m
    <3> QED
      BY <3>2, <3>3, <3>4
  <2>9. Ring!Recent(limit) = [k \in 1 .. m |-> log[Len(log) + 1 - at[k]]]
    <3>1. \A k \in 1 .. m : Ring!Recent(0)[k] = log[Len(log) + 1 - k]
      BY <2>2, <2>4 DEF RecentInv
    <3> HIDE DEF m
    <3> QED
      BY <2>8, <3>1
  <2>10. H \in SUBSET (1 .. size)
    BY DEF H
  <2> DEFINE f == [k \in 1 .. m |-> log[Len(log) + 1 - at[k]]]
             S == {Len(log) + 1 - j : j \in H}
  <2>11. AnswersWith(f, S, q)
    <3>1. \A k \in 1 .. m : Cardinality({j \in H : j < at[k]}) = k - 1
      BY <2>6
    <3>2. m = LesserOf(limit, Cardinality(H))
      OBVIOUS
    <3> HIDE DEF m, at
    <3> QED
      BY ZenonT(60), <2>1, <2>5, <2>10, <3>1, <3>2, NewestFirst
  <2> HIDE DEF f, S
  <2>12. HandleEvents(q).events = f /\ Kept = S
    BY <2>2, <2>7, <2>9 DEF f, S
  <2>13. HandleEvents(q).status # 400
    BY <2>7
  <2> QED
    BY <1>2, <2>11, <2>12, <2>13
<1> QED
  BY <1>1, <1>2


\* A withdraw has no path, so an event whose path has the edge crosses it.
LEMMA CrossesWhatItsPathHas ==
  ASSUME NEW ev \in Events, NEW a, NEW b
  PROVE  Ring!PathHasEdge(ev.path, a, b) <=> CrossedAt(ev, <<a, b>>) # {}
<1>1. PICK u \in Update, k \in 1 .. MaxEvents : ev = [u EXCEPT !.id = k]
  BY DEF Events
<1>2. u \in Classified /\ ev.path = u.path /\ ev.kind = u.kind
  BY <1>1, TopologyAssumption DEF Classified
<1>3. Announced(ev) \/ ev.path = <<>>
  BY <1>2, ViewsAssumption DEF Announced, Withdrawn, Classified, UpdateKind
<1>4. Ring!PathHasEdge(ev.path, a, b) <=>
        \E i \in 1 .. Len(ev.path) - 1 : ev.path[i] = a /\ ev.path[i + 1] = b
  BY DEF Ring!PathHasEdge
<1>5. CrossedAt(ev, <<a, b>>) =
        {i \in 1 .. Len(ev.path) - 1 : Announced(ev) /\ ev.path[i] = a /\ ev.path[i + 1] = b}
  BY DEF CrossedAt
<1>6. CASE Announced(ev)
  BY <1>4, <1>5, <1>6
<1>7. CASE ev.path = <<>>
  <2>1. 1 .. Len(ev.path) - 1 = {}
    BY <1>7
  <2> QED
    BY <1>4, <1>5, <2>1
<1> QED
  BY <1>3, <1>6, <1>7

\* The ring counts as its readers do.
LEMMA SameCardinality == \A S : Ring!Cardinality(S) = Cardinality(S)
BY Zenon DEF Ring!Cardinality, Cardinality

\* The k-th of some positions is the one with k - 1 before it.
LEMMA NthPosition ==
  ASSUME NEW n \in Nat, NEW H \in SUBSET (1 .. n), NEW k \in 1 .. Cardinality(H)
  PROVE  LET p == CHOOSE i \in H : Ring!Cardinality({j \in H : j < i}) = k - 1
         IN  p \in H /\ Cardinality({j \in H : j < p}) = k - 1
<1> DEFINE R == {r \in H \X H : r[1] < r[2]}
<1>1. IsFiniteSet(H) /\ H \subseteq Nat
  <2>1. n \in Nat /\ H \in SUBSET (1 .. n)
    OBVIOUS
  <2>2. IsFiniteSet(H)
    BY ONLY <2>1, Mirrored
  <2> QED
    BY <2>1, <2>2
<1>2. \A i, j \in H : <<i, j>> \in R <=> i < j
  OBVIOUS
<1> HIDE DEF R
<1>3. \A i \in H : <<i, i>> \notin R
  BY <1>1, <1>2
<1>4. \A i, j \in H : i = j \/ <<i, j>> \in R \/ <<j, i>> \in R
  <2> TAKE i, j \in H
  <2>1. i \in Nat /\ j \in Nat
    BY <1>1
  <2>2. i = j \/ i < j \/ j < i
    BY <2>1
  <2> QED
    BY <1>2, <2>2
<1>5. \A i, j, l \in H : <<i, j>> \in R /\ <<j, l>> \in R => <<i, l>> \in R
  BY <1>1, <1>2
<1>6. \E i \in H : Cardinality({j \in H : <<j, i>> \in R}) = k - 1
  BY <1>1, <1>3, <1>4, <1>5, Ranks
<1>7. \E i \in H : Ring!Cardinality({j \in H : j < i}) = k - 1
  <2>1. PICK i \in H : Cardinality({j \in H : <<j, i>> \in R}) = k - 1
    BY <1>6
  <2>2. {j \in H : <<j, i>> \in R} = {j \in H : j < i}
    BY <1>2
  <2>3. Ring!Cardinality({j \in H : j < i}) = k - 1
    BY <2>1, <2>2, SameCardinality
  <2> QED
    BY <2>3
<1> QED
  BY <1>7, SameCardinality

\* /api/edges/{from}/{to}.
LEMMA EdgesAreAnswered ==
  ASSUME GraphInv, RecentInv, EdgesAreTheHistory
  PROVE  EdgesAnswered
<1> SUFFICES ASSUME NEW a \in ASN, NEW b \in ASN, NEW q \in Limits
             PROVE  LET r  == HandleEdge(a, b, q)
                        by == CrossedBy(log, <<a, b>>)
                    IN  IF a # b /\ by # {}
                        THEN r.status = 200 /\ AnswersWith(r.events, by \cap Kept, q)
                        ELSE r.status = 404
  BY DEF EdgesAnswered
<1> DEFINE e == <<a, b>>
           limit == IF q = Junk THEN DefaultEdgeEvents ELSE ParseLimit(q, DefaultEdgeEvents)
           evs == Ring!ByEdge(a, b, limit)
<1>1. a # Junk /\ b # Junk
  BY ViewsAssumption DEF Junk
<1>2. e \in DOMAIN edges <=> a # b /\ CrossedBy(log, e) # {}
  <2>1. e \in ASN \X ASN /\ e[1] = a /\ e[2] = b
    OBVIOUS
  <2> HIDE DEF e
  <2> QED
    BY <2>1 DEF GraphInv, EdgesClosed, EdgesAreTheHistory
<1>3. CASE e \notin DOMAIN edges
  <2>1. HandleEdge(a, b, q).status = 404
    BY <1>1, <1>3 DEF HandleEdge, EdgeDetail, Refused
  <2> QED
    BY <1>2, <1>3, <2>1
<1>4. CASE e \in DOMAIN edges
  <2>1. HandleEdge(a, b, q).status = 200 /\ HandleEdge(a, b, q).events = evs
    <3>1. EdgeDetail(a, b, limit) = [found |-> TRUE, edge |-> edges[e], events |-> evs]
      BY <1>4 DEF EdgeDetail
    <3> HIDE DEF limit
    <3> QED
      BY <1>1, <3>1 DEF HandleEdge, limit
  <2>2. limit \in 1 .. MaxEventsLimit /\ (q \in 1 .. MaxEventsLimit => limit = q)
    <3>1. q = Junk => q \notin 1 .. MaxEventsLimit
      BY DEF Junk
    <3> QED
      BY <3>1, LimitParsed, RestAssumption, ViewsAssumption
  <2> HIDE DEF limit
  <2> DEFINE n == Len(log)
             all == Ring!Recent(0)
             H == {i \in 1 .. size : Ring!PathHasEdge(all[i].path, a, b)}
             Nth(k) == CHOOSE i \in H : Ring!Cardinality({j \in H : j < i}) = k - 1
             m == LesserOf(limit, Cardinality(H))
             at == [k \in 1 .. m |-> Nth(k)]
  <2>3. n \in Nat /\ size \in 0 .. n /\ Kept = {n + 1 - j : j \in 1 .. size}
    BY KeptAreInTheRing
  <2>4. /\ \A i \in 1 .. n : log[i] \in Events
        /\ \A j \in 1 .. size : all[j] = log[n + 1 - j]
    BY LogIsClassified DEF GraphInv, RecentInv
  <2>5. evs = [k \in 1 .. m |-> all[Nth(k)]]
    <3>1. m = IF limit < Cardinality(H) THEN limit ELSE Cardinality(H)
      BY DEF LesserOf
    <3>2. evs = [k \in 1 .. (IF limit < Ring!Cardinality(H) THEN limit
                              ELSE Ring!Cardinality(H)) |-> all[Nth(k)]]
      BY ZenonT(60) DEF Ring!ByEdge
    <3> HIDE DEF evs, m, H, Nth, all
    <3>3. Ring!Cardinality(H) = Cardinality(H)
      BY SameCardinality
    <3> QED
      BY <3>1, <3>2, <3>3
  <2>6. CrossedBy(log, e) \cap Kept = {n + 1 - j : j \in H}
    <3>1. \A j \in 1 .. size : n + 1 - j \in 1 .. n
      BY <2>3
    <3>2. \A j \in 1 .. size : n + 1 - j \in CrossedBy(log, e) <=> j \in H
      <4> TAKE j \in 1 .. size
      <4>1. n + 1 - j \in CrossedBy(log, e) <=> CrossedAt(log[n + 1 - j], e) # {}
        BY <3>1 DEF CrossedBy
      <4>2. CrossedAt(log[n + 1 - j], e) # {} <=> Ring!PathHasEdge(log[n + 1 - j].path, a, b)
        BY <2>4, <3>1, CrossesWhatItsPathHas
      <4>3. j \in H <=> Ring!PathHasEdge(all[j].path, a, b)
        OBVIOUS
      <4> QED
        BY <2>4, <4>1, <4>2, <4>3
    <3>3. H \subseteq 1 .. size
      OBVIOUS
    <3> HIDE DEF e, n, H
    <3> QED
      BY <2>3, <3>2, <3>3
  <2>7. H \in SUBSET (1 .. size) /\ Cardinality(H) \in Nat
    <3>1. H \in SUBSET (1 .. size)
      OBVIOUS
    <3> HIDE DEF H
    <3>2. size \in Nat
      BY <2>3
    <3>3. IsFiniteSet(H)
      BY ONLY <3>1, <3>2, Mirrored
    <3> QED
      BY <3>1, <3>3, FS_CardinalityType
  <2>8. m \in Nat /\ m <= Cardinality(H)
    BY <2>2, <2>7, RestAssumption DEF LesserOf
  <2>9. ASSUME NEW k \in 1 .. m
        PROVE  Nth(k) \in H /\ Cardinality({j \in H : j < Nth(k)}) = k - 1
    <3> HIDE DEF H, m
    <3>1. k \in 1 .. Cardinality(H) /\ size \in Nat
      BY <2>3, <2>7, <2>8
    <3> QED
      BY <2>7, <3>1, NthPosition
  <2>10. /\ at \in [1 .. m -> H]
         /\ \A k \in 1 .. m : Cardinality({j \in H : j < at[k]}) = k - 1
    <3> HIDE DEF H, m, Nth
    <3> QED
      BY <2>9
  <2>11. evs = [k \in 1 .. m |-> log[n + 1 - at[k]]]
    <3>1. \A k \in 1 .. m : Nth(k) \in 1 .. size
      BY <2>7, <2>9
    <3> HIDE DEF H, m, Nth, all, n
    <3> QED
      BY <2>4, <2>5, <3>1
  <2>12. AnswersWith(evs, CrossedBy(log, e) \cap Kept, q)
    <3>1. m = LesserOf(limit, Cardinality(H))
      OBVIOUS
    <3> DEFINE f == [k \in 1 .. m |-> log[Len(log) + 1 - at[k]]]
               S == {Len(log) + 1 - j : j \in H}
    <3>2. AnswersWith(f, S, q)
      <4> HIDE DEF H, m, at
      <4> QED
        BY ZenonT(60), <2>2, <2>7, <2>10, <3>1, NewestFirst
    <3>3. evs = f /\ CrossedBy(log, e) \cap Kept = S
      BY <2>6, <2>11
    <3> HIDE DEF f, S, evs, e
    <3> QED
      BY <3>2, <3>3
  <2> HIDE DEF evs
  <2> QED
    BY <1>2, <1>4, <2>1, <2>12
<1> QED
  BY <1>3, <1>4


\* An AS is an end of a step exactly when it is on the path and not alone there.
LEMMA EndpointsAreNotAlone ==
  ASSUME NEW path \in Seq(ASN), NEW a
  PROVE  a \in Endpoints(path) <=> \E j, k \in DOMAIN path : path[j] = a /\ path[k] # a
<1>1. Len(path) \in Nat /\ DOMAIN path = 1 .. Len(path)
  BY LenProperties
<1>2. a \in Endpoints(path) <=> \E k \in Steps(path) : path[k] = a \/ path[k + 1] = a
  BY DEF Endpoints
<1>3. ASSUME NEW k \in Steps(path), path[k] = a \/ path[k + 1] = a
      PROVE  \E i, j \in DOMAIN path : path[i] = a /\ path[j] # a
  <2>1. k \in 1 .. Len(path) /\ k + 1 \in 1 .. Len(path) /\ path[k] # path[k + 1]
    BY <1>1 DEF Steps
  <2> QED
    BY <1>1, <1>3, <2>1
<1>4. ASSUME NEW j \in 1 .. Len(path), NEW k \in 1 .. Len(path), path[j] = a, path[k] # a
      PROVE  \E i \in Steps(path) : path[i] = a \/ path[i + 1] = a
  <2>1. CASE j < k
    <3> DEFINE T == {m \in 1 .. Len(path) : j < m /\ path[m] # a}
    <3>1. T \in SUBSET Nat /\ T # {}
      BY <1>4, <2>1
    <3>2. PICK m \in T : \A i \in T : m <= i
      <4> HIDE DEF T
      <4> QED
        BY <3>1, FirstPosition
    <3>3. m \in 1 .. Len(path) /\ j < m /\ path[m] # a /\ m - 1 \in 1 .. Len(path)
      BY <1>1
    <3>4. m - 1 \notin T
      BY <3>2, <3>3
    <3>5. path[m - 1] = a
      BY <1>4, <3>3, <3>4
    <3>6. m - 1 \in 1 .. Len(path) - 1 /\ m - 1 + 1 = m
      BY <1>1, <3>3
    <3>7. m - 1 \in Steps(path)
      BY <3>3, <3>5, <3>6 DEF Steps
    <3> QED
      BY <3>5, <3>7
  <2>2. CASE k < j
    <3> DEFINE T == {m \in 1 .. Len(path) : k < m /\ path[m] = a}
    <3>1. T \in SUBSET Nat /\ T # {}
      BY <1>4, <2>2
    <3>2. PICK m \in T : \A i \in T : m <= i
      <4> HIDE DEF T
      <4> QED
        BY <3>1, FirstPosition
    <3>3. m \in 1 .. Len(path) /\ k < m /\ path[m] = a /\ m - 1 \in 1 .. Len(path)
      BY <1>1
    <3>4. m - 1 \notin T
      BY <3>2, <3>3
    <3>5. path[m - 1] # a
      BY <1>4, <3>3, <3>4
    <3>6. m - 1 \in 1 .. Len(path) - 1 /\ m - 1 + 1 = m
      BY <1>1, <3>3
    <3>7. m - 1 \in Steps(path)
      BY <3>3, <3>5, <3>6 DEF Steps
    <3>8. path[m - 1 + 1] = a
      BY <3>3, <3>6
    <3> QED
      BY <3>7, <3>8
  <2>3. j # k
    BY <1>4
  <2> QED
    BY <1>1, <2>1, <2>2, <2>3
<1> QED
  BY <1>1, <1>2, <1>3, <1>4

\* The ASes a step puts on the graph are those that appear.
LEMMA AppearsIsSeen ==
  ASSUME NEW ev \in Classified, NEW a \in ASN
  PROVE  Appears(a, ev) <=> a \in SeenBy(ev)
<1>1. ev.path \in Seq(ASN) /\ a # NoAS
  BY TopologyAssumption DEF Classified
<1> QED
  BY <1>1, EndpointsAreNotAlone DEF Appears, SeenBy

\* /api/asns/{asn}.
LEMMA ASesAreAnswered ==
  ASSUME ServerInv
  PROVE  ASesAnswered
<1> SUFFICES ASSUME NEW a \in ASN
             PROVE  LET r == HandleASN(a)
                    IN  /\ r.status = 200 <=> \E i \in Ids : Appears(a, log[i])
                        /\ r.status = 200 => \A n \in r.neighbors : n.rel = RelOf[<<a, n.asn>>]
  BY DEF ASesAnswered
<1>1. a # Junk
  BY ViewsAssumption DEF Junk
<1>2. a \in DOMAIN nodes <=> \E i \in Ids : Appears(a, log[i])
  <2>1. a \in DOMAIN nodes <=> \E i \in 1 .. Len(log) : a \in SeenBy(log[i])
    BY DEF ServerInv, SeenIn
  <2>2. \A i \in 1 .. Len(log) : log[i] \in Classified
    BY LogIsClassified, EventsAreClassified DEF ServerInv, GraphInv
  <2> QED
    BY <2>1, <2>2, AppearsIsSeen DEF Ids
<1>3. CASE a \notin DOMAIN nodes
  <2>1. HandleASN(a).status = 404
    BY <1>1, <1>3 DEF HandleASN, Refused
  <2> QED
    BY <1>2, <1>3, <2>1
<1>4. CASE a \in DOMAIN nodes
  <2>1. HandleASN(a).status = 200 /\ HandleASN(a).neighbors = Neighbors(a)
    BY <1>1, <1>4 DEF HandleASN
  <2>2. ASSUME NEW n \in Neighbors(a) PROVE n.rel = RelOf[<<a, n.asn>>]
    <3>1. \A e \in DOMAIN edges : /\ e \in ASN \X ASN /\ e[1] # e[2] /\ e = <<e[1], e[2]>>
                                  /\ edges[e].rel = RelOf[e]
      BY DEF ServerInv, GraphInv, TypeOK, EdgesClosed, EdgesAreTheHistory
    <3>2. CASE \E e \in DOMAIN edges : e[1] = a /\ n.asn = e[2] /\ n.rel = edges[e].rel
      BY <3>1, <3>2
    <3>3. CASE \E e \in DOMAIN edges : e[2] = a /\ n.asn = e[1] /\ n.rel = Invert(edges[e].rel)
      <4>1. PICK e \in DOMAIN edges : e[2] = a /\ n.asn = e[1] /\ n.rel = Invert(edges[e].rel)
        BY <3>3
      <4> DEFINE b == e[1]
      <4>2. b \in ASN /\ b # a /\ e = <<b, a>> /\ edges[e].rel = RelOf[e]
        BY <3>1, <4>1
      <4>3. RelOf[<<a, b>>] = Invert(RelOf[<<b, a>>])
        BY <4>2, ViewsAssumption
      <4> QED
        BY <4>1, <4>2, <4>3
    <3> QED
      BY <3>2, <3>3 DEF Neighbors
  <2> QED
    BY <1>2, <1>4, <2>1, <2>2
<1> QED
  BY <1>3, <1>4

LEMMA JunkIsRefused == JunkRefused
  BY DEF JunkRefused, HandleASN, HandleEdge, Refused

LEMMA RequestsAreAnswered ==
  ASSUME ServerInv, RecentInv
  PROVE  RequestsAnswered
  BY EventsAreAnswered, ASesAreAnswered, EdgesAreAnswered, JunkIsRefused
  DEF ServerInv, RequestsAnswered


-----------------------------------------------------------------------------
(* Cards                                                                   *)

\* The ASes that announced anything are finitely many, and ordered.
LEMMA OriginsAreOrdered ==
  ASSUME GraphInv
  PROVE  LET S == {a \in ASN : By(a) # {}}
         IN  /\ IsFiniteSet(S)
             /\ \A a \in S : Cardinality(By(a)) \in Nat \ {0}
             /\ \A a \in S : ~Ahead(a, a)
             /\ \A a, b \in S : a = b \/ Ahead(a, b) \/ Ahead(b, a)
             /\ \A a, b, c \in S : Ahead(a, b) /\ Ahead(b, c) => Ahead(a, c)
<1> DEFINE S == {a \in ASN : By(a) # {}}
           f == [i \in Ids |-> log[i].origin]
<1>1. Len(log) \in Nat
  BY LogIsClassified DEF GraphInv
<1>2. IsFiniteSet(S)
  <2>1. IsFiniteSet(Ids)
    BY <1>1, FS_Interval DEF Ids
  <2> DEFINE T == {f[i] : i \in Ids}
  <2>2. f \in Surjection(Ids, T)
    BY DEF Surjection
  <2>3. IsFiniteSet(T)
    <3> HIDE DEF T, f
    <3> QED
      BY <2>1, <2>2, FS_Surjection
  <2>4. S \in SUBSET T
    BY DEF By, Such, Ids
  <2> HIDE DEF S, T
  <2> QED
    BY <2>3, <2>4, FS_Subset
<1>3. \A a \in S : Cardinality(By(a)) \in Nat \ {0} /\ a \in Nat
  <2> TAKE a \in S
  <2>1. By(a) \in SUBSET (1 .. Len(log)) /\ By(a) # {}
    BY DEF By, Such
  <2>2. Cardinality(By(a)) \in Nat /\ Cardinality(By(a)) # 0
    BY <1>1, <2>1, OneMore
  <2> QED
    BY <2>2, ViewsAssumption
<1> DEFINE C(a) == Cardinality(By(a))
<1>4. \A a, b : Ahead(a, b) <=> C(a) > C(b) \/ (C(a) = C(b) /\ a < b)
  BY DEF Ahead
<1>5. \A a \in S : C(a) \in Nat /\ a \in Nat
  BY <1>3
<1>6. \A a \in S : Cardinality(By(a)) \in Nat \ {0}
  BY <1>3
<1> HIDE DEF S, C
<1>7. \A a \in S : ~Ahead(a, a)
  BY <1>4, <1>5
<1>8. \A a, b \in S : a = b \/ Ahead(a, b) \/ Ahead(b, a)
  BY <1>4, <1>5
<1>9. \A a, b, c \in S : Ahead(a, b) /\ Ahead(b, c) => Ahead(a, c)
  BY <1>4, <1>5
<1> QED
  BY <1>2, <1>6, <1>7, <1>8, <1>9 DEF S

\* The cards: each of them has as many before it as its place says.
LEMMA CardsArePlaced ==
  ASSUME GraphInv, CountersInv
  PROVE  LET S == {a \in ASN : By(a) # {}}
             m == Len(TopOrigins)
             Before(a) == Cardinality({b \in S : Ahead(b, a)})
         IN  /\ m \in Nat /\ DOMAIN TopOrigins = 1 .. m
             /\ Cardinality(S) \in Nat
             /\ m = IF Cardinality(S) > TopOriginsLimit THEN TopOriginsLimit ELSE Cardinality(S)
             /\ \A k \in 1 .. m : TopOrigins[k] \in S /\ Before(TopOrigins[k]) = k - 1
             /\ \A a \in S : Before(a) \in 0 .. Cardinality(S) - 1
             /\ \A a, b \in S : Ahead(a, b) <=> Before(a) < Before(b)
<1> DEFINE S == {a \in ASN : By(a) # {}}
           Before(a) == Cardinality({b \in S : Ahead(b, a)})
           R == {r \in S \X S : Ahead(r[1], r[2])}
           n == Cardinality(S)
<1>1. /\ IsFiniteSet(S)
      /\ \A a \in S : Cardinality(By(a)) \in Nat \ {0}
      /\ \A a \in S : ~Ahead(a, a)
      /\ \A a, b \in S : a = b \/ Ahead(a, b) \/ Ahead(b, a)
      /\ \A a, b, c \in S : Ahead(a, b) /\ Ahead(b, c) => Ahead(a, c)
  BY OriginsAreOrdered
<1>2. {a \in DOMAIN nodes : nodes[a].events > 0} = S
  <2>1. \A a \in DOMAIN nodes : a \in ASN /\ nodes[a].events = Cardinality(By(a))
    BY DEF GraphInv, TypeOK, CountersInv, CountersAreTheHistory, NodesAreTheHistory
  <2>2. \A a \in ASN : By(a) # {} => a \in DOMAIN nodes
    BY DEF CountersInv, OriginsOnGraph
  <2>3. \A a \in ASN : By(a) = {} => Cardinality(By(a)) = 0
    BY FS_EmptySet
  <2>4. \A a \in S : Cardinality(By(a)) > 0
    BY <1>1
  <2> QED
    BY <2>1, <2>2, <2>3, <2>4
<1>3. \A a, b \in S : Busier(a, b) <=> Ahead(a, b)
  <2>1. \A a \in S : nodes[a].events = Cardinality(By(a))
    BY <1>2 DEF CountersInv, CountersAreTheHistory, NodesAreTheHistory
  <2> QED
    BY <2>1 DEF Busier, Ahead
<1>4. \A a, b \in S : <<a, b>> \in R <=> Ahead(a, b)
  OBVIOUS
<1> HIDE DEF R, S
<1>5. /\ \A a \in S : <<a, a>> \notin R
      /\ \A a, b \in S : a = b \/ <<a, b>> \in R \/ <<b, a>> \in R
      /\ \A a, b, c \in S : <<a, b>> \in R /\ <<b, c>> \in R => <<a, c>> \in R
  BY <1>1, <1>4
<1> DEFINE P(a) == {c \in S : <<c, a>> \in R}
<1>6. /\ n \in Nat
      /\ \A a \in S : Cardinality(P(a)) \in 0 .. n - 1
      /\ \A a, b \in S : <<a, b>> \in R <=> Cardinality(P(a)) < Cardinality(P(b))
      /\ \A k \in 1 .. n : \E a \in S : Cardinality(P(a)) = k - 1
  BY <1>1, <1>5, Ranks
<1>7. \A a \in S : {b \in S : Ahead(b, a)} = P(a) /\ {b \in S : Busier(b, a)} = P(a)
  BY <1>3, <1>4
<1>8. \A a \in S : Before(a) = Cardinality(P(a)) /\ Cardinality({b \in S : Busier(b, a)}) = Before(a)
  BY <1>7
<1> HIDE DEF P, Before
<1> DEFINE Nth(k) == CHOOSE a \in S : Cardinality({b \in S : Busier(b, a)}) = k - 1
           m == IF n > TopOriginsLimit THEN TopOriginsLimit ELSE n
<1>9. ASSUME NEW k \in 1 .. n PROVE Nth(k) \in S /\ Before(Nth(k)) = k - 1
  <2>1. PICK a \in S : Cardinality(P(a)) = k - 1
    BY <1>6
  <2>2. Cardinality({b \in S : Busier(b, a)}) = k - 1
    BY <1>8, <2>1
  <2>3. Nth(k) \in S /\ Cardinality({b \in S : Busier(b, Nth(k))}) = k - 1
    BY <2>2
  <2> QED
    BY <1>8, <2>3
<1>10. TopOrigins = [k \in 1 .. m |-> Nth(k)]
  <2> DEFINE seen == {a \in DOMAIN nodes : nodes[a].events > 0}
  <2>1. TopOrigins =
          [k \in 1 .. (IF Cardinality(seen) > TopOriginsLimit THEN TopOriginsLimit
                       ELSE Cardinality(seen)) |->
             CHOOSE a \in seen : Cardinality({b \in seen : Busier(b, a)}) = k - 1]
    BY DEF TopOrigins
  <2>2. seen = S
    BY <1>2
  <2> HIDE DEF seen
  <2> QED
    BY <2>1, <2>2
<1> HIDE DEF Nth, n
<1>11. m \in Nat /\ m <= n
  BY <1>6, ViewsAssumption
<1>12. Len(TopOrigins) = m /\ DOMAIN TopOrigins = 1 .. m
       /\ \A k \in 1 .. m : TopOrigins[k] \in S /\ Before(TopOrigins[k]) = k - 1
  <2>1. \A k \in 1 .. m : k \in 1 .. n
    BY <1>6, <1>11
  <2> HIDE DEF m
  <2> QED
    BY <1>9, <1>10, <1>11, <2>1
<1>13. /\ \A a \in S : Before(a) \in 0 .. n - 1
       /\ \A a, b \in S : Ahead(a, b) <=> Before(a) < Before(b)
  BY <1>4, <1>6, <1>8
<1> QED
  BY <1>6, <1>11, <1>12, <1>13 DEF S, Before, n

LEMMA CardsAreTheBusiest ==
  ASSUME GraphInv, CountersInv
  PROVE  TopOriginsAreTheBusiest
<1> DEFINE S == {a \in ASN : By(a) # {}}
           m == Len(TopOrigins)
           n == Cardinality(S)
           Before(a) == Cardinality({b \in S : Ahead(b, a)})
           shown == {TopOrigins[k] : k \in DOMAIN TopOrigins}
<1>1. /\ m \in Nat /\ DOMAIN TopOrigins = 1 .. m /\ n \in Nat
      /\ m = IF n > TopOriginsLimit THEN TopOriginsLimit ELSE n
      /\ \A k \in 1 .. m : TopOrigins[k] \in S /\ Before(TopOrigins[k]) = k - 1
      /\ \A a \in S : Before(a) \in 0 .. n - 1
      /\ \A a, b \in S : Ahead(a, b) <=> Before(a) < Before(b)
  BY CardsArePlaced
<1>2. \A a, b \in S : a = b \/ Ahead(a, b) \/ Ahead(b, a)
  BY OriginsAreOrdered
<1>3. \A b \in ASN : By(b) # {} => b \in S
  OBVIOUS
<1> HIDE DEF S, m, n, Before
<1>4. ASSUME NEW j \in DOMAIN TopOrigins, NEW k \in DOMAIN TopOrigins, j < k
      PROVE  Ahead(TopOrigins[j], TopOrigins[k])
  <2>1. j - 1 < k - 1
    BY <1>1, <1>4
  <2> QED
    BY <1>1, <2>1
<1>5. ASSUME NEW b \in ASN \ shown, By(b) # {}
      PROVE  m = TopOriginsLimit /\ \A a \in shown : Ahead(a, b)
  <2> DEFINE c == Before(b)
  <2>1. b \in S /\ c \in 0 .. n - 1
    BY <1>1, <1>3, <1>5
  <2>2. ~(c < m)
    <3> SUFFICES ASSUME c < m PROVE FALSE
      OBVIOUS
    <3> DEFINE d == c + 1
               t == TopOrigins[d]
    <3>1. d \in 1 .. m /\ d - 1 = c
      BY <1>1, <2>1
    <3> HIDE DEF d
    <3>2. t \in S /\ Before(t) = c /\ t \in shown
      <4>1. t \in shown
        BY <1>1, <3>1
      <4>2. t \in S /\ Before(t) = d - 1
        BY <1>1, <3>1
      <4> HIDE DEF c
      <4> QED
        BY <3>1, <4>1, <4>2
    <3>3. ~(Before(t) < Before(b)) /\ ~(Before(b) < Before(t))
      BY <1>1, <2>1, <3>2
    <3>4. t = b
      BY <1>1, <1>2, <2>1, <3>2, <3>3
    <3> QED
      BY <1>5, <3>2, <3>4
  <2>3. m = TopOriginsLimit
    BY <1>1, <2>1, <2>2
  <2>4. ASSUME NEW k \in 1 .. m PROVE Ahead(TopOrigins[k], b)
    <3> DEFINE t == TopOrigins[k]
    <3>1. t \in S /\ Before(t) = k - 1
      BY <1>1
    <3>2. k - 1 < c
      BY <1>1, <2>1, <2>2
    <3> HIDE DEF t
    <3>3. Before(t) < Before(b)
      BY <3>1, <3>2
    <3>4. Ahead(t, b)
      BY <1>1, <2>1, <3>1, <3>3
    <3> QED
      BY <3>4 DEF t
  <2> QED
    BY <1>1, <2>3, <2>4
<1> QED
  BY <1>4, <1>5 DEF TopOriginsAreTheBusiest, m


-----------------------------------------------------------------------------
(* Series                                                                  *)

\* The slot x places after slot c.
After(c, x) == (c + x) % SparkBuckets

\* The same less than three turns on, without the %.
LEMMA SlotAfter ==
  ASSUME NEW c \in Slots, NEW x \in 0 .. 2 * SparkBuckets
  PROVE  /\ After(c, x) \in Slots
         /\ After(c, x) = IF c + x < SparkBuckets THEN c + x
                          ELSE IF c + x < 2 * SparkBuckets THEN c + x - SparkBuckets
                          ELSE c + x - 2 * SparkBuckets
<1> DEFINE B == SparkBuckets
           y == c + x
           r == y % B
<1>1. B \in Nat \ {0} /\ c \in 0 .. B - 1 /\ x \in 0 .. 2 * B
  BY SeriesAssumption DEF Slots
<1>2. y \in 0 .. 3 * B - 1
  BY <1>1
<1> HIDE DEF y, B
<1>3. y % B = IF y < B THEN y ELSE IF y < 2 * B THEN y - B ELSE y - 2 * B
  BY <1>1, <1>2, RingProofs!ModWithinThreeTurns
<1>4. r = After(c, x)
  BY DEF After, y, B
<1> HIDE DEF r
<1>5. r = IF y < B THEN y ELSE IF y < 2 * B THEN y - B ELSE y - 2 * B
  BY <1>3 DEF r
<1>6. r \in 0 .. B - 1
  BY <1>1, <1>2, <1>5
<1>7. r \in Slots
  BY <1>6 DEF Slots, B
<1>8. r = IF c + x < B THEN c + x ELSE IF c + x < 2 * B THEN c + x - B ELSE c + x - 2 * B
  BY <1>1, <1>2, <1>5 DEF y
<1> QED
  BY <1>4, <1>7, <1>8 DEF B

\* A bucket of the ring that has turned on by n was n places later, or has been cleared.
LEMMA TurnedSlots ==
  ASSUME NEW c \in Slots, NEW n \in 0 .. SparkBuckets - 1, NEW k \in 1 .. SparkBuckets
  PROVE  /\ After(c, n) \in Slots /\ After(c, k) \in Slots /\ After(c, k + n) \in Slots
         /\ After(After(c, n), k) = After(c, k + n)
         /\ \A j \in 1 .. n : After(c, j) = After(c, k + n) => k + n > SparkBuckets
         /\ k + n > SparkBuckets => \E j \in 1 .. n : After(c, j) = After(c, k + n)
         /\ After(c, k) = c <=> k = SparkBuckets
<1> DEFINE B == SparkBuckets
           d == After(c, n)
           s == After(c, k + n)
<1>1. B \in Nat \ {0} /\ c \in 0 .. B - 1
  BY SeriesAssumption DEF Slots
<1>2. n \in 0 .. 2 * B /\ k \in 0 .. 2 * B /\ k + n \in 0 .. 2 * B
  BY <1>1
<1>3. d \in Slots /\ d = IF c + n < B THEN c + n ELSE IF c + n < 2 * B THEN c + n - B ELSE c + n - 2 * B
  BY <1>2, SlotAfter
<1>4. After(c, k) \in Slots
      /\ After(c, k) = IF c + k < B THEN c + k ELSE IF c + k < 2 * B THEN c + k - B ELSE c + k - 2 * B
  BY <1>2, SlotAfter
<1> DEFINE l == k + n
<1>5. l \in 0 .. 2 * B
  BY <1>2
<1> HIDE DEF l
<1>6. After(c, l) \in Slots
      /\ After(c, l) = IF c + l < B THEN c + l ELSE IF c + l < 2 * B THEN c + l - B ELSE c + l - 2 * B
  BY <1>5, SlotAfter
<1>7. s = After(c, l)
  BY DEF l
<1> HIDE DEF d, s
<1>8. After(d, k) = IF d + k < B THEN d + k ELSE IF d + k < 2 * B THEN d + k - B ELSE d + k - 2 * B
  BY <1>2, <1>3, SlotAfter
<1>9. After(d, k) = s
  BY <1>1, <1>3, <1>6, <1>7, <1>8 DEF Slots, l
<1>10. ASSUME NEW j \in 1 .. n, After(c, j) = s PROVE k + n > B
  <2>1. j \in 0 .. 2 * B
    BY <1>1
  <2>2. After(c, j) = IF c + j < B THEN c + j ELSE IF c + j < 2 * B THEN c + j - B ELSE c + j - 2 * B
    BY <2>1, SlotAfter
  <2> QED
    BY <1>1, <1>6, <1>7, <1>10, <2>2 DEF l
<1>11. ASSUME k + n > B PROVE \E j \in 1 .. n : After(c, j) = s
  <2> DEFINE j == k + n - B
  <2>1. j \in 1 .. n /\ j \in 0 .. 2 * B
    BY <1>1, <1>11
  <2> HIDE DEF j
  <2>2. After(c, j) = IF c + j < B THEN c + j ELSE IF c + j < 2 * B THEN c + j - B ELSE c + j - 2 * B
    BY <2>1, SlotAfter
  <2>3. After(c, j) = s
    BY <1>1, <1>6, <1>7, <2>1, <2>2 DEF j, l
  <2> QED
    BY <2>1, <2>3
<1>12. After(c, k) = c <=> k = B
  BY <1>1, <1>4
<1> QED
  BY <1>3, <1>4, <1>6, <1>7, <1>9, <1>10, <1>11, <1>12 DEF d, s


\* The sparkline of a series that has turned on: what is left has moved n places.
LEMMA TurnedShows ==
  ASSUME NEW rc \in Counters, NEW n \in 0 .. SparkBuckets - 1
  PROVE  /\ TurnOn(rc, n) \in Counters
         /\ \A k \in 1 .. SparkBuckets :
              Sparkline(TurnOn(rc, n))[k] = IF k + n <= SparkBuckets THEN Sparkline(rc)[k + n] ELSE 0
<1> DEFINE B == SparkBuckets
           c == rc.curIdx
           passed == {After(c, j) : j \in 1 .. n}
           b == [i \in Slots |-> IF i \in passed THEN 0 ELSE rc.buckets[i]]
           to == TurnOn(rc, n)
<1>1. B \in Nat \ {0} /\ c \in Slots /\ BucketWidth \in Nat \ {0}
  BY SeriesAssumption DEF Counters, Slots
<1>2. to = [buckets |-> b, curIdx |-> After(c, n), curStart |-> rc.curStart + n * BucketWidth,
            started |-> TRUE]
  BY DEF TurnOn, After
<1>3. to \in Counters /\ to.buckets = b /\ to.curIdx = After(c, n)
  <2>1. After(c, n) \in Slots
    <3>1. n \in 0 .. 2 * SparkBuckets
      BY <1>1
    <3> QED
      BY <1>1, <3>1, SlotAfter
  <2>2. rc.curStart + n * BucketWidth \in Int
    BY <1>1 DEF Counters
  <2>3. b \in [Slots -> Nat]
    <3> HIDE DEF passed
    <3> QED
      BY DEF Counters
  <2> HIDE DEF to, b
  <2> QED
    BY <1>2, <2>1, <2>2, <2>3 DEF Counters
<1>4. ASSUME NEW k \in 1 .. B
      PROVE  Sparkline(to)[k] = IF k + n <= B THEN Sparkline(rc)[k + n] ELSE 0
  <2> DEFINE s == After(c, k + n)
  <2>1. /\ s \in Slots /\ After(After(c, n), k) = s
        /\ \A j \in 1 .. n : After(c, j) = s => k + n > B
        /\ k + n > B => \E j \in 1 .. n : After(c, j) = s
    BY <1>1, TurnedSlots
  <2>2. Sparkline(to)[k] = b[s]
    <3>1. Sparkline(to)[k] = to.buckets[After(to.curIdx, k)]
      BY DEF Sparkline, After
    <3> HIDE DEF to, s, c, b
    <3> QED
      BY <1>3, <2>1, <3>1
  <2>3. b[s] = IF s \in passed THEN 0 ELSE rc.buckets[s]
    <3> HIDE DEF s, passed
    <3> QED
      BY <2>1
  <2>4. k + n <= B => Sparkline(rc)[k + n] = rc.buckets[s]
    <3>1. k + n <= B => k + n \in 1 .. B
      BY <1>1
    <3> QED
      BY <3>1 DEF Sparkline, After
  <2>5. s \in passed <=> ~(k + n <= B)
    <3>1. s \in passed <=> k + n > B
      <4> HIDE DEF s, c
      <4> QED
        BY <2>1
    <3>2. k + n > B <=> ~(k + n <= B)
      BY <1>1
    <3> QED
      BY <3>1, <3>2
  <2> HIDE DEF s, passed, to, b
  <2> QED
    BY <2>2, <2>3, <2>4, <2>5
<1> QED
  BY <1>3, <1>4

\* One more in the current bucket is one more at the end of the sparkline.
LEMMA CountShows ==
  ASSUME NEW to \in Counters
  PROVE  LET rc == [to EXCEPT !.buckets[to.curIdx] = to.buckets[to.curIdx] + 1]
         IN  \A k \in 1 .. SparkBuckets :
               Sparkline(rc)[k] = IF k = SparkBuckets THEN Sparkline(to)[k] + 1 ELSE Sparkline(to)[k]
<1> DEFINE c == to.curIdx
           more == to.buckets[c] + 1
           b == [to.buckets EXCEPT ![c] = more]
           rc == [to EXCEPT !.buckets[to.curIdx] = to.buckets[to.curIdx] + 1]
<1>1. c \in Slots /\ DOMAIN to.buckets = Slots
  BY DEF Counters
<1>2. rc.buckets = b /\ rc.curIdx = c
  BY DEF Counters
<1>3. ASSUME NEW k \in 1 .. SparkBuckets
      PROVE  Sparkline(rc)[k] = IF k = SparkBuckets THEN Sparkline(to)[k] + 1 ELSE Sparkline(to)[k]
  <2> DEFINE s == After(c, k)
  <2>1. s \in Slots /\ (s = c <=> k = SparkBuckets)
    <3>1. 0 \in 0 .. SparkBuckets - 1
      BY SeriesAssumption
    <3> QED
      BY <1>1, <3>1, TurnedSlots
  <2>2. Sparkline(to)[k] = to.buckets[s] /\ Sparkline(rc)[k] = rc.buckets[After(rc.curIdx, k)]
    BY DEF Sparkline, After
  <2>3. Sparkline(rc)[k] = b[s]
    <3> HIDE DEF rc, b, c
    <3> QED
      BY <1>2, <2>2 DEF s
  <2>4. b[s] = IF s = c THEN more ELSE to.buckets[s]
    <3> HIDE DEF s, c, more
    <3> QED
      BY <1>1, <2>1
  <2> HIDE DEF s, b, c, rc
  <2> QED
    BY <2>1, <2>2, <2>3, <2>4
<1> QED
  BY <1>3

\* Where the current bucket begins after t is counted, and how far the ring turned.
TurnedBy(rc, t) == Buckets(Started(rc, t), t)

LEMMA CountedShows ==
  ASSUME NEW rc \in Counters, NEW t \in Int
  PROVE  LET n   == TurnedBy(rc, t)
             new == Counted(rc, t)
             old == Started(rc, t).curStart
         IN  /\ n \in Nat /\ new.started = TRUE /\ old \in Int /\ new.curStart \in Int
             /\ old = IF rc.started THEN rc.curStart ELSE t
             /\ n = IF t < old THEN 0 ELSE (t - old) \div BucketWidth
             /\ new.curStart = IF n >= SparkBuckets THEN t ELSE old + n * BucketWidth
             /\ \A k \in 1 .. SparkBuckets :
                  Sparkline(new)[k] = (IF k + n <= SparkBuckets THEN Sparkline(rc)[k + n] ELSE 0)
                                      + (IF k = SparkBuckets THEN 1 ELSE 0)
             /\ \A k \in 1 .. SparkBuckets : Sparkline(rc)[k] \in Nat
<1> DEFINE B == SparkBuckets
           from == Started(rc, t)
           n == Buckets(from, t)
           new == Counted(rc, t)
           fresh == [NewCounters EXCEPT !.curStart = t, !.started = TRUE]
           to == IF n >= B THEN fresh ELSE TurnOn(from, n)
<1>1. /\ from \in Counters /\ from.buckets = rc.buckets /\ from.curIdx = rc.curIdx
      /\ from.curStart = IF rc.started THEN rc.curStart ELSE t
  BY DEF Started, Counters
<1>2. /\ from.curStart \in Int /\ BucketWidth \in Nat \ {0} /\ B \in Nat \ {0}
  BY <1>1, SeriesAssumption DEF Counters
<1>3. n \in Nat /\ n = IF t < from.curStart THEN 0 ELSE (t - from.curStart) \div BucketWidth
  <2>1. n = IF t < from.curStart THEN 0 ELSE (t - from.curStart) \div BucketWidth
    BY DEF Buckets
  <2> HIDE DEF from
  <2> QED
    BY <1>2, <2>1
<1>4. Sparkline(from) = Sparkline(rc)
  <2> HIDE DEF from
  <2> QED
    BY <1>1 DEF Sparkline
<1>5. ASSUME NEW k \in 1 .. B PROVE Sparkline(rc)[k] \in Nat
  <2> DEFINE s == After(rc.curIdx, k)
  <2>1. s \in Slots
    <3>1. k \in 0 .. 2 * SparkBuckets /\ rc.curIdx \in Slots
      BY <1>2 DEF Counters
    <3> QED
      BY <3>1, SlotAfter
  <2>2. Sparkline(rc)[k] = rc.buckets[s]
    BY DEF Sparkline, After
  <2> HIDE DEF s
  <2> QED
    BY <2>1, <2>2 DEF Counters
<1> HIDE DEF from, n
<1>6. /\ to \in Counters /\ to.started = TRUE
      /\ to.curStart = IF n >= B THEN t ELSE from.curStart + n * BucketWidth
      /\ \A k \in 1 .. B : Sparkline(to)[k] = IF k + n <= B THEN Sparkline(rc)[k + n] ELSE 0
  <2>1. CASE n >= B
    <3>1. to = fresh
      BY <2>1
    <3>2. fresh \in Counters /\ fresh.started = TRUE /\ fresh.curStart = t
          /\ fresh.buckets = [i \in Slots |-> 0] /\ fresh.curIdx = 0
      BY NewCountersType DEF NewCounters, Counters
    <3>3. ASSUME NEW k \in 1 .. B PROVE Sparkline(fresh)[k] = 0 /\ ~(k + n <= B)
      <4>1. After(0, k) \in Slots
        <5>1. k \in 0 .. 2 * SparkBuckets /\ 0 \in Slots
          BY <1>2 DEF Slots
        <5> QED
          BY <5>1, SlotAfter
      <4>2. Sparkline(fresh)[k] = fresh.buckets[After(fresh.curIdx, k)]
        BY DEF Sparkline, After
      <4> HIDE DEF fresh
      <4>3. Sparkline(fresh)[k] = 0
        BY <3>2, <4>1, <4>2
      <4> QED
        BY <1>2, <1>3, <2>1, <4>3
    <3> HIDE DEF fresh, to
    <3> QED
      BY <2>1, <3>1, <3>2, <3>3
  <2>2. CASE ~(n >= B)
    <3>1. n \in 0 .. B - 1
      BY <1>2, <1>3, <2>2
    <3>2. to = TurnOn(from, n)
      BY <2>2
    <3>3. to.started = TRUE /\ to.curStart = from.curStart + n * BucketWidth
      BY <3>2 DEF TurnOn
    <3>4. /\ TurnOn(from, n) \in Counters
          /\ \A k \in 1 .. B : Sparkline(TurnOn(from, n))[k] =
               IF k + n <= B THEN Sparkline(from)[k + n] ELSE 0
      BY <1>1, <3>1, TurnedShows
    <3> HIDE DEF to
    <3> QED
      BY <1>4, <2>2, <3>2, <3>3, <3>4
  <2> QED
    BY <2>1, <2>2
<1>7. new = [to EXCEPT !.buckets[to.curIdx] = to.buckets[to.curIdx] + 1]
  BY DEF Counted, from, n
<1> HIDE DEF to
<1>8. new.started = to.started /\ new.curStart = to.curStart
  BY <1>6, <1>7 DEF Counters
<1>9. \A k \in 1 .. B : Sparkline(new)[k] = IF k = B THEN Sparkline(to)[k] + 1 ELSE Sparkline(to)[k]
  <2>1. to \in Counters
    BY <1>6
  <2> DEFINE more == [to EXCEPT !.buckets[to.curIdx] = to.buckets[to.curIdx] + 1]
  <2>2. \A k \in 1 .. SparkBuckets :
          Sparkline(more)[k] = IF k = SparkBuckets THEN Sparkline(to)[k] + 1 ELSE Sparkline(to)[k]
    BY ONLY <2>1, CountShows
  <2>3. new = more
    BY <1>7
  <2> HIDE DEF more, new
  <2> QED
    BY <2>2, <2>3
<1> HIDE DEF new
<1>10. new.curStart \in Int
  BY <1>6, <1>8 DEF Counters
<1>11. ASSUME NEW k \in 1 .. B
       PROVE  Sparkline(new)[k] = (IF k + n <= B THEN Sparkline(rc)[k + n] ELSE 0)
                                  + (IF k = B THEN 1 ELSE 0)
  <2>1. k + n <= B => k + n \in 1 .. B
    BY <1>2, <1>3
  <2>2. (IF k + n <= B THEN Sparkline(rc)[k + n] ELSE 0) \in Nat
    BY <1>5, <2>1
  <2> QED
    BY <1>6, <1>9, <2>2
<1> QED
  BY <1>1, <1>2, <1>3, <1>5, <1>6, <1>8, <1>10, <1>11 DEF new, n, from, TurnedBy


-----------------------------------------------------------------------------
(* Time                                                                    *)

LEMMA Stretches ==
  ASSUME NEW x \in Int, NEW y \in Int, NEW W \in Nat \ {0}
  PROVE  /\ x * W \in Int /\ (x + y) * W = x * W + y * W
         /\ x >= 1 => x * W >= W
         /\ x <= 0 => x * W <= 0
         /\ x <= y => x * W <= y * W
<1>1. x * W \in Int
  OBVIOUS
<1>2. (x + y) * W = x * W + y * W
  OBVIOUS
<1>3. x >= 1 => x * W >= W
  OBVIOUS
<1>4. x <= 0 => x * W <= 0
  OBVIOUS
<1>5. x <= y => x * W <= y * W
  OBVIOUS
<1> QED
  BY <1>1, <1>2, <1>3, <1>4, <1>5

\* The buckets t turns a series whose current one began at old, and where it begins then.
TurnTo(W, old, t) == IF t < old THEN 0 ELSE (t - old) \div W
StartOf(B, W, old, t) ==
  IF TurnTo(W, old, t) >= B THEN t ELSE old + TurnTo(W, old, t) * W

\* t is in the current bucket, which began at cs after n turns, or late.
InBucket(B, W, old, t, n, cs) ==
  /\ n \in Nat /\ n * W \in Nat /\ cs \in Int
  /\ n >= B => cs >= old + n * W
  /\ n = 0 => cs = old /\ t < old + W
  /\ n > 0 => cs <= t /\ old + W <= t
  /\ t < cs + W

LEMMA CurrentBucket ==
  ASSUME NEW B \in Nat \ {0}, NEW W \in Nat \ {0}, NEW old \in Int, NEW t \in Int
  PROVE  InBucket(B, W, old, t, TurnTo(W, old, t), StartOf(B, W, old, t))
<1> DEFINE n == TurnTo(W, old, t)
           cs == StartOf(B, W, old, t)
<1>0. /\ n = IF t < old THEN 0 ELSE (t - old) \div W
      /\ cs = IF n >= B THEN t ELSE old + n * W
  BY DEF TurnTo, StartOf
<1> HIDE DEF n, cs
<1>1. ASSUME t < old PROVE InBucket(B, W, old, t, n, cs)
  <2>1. n = 0 /\ cs = old
    BY <1>0, <1>1
  <2> QED
    BY <1>1, <2>1 DEF InBucket
<1>2. ASSUME ~(t < old) PROVE InBucket(B, W, old, t, n, cs)
  <2> DEFINE d == t - old
  <2>1. d \in Nat
    BY <1>2
  <2> HIDE DEF d
  <2>2. /\ d \div W \in Nat /\ (d \div W) * W <= d /\ d < (d \div W) * W + W
    <3>1. d % W \in 0 .. W - 1 /\ d = W * (d \div W) + (d % W)
      BY <2>1
    <3>2. d \div W \in Nat
      BY <2>1
    <3> DEFINE q == d \div W
               r == d % W
    <3> HIDE DEF q, r
    <3>3. q \in Nat /\ r \in 0 .. W - 1 /\ d = W * q + r
      BY <3>1, <3>2 DEF q, r
    <3>4. q * W = W * q
      BY <3>3
    <3>5. q * W <= d /\ d < q * W + W
      BY <2>1, <3>3, <3>4
    <3> QED
      BY <3>3, <3>5 DEF q
  <2>3. n = d \div W
    BY <1>0, <1>2 DEF d
  <2>4. n \in Nat /\ n * W \in Nat /\ n * W <= d /\ d < n * W + W /\ (n >= 1 => n * W >= W)
        /\ (n = 0 => n * W = 0)
    <3>1. n \in Nat /\ n * W <= d /\ d < n * W + W
      BY <2>2, <2>3
    <3>2. n * W \in Nat
      BY <3>1
    <3>3. n >= 1 => n * W >= W
      BY <3>1, Stretches
    <3>4. n = 0 => n * W = 0
      OBVIOUS
    <3> QED
      BY <3>1, <3>2, <3>3, <3>4
  <2> DEFINE p == n * W
  <2>5. /\ n \in Nat /\ p \in Nat /\ p <= d /\ d < p + W /\ (n >= 1 => p >= W)
        /\ (n = 0 => p = 0) /\ cs = (IF n >= B THEN t ELSE old + p)
    BY <1>0, <2>4
  <2> HIDE DEF p
  <2>6. /\ cs \in Int /\ (n >= B => cs >= old + p) /\ (n = 0 => cs = old /\ t < old + W)
        /\ (n > 0 => cs <= t /\ old + W <= t) /\ t < cs + W
    BY <2>1, <2>5 DEF d
  <2> QED
    BY <2>5, <2>6 DEF p, InBucket
<1>3. InBucket(B, W, old, t, n, cs)
  BY <1>1, <1>2
<1> QED
  BY <1>3 DEF n, cs

\* Where the stretch of the k-th point begins when the current bucket begins at cs.
Begins(cs, k) == cs + (k - SparkBuckets) * BucketWidth

\* A time before the end of the old current bucket falls, after the turn, where it fell
\* n buckets earlier, or nowhere.
LEMMA OldTimes ==
  ASSUME NEW old \in Int, NEW n \in Nat, NEW cs \in Int, NEW p \in Int, p = n * BucketWidth,
         n < SparkBuckets => cs = old + p, n >= SparkBuckets => cs >= old + p,
         NEW f \in Int, f < old + BucketWidth, NEW k \in 1 .. SparkBuckets
  PROVE  /\ k + n <= SparkBuckets =>
              (Begins(cs, k) <= f /\ f < Begins(cs, k + 1) <=>
                 Begins(old, k + n) <= f /\ f < Begins(old, k + n + 1))
         /\ k + n > SparkBuckets => ~(Begins(cs, k) <= f)
<1> DEFINE B == SparkBuckets
           W == BucketWidth
<1>0. B \in Nat \ {0} /\ W \in Nat \ {0}
  BY SeriesAssumption
<1>1. /\ n * W \in Int /\ (k - B) * W \in Int /\ ((k + 1) - B) * W \in Int
      /\ ((k + n) - B) * W = (k - B) * W + n * W
      /\ ((k + n + 1) - B) * W = ((k + 1) - B) * W + n * W
  <2>1. k - B \in Int /\ (k + 1) - B \in Int /\ (k - B) + n = (k + n) - B /\ ((k + 1) - B) + n = (k + n + 1) - B
    BY <1>0
  <2> DEFINE x == k - B
             y == (k + 1) - B
  <2> HIDE DEF x, y, W
  <2>2. /\ n * W \in Int /\ x * W \in Int /\ y * W \in Int
        /\ (x + n) * W = x * W + n * W /\ (y + n) * W = y * W + n * W
    <3>1. x \in Int /\ y \in Int /\ n \in Int
      BY <2>1 DEF x, y
    <3> QED
      BY <1>0, <3>1, Stretches
  <2> QED
    BY <2>1, <2>2 DEF x, y
<1>2. k + n > B => ((k + n) - B) * W >= W
  <2> DEFINE z == (k + n) - B
  <2>1. z \in Int /\ (k + n > B => z >= 1)
    BY <1>0
  <2> HIDE DEF z, W
  <2>2. k + n > B => z * W >= W
    BY <1>0, <2>1, Stretches
  <2> QED
    BY <2>2 DEF z
<1> DEFINE u == (k - B) * W
           v == ((k + 1) - B) * W
           s == ((k + n) - B) * W
           w == ((k + n + 1) - B) * W
<1>3. /\ u \in Int /\ v \in Int /\ s = u + p /\ w = v + p /\ (k + n > B => s >= W)
  BY <1>1, <1>2
<1>4. /\ Begins(cs, k) = cs + u /\ Begins(cs, k + 1) = cs + v
      /\ Begins(old, k + n) = old + s /\ Begins(old, k + n + 1) = old + w
  BY ONLY DEF Begins, B, W, u, v, s, w
<1> HIDE DEF u, v, s, w
<1>5. /\ k + n <= B => (cs + u <= f /\ f < cs + v <=> old + s <= f /\ f < old + w)
      /\ k + n > B => ~(cs + u <= f)
  BY <1>0, <1>3
<1> QED
  BY <1>4, <1>5

\* A time in the current bucket is in no other.
LEMMA NewTime ==
  ASSUME NEW cs \in Int, NEW f \in Int, cs <= f, f < cs + BucketWidth, NEW k \in 1 .. SparkBuckets
  PROVE  Begins(cs, k) <= f /\ f < Begins(cs, k + 1) <=> k = SparkBuckets
<1> DEFINE B == SparkBuckets
           W == BucketWidth
           v == ((k + 1) - B) * W
<1>0. B \in Nat \ {0} /\ W \in Nat \ {0}
  BY SeriesAssumption
<1>1. Begins(cs, k) = cs + (k - B) * W /\ Begins(cs, k + 1) = cs + v
  BY ONLY DEF Begins, B, W, v
<1>2. CASE k = B
  <2>1. (k - B) * W = 0 /\ v = W
    <3>1. k - B = 0 /\ (k + 1) - B = 1
      BY <1>0, <1>2
    <3>2. 0 * W = 0 /\ 1 * W = W
      BY <1>0
    <3> QED
      BY <3>1, <3>2
  <2> HIDE DEF v
  <2> QED
    BY <1>0, <1>1, <1>2, <2>1
<1>3. CASE k # B
  <2> DEFINE x == (k + 1) - B
  <2>1. x \in Int /\ x <= 0
    BY <1>0, <1>3
  <2> HIDE DEF x, W
  <2>2. x * W \in Int /\ x * W <= 0
    BY <1>0, <2>1, Stretches
  <2>3. v \in Int /\ v <= 0
    BY <2>2 DEF x
  <2> HIDE DEF v
  <2>4. ~(f < cs + v)
    BY <2>3
  <2> QED
    BY <1>1, <1>3, <2>4
<1> QED
  BY <1>2, <1>3


-----------------------------------------------------------------------------
(* Series against the history                                              *)

\* The latest of some times, and the times of the updates S of a history up to the i-th.
Peak(T) == CHOOSE t \in T : \A u \in T : u <= t
TimesIn(h, S, i) == {h[j].at : j \in {k \in S : k <= i}}

\* The updates of S shown in a stretch of time.
ShownIn(h, S, low, high) ==
  {i \in S : low <= Peak(TimesIn(h, S, i)) /\ Peak(TimesIn(h, S, i)) < high}

(***************************************************************************)
(* What series rc says of the updates S of history h: none was shown after *)
(* its current bucket, the latest is in it, and each of its points counts  *)
(* those of its stretch.                                                   *)
(***************************************************************************)
SeriesIs(rc, h, S) ==
  /\ rc.started <=> S # {}
  /\ S # {} => \E top \in TimesIn(h, S, Len(h)) :
       /\ \A u \in TimesIn(h, S, Len(h)) : u <= top
       /\ rc.curStart <= top /\ top < rc.curStart + BucketWidth
  /\ \A i \in S : Peak(TimesIn(h, S, i)) < rc.curStart + BucketWidth
  /\ \A k \in 1 .. SparkBuckets :
       Sparkline(rc)[k] =
         Cardinality(ShownIn(h, S, Begins(rc.curStart, k), Begins(rc.curStart, k + 1)))

LEMMA PeakIs ==
  ASSUME NEW T \in SUBSET Int, NEW m \in T, \A u \in T : u <= m
  PROVE  Peak(T) = m
<1>1. \A t \in T : (\A u \in T : u <= t) => t = m
  OBVIOUS
<1> QED
  BY <1>1 DEF Peak

\* Finitely many times have a latest.
LEMMA PeakExists ==
  ASSUME NEW h \in Seq(Classified), NEW S \in SUBSET (1 .. Len(h)), NEW i \in S
  PROVE  /\ TimesIn(h, S, i) \in SUBSET Int
         /\ Peak(TimesIn(h, S, i)) \in Int
<1> DEFINE T(n) == TimesIn(h, S, n)
           HasTop(n) == T(n) = {} \/ \E m \in T(n) : \A u \in T(n) : u <= m
<1>1. Len(h) \in Nat /\ \A j \in S : j \in 1 .. Len(h) /\ h[j].at \in Int
  <2>1. Len(h) \in Nat /\ \A j \in 1 .. Len(h) : h[j] \in Classified
    BY LenProperties
  <2> QED
    BY <2>1 DEF Classified
<1>2. \A n : T(n) = {h[j].at : j \in {k \in S : k <= n}}
  BY DEF TimesIn
<1> HIDE DEF T
<1>3. \A n : T(n) \in SUBSET Int
  BY <1>1, <1>2
<1> DEFINE F == {n \in Nat : n <= Len(h) /\ ~HasTop(n)}
<1>4. F = {}
  <2> SUFFICES ASSUME F # {} PROVE FALSE
    OBVIOUS
  <2>1. PICK n \in F : \A j \in F : n <= j
    <3>1. F \in SUBSET Nat
      OBVIOUS
    <3> HIDE DEF F
    <3> QED
      BY <3>1, FirstPosition
  <2>2. n \in Nat /\ n <= Len(h) /\ ~HasTop(n)
    BY <2>1
  <2>3. n # 0
    <3>1. T(0) = {}
      BY <1>1, <1>2
    <3> QED
      BY <2>2, <3>1
  <2>4. HasTop(n - 1)
    BY <1>1, <2>1, <2>2, <2>3
  <2>5. T(n) = T(n - 1) \cup {h[j].at : j \in {k \in S : k = n}}
    <3>1. {k \in S : k <= n} = {k \in S : k <= n - 1} \cup {k \in S : k = n}
      <4>1. \A k \in S : k <= n <=> k <= n - 1 \/ k = n
        BY <1>1, <2>2, <2>3
      <4> QED
        BY <4>1
    <3>2. /\ T(n) = {h[j].at : j \in {k \in S : k <= n}}
          /\ T(n - 1) = {h[j].at : j \in {k \in S : k <= n - 1}}
      BY <1>2
    <3> QED
      BY <3>1, <3>2
  <2>6. CASE n \notin S
    <3>1. T(n) = T(n - 1)
      BY <2>5, <2>6
    <3> QED
      BY <2>2, <2>4, <3>1
  <2>7. CASE n \in S
    <3> DEFINE t == h[n].at
    <3>1. T(n) = T(n - 1) \cup {t} /\ t \in Int
      BY <1>1, <2>5, <2>7
    <3> HIDE DEF t
    <3>2. CASE T(n - 1) = {}
      <4>1. t \in T(n) /\ \A u \in T(n) : u <= t
        BY <3>1, <3>2
      <4> QED
        BY <2>2, <4>1
    <3>3. CASE T(n - 1) # {}
      <4>1. PICK m \in T(n - 1) : \A u \in T(n - 1) : u <= m
        BY <2>4, <3>3
      <4>2. m \in Int /\ \A u \in T(n - 1) : u \in Int
        BY <1>3
      <4>3. CASE t <= m
        <5>1. m \in T(n) /\ \A u \in T(n) : u <= m
          BY <3>1, <4>1, <4>2, <4>3
        <5> QED
          BY <2>2, <5>1
      <4>4. CASE ~(t <= m)
        <5>1. t \in T(n) /\ \A u \in T(n) : u <= t
          BY <3>1, <4>1, <4>2, <4>4
        <5> QED
          BY <2>2, <5>1
      <4> QED
        BY <4>3, <4>4
    <3> QED
      BY <3>2, <3>3
  <2> QED
    BY <2>6, <2>7
<1>5. i \in Nat /\ i <= Len(h)
  BY <1>1
<1>6. HasTop(i)
  BY <1>4, <1>5
<1>7. T(i) # {}
  <2>1. i \in {k \in S : k <= i}
    BY <1>1
  <2> QED
    BY <1>2, <2>1
<1>8. PICK m \in T(i) : \A u \in T(i) : u <= m
  BY <1>6, <1>7
<1>9. Peak(T(i)) = m /\ m \in Int
  BY <1>3, <1>8, PeakIs
<1> QED
  BY <1>3, <1>9 DEF T


\* The times of the updates S of history h when ev makes it the history g of n updates,
\* ev one of them or not.
TimesOf(h, S, ev, g, n) ==
  /\ Len(g) = n /\ n \notin S
  /\ \A i \in S : /\ TimesIn(g, S \cup {n}, i) = TimesIn(h, S, i)
                  /\ TimesIn(g, S, i) = TimesIn(h, S, i)
  /\ TimesIn(g, S \cup {n}, n) = TimesIn(h, S, Len(h)) \cup {ev.at}
  /\ TimesIn(g, S, n) = TimesIn(h, S, Len(h))

LEMMA TimesGrow ==
  ASSUME NEW h \in Seq(Classified), NEW ev \in Classified, NEW S \in SUBSET (1 .. Len(h))
  PROVE  TimesOf(h, S, ev, Append(h, ev), Len(h) + 1)
<1> DEFINE g == Append(h, ev)
           n == Len(h) + 1
<1>0. g = Append(h, ev) /\ n = Len(h) + 1
  OBVIOUS
<1> HIDE DEF g, n
<1> DEFINE Upto(R, i) == {k \in R : k <= i}
<1>1. /\ Len(h) \in Nat /\ Len(g) = n /\ g[n] = ev /\ n \notin S
      /\ \A j \in S : j \in Nat /\ j < n /\ j <= Len(h) /\ g[j] = h[j]
  <2>1. Len(h) \in Nat /\ Len(g) = n /\ g[n] = ev /\ \A j \in 1 .. Len(h) : g[j] = h[j]
    BY <1>0, LenProperties, AppendProperties
  <2> QED
    BY <1>0, <2>1
<1>2. n \in Nat
  BY <1>0, <1>1
<1> DEFINE At(x, R) == {x[j].at : j \in R}
<1>3. \A R, i : TimesIn(g, R, i) = At(g, Upto(R, i)) /\ TimesIn(h, R, i) = At(h, Upto(R, i))
  BY DEF TimesIn
<1>4. \A i \in S : Upto(S \cup {n}, i) = Upto(S, i)
  <2>1. \A i, k \in S : k <= i => k # n
    BY <1>1
  <2>2. \A i \in S : ~(n <= i)
    BY <1>1, <1>2
  <2> QED
    BY <2>1, <2>2
<1>5. Upto(S \cup {n}, n) = S \cup {n} /\ Upto(S, n) = S /\ Upto(S, Len(h)) = S
  <2>1. n <= n /\ \A j \in S : j <= n /\ j <= Len(h)
    BY <1>1, <1>2
  <2> QED
    BY <2>1
<1>6. \A i : Upto(S, i) \subseteq S
  OBVIOUS
<1>7. \A R \in SUBSET S : At(g, R) = At(h, R)
  BY <1>1
<1>8. At(g, S \cup {n}) = At(h, S) \cup {ev.at}
  BY <1>1
<1> HIDE DEF Upto, At
<1>9. ASSUME NEW i \in S
      PROVE  TimesIn(g, S \cup {n}, i) = TimesIn(h, S, i) /\ TimesIn(g, S, i) = TimesIn(h, S, i)
  <2>1. /\ TimesIn(g, S \cup {n}, i) = At(g, Upto(S \cup {n}, i))
        /\ TimesIn(g, S, i) = At(g, Upto(S, i)) /\ TimesIn(h, S, i) = At(h, Upto(S, i))
    BY <1>3
  <2>2. Upto(S \cup {n}, i) = Upto(S, i) /\ At(g, Upto(S, i)) = At(h, Upto(S, i))
    BY <1>4, <1>6, <1>7
  <2> QED
    BY <2>1, <2>2
<1>10. TimesIn(g, S \cup {n}, n) = TimesIn(h, S, Len(h)) \cup {ev.at}
  <2>1. /\ TimesIn(g, S \cup {n}, n) = At(g, Upto(S \cup {n}, n))
        /\ TimesIn(h, S, Len(h)) = At(h, Upto(S, Len(h)))
    BY <1>3
  <2>2. At(g, Upto(S \cup {n}, n)) = At(g, S \cup {n}) /\ At(h, Upto(S, Len(h))) = At(h, S)
    BY <1>5
  <2> QED
    BY <1>8, <2>1, <2>2
<1>11. TimesIn(g, S, n) = TimesIn(h, S, Len(h))
  <2>1. TimesIn(g, S, n) = At(g, Upto(S, n)) /\ TimesIn(h, S, Len(h)) = At(h, Upto(S, Len(h)))
    BY <1>3
  <2>2. At(g, Upto(S, n)) = At(g, S) /\ At(h, Upto(S, Len(h))) = At(h, S)
    BY <1>5
  <2>3. At(g, S) = At(h, S)
    BY <1>7
  <2> QED
    BY <2>1, <2>2, <2>3
<1>12. TimesOf(h, S, ev, g, n)
  BY <1>1, <1>9, <1>10, <1>11 DEF TimesOf
<1> QED
  BY <1>0, <1>12

LEMMA SeriesKept ==
  ASSUME NEW h \in Seq(Classified), NEW ev \in Classified, NEW S \in SUBSET (1 .. Len(h)),
         NEW rc, SeriesIs(rc, h, S)
  PROVE  SeriesIs(rc, Append(h, ev), S)
<1> DEFINE g == Append(h, ev)
           n == Len(h) + 1
<1>0. TimesOf(h, S, ev, g, n)
  BY TimesGrow
<1> HIDE DEF g, n
<1>1. /\ Len(g) = n /\ TimesIn(g, S, n) = TimesIn(h, S, Len(h))
      /\ \A i \in S : TimesIn(g, S, i) = TimesIn(h, S, i)
  BY <1>0 DEF TimesOf
<1>2. \A low, high : ShownIn(g, S, low, high) = ShownIn(h, S, low, high)
  BY <1>1 DEF ShownIn
<1>3. SeriesIs(rc, g, S)
  BY <1>1, <1>2 DEF SeriesIs
<1> QED
  BY <1>3 DEF g

\* One more update is shown where the series stood when it came.
LEMMA SeriesGrows ==
  ASSUME NEW h \in Seq(Classified), NEW ev \in Classified, NEW S \in SUBSET (1 .. Len(h)),
         NEW rc \in Counters, SeriesIs(rc, h, S)
  PROVE  SeriesIs(Counted(rc, ev.at), Append(h, ev), S \cup {Len(h) + 1})
<1> DEFINE g == Append(h, ev)
           N == Len(h) + 1
           t == ev.at
           B == SparkBuckets
           W == BucketWidth
           n == TurnedBy(rc, t)
           new == Counted(rc, t)
           old == Started(rc, t).curStart
           cs == new.curStart
           All == TimesIn(h, S, Len(h))
           T == TimesIn(g, S \cup {N}, N)
           f(i) == Peak(TimesIn(h, S, i))
<1>1. B \in Nat \ {0} /\ W \in Nat \ {0} /\ t \in Int /\ Len(h) \in Nat /\ S \in SUBSET (1 .. Len(h))
  BY SeriesAssumption, LenProperties DEF Classified
<1>2. /\ n \in Nat /\ new.started = TRUE /\ old \in Int /\ cs \in Int
      /\ old = IF rc.started THEN rc.curStart ELSE t
      /\ n = IF t < old THEN 0 ELSE (t - old) \div W
      /\ cs = IF n >= B THEN t ELSE old + n * W
      /\ \A k \in 1 .. B :
           Sparkline(new)[k] = (IF k + n <= B THEN Sparkline(rc)[k + n] ELSE 0)
                               + (IF k = B THEN 1 ELSE 0)
      /\ \A k \in 1 .. B : Sparkline(rc)[k] \in Nat
  BY <1>1, CountedShows
<1> HIDE DEF g, N, t, B, W, n, new, old, cs, All, T, f
<1>3. /\ Len(g) = N /\ N \notin S /\ T = All \cup {t}
      /\ \A i \in S : TimesIn(g, S \cup {N}, i) = TimesIn(h, S, i)
  <2>1. TimesOf(h, S, ev, Append(h, ev), Len(h) + 1)
    BY TimesGrow
  <2>2. TimesOf(h, S, ev, g, N)
    BY <2>1 DEF g, N
  <2> QED
    BY <2>2 DEF TimesOf, T, All, t
<1>4. \A i \in S : f(i) \in Int
  BY PeakExists DEF f
<1>5. All \in SUBSET Int
  <2>1. \A j \in S : h[j].at \in Int
    <3>1. \A j \in 1 .. Len(h) : h[j] \in Classified
      BY LenProperties
    <3> QED
      BY <3>1 DEF Classified
  <2> QED
    BY <2>1 DEF TimesIn, All
<1>6. /\ rc.started <=> S # {}
      /\ S # {} => \E top \in All : /\ \A u \in All : u <= top
                                    /\ rc.curStart <= top /\ top < rc.curStart + W
      /\ \A i \in S : f(i) < rc.curStart + W
      /\ \A k \in 1 .. B :
           Sparkline(rc)[k] = Cardinality(ShownIn(h, S, Begins(rc.curStart, k), Begins(rc.curStart, k + 1)))
  BY DEF SeriesIs, All, W, B, f
<1>7. S = {} => All = {}
  BY DEF TimesIn, All
<1>8. (S # {} => old = rc.curStart) /\ (S = {} => old = t)
  BY <1>2, <1>6
<1> DEFINE p == n * W
<1>9. /\ n \in Nat /\ old \in Int /\ cs \in Int /\ p \in Nat
      /\ (n < B => cs = old + p) /\ (n >= B => cs >= old + p)
      /\ (n = 0 => cs = old /\ t < old + W)
      /\ (n > 0 => cs <= t /\ old + W <= t) /\ t < cs + W
  <2>1. /\ B \in Nat \ {0} /\ W \in Nat \ {0} /\ t \in Int /\ old \in Int /\ cs \in Int /\ n \in Nat
        /\ n = IF t < old THEN 0 ELSE (t - old) \div W
        /\ cs = IF n >= B THEN t ELSE old + n * W
    BY <1>1, <1>2
  <2>2. /\ n * W \in Nat /\ (n >= B => cs >= old + n * W) /\ (n = 0 => cs = old /\ t < old + W)
        /\ (n > 0 => cs <= t /\ old + W <= t) /\ t < cs + W
    <3>1. InBucket(B, W, old, t, TurnTo(W, old, t), StartOf(B, W, old, t))
      BY ONLY <2>1, CurrentBucket
    <3>2. n = TurnTo(W, old, t) /\ cs = StartOf(B, W, old, t)
      BY <2>1 DEF TurnTo, StartOf
    <3> QED
      BY <3>1, <3>2 DEF InBucket
  <2>3. n < B => ~(n >= B)
    BY <2>1
  <2> QED
    BY <2>1, <2>2, <2>3
<1> HIDE DEF p
<1>10. \E m \in T : (\A u \in T : u <= m) /\ cs <= m /\ m < cs + W
  <2>1. CASE S = {}
    <3>1. T = {t}
      BY <1>3, <1>7, <2>1
    <3>2. old = t
      BY <1>8, <2>1
    <3>3. cs = t
      BY <1>1, <1>9, <3>2
    <3> QED
      BY <1>1, <3>1, <3>3
  <2>2. CASE S # {}
    <3>1. PICK top \in All : /\ \A u \in All : u <= top
                             /\ old <= top /\ top < old + W
      BY <1>6, <1>8, <2>2
    <3>2. top \in Int /\ \A u \in All : u \in Int
      BY <1>5
    <3>3. CASE n = 0 /\ t <= top
      <4>1. top \in T /\ (\A u \in T : u <= top) /\ cs <= top /\ top < cs + W
        BY <1>1, <1>3, <1>9, <3>1, <3>2, <3>3
      <4> QED
        BY <4>1
    <3>4. CASE ~(n = 0 /\ t <= top)
      <4>1. top <= t /\ cs <= t
        BY <1>1, <1>9, <3>1, <3>2, <3>4
      <4>2. t \in T /\ (\A u \in T : u <= t) /\ cs <= t /\ t < cs + W
        BY <1>1, <1>3, <1>9, <3>1, <3>2, <4>1
      <4> QED
        BY <4>2
    <3> QED
      BY <3>3, <3>4
  <2> QED
    BY <2>1, <2>2
<1>11. Peak(T) \in Int /\ cs <= Peak(T) /\ Peak(T) < cs + W
  <2>1. PICK m \in T : (\A u \in T : u <= m) /\ cs <= m /\ m < cs + W
    BY <1>10
  <2>2. T \in SUBSET Int
    BY <1>1, <1>3, <1>5
  <2>3. Peak(T) = m /\ m \in Int
    BY <2>1, <2>2, PeakIs
  <2> QED
    BY <2>1, <2>3
<1>12. \A i \in S : f(i) < old + W
  BY <1>6, <1>8
<1>13. \A i \in S : f(i) < cs + W
  <2>1. old <= cs
    BY <1>1, <1>9
  <2> QED
    BY <1>1, <1>4, <1>9, <1>12, <2>1
<1>14. \A i \in S \cup {N} : Peak(TimesIn(g, S \cup {N}, i)) = IF i = N THEN Peak(T) ELSE f(i)
  BY <1>3 DEF T, f
<1> DEFINE Low(k) == Begins(cs, k)
           High(k) == Begins(cs, k + 1)
           OldLow(k) == Begins(old, k)
           OldHigh(k) == Begins(old, k + 1)
           Old(k) == ShownIn(h, S, OldLow(k), OldHigh(k))
           Stays(k) == IF k + n <= B THEN Old(k + n) ELSE {}
<1>15. ASSUME NEW k \in 1 .. B PROVE Sparkline(rc)[k] = Cardinality(Old(k))
  <2>1. CASE S = {}
    <3>1. \A low, high : ShownIn(h, S, low, high) = {}
      BY <2>1 DEF ShownIn
    <3>2. Sparkline(rc)[k] =
            Cardinality(ShownIn(h, S, Begins(rc.curStart, k), Begins(rc.curStart, k + 1)))
      BY <1>6
    <3>3. Old(k) = ShownIn(h, S, Begins(rc.curStart, k), Begins(rc.curStart, k + 1))
      BY <3>1
    <3> HIDE DEF Old
    <3> QED
      BY <3>2, <3>3
  <2>2. CASE S # {}
    BY <1>6, <1>8, <2>2
  <2> QED
    BY <2>1, <2>2
<1>16. ASSUME NEW k \in 1 .. B
       PROVE  ShownIn(g, S \cup {N}, Low(k), High(k)) = IF k = B THEN Stays(k) \cup {N} ELSE Stays(k)
  <2>1. ASSUME NEW i \in S
        PROVE  /\ k + n <= B => (Low(k) <= f(i) /\ f(i) < High(k) <=>
                                   OldLow(k + n) <= f(i) /\ f(i) < OldHigh(k + n))
               /\ k + n > B => ~(Low(k) <= f(i))
    <3> DEFINE x == f(i)
    <3>1. x \in Int /\ x < old + BucketWidth /\ p \in Int /\ p = n * BucketWidth
          /\ k \in 1 .. SparkBuckets /\ n \in Nat /\ old \in Int /\ cs \in Int
          /\ (n < SparkBuckets => cs = old + p) /\ (n >= SparkBuckets => cs >= old + p)
      BY <1>4, <1>9, <1>12 DEF p, W, B
    <3> HIDE DEF x
    <3>2. /\ k + n <= SparkBuckets =>
              (Begins(cs, k) <= x /\ x < Begins(cs, k + 1) <=>
                 Begins(old, k + n) <= x /\ x < Begins(old, k + n + 1))
          /\ k + n > SparkBuckets => ~(Begins(cs, k) <= x)
      BY ONLY <3>1, OldTimes
    <3> QED
      BY <3>2 DEF x, B
  <2>2. Low(k) <= Peak(T) /\ Peak(T) < High(k) <=> k = B
    <3> DEFINE y == Peak(T)
    <3>1. y \in Int /\ cs \in Int /\ cs <= y /\ y < cs + BucketWidth /\ k \in 1 .. SparkBuckets
      BY <1>9, <1>11 DEF W, B
    <3> HIDE DEF y
    <3>2. Begins(cs, k) <= y /\ y < Begins(cs, k + 1) <=> k = SparkBuckets
      BY ONLY <3>1, NewTime
    <3> QED
      BY <3>2 DEF y, B
  <2>3. k + n <= B \/ k + n > B
    BY <1>1, <1>9
  <2>4. ~(k + n <= B /\ k + n > B)
    BY <1>1, <1>9
  <2> HIDE DEF Low, High, OldLow, OldHigh
  <2>5. \A i \in S : Low(k) <= f(i) /\ f(i) < High(k) <=> i \in Stays(k)
    <3>1. \A i \in S : i \in Old(k + n) <=> OldLow(k + n) <= f(i) /\ f(i) < OldHigh(k + n)
      BY DEF ShownIn, f
    <3> HIDE DEF Old
    <3> QED
      BY <2>1, <2>3, <2>4, <3>1
  <2>6. Stays(k) \subseteq S
    BY DEF ShownIn
  <2>7. ShownIn(g, S \cup {N}, Low(k), High(k)) =
          {i \in S \cup {N} : Low(k) <= (IF i = N THEN Peak(T) ELSE f(i))
                              /\ (IF i = N THEN Peak(T) ELSE f(i)) < High(k)}
    BY <1>14 DEF ShownIn
  <2> HIDE DEF Stays
  <2> QED
    BY <1>3, <2>2, <2>5, <2>6, <2>7
<1>17. ASSUME NEW k \in 1 .. B
       PROVE  Sparkline(new)[k] = Cardinality(ShownIn(g, S \cup {N}, Low(k), High(k)))
  <2>1. Stays(k) \in SUBSET (1 .. Len(h))
    BY <1>1 DEF ShownIn
  <2>2. k + n <= B => k + n \in 1 .. B
    BY <1>1, <1>9
  <2>3. Cardinality(Stays(k)) = (IF k + n <= B THEN Sparkline(rc)[k + n] ELSE 0)
        /\ Cardinality(Stays(k)) \in Nat /\ Cardinality(Stays(k) \cup {N}) = Cardinality(Stays(k)) + 1
    <3> HIDE DEF Old, Low, High, OldLow, OldHigh
    <3>1. k + n <= B => Cardinality(Stays(k)) = Sparkline(rc)[k + n]
      BY <1>15, <2>2
    <3>2. ~(k + n <= B) => Cardinality(Stays(k)) = 0
      BY FS_EmptySet
    <3> HIDE DEF Stays
    <3>3. Cardinality(Stays(k)) \in Nat /\ Cardinality(Stays(k) \cup {N}) = Cardinality(Stays(k)) + 1
      BY <1>1, <2>1, OneMore DEF N
    <3> QED
      BY <3>1, <3>2, <3>3
  <2>4. Sparkline(new)[k] = (IF k + n <= B THEN Sparkline(rc)[k + n] ELSE 0) + (IF k = B THEN 1 ELSE 0)
    BY <1>2
  <2>5. ShownIn(g, S \cup {N}, Low(k), High(k)) = IF k = B THEN Stays(k) \cup {N} ELSE Stays(k)
    BY <1>16
  <2> DEFINE Q == ShownIn(g, S \cup {N}, Low(k), High(k))
             c == Cardinality(Stays(k))
             l == Sparkline(new)[k]
  <2>6. /\ c \in Nat /\ (k = B => Cardinality(Q) = c + 1) /\ (k # B => Cardinality(Q) = c)
        /\ l = c + (IF k = B THEN 1 ELSE 0)
    <3> HIDE DEF Stays, Low, High
    <3> QED
      BY <2>3, <2>4, <2>5
  <2> HIDE DEF Q, c, l
  <2>7. l = Cardinality(Q)
    BY <2>6
  <2> QED
    BY <2>7 DEF Q, l
<1>18. T = TimesIn(g, S \cup {N}, Len(g)) /\ S \cup {N} # {}
  BY <1>3 DEF T
<1>19. \A i \in S \cup {N} : Peak(TimesIn(g, S \cup {N}, i)) < cs + W
  BY <1>11, <1>13, <1>14
<1>20. SeriesIs(new, g, S \cup {N})
  <2>1. new.started <=> S \cup {N} # {}
    BY <1>2
  <2>2. \E m \in TimesIn(g, S \cup {N}, Len(g)) :
          /\ \A u \in TimesIn(g, S \cup {N}, Len(g)) : u <= m
          /\ new.curStart <= m /\ m < new.curStart + BucketWidth
    BY <1>10, <1>18 DEF cs, W
  <2>3. \A i \in S \cup {N} : Peak(TimesIn(g, S \cup {N}, i)) < new.curStart + BucketWidth
    BY <1>19 DEF cs, W
  <2>4. \A k \in 1 .. SparkBuckets :
          Sparkline(new)[k] =
            Cardinality(ShownIn(g, S \cup {N}, Begins(new.curStart, k), Begins(new.curStart, k + 1)))
    BY <1>17 DEF cs, W, B
  <2> DEFINE R == S \cup {N}
  <2> HIDE DEF R
  <2>5. SeriesIs(new, g, R)
    BY <2>1, <2>2, <2>3, <2>4 DEF SeriesIs, R
  <2> QED
    BY <2>5 DEF R
<1> QED
  BY <1>20 DEF new, g, N, t


LEMMA NewSeries ==
  ASSUME NEW h
  PROVE  SeriesIs(NewCounters, h, {})
<1>1. SparkBuckets \in Nat \ {0}
  BY SeriesAssumption
<1>2. ASSUME NEW k \in 1 .. SparkBuckets PROVE Sparkline(NewCounters)[k] = 0
  <2>1. 0 \in Slots /\ k \in 0 .. 2 * SparkBuckets
    BY <1>1 DEF Slots
  <2>2. After(0, k) \in Slots
    BY <2>1, SlotAfter
  <2> DEFINE s == (0 + k) % SparkBuckets
  <2>3. s \in Slots
    BY <2>2 DEF After
  <2>4. Sparkline(NewCounters)[k] = NewCounters.buckets[s]
    BY DEF Sparkline, NewCounters
  <2> HIDE DEF s
  <2> QED
    BY <2>3, <2>4 DEF NewCounters
<1>3. \A low, high : ShownIn(h, {}, low, high) = {}
  BY DEF ShownIn
<1>4. Cardinality({}) = 0
  BY FS_EmptySet
<1>5. NewCounters.started = FALSE
  BY DEF NewCounters
<1> HIDE DEF NewCounters
<1> QED
  BY <1>2, <1>3, <1>4, <1>5 DEF SeriesIs

(***************************************************************************)
(* The series of every node is that of its announcements.                  *)
(***************************************************************************)
SeriesInv == \A a \in DOMAIN nodes : SeriesIs(nodes[a].series, log, By(a))

LEMMA SeriesInit == Init => SeriesInv
  BY DEF Init, SeriesInv

\* What a step leaves of the series of a node that was there, or of a new one.
LEMMA SeriesCounted ==
  ASSUME TypeOK, NEW ev \in Classified, Apply(ev), NEW a \in ASN, a \in DOMAIN nodes'
  PROVE  LET old == IF a \in DOMAIN nodes THEN nodes[a] ELSE NewNode
         IN  nodes'[a].series = IF Announced(ev) /\ ev.origin = a THEN Counted(old.series, ev.at)
                                ELSE old.series
<1> DEFINE old == IF a \in DOMAIN nodes THEN nodes[a] ELSE NewNode
<1>1. old \in Node
  BY NewNodeType DEF TypeOK
<1>2. CASE AnnounceTracked(ev)
  <2>1. CASE a = ev.origin
    <3>1. nodes'[a] = [Observed(old, ev) EXCEPT !.prefixes = Moved(a, Observed(old, ev).prefixes, ev)]
      BY <1>2, <2>1 DEF AnnounceTracked, WithNodes
    <3>2. Observed(old, ev) \in Node
      BY <1>1, ObservedType
    <3>3. nodes'[a].series = Observed(old, ev).series
      BY <3>1, <3>2 DEF Node
    <3>4. Observed(old, ev).series = Counted(old.series, ev.at)
      BY <1>1 DEF Observed, Node
    <3>5. Announced(ev) /\ ev.origin = a
      BY <1>2, <2>1 DEF AnnounceTracked, Announced
    <3> QED
      BY <3>3, <3>4, <3>5
  <2>2. CASE a # ev.origin
    <3>1. nodes'[a] = [old EXCEPT !.prefixes = Moved(a, old.prefixes, ev)]
      BY <1>2, <2>2 DEF AnnounceTracked, WithNodes
    <3> QED
      BY <1>1, <2>2, <3>1 DEF Node
  <2> QED
    BY <2>1, <2>2
<1>3. CASE AnnounceUntracked(ev)
  <2>1. nodes'[a] = old
    BY <1>3 DEF AnnounceUntracked, WithNodes
  <2>2. ev.origin # a
    BY <1>3, TopologyAssumption DEF AnnounceUntracked
  <2> QED
    BY <2>1, <2>2
<1>4. CASE Withdraw(ev)
  <2>1. nodes'[a] = [old EXCEPT !.prefixes = Disowned(a, old.prefixes, ev)] /\ ~Announced(ev)
    BY <1>4 DEF Withdraw, Announced
  <2> QED
    BY <1>1, <2>1 DEF Node
<1> QED
  BY <1>2, <1>3, <1>4 DEF Apply

LEMMA SeriesApplied ==
  ASSUME GraphInv, GraphInv', OriginsOnGraph, SeriesInv, NEW ev \in Events,
         ev \in Classified, Apply(ev)
  PROVE  SeriesInv'
<1>1. log \in Seq(Events) /\ log' = Append(log, ev) /\ Len(log) \in Nat
      /\ Len(log') = Len(log) + 1 /\ DOMAIN nodes' \subseteq ASN
  BY Appended DEF GraphInv, TypeOK, Apply, AnnounceTracked, AnnounceUntracked, Withdraw, Store
<1>2. log \in Seq(Classified)
  BY LogIsClassified DEF GraphInv
<1>3. ASSUME NEW a \in DOMAIN nodes'
      PROVE  SeriesIs(nodes'[a].series, log', By(a)')
  <2> DEFINE old == IF a \in DOMAIN nodes THEN nodes[a] ELSE NewNode
             b == Announced(ev) /\ ev.origin = a
             S == By(a)
             rc == old.series
  <2>0. a \in ASN
    BY <1>1
  <2>1. S \in SUBSET (1 .. Len(log)) /\ By(a)' = IF b THEN S \cup {Len(log) + 1} ELSE S
    BY <1>1, <2>0, Appended DEF By, Such
  <2>2. rc \in Counters
    <3>1. old \in Node
      BY NewNodeType DEF GraphInv, TypeOK
    <3> QED
      BY <3>1 DEF Node
  <2>3. nodes'[a].series = IF b THEN Counted(rc, ev.at) ELSE rc
    BY <1>1, <2>0, SeriesCounted DEF GraphInv
  <2>4. SeriesIs(rc, log, S)
    <3>1. CASE a \in DOMAIN nodes
      BY <3>1 DEF SeriesInv
    <3>2. CASE a \notin DOMAIN nodes
      <4>1. S = {} /\ rc = NewCounters
        BY <2>0, <3>2 DEF OriginsOnGraph, NewNode
      <4> QED
        BY <4>1, NewSeries
    <3> QED
      BY <3>1, <3>2
  <2> HIDE DEF rc, S, old, b
  <2>5. CASE b
    <3>1. SeriesIs(Counted(rc, ev.at), Append(log, ev), S \cup {Len(log) + 1})
      BY <1>2, <2>1, <2>2, <2>4, SeriesGrows
    <3> QED
      BY <1>1, <2>1, <2>3, <2>5, <3>1
  <2>6. CASE ~b
    <3>1. SeriesIs(rc, Append(log, ev), S)
      BY <1>2, <2>1, <2>4, SeriesKept
    <3> QED
      BY <1>1, <2>1, <2>3, <2>6, <3>1
  <2> QED
    BY <2>5, <2>6
<1> QED
  BY <1>3 DEF SeriesInv

LEMMA SeriesStep == GraphInv /\ GraphInv' /\ CountersInv /\ SeriesInv /\ [Next]_vars => SeriesInv'
<1> SUFFICES ASSUME GraphInv, GraphInv', CountersInv, SeriesInv, [Next]_vars PROVE SeriesInv'
  OBVIOUS
<1>1. ASSUME Len(log) < MaxEvents, NEW u \in Update, Apply(Numbered(u)) PROVE SeriesInv'
  <2> DEFINE ev == Numbered(u)
  <2>1. ev \in Events /\ ev \in Classified
    BY <1>1, NumberedEvent DEF GraphInv
  <2>2. Apply(ev)
    BY <1>1
  <2> HIDE DEF ev
  <2> QED
    BY <2>1, <2>2, SeriesApplied DEF CountersInv
<1>2. CASE Tick \/ UNCHANGED vars
  <2>1. nodes' = nodes /\ log' = log
    BY <1>2 DEF Tick, vars
  <2>2. \A a : By(a)' = By(a)
    BY <2>1, SameHistory
  <2> QED
    BY <2>1, <2>2 DEF SeriesInv
<1> QED
  BY <1>1, <1>2 DEF Next

LEMMA SeriesAreHistograms == SeriesInv => SparklinesAreHistograms
<1> SUFFICES ASSUME SeriesInv, NEW a \in DOMAIN nodes, NEW k \in 1 .. SparkBuckets
             PROVE  LET rc     == nodes[a].series
                        Low(i) == rc.curStart + (i - SparkBuckets) * BucketWidth
                    IN  Sparkline(rc)[k] =
                          Cardinality({i \in By(a) : Low(k) <= LatestShown(a, i)
                                                     /\ LatestShown(a, i) < Low(k + 1)})
  BY Zenon DEF SparklinesAreHistograms
<1> DEFINE rc == nodes[a].series
           Low(i) == rc.curStart + (i - SparkBuckets) * BucketWidth
<1>1. Sparkline(rc)[k] =
        Cardinality(ShownIn(log, By(a), Begins(rc.curStart, k), Begins(rc.curStart, k + 1)))
  BY DEF SeriesInv, SeriesIs
<1>2. \A i : LatestShown(a, i) = Peak(TimesIn(log, By(a), i))
  BY Zenon DEF LatestShown, Times, Peak, TimesIn
<1>3. Begins(rc.curStart, k) = Low(k) /\ Begins(rc.curStart, k + 1) = Low(k + 1)
  BY Zenon DEF Begins
<1> HIDE DEF Low
<1>4. ShownIn(log, By(a), Low(k), Low(k + 1)) =
        {i \in By(a) : Low(k) <= LatestShown(a, i) /\ LatestShown(a, i) < Low(k + 1)}
  BY <1>2 DEF ShownIn
<1> HIDE DEF rc
<1>5. Sparkline(rc)[k] =
        Cardinality({i \in By(a) : Low(k) <= LatestShown(a, i) /\ LatestShown(a, i) < Low(k + 1)})
  BY <1>1, <1>3, <1>4
<1> QED
  BY <1>5 DEF rc, Low

-----------------------------------------------------------------------------

LEMMA ServerInitInv == Init => ServerInv
<1> SUFFICES ASSUME Init PROVE ServerInv
  OBVIOUS
<1>1. log = <<>> /\ DOMAIN nodes = {} /\ DOMAIN edges = {}
  BY DEF Init
<1>2. GraphInv
  BY InitInv
<1> QED
  BY <1>1, <1>2 DEF ServerInv, EdgesAreTheHistory, CrossedBy, SeenIn

LEMMA ServerStep == ServerInv /\ [Next]_vars => ServerInv'
<1> SUFFICES ASSUME ServerInv, [Next]_vars PROVE ServerInv'
  OBVIOUS
<1>1. ASSUME Len(log) < MaxEvents, NEW u \in Update, Apply(Numbered(u)) PROVE ServerInv'
  BY <1>1, ServerApplied
<1>2. CASE Tick \/ UNCHANGED vars
  <2>1. GraphInv' /\ EdgesAreTheHistory'
    BY NextInv, EdgesStep DEF ServerInv
  <2>2. nodes' = nodes /\ log' = log
    BY <1>2 DEF Tick, vars
  <2> QED
    BY <2>1, <2>2 DEF ServerInv
<1> QED
  BY <1>1, <1>2 DEF Next

(***************************************************************************)
(* What a reader is shown is what happened, whatever he asks for: the      *)
(* newest updates, of an edge or of all, each AS's own view of its         *)
(* adjacencies, the busiest origins, and throughput by event time (rest.go:*)
(* handleEvents, handleASN, handleEdge; views.go: buildASNDetail,          *)
(* buildEdgeDetail, topOrigins; series.go: add, series).                   *)
(***************************************************************************)
THEOREM ViewsAlwaysTheHistory == Spec => []ViewsAreTheHistory
<1> DEFINE ViewsInv == ServerInv /\ RecentInv /\ CountersInv /\ SeriesInv
<1>1. Init => ViewsInv
  BY ServerInitInv, RecentInit, CountersInit, SeriesInit
<1>2. ViewsInv /\ [Next]_vars => ViewsInv'
  <2> SUFFICES ASSUME ViewsInv, [Next]_vars PROVE ViewsInv'
    OBVIOUS
  <2>1. ServerInv' /\ GraphInv /\ GraphInv'
    BY ServerStep DEF ServerInv
  <2> QED
    BY <2>1, RecentStep, CountersStep, SeriesStep
<1>3. ViewsInv => ViewsAreTheHistory
  <2> SUFFICES ASSUME ViewsInv PROVE ViewsAreTheHistory
    OBVIOUS
  <2>1. GraphInv
    BY DEF ServerInv
  <2> QED
    BY <2>1, RequestsAreAnswered, CardsAreTheBusiest, SeriesAreHistograms DEF ViewsAreTheHistory
<1> HIDE DEF ViewsInv
<1> QED
  BY <1>1, <1>2, <1>3, PTL DEF Spec

=============================================================================
