------------------------------ MODULE Topology ------------------------------
(***************************************************************************)
(* The graph, ring and counters the aggregator goroutine owns (topology/   *)
(* apply.go, graph.go, ring.go, stats.go).  One action per kind of event;  *)
(* each performs everything apply does, in its order: origin node, path    *)
(* edges, RIB, ring, stats.                                                *)
(***************************************************************************)
EXTENDS Integers, Sequences, FiniteSets, Bgp, Series

CONSTANTS
  ASN, Prefix,
  Update,     (* the classified events that may arrive, not yet numbered *)
  MaxSamples, (* maxSamplesPerEdge                                       *)
  RingCap,    (* capacity of the event ring                              *)
  NoEvent,
  MaxEvents   (* bound on the events of a run                            *)

Hop == [from : ASN, to : ASN, rel : RelStatus]

\* What the classifier puts on its output channel.
Classified ==
  [id : Nat, at : Int, kind : UpdateKind, prefix : Prefix, path : Seq(ASN), hops : Seq(Hop),
   origin : ASN \cup {NoAS}, vf : VFStatus, rpki : RPKIStatus, offender : ASN \cup {NoAS}]

ASSUME TopologyAssumption ==
  /\ NoAS \notin ASN
  /\ MaxSamples \in Nat /\ RingCap \in Nat /\ MaxEvents \in Nat
  /\ \A u \in Update : u \in Classified
  /\ NoEvent \notin Classified

VARIABLES
  nodes,           (* Nodes: AS -> node, for the ASes seen            *)
  edges,           (* Edges: <<from, to>> -> edge                     *)
  rib,             (* rib: prefix -> origin, NoAS when not announced  *)
  buf, head, size, (* the event ring                                  *)
  stats,
  log              (* auxiliary: every update applied, in order       *)

graph == <<nodes, edges, rib>>
vars == <<nodes, edges, rib, buf, head, size, stats, log>>

\* The source numbers its events in the order it sends them.
Numbered(u) == [u EXCEPT !.id = Len(log) + 1]

Events == {[u EXCEPT !.id = k] : u \in Update, k \in 1 .. MaxEvents}

Ring == INSTANCE EventRing WITH Capacity <- RingCap, Event <- Events

-----------------------------------------------------------------------------
(* Nodes                                                                   *)

NewNode ==
  [prefixes |-> {}, rpki |-> [s \in RPKIStatus |-> 0], events |-> 0, worst |-> "notfound",
   series |-> NewCounters]

\* TopologyGraph.node for each AS of S: created on first sight, else kept.
WithNodes(g, S) == [a \in DOMAIN g \cup S |-> IF a \in DOMAIN g THEN g[a] ELSE NewNode]

\* worseRPKI: invalid beats valid beats not found.
WorseRPKI(s, t) ==
  IF "invalid" \in {s, t} THEN "invalid"
  ELSE IF "valid" \in {s, t} THEN "valid" ELSE "notfound"

\* applyOrigin, on the origin's node.
Observed(n, ev) ==
  [n EXCEPT !.events = @ + 1, !.rpki[ev.rpki] = @ + 1, !.worst = WorseRPKI(@, ev.rpki),
            !.series = Counted(@, ev.at)]

-----------------------------------------------------------------------------
(* Edges                                                                   *)

\* Mutated Steps: prepending draws an edge from an AS to itself.
StepsWithPrepending(path) == 1 .. Len(path) - 1

\* The positions where the path moves to another AS.
Steps(path) == {k \in 1 .. Len(path) - 1 : path[k] # path[k + 1]}

Crosses(path, e) == {k \in Steps(path) : <<path[k], path[k + 1]>> = e}

EdgesOf(path) == {<<path[k], path[k + 1]>> : k \in Steps(path)}

Endpoints(path) == {path[k] : k \in Steps(path)} \cup {path[k + 1] : k \in Steps(path)}

\* Mutated RelForHop: the hop is looked for the other way round.
RelForHopReversed(hops, e) ==
  LET at == {k \in 1 .. Len(hops) : hops[k].from = e[2] /\ hops[k].to = e[1]}
  IN  IF at = {} THEN "unknown" ELSE hops[CHOOSE k \in at : \A j \in at : k <= j].rel

RelForHop(hops, e) ==
  LET at == {k \in 1 .. Len(hops) : hops[k].from = e[1] /\ hops[k].to = e[2]}
  IN  IF at = {} THEN "unknown" ELSE hops[CHOOSE k \in at : \A j \in at : k <= j].rel

NewEdge(e, ev) ==
  [rel |-> RelForHop(ev.hops, e), status |-> "valid", count |-> 0, leaks |-> 0,
   hijacks |-> 0, last |-> 0, samples |-> <<>>]

\* appendSample's FIFO: at most MaxSamples, the oldest dropped.
Newest(s) == SubSeq(s, IF Len(s) > MaxSamples THEN Len(s) - MaxSamples + 1 ELSE 1, Len(s))

\* upsertEdge, n times over for an edge the path crosses n times.
Upsert(old, n, ev) ==
  [old EXCEPT !.count = @ + n,
              !.leaks = IF ev.vf = "leak" THEN @ + n ELSE @,
              !.hijacks = IF ev.vf = "hijack" THEN @ + n ELSE @,
              !.status = ev.vf, !.last = ev.id,
              !.samples = Newest(@ \o [k \in 1 .. n |-> ev.id])]

\* applyEdges, on the edges.
ApplyEdges(ev) ==
  edges' = [e \in DOMAIN edges \cup EdgesOf(ev.path) |->
              LET old == IF e \in DOMAIN edges THEN edges[e] ELSE NewEdge(e, ev)
              IN  IF e \in EdgesOf(ev.path)
                  THEN Upsert(old, Cardinality(Crosses(ev.path, e)), ev)
                  ELSE old]

-----------------------------------------------------------------------------
(* The RIB                                                                 *)

\* Mutated Moved: the previous owner is not told.
MovedWithoutDisowning(a, prefixes, ev) ==
  IF a = ev.origin THEN prefixes \cup {ev.prefix} ELSE prefixes

\* applyRIB on an announcement: the previous owner, if another AS, loses the prefix.
Moved(a, prefixes, ev) ==
  IF a = ev.origin THEN prefixes \cup {ev.prefix}
  ELSE IF a = rib[ev.prefix] THEN prefixes \ {ev.prefix}
  ELSE prefixes

\* applyRIB on a withdraw: the owner loses the prefix.
Disowned(a, prefixes, ev) == IF a = rib[ev.prefix] THEN prefixes \ {ev.prefix} ELSE prefixes

-----------------------------------------------------------------------------
(* Counters                                                                *)

NoStats ==
  [total |-> 0, announces |-> 0, withdraws |-> 0, leaks |-> 0, hijacks |-> 0,
   rpki |-> [s \in RPKIStatus |-> 0],
   tick |-> 0,  (* tickEvents: not yet in the rate       *)
   rated |-> 0] (* events folded into the rate, in total *)

\* Mutated Record: a withdraw's neutral verdict is counted as a validation.
RecordEveryVerdict(ev) ==
  LET announced == ev.kind = "announce" IN
  stats' = [stats EXCEPT !.total = @ + 1, !.tick = @ + 1,
                         !.announces = IF announced THEN @ + 1 ELSE @,
                         !.withdraws = IF announced THEN @ ELSE @ + 1,
                         !.leaks = IF ev.vf = "leak" THEN @ + 1 ELSE @,
                         !.hijacks = IF ev.vf = "hijack" THEN @ + 1 ELSE @,
                         !.rpki[ev.rpki] = @ + 1]

\* Stats.record.
Record(ev) ==
  LET announced == ev.kind = "announce" IN
  stats' = [stats EXCEPT !.total = @ + 1, !.tick = @ + 1,
                         !.announces = IF announced THEN @ + 1 ELSE @,
                         !.withdraws = IF announced THEN @ ELSE @ + 1,
                         !.leaks = IF ev.vf = "leak" THEN @ + 1 ELSE @,
                         !.hijacks = IF ev.vf = "hijack" THEN @ + 1 ELSE @,
                         !.rpki[ev.rpki] = IF announced THEN @ + 1 ELSE @]

-----------------------------------------------------------------------------

Init ==
  /\ nodes = [a \in {} |-> NewNode]
  /\ edges = [e \in {} |-> 0]
  /\ rib = [p \in Prefix |-> NoAS]
  /\ Ring!Init
  /\ stats = NoStats
  /\ log = <<>>

\* What apply ends with for every event.
Store(ev) ==
  /\ Ring!Push(ev)
  /\ Record(ev)
  /\ log' = Append(log, ev)

\* An announcement whose origin is known.
AnnounceTracked(ev) ==
  /\ ev.kind = "announce" /\ ev.origin # NoAS
  /\ LET seen == WithNodes(nodes, {ev.origin} \cup Endpoints(ev.path))
         at(a) == IF a = ev.origin THEN Observed(seen[a], ev) ELSE seen[a]
     IN  nodes' = [a \in DOMAIN seen |-> [at(a) EXCEPT !.prefixes = Moved(a, @, ev)]]
  /\ ApplyEdges(ev)
  /\ rib' = [rib EXCEPT ![ev.prefix] = ev.origin]
  /\ Store(ev)

\* An announcement whose origin an AS_SET hides: edges only.
AnnounceUntracked(ev) ==
  /\ ev.kind = "announce" /\ ev.origin = NoAS
  /\ nodes' = WithNodes(nodes, Endpoints(ev.path))
  /\ ApplyEdges(ev)
  /\ UNCHANGED rib
  /\ Store(ev)

\* Mutated Withdraw: the RIB entry stays behind.
WithdrawKeepingEntry(ev) ==
  /\ ev.kind = "withdraw"
  /\ nodes' = [a \in DOMAIN nodes |-> [nodes[a] EXCEPT !.prefixes = Disowned(a, @, ev)]]
  /\ UNCHANGED <<rib, edges>>
  /\ Store(ev)

\* A withdraw releases the prefix, if anybody has it.
Withdraw(ev) ==
  /\ ev.kind = "withdraw"
  /\ nodes' = [a \in DOMAIN nodes |-> [nodes[a] EXCEPT !.prefixes = Disowned(a, @, ev)]]
  /\ rib' = [rib EXCEPT ![ev.prefix] = NoAS]
  /\ UNCHANGED edges
  /\ Store(ev)

Apply(ev) == AnnounceTracked(ev) \/ AnnounceUntracked(ev) \/ Withdraw(ev)

\* Stats.tick, once a second; the average itself is left out.
Tick ==
  /\ stats' = [stats EXCEPT !.rated = @ + stats.tick, !.tick = 0]
  /\ UNCHANGED <<nodes, edges, rib, buf, head, size, log>>

Next ==
  \/ Len(log) < MaxEvents /\ \E u \in Update : Apply(Numbered(u))
  \/ Tick

Spec == Init /\ [][Next]_vars

-----------------------------------------------------------------------------

Node ==
  [prefixes : SUBSET Prefix, rpki : [RPKIStatus -> Nat], events : Nat, worst : RPKIStatus,
   series : Counters]

Edge ==
  [rel : RelStatus, status : VFStatus, count : Nat, leaks : Nat, hijacks : Nat,
   last : 0 .. MaxEvents, samples : Seq(1 .. MaxEvents)]

StatsType ==
  [total : Nat, announces : Nat, withdraws : Nat, leaks : Nat, hijacks : Nat,
   rpki : [RPKIStatus -> Nat], tick : Nat, rated : Nat]

\* Type invariant: partial functions for the two maps, samples within their bound.
TypeOK ==
  /\ DOMAIN nodes \subseteq ASN /\ nodes \in [DOMAIN nodes -> Node]
  /\ DOMAIN edges \subseteq ASN \X ASN /\ edges \in [DOMAIN edges -> Edge]
  /\ \A e \in DOMAIN edges : Len(edges[e].samples) <= MaxSamples
  /\ rib \in [Prefix -> ASN \cup {NoAS}]
  /\ Ring!TypeOK
  /\ stats \in StatsType
  /\ log \in Seq(Events) /\ Len(log) <= MaxEvents

(***************************************************************************)
(* The two indexes of who originates what never drift apart: a node lists  *)
(* a prefix exactly while the RIB names it as the owner, so a prefix has   *)
(* at most one owner and none is lost when it moves (apply.go: applyRIB;   *)
(* graph.go: "drives PrefixCount").                                        *)
(***************************************************************************)
RibPrefixesAgree ==
  /\ \A p \in Prefix : rib[p] \in DOMAIN nodes \cup {NoAS}
  /\ \A a \in DOMAIN nodes, p \in Prefix : p \in nodes[a].prefixes <=> rib[p] = a

(***************************************************************************)
(* Every edge a snapshot lists can be drawn: both its ends are nodes of    *)
(* the same snapshot and it joins two different ASes, and a leak or hijack *)
(* tally never exceeds the edge's count (apply.go: applyEdges).            *)
(***************************************************************************)
EdgesClosed ==
  \A e \in DOMAIN edges :
    /\ e[1] \in DOMAIN nodes /\ e[2] \in DOMAIN nodes
    /\ e[1] # e[2]
    /\ edges[e].leaks + edges[e].hijacks <= edges[e].count

(***************************************************************************)
(* Read backwards from head, the ring is the bounded log of the newest     *)
(* updates whatever else apply does in between (ring.go: push, recent).    *)
(***************************************************************************)
RingIsRecentLog == Ring!RingIsRecentLog

Owns(a) == IF a \in DOMAIN nodes THEN nodes[a].prefixes ELSE {}

Origins == INSTANCE OriginTable WITH owns <- [a \in ASN |-> Owns(a)]

(***************************************************************************)
(* Through its nodes' prefix sets the graph is a table of owners: an       *)
(* announcement moves its prefix away from every other AS although apply   *)
(* only looks at the one the RIB names (apply.go: applyRIB).               *)
(***************************************************************************)
GraphIsOriginTable == Origins!Spec

=============================================================================
