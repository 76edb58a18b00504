-------------------------- MODULE TopologyHistory --------------------------
(***************************************************************************)
(* The graph as the summary of the updates applied to it, all of them, in  *)
(* the order they came: what apply.go adds up one event at a time is said  *)
(* here of the whole history at once.                                      *)
(***************************************************************************)
EXTENDS Topology

CONSTANT RelOf \* the relationship store: <<from, to>> -> relationship

\* The classifier's hops: each step of the path has one, and a hop says what the store
\* says.
Annotated(u) ==
  /\ \A j \in 1 .. Len(u.hops) : u.hops[j].rel = RelOf[<<u.hops[j].from, u.hops[j].to>>]
  /\ \A k \in 1 .. Len(u.path) - 1 : u.path[k] # u.path[k + 1] =>
       \E j \in 1 .. Len(u.hops) : u.hops[j].from = u.path[k] /\ u.hops[j].to = u.path[k + 1]

\* The store is loaded once and every update is classified against it.
ASSUME HistoryAssumption == \A u \in Update : Annotated(u)

Ids == 1 .. Len(log)

\* Which updates of history h pass the test.
Such(h, Is(_)) == {i \in 1 .. Len(h) : Is(h[i])}

Announced(ev) == ev.kind = "announce"
Withdrawn(ev) == ev.kind = "withdraw"
Leaked(ev) == ev.vf = "leak"
Hijacked(ev) == ev.vf = "hijack"

Announcements(h) == Such(h, Announced)
Withdraws(h) == Such(h, Withdrawn)
Leaks(h) == Such(h, Leaked)
Hijacks(h) == Such(h, Hijacked)

Latest(S) == CHOOSE i \in S : \A j \in S : j <= i

-----------------------------------------------------------------------------
(* Edges                                                                   *)

\* Where an announcement's path goes from one AS straight to another.
CrossedAt(ev, e) ==
  {k \in 1 .. Len(ev.path) - 1 : Announced(ev) /\ ev.path[k] = e[1] /\ ev.path[k + 1] = e[2]}

\* How often the updates I of history h cross edge e.
Crossings(h, e, I) == Cardinality(UNION {{i} \X CrossedAt(h[i], e) : i \in I})

CrossedBy(h, e) == {i \in 1 .. Len(h) : CrossedAt(h[i], e) # {}}

LesserOf(m, n) == IF m < n THEN m ELSE n

\* The sample with n others after it is of a crossing with n others after it.
SamplesAreTheNewest(d, e, h) ==
  LET s        == d.samples
      Later(i) == Crossings(h, e, i + 1 .. Len(h))
  IN  /\ Len(s) = LesserOf(MaxSamples, d.count)
      /\ \A k \in 1 .. Len(s) :
           /\ s[k] \in 1 .. Len(h)
           /\ Later(s[k]) <= Len(s) - k
           /\ Len(s) - k < Later(s[k]) + Cardinality(CrossedAt(h[s[k]], e))

\* Record d counts the crossings of e in history h.
CountsCrossings(d, e, h) ==
  /\ d.count = Crossings(h, e, 1 .. Len(h))
  /\ d.leaks = Crossings(h, e, Leaks(h))
  /\ d.hijacks = Crossings(h, e, Hijacks(h))

\* What record d of edge e says of history h.
EdgeSums(d, e, h) == CountsCrossings(d, e, h) /\ SamplesAreTheNewest(d, e, h)

EdgeLatest(d, e, h) == d.last = Latest(CrossedBy(h, e)) /\ d.status = h[d.last].vf

(***************************************************************************)
(* An edge is the summary of exactly the crossings in the history: counts, *)
(* leak and hijack tallies, latest event and status, and the ids of the    *)
(* newest MaxSamples crossings, oldest first; and its relationship is the  *)
(* store's, although it is read once, from the annotation of the first     *)
(* path that crossed it, which may have been prepended (apply.go:          *)
(* applyEdges, upsertEdge, appendSample, relForHop; classifier.go:         *)
(* buildHops).                                                             *)
(***************************************************************************)
EdgesAreTheHistory ==
  /\ \A e \in ASN \X ASN : e[1] # e[2] /\ CrossedBy(log, e) # {} => e \in DOMAIN edges
  /\ \A e \in DOMAIN edges :
       /\ CrossedBy(log, e) # {}
       /\ EdgeSums(edges[e], e, log)
       /\ EdgeLatest(edges[e], e, log)
       /\ edges[e].rel = RelOf[e]

-----------------------------------------------------------------------------
(* The RIB                                                                 *)

\* The events that say anything about who owns a prefix.
WordsOn(p) ==
  Such(log, LAMBDA ev : ev.prefix = p /\ (Withdrawn(ev) \/ ev.origin # NoAS))

(***************************************************************************)
(* The RIB names the origin of the last event on the prefix that says      *)
(* anything about its owner: a withdraw, or an announcement with a known   *)
(* origin (apply.go: applyRIB).                                            *)
(***************************************************************************)
OwnerIsFromTheLastWord ==
  \A p \in Prefix :
    rib[p] = IF WordsOn(p) = {} THEN NoAS
             ELSE LET word == log[Latest(WordsOn(p))]
                  IN  IF Withdrawn(word) THEN NoAS ELSE word.origin

-----------------------------------------------------------------------------
(* Counters                                                                *)

\* The announcements by verdict, of all ASes and of one.
Judged(s) == Such(log, LAMBDA ev : Announced(ev) /\ ev.rpki = s)
By(a) == Such(log, LAMBDA ev : Announced(ev) /\ ev.origin = a)
Verdicts(a, s) == Such(log, LAMBDA ev : Announced(ev) /\ ev.origin = a /\ ev.rpki = s)

\* The counters of the stats frame.
TotalsAreTheHistory ==
  /\ stats.total = Len(log)
  /\ stats.announces = Cardinality(Announcements(log))
  /\ stats.withdraws = Cardinality(Withdraws(log))
  /\ stats.leaks = Cardinality(Leaks(log))
  /\ stats.hijacks = Cardinality(Hijacks(log))
  /\ \A s \in RPKIStatus :
      stats.rpki[s] = Cardinality(Judged(s))

\* The tallies of a node; its representative status is the worst verdict it ever got.
NodesAreTheHistory ==
  \A a \in DOMAIN nodes :
    /\ nodes[a].events = Cardinality(By(a))
    /\ \A s \in RPKIStatus : nodes[a].rpki[s] = Cardinality(Verdicts(a, s))
    /\ nodes[a].worst = IF Verdicts(a, "invalid") # {} THEN "invalid"
                        ELSE IF Verdicts(a, "valid") # {} THEN "valid" ELSE "notfound"

(***************************************************************************)
(* The global counters and the nodes' count the same events under          *)
(* different conditions, and each is what the history says; a node's       *)
(* status is the worst of its verdicts in whichever order they came; and   *)
(* every event enters the rate once, whenever the ticks fall (apply.go:    *)
(* applyOrigin, worseRPKI; stats.go: record, tick).                        *)
(***************************************************************************)
CountersAreTheHistory ==
  TotalsAreTheHistory /\ NodesAreTheHistory /\ stats.rated + stats.tick = stats.total

=============================================================================
