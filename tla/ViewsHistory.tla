---------------------------- MODULE ViewsHistory ----------------------------
(***************************************************************************)
(* The views as the summary of the updates applied: what the actor's ring, *)
(* edges, nodes and series answer to the REST handlers is said here of the *)
(* whole history.                                                          *)
(***************************************************************************)
EXTENDS Rest, TopologyHistory

CONSTANT Limits \* what ?limit= may be read as

\* ASes are ordered, withdraws carry no path, and the store has one relationship
\* for both directions of an adjacency.
ASSUME ViewsAssumption ==
  /\ ASN \subseteq Nat /\ TopOriginsLimit \in Nat /\ Limits \subseteq Int
  /\ \A u \in Update : Withdrawn(u) => u.path = <<>>
  /\ \A a, b \in ASN : a # b => RelOf[<<b, a>>] = Invert(RelOf[<<a, b>>])

-----------------------------------------------------------------------------
(* Requests                                                                *)

\* got lists the newest of the updates S, newest first, as many as q asks for, one
\* at least and MaxEventsLimit at most.
AnswersWith(got, S, q) ==
  /\ Len(got) <= MaxEventsLimit /\ (S # {} => got # <<>>)
  /\ q \in 1 .. MaxEventsLimit => Len(got) = LesserOf(q, Cardinality(S))
  /\ \A k \in 1 .. Len(got) :
       /\ got[k].id \in S /\ got[k] = log[got[k].id]
       /\ Cardinality({i \in S : i > got[k].id}) = k - 1

Kept == {i \in Ids : i > Len(log) - Ring!Cap}

EventsAnswered ==
  \A q \in Limits :
    LET r == HandleEvents(q)
    IN  (q = Junk <=> r.status = 400) /\ (q # Junk => AnswersWith(r.events, Kept, q))

\* The ASes an announcement puts on the graph: its origin, and those of its path
\* unless the path is one AS only.
Appears(a, ev) ==
  /\ Announced(ev)
  /\ ev.origin = a \/ \E j, k \in DOMAIN ev.path : ev.path[j] = a /\ ev.path[k] # a

ASesAnswered ==
  \A a \in ASN :
    LET r == HandleASN(a)
    IN  /\ r.status = 200 <=> \E i \in Ids : Appears(a, log[i])
        /\ r.status = 200 => \A n \in r.neighbors : n.rel = RelOf[<<a, n.asn>>]

\* An edge may outlive all its events, and its detail takes whatever limit.
EdgesAnswered ==
  \A a, b \in ASN, q \in Limits :
    LET r  == HandleEdge(a, b, q)
        by == CrossedBy(log, <<a, b>>)
    IN  IF a # b /\ by # {} THEN r.status = 200 /\ AnswersWith(r.events, by \cap Kept, q)
        ELSE r.status = 404

JunkRefused ==
  /\ HandleASN(Junk).status = 400
  /\ \A a \in ASN \cup {Junk}, q \in Limits :
       HandleEdge(Junk, a, q).status = 400 /\ HandleEdge(a, Junk, q).status = 400

\* Every AS and edge of the history is found, and nothing else.
RequestsAnswered == EventsAnswered /\ ASesAnswered /\ EdgesAnswered /\ JunkRefused

-----------------------------------------------------------------------------
(* Cards                                                                   *)

\* a announced more, or as much and is the smaller AS.
Ahead(a, b) ==
  \/ Cardinality(By(a)) > Cardinality(By(b))
  \/ Cardinality(By(a)) = Cardinality(By(b)) /\ a < b

\* The ASes that announced the most, cut at the limit only.
TopOriginsAreTheBusiest ==
  LET shown == {TopOrigins[k] : k \in DOMAIN TopOrigins}
  IN  /\ \A j, k \in DOMAIN TopOrigins : j < k => Ahead(TopOrigins[j], TopOrigins[k])
      /\ \A b \in ASN \ shown : By(b) # {} =>
           Len(TopOrigins) = TopOriginsLimit /\ \A a \in shown : Ahead(a, b)

-----------------------------------------------------------------------------
(* Series                                                                  *)

\* The times of a's announcements up to update i.
Times(a, i) == {log[j].at : j \in {k \in By(a) : k <= i}}

\* The latest of them: where the series of a stood after update i.
LatestShown(a, i) == CHOOSE t \in Times(a, i) : \A u \in Times(a, i) : u <= t

\* Each point of a sparkline counts the announcements of its stretch of time; one
\* that is late counts where the series stood when it came.
SparklinesAreHistograms ==
  \A a \in DOMAIN nodes :
    LET rc     == nodes[a].series
        Low(k) == rc.curStart + (k - SparkBuckets) * BucketWidth
    IN  \A k \in 1 .. SparkBuckets :
          Sparkline(rc)[k] =
            Cardinality({i \in By(a) : Low(k) <= LatestShown(a, i) /\ LatestShown(a, i) < Low(k + 1)})

(***************************************************************************)
(* What a reader is shown is what happened, whatever he asks for: each     *)
(* AS's own view of its adjacencies although an edge keeps one direction,  *)
(* the newest events, of an edge or of all, although the ring forgets and  *)
(* limits may be anything, the busiest origins although the list is cut,   *)
(* and throughput by event time across wrapped buckets, gaps and late      *)
(* timestamps (rest.go: handleEvents, handleASN, handleEdge; views.go:     *)
(* buildASNDetail, buildEdgeDetail, topOrigins; series.go: add, series).   *)
(***************************************************************************)
ViewsAreTheHistory ==
  RequestsAnswered /\ TopOriginsAreTheBusiest /\ SparklinesAreHistograms

=============================================================================
