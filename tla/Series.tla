------------------------------- MODULE Series -------------------------------
(***************************************************************************)
(* The throughput of one AS: a ring of counters, one per stretch of event  *)
(* time, that is turned on by the timestamps of the events themselves      *)
(* (topology/series.go: ringCounters).                                     *)
(***************************************************************************)
EXTENDS Integers

CONSTANTS
  SparkBuckets, (* sparkBuckets: the points of a sparkline  *)
  BucketWidth   (* bucketWidth: the time one of them covers *)

ASSUME SeriesAssumption ==
  SparkBuckets \in Nat \ {0} /\ BucketWidth \in Nat \ {0}

Slots == 0 .. SparkBuckets - 1

Counters ==
  [buckets : [Slots -> Nat], curIdx : Slots, curStart : Int, started : BOOLEAN]

NewCounters ==
  [buckets |-> [i \in Slots |-> 0], curIdx |-> 0, curStart |-> 0, started |-> FALSE]

\* The first event begins the current bucket.
Started(rc, t) == IF rc.started THEN rc ELSE [rc EXCEPT !.curStart = t, !.started = TRUE]

\* The buckets from the current one to that of t; none if t is out of order.
Buckets(rc, t) ==
  IF t < rc.curStart THEN 0 ELSE (t - rc.curStart) \div BucketWidth

\* n buckets on, each of them cleared on the way.
TurnOn(rc, n) ==
  LET passed == {(rc.curIdx + k) % SparkBuckets : k \in 1 .. n}
  IN  [buckets |-> [i \in Slots |-> IF i \in passed THEN 0 ELSE rc.buckets[i]],
       curIdx |-> (rc.curIdx + n) % SparkBuckets,
       curStart |-> rc.curStart + n * BucketWidth, started |-> TRUE]

\* add: a gap as long as the ring empties it and begins anew at t.
Counted(rc, t) ==
  LET from == Started(rc, t)
      n    == Buckets(from, t)
      to   == IF n >= SparkBuckets THEN [NewCounters EXCEPT !.curStart = t, !.started = TRUE]
              ELSE TurnOn(from, n)
  IN  [to EXCEPT !.buckets[to.curIdx] = @ + 1]

\* series: the oldest bucket first, the current one last.
Sparkline(rc) ==
  [i \in 1 .. SparkBuckets |-> rc.buckets[(rc.curIdx + i) % SparkBuckets]]

=============================================================================
