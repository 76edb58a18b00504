----------------------------- MODULE ValleyWalk -----------------------------
(***************************************************************************)
(* The classifier's loop over one path, step by step (classifier.go:       *)
(* ClassifyPath, findValley), against the verdicts ValleyFree defines in   *)
(* closed form and the shape the package comment promises:                 *)
(*                                                                         *)
(*     (c2p)*  (p2p | p2c)?  (p2c)*        read from the origin            *)
(***************************************************************************)
EXTENDS ValleyFree

CONSTANT Inputs \* the paths and stores to classify: [path, edges, hasASSet]

ASSUME ValleyWalkAssumption ==
  \A x \in Inputs : x.path \in Seq(ASN) /\ IsStore(x.edges) /\ x.hasASSet \in BOOLEAN

VARIABLES
  in,    (* the call's arguments                                 *)
  seq,   (* the path without prepending                          *)
  i,     (* the walk stands at seq[i], about to look at seq[i-1] *)
  phase, (* "up" or "down"                                       *)
  off,   (* position of the leaking AS, 0 while none is found    *)
  pc     (* "call", "walk" or "done"                             *)

vars == <<in, seq, i, phase, off, pc>>

Init ==
  /\ in \in Inputs
  /\ seq = <<>> /\ i = 0 /\ phase = "up" /\ off = 0
  /\ pc = "call"

\* Nothing to walk on a single AS or an aggregated path.
Call ==
  /\ pc = "call"
  /\ seq' = Dedupe(in.path)
  /\ i' = Len(seq')
  /\ pc' = IF Len(seq') <= 1 \/ in.hasASSet THEN "done" ELSE "walk"
  /\ UNCHANGED <<in, phase, off>>

Rel == Move(in.edges, seq, i)

\* Siblings and pairs without data move neither up nor down.
Transparent ==
  /\ Rel \in {"sibling", "unknown"}
  /\ UNCHANGED <<phase, off, pc>>

Climb ==
  /\ Rel = "provider"
  /\ IF phase = "down" THEN off' = i /\ pc' = "done" ELSE UNCHANGED <<off, pc>>
  /\ UNCHANGED phase

\* Mutated Across: a peer link does not end the climb.
AcrossStayingUp ==
  /\ Rel = "peer"
  /\ IF phase = "down" THEN off' = i /\ pc' = "done" ELSE UNCHANGED <<off, pc>>
  /\ UNCHANGED phase

Across ==
  /\ Rel = "peer"
  /\ IF phase = "down" THEN off' = i /\ pc' = "done" ELSE UNCHANGED <<off, pc>>
  /\ phase' = "down"

Descend ==
  /\ Rel = "customer"
  /\ phase' = "down"
  /\ UNCHANGED <<off, pc>>

\* One iteration; the first violation ends the walk.
Step ==
  /\ pc = "walk" /\ i > 1
  /\ Transparent \/ Climb \/ Across \/ Descend
  /\ i' = i - 1
  /\ UNCHANGED <<in, seq>>

\* The collector's end is reached without a violation.
Finish ==
  /\ pc = "walk" /\ i = 1
  /\ pc' = "done"
  /\ UNCHANGED <<in, seq, i, phase, off>>

Returned == pc = "done" /\ UNCHANGED vars

Next == Call \/ Step \/ Finish \/ Returned

Spec == Init /\ [][Next]_vars

-----------------------------------------------------------------------------

\* Type invariant: no index of the walk leaves the path (findValley reads seq[i], seq[i-1]).
TypeOK ==
  /\ in \in Inputs
  /\ seq \in Seq(ASN)
  /\ i \in 0 .. Len(seq)
  /\ phase \in {"up", "down"}
  /\ off \in 0 .. Len(seq)
  /\ pc \in {"call", "walk", "done"}
  /\ pc = "walk" => i >= 1

Skipped == {"sibling", "unknown"}

(***************************************************************************)
(* The shape of the package comment: some position k separates the climb   *)
(* from the descent, and the one move at k may be anything.                *)
(***************************************************************************)
UpThenDown(edges, s) ==
  \E k \in 1 .. Len(s) :
    /\ \A j \in k + 1 .. Len(s) : Move(edges, s, j) \in {"provider"} \cup Skipped
    /\ \A j \in 2 .. k - 1      : Move(edges, s, j) \in {"customer"} \cup Skipped

(***************************************************************************)
(* The verdict is exactly the documented rule: a path is called a leak if  *)
(* and only if it is not of the up-then-down shape and carried no AS_SET,  *)
(* and the blamed AS is the first to break it: the route was still         *)
(* valley-free when it reached that AS; and the loop computes the closed   *)
(* form the other modules classify with (classifier.go: package comment,   *)
(* ClassifyPath, findValley "stops at the first violation").               *)
(***************************************************************************)
LeakIffNotUpThenDown ==
  pc = "done" =>
    /\ LET v == ClassifyPath(in.edges, in.path, in.hasASSet)
       IN  /\ v.isLeak = (off # 0)
           /\ off # 0 => v.offHop = off - 1 /\ v.offender = seq[off]
    /\ seq # <<>> => (off # 0 <=> ~in.hasASSet /\ ~UpThenDown(in.edges, seq))
    /\ off # 0 =>
         /\ UpThenDown(in.edges, SubSeq(seq, off, Len(seq)))
         /\ ~UpThenDown(in.edges, SubSeq(seq, off - 1, Len(seq)))

\* edges without the pairs outside P: what a less complete data set would say.
Only(edges, P) == [p \in DOMAIN edges \cap P |-> edges[p]]

(***************************************************************************)
(* Missing relationship data can hide a leak and never invents one: a path *)
(* the full store calls clean stays clean under every part of that store   *)
(* (classifier.go: "no false leaks").                                      *)
(***************************************************************************)
MissingDataNeverAccuses ==
  pc = "done" /\ off = 0 =>
    \A P \in SUBSET DOMAIN in.edges :
      ~ClassifyPath(Only(in.edges, P), in.path, in.hasASSet).isLeak

=============================================================================
