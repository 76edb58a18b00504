------------------------------- MODULE Blame -------------------------------
(***************************************************************************)
(* Whom the classifier blames (classify.go: Classify): the walk's inputs,  *)
(* announced for one prefix and judged against any of some sets of VRPs.   *)
(***************************************************************************)
EXTENDS ValleyWalk, Classify, SequencesExt

CONSTANTS
  VrpSets,  (* the sets of VRPs to judge by *)
  Announced (* the prefix announced         *)

\* The path announced; an AS_SET in it may or may not be its last segment.
Announcement(path, lastWasSet) ==
  [id |-> 0, at |-> 0, kind |-> "announce", prefix |-> Announced, path |-> path,
   hasASSet |-> in.hasASSet, origin |-> OriginAS(path, in.hasASSet /\ lastWasSet)]

LoopFree(path) ==
  \A j, k \in 1 .. Len(path) : path[j] = path[k] => \A m \in j .. k : path[m] = path[j]

(***************************************************************************)
(* Somebody is blamed exactly when something is alleged, and the blame is  *)
(* possible: a hijack is the origin's, while a leaker stands strictly      *)
(* between the origin and the collector, whatever the prepending           *)
(* (classify.go: Classify; classifier.go: findValley).  No blame is told   *)
(* by AS 0, so the first of these is said of paths without it.             *)
(***************************************************************************)
BlameIsPlausible ==
  pc = "done" =>
    \A known \in VrpSets, lastWasSet \in BOOLEAN :
      LET path == in.path
          out  == Classify(in.edges, known, Announcement(path, lastWasSet))
      IN  /\ NoAS \notin ToSet(path) =>
               (out.vf \in {"leak", "hijack"} <=> out.offender # NoAS)
          /\ out.vf = "hijack" => out.offender = path[Len(path)]
          /\ out.vf = "leak" /\ LoopFree(path) =>
               /\ out.offender \in {path[k] : k \in 2 .. Len(path) - 1}
               /\ out.offender \notin {path[1], path[Len(path)]}

(***************************************************************************)
(* Prepending, which operators use freely, neither creates nor hides an    *)
(* accusation, nor moves it to another AS (classifier.go:                  *)
(* dedupeConsecutive).                                                     *)
(***************************************************************************)
PrependingKeepsTheBlame ==
  pc = "done" =>
    \A known \in VrpSets, lastWasSet \in BOOLEAN, k \in 1 .. Len(in.path) - 1 :
      in.path[k] = in.path[k + 1] =>
        LET long  == Classify(in.edges, known, Announcement(in.path, lastWasSet))
            short == Classify(in.edges, known, Announcement(RemoveAt(in.path, k), lastWasSet))
        IN  /\ short.offender = long.offender
            /\ short.vf # long.vf => {short.vf, long.vf} = {"valid", "unknown"}

=============================================================================
