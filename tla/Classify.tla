------------------------------ MODULE Classify ------------------------------
(***************************************************************************)
(* The combined verdict on one update (classify/classify.go): the valley-  *)
(* free walk and origin validation, hijack before leak before unknown.     *)
(*                                                                         *)
(* An update is [id, at, kind, prefix, path, hasASSet, origin];            *)
(* classifying it adds vf, rpki, hops and offender.                        *)
(***************************************************************************)
EXTENDS ValleyFree, Rov

\* originAS: the last AS of the path, unless an AS_SET hides it.
OriginAS(path, lastWasSet) ==
  IF lastWasSet \/ path = <<>> THEN NoAS ELSE path[Len(path)]

\* Withdraws carry no path and are returned neutral.
Neutral(u) ==
  [id |-> u.id, at |-> u.at, kind |-> u.kind, prefix |-> u.prefix, path |-> u.path,
   origin |-> u.origin, vf |-> "valid", rpki |-> "notfound", hops |-> <<>>, offender |-> NoAS]

\* Mutated Resolve: the leak is looked at before the origin.
ResolveLeakFirst(u, walk, rpki) ==
  CASE walk.isLeak                        -> [vf |-> "leak", offender |-> u.origin]
    [] ~walk.isLeak /\ rpki = "invalid"   -> [vf |-> "hijack", offender |-> u.origin]
    [] OTHER                              -> [vf |-> "valid", offender |-> NoAS]

\* The precedence of the verdicts, and whom each one blames.
Resolve(u, walk, rpki) ==
  IF rpki = "invalid" THEN [vf |-> "hijack", offender |-> u.origin]
  ELSE IF walk.isLeak THEN [vf |-> "leak", offender |-> walk.offender]
  ELSE IF Len(u.path) > 1 /\ walk.known = {} THEN [vf |-> "unknown", offender |-> NoAS]
  ELSE [vf |-> "valid", offender |-> NoAS]

\* Classifier.Classify.
Classify(edges, vrps, u) ==
  LET walk == ClassifyPath(edges, u.path, u.hasASSet)
      rpki == IF u.origin = NoAS THEN "notfound" ELSE RovStatus(vrps, u.prefix, u.origin)
      verdict == Resolve(u, walk, rpki)
  IN  IF u.kind = "withdraw" THEN Neutral(u)
      ELSE [Neutral(u) EXCEPT !.vf = verdict.vf, !.offender = verdict.offender,
                              !.rpki = rpki, !.hops = walk.hops]

=============================================================================
