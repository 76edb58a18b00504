-------------------------------- MODULE Rest --------------------------------
(***************************************************************************)
(* The REST handlers that take parameters (api/rest.go): what a path value *)
(* and ?limit= are read as, and what is answered.  A value that does not   *)
(* parse is Junk, a query without limit Absent; a response is its status   *)
(* and what the DTOs carry.                                                *)
(***************************************************************************)
EXTENDS TopologyViews

CONSTANTS DefaultEventsLimit, MaxEventsLimit, DefaultEdgeEvents

ASSUME RestAssumption ==
  /\ MaxEventsLimit \in Nat
  /\ {DefaultEventsLimit, DefaultEdgeEvents} \subseteq 1 .. MaxEventsLimit

Junk == -100
Absent == -101

\* Mutated ParseLimit: nothing below 1 is raised to it.
ParseLimitUnraised(q, default) ==
  IF q = Absent THEN default ELSE IF q > MaxEventsLimit THEN MaxEventsLimit ELSE q

\* parseLimit of something that parses: clamped to 1 .. MaxEventsLimit.
ParseLimit(q, default) ==
  IF q = Absent THEN default
  ELSE IF q < 1 THEN 1 ELSE IF q > MaxEventsLimit THEN MaxEventsLimit ELSE q

Refused(status) == [status |-> status]

HandleEvents(q) ==
  IF q = Junk THEN Refused(400)
  ELSE LET limit == ParseLimit(q, DefaultEventsLimit)
           evs   == Ring!Recent(limit)
       IN  [status |-> 200, events |-> evs, count |-> Len(evs), limit |-> limit]

HandleASN(s) ==
  IF s = Junk THEN Refused(400)
  ELSE IF s \notin DOMAIN nodes THEN Refused(404)
  ELSE [status |-> 200, node |-> nodes[s], neighbors |-> Neighbors(s),
        sparkline |-> Sparkline(nodes[s].series)]

\* A limit that does not parse is no error here.
HandleEdge(from, to, q) ==
  LET limit == IF q = Junk THEN DefaultEdgeEvents ELSE ParseLimit(q, DefaultEdgeEvents)
      d     == EdgeDetail(from, to, limit)
  IN  IF Junk \in {from, to} THEN Refused(400)
      ELSE IF ~d.found THEN Refused(404)
      ELSE [status |-> 200, edge |-> d.edge, events |-> d.events]

=============================================================================
