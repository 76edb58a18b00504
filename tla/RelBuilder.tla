----------------------------- MODULE RelBuilder -----------------------------
(***************************************************************************)
(* Building the relationship store from a CAIDA serial-2 file              *)
(* (relationships/caida.go, store.go: Builder).  Lines are read one at a   *)
(* time; the first malformed one, the first one Add refuses, or an error   *)
(* of the reader fails the whole load.  Blank and comment lines, which are *)
(* skipped, are left out.                                                  *)
(***************************************************************************)
EXTENDS RelStore, FiniteSets

CONSTANTS
  FileASN, (* the ASes the rows of the file name *)
  MaxRows  (* bound on the rows of the file      *)

ASSUME RelBuilderAssumption == FileASN \subseteq ASN /\ MaxRows \in Nat

VARIABLES
  edges,     (* canonical pair -> relationship from the smaller AS  *)
  neighbors, (* AS -> the distinct ASes it has a relationship with  *)
  status,    (* "parsing", "sealed" by Build, or "failed"           *)
  rows,      (* auxiliary: the rows accepted, as <<as1, as2, rel>>  *)
  refused,   (* auxiliary: the row that Add refused, if any         *)
  unreadable (* auxiliary: a line was malformed, or reading failed  *)

vars == <<edges, neighbors, status, rows, refused, unreadable>>

\* caidaRel: the relationship of AS1 toward AS2; no other REL code is supported.
CaidaRel ==
  [code \in -1 .. 1 |->
     CASE code = -1 -> "customer" [] code = 0 -> "peer" [] code = 1 -> "provider"]

Init ==
  /\ edges = [p \in {} |-> "unknown"]
  /\ neighbors = [a \in ASN |-> {}]
  /\ status = "parsing"
  /\ rows = {}
  /\ refused = {} /\ unreadable = FALSE

-----------------------------------------------------------------------------

\* The pair is already known, and differently.
Conflicts(a, c, rel) ==
  PairKey(a, c) \in DOMAIN edges /\ edges[PairKey(a, c)] # FromLo(a, c, rel)

\* addNeighbor, both ways.
Link(a, c) == neighbors' = [neighbors EXCEPT ![a] = @ \cup {c}, ![c] = @ \cup {a}]

\* Mutated Insert: the relationship is stored without turning it around.
InsertUnturned(a, c, rel) ==
  /\ edges' = [p \in DOMAIN edges \cup {PairKey(a, c)} |->
                 IF p = PairKey(a, c) THEN rel ELSE edges[p]]
  /\ Link(a, c)

Insert(a, c, rel) ==
  /\ edges' = [p \in DOMAIN edges \cup {PairKey(a, c)} |->
                 IF p = PairKey(a, c) THEN FromLo(a, c, rel) ELSE edges[p]]
  /\ Link(a, c)

\* Add's errors: a self-pair or a conflict; ParseCAIDA gives up on the first.
Refuse(a, c, rel) ==
  /\ a = c \/ Conflicts(a, c, rel)
  /\ status' = "failed"
  /\ refused' = {<<a, c, rel>>}
  /\ UNCHANGED <<edges, neighbors, rows, unreadable>>

\* A new pair is stored; a consistent duplicate changes nothing.
Accept(a, c, rel) ==
  /\ ~(a = c \/ Conflicts(a, c, rel))
  /\ IF PairKey(a, c) \in DOMAIN edges
     THEN UNCHANGED <<edges, neighbors>>
     ELSE Insert(a, c, rel)
  /\ rows' = rows \cup {<<a, c, rel>>}
  /\ UNCHANGED <<status, refused, unreadable>>

\* A line with too few fields, an AS number or a REL code that does not parse; or the
\* scanner stops with an error, over a line that is too long or a failed read.
Unreadable ==
  /\ status = "parsing"
  /\ status' = "failed" /\ unreadable' = TRUE
  /\ UNCHANGED <<edges, neighbors, rows, refused>>

\* A line whose three fields parse.
Row(a, c, code) ==
  /\ status = "parsing" /\ Cardinality(rows) < MaxRows
  /\ IF code \in DOMAIN CaidaRel
     THEN Refuse(a, c, CaidaRel[code]) \/ Accept(a, c, CaidaRel[code])
     ELSE Unreadable

\* End of file: the maps are sealed as they are.
Build ==
  /\ status = "parsing"
  /\ status' = "sealed"
  /\ UNCHANGED <<edges, neighbors, rows, refused, unreadable>>

\* Nothing happens to a store that is sealed or was never built.
Stopped == status \in {"sealed", "failed"} /\ UNCHANGED vars

Next ==
  \/ \E a, c \in FileASN, code \in -1 .. 2 : Row(a, c, code)
  \/ Unreadable
  \/ Build
  \/ Stopped

Spec == Init /\ [][Next]_vars

-----------------------------------------------------------------------------

Degree(a) == Cardinality(neighbors[a])

\* Type invariant.
TypeOK ==
  /\ IsStore(edges)
  /\ neighbors \in [ASN -> SUBSET ASN]
  /\ status \in {"parsing", "sealed", "failed"}
  /\ rows \subseteq ASN \X ASN \X (RelStatus \ {"unknown"})
  /\ refused \subseteq ASN \X ASN \X (RelStatus \ {"unknown"})
  /\ unreadable \in BOOLEAN

\* Two rows that cannot both hold: a self-pair with any, or two words about one pair
\* that are not the same one seen from its two ends.
Contradict(row, bad) ==
  \/ bad[1] = bad[2]
  \/ row[1] = bad[1] /\ row[2] = bad[2] /\ row[3] # bad[3]
  \/ row[1] = bad[2] /\ row[2] = bad[1] /\ row[3] # Invert(bad[3])

\* A load fails over a line or a reader that is broken, or over a row that contradicts
\* itself or an earlier one, and over nothing else; nothing of that is sealed.
FailsForAReason ==
  /\ status = "failed" <=> unreadable \/ refused # {}
  /\ \A bad \in refused : \E row \in rows \cup {bad} : Contradict(row, bad)
  /\ \A row, other \in rows : ~Contradict(row, other)

(***************************************************************************)
(* Whatever order the rows came in and whichever end each was written      *)
(* from, a lookup answers what every accepted row said, from both ends, as *)
(* store.go:6 promises; the neighbour sets kept beside the edges name      *)
(* exactly the ASes a lookup knows something about.  Of rows that parse,   *)
(* only one that contradicts itself or an earlier row is refused, and a    *)
(* sealed store comes from a file without a malformed line (store.go: Add  *)
(* "consistent duplicates are ignored", addNeighbor, Lookup; caida.go:34   *)
(* "malformed lines (including conflicting duplicate relationships) return *)
(* an error", ParseCAIDA).                                                 *)
(***************************************************************************)
StoreIsWhatRowsSaid ==
  /\ \A row \in rows :
       /\ Lookup(edges, row[1], row[2]) = row[3]
       /\ Lookup(edges, row[2], row[1]) = Invert(row[3])
  /\ \A a \in ASN :
       /\ neighbors[a] = {b \in ASN \ {a} : Lookup(edges, a, b) # "unknown"}
       /\ Degree(a) = Cardinality({p \in DOMAIN edges : a \in {p[1], p[2]}})
  /\ FailsForAReason

=============================================================================
