--------------------------- MODULE SourcesProofs ---------------------------
(***************************************************************************)
(* Where stores and updates come from, for any size of them.  The store    *)
(* says what the rows of its file said, whatever the ASes, the rows and    *)
(* their order; and demo mode's topology, whatever is drawn, agrees with   *)
(* the store it is classified by, and each update drawn from it is         *)
(* classified as what it was generated to be; what is replayed is what the *)
(* records of the dump say, whatever they are; and what is read of an RTR  *)
(* connection is what was sent, wherever its bytes are cut, until a PDU is *)
(* cut in two.                                                             *)
(***************************************************************************)
EXTENDS Synth, Mrt, RtrWire, FiniteSetTheorems, FunctionTheorems, SequenceTheorems,
        WellFoundedInduction, TLAPS

Known == RelStatus \ {"unknown"}

LEMMA InvertTwice ==
  \A rel \in Known : Invert(rel) \in Known /\ Invert(Invert(rel)) = rel
  BY DEF Known, RelStatus, Invert

LEMMA Turned ==
  ASSUME NEW a \in ASN, NEW c \in ASN, a # c, NEW rel \in Known
  PROVE  /\ PairKey(a, c) = PairKey(c, a) /\ PairKey(a, c) \in Pair
         /\ FromLo(a, c, rel) \in Known /\ FromLo(a, c, FromLo(a, c, rel)) = rel
         /\ FromLo(c, a, rel) = Invert(FromLo(a, c, rel))
         /\ FromLo(c, a, Invert(rel)) = FromLo(a, c, rel)
<1>1. a \in Nat /\ c \in Nat /\ (a < c \/ c < a) /\ ~(a < c /\ c < a)
  BY RelStoreAssumption
<1> QED
  BY <1>1, InvertTwice DEF PairKey, Pair, FromLo

LEMMA SamePair ==
  ASSUME NEW a \in ASN, NEW c \in ASN, NEW b \in ASN, NEW d \in ASN, PairKey(a, c) = PairKey(b, d)
  PROVE  (a = b /\ c = d) \/ (a = d /\ c = b)
<1>1. {a, b, c, d} \subseteq Nat
  BY RelStoreAssumption
<1> QED
  BY <1>1 DEF PairKey

-----------------------------------------------------------------------------
(* The invariant                                                           *)

(***************************************************************************)
(* The edges are the rows' relationships: each row is on its pair, and     *)
(* each pair has a row.  The neighbours of an AS are the other ends of its *)
(* edges.                                                                  *)
(***************************************************************************)
RowOK(row) == row \in ASN \X ASN \X Known /\ row[1] # row[2]

EdgesAreRows ==
  /\ \A row \in rows :
       /\ PairKey(row[1], row[2]) \in DOMAIN edges
       /\ edges[PairKey(row[1], row[2])] = FromLo(row[1], row[2], row[3])
  /\ \A p \in DOMAIN edges : \E row \in rows : p = PairKey(row[1], row[2])

NeighborsAreEnds ==
  \A a \in ASN :
    /\ neighbors[a] = {b \in ASN \ {a} : PairKey(a, b) \in DOMAIN edges}
    /\ IsFiniteSet(neighbors[a])

\* What the load failed over.
Reason ==
  /\ status = "failed" <=> unreadable \/ refused # {}
  /\ \A bad \in refused : \E row \in rows \cup {bad} : Contradict(row, bad)

BuilderInv ==
  /\ TypeOK /\ \A row \in rows : RowOK(row)
  /\ EdgesAreRows /\ NeighborsAreEnds /\ Reason

LEMMA BuilderInit == Init => BuilderInv
<1> SUFFICES ASSUME Init PROVE BuilderInv
  OBVIOUS
<1>1. TypeOK
  BY DEF Init, TypeOK, IsStore
<1>2. EdgesAreRows /\ Reason
  BY DEF Init, EdgesAreRows, Reason
<1>3. NeighborsAreEnds
  BY FS_EmptySet DEF Init, NeighborsAreEnds
<1> QED
  BY <1>1, <1>2, <1>3 DEF Init, BuilderInv

LEMMA RefuseStep ==
  ASSUME BuilderInv, status = "parsing", NEW a \in ASN, NEW c \in ASN, NEW rel \in Known,
         Refuse(a, c, rel)
  PROVE  BuilderInv'
<1> USE DEF BuilderInv
<1>1. /\ refused' = {<<a, c, rel>>} /\ status' = "failed"
      /\ UNCHANGED <<edges, neighbors, rows, unreadable>>
      /\ a = c \/ Conflicts(a, c, rel)
  BY DEF Refuse
<1>2. Reason'
  <2>1. CASE a = c
    <3>1. Contradict(<<a, c, rel>>, <<a, c, rel>>)
      BY <2>1 DEF Contradict
    <3>2. \A bad \in refused' : bad \in rows' \cup {bad} /\ Contradict(bad, bad)
      BY <1>1, <3>1
    <3>3. status' = "failed" /\ refused' # {}
      BY <1>1
    <3> QED
      BY <3>2, <3>3 DEF Reason
  <2>2. CASE a # c
    <3>1. PairKey(a, c) \in DOMAIN edges /\ edges[PairKey(a, c)] # FromLo(a, c, rel)
      BY <1>1, <2>2 DEF Conflicts
    <3>2. PICK row \in rows : PairKey(a, c) = PairKey(row[1], row[2])
      BY <3>1 DEF EdgesAreRows
    <3>3. /\ row[1] \in ASN /\ row[2] \in ASN /\ row[3] \in Known /\ row[1] # row[2]
          /\ FromLo(row[1], row[2], row[3]) # FromLo(a, c, rel)
      BY <3>1, <3>2 DEF EdgesAreRows, RowOK
    <3>4. CASE row[1] = a /\ row[2] = c
      BY <1>1, <3>3, <3>4 DEF Reason, Contradict
    <3>5. CASE row[1] = c /\ row[2] = a
      <4>1. FromLo(c, a, Invert(rel)) = FromLo(a, c, rel)
        BY <2>2, Turned
      <4>2. row[3] # Invert(rel)
        BY <3>3, <3>5, <4>1
      <4> QED
        BY <1>1, <3>5, <4>2 DEF Reason, Contradict
    <3> QED
      BY <3>2, <3>3, <3>4, <3>5, SamePair
  <2> QED
    BY <2>1, <2>2
<1>3. TypeOK'
  BY <1>1 DEF TypeOK, IsStore, Known
<1> QED
  BY <1>1, <1>2, <1>3 DEF EdgesAreRows, NeighborsAreEnds, RowOK

LEMMA AcceptStep ==
  ASSUME BuilderInv, status = "parsing", NEW a \in ASN, NEW c \in ASN, NEW rel \in Known,
         Accept(a, c, rel)
  PROVE  BuilderInv'
<1> USE DEF BuilderInv
<1> DEFINE key == PairKey(a, c)
           lo  == FromLo(a, c, rel)
           new == <<a, c, rel>>
<1>1. /\ a # c /\ (key \in DOMAIN edges => edges[key] = lo)
      /\ rows' = rows \cup {new} /\ UNCHANGED <<status, refused, unreadable>>
  BY DEF Accept, Conflicts
<1>2. key \in Pair /\ lo \in Known /\ key = PairKey(c, a)
  BY <1>1, Turned
<1>3. /\ DOMAIN edges' = DOMAIN edges \cup {key}
      /\ edges' = [p \in DOMAIN edges' |-> IF p = key THEN lo ELSE edges[p]]
      /\ \A b \in ASN : neighbors'[b] = neighbors[b] \cup (IF b = a THEN {c} ELSE {})
                                                     \cup (IF b = c THEN {a} ELSE {})
      /\ neighbors' \in [ASN -> SUBSET ASN]
  <2>1. CASE key \in DOMAIN edges
    <3>1. edges' = edges /\ neighbors' = neighbors
      BY <2>1 DEF Accept
    <3>2. c \in neighbors[a] /\ a \in neighbors[c]
      BY <1>1, <1>2, <2>1 DEF NeighborsAreEnds
    <3>3. edges = [p \in DOMAIN edges |-> edges[p]]
      BY DEF TypeOK, IsStore
    <3>4. edges = [p \in DOMAIN edges |-> IF p = key THEN lo ELSE edges[p]]
      BY <1>1, <3>3
    <3> QED
      BY <1>1, <2>1, <3>1, <3>2, <3>4 DEF TypeOK
  <2>2. CASE key \notin DOMAIN edges
    <3>1. Insert(a, c, rel)
      BY <2>2 DEF Accept
    <3> QED
      BY <1>1, <3>1 DEF Insert, Link, TypeOK
  <2> QED
    BY <2>1, <2>2
<1> HIDE DEF key, lo
<1>4. \A p \in DOMAIN edges' : edges'[p] = IF p = key THEN lo ELSE edges[p]
  BY <1>3
<1>5. IsStore(edges')
  <2>1. \A p \in DOMAIN edges' : edges'[p] \in Known /\ p \in Pair
    BY <1>2, <1>3, <1>4 DEF TypeOK, IsStore, Known
  <2>2. edges' \in [DOMAIN edges' -> Known]
    BY <1>3, <2>1
  <2> QED
    BY <2>1, <2>2 DEF IsStore, Known
<1>6. TypeOK' /\ \A row \in rows' : RowOK(row)
  BY <1>1, <1>3, <1>5 DEF TypeOK, RowOK, Known
<1>7. EdgesAreRows'
  <2>1. ASSUME NEW row \in rows'
        PROVE  /\ PairKey(row[1], row[2]) \in DOMAIN edges'
               /\ edges'[PairKey(row[1], row[2])] = FromLo(row[1], row[2], row[3])
    <3>1. CASE row = new
      BY <1>3, <1>4, <3>1 DEF key, lo
    <3>2. CASE row \in rows
      BY <1>1, <1>3, <1>4, <3>2 DEF EdgesAreRows
    <3> QED
      BY <1>1, <3>1, <3>2
  <2>2. ASSUME NEW p \in DOMAIN edges' PROVE \E row \in rows' : p = PairKey(row[1], row[2])
    <3>1. CASE p = key
      <4>1. new \in rows' /\ p = PairKey(new[1], new[2])
        BY <1>1, <3>1 DEF key
      <4> QED
        BY <4>1
    <3>2. CASE p \in DOMAIN edges
      BY <1>1, <3>2 DEF EdgesAreRows
    <3> QED
      BY <1>3, <3>1, <3>2
  <2> QED
    BY <2>1, <2>2 DEF EdgesAreRows
<1>8. NeighborsAreEnds'
  <2> SUFFICES ASSUME NEW b \in ASN
               PROVE  /\ neighbors'[b] = {d \in ASN \ {b} : PairKey(b, d) \in DOMAIN edges'}
                      /\ IsFiniteSet(neighbors'[b])
    BY DEF NeighborsAreEnds
  <2>1. neighbors[b] = {d \in ASN \ {b} : PairKey(b, d) \in DOMAIN edges}
        /\ IsFiniteSet(neighbors[b])
    BY DEF NeighborsAreEnds
  <2>2. \A d \in ASN : PairKey(b, d) = key <=> (b = a /\ d = c) \/ (b = c /\ d = a)
    BY <1>2, SamePair DEF key
  <2>3. neighbors'[b] = {d \in ASN \ {b} : PairKey(b, d) \in DOMAIN edges'}
    BY <1>1, <1>3, <2>1, <2>2
  <2>4. IsFiniteSet(neighbors'[b])
    <3>1. CASE b = a
      <4>1. neighbors'[b] = neighbors[b] \cup {c}
        BY <1>1, <1>3, <3>1
      <4> QED
        BY <2>1, <4>1, FS_AddElement
    <3>2. CASE b = c
      <4>1. neighbors'[b] = neighbors[b] \cup {a}
        BY <1>1, <1>3, <3>2
      <4> QED
        BY <2>1, <4>1, FS_AddElement
    <3>3. CASE b # a /\ b # c
      BY <1>3, <2>1, <3>3, neighbors'[b] = neighbors[b]
    <3> QED
      BY <3>1, <3>2, <3>3
  <2> QED
    BY <2>3, <2>4
<1>9. Reason'
  BY <1>1 DEF Reason
<1> QED
  BY <1>1, <1>6, <1>7, <1>8, <1>9

LEMMA BuilderStep == BuilderInv /\ [Next]_vars => BuilderInv'
<1> SUFFICES ASSUME BuilderInv, [Next]_vars PROVE BuilderInv'
  OBVIOUS
<1>1. ASSUME Unreadable PROVE BuilderInv'
  BY <1>1 DEF Unreadable, BuilderInv, TypeOK, EdgesAreRows, NeighborsAreEnds, Reason
<1>2. ASSUME NEW a \in FileASN, NEW c \in FileASN, NEW code \in -1 .. 2, Row(a, c, code)
      PROVE  BuilderInv'
  <2>1. CASE code \in DOMAIN CaidaRel
    <3>1. a \in ASN /\ c \in ASN /\ CaidaRel[code] \in Known
      BY <2>1, RelBuilderAssumption DEF CaidaRel, Known, RelStatus
    <3>2. status = "parsing" /\ (Refuse(a, c, CaidaRel[code]) \/ Accept(a, c, CaidaRel[code]))
      BY <1>2, <2>1 DEF Row
    <3> QED
      BY <3>1, <3>2, RefuseStep, AcceptStep
  <2> QED
    BY <1>1, <1>2, <2>1 DEF Row
<1>3. CASE Build
  BY <1>3 DEF Build, BuilderInv, TypeOK, EdgesAreRows, NeighborsAreEnds, Reason
<1>4. CASE UNCHANGED vars
  BY <1>4 DEF vars, BuilderInv, TypeOK, EdgesAreRows, NeighborsAreEnds, Reason
<1> QED
  BY <1>1, <1>2, <1>3, <1>4 DEF Next, Stopped

(***************************************************************************)
(* Edges, neighbour sets, rows and status keep their types (store.go).     *)
(***************************************************************************)
THEOREM TypeCorrect == Spec => []TypeOK
<1>1. BuilderInv => TypeOK
  BY DEF BuilderInv
<1> QED
  BY <1>1, BuilderInit, BuilderStep, PTL DEF Spec

-----------------------------------------------------------------------------
(* The promise                                                             *)

\* The neighbours of an AS and its edges are in bijection.
LEMMA DegreeCountsEdges ==
  ASSUME BuilderInv, NEW a \in ASN
  PROVE  Degree(a) = Cardinality({p \in DOMAIN edges : a \in {p[1], p[2]}})
<1> DEFINE Mine == {p \in DOMAIN edges : a \in {p[1], p[2]}}
           f == [b \in neighbors[a] |-> PairKey(a, b)]
<1>1. /\ neighbors[a] = {b \in ASN \ {a} : PairKey(a, b) \in DOMAIN edges}
      /\ IsFiniteSet(neighbors[a]) /\ DOMAIN edges \subseteq Pair
  BY DEF BuilderInv, NeighborsAreEnds, TypeOK, IsStore
<1>2. \A b \in neighbors[a] : f[b] \in Mine
  BY <1>1 DEF PairKey
<1>3. \A b, d \in neighbors[a] : f[b] = f[d] => b = d
  BY <1>1, SamePair
<1>4. \A p \in Mine : \E b \in neighbors[a] : f[b] = p
  <2> TAKE p \in Mine
  <2>1. PICK low \in ASN, high \in ASN : p = <<low, high>>
    BY <1>1 DEF Pair
  <2>2. p \in DOMAIN edges /\ low < high /\ low \in Nat /\ high \in Nat /\ (a = low \/ a = high)
    BY <1>1, <2>1, RelStoreAssumption DEF Pair
  <2>3. CASE a = low
    <3>1. PairKey(a, high) = p /\ high \in neighbors[a]
      BY <1>1, <2>1, <2>2, <2>3 DEF PairKey
    <3> QED
      BY <3>1
  <2>4. CASE a = high
    <3>1. PairKey(a, low) = p /\ low \in neighbors[a]
      BY <1>1, <2>1, <2>2, <2>4 DEF PairKey
    <3> QED
      BY <3>1
  <2> QED
    BY <2>2, <2>3, <2>4
<1>5. f \in Bijection(neighbors[a], Mine)
  <2>1. f \in [neighbors[a] -> Mine]
    BY <1>2
  <2> HIDE DEF f, Mine
  <2> QED
    BY <1>3, <1>4, <2>1 DEF Bijection, Injection, Surjection, IsInjective
<1>6. ExistsBijection(neighbors[a], Mine)
  BY <1>5 DEF ExistsBijection
<1> QED
  BY <1>1, <1>6, FS_Bijection DEF Degree

\* Rows that are on their edges do not contradict each other.
LEMMA RowsAgree ==
  ASSUME BuilderInv, NEW row \in rows, NEW other \in rows
  PROVE  ~Contradict(row, other)
<1> DEFINE a == other[1]
           c == other[2]
<1>1. /\ a \in ASN /\ c \in ASN /\ a # c /\ other[3] \in Known /\ row[3] \in Known
      /\ edges[PairKey(a, c)] = FromLo(a, c, other[3])
      /\ edges[PairKey(row[1], row[2])] = FromLo(row[1], row[2], row[3])
  BY DEF BuilderInv, RowOK, EdgesAreRows
<1> HIDE DEF a, c
<1>2. ASSUME row[1] = a, row[2] = c PROVE row[3] = other[3]
  <2>1. FromLo(a, c, other[3]) = FromLo(a, c, row[3])
    BY <1>1, <1>2
  <2> QED
    BY <1>1, <2>1, Turned
<1>3. ASSUME row[1] = c, row[2] = a PROVE row[3] = Invert(other[3])
  <2>1. PairKey(a, c) = PairKey(c, a) /\ FromLo(c, a, Invert(other[3])) = FromLo(a, c, other[3])
        /\ FromLo(c, a, FromLo(c, a, row[3])) = row[3]
    BY <1>1, Turned
  <2>2. Invert(other[3]) \in Known
    BY <1>1, InvertTwice
  <2>3. FromLo(c, a, FromLo(c, a, Invert(other[3]))) = Invert(other[3])
    BY <1>1, <2>2, Turned
  <2>4. FromLo(c, a, Invert(other[3])) = FromLo(c, a, row[3])
    BY <1>1, <1>3, <2>1
  <2> QED
    BY <2>1, <2>3, <2>4
<1> QED
  BY <1>1, <1>2, <1>3 DEF Contradict, a, c

(***************************************************************************)
(* Whatever the file, a lookup answers what its rows said from both ends,  *)
(* the neighbour sets are the ASes something is known about; of the rows   *)
(* that parse only a contradiction is refused, and no file with a          *)
(* malformed line makes a store (store.go: Add, Lookup; caida.go:          *)
(* ParseCAIDA).                                                            *)
(***************************************************************************)
THEOREM StoreSaysWhatRowsSaid == Spec => []StoreIsWhatRowsSaid
<1>1. BuilderInv => StoreIsWhatRowsSaid
  <2> SUFFICES ASSUME BuilderInv PROVE StoreIsWhatRowsSaid
    OBVIOUS
  <2>1. ASSUME NEW row \in rows
        PROVE  /\ Lookup(edges, row[1], row[2]) = row[3]
               /\ Lookup(edges, row[2], row[1]) = Invert(row[3])
    <3>1. /\ row[1] \in ASN /\ row[2] \in ASN /\ row[1] # row[2] /\ row[3] \in Known
          /\ PairKey(row[1], row[2]) \in DOMAIN edges
          /\ edges[PairKey(row[1], row[2])] = FromLo(row[1], row[2], row[3])
      BY DEF BuilderInv, RowOK, EdgesAreRows
    <3> DEFINE lo == FromLo(row[1], row[2], row[3])
    <3>2. /\ PairKey(row[2], row[1]) = PairKey(row[1], row[2]) /\ lo \in Known
          /\ FromLo(row[1], row[2], lo) = row[3]
      BY <3>1, Turned
    <3>3. FromLo(row[2], row[1], lo) = Invert(FromLo(row[1], row[2], lo))
      BY <3>1, <3>2, Turned
    <3> QED
      BY <3>1, <3>2, <3>3 DEF Lookup
  <2>2. ASSUME NEW a \in ASN
        PROVE  neighbors[a] = {b \in ASN \ {a} : Lookup(edges, a, b) # "unknown"}
    <3>1. neighbors[a] = {b \in ASN \ {a} : PairKey(a, b) \in DOMAIN edges}
      BY DEF BuilderInv, NeighborsAreEnds
    <3>2. ASSUME NEW b \in ASN \ {a}, PairKey(a, b) \in DOMAIN edges
          PROVE  Lookup(edges, a, b) # "unknown"
      <4>1. edges[PairKey(a, b)] \in Known
        BY <3>2 DEF BuilderInv, TypeOK, IsStore, Known
      <4>2. FromLo(a, b, edges[PairKey(a, b)]) \in Known
        BY <4>1, Turned
      <4> QED
        BY <3>2, <4>2 DEF Lookup, Known
    <3>3. \A b \in ASN \ {a} : PairKey(a, b) \notin DOMAIN edges => Lookup(edges, a, b) = "unknown"
      BY DEF Lookup
    <3> QED
      BY <3>1, <3>2, <3>3
  <2>3. FailsForAReason
    BY RowsAgree DEF FailsForAReason, BuilderInv, Reason
  <2> QED
    BY <2>1, <2>2, <2>3, DegreeCountsEdges DEF StoreIsWhatRowsSaid
<1> QED
  BY <1>1, BuilderInit, BuilderStep, PTL DEF Spec

-----------------------------------------------------------------------------
(* Demo mode's adjacency                                                   *)

Links == ASN \X ASN \X {"provider", "peer", "sibling"}

LEMMA ElementsAreFinite ==
  ASSUME NEW S, NEW s \in Seq(S)
  PROVE  IsFiniteSet(ToSet(s)) /\ ToSet(s) \subseteq S
<1>1. Len(s) \in Nat /\ s \in [1 .. Len(s) -> S]
  BY LenProperties
<1>2. ToSet(s) = {s[k] : k \in 1 .. Len(s)}
  BY <1>1 DEF ToSet, Range
<1>3. s \in Surjection(1 .. Len(s), {s[k] : k \in 1 .. Len(s)})
  BY <1>1 DEF Surjection
<1>4. IsFiniteSet({s[k] : k \in 1 .. Len(s)})
  BY <1>1, <1>3, FS_Interval, FS_Surjection
<1> QED
  BY <1>1, <1>2, <1>4

\* Any finite set can be listed.
LEMMA ListedSet ==
  ASSUME NEW T, NEW S \in SUBSET T, IsFiniteSet(S)
  PROVE  SetToSeq(S) \in Seq(T) /\ ToSet(SetToSeq(S)) = S
<1> DEFINE n == Cardinality(S)
<1>1. n \in Nat /\ ExistsBijection(1 .. n, S)
  BY FS_CardinalityType
<1>2. PICK f : f \in [1 .. n -> S] /\ IsInjective(f)
  <2>1. PICK f : f \in Bijection(1 .. n, S)
    BY <1>1 DEF ExistsBijection
  <2>2. f \in [1 .. n -> S] /\ \A a, b \in 1 .. n : f[a] = f[b] => a = b
    BY <2>1 DEF Bijection, Injection, IsInjective
  <2> QED
    BY <2>2 DEF IsInjective
<1>3. SetToSeq(S) \in [1 .. n -> S]
  BY <1>2 DEF SetToSeq
<1>4. SetToSeq(S) \in [1 .. n -> T]
  BY <1>3
<1>5. SetToSeq(S) \in Seq(T)
  BY <1>1, <1>4, SeqDef
<1>6. SetToSeq(S) \in Injection(1 .. n, S)
  BY <1>2 DEF SetToSeq, Injection, IsInjective
<1>7. SetToSeq(S) \in Surjection(1 .. n, S)
  <2>1. Cardinality(1 .. n) = n
    <3> HIDE DEF n
    <3>1. 1 \in Int /\ n \in Int
      BY <1>1
    <3>2. Cardinality(1 .. n) = IF 1 > n THEN 0 ELSE n - 1 + 1
      BY <3>1, FS_Interval
    <3> QED
      BY <1>1, <3>2
  <2>2. Cardinality(1 .. n) = Cardinality(S)
    BY <2>1
  <2> HIDE DEF n
  <2> QED
    BY <1>6, <2>2, FS_Injection
<1>8. ToSet(SetToSeq(S)) = S
  <2>1. /\ SetToSeq(S) \in [1 .. n -> S]
        /\ \A t \in S : \E k \in 1 .. n : SetToSeq(S)[k] = t
    BY <1>7 DEF Surjection
  <2> HIDE DEF n
  <2> QED
    BY <2>1 DEF ToSet
<1> QED
  BY <1>5, <1>8

\* One list after another.
LEMMA Joined ==
  ASSUME NEW S, NEW s \in Seq(S), NEW t \in Seq(S)
  PROVE  /\ s \o t \in Seq(S) /\ DOMAIN (s \o t) = 1 .. Len(s) + Len(t)
         /\ Len(s \o t) = Len(s) + Len(t) /\ Len(s) \in Nat /\ Len(t) \in Nat
         /\ \A i \in 1 .. Len(s) + Len(t) :
              (s \o t)[i] = IF i <= Len(s) THEN s[i] ELSE t[i - Len(s)]
         /\ ToSet(s \o t) = ToSet(s) \cup ToSet(t)
<1>1. /\ s \o t \in Seq(S) /\ Len(s \o t) = Len(s) + Len(t)
      /\ \A i \in 1 .. Len(s) + Len(t) :
              (s \o t)[i] = IF i <= Len(s) THEN s[i] ELSE t[i - Len(s)]
  BY ConcatProperties
<1>2. /\ DOMAIN (s \o t) = 1 .. Len(s) + Len(t) /\ Len(s) \in Nat /\ Len(t) \in Nat
      /\ DOMAIN s = 1 .. Len(s) /\ DOMAIN t = 1 .. Len(t)
  BY <1>1, LenProperties
<1>3. ASSUME NEW x \in ToSet(s \o t) PROVE x \in ToSet(s) \cup ToSet(t)
  <2>1. PICK i \in 1 .. Len(s) + Len(t) : x = (s \o t)[i]
    BY <1>2 DEF ToSet
  <2>2. (i \in 1 .. Len(s) /\ x = s[i]) \/ (i - Len(s) \in 1 .. Len(t) /\ x = t[i - Len(s)])
    BY <1>1, <1>2, <2>1
  <2> QED
    BY <1>2, <2>2 DEF ToSet
<1>4. ASSUME NEW x \in ToSet(s) PROVE x \in ToSet(s \o t)
  <2>1. PICK i \in 1 .. Len(s) : x = s[i]
    BY <1>2 DEF ToSet
  <2>2. i \in 1 .. Len(s) + Len(t) /\ x = (s \o t)[i]
    BY <1>1, <1>2, <2>1
  <2> QED
    BY <1>2, <2>2 DEF ToSet
<1>5. ASSUME NEW x \in ToSet(t) PROVE x \in ToSet(s \o t)
  <2>1. PICK i \in 1 .. Len(t) : x = t[i]
    BY <1>2 DEF ToSet
  <2>2. Len(s) + i \in 1 .. Len(s) + Len(t) /\ ~(Len(s) + i <= Len(s))
        /\ Len(s) + i - Len(s) = i
    BY <1>2
  <2>3. x = (s \o t)[Len(s) + i]
    BY <1>1, <2>1, <2>2
  <2> QED
    BY <1>2, <2>2, <2>3 DEF ToSet
<1> QED
  BY <1>1, <1>2, <1>3, <1>4, <1>5

\* The links of one loop join ASes of two tiers, all in one way.
LEMMA TierLinks ==
  ASSUME NEW A \in SUBSET ASN, NEW B \in SUBSET ASN, IsFiniteSet(A), IsFiniteSet(B),
         NEW rel \in {"provider", "peer", "sibling"},
         NEW L, \A l \in L : \E a \in A, b \in B : l = <<a, b, rel>>
  PROVE  SetToSeq(L) \in Seq(Links) /\ ToSet(SetToSeq(L)) = L
<1> DEFINE all == {<<p[1], p[2], rel>> : p \in A \X B}
           f == [p \in A \X B |-> <<p[1], p[2], rel>>]
<1>1. IsFiniteSet(A \X B)
  BY FS_Product
<1>2. f \in Surjection(A \X B, all)
  BY DEF Surjection
<1>3. IsFiniteSet(all)
  <2> HIDE DEF f, all
  <2> QED
    BY <1>1, <1>2, FS_Surjection
<1>4. L \in SUBSET all /\ all \subseteq Links
  <2>1. ASSUME NEW l \in L PROVE l \in all
    <3>1. PICK a \in A, b \in B : l = <<a, b, rel>>
      OBVIOUS
    <3>2. <<a, b>> \in A \X B /\ l = <<(<<a, b>>)[1], (<<a, b>>)[2], rel>>
      BY <3>1
    <3> QED
      BY <3>2
  <2>2. all \subseteq Links
    BY DEF Links
  <2> QED
    BY <2>1, <2>2
<1>5. IsFiniteSet(L) /\ L \in SUBSET Links
  BY <1>3, <1>4, FS_Subset
<1> QED
  BY <1>5, ListedSet

LEMMA DrawnLinks ==
  ASSUME Draw
  PROVE  /\ todo' \in Seq(Links)
         /\ \E up \in TransitUpstreams, stubUp \in [DOMAIN Stubs -> OneOrTwo(Transit)],
              joined \in SUBSET Joinable(Transit) :
              ToSet(todo') = Mesh(Tier1, Joinable(Tier1)) \cup Upstream(Transit, up)
                             \cup Mesh(Transit, joined) \cup Upstream(Stubs, stubUp) \cup Siblings
<1>1. PICK up \in TransitUpstreams, stubUp \in [DOMAIN Stubs -> OneOrTwo(Transit)],
           joined \in SUBSET Joinable(Transit) :
       todo' = SetToSeq(Mesh(Tier1, Joinable(Tier1))) \o SetToSeq(Upstream(Transit, up))
               \o SetToSeq(Mesh(Transit, joined)) \o SetToSeq(Upstream(Stubs, stubUp))
               \o SetToSeq(Siblings)
  BY DEF Draw
<1>2. Tier1 \in Seq(ASN) /\ Transit \in Seq(ASN) /\ Stubs \in Seq(ASN)
  BY SynthAssumption
<1>3. ASSUME NEW s \in Seq(ASN)
      PROVE  /\ IsFiniteSet(ToSet(s)) /\ ToSet(s) \in SUBSET ASN
             /\ DOMAIN s = 1 .. Len(s) /\ Len(s) \in Nat
             /\ \A k \in DOMAIN s : s[k] \in ToSet(s)
  BY ElementsAreFinite, LenProperties DEF ToSet, Range
<1>4. ASSUME NEW s \in Seq(ASN), NEW J \in SUBSET Joinable(s)
      PROVE  SetToSeq(Mesh(s, J)) \in Seq(Links) /\ ToSet(SetToSeq(Mesh(s, J))) = Mesh(s, J)
  <2>1. \A l \in Mesh(s, J) : \E a \in ToSet(s), b \in ToSet(s) : l = <<a, b, "peer">>
    BY <1>3 DEF Mesh, Joinable
  <2> QED
    BY <1>3, <2>1, TierLinks
<1>5. ASSUME NEW s \in Seq(ASN), NEW t \in Seq(ASN), NEW u \in [DOMAIN s -> OneOrTwo(t)]
      PROVE  SetToSeq(Upstream(s, u)) \in Seq(Links) /\ ToSet(SetToSeq(Upstream(s, u))) = Upstream(s, u)
  <2>1. \A l \in Upstream(s, u) : \E a \in ToSet(s), b \in ToSet(t) : l = <<a, b, "provider">>
    BY <1>3 DEF Upstream, OneOrTwo
  <2>2. /\ IsFiniteSet(ToSet(s)) /\ ToSet(s) \in SUBSET ASN
        /\ IsFiniteSet(ToSet(t)) /\ ToSet(t) \in SUBSET ASN
    BY <1>3
  <2> QED
    BY <2>1, <2>2, TierLinks
<1>6. SetToSeq(Siblings) \in Seq(Links) /\ ToSet(SetToSeq(Siblings)) = Siblings
  <2>1. \A l \in Siblings : \E a \in ToSet(Stubs), b \in ToSet(Stubs) : l = <<a, b, "sibling">>
    <3> TAKE l \in Siblings
    <3>1. PICK k \in 1 .. Len(Stubs) - 1 : l = <<Stubs[k], Stubs[k + 1], "sibling">>
      BY DEF Siblings
    <3>2. k \in DOMAIN Stubs /\ k + 1 \in DOMAIN Stubs
      BY <1>2, <1>3
    <3> QED
      BY <1>2, <1>3, <3>1, <3>2
  <2>2. IsFiniteSet(ToSet(Stubs)) /\ ToSet(Stubs) \in SUBSET ASN
    BY <1>2, <1>3
  <2> QED
    BY <2>1, <2>2, TierLinks
<1>7. up \in [DOMAIN Transit -> OneOrTwo(Tier1)]
  BY DEF TransitUpstreams
<1> DEFINE A == SetToSeq(Mesh(Tier1, Joinable(Tier1)))
           B == SetToSeq(Upstream(Transit, up))
           C == SetToSeq(Mesh(Transit, joined))
           D == SetToSeq(Upstream(Stubs, stubUp))
           E == SetToSeq(Siblings)
<1>8. /\ A \in Seq(Links) /\ ToSet(A) = Mesh(Tier1, Joinable(Tier1))
      /\ B \in Seq(Links) /\ ToSet(B) = Upstream(Transit, up)
      /\ C \in Seq(Links) /\ ToSet(C) = Mesh(Transit, joined)
      /\ D \in Seq(Links) /\ ToSet(D) = Upstream(Stubs, stubUp)
      /\ E \in Seq(Links) /\ ToSet(E) = Siblings
      /\ todo' = A \o B \o C \o D \o E
  BY <1>1, <1>2, <1>4, <1>5, <1>6, <1>7
<1> HIDE DEF A, B, C, D, E
<1> DEFINE AB == A \o B
           ABC == AB \o C
           ABCD == ABC \o D
<1>9. AB \in Seq(Links) /\ ToSet(AB) = ToSet(A) \cup ToSet(B)
  BY <1>8, Joined
<1> HIDE DEF AB
<1>10. ABC \in Seq(Links) /\ ToSet(ABC) = ToSet(AB) \cup ToSet(C)
  BY <1>8, <1>9, Joined
<1> HIDE DEF ABC
<1>11. ABCD \in Seq(Links) /\ ToSet(ABCD) = ToSet(ABC) \cup ToSet(D)
  BY <1>8, <1>10, Joined
<1> HIDE DEF ABCD
<1>12. ABCD \o E \in Seq(Links) /\ ToSet(ABCD \o E) = ToSet(ABCD) \cup ToSet(E)
  BY <1>8, <1>11, Joined
<1>13. todo' = ABCD \o E
  BY <1>8 DEF AB, ABC, ABCD
<1> QED
  BY <1>8, <1>9, <1>10, <1>11, <1>12, <1>13

\* A lookup between two ASes after a link was accepted.
LEMMA LookupAfter ==
  ASSUME IsStore(edges), NEW a \in ASN, NEW c \in ASN, NEW rel \in Known, a # c,
         ~Conflicts(a, c, rel), Accept(a, c, rel)
  PROVE  /\ IsStore(edges')
         /\ Lookup(edges, a, c) \in {rel, "unknown"}
         /\ Lookup(edges, c, a) \in {Invert(rel), "unknown"}
         /\ \A x \in ASN, y \in ASN : x # y =>
              Lookup(edges', x, y) = IF x = a /\ y = c THEN rel
                                     ELSE IF x = c /\ y = a THEN Invert(rel)
                                     ELSE Lookup(edges, x, y)
<1> DEFINE key == PairKey(a, c)
           lo == FromLo(a, c, rel)
<1>1. /\ key \in Pair /\ lo \in Known /\ key = PairKey(c, a)
      /\ FromLo(a, c, lo) = rel /\ FromLo(c, a, lo) = Invert(rel)
  <2>1. PairKey(a, c) = PairKey(c, a) /\ PairKey(a, c) \in Pair /\ lo \in Known
        /\ FromLo(a, c, lo) = rel
    BY Turned
  <2>2. FromLo(c, a, lo) = Invert(FromLo(a, c, lo))
    BY <2>1, Turned
  <2> QED
    BY <2>1, <2>2
<1>2. /\ DOMAIN edges' = DOMAIN edges \cup {key}
      /\ edges' = [p \in DOMAIN edges' |-> IF p = key THEN lo ELSE edges[p]]
      /\ key \in DOMAIN edges => edges[key] = lo
  <2>1. key \in DOMAIN edges => edges[key] = lo
    BY DEF Conflicts
  <2>2. CASE key \in DOMAIN edges
    <3>1. edges' = edges /\ edges = [p \in DOMAIN edges |-> edges[p]]
      BY <2>2 DEF Accept, IsStore
    <3> HIDE DEF key, lo
    <3>2. edges = [p \in DOMAIN edges |-> IF p = key THEN lo ELSE edges[p]]
      BY <2>1, <3>1
    <3> QED
      BY <2>1, <2>2, <3>1, <3>2
  <2>3. CASE key \notin DOMAIN edges
    BY <2>3 DEF Accept, Insert
  <2> QED
    BY <2>1, <2>2, <2>3
<1>3. \A x \in ASN, y \in ASN : x # y =>
        (PairKey(x, y) = key <=> (x = a /\ y = c) \/ (x = c /\ y = a))
  BY <1>1, SamePair
<1> HIDE DEF key, lo
<1>4. \A p \in DOMAIN edges' : edges'[p] = IF p = key THEN lo ELSE edges[p]
  BY <1>2
<1>5. IsStore(edges')
  <2>1. \A p \in DOMAIN edges' : edges'[p] \in Known /\ p \in Pair
    BY <1>1, <1>2, <1>4 DEF IsStore, Known
  <2>2. edges' \in [DOMAIN edges' -> Known]
    BY <1>2, <2>1
  <2> QED
    BY <2>1, <2>2 DEF IsStore, Known
<1>6. /\ Lookup(edges, a, c) \in {rel, "unknown"}
      /\ Lookup(edges, c, a) \in {Invert(rel), "unknown"}
  BY <1>1, <1>2 DEF Lookup, key
<1>7. ASSUME NEW x \in ASN, NEW y \in ASN, x # y
      PROVE  Lookup(edges', x, y) = IF x = a /\ y = c THEN rel
                                     ELSE IF x = c /\ y = a THEN Invert(rel)
                                     ELSE Lookup(edges, x, y)
  <2>1. CASE x = a /\ y = c
    BY <1>1, <1>2, <1>4, <2>1 DEF Lookup, key
  <2>2. CASE x = c /\ y = a
    BY <1>1, <1>2, <1>4, <1>7, <2>2 DEF Lookup, key
  <2>3. CASE ~(x = a /\ y = c) /\ ~(x = c /\ y = a)
    <3>1. PairKey(x, y) # key
      BY <1>3, <1>7, <2>3
    <3>2. PairKey(x, y) \in DOMAIN edges' <=> PairKey(x, y) \in DOMAIN edges
      BY <1>2, <3>1
    <3>3. PairKey(x, y) \in DOMAIN edges' => edges'[PairKey(x, y)] = edges[PairKey(x, y)]
      BY <1>4, <3>1
    <3> QED
      BY <1>7, <2>3, <3>2, <3>3 DEF Lookup
  <2> QED
    BY <2>1, <2>2, <2>3
<1> QED
  BY <1>5, <1>6, <1>7

(***************************************************************************)
(* The maps are what the store says, typed; and the links still to come    *)
(* are never written from the provider's end, or a path could turn back.   *)
(***************************************************************************)
SynthInv ==
  /\ phase # "file" /\ IsStore(edges) /\ todo \in Seq(Links)
  /\ providersOf \in [ASN -> SUBSET ASN] /\ customersOf \in [ASN -> SUBSET ASN]
  /\ peersOf \in [ASN -> SUBSET ASN]
  /\ AdjacencyIsTheStore

LEMMA SynthInitInv == SynthInit => SynthInv
<1> SUFFICES ASSUME SynthInit PROVE SynthInv
  OBVIOUS
<1>1. IsStore(edges) /\ DOMAIN edges = {} /\ phase = "draw" /\ todo \in Seq(Links)
  BY DEF SynthInit, Init, NothingDrawn, IsStore
<1>2. \A a \in ASN : \A b \in ASN \ {a} : Lookup(edges, a, b) = "unknown"
  BY <1>1 DEF Lookup
<1> QED
  BY <1>1, <1>2 DEF SynthInv, SynthInit, NothingDrawn, AdjacencyIsTheStore

LEMMA EdgeKeepsInv ==
  ASSUME SynthInv, Edge
  PROVE  SynthInv'
<1>1. PICK l \in Links : l = Head(todo)
  BY HeadTailProperties DEF SynthInv, Edge
<1>2. todo' \in Seq(Links) /\ phase' = phase
  BY HeadTailProperties DEF SynthInv, Edge
<1>3. CASE l[1] = l[2] \/ Conflicts(l[1], l[2], l[3])
  <2>1. UNCHANGED <<storeVars, adjacency>>
    BY <1>1, <1>3 DEF Edge
  <2> QED
    BY <1>2, <2>1 DEF SynthInv, AdjacencyIsTheStore, storeVars, adjacency
<1>4. CASE ~(l[1] = l[2] \/ Conflicts(l[1], l[2], l[3]))
  <2>1. PICK a \in ASN, c \in ASN, rel \in {"provider", "peer", "sibling"} : l = <<a, c, rel>>
    BY DEF Links
  <2>2. a # c /\ ~Conflicts(a, c, rel) /\ Accept(a, c, rel) /\ Adjoin(a, c, rel)
    BY <1>1, <1>4, <2>1 DEF Edge
  <2>3. rel \in Known
    BY DEF Known, RelStatus
  <2>4. /\ IsStore(edges')
        /\ Lookup(edges, a, c) \in {rel, "unknown"}
        /\ Lookup(edges, c, a) \in {Invert(rel), "unknown"}
        /\ \A x \in ASN, y \in ASN : x # y =>
             Lookup(edges', x, y) = IF x = a /\ y = c THEN rel
                                    ELSE IF x = c /\ y = a THEN Invert(rel)
                                    ELSE Lookup(edges, x, y)
    BY <2>2, <2>3, LookupAfter DEF SynthInv
  <2>5. /\ providersOf' \in [ASN -> SUBSET ASN]
        /\ customersOf' \in [ASN -> SUBSET ASN]
        /\ peersOf' \in [ASN -> SUBSET ASN]
        /\ \A x \in ASN :
             /\ providersOf'[x] = providersOf[x] \cup (IF rel = "provider" /\ x = a THEN {c} ELSE {})
             /\ customersOf'[x] = customersOf[x] \cup (IF rel = "provider" /\ x = c THEN {a} ELSE {})
             /\ peersOf'[x] = peersOf[x] \cup (IF rel = "peer" /\ x = a THEN {c} ELSE {})
                                         \cup (IF rel = "peer" /\ x = c THEN {a} ELSE {})
    <3>1. /\ providersOf' = [x \in ASN |-> providersOf[x] \cup {y \in ASN :
                               rel = "provider" /\ <<x, y>> = <<a, c>>}]
          /\ customersOf' = [y \in ASN |-> customersOf[y] \cup {x \in ASN :
                               rel = "provider" /\ <<x, y>> = <<a, c>>}]
          /\ peersOf' = [x \in ASN |-> peersOf[x] \cup {y \in ASN :
                           rel = "peer" /\ <<x, y>> \in {<<a, c>>, <<c, a>>}}]
      BY <2>2 DEF Adjoin
    <3>2. /\ providersOf \in [ASN -> SUBSET ASN] /\ customersOf \in [ASN -> SUBSET ASN]
          /\ peersOf \in [ASN -> SUBSET ASN]
      BY DEF SynthInv
    <3> QED
      BY <3>1, <3>2
  <2>6. /\ (rel = "provider" => Invert(rel) = "customer") /\ (rel = "peer" => Invert(rel) = "peer")
        /\ (rel = "sibling" => Invert(rel) = "sibling")
    BY DEF Invert
  <2>7. ASSUME NEW x \in ASN
        PROVE  /\ providersOf'[x] = {b \in ASN \ {x} : Lookup(edges', x, b) = "provider"}
               /\ customersOf'[x] = {b \in ASN \ {x} : Lookup(edges', x, b) = "customer"}
               /\ peersOf'[x] = {b \in ASN \ {x} : Lookup(edges', x, b) = "peer"}
    <3>1. /\ providersOf[x] = {b \in ASN \ {x} : Lookup(edges, x, b) = "provider"}
          /\ customersOf[x] = {b \in ASN \ {x} : Lookup(edges, x, b) = "customer"}
          /\ peersOf[x] = {b \in ASN \ {x} : Lookup(edges, x, b) = "peer"}
      BY DEF SynthInv, AdjacencyIsTheStore
    <3>2. providersOf'[x] = {b \in ASN \ {x} : Lookup(edges', x, b) = "provider"}
      BY <2>2, <2>4, <2>5, <2>6, <3>1
    <3>3. customersOf'[x] = {b \in ASN \ {x} : Lookup(edges', x, b) = "customer"}
      BY <2>2, <2>4, <2>5, <2>6, <3>1
    <3>4. peersOf'[x] = {b \in ASN \ {x} : Lookup(edges', x, b) = "peer"}
      BY <2>2, <2>4, <2>5, <2>6, <3>1
    <3> QED
      BY <3>2, <3>3, <3>4
  <2> QED
    BY <1>2, <2>4, <2>5, <2>7 DEF SynthInv, AdjacencyIsTheStore
<1> QED
  BY <1>3, <1>4

LEMMA SynthStepInv == SynthInv /\ [SynthNext]_synthVars => SynthInv'
<1> SUFFICES ASSUME SynthInv, [SynthNext]_synthVars PROVE SynthInv'
  OBVIOUS
<1>1. ASSUME edges' = edges, todo' \in Seq(Links), UNCHANGED adjacency, phase' # "file"
      PROVE  SynthInv'
  BY <1>1 DEF SynthInv, AdjacencyIsTheStore, adjacency
<1>2. CASE Draw
  BY <1>1, <1>2, DrawnLinks DEF Draw, storeVars
<1>3. CASE Edge
  BY <1>3, EdgeKeepsInv
<1>4. CASE Allocate
  BY <1>1, <1>4 DEF Allocate, SynthInv
<1>5. CASE MakeLeak \/ MakeHijack \/ MakeWithdraw \/ MakeAnnounce
  BY <1>1, <1>5 DEF MakeLeak, MakeHijack, MakeWithdraw, MakeAnnounce, StartPath, storeVars, SynthInv
<1>6. CASE Climb \/ CrossPeer \/ Descend \/ Emit
  BY <1>1, <1>6 DEF Climb, CrossPeer, Descend, Emit, pathFixed, storeVars, SynthInv
<1>7. CASE UNCHANGED synthVars
  BY <1>1, <1>7 DEF synthVars, storeVars, SynthInv
<1> QED
  BY <1>2, <1>3, <1>4, <1>5, <1>6, <1>7 DEF SynthNext

(***************************************************************************)
(* Whatever topology is drawn, of any size, the maps the paths are drawn   *)
(* from are what the store says, link by link (topology.go: edge).         *)
(***************************************************************************)
THEOREM AdjacencyAlwaysTheStore == SynthSpec => []AdjacencyIsTheStore
<1>1. SynthInv => AdjacencyIsTheStore
  BY DEF SynthInv
<1> QED
  BY <1>1, SynthInitInv, SynthStepInv, PTL DEF SynthSpec

-----------------------------------------------------------------------------
(* Least counterexamples: what stands in for induction here                *)

LEMMA FirstNat ==
  ASSUME NEW T \in SUBSET Nat, T # {}
  PROVE  \E k \in T : \A j \in T : k <= j
<1>1. PICK k \in T : \A j \in T : ~(<<j, k>> \in OpToRel(<, Nat))
  BY NatLessThanWellFounded, WFMin
<1>2. \A j \in T : ~(j < k)
  BY <1>1 DEF OpToRel
<1> QED
  BY <1>2

\* FlattenSeq's recursive function exists, and is what its definition says of it.
LEMMA FlattenBuilt ==
  ASSUME NEW S, NEW s \in Seq(Seq(S)), s # <<>>
  PROVE  \E f : /\ FlattenSeq(s) = f[Len(s)]
                /\ \A i \in 1 .. Len(s) :
                     /\ f[i] \in Seq(S)
                     /\ f[i] = IF i = 1 THEN s[i] ELSE f[i - 1] \o s[i]
<1> DEFINE Unrolled(f, n) == f = [i \in 1 .. n |-> IF i = 1 THEN s[i] ELSE f[i - 1] \o s[i]]
<1>1. Len(s) \in Nat /\ Len(s) >= 1 /\ \A i \in 1 .. Len(s) : s[i] \in Seq(S)
  BY LenProperties, EmptySeq
<1>2. \E f : Unrolled(f, Len(s))
  <2> DEFINE Possible(n) == \E f : Unrolled(f, n)
             T == {n \in 1 .. Len(s) : ~Possible(n)}
  <2> SUFFICES ASSUME T # {} PROVE FALSE
    <3>1. Len(s) \in 1 .. Len(s)
      BY <1>1
    <3>2. ASSUME T = {} PROVE Possible(Len(s))
      <4> HIDE DEF Possible
      <4> QED
        BY <3>1, <3>2
    <3> QED
      BY <3>2
  <2>1. PICK m \in T : \A j \in T : m <= j
    <3> HIDE DEF Possible
    <3>1. T \in SUBSET Nat
      BY <1>1
    <3> HIDE DEF T
    <3> QED
      BY <3>1, FirstNat
  <2>2. CASE m = 1
    <3>1. Unrolled([i \in 1 .. 1 |-> s[i]], 1)
      OBVIOUS
    <3> QED
      BY <2>2, <3>1
  <2>3. CASE m # 1
    <3>1. m - 1 \in 1 .. Len(s) /\ m - 1 \notin T /\ m \in 2 .. Len(s)
      <4> HIDE DEF Possible
      <4> QED
        BY <1>1, <2>1, <2>3
    <3>2. PICK g : Unrolled(g, m - 1)
      <4>1. Possible(m - 1)
        <5> HIDE DEF Possible
        <5> QED
          BY <3>1
      <4> QED
        BY <4>1
    <3> DEFINE f == [i \in 1 .. m |-> IF i < m THEN g[i] ELSE g[m - 1] \o s[m]]
    <3>3. Unrolled(f, m)
      <4>1. \A i \in 1 .. m : f[i] = IF i = 1 THEN s[i] ELSE f[i - 1] \o s[i]
        <5> TAKE i \in 1 .. m
        <5>1. CASE i = m
          BY <3>1, <5>1
        <5>2. CASE i < m
          <6>1. i \in 1 .. m - 1
            BY <3>1, <5>2
          <6>2. g[i] = IF i = 1 THEN s[i] ELSE g[i - 1] \o s[i]
            BY <3>2, <6>1
          <6> QED
            BY <3>1, <5>2, <6>1, <6>2
        <5> QED
          BY <3>1, <5>1, <5>2
      <4> QED
        BY <4>1
    <3> QED
      BY <3>3
  <2> QED
    BY <2>2, <2>3
<1> DEFINE flatten == CHOOSE f : Unrolled(f, Len(s))
<1>3. Unrolled(flatten, Len(s))
  BY <1>2
<1>4. FlattenSeq(s) = flatten[Len(s)]
  BY <1>1 DEF FlattenSeq
<1> HIDE DEF flatten
<1>5. \A i \in 1 .. Len(s) : flatten[i] \in Seq(S)
  <2> DEFINE T == {i \in 1 .. Len(s) : flatten[i] \notin Seq(S)}
  <2> SUFFICES ASSUME T # {} PROVE FALSE
    OBVIOUS
  <2>1. PICK m \in T : \A j \in T : m <= j
    <3>1. T \in SUBSET Nat
      BY <1>1
    <3> HIDE DEF T
    <3> QED
      BY <3>1, FirstNat
  <2>2. flatten[m] = IF m = 1 THEN s[m] ELSE flatten[m - 1] \o s[m]
    BY <1>3
  <2>3. m # 1 => m - 1 \in 1 .. Len(s) /\ m - 1 \notin T
    BY <1>1, <2>1
  <2>4. s[m] \in Seq(S) /\ flatten[m] \notin Seq(S)
    BY <1>1, <2>1
  <2>5. CASE m = 1
    BY <2>2, <2>4, <2>5
  <2>6. CASE m # 1
    <3>1. flatten[m - 1] \in Seq(S)
      BY <2>3, <2>6
    <3>2. flatten[m - 1] \o s[m] \in Seq(S)
      BY <2>4, <3>1, ConcatProperties
    <3> QED
      BY <2>2, <2>4, <2>6, <3>2
  <2> QED
    BY <2>5, <2>6
<1>6. \A i \in 1 .. Len(s) : flatten[i] = IF i = 1 THEN s[i] ELSE flatten[i - 1] \o s[i]
  BY <1>3
<1> QED
  BY <1>4, <1>5, <1>6

LEMMA FlattenedType ==
  ASSUME NEW S, NEW s \in Seq(Seq(S)), s # <<>>
  PROVE  FlattenSeq(s) \in Seq(S)
<1>1. Len(s) \in 1 .. Len(s)
  BY EmptySeq
<1> QED
  BY <1>1, FlattenBuilt

LEMMA FlattenNothing == FlattenSeq(<<>>) = <<>>
  BY DEF FlattenSeq

LEMMA FlattenAppend ==
  ASSUME NEW S, NEW s \in Seq(Seq(S)), NEW x \in Seq(S)
  PROVE  FlattenSeq(Append(s, x)) = FlattenSeq(s) \o x
<1> DEFINE t == Append(s, x)
           n == Len(s)
<1>1. /\ t \in Seq(Seq(S)) /\ t # <<>> /\ Len(t) = n + 1 /\ n \in Nat
      /\ t[n + 1] = x /\ \A i \in 1 .. n : t[i] = s[i]
  BY AppendProperties
<1> HIDE DEF t
<1>2. PICK h : /\ FlattenSeq(t) = h[n + 1]
               /\ \A i \in 1 .. n + 1 :
                    h[i] \in Seq(S) /\ h[i] = IF i = 1 THEN t[i] ELSE h[i - 1] \o t[i]
  <2>1. \E h : /\ FlattenSeq(t) = h[Len(t)]
               /\ \A i \in 1 .. Len(t) :
                    /\ h[i] \in Seq(S)
                    /\ h[i] = IF i = 1 THEN t[i] ELSE h[i - 1] \o t[i]
    <3>1. t \in Seq(Seq(S)) /\ t # <<>>
      BY <1>1
    <3> QED
      BY ONLY <3>1, FlattenBuilt
  <2> QED
    BY <1>1, <2>1
<1>3. CASE s = <<>>
  <2>1. n = 0 /\ h[1] = x
    BY <1>1, <1>2, <1>3
  <2> QED
    BY <1>2, <1>3, <2>1, FlattenNothing, ConcatEmptySeq DEF t
<1>4. CASE s # <<>>
  <2>1. n \in 1 .. n
    BY <1>1, <1>4, EmptySeq
  <2>2. PICK g : /\ FlattenSeq(s) = g[n]
                 /\ \A i \in 1 .. n :
                      g[i] \in Seq(S) /\ g[i] = IF i = 1 THEN s[i] ELSE g[i - 1] \o s[i]
    <3>1. \E g : /\ FlattenSeq(s) = g[Len(s)]
                 /\ \A i \in 1 .. Len(s) :
                      /\ g[i] \in Seq(S)
                      /\ g[i] = IF i = 1 THEN s[i] ELSE g[i - 1] \o s[i]
      BY ONLY <1>4, FlattenBuilt
    <3> QED
      BY <3>1
  <2>3. \A i \in 1 .. n : h[i] = g[i]
    <3> DEFINE T == {i \in 1 .. n : h[i] # g[i]}
    <3> SUFFICES ASSUME T # {} PROVE FALSE
      OBVIOUS
    <3>1. PICK m \in T : \A j \in T : m <= j
      <4>1. T \in SUBSET Nat
        BY <1>1
      <4> HIDE DEF T
      <4> QED
        BY <4>1, FirstNat
    <3>2. m \in 1 .. n /\ h[m] # g[m] /\ t[m] = s[m]
      BY <1>1, <3>1
    <3>3. m # 1 => m - 1 \in 1 .. n /\ h[m - 1] = g[m - 1]
      BY <1>1, <3>1
    <3>4. h[m] = IF m = 1 THEN t[m] ELSE h[m - 1] \o t[m]
      BY <1>1, <1>2, <3>2
    <3>5. g[m] = IF m = 1 THEN s[m] ELSE g[m - 1] \o s[m]
      BY <2>2, <3>2
    <3> QED
      BY <3>2, <3>3, <3>4, <3>5
  <2>4. h[n + 1] = h[n] \o t[n + 1]
    <3>1. n + 1 \in 1 .. n + 1 /\ n + 1 # 1 /\ (n + 1) - 1 = n
      BY <1>1, <2>1
    <3> HIDE DEF n
    <3> QED
      BY <1>2, <3>1
  <2> QED
    BY <1>1, <1>2, <2>1, <2>2, <2>3, <2>4 DEF t
<1> QED
  BY <1>3, <1>4

LEMMA FlattenHead ==
  ASSUME NEW S, NEW s \in Seq(Seq(S)), s # <<>>
  PROVE  FlattenSeq(s) = s[1] \o FlattenSeq(Tail(s))
<1> DEFINE t == Tail(s)
           n == Len(t)
<1>1. /\ t \in Seq(Seq(S)) /\ Len(s) = n + 1 /\ n \in Nat /\ s[1] \in Seq(S)
      /\ \A i \in 1 .. n : t[i] = s[i + 1] /\ t[i] \in Seq(S)
  <2>1. /\ t \in Seq(Seq(S)) /\ Len(s) = n + 1 /\ n \in Nat /\ s[1] \in Seq(S)
        /\ \A i \in 1 .. n : t[i] = s[i + 1]
    BY HeadTailProperties, EmptySeq, LenProperties
  <2> QED
    BY <2>1, ElementOfSeq
<1>a. \A x, y, z \in Seq(S) : (x \o y) \o z = x \o (y \o z)
  BY ConcatAssociative
<1> HIDE DEF t, n
<1>2. PICK h : /\ FlattenSeq(s) = h[n + 1]
               /\ \A i \in 1 .. n + 1 :
                    h[i] \in Seq(S) /\ h[i] = IF i = 1 THEN s[i] ELSE h[i - 1] \o s[i]
  <2>1. \E h : /\ FlattenSeq(s) = h[Len(s)]
               /\ \A i \in 1 .. Len(s) :
                    /\ h[i] \in Seq(S)
                    /\ h[i] = IF i = 1 THEN s[i] ELSE h[i - 1] \o s[i]
    BY ONLY s \in Seq(Seq(S)), s # <<>>, FlattenBuilt
  <2> QED
    BY <1>1, <2>1
<1>3. CASE t = <<>>
  <2>1. n = 0 /\ h[1] = s[1]
    BY <1>1, <1>2, <1>3 DEF n
  <2>2. FlattenSeq(t) = <<>> /\ FlattenSeq(s) = s[1]
    BY <1>2, <1>3, <2>1, FlattenNothing
  <2> QED
    BY <1>1, <2>2, ConcatEmptySeq DEF t
<1>4. CASE t # <<>>
  <2>1. n \in 1 .. n
    BY <1>1, <1>4, EmptySeq DEF n
  <2>2. PICK g : /\ FlattenSeq(t) = g[n]
                 /\ \A i \in 1 .. n :
                      g[i] \in Seq(S) /\ g[i] = IF i = 1 THEN t[i] ELSE g[i - 1] \o t[i]
    BY ONLY <1>1, <1>4, FlattenBuilt DEF n
  <2>3. \A i \in 1 .. n : h[i + 1] = s[1] \o g[i]
    <3> DEFINE T == {i \in 1 .. n : h[i + 1] # s[1] \o g[i]}
    <3> SUFFICES ASSUME T # {} PROVE FALSE
      OBVIOUS
    <3>1. PICK m \in T : \A j \in T : m <= j
      <4>1. T \in SUBSET Nat
        <5>1. 1 .. n \subseteq Nat
          BY <1>1
        <5> QED
          BY <5>1
      <4> HIDE DEF T
      <4> QED
        BY <4>1, FirstNat
    <3>2. m \in 1 .. n /\ h[m + 1] # s[1] \o g[m] /\ t[m] = s[m + 1]
      BY <1>1, <3>1
    <3>3. m # 1 => m - 1 \in 1 .. n /\ h[m] = s[1] \o g[m - 1]
      <4>1. m # 1 => m - 1 \in 1 .. n /\ m - 1 \notin T
        <5> HIDE DEF T
        <5>1. m # 1 => m - 1 \in 1 .. n /\ ~(m <= m - 1)
          BY <1>1, <3>2
        <5> QED
          BY <3>1, <5>1
      <4>2. (m - 1) + 1 = m
        BY <1>1, <3>2
      <4> QED
        BY <4>1, <4>2
    <3>4. h[m + 1] = h[m] \o t[m]
      <4>1. m + 1 \in 1 .. n + 1 /\ m + 1 # 1 /\ (m + 1) - 1 = m
        BY <1>1, <3>2
      <4> QED
        BY <1>2, <3>2, <4>1
    <3>5. g[m] = IF m = 1 THEN t[m] ELSE g[m - 1] \o t[m]
      BY <2>2, <3>2
    <3>6. CASE m = 1
      <4>1. 1 \in 1 .. n + 1
        BY <1>1
      <4>2. h[1] = s[1]
        BY <1>2, <4>1
      <4> QED
        BY <3>2, <3>4, <3>5, <3>6, <4>2
    <3>7. CASE m # 1
      <4>1. g[m - 1] \in Seq(S) /\ t[m] \in Seq(S)
        BY <1>1, <2>2, <3>2, <3>3, <3>7
      <4>2. (s[1] \o g[m - 1]) \o t[m] = s[1] \o (g[m - 1] \o t[m])
        BY <1>1, <1>a, <4>1
      <4> QED
        BY <3>2, <3>3, <3>4, <3>5, <3>7, <4>2
    <3> QED
      BY <3>6, <3>7
  <2> QED
    BY <1>2, <2>1, <2>2, <2>3 DEF t
<1> QED
  BY <1>3, <1>4

-----------------------------------------------------------------------------
(* Where each element of a flattened sequence comes from                   *)

(***************************************************************************)
(* Each element of a flattened sequence is one element of one of its       *)
(* sequences, every one of them is there, and they are in that order: row  *)
(* says of which sequence, col of which place in it.                       *)
(***************************************************************************)
Spots(s, row, col) ==
  LET n == Len(FlattenSeq(s))
  IN  /\ n \in Nat
      /\ \A i \in 1 .. n :
           /\ row[i] \in 1 .. Len(s) /\ col[i] \in 1 .. Len(s[row[i]])
           /\ FlattenSeq(s)[i] = s[row[i]][col[i]]
      /\ \A k \in 1 .. Len(s) : \A j \in 1 .. Len(s[k]) :
           \E i \in 1 .. n : row[i] = k /\ col[i] = j
      /\ \A i, j \in 1 .. n : i < j => row[i] < row[j] \/ (row[i] = row[j] /\ col[i] < col[j])

LEMMA FlattenOffsets ==
  ASSUME NEW S, NEW s \in Seq(Seq(S)), s # <<>>
  PROVE  \E off \in [0 .. Len(s) -> Nat] :
           /\ off[0] = 0 /\ Len(FlattenSeq(s)) = off[Len(s)]
           /\ \A k \in 1 .. Len(s) : off[k] = off[k - 1] + Len(s[k])
           /\ \A a, b \in 0 .. Len(s) : a <= b => off[a] <= off[b]
           /\ \A k \in 1 .. Len(s) : \A j \in 1 .. Len(s[k]) :
                FlattenSeq(s)[off[k - 1] + j] = s[k][j]
<1> DEFINE n == Len(s)
<1>1. n \in Nat /\ n >= 1 /\ \A k \in 1 .. n : s[k] \in Seq(S) /\ Len(s[k]) \in Nat
  <2>1. Len(s) \in Nat \ {0}
    BY EmptySeq
  <2>2. \A k \in 1 .. Len(s) : s[k] \in Seq(S)
    BY ElementOfSeq
  <2> QED
    BY <2>1, <2>2, LenProperties
<1>2. PICK f : /\ FlattenSeq(s) = f[n]
               /\ \A i \in 1 .. n :
                    f[i] \in Seq(S) /\ f[i] = IF i = 1 THEN s[i] ELSE f[i - 1] \o s[i]
  BY FlattenBuilt
<1> HIDE DEF n
<1>3. \A k \in 1 .. n : Len(f[k]) \in Nat
  BY <1>2, LenProperties
<1>4. \A k \in 2 .. n :
        /\ Len(f[k]) = Len(f[k - 1]) + Len(s[k])
        /\ \A i \in 1 .. Len(f[k - 1]) : f[k][i] = f[k - 1][i]
        /\ \A j \in 1 .. Len(s[k]) : f[k][Len(f[k - 1]) + j] = s[k][j]
  <2> TAKE k \in 2 .. n
  <2> DEFINE g == f[k - 1]
             t == s[k]
             h == f[k]
  <2>1. k \in 1 .. n /\ k # 1 /\ k - 1 \in 1 .. n
    BY <1>1
  <2>2. g \in Seq(S) /\ t \in Seq(S) /\ h = g \o t
    BY <1>1, <1>2, <2>1
  <2> HIDE DEF g, t, h
  <2>3. /\ Len(g) \in Nat /\ Len(t) \in Nat /\ Len(h) = Len(g) + Len(t)
        /\ \A i \in 1 .. Len(g) + Len(t) : h[i] = IF i <= Len(g) THEN g[i] ELSE t[i - Len(g)]
    BY <2>2, ConcatProperties, LenProperties
  <2>4. \A i \in 1 .. Len(g) : h[i] = g[i]
    BY <2>3
  <2>5. \A j \in 1 .. Len(t) : h[Len(g) + j] = t[j]
    <3> TAKE j \in 1 .. Len(t)
    <3>1. Len(g) + j \in 1 .. Len(g) + Len(t) /\ ~(Len(g) + j <= Len(g)) /\ (Len(g) + j) - Len(g) = j
      BY <2>3
    <3> QED
      BY <2>3, <3>1
  <2> QED
    BY <2>3, <2>4, <2>5 DEF g, t, h
<1> DEFINE off == [k \in 0 .. n |-> IF k = 0 THEN 0 ELSE Len(f[k])]
<1>5. /\ off \in [0 .. n -> Nat] /\ off[0] = 0
      /\ \A k \in 1 .. n : off[k] = Len(f[k])
  BY <1>1, <1>3
<1> HIDE DEF off
<1>6. \A k \in 1 .. n : off[k] = off[k - 1] + Len(s[k])
  <2> TAKE k \in 1 .. n
  <2>1. CASE k = 1
    <3>1. f[1] = s[1] /\ off[1] = Len(f[1]) /\ off[0] = 0 /\ Len(s[1]) \in Nat
      BY <1>1, <1>2, <1>5
    <3>2. k - 1 = 0
      BY <2>1
    <3> QED
      BY <2>1, <3>1, <3>2
  <2>2. CASE k # 1
    <3>1. k \in 2 .. n /\ k - 1 \in 1 .. n
      BY <1>1, <2>2
    <3> QED
      BY <1>4, <1>5, <3>1
  <2> QED
    BY <2>1, <2>2
<1>7. \A k \in 1 .. n : off[k - 1] \in Nat /\ off[k] \in Nat /\ off[k - 1] <= off[k]
  <2> TAKE k \in 1 .. n
  <2>1. k - 1 \in 0 .. n /\ k \in 0 .. n
    BY <1>1
  <2>2. off[k - 1] \in Nat /\ off[k] \in Nat /\ Len(s[k]) \in Nat
    BY <1>1, <1>5, <2>1
  <2> QED
    BY <1>6, <2>2
<1>8. \A a, b \in 0 .. n : a <= b => off[a] <= off[b]
  <2> SUFFICES ASSUME NEW a \in 0 .. n,
                      {b \in 0 .. n : a <= b /\ ~(off[a] <= off[b])} # {}
               PROVE  FALSE
    OBVIOUS
  <2> DEFINE T == {b \in 0 .. n : a <= b /\ ~(off[a] <= off[b])}
  <2>1. PICK m \in T : \A j \in T : m <= j
    <3>1. T \in SUBSET Nat /\ T # {}
      BY <1>1
    <3> HIDE DEF T
    <3> QED
      BY <3>1, FirstNat
  <2>2. m \in 0 .. n /\ a <= m /\ ~(off[a] <= off[m]) /\ off[a] \in Nat /\ off[m] \in Nat
    BY <1>5, <2>1
  <2>3. m # a
    BY <2>2
  <2>4. m \in 1 .. n /\ m - 1 \in 0 .. n /\ a <= m - 1 /\ ~(m <= m - 1)
    BY <1>1, <2>2, <2>3
  <2>5. off[a] <= off[m - 1]
    <3>1. m - 1 \notin T
      <4> HIDE DEF T
      <4> QED
        BY <2>1, <2>4
    <3> QED
      BY <2>4, <3>1
  <2> QED
    BY <1>7, <2>2, <2>4, <2>5
<1>9. \A k \in 1 .. n : \A i \in 1 .. off[k] : f[n][i] = f[k][i]
  <2> SUFFICES ASSUME NEW k \in 1 .. n, NEW i \in 1 .. off[k],
                      {b \in k .. n : f[b][i] # f[k][i]} # {}
               PROVE  FALSE
    <3>1. \A k \in 1 .. n : n \in k .. n
      BY <1>1
    <3> QED
      BY <3>1
  <2> DEFINE T == {b \in k .. n : f[b][i] # f[k][i]}
  <2>1. PICK m \in T : \A j \in T : m <= j
    <3>1. T \in SUBSET Nat /\ T # {}
      BY <1>1
    <3> HIDE DEF T
    <3> QED
      BY <3>1, FirstNat
  <2>2. m \in k .. n /\ f[m][i] # f[k][i]
    BY <2>1
  <2>3. m # k
    BY <2>2
  <2>4. m \in 2 .. n /\ m - 1 \in k .. n /\ ~(m <= m - 1) /\ m - 1 \in 1 .. n /\ k <= m - 1
    BY <1>1, <2>2, <2>3
  <2>5. f[m - 1][i] = f[k][i]
    <3>1. m - 1 \notin T
      <4> HIDE DEF T
      <4> QED
        BY <2>1, <2>4
    <3> QED
      BY <2>4, <3>1
  <2>6. i \in 1 .. Len(f[m - 1])
    <3>1. k \in 0 .. n /\ m - 1 \in 0 .. n
      BY <1>1, <2>4
    <3>2. off[k] <= off[m - 1] /\ off[k] \in Nat /\ off[m - 1] \in Nat
      BY <1>5, <1>8, <2>4, <3>1
    <3>3. i \in 1 .. off[m - 1]
      BY <3>2
    <3> QED
      BY <1>5, <2>4, <3>3
  <2> QED
    BY <1>4, <2>2, <2>4, <2>5, <2>6
<1>10. \A k \in 1 .. n : \A j \in 1 .. Len(s[k]) : f[n][off[k - 1] + j] = s[k][j]
  <2> TAKE k \in 1 .. n
  <2> TAKE j \in 1 .. Len(s[k])
  <2>1. off[k - 1] + j \in 1 .. off[k]
    <3>1. off[k - 1] \in Nat /\ Len(s[k]) \in Nat
      BY <1>1, <1>7
    <3> QED
      BY <1>6, <3>1
  <2>2. f[n][off[k - 1] + j] = f[k][off[k - 1] + j]
    BY <1>9, <2>1
  <2>3. CASE k = 1
    <3>1. off[k - 1] + j = j /\ f[1] = s[1]
      BY <1>1, <1>2, <1>5, <2>3
    <3> QED
      BY <2>2, <2>3, <3>1
  <2>4. CASE k # 1
    <3>1. k \in 2 .. n /\ k - 1 \in 1 .. n
      BY <1>1, <2>4
    <3>2. off[k - 1] = Len(f[k - 1])
      BY <1>5, <3>1
    <3> QED
      BY <1>4, <2>2, <3>1, <3>2
  <2> QED
    BY <2>3, <2>4
<1>11. Len(f[n]) = off[n]
  BY <1>1, <1>5
<1> QED
  BY <1>2, <1>5, <1>6, <1>8, <1>10, <1>11 DEF n

LEMMA FlattenSpots ==
  ASSUME NEW S, NEW s \in Seq(Seq(S))
  PROVE  \E row, col : Spots(s, row, col)
<1>1. CASE s = <<>>
  <2>1. FlattenSeq(s) = <<>> /\ Len(s) = 0 /\ Len(FlattenSeq(s)) = 0
    BY <1>1, FlattenNothing
  <2> QED
    BY <2>1 DEF Spots
<1>2. CASE s # <<>>
  <2> DEFINE n == Len(s)
             F == FlattenSeq(s)
  <2>1. n \in Nat /\ n >= 1 /\ \A k \in 1 .. n : Len(s[k]) \in Nat
    <3>1. Len(s) \in Nat \ {0}
      BY <1>2, EmptySeq
    <3>2. \A k \in 1 .. Len(s) : s[k] \in Seq(S)
      BY ElementOfSeq
    <3> QED
      BY <3>1, <3>2, LenProperties
  <2>2. PICK off \in [0 .. n -> Nat] :
               /\ off[0] = 0 /\ Len(F) = off[n]
               /\ \A k \in 1 .. n : off[k] = off[k - 1] + Len(s[k])
               /\ \A a, b \in 0 .. n : a <= b => off[a] <= off[b]
               /\ \A k \in 1 .. n : \A j \in 1 .. Len(s[k]) : F[off[k - 1] + j] = s[k][j]
    BY <1>2, FlattenOffsets
  <2> HIDE DEF n, F
  <2>3. off[n] \in Nat /\ \A k \in 1 .. n : off[k - 1] \in Nat /\ off[k] \in Nat
    <3>1. n \in 0 .. n /\ \A k \in 1 .. n : k - 1 \in 0 .. n /\ k \in 0 .. n
      BY <2>1
    <3> QED
      BY <2>2, <3>1
  <2>4. \A i \in 1 .. off[n] : \E k \in 1 .. n : off[k - 1] < i /\ i <= off[k]
    <3> TAKE i \in 1 .. off[n]
    <3> DEFINE T == {k \in 0 .. n : i <= off[k]}
    <3>1. PICK k \in T : \A j \in T : k <= j
      <4>1. T \in SUBSET Nat
        BY <2>1
      <4>2. n \in T
        BY <2>1, <2>3
      <4> HIDE DEF T
      <4> QED
        BY <4>1, <4>2, FirstNat
    <3>2. k \in 0 .. n /\ i <= off[k]
      BY <3>1
    <3>3. k # 0
      BY <2>2, <2>3, <3>2
    <3>4. k \in 1 .. n /\ k - 1 \in 0 .. n /\ ~(k <= k - 1)
      BY <2>1, <3>2, <3>3
    <3>5. ~(i <= off[k - 1])
      <4>1. k - 1 \notin T
        <5> HIDE DEF T
        <5> QED
          BY <3>1, <3>4
      <4> QED
        BY <3>4, <4>1
    <3> QED
      BY <2>3, <3>2, <3>4, <3>5
  <2> DEFINE row == [i \in 1 .. off[n] |-> CHOOSE k \in 1 .. n : off[k - 1] < i /\ i <= off[k]]
             col == [i \in 1 .. off[n] |-> i - off[row[i] - 1]]
  <2>5. \A i \in 1 .. off[n] :
          /\ row[i] \in 1 .. n /\ off[row[i] - 1] < i /\ i <= off[row[i]]
          /\ col[i] = i - off[row[i] - 1]
    BY <2>4
  <2> HIDE DEF row, col
  <2>6. \A i \in 1 .. off[n] :
          /\ off[row[i] - 1] \in Nat /\ off[row[i]] \in Nat
          /\ off[row[i]] = off[row[i] - 1] + Len(s[row[i]]) /\ Len(s[row[i]]) \in Nat
    BY <2>1, <2>2, <2>3, <2>5
  <2>7. \A i \in 1 .. off[n] : col[i] \in 1 .. Len(s[row[i]]) /\ i = off[row[i] - 1] + col[i]
    <3> TAKE i \in 1 .. off[n]
    <3> DEFINE x == off[row[i] - 1]
               y == off[row[i]]
               l == Len(s[row[i]])
    <3>1. x \in Nat /\ y \in Nat /\ l \in Nat /\ y = x + l /\ x < i /\ i <= y /\ col[i] = i - x
      BY <2>5, <2>6
    <3> HIDE DEF x, y, l
    <3>2. col[i] \in 1 .. l /\ i = x + col[i]
      BY <2>3, <3>1
    <3> QED
      BY <3>2 DEF x, l
  <2>8. \A i \in 1 .. off[n] : F[i] = s[row[i]][col[i]]
    <3> TAKE i \in 1 .. off[n]
    <3>1. row[i] \in 1 .. n /\ col[i] \in 1 .. Len(s[row[i]])
      BY <2>5, <2>7
    <3>2. F[off[row[i] - 1] + col[i]] = s[row[i]][col[i]]
      BY <2>2, <3>1
    <3> QED
      BY <2>7, <3>2
  <2>9. \A k \in 1 .. n : \A j \in 1 .. Len(s[k]) :
          \E i \in 1 .. off[n] : row[i] = k /\ col[i] = j
    <3> TAKE k \in 1 .. n
    <3> TAKE j \in 1 .. Len(s[k])
    <3> DEFINE i == off[k - 1] + j
    <3>1. /\ off[k - 1] \in Nat /\ off[k] \in Nat /\ off[k] = off[k - 1] + Len(s[k])
          /\ Len(s[k]) \in Nat /\ off[k] <= off[n]
      <4>1. k \in 0 .. n /\ n \in 0 .. n /\ k <= n
        BY <2>1
      <4> QED
        BY <2>1, <2>2, <2>3, <4>1
    <3>2. i \in 1 .. off[n] /\ off[k - 1] < i /\ i <= off[k]
      BY <2>3, <3>1
    <3> HIDE DEF i
    <3> DEFINE r == row[i]
    <3>3. r \in 1 .. n /\ off[r - 1] < i /\ i <= off[r] /\ off[r - 1] \in Nat /\ off[r] \in Nat
      BY <2>5, <2>6, <3>2
    <3> HIDE DEF r
    <3>4. r = k
      <4>1. CASE r < k
        <5>1. r \in 0 .. n /\ k - 1 \in 0 .. n /\ r <= k - 1
          BY <2>1, <3>3, <4>1
        <5>2. off[r] <= off[k - 1]
          BY <2>2, <5>1
        <5> QED
          BY <3>1, <3>2, <3>3, <5>2
      <4>2. CASE k < r
        <5>1. k \in 0 .. n /\ r - 1 \in 0 .. n /\ k <= r - 1
          BY <2>1, <3>3, <4>2
        <5>2. off[k] <= off[r - 1]
          BY <2>2, <5>1
        <5> QED
          BY <3>1, <3>2, <3>3, <5>2
      <4> QED
        BY <3>3, <4>1, <4>2
    <3>5. col[i] = i - off[k - 1]
      BY <2>5, <3>2, <3>4 DEF r
    <3>6. col[i] = j
      BY <3>1, <3>5 DEF i
    <3> QED
      BY <3>2, <3>4, <3>6 DEF r
  <2>10. \A i, j \in 1 .. off[n] :
           i < j => row[i] < row[j] \/ (row[i] = row[j] /\ col[i] < col[j])
    <3> SUFFICES ASSUME NEW i \in 1 .. off[n], NEW j \in 1 .. off[n], i < j, ~(row[i] < row[j])
                 PROVE  row[i] = row[j] /\ col[i] < col[j]
      OBVIOUS
    <3> DEFINE a == row[i]
               b == row[j]
    <3>1. /\ a \in 1 .. n /\ off[a - 1] < i /\ off[a - 1] \in Nat /\ off[a] \in Nat
          /\ b \in 1 .. n /\ off[b - 1] < j /\ j <= off[b] /\ off[b] \in Nat
          /\ col[i] = i - off[a - 1] /\ col[j] = j - off[b - 1]
      BY <2>5, <2>6
    <3>2. ~(a < b)
      OBVIOUS
    <3> HIDE DEF a, b
    <3>3. ~(b < a)
      <4> SUFFICES ASSUME b < a PROVE FALSE
        OBVIOUS
      <4>1. b \in 0 .. n /\ a - 1 \in 0 .. n /\ b <= a - 1
        BY <2>1, <3>1
      <4>2. off[b] <= off[a - 1]
        BY <2>2, <4>1
      <4> QED
        BY <2>3, <3>1, <4>2
    <3>4. a = b
      BY <3>1, <3>2, <3>3
    <3>5. col[i] < col[j]
      BY <2>3, <3>1, <3>4
    <3> QED
      BY <3>4, <3>5 DEF a, b
  <2>11. Len(F) = off[n]
    BY <2>2
  <2>12. Spots(s, row, col)
    <3> DEFINE m == Len(F)
    <3>1. m = off[n] /\ m \in Nat
      BY <2>3, <2>11
    <3> HIDE DEF m
    <3>2. /\ \A i \in 1 .. m : /\ row[i] \in 1 .. n /\ col[i] \in 1 .. Len(s[row[i]])
                               /\ F[i] = s[row[i]][col[i]]
          /\ \A k \in 1 .. n : \A j \in 1 .. Len(s[k]) : \E i \in 1 .. m : row[i] = k /\ col[i] = j
          /\ \A i, j \in 1 .. m : i < j => row[i] < row[j] \/ (row[i] = row[j] /\ col[i] < col[j])
      BY <2>5, <2>7, <2>8, <2>9, <2>10, <3>1
    <3> QED
      BY <3>1, <3>2 DEF Spots, m, F, n
  <2> QED
    BY <2>12
<1> QED
  BY <1>1, <1>2

-----------------------------------------------------------------------------
(* The generator                                                           *)

Held == ASN \ {NoAS}

\* The tiers share no AS, and none of them is AS 0.
LEMMA TierASes ==
  /\ Tier1 \in Seq(ASN) /\ Transit \in Seq(ASN) /\ Stubs \in Seq(ASN)
  /\ {Tier1[1], Tier1[2]} \subseteq ToSet(Tier1) /\ Transit[1] \in ToSet(Transit)
  /\ 1 \in DOMAIN Transit
  /\ Tier1[1] \in ASN /\ Tier1[2] \in ASN /\ Transit[1] \in ASN /\ Tier1[1] # Tier1[2]
  /\ ToSet(Tier1) \cap ToSet(Transit) = {} /\ ToSet(Tier1) \cap ToSet(Stubs) = {}
  /\ ToSet(Transit) \cap ToSet(Stubs) = {}
  /\ NoAS \notin ToSet(Tier1) \cup ToSet(Transit) \cup ToSet(Stubs)
  /\ \A i, j \in DOMAIN Transit : Transit[i] = Transit[j] => i = j
  /\ Tier1 \in Seq(Held) /\ Transit \in Seq(Held) /\ Stubs \in Seq(Held)
<1> DEFINE all == Tier1 \o Transit \o Stubs
           x == Len(Tier1)
           y == Len(Transit)
           z == Len(Stubs)
<1>1. /\ Tier1 \in Seq(ASN) /\ Transit \in Seq(ASN) /\ Stubs \in Seq(ASN)
      /\ x \in Nat /\ x >= 2 /\ y \in Nat \ {0} /\ z \in Nat \ {0}
      /\ DOMAIN Tier1 = 1 .. x /\ DOMAIN Transit = 1 .. y /\ DOMAIN Stubs = 1 .. z
      /\ \A i \in 1 .. x : Tier1[i] \in ASN
      /\ \A i \in 1 .. y : Transit[i] \in ASN
      /\ \A i \in 1 .. z : Stubs[i] \in ASN
  BY SynthAssumption, LenProperties, EmptySeq
<1>2. /\ DOMAIN all = 1 .. x + y + z
      /\ \A i \in 1 .. x : i \in DOMAIN all /\ all[i] = Tier1[i]
      /\ \A i \in 1 .. y : x + i \in DOMAIN all /\ all[x + i] = Transit[i]
      /\ \A i \in 1 .. z : x + y + i \in DOMAIN all /\ all[x + y + i] = Stubs[i]
  <2> DEFINE both == Tier1 \o Transit
  <2>1. both \in Seq(ASN) /\ Len(both) = x + y
        /\ \A i \in 1 .. x + y : both[i] = IF i <= x THEN Tier1[i] ELSE Transit[i - x]
    BY <1>1, ConcatProperties
  <2>2. all = both \o Stubs /\ Len(Stubs) = z
    OBVIOUS
  <2> HIDE DEF both, all, x, y, z
  <2>3. DOMAIN all = 1 .. x + y + z
        /\ \A i \in 1 .. x + y + z : all[i] = IF i <= x + y THEN both[i] ELSE Stubs[i - (x + y)]
    <3>1. both \in Seq(ASN) /\ Stubs \in Seq(ASN)
      BY <1>1, <2>1
    <3>2. /\ DOMAIN (both \o Stubs) = 1 .. Len(both) + Len(Stubs)
          /\ \A i \in 1 .. Len(both) + Len(Stubs) :
               (both \o Stubs)[i] = IF i <= Len(both) THEN both[i] ELSE Stubs[i - Len(both)]
      BY <3>1, Joined
    <3> QED
      BY <2>1, <2>2, <3>2
  <2>4. ASSUME NEW i \in 1 .. x PROVE i \in DOMAIN all /\ all[i] = Tier1[i]
    <3>1. i \in 1 .. x + y /\ i \in 1 .. x + y + z /\ i <= x + y /\ i <= x
      BY <1>1
    <3> QED
      BY <2>1, <2>3, <3>1
  <2>5. ASSUME NEW i \in 1 .. y PROVE x + i \in DOMAIN all /\ all[x + i] = Transit[i]
    <3>1. /\ x + i \in 1 .. x + y /\ x + i \in 1 .. x + y + z
          /\ x + i <= x + y /\ ~(x + i <= x) /\ x + i - x = i
      BY <1>1
    <3>2. both[x + i] = Transit[i]
      <4>1. both[x + i] = IF x + i <= x THEN Tier1[x + i] ELSE Transit[x + i - x]
        BY <1>1, <2>1, <3>1
      <4> QED
        BY <3>1, <4>1
    <3> QED
      BY <2>3, <3>1, <3>2
  <2>6. ASSUME NEW i \in 1 .. z PROVE x + y + i \in DOMAIN all /\ all[x + y + i] = Stubs[i]
    <3>1. /\ x + y + i \in 1 .. x + y + z /\ ~(x + y + i <= x + y)
          /\ x + y + i - (x + y) = i
      BY <1>1
    <3>2. all[x + y + i] = IF x + y + i <= x + y THEN both[x + y + i]
                           ELSE Stubs[x + y + i - (x + y)]
      BY <1>1, <2>3, <3>1
    <3> QED
      BY <2>3, <3>1, <3>2
  <2> QED
    BY <2>3, <2>4, <2>5, <2>6
<1>3. \A i, j \in DOMAIN all : all[i] = all[j] => i = j
  BY SynthAssumption DEF IsInjective
<1>4. \A i \in DOMAIN all : all[i] # NoAS
  BY SynthAssumption DEF ToSet
<1>5. /\ ToSet(Tier1) = {Tier1[i] : i \in 1 .. x} /\ ToSet(Transit) = {Transit[i] : i \in 1 .. y}
      /\ ToSet(Stubs) = {Stubs[i] : i \in 1 .. z}
  BY <1>1 DEF ToSet
<1> HIDE DEF all, x, y, z
<1>6. ToSet(Tier1) \cap ToSet(Transit) = {}
  <2> SUFFICES ASSUME NEW i \in 1 .. x, NEW j \in 1 .. y, Tier1[i] = Transit[j] PROVE FALSE
    BY <1>5
  <2>1. i = x + j
    BY <1>2, <1>3
  <2> QED
    BY <1>1, <2>1
<1>7. ToSet(Tier1) \cap ToSet(Stubs) = {}
  <2> SUFFICES ASSUME NEW i \in 1 .. x, NEW j \in 1 .. z, Tier1[i] = Stubs[j] PROVE FALSE
    BY <1>5
  <2>1. i = x + y + j
    BY <1>2, <1>3
  <2> QED
    BY <1>1, <2>1
<1>8. ToSet(Transit) \cap ToSet(Stubs) = {}
  <2> SUFFICES ASSUME NEW i \in 1 .. y, NEW j \in 1 .. z, Transit[i] = Stubs[j] PROVE FALSE
    BY <1>5
  <2>1. x + i = x + y + j
    BY <1>2, <1>3
  <2> QED
    BY <1>1, <2>1
<1>9. NoAS \notin ToSet(Tier1) \cup ToSet(Transit) \cup ToSet(Stubs)
  BY <1>2, <1>4, <1>5
<1>10. 1 \in 1 .. x /\ 2 \in 1 .. x /\ 1 \in 1 .. y /\ 1 # 2
  BY <1>1
<1>11. Tier1[1] # Tier1[2]
  BY <1>2, <1>3, <1>10
<1>12. \A i, j \in DOMAIN Transit : Transit[i] = Transit[j] => i = j
  <2> SUFFICES ASSUME NEW i \in 1 .. y, NEW j \in 1 .. y, Transit[i] = Transit[j] PROVE i = j
    BY <1>1
  <2>1. x + i = x + j
    BY <1>2, <1>3
  <2> QED
    BY <1>1, <2>1
<1>13. Tier1 \in Seq(Held) /\ Transit \in Seq(Held) /\ Stubs \in Seq(Held)
  <2>1. ASSUME NEW s \in Seq(ASN), NoAS \notin ToSet(s) PROVE s \in Seq(Held)
    <3>1. Len(s) \in Nat /\ s \in [1 .. Len(s) -> ASN] /\ DOMAIN s = 1 .. Len(s)
      BY LenProperties
    <3>2. \A k \in 1 .. Len(s) : s[k] \in Held
      BY <2>1, <3>1 DEF ToSet, Held
    <3>3. s \in [1 .. Len(s) -> Held]
      BY <3>1, <3>2
    <3> QED
      BY <3>1, <3>3, SeqDef
  <2> QED
    BY <1>1, <1>9, <2>1
<1> QED
  BY <1>13, <1>1, <1>5, <1>6, <1>7, <1>8, <1>9, <1>10, <1>11, <1>12

Blocks == {Block(a, n) : a \in Held, n \in {1, 2}}

LEMMA BlockShape ==
  ASSUME NEW p \in Blocks
  PROVE  /\ p.fam = "v4" /\ p.len = 2 /\ Owner(p) \in Held /\ p.bits[1] = Owner(p)
         /\ \A q \in Blocks : Masked(p) = Masked(q) => p = q
         /\ Masked(p) = SubSeq(p.bits, 1, 2)
<1>1. \A q \in Blocks : \E a \in Held, n \in {1, 2} : q = Block(a, n)
  BY DEF Blocks
<1>2. ASSUME NEW a, NEW n PROVE SubSeq(<<a, n>>, 1, 2) = <<a, n>>
  <2>1. <<a, n>> \in Seq({a, n}) /\ Len(<<a, n>>) = 2
    OBVIOUS
  <2> QED
    BY <2>1, SubSeqFull
<1>3. ASSUME NEW q \in Blocks
      PROVE  Masked(q) = q.bits /\ q.fam = "v4" /\ q.len = 2 /\ Owner(q) \in Held
  <2>1. PICK a \in Held, n \in {1, 2} : q = Block(a, n)
    BY <1>1
  <2>2. q.bits = <<a, n>> /\ q.fam = "v4" /\ q.len = 2
    BY <2>1 DEF Block
  <2> QED
    BY <1>2, <2>2 DEF Masked, Owner
<1>4. \A q \in Blocks : q = [fam |-> "v4", bits |-> q.bits, len |-> 2]
  BY <1>1 DEF Block
<1> QED
  BY <1>3, <1>4 DEF Owner, Masked

LEMMA AllocatedType ==
  ASSUME Allocate
  PROVE  blocks' \in Seq(Blocks)
<1>1. PICK two \in SUBSET ToSet(Stubs) :
       blocks' = [k \in DOMAIN (Tier1 \o Transit) |-> Block((Tier1 \o Transit)[k], 1)]
                 \o FlattenSeq([k \in DOMAIN Stubs |->
                      <<Block(Stubs[k], 1)>>
                      \o IF Stubs[k] \in two THEN <<Block(Stubs[k], 2)>> ELSE <<>>])
  BY DEF Allocate
<1> DEFINE upper == [k \in DOMAIN (Tier1 \o Transit) |-> Block((Tier1 \o Transit)[k], 1)]
           Mine(k) == <<Block(Stubs[k], 1)>>
                      \o IF Stubs[k] \in two THEN <<Block(Stubs[k], 2)>> ELSE <<>>
           lower == [k \in DOMAIN Stubs |-> Mine(k)]
<1>2. Tier1 \in Seq(Held) /\ Transit \in Seq(Held) /\ Stubs \in Seq(Held) /\ Stubs # <<>>
  BY SynthAssumption, TierASes
<1>3. \A a \in Held : Block(a, 1) \in Blocks /\ Block(a, 2) \in Blocks
  BY DEF Blocks
<1>4. upper \in Seq(Blocks)
  <2> DEFINE both == Tier1 \o Transit
  <2>1. both \in Seq(Held)
    BY <1>2, ConcatProperties
  <2> HIDE DEF both
  <2>2. DOMAIN both = 1 .. Len(both) /\ Len(both) \in Nat /\ \A k \in 1 .. Len(both) : both[k] \in Held
    BY <2>1, LenProperties
  <2>3. [k \in DOMAIN both |-> Block(both[k], 1)] \in [1 .. Len(both) -> Blocks]
    BY <1>3, <2>2
  <2>4. [k \in DOMAIN both |-> Block(both[k], 1)] \in Seq(Blocks)
    BY <2>2, <2>3, SeqDef
  <2> QED
    BY <2>4 DEF both
<1>5. lower \in Seq(Seq(Blocks)) /\ lower # <<>>
  <2>1. DOMAIN Stubs = 1 .. Len(Stubs) /\ Len(Stubs) \in Nat \ {0}
        /\ \A k \in 1 .. Len(Stubs) : Stubs[k] \in Held
    BY <1>2, LenProperties, EmptySeq
  <2>2. \A k \in DOMAIN Stubs : Mine(k) \in Seq(Blocks)
    <3> TAKE k \in DOMAIN Stubs
    <3> DEFINE x == Block(Stubs[k], 1)
               y == Block(Stubs[k], 2)
    <3>1. x \in Blocks /\ y \in Blocks
      BY <1>3, <2>1
    <3> HIDE DEF x, y
    <3>2. <<x>> \in Seq(Blocks) /\ <<y>> \in Seq(Blocks) /\ <<>> \in Seq(Blocks)
      BY <3>1
    <3>3. (IF Stubs[k] \in two THEN <<y>> ELSE <<>>) \in Seq(Blocks)
      BY <3>2
    <3>4. <<x>> \o (IF Stubs[k] \in two THEN <<y>> ELSE <<>>) \in Seq(Blocks)
      BY <3>2, <3>3, ConcatProperties
    <3> QED
      BY <3>4 DEF x, y
  <2> HIDE DEF Mine
  <2>3. lower \in [1 .. Len(Stubs) -> Seq(Blocks)]
    BY <2>1, <2>2
  <2> HIDE DEF lower
  <2>4. lower \in Seq(Seq(Blocks)) /\ DOMAIN lower # {}
    BY <2>1, <2>3, SeqDef
  <2> QED
    BY <2>4
<1>6. FlattenSeq(lower) \in Seq(Blocks)
  <2> HIDE DEF lower
  <2> QED
    BY <1>5, FlattenedType
<1> HIDE DEF upper, lower
<1>7. upper \o FlattenSeq(lower) \in Seq(Blocks)
  BY <1>4, <1>6, ConcatProperties
<1> QED
  BY <1>1, <1>7 DEF upper, lower

\* A ROA vouches for the owner of its block and for nobody else.
LEMMA OriginVerdict ==
  ASSUME blocks \in Seq(Blocks), NEW p \in ToSet(blocks), NEW a \in ASN, a # NoAS
  PROVE  /\ a = Owner(p) => RovStatus(VRPs, p, a) # "invalid"
         /\ p \in RoaPrefixes /\ a # Owner(p) => RovStatus(VRPs, p, a) = "invalid"
<1>1. RoaPrefixes \subseteq ToSet(blocks) /\ ToSet(blocks) \subseteq Blocks
  BY ElementsAreFinite DEF RoaPrefixes, ToSet
<1>2. ASSUME NEW v \in VRPs
      PROVE  \E q \in RoaPrefixes : /\ v.fam = q.fam /\ v.bits = q.bits /\ v.len = q.len
                                    /\ v.maxLen = q.len /\ v.origin = Owner(q)
  BY DEF VRPs
<1>3. ASSUME NEW v \in VRPs, Covers(v, p)
      PROVE  v.origin = Owner(p) /\ v.maxLen = 2
  <2>1. PICK q \in RoaPrefixes : /\ v.fam = q.fam /\ v.bits = q.bits /\ v.len = q.len
                                 /\ v.maxLen = q.len /\ v.origin = Owner(q)
    BY <1>2
  <2>2. q \in Blocks /\ p \in Blocks
    BY <1>1
  <2>3. Masked(v) = Masked(q) /\ Masked(v) = Masked(p)
    BY <1>3, <2>1, <2>2, BlockShape DEF Covers, Masked
  <2> QED
    BY <2>1, <2>2, <2>3, BlockShape
<1>4. p.len = 2
  BY <1>1, BlockShape
<1>5. \A v \in {w \in VRPs : Covers(w, p)} : Matches(v, p, a) <=> a = Owner(p)
  BY <1>3, <1>4 DEF Matches
<1>6. ASSUME p \in RoaPrefixes PROVE {w \in VRPs : Covers(w, p)} # {}
  <2> DEFINE v == [fam |-> p.fam, bits |-> p.bits, len |-> p.len, maxLen |-> p.len,
                   origin |-> Owner(p)]
  <2>1. v \in VRPs
    BY <1>6 DEF VRPs
  <2>2. Covers(v, p)
    BY <1>4 DEF Covers, Masked
  <2> QED
    BY <2>1, <2>2
<1> QED
  BY <1>5, <1>6 DEF RovStatus, Verdict

-----------------------------------------------------------------------------
(* Loop-free paths                                                         *)

\* There is no prepending to collapse on a path without repetitions.
LEMMA NothingToDedupe ==
  ASSUME NEW path \in Seq(ASN), IsInjective(path)
  PROVE  Dedupe(path) = path
<1>1. /\ Len(path) \in Nat /\ DOMAIN path = 1 .. Len(path)
      /\ path = [k \in 1 .. Len(path) |-> path[k]]
  BY LenProperties
<1>2. Starts(path) = 1 .. Len(path)
  BY <1>1 DEF Starts, IsInjective
<1>3. Cardinality(Starts(path)) = Len(path)
  <2>1. ASSUME NEW n \in Nat PROVE Cardinality(1 .. n) = n
    <3>1. 1 \in Int /\ n \in Int
      OBVIOUS
    <3>2. Cardinality(1 .. n) = IF 1 > n THEN 0 ELSE n - 1 + 1
      BY <3>1, FS_Interval
    <3> QED
      BY <3>2
  <2> QED
    BY <1>1, <1>2, <2>1
<1>4. ASSUME NEW k \in 1 .. Len(path) PROVE KthStart(path, k) = k
  <2>1. ASSUME NEW i \in 1 .. Len(path) PROVE Rank(path, i) = i
    <3>1. {j \in Starts(path) : j <= i} = 1 .. i
      BY <1>1, <1>2
    <3>2. Cardinality(1 .. i) = i
      BY FS_Interval
    <3> QED
      BY <3>1, <3>2 DEF Rank
  <2> QED
    BY <1>2, <2>1 DEF KthStart
<1>5. Dedupe(path) = [k \in 1 .. Len(path) |-> path[k]]
  BY <1>3, <1>4 DEF Dedupe
<1> QED
  BY <1>1, <1>5

\* A path as it grows from its origin: where it goes at each step, and what it may be.
Going(p, k) == Lookup(edges, p[k], p[k + 1])

LoopFree(p) ==
  /\ p \in Seq(ASN) /\ p # <<>> /\ IsInjective(p)
  /\ \A k \in 1 .. Len(p) - 1 : Going(p, k) \in {"provider", "peer", "customer"}

Climbing(p) == \A k \in 1 .. Len(p) - 1 : Going(p, k) = "provider"

ValleyFreePath(p) ==
  \A j, k \in 1 .. Len(p) - 1 :
    j < k /\ Going(p, j) \in {"peer", "customer"} => Going(p, k) = "customer"

LEMMA Reversed ==
  ASSUME NEW p, LoopFree(p)
  PROVE  LET w == Reverse(p)
         IN  /\ w \in Seq(ASN) /\ Len(w) = Len(p) /\ Len(p) \in Nat \ {0} /\ IsInjective(w)
             /\ w[Len(w)] = p[1] /\ p[1] \in ASN
             /\ \A i \in 2 .. Len(w) : /\ Len(p) - i + 1 \in 1 .. Len(p) - 1
                                      /\ w[i] = p[Len(p) - i + 1]
                                      /\ w[i - 1] = p[Len(p) - i + 2]
<1> DEFINE n == Len(p)
           w == Reverse(p)
<1>1. n \in Nat \ {0} /\ DOMAIN p = 1 .. n /\ \A k \in 1 .. n : p[k] \in ASN
  BY LenProperties, EmptySeq DEF LoopFree
<1>2. w = [i \in 1 .. n |-> p[(n - i) + 1]]
  BY DEF Reverse
<1> HIDE DEF n, w
<1>3. w \in [1 .. n -> ASN]
  <2>1. \A i \in 1 .. n : (n - i) + 1 \in 1 .. n
    BY <1>1
  <2> QED
    BY <1>1, <1>2, <2>1
<1>4. w \in Seq(ASN) /\ Len(w) = n /\ DOMAIN w = 1 .. n
  BY <1>1, <1>3, SeqDef, LenProperties
<1>5. IsInjective(w)
  <2> SUFFICES ASSUME NEW a \in 1 .. n, NEW b \in 1 .. n, w[a] = w[b] PROVE a = b
    BY <1>4 DEF IsInjective
  <2>1. p[(n - a) + 1] = p[(n - b) + 1] /\ (n - a) + 1 \in DOMAIN p /\ (n - b) + 1 \in DOMAIN p
    BY <1>1, <1>2
  <2>2. (n - a) + 1 = (n - b) + 1
    BY <2>1 DEF LoopFree, IsInjective
  <2> QED
    BY <1>1, <2>2
<1>6. w[n] = p[1]
  BY <1>1, <1>2
<1>7. \A i \in 2 .. n : /\ n - i + 1 \in 1 .. n - 1 /\ w[i] = p[n - i + 1]
                        /\ w[i - 1] = p[n - i + 2]
  <2> TAKE i \in 2 .. n
  <2>1. i \in 1 .. n /\ i - 1 \in 1 .. n /\ (n - (i - 1)) + 1 = n - i + 2
        /\ n - i + 1 \in 1 .. n - 1
    BY <1>1
  <2> QED
    BY <1>2, <2>1
<1> QED
  BY <1>1, <1>4, <1>5, <1>6, <1>7 DEF n, w

\* What a lookup says from the other end.
LEMMA OtherEnd ==
  ASSUME IsStore(edges), NEW a \in ASN, NEW b \in ASN, a # b, Lookup(edges, a, b) # "unknown"
  PROVE  Lookup(edges, b, a) = Invert(Lookup(edges, a, b)) /\ Lookup(edges, a, b) \in Known
         /\ Lookup(edges, b, a) # "unknown"
<1> DEFINE lo == edges[PairKey(a, b)]
<1>1. PairKey(a, b) \in DOMAIN edges /\ Lookup(edges, a, b) = FromLo(a, b, lo)
  BY DEF Lookup
<1>2. lo \in Known /\ PairKey(a, b) = PairKey(b, a)
  BY <1>1, Turned DEF IsStore, Known
<1>3. Lookup(edges, b, a) = FromLo(b, a, lo)
  BY <1>1, <1>2 DEF Lookup
<1>4. FromLo(a, b, lo) \in Known /\ FromLo(b, a, lo) = Invert(FromLo(a, b, lo))
  BY <1>2, Turned
<1> QED
  BY <1>1, <1>3, <1>4, InvertTwice DEF Known

\* The classifier holds nothing against a loop-free path that only climbs, then maybe
\* crosses to a peer, then only descends.
LEMMA PathIsClean ==
  ASSUME IsStore(edges), NEW p, LoopFree(p), ValleyFreePath(p)
  PROVE  LET walk == ClassifyPath(edges, Reverse(p), FALSE)
         IN  ~walk.isLeak /\ (Len(Reverse(p)) > 1 => walk.known # {})
<1> DEFINE w == Reverse(p)
           n == Len(p)
<1>1. /\ w \in Seq(ASN) /\ Len(w) = n /\ n \in Nat \ {0} /\ IsInjective(w)
      /\ \A i \in 2 .. n : /\ n - i + 1 \in 1 .. n - 1
                           /\ w[i] = p[n - i + 1] /\ w[i - 1] = p[n - i + 2]
  BY Reversed
<1>2. Dedupe(w) = w
  BY <1>1, NothingToDedupe
<1> HIDE DEF w, n
<1>3. ASSUME NEW i \in 2 .. n PROVE Move(edges, w, i) = Going(p, n - i + 1)
  <2>1. (n - i + 1) + 1 = n - i + 2
    BY <1>1
  <2> QED
    BY <1>1, <2>1 DEF Move, Going
<1>4. ASSUME NEW i \in 2 .. n PROVE ~Violates(edges, w, i)
  <2> SUFFICES ASSUME Violates(edges, w, i) PROVE FALSE
    OBVIOUS
  <2>1. PICK j \in i + 1 .. n : Move(edges, w, j) \in {"peer", "customer"}
    BY <1>1 DEF Violates, Descended
  <2>2. j \in 2 .. n /\ n - j + 1 < n - i + 1
    BY <1>1
  <2>3. Going(p, n - i + 1) = "customer"
    BY <1>1, <1>3, <2>1, <2>2 DEF ValleyFreePath, n
  <2> QED
    BY <1>3, <2>3 DEF Violates
<1>5. FindValley(edges, w) = 0
  BY <1>1, <1>4 DEF FindValley
<1>6. ASSUME n > 1 PROVE KnownHops(edges, w) # {}
  <2>1. 2 \in 2 .. n /\ 1 \in 1 .. n - 1 /\ n - 1 \in 1 .. n - 1
    BY <1>1, <1>6
  <2>2. Move(edges, w, 2) # "unknown"
    <3>1. Going(p, n - 2 + 1) \in {"provider", "peer", "customer"}
      BY <1>1, <2>1 DEF LoopFree, n
    <3> QED
      BY <1>3, <2>1, <3>1
  <2>3. w[2] \in ASN /\ w[1] \in ASN /\ w[2] # w[1]
    <3>1. 1 \in DOMAIN w /\ 2 \in DOMAIN w
      BY <1>1, <2>1, LenProperties
    <3> QED
      BY <1>1, <2>1, <3>1, LenProperties DEF IsInjective
  <2>4. Lookup(edges, w[1], w[2]) # "unknown"
    BY <2>2, <2>3, OtherEnd DEF Move
  <2>5. 1 \in 1 .. Len(w) - 1 /\ Lookup(edges, w[1], w[1 + 1]) # "unknown"
    BY <1>1, <2>1, <2>4
  <2> QED
    BY <2>5 DEF KnownHops
<1> QED
  BY <1>1, <1>2, <1>5, <1>6 DEF ClassifyPath, w

-----------------------------------------------------------------------------
(* A route's verdict, and how a path grows                                 *)

\* The leak: from one provider of the first transit AS to the other.
LEMMA LeakVerdict ==
  ASSUME IsStore(edges), blocks \in Seq(Blocks), NEW id, NEW p \in Owned(Tier1[1]),
         \A t \in {Tier1[1], Tier1[2]} : Lookup(edges, Transit[1], t) = "provider"
  PROVE  LET out == Classify(edges, VRPs,
                             Announcement(id, p, <<Tier1[2], Transit[1], Tier1[1]>>))
         IN  out.vf = "leak" /\ out.offender = Transit[1] /\ out.rpki # "invalid"
<1> DEFINE a == Tier1[1]
           b == Transit[1]
           c == Tier1[2]
           w == <<c, b, a>>
           u == Announcement(id, p, w)
           walk == ClassifyPath(edges, w, FALSE)
<1>1. /\ a \in ASN /\ b \in ASN /\ c \in ASN /\ a # b /\ b # c /\ a # c /\ a # NoAS
      /\ p \in ToSet(blocks) /\ Owner(p) = a
  BY TierASes DEF Owned
<1> HIDE DEF a, b, c
<1>2. w \in Seq(ASN) /\ Len(w) = 3 /\ w[1] = c /\ w[2] = b /\ w[3] = a
  BY <1>1
<1>3. IsInjective(w)
  BY <1>1, <1>2 DEF IsInjective
<1>4. Dedupe(w) = w
  BY <1>2, <1>3, NothingToDedupe
<1> HIDE DEF w
<1>5. Move(edges, w, 2) = "provider" /\ Move(edges, w, 3) = "customer"
  <2>1. Lookup(edges, b, c) = "provider" /\ Lookup(edges, b, a) = "provider"
    BY DEF a, b, c
  <2>2. Lookup(edges, a, b) = "customer"
    BY <1>1, <2>1, OtherEnd DEF Invert
  <2> QED
    BY <1>2, <2>1, <2>2 DEF Move
<1>6. FindValley(edges, w) = 2
  <2>1. Violates(edges, w, 2)
    BY <1>2, <1>5 DEF Violates, Descended
  <2>2. ~Violates(edges, w, 3)
    BY <1>5 DEF Violates
  <2>3. {i \in 2 .. Len(w) : Violates(edges, w, i)} = {2}
    BY <1>2, <2>1, <2>2
  <2> QED
    BY <2>3 DEF FindValley
<1>7. walk.isLeak /\ walk.offender = b
  <2>1. (IF Len(w) <= 1 \/ FALSE THEN 0 ELSE FindValley(edges, w)) = 2
    BY <1>2, <1>6
  <2>2. walk = [isLeak |-> 2 # 0, offender |-> IF 2 = 0 THEN NoAS ELSE w[2],
                offHop |-> IF 2 = 0 THEN 0 ELSE 2 - 1, hops |-> BuildHops(edges, w),
                known |-> KnownHops(edges, w)]
    BY <1>4, <2>1 DEF ClassifyPath
  <2>3. (2 # 0) = TRUE /\ (IF 2 = 0 THEN NoAS ELSE w[2]) = b
    BY <1>2
  <2>4. walk = [isLeak |-> TRUE, offender |-> b,
                offHop |-> IF 2 = 0 THEN 0 ELSE 2 - 1, hops |-> BuildHops(edges, w),
                known |-> KnownHops(edges, w)]
    <3> HIDE DEF walk
    <3> QED
      BY Zenon, <2>2, <2>3
  <2> HIDE DEF walk
  <2> QED
    BY <2>4
<1>8. u.kind = "announce" /\ u.path = w /\ u.hasASSet = FALSE /\ u.origin = a /\ u.prefix = p
  BY <1>2 DEF Announcement
<1>9. RovStatus(VRPs, p, a) # "invalid"
  BY <1>1, OriginVerdict
<1> HIDE DEF u, walk
<1>10. Classify(edges, VRPs, u).vf = "leak" /\ Classify(edges, VRPs, u).offender = b
       /\ Classify(edges, VRPs, u).rpki # "invalid"
  BY <1>1, <1>7, <1>8, <1>9 DEF Classify, Resolve, Neutral, walk
<1> QED
  BY <1>10 DEF u, w, a, b, c

\* A generated route, of the owner's or of a hijacker's.
LEMMA RouteVerdict ==
  ASSUME IsStore(edges), blocks \in Seq(Blocks), LoopFree(prop), ValleyFreePath(prop),
         prop[1] # NoAS, NEW id, NEW p \in ToSet(blocks)
  PROVE  LET u == Announcement(id, p, Reverse(prop))
             out == Classify(edges, VRPs, u)
         IN  /\ u.kind = "announce" /\ u.prefix = p /\ u.origin = prop[1] /\ IsInjective(u.path)
             /\ p \in RoaPrefixes /\ prop[1] # Owner(p) =>
                  out.vf = "hijack" /\ out.offender = prop[1]
             /\ prop[1] = Owner(p) => out.vf = "valid"
<1> DEFINE w == Reverse(prop)
           u == Announcement(id, p, w)
           walk == ClassifyPath(edges, w, FALSE)
           a == prop[1]
<1>1. IsInjective(w) /\ w[Len(w)] = a /\ a \in ASN /\ a # NoAS
  BY Reversed
<1>2. ~walk.isLeak /\ (Len(w) > 1 => walk.known # {})
  BY PathIsClean
<1> HIDE DEF w, a
<1>3. u.kind = "announce" /\ u.path = w /\ u.hasASSet = FALSE /\ u.origin = a /\ u.prefix = p
  BY <1>1 DEF Announcement
<1>4. /\ a = Owner(p) => RovStatus(VRPs, p, a) # "invalid"
      /\ p \in RoaPrefixes /\ a # Owner(p) => RovStatus(VRPs, p, a) = "invalid"
  BY <1>1, OriginVerdict
<1> HIDE DEF u, walk
<1>5. p \in RoaPrefixes /\ a # Owner(p) =>
        Classify(edges, VRPs, u).vf = "hijack" /\ Classify(edges, VRPs, u).offender = a
  BY <1>1, <1>3, <1>4 DEF Classify, Resolve, Neutral
<1>6. a = Owner(p) => Classify(edges, VRPs, u).vf = "valid"
  BY <1>1, <1>2, <1>3, <1>4 DEF Classify, Resolve, Neutral, walk
<1> QED
  BY <1>1, <1>3, <1>5, <1>6 DEF u, w, a

\* A path that goes on.
LEMMA Extended ==
  ASSUME NEW p, LoopFree(p), NEW q \in Seq(ASN),
         \A k \in 1 .. Len(q) :
           /\ \A i \in 1 .. Len(p) + k - 1 : (p \o q)[i] # q[k]
           /\ Lookup(edges, (p \o q)[Len(p) + k - 1], q[k]) \in {"provider", "peer", "customer"}
  PROVE  /\ LoopFree(p \o q) /\ (p \o q)[1] = p[1] /\ Len(p \o q) = Len(p) + Len(q)
         /\ Len(p) \in Nat \ {0} /\ Len(q) \in Nat
         /\ \A k \in 1 .. Len(p) - 1 : Going(p \o q, k) = Going(p, k)
         /\ \A k \in 1 .. Len(q) :
              Going(p \o q, Len(p) + k - 1) = Lookup(edges, (p \o q)[Len(p) + k - 1], q[k])
<1> DEFINE r == p \o q
           m == Len(p)
           n == Len(q)
<1>1. m \in Nat \ {0} /\ n \in Nat /\ DOMAIN p = 1 .. m
  BY LenProperties, EmptySeq DEF LoopFree
<1>2. /\ r \in Seq(ASN) /\ Len(r) = m + n
      /\ \A i \in 1 .. m + n : r[i] = IF i <= m THEN p[i] ELSE q[i - m]
  BY ConcatProperties DEF LoopFree
<1> HIDE DEF r
<1>3. DOMAIN r = 1 .. m + n /\ r # <<>> /\ r[1] = p[1]
  BY <1>1, <1>2, LenProperties, EmptySeq
<1>4. ASSUME NEW i \in 1 .. m + n, NEW j \in 1 .. m + n, i < j PROVE r[i] # r[j]
  <2>1. CASE j <= m
    BY <1>1, <1>2, <1>4, <2>1 DEF LoopFree, IsInjective
  <2>2. CASE j > m
    <3>1. j - m \in 1 .. n /\ i \in 1 .. m + (j - m) - 1 /\ r[j] = q[j - m]
      BY <1>1, <1>2, <1>4, <2>2
    <3> QED
      BY <3>1 DEF r
  <2> QED
    BY <1>1, <2>1, <2>2
<1>5. IsInjective(r)
  <2> SUFFICES ASSUME NEW i \in 1 .. m + n, NEW j \in 1 .. m + n, r[i] = r[j] PROVE i = j
    BY <1>3 DEF IsInjective
  <2>1. ~(i < j) /\ ~(j < i)
    BY <1>4
  <2> QED
    BY <1>1, <2>1
<1>6. ASSUME NEW k \in 1 .. m - 1 PROVE Going(r, k) = Going(p, k)
  <2>1. k \in 1 .. m + n /\ k + 1 \in 1 .. m + n /\ k <= m /\ k + 1 <= m
    BY <1>1
  <2>2. r[k] = p[k] /\ r[k + 1] = p[k + 1]
    BY <1>2, <2>1
  <2> QED
    BY <2>2 DEF Going
<1>7. ASSUME NEW k \in 1 .. n
      PROVE  Going(r, m + k - 1) = Lookup(edges, r[m + k - 1], q[k])
  <2>1. (m + k - 1) + 1 = m + k /\ m + k \in 1 .. m + n /\ ~(m + k <= m) /\ m + k - m = k
    BY <1>1
  <2>2. r[m + k] = q[k]
    BY <1>2, <2>1
  <2> QED
    BY <2>1, <2>2 DEF Going
<1>8. ASSUME NEW k \in 1 .. (m + n) - 1 PROVE Going(r, k) \in {"provider", "peer", "customer"}
  <2>1. CASE k <= m - 1
    <3>1. k \in 1 .. m - 1
      BY <1>1, <2>1
    <3> QED
      BY <1>6, <3>1 DEF LoopFree
  <2>2. CASE k > m - 1
    <3>1. k - m + 1 \in 1 .. n /\ m + (k - m + 1) - 1 = k
      BY <1>1, <2>2
    <3>2. Going(r, k) = Lookup(edges, r[m + (k - m + 1) - 1], q[k - m + 1])
      BY <1>7, <3>1
    <3> QED
      BY <3>1, <3>2 DEF r
  <2> QED
    BY <1>1, <2>1, <2>2
<1>9. LoopFree(r)
  BY <1>2, <1>3, <1>5, <1>8 DEF LoopFree
<1> QED
  BY <1>1, <1>2, <1>3, <1>6, <1>7, <1>9 DEF r

-----------------------------------------------------------------------------
(* The topology's stages                                                   *)

\* The first transit AS's link to u is in the store, or is to come and unopposed.
BuysFrom(u) ==
  LET l == <<Transit[1], u, "provider">>
  IN  /\ Lookup(edges, Transit[1], u) \in {"unknown", "provider"}
      /\ l \in ToSet(todo) \/ Lookup(edges, Transit[1], u) = "provider"
      /\ \A m \in ToSet(todo) : {m[1], m[2]} = {Transit[1], u} => m = l

LeakSlot == LeakEvery > 0 /\ seq % LeakEvery = 0

Drawing == {"climb", "apex", "down", "emit"}

\* The stages of the topology, and that the leak can always be made.
StageInv ==
  /\ SynthInv
  /\ phase \in {"draw", "link", "next"} \cup Drawing
  /\ phase = "draw" => DOMAIN edges = {}
  /\ phase \notin {"draw", "link"} => todo = <<>>
  /\ phase # "draw" => \A u \in {Tier1[1], Tier1[2]} : BuysFrom(u)
  /\ blocks \in Seq(Blocks) /\ seq \in Nat
  /\ ev # {} => phase = "next"

\* The path under construction, and who may hijack whom with it.
RouteInv ==
  phase \in Drawing =>
    /\ LoopFree(prop) /\ ValleyFreePath(prop)
    /\ phase \in {"climb", "apex"} => Climbing(prop)
    /\ prop[1] # NoAS /\ ~LeakSlot
    /\ \A p \in victim :
         p \in RoaPrefixes /\ prop[1] \in ToSet(Stubs) /\ prop[1] # Owner(p)

StreamInv == StageInv /\ RouteInv /\ StreamIsWhatItSays

LEMMA DrawnForTheLeak ==
  ASSUME StageInv, Draw, NEW u \in {Tier1[1], Tier1[2]}
  PROVE  BuysFrom(u)'
<1> DEFINE t == Transit[1]
           l == <<t, u, "provider">>
<1>1. /\ t \in ASN /\ u \in ASN /\ t # u /\ t \in ToSet(Transit) /\ u \in ToSet(Tier1)
      /\ 1 \in DOMAIN Transit
  BY TierASes
<1>2. PICK up \in TransitUpstreams, stubUp \in [DOMAIN Stubs -> OneOrTwo(Transit)],
           joined \in SUBSET Joinable(Transit) :
        ToSet(todo') = Mesh(Tier1, Joinable(Tier1)) \cup Upstream(Transit, up)
                       \cup Mesh(Transit, joined) \cup Upstream(Stubs, stubUp) \cup Siblings
  BY DrawnLinks
<1>3. Lookup(edges', t, u) = "unknown"
  BY <1>1 DEF Draw, storeVars, StageInv, Lookup
<1>4. l \in Upstream(Transit, up)
  <2>1. u \in up[1]
    BY DEF TransitUpstreams
  <2> QED
    BY <1>1, <2>1 DEF Upstream
<1>5. ASSUME NEW m \in ToSet(todo'), {m[1], m[2]} = {t, u} PROVE m = l
  <2>1. \A x \in {t, u} : x \notin ToSet(Stubs)
    BY <1>1, TierASes
  <2>2. t \notin ToSet(Tier1) /\ u \notin ToSet(Transit)
    BY <1>1, TierASes
  <2>3. m[1] \in {t, u} /\ m[2] \in {t, u} /\ t \in {m[1], m[2]} /\ u \in {m[1], m[2]}
    BY <1>5
  <2>4. CASE m \in Mesh(Tier1, Joinable(Tier1))
    <3>1. m[1] \in ToSet(Tier1) /\ m[2] \in ToSet(Tier1)
      BY <2>4 DEF Mesh, Joinable, ToSet
    <3> QED
      BY <2>2, <2>3, <3>1
  <2>5. CASE m \in Upstream(Transit, up)
    <3>1. PICK k \in DOMAIN Transit : \E p \in up[k] : m = <<Transit[k], p, "provider">>
      BY <2>5 DEF Upstream
    <3>2. Transit[k] \in ToSet(Transit)
      BY DEF ToSet
    <3> QED
      BY <1>5, <2>2, <3>1, <3>2
  <2>6. CASE m \in Mesh(Transit, joined)
    <3>1. m[1] \in ToSet(Transit) /\ m[2] \in ToSet(Transit)
      BY <2>6 DEF Mesh, Joinable, ToSet
    <3> QED
      BY <2>2, <2>3, <3>1
  <2>7. CASE m \in Upstream(Stubs, stubUp)
    <3>1. m[1] \in ToSet(Stubs)
      BY <2>7 DEF Upstream, ToSet
    <3> QED
      BY <2>1, <2>3, <3>1
  <2>8. CASE m \in Siblings
    <3>1. PICK k \in 1 .. Len(Stubs) - 1 : m = <<Stubs[k], Stubs[k + 1], "sibling">>
      BY <2>8 DEF Siblings
    <3>2. k \in DOMAIN Stubs
      BY <3>1, TierASes, LenProperties
    <3>3. m[1] \in ToSet(Stubs)
      BY <3>1, <3>2 DEF ToSet
    <3> QED
      BY <2>1, <2>3, <3>3
  <2> QED
    BY <1>2, <2>4, <2>5, <2>6, <2>7, <2>8
<1> QED
  BY <1>2, <1>3, <1>4, <1>5 DEF BuysFrom

LEMMA LinkedForTheLeak ==
  ASSUME StageInv, Edge, NEW u \in {Tier1[1], Tier1[2]}
  PROVE  BuysFrom(u)'
<1> DEFINE t == Transit[1]
           l == <<t, u, "provider">>
<1>1. t \in ASN /\ u \in ASN /\ t # u
  BY TierASes
<1>2. PICK h \in Links : h = Head(todo) /\ h \in ToSet(todo)
  <2>1. todo \in Seq(Links) /\ todo # <<>> /\ Head(todo) \in Links /\ Head(todo) = todo[1]
        /\ 1 \in DOMAIN todo
    BY HeadTailProperties, LenProperties, EmptySeq DEF StageInv, SynthInv, Edge
  <2> QED
    BY <2>1 DEF ToSet
<1>3. \A m \in ToSet(todo') : m \in ToSet(todo)
  <2>1. todo' = Tail(todo) /\ todo \in Seq(Links) /\ todo # <<>>
    BY DEF StageInv, SynthInv, Edge
  <2>2. /\ Tail(todo) \in Seq(Links) /\ Len(Tail(todo)) = Len(todo) - 1 /\ Len(todo) \in Nat
        /\ \A i \in 1 .. Len(todo) - 1 : Tail(todo)[i] = todo[i + 1]
        /\ DOMAIN Tail(todo) = 1 .. Len(todo) - 1 /\ DOMAIN todo = 1 .. Len(todo)
    BY <2>1, HeadTailProperties, LenProperties
  <2> QED
    BY <2>1, <2>2 DEF ToSet
<1>4. \A m \in ToSet(todo) : m = h \/ m \in ToSet(todo')
  <2>1. todo' = Tail(todo) /\ todo \in Seq(Links) /\ todo # <<>>
    BY DEF StageInv, SynthInv, Edge
  <2>2. /\ Tail(todo) \in Seq(Links) /\ Len(Tail(todo)) = Len(todo) - 1 /\ Len(todo) \in Nat
        /\ \A i \in 1 .. Len(todo) - 1 : Tail(todo)[i] = todo[i + 1]
        /\ DOMAIN Tail(todo) = 1 .. Len(todo) - 1 /\ DOMAIN todo = 1 .. Len(todo)
        /\ h = todo[1]
    BY <1>2, <2>1, HeadTailProperties, LenProperties
  <2>3. ASSUME NEW k \in 1 .. Len(todo), k # 1 PROVE todo[k] \in ToSet(todo')
    <3>1. k - 1 \in 1 .. Len(todo) - 1 /\ (k - 1) + 1 = k
      BY <2>2, <2>3
    <3>2. Tail(todo)[k - 1] = todo[k]
      BY <2>2, <3>1
    <3> QED
      BY <2>1, <2>2, <3>1, <3>2 DEF ToSet
  <2> QED
    BY <2>2, <2>3 DEF ToSet
<1>5. /\ Lookup(edges, t, u) \in {"unknown", "provider"}
      /\ l \in ToSet(todo) \/ Lookup(edges, t, u) = "provider"
      /\ \A m \in ToSet(todo) : {m[1], m[2]} = {t, u} => m = l
  BY DEF StageInv, BuysFrom, Edge
<1>6. IsStore(edges)
  BY DEF StageInv, SynthInv
<1>7. PICK a \in ASN, c \in ASN, rel \in {"provider", "peer", "sibling"} : h = <<a, c, rel>>
  BY DEF Links
<1>8. CASE h = l
  <2>1. a = t /\ c = u /\ rel = "provider"
    BY <1>7, <1>8
  <2>2. ~Conflicts(t, u, "provider")
    <3>1. SUFFICES ASSUME PairKey(t, u) \in DOMAIN edges
                   PROVE  edges[PairKey(t, u)] = FromLo(t, u, "provider")
      BY DEF Conflicts
    <3>2. edges[PairKey(t, u)] \in Known
      BY <1>6, <3>1 DEF IsStore, Known
    <3>3. FromLo(t, u, edges[PairKey(t, u)]) = Lookup(edges, t, u)
      BY <1>1, <3>1 DEF Lookup
    <3>4. FromLo(t, u, edges[PairKey(t, u)]) = "provider"
      BY <1>1, <1>5, <3>2, <3>3, Turned DEF Known
    <3> QED
      BY <1>1, <3>2, <3>4, Turned
  <2>3. Accept(t, u, "provider")
    BY <1>1, <1>2, <1>7, <2>1, <2>2 DEF Edge
  <2>4. Lookup(edges', t, u) = "provider"
    <3>1. "provider" \in Known
      BY DEF Known, RelStatus
    <3> QED
      BY <1>1, <1>6, <2>2, <2>3, <3>1, LookupAfter
  <2> QED
    BY <1>3, <1>5, <2>4 DEF BuysFrom
<1>9. CASE h # l
  <2>1. {a, c} # {t, u}
    BY <1>2, <1>5, <1>7, <1>9
  <2>2. Lookup(edges', t, u) = Lookup(edges, t, u)
    <3>1. CASE a = c \/ Conflicts(a, c, rel)
      BY <1>2, <1>7, <3>1 DEF Edge, storeVars
    <3>2. CASE ~(a = c \/ Conflicts(a, c, rel))
      <4>1. Accept(a, c, rel) /\ rel \in Known
        BY <1>2, <1>7, <3>2 DEF Edge, Known, RelStatus
      <4>2. Lookup(edges', t, u) = IF t = a /\ u = c THEN rel
                                   ELSE IF t = c /\ u = a THEN Invert(rel)
                                   ELSE Lookup(edges, t, u)
        BY <1>1, <1>6, <3>2, <4>1, LookupAfter
      <4> QED
        BY <2>1, <4>2
    <3> QED
      BY <3>1, <3>2
  <2> QED
    BY <1>3, <1>4, <1>5, <1>9, <2>2 DEF BuysFrom
<1> QED
  BY <1>8, <1>9

LEMMA StageStep ==
  ASSUME StageInv, [SynthNext]_synthVars
  PROVE  StageInv'
<1>1. SynthInv'
  BY SynthStepInv DEF StageInv
<1>2. ASSUME edges' = edges, todo' = todo, phase # "draw", phase' # "draw"
      PROVE  \A u \in {Tier1[1], Tier1[2]} : BuysFrom(u)'
  BY <1>2 DEF StageInv, BuysFrom
<1>3. CASE Draw
  BY <1>1, <1>3, DrawnForTheLeak DEF StageInv, Draw, genVars, storeVars, Drawing
<1>4. CASE Edge
  BY <1>1, <1>4, LinkedForTheLeak DEF StageInv, Edge, genVars, Drawing
<1>5. CASE Allocate
  BY <1>1, <1>2, <1>5, AllocatedType DEF StageInv, Allocate, genVars, Drawing
<1>6. CASE MakeLeak \/ MakeHijack \/ MakeWithdraw \/ MakeAnnounce
  BY <1>1, <1>2, <1>6
     DEF StageInv, MakeLeak, MakeHijack, MakeWithdraw, MakeAnnounce, Begin, StartPath, storeVars, Drawing
<1>7. CASE Climb \/ CrossPeer \/ Descend \/ Emit
  BY <1>1, <1>2, <1>7 DEF StageInv, Climb, CrossPeer, Descend, Emit, pathFixed, storeVars, Drawing
<1>8. CASE UNCHANGED synthVars
  BY <1>1, <1>2, <1>8 DEF StageInv, synthVars, storeVars, genVars, Drawing, BuysFrom
<1> QED
  BY <1>3, <1>4, <1>5, <1>6, <1>7, <1>8 DEF SynthNext

-----------------------------------------------------------------------------
(* The path under construction                                             *)

LEMMA OneMore ==
  ASSUME NEW p, LoopFree(p), NEW a \in ASN, a \notin ToSet(p),
         Lookup(edges, p[Len(p)], a) \in {"provider", "peer", "customer"}
  PROVE  LET r == Append(p, a)
         IN  /\ LoopFree(r) /\ r[1] = p[1] /\ Len(r) = Len(p) + 1 /\ Len(p) \in Nat \ {0}
             /\ \A k \in 1 .. Len(p) - 1 : Going(r, k) = Going(p, k)
             /\ Going(r, Len(p)) = Lookup(edges, p[Len(p)], a)
<1> DEFINE q == <<a>>
           m == Len(p)
<1>1. q \in Seq(ASN) /\ Len(q) = 1 /\ q[1] = a
  OBVIOUS
<1>2. /\ p \in Seq(ASN) /\ m \in Nat \ {0} /\ DOMAIN p = 1 .. m
      /\ \A i \in 1 .. m : p[i] # a
  <2>1. p \in Seq(ASN) /\ m \in Nat \ {0} /\ DOMAIN p = 1 .. m
    BY LenProperties, EmptySeq DEF LoopFree
  <2> QED
    BY <2>1 DEF ToSet
<1>3. Append(p, a) = p \o q
  BY <1>2, AppendIsConcat
<1> HIDE DEF q, m
<1>4. \A i \in 1 .. m : (p \o q)[i] = p[i]
  <2>1. \A i \in 1 .. m + 1 : (p \o q)[i] = IF i <= m THEN p[i] ELSE q[i - m]
    <3>1. p \in Seq(ASN) /\ q \in Seq(ASN)
      BY <1>1, <1>2
    <3>2. \A i \in 1 .. Len(p) + Len(q) : (p \o q)[i] = IF i <= Len(p) THEN p[i] ELSE q[i - Len(p)]
      BY <3>1, Joined
    <3> QED
      BY <1>1, <3>2 DEF m
  <2> QED
    BY <1>2, <2>1
<1>5. m + 1 - 1 = m /\ m \in 1 .. m
  BY <1>2
<1>6. (p \o q)[m] = p[m]
  BY <1>4, <1>5
<1>7. \A k \in 1 .. Len(q) :
        /\ \A i \in 1 .. m + k - 1 : (p \o q)[i] # q[k]
        /\ Lookup(edges, (p \o q)[m + k - 1], q[k]) \in {"provider", "peer", "customer"}
  <2> TAKE k \in 1 .. Len(q)
  <2>1. k = 1 /\ q[k] = a /\ m + k - 1 = m
    BY <1>1, <1>2
  <2> QED
    BY <1>2, <1>4, <1>6, <2>1 DEF m
<1>8. /\ LoopFree(p \o q) /\ (p \o q)[1] = p[1] /\ Len(p \o q) = m + Len(q)
      /\ \A k \in 1 .. m - 1 : Going(p \o q, k) = Going(p, k)
      /\ \A k \in 1 .. Len(q) :
           Going(p \o q, m + k - 1) = Lookup(edges, (p \o q)[m + k - 1], q[k])
  BY <1>1, <1>7, Extended DEF m
<1>9. Going(p \o q, m) = Lookup(edges, p[m], a)
  <2>1. 1 \in 1 .. Len(q)
    BY <1>1
  <2>2. Going(p \o q, m + 1 - 1) = Lookup(edges, (p \o q)[m + 1 - 1], q[1])
    BY <1>8, <2>1
  <2> QED
    BY <1>1, <1>5, <1>6, <2>2
<1> QED
  BY <1>1, <1>2, <1>3, <1>8, <1>9 DEF m

LEMMA Started ==
  ASSUME NEW a \in ASN
  PROVE  LoopFree(<<a>>) /\ Climbing(<<a>>) /\ ValleyFreePath(<<a>>) /\ (<<a>>)[1] = a
<1>1. <<a>> \in Seq(ASN) /\ Len(<<a>>) = 1 /\ DOMAIN <<a>> = {1} /\ <<a>> # <<>>
  OBVIOUS
<1>2. 1 .. 1 - 1 = {}
  OBVIOUS
<1> QED
  BY <1>1, <1>2 DEF LoopFree, Climbing, ValleyFreePath, IsInjective

LEMMA ClimbKeeps ==
  ASSUME StageInv, RouteInv, Climb
  PROVE  LoopFree(prop') /\ Climbing(prop') /\ prop'[1] = prop[1]
<1>1. LoopFree(prop) /\ Climbing(prop)
  BY DEF RouteInv, Climb, Drawing
<1>2. CASE prop' = prop
  BY <1>1, <1>2
<1>3. CASE \E a \in providersOf[Here] : a \notin ToSet(prop) /\ GoTo(a)
  <2>1. PICK a \in providersOf[Here] : a \notin ToSet(prop) /\ prop' = Append(prop, a)
    BY <1>3 DEF GoTo
  <2>2. Here \in ASN
    BY <1>1, LenProperties, EmptySeq DEF LoopFree, Here
  <2>3. a \in ASN /\ Lookup(edges, Here, a) = "provider"
    BY <2>1, <2>2 DEF StageInv, SynthInv, AdjacencyIsTheStore
  <2>4. /\ LoopFree(prop') /\ prop'[1] = prop[1] /\ Len(prop') = Len(prop) + 1
        /\ Len(prop) \in Nat \ {0}
        /\ \A k \in 1 .. Len(prop) - 1 : Going(prop', k) = Going(prop, k)
        /\ Going(prop', Len(prop)) = "provider"
    BY <1>1, <2>1, <2>3, OneMore DEF Here
  <2>5. ASSUME NEW k \in 1 .. Len(prop') - 1 PROVE Going(prop', k) = "provider"
    <3>1. k \in 1 .. Len(prop) - 1 \/ k = Len(prop)
      BY <2>4
    <3> QED
      BY <1>1, <2>4, <3>1 DEF Climbing
  <2> QED
    BY <2>4, <2>5 DEF Climbing
<1> QED
  BY <1>2, <1>3 DEF Climb

LEMMA CrossKeeps ==
  ASSUME StageInv, RouteInv, CrossPeer
  PROVE  LoopFree(prop') /\ ValleyFreePath(prop') /\ prop'[1] = prop[1]
<1>1. LoopFree(prop) /\ Climbing(prop) /\ ValleyFreePath(prop)
  BY DEF RouteInv, CrossPeer, Drawing
<1>2. CASE prop' = prop
  BY <1>1, <1>2
<1>3. CASE \E a \in peersOf[Here] \ ToSet(prop) : GoTo(a)
  <2>1. PICK a \in peersOf[Here] : a \notin ToSet(prop) /\ prop' = Append(prop, a)
    BY <1>3 DEF GoTo
  <2>2. Here \in ASN
    BY <1>1, LenProperties, EmptySeq DEF LoopFree, Here
  <2>3. a \in ASN /\ Lookup(edges, Here, a) = "peer"
    BY <2>1, <2>2 DEF StageInv, SynthInv, AdjacencyIsTheStore
  <2>4. /\ LoopFree(prop') /\ prop'[1] = prop[1] /\ Len(prop') = Len(prop) + 1
        /\ Len(prop) \in Nat \ {0}
        /\ \A k \in 1 .. Len(prop) - 1 : Going(prop', k) = Going(prop, k)
    BY <1>1, <2>1, <2>3, OneMore DEF Here
  <2>5. ASSUME NEW j \in 1 .. Len(prop') - 1, NEW k \in 1 .. Len(prop') - 1, j < k
        PROVE  Going(prop', j) = "provider"
    <3>1. j \in 1 .. Len(prop) - 1
      BY <2>4, <2>5
    <3> QED
      BY <1>1, <2>4, <3>1 DEF Climbing
  <2> QED
    BY <2>4, <2>5 DEF ValleyFreePath
<1> QED
  BY <1>2, <1>3 DEF CrossPeer

LEMMA DescendKeeps ==
  ASSUME StageInv, RouteInv, Descend
  PROVE  LoopFree(prop') /\ ValleyFreePath(prop') /\ prop'[1] = prop[1]
<1>1. LoopFree(prop) /\ ValleyFreePath(prop)
  BY DEF RouteInv, Descend, Drawing
<1>2. CASE prop' = prop
  BY <1>1, <1>2
<1>3. CASE prop' # prop
  <2>1. PICK n \in 1 .. MaxDescend : \E down \in [1 .. n -> ASN] :
          /\ \A k \in DOMAIN down :
               /\ down[k] \in customersOf[(prop \o down)[Len(prop) + k - 1]]
               /\ down[k] \notin ToSet(SubSeq(prop \o down, 1, Len(prop) + k - 1))
          /\ prop' = prop \o down
    BY <1>3 DEF Descend
  <2>0. PICK down \in [1 .. n -> ASN] :
          /\ \A k \in DOMAIN down :
               /\ down[k] \in customersOf[(prop \o down)[Len(prop) + k - 1]]
               /\ down[k] \notin ToSet(SubSeq(prop \o down, 1, Len(prop) + k - 1))
          /\ prop' = prop \o down
    BY <2>1
  <2> DEFINE r == prop \o down
             m == Len(prop)
  <2>2. n \in Nat /\ down \in Seq(ASN) /\ Len(down) = n /\ DOMAIN down = 1 .. n
    <3>1. n \in Nat
      BY SynthAssumption
    <3> QED
      BY <3>1, SeqDef, LenProperties
  <2>3. /\ r \in Seq(ASN) /\ Len(r) = m + n /\ DOMAIN r = 1 .. m + n /\ m \in Nat \ {0}
        /\ \A i \in 1 .. m + n : r[i] \in ASN
    <3>1. prop \in Seq(ASN) /\ prop # <<>>
      BY <1>1 DEF LoopFree
    <3>2. r \in Seq(ASN) /\ Len(r) = m + n /\ m \in Nat \ {0}
      BY <2>2, <3>1, Joined, EmptySeq
    <3> HIDE DEF r, m
    <3> QED
      BY <3>2, LenProperties
  <2> HIDE DEF r, m
  <2>4. ASSUME NEW k \in 1 .. n
        PROVE  /\ \A i \in 1 .. m + k - 1 : r[i] # down[k]
               /\ Lookup(edges, r[m + k - 1], down[k]) = "customer"
    <3>1. m + k - 1 \in 1 .. m + n /\ m + k - 1 \in Nat
      BY <2>2, <2>3
    <3>2. down[k] \in customersOf[r[m + k - 1]] /\ down[k] \notin ToSet(SubSeq(r, 1, m + k - 1))
      BY <2>0, <2>2 DEF r, m
    <3>3. Lookup(edges, r[m + k - 1], down[k]) = "customer"
      BY <2>3, <3>1, <3>2 DEF StageInv, SynthInv, AdjacencyIsTheStore
    <3>4. ASSUME NEW i \in 1 .. m + k - 1 PROVE r[i] \in ToSet(SubSeq(r, 1, m + k - 1))
      <4>1. /\ SubSeq(r, 1, m + k - 1) \in Seq(ASN)
            /\ Len(SubSeq(r, 1, m + k - 1)) = m + k - 1
            /\ SubSeq(r, 1, m + k - 1)[i] = r[i]
        <5>1. \A j \in 1 .. m + k - 1 : r[j] \in ASN
          BY <2>2, <2>3
        <5>2. 1 + i - 1 = i /\ m + k - 1 - 1 + 1 = m + k - 1 /\ 1 <= m + k - 1 + 1
          BY <2>3, <3>1, <3>4
        <5> QED
          BY <2>3, <3>1, <5>1, <5>2, SubSeqProperties
      <4>2. i \in DOMAIN SubSeq(r, 1, m + k - 1)
        BY <4>1, LenProperties
      <4> QED
        BY <4>1, <4>2 DEF ToSet
    <3> QED
      BY <3>2, <3>3, <3>4
  <2>5. /\ LoopFree(r) /\ r[1] = prop[1]
        /\ \A k \in 1 .. m - 1 : Going(r, k) = Going(prop, k)
        /\ \A k \in 1 .. n : Going(r, m + k - 1) = Lookup(edges, r[m + k - 1], down[k])
    BY <1>1, <2>2, <2>4, Extended DEF r, m
  <2>6. ASSUME NEW j \in 1 .. Len(r) - 1, NEW k \in 1 .. Len(r) - 1, j < k,
               Going(r, j) \in {"peer", "customer"}
        PROVE  Going(r, k) = "customer"
    <3>1. CASE k \in 1 .. m - 1
      <4>1. j \in 1 .. m - 1 /\ m = Len(prop)
        BY <2>3, <2>6, <3>1 DEF m
      <4> QED
        BY <1>1, <2>5, <2>6, <3>1, <4>1 DEF ValleyFreePath
    <3>2. CASE k \notin 1 .. m - 1
      <4>1. k - m + 1 \in 1 .. n /\ m + (k - m + 1) - 1 = k
        BY <2>2, <2>3, <3>2
      <4>2. Going(r, m + (k - m + 1) - 1) = "customer"
        BY <2>4, <2>5, <4>1
      <4> QED
        BY <4>1, <4>2
    <3> QED
      BY <3>1, <3>2
  <2>7. prop' = r
    BY <2>0 DEF r
  <2> QED
    BY <2>5, <2>6, <2>7 DEF ValleyFreePath
<1> QED
  BY <1>2, <1>3

-----------------------------------------------------------------------------
(* The stream                                                              *)

LEMMA BeginSlots ==
  ASSUME StageInv, Begin
  PROVE  seq' \in Nat /\ (LeakDue <=> LeakSlot')
<1> QED
  BY SynthAssumption DEF StageInv, Begin, LeakDue, LeakSlot

LEMMA RouteStep ==
  ASSUME StageInv, RouteInv, [SynthNext]_synthVars
  PROVE  RouteInv'
<1>1. ASSUME phase' \notin Drawing PROVE RouteInv'
  BY <1>1 DEF RouteInv
<1>2. ASSUME edges' = edges
      PROVE  /\ LoopFree(prop)' <=> LoopFree(prop')
             /\ Climbing(prop)' <=> Climbing(prop')
             /\ ValleyFreePath(prop)' <=> ValleyFreePath(prop')
  BY <1>2 DEF LoopFree, Climbing, ValleyFreePath, Going
<1>3. CASE Draw \/ Edge \/ Allocate
  BY <1>1, <1>3 DEF Draw, Edge, Allocate, Drawing
<1>4. CASE MakeLeak \/ MakeWithdraw
  BY <1>1, <1>4 DEF MakeLeak, MakeWithdraw, Begin, Drawing
<1>5. ASSUME Begin, ~LeakDue, NEW a \in Held, StartPath(a), UNCHANGED <<storeVars, blocks>>,
             \A p \in victim' : p \in RoaPrefixes /\ a \in ToSet(Stubs) /\ a # Owner(p)
      PROVE  RouteInv'
  <2>1. edges' = edges /\ prop' = <<a>> /\ phase' = "climb"
    BY <1>5 DEF StartPath, storeVars
  <2>2. ~LeakSlot'
    BY <1>5, BeginSlots
  <2>3. LoopFree(prop') /\ Climbing(prop') /\ ValleyFreePath(prop') /\ prop'[1] = a
    BY <2>1, Started DEF Held
  <2>4. RoaPrefixes' = RoaPrefixes
    BY <1>5 DEF RoaPrefixes
  <2> QED
    BY <1>2, <1>5, <2>1, <2>2, <2>3, <2>4 DEF RouteInv, Held
<1>6. \A b \in ToSet(blocks) : Owner(b) \in Held
  BY BlockShape, ElementsAreFinite DEF StageInv
<1>7. \A s \in ToSet(Stubs) : s \in Held
  BY TierASes, ElementsAreFinite
<1>8. CASE MakeHijack
  <2>1. Begin /\ ~LeakDue /\ UNCHANGED <<storeVars, blocks>>
    BY <1>8 DEF MakeHijack, HijackDue
  <2>2. CASE \E p \in RoaPrefixes, s \in ToSet(Stubs) :
               s # Owner(p) /\ StartPath(s) /\ victim' = {p}
    <3>1. PICK p \in RoaPrefixes, s \in ToSet(Stubs) :
                 s # Owner(p) /\ StartPath(s) /\ victim' = {p}
      BY <2>2
    <3>2. \A q \in victim' : q \in RoaPrefixes /\ s \in ToSet(Stubs) /\ s # Owner(q)
      BY <3>1
    <3> QED
      BY <1>5, <1>7, <2>1, <3>1, <3>2
  <2>3. CASE \E a \in {Owner(p) : p \in ToSet(blocks)} : StartPath(a) /\ victim' = {}
    BY <1>5, <1>6, <2>1, <2>3
  <2> QED
    BY <1>8, <2>2, <2>3 DEF MakeHijack
<1>9. CASE MakeAnnounce
  <2>1. Begin /\ ~LeakDue /\ UNCHANGED <<storeVars, blocks>> /\ victim' = {}
    BY <1>9 DEF MakeAnnounce
  <2>2. PICK a \in {Owner(p) : p \in ToSet(blocks)} : StartPath(a)
    BY <1>9 DEF MakeAnnounce
  <2> QED
    BY <1>5, <1>6, <2>1, <2>2
<1>10. ASSUME phase \in Drawing, UNCHANGED pathFixed, LoopFree(prop'), ValleyFreePath(prop'),
              prop'[1] = prop[1], phase' \in {"climb", "apex"} => Climbing(prop')
       PROVE  RouteInv'
  <2>1. edges' = edges /\ seq' = seq /\ blocks' = blocks /\ victim' = victim
    BY <1>10 DEF pathFixed, storeVars
  <2>2. RoaPrefixes' = RoaPrefixes /\ (LeakSlot' <=> LeakSlot)
    BY <2>1 DEF RoaPrefixes, LeakSlot
  <2> QED
    BY <1>2, <1>10, <2>1, <2>2 DEF RouteInv
<1>11. CASE Climb
  <2>1. LoopFree(prop') /\ Climbing(prop') /\ prop'[1] = prop[1]
    BY <1>11, ClimbKeeps
  <2>2. ValleyFreePath(prop')
    BY <2>1 DEF Climbing, ValleyFreePath
  <2>3. phase \in Drawing /\ UNCHANGED pathFixed
    BY <1>11 DEF Climb, Drawing
  <2> QED
    BY <1>10, <2>1, <2>2, <2>3
<1>12. CASE CrossPeer
  <2>1. phase \in Drawing /\ UNCHANGED pathFixed /\ phase' = "down"
    BY <1>12 DEF CrossPeer, Drawing
  <2> QED
    BY <1>10, <1>12, <2>1, CrossKeeps
<1>13. CASE Descend
  <2>1. phase \in Drawing /\ UNCHANGED pathFixed /\ phase' = "emit"
    BY <1>13 DEF Descend, Drawing
  <2> QED
    BY <1>10, <1>13, <2>1, DescendKeeps
<1>14. CASE Emit
  BY <1>1, <1>14 DEF Emit, Drawing
<1>15. CASE UNCHANGED synthVars
  <2>1. UNCHANGED pathFixed /\ prop' = prop /\ phase' = phase
    BY <1>15 DEF synthVars, pathFixed, storeVars, genVars
  <2> QED
    BY <1>1, <1>10, <2>1 DEF RouteInv
<1> QED
  BY <1>3, <1>4, <1>8, <1>9, <1>11, <1>12, <1>13, <1>14, <1>15 DEF SynthNext

LEMMA StreamStep ==
  ASSUME StageInv, RouteInv, StreamIsWhatItSays, [SynthNext]_synthVars
  PROVE  StreamIsWhatItSays'
<1>1. ASSUME ev' = {} PROVE StreamIsWhatItSays'
  BY <1>1 DEF StreamIsWhatItSays
<1>2. VRPs' = VRPs \/ blocks' # blocks
  BY DEF VRPs, RoaPrefixes
<1>3. CASE Draw \/ Edge \/ Allocate
  BY <1>1, <1>3 DEF Draw, Edge, Allocate, StageInv, genVars
<1>4. CASE Climb \/ CrossPeer \/ Descend
  BY <1>1, <1>4 DEF Climb, CrossPeer, Descend, pathFixed, StageInv
<1>5. CASE MakeHijack \/ MakeAnnounce
  BY <1>1, <1>5 DEF MakeHijack, MakeAnnounce, StartPath
<1>6. CASE MakeWithdraw
  BY <1>6 DEF MakeWithdraw, StreamIsWhatItSays
<1>7. CASE MakeLeak
  <2>1. PICK p \in Owned(Tier1[1]) :
          ev' = {Announcement(seq', p, <<Tier1[2], Transit[1], Tier1[1]>>)}
    BY <1>7 DEF MakeLeak
  <2>2. edges' = edges /\ blocks' = blocks /\ VRPs' = VRPs /\ LeakSlot'
    BY <1>2, <1>7, BeginSlots DEF MakeLeak, storeVars
  <2>3. \A t \in {Tier1[1], Tier1[2]} : Lookup(edges, Transit[1], t) = "provider"
    <3>1. todo = <<>> /\ phase = "next"
      BY <1>7 DEF MakeLeak, Begin, StageInv
    <3>2. ToSet(todo) = {}
      BY <3>1 DEF ToSet
    <3> QED
      BY <3>1, <3>2 DEF StageInv, BuysFrom
  <2> DEFINE u == Announcement(seq', p, <<Tier1[2], Transit[1], Tier1[1]>>)
             out == Classify(edges, VRPs, u)
  <2>4. out.vf = "leak" /\ out.offender = Transit[1] /\ out.rpki # "invalid"
    BY <2>3, LeakVerdict DEF StageInv, SynthInv
  <2> HIDE DEF u
  <2>5. ev' = {u}
    BY <2>1 DEF u
  <2> QED
    BY <2>2, <2>4, <2>5 DEF StreamIsWhatItSays, LeakSlot
<1>8. CASE Emit
  <2>1. PICK p \in IF victim # {} THEN victim ELSE Owned(prop[1]) :
          ev' = {Announcement(seq, p, Reverse(prop))}
    BY <1>8 DEF Emit
  <2>2. /\ edges' = edges /\ blocks' = blocks /\ VRPs' = VRPs /\ seq' = seq /\ victim' = victim
    BY <1>2, <1>8 DEF Emit, storeVars
  <2>3. /\ LoopFree(prop) /\ ValleyFreePath(prop) /\ prop[1] # NoAS /\ ~LeakSlot
        /\ \A q \in victim : q \in RoaPrefixes /\ prop[1] \in ToSet(Stubs) /\ prop[1] # Owner(q)
    BY <1>8 DEF Emit, RouteInv, Drawing
  <2>4. p \in ToSet(blocks) /\ (victim = {} => Owner(p) = prop[1])
    <3>1. RoaPrefixes \subseteq ToSet(blocks)
      BY DEF RoaPrefixes, ToSet
    <3> QED
      BY <2>1, <2>3, <3>1 DEF Owned
  <2> DEFINE u == Announcement(seq, p, Reverse(prop))
             out == Classify(edges, VRPs, u)
  <2>5. /\ u.prefix = p /\ u.origin = prop[1] /\ IsInjective(u.path)
        /\ p \in RoaPrefixes /\ prop[1] # Owner(p) => out.vf = "hijack" /\ out.offender = prop[1]
        /\ prop[1] = Owner(p) => out.vf = "valid"
    BY <2>3, <2>4, RouteVerdict DEF StageInv, SynthInv
  <2> HIDE DEF u
  <2>6. ev' = {u} /\ ~(LeakEvery > 0 /\ seq' % LeakEvery = 0)
    BY <2>1, <2>2, <2>3 DEF u, LeakSlot
  <2>7. CASE victim = {}
    BY <2>2, <2>4, <2>5, <2>6, <2>7 DEF StreamIsWhatItSays
  <2>8. CASE victim # {}
    <3>1. p \in victim
      BY <2>1, <2>8
    <3> QED
      BY <2>2, <2>3, <2>5, <2>6, <2>8, <3>1 DEF StreamIsWhatItSays
  <2> QED
    BY <2>7, <2>8
<1>9. CASE UNCHANGED synthVars
  <2>1. ev' = ev /\ edges' = edges /\ blocks' = blocks /\ VRPs' = VRPs /\ seq' = seq /\ victim' = victim
    BY <1>2, <1>9 DEF synthVars, storeVars, genVars
  <2> QED
    BY <2>1 DEF StreamIsWhatItSays
<1> QED
  BY <1>3, <1>4, <1>5, <1>6, <1>7, <1>8, <1>9 DEF SynthNext

LEMMA StreamInit == SynthInit => StreamInv
<1> SUFFICES ASSUME SynthInit PROVE StreamInv
  OBVIOUS
<1>1. SynthInv
  BY SynthInitInv
<1> QED
  BY <1>1 DEF StreamInv, StageInv, RouteInv, StreamIsWhatItSays, SynthInit, NothingDrawn, Init, Drawing

(***************************************************************************)
(* Whatever topology is drawn, of any size, and however many updates are   *)
(* generated from it, each is classified as what it was generated to be.   *)
(***************************************************************************)
THEOREM StreamAlwaysWhatItSays == SynthSpec => []StreamIsWhatItSays
<1>1. StreamInv /\ [SynthNext]_synthVars => StreamInv'
  BY StageStep, RouteStep, StreamStep DEF StreamInv
<1>2. StreamInv => StreamIsWhatItSays
  BY DEF StreamInv
<1> QED
  BY <1>1, <1>2, StreamInit, PTL DEF SynthSpec

-----------------------------------------------------------------------------
(* A dump, update by update                                                *)

LEMMA SeqShape ==
  ASSUME NEW s, IsSeq(s)
  PROVE  Len(s) \in Nat /\ DOMAIN s = 1 .. Len(s)
<1> DEFINE S == {s[k] : k \in DOMAIN s}
<1>1. s \in Seq(S)
  BY DEF IsSeq
<1> HIDE DEF S
<1> QED
  BY <1>1, LenProperties

LEMMA IsOne ==
  ASSUME NEW n \in Nat, NEW s, DOMAIN s = 1 .. n, s = [k \in DOMAIN s |-> s[k]]
  PROVE  IsSeq(s) /\ Len(s) = n
<1> DEFINE S == {s[k] : k \in DOMAIN s}
<1>1. s \in [1 .. n -> S]
  OBVIOUS
<1> HIDE DEF S
<1>2. s \in Seq(S) /\ Len(s) = n
  BY <1>1
<1> QED
  BY <1>2 DEF S, IsSeq

\* Sequences of sequences, of whatever they are.
LEMMA SeqOfSeqs ==
  ASSUME NEW s, IsSeq(s), \A k \in DOMAIN s : IsSeq(s[k])
  PROVE  \E S : s \in Seq(Seq(S))
<1> DEFINE S == UNION {{s[k][j] : j \in DOMAIN s[k]} : k \in DOMAIN s}
           n == Len(s)
<1>1. n \in Nat /\ DOMAIN s = 1 .. n
  BY SeqShape
<1>2. \A k \in DOMAIN s : s[k] \in Seq(S)
  <2> TAKE k \in DOMAIN s
  <2> DEFINE R == {s[k][j] : j \in DOMAIN s[k]}
  <2>1. s[k] \in Seq(R)
    BY DEF IsSeq
  <2>2. R \subseteq S
    OBVIOUS
  <2> HIDE DEF R, S
  <2> QED
    BY <2>1, <2>2, SeqMonotonic
<1> DEFINE R == {s[k] : k \in DOMAIN s}
<1>3. s \in Seq(R)
  BY DEF IsSeq
<1>4. R \subseteq Seq(S)
  BY <1>2
<1> HIDE DEF S, R
<1>5. s \in Seq(Seq(S))
  BY <1>3, <1>4, SeqMonotonic
<1> QED
  BY <1>5

\* Which NLRI of a list each of its prefixes is read from.
ReadFrom(nlris, src) ==
  LET ps == PrefixesIn(nlris)
  IN  /\ IsSeq(ps)
      /\ \A i \in 1 .. Len(ps) :
           src[i] \in DOMAIN nlris /\ nlris[src[i]] # BadNlri /\ ps[i] = Cleared(nlris[src[i]])
      /\ \A n \in DOMAIN nlris : nlris[n] # BadNlri => \E i \in 1 .. Len(ps) : src[i] = n
      /\ \A i, j \in 1 .. Len(ps) : i < j => src[i] < src[j]

LEMMA PrefixSources ==
  ASSUME NEW nlris, IsSeq(nlris)
  PROVE  \E src : ReadFrom(nlris, src)
<1> DEFINE S == {Cleared(nlris[k]) : k \in DOMAIN nlris}
           s == [k \in DOMAIN nlris |-> IF nlris[k] = BadNlri THEN <<>> ELSE <<Cleared(nlris[k])>>]
           ps == PrefixesIn(nlris)
<1>1. Len(nlris) \in Nat /\ DOMAIN nlris = 1 .. Len(nlris)
  BY SeqShape
<1>2. \A k \in DOMAIN nlris :
        /\ nlris[k] = BadNlri => s[k] = <<>> /\ Len(s[k]) = 0
        /\ nlris[k] # BadNlri =>
             s[k] = <<Cleared(nlris[k])>> /\ Len(s[k]) = 1 /\ s[k][1] = Cleared(nlris[k])
        /\ s[k] \in Seq(S)
  <2> TAKE k \in DOMAIN nlris
  <2>1. CASE nlris[k] = BadNlri
    BY <2>1
  <2>2. CASE nlris[k] # BadNlri
    <3> DEFINE c == Cleared(nlris[k])
    <3>1. s[k] = <<c>> /\ c \in S
      BY <2>2
    <3> HIDE DEF c, s, S
    <3>2. Len(<<c>>) = 1 /\ <<c>>[1] = c /\ <<c>> \in Seq(S)
      BY <3>1
    <3> QED
      BY <2>2, <3>1, <3>2 DEF c
  <2> QED
    BY <2>1, <2>2
<1>3. s \in Seq(Seq(S)) /\ Len(s) = Len(nlris)
  <2>1. s \in [1 .. Len(nlris) -> Seq(S)]
    BY <1>1, <1>2
  <2> HIDE DEF s, S
  <2> QED
    BY <1>1, <2>1
<1>4. ps = FlattenSeq(s)
  BY DEF PrefixesIn
<1> HIDE DEF s, S, ps
<1>5. PICK row, col : Spots(s, row, col)
  BY <1>3, FlattenSpots
<1>6. ps \in Seq(S)
  <2>1. CASE s = <<>>
    BY <1>4, <2>1, FlattenNothing, EmptySeq
  <2>2. CASE s # <<>>
    BY <1>3, <1>4, <2>2, FlattenedType
  <2> QED
    BY <2>1, <2>2
<1>7. IsSeq(ps)
  <2>1. Len(ps) \in Nat /\ DOMAIN ps = 1 .. Len(ps) /\ ps = [k \in DOMAIN ps |-> ps[k]]
    BY <1>6, LenProperties
  <2> QED
    BY <2>1, IsOne
<1>8. \A i \in 1 .. Len(ps) :
        /\ row[i] \in DOMAIN nlris /\ nlris[row[i]] # BadNlri /\ col[i] = 1
        /\ ps[i] = Cleared(nlris[row[i]])
  <2> TAKE i \in 1 .. Len(ps)
  <2>1. /\ row[i] \in DOMAIN nlris /\ col[i] \in 1 .. Len(s[row[i]])
        /\ ps[i] = s[row[i]][col[i]]
    BY <1>1, <1>3, <1>4, <1>5 DEF Spots
  <2>2. nlris[row[i]] # BadNlri
    <3> SUFFICES ASSUME nlris[row[i]] = BadNlri PROVE FALSE
      OBVIOUS
    <3>1. Len(s[row[i]]) = 0
      BY <1>2, <2>1
    <3> QED
      BY <2>1, <3>1
  <2>3. Len(s[row[i]]) = 1 /\ s[row[i]][1] = Cleared(nlris[row[i]])
    BY <1>2, <2>1, <2>2
  <2>4. col[i] = 1
    BY <2>1, <2>3
  <2> QED
    BY <2>1, <2>2, <2>3, <2>4
<1>9. \A n \in DOMAIN nlris : nlris[n] # BadNlri => \E i \in 1 .. Len(ps) : row[i] = n
  <2> SUFFICES ASSUME NEW n \in DOMAIN nlris, nlris[n] # BadNlri
               PROVE  \E i \in 1 .. Len(ps) : row[i] = n
    OBVIOUS
  <2>1. Len(s[n]) = 1 /\ n \in 1 .. Len(s)
    BY <1>1, <1>2, <1>3
  <2>2. 1 \in 1 .. Len(s[n])
    BY <2>1
  <2> QED
    BY <1>4, <1>5, <2>1, <2>2 DEF Spots
<1>10. \A i, j \in 1 .. Len(ps) : i < j => row[i] < row[j]
  <2> SUFFICES ASSUME NEW i \in 1 .. Len(ps), NEW j \in 1 .. Len(ps), i < j
               PROVE  row[i] < row[j]
    OBVIOUS
  <2>1. row[i] < row[j] \/ (row[i] = row[j] /\ col[i] < col[j])
    BY <1>4, <1>5 DEF Spots
  <2>2. col[i] = 1 /\ col[j] = 1
    BY <1>8
  <2> QED
    BY <2>1, <2>2
<1>11. ReadFrom(nlris, row)
  BY <1>7, <1>8, <1>9, <1>10 DEF ReadFrom, ps
<1> QED
  BY <1>11

\* The lists an UPDATE is read in, in that order: what it withdraws, what it
\* announces, then its attributes.
PartCount(r) == 2 + Len(r.attrs)

PartNlris(r, q) ==
  IF q = 1 THEN r.withdrawn ELSE IF q = 2 THEN r.nlri
  ELSE IF r.attrs[q - 2].type \in {"reach", "unreach"} THEN r.attrs[q - 2].value ELSE <<>>

PartKind(r, q) ==
  IF q = 2 \/ (q > 2 /\ r.attrs[q - 2].type = "reach") THEN "announce" ELSE "withdraw"

EventOf(at, r, kind, p) ==
  IF kind = "withdraw"
  THEN [id |-> 0, at |-> at, kind |-> "withdraw", prefix |-> p,
        path |-> <<>>, hasASSet |-> FALSE, origin |-> NoAS]
  ELSE [id |-> 0, at |-> at, kind |-> "announce", prefix |-> p,
        path |-> Flat(Segments(r.attrs)), hasASSet |-> HasASSet(Segments(r.attrs)),
        origin |-> OriginAS(Flat(Segments(r.attrs)), LastWasSet(Segments(r.attrs)))]

PartsOf(at, r) ==
  <<Withdraws(at, r.withdrawn), Announces(at, r.nlri, Segments(r.attrs))>>
    \o MultiProtocol(at, r.attrs)

RecordShape(r) ==
  /\ IsSeq(r.withdrawn) /\ IsSeq(r.nlri) /\ IsSeq(r.attrs)
  /\ \A a \in DOMAIN r.attrs : IsSeq(r.attrs[a].value)

\* The updates one list of NLRIs yields.
PartEvents(at, r, q) ==
  LET ps == PrefixesIn(PartNlris(r, q))
  IN  [j \in DOMAIN ps |-> EventOf(at, r, PartKind(r, q), ps[j])]

LEMMA NoPrefixes == IsSeq(<<>>) /\ PrefixesIn(<<>>) = <<>>
<1>1. [k \in DOMAIN <<>> |-> IF <<>>[k] = BadNlri THEN <<>> ELSE <<Cleared(<<>>[k])>>] = <<>>
  OBVIOUS
<1>2. IsSeq(<<>>)
  <2> DEFINE S == {<<>>[k] : k \in DOMAIN <<>>}
  <2>1. <<>> \in Seq(S)
    <3> HIDE DEF S
    <3> QED
      BY EmptySeq
  <2> QED
    BY <2>1 DEF IsSeq
<1> QED
  BY <1>1, <1>2, FlattenNothing DEF PrefixesIn

LEMMA PartShape ==
  ASSUME NEW at, NEW r, RecordShape(r), NEW q \in 1 .. PartCount(r)
  PROVE  /\ IsSeq(PartNlris(r, q)) /\ IsSeq(PartEvents(at, r, q))
         /\ Len(PartEvents(at, r, q)) = Len(PrefixesIn(PartNlris(r, q)))
<1>1. Len(r.attrs) \in Nat /\ DOMAIN r.attrs = 1 .. Len(r.attrs)
  BY SeqShape DEF RecordShape
<1>2. IsSeq(PartNlris(r, q))
  <2>1. CASE q = 1
    BY <2>1 DEF PartNlris, RecordShape
  <2>2. CASE q = 2
    BY <2>2 DEF PartNlris, RecordShape
  <2>3. CASE q # 1 /\ q # 2
    <3>1. q - 2 \in DOMAIN r.attrs
      BY <1>1, <2>3 DEF PartCount
    <3> QED
      BY <2>3, <3>1, NoPrefixes DEF PartNlris, RecordShape
  <2> QED
    BY <2>1, <2>2, <2>3
<1> DEFINE ps == PrefixesIn(PartNlris(r, q))
           e == PartEvents(at, r, q)
<1>3. IsSeq(ps)
  BY <1>2, PrefixSources DEF ReadFrom
<1>4. Len(ps) \in Nat /\ DOMAIN ps = 1 .. Len(ps)
  BY <1>3, SeqShape
<1>5. DOMAIN e = 1 .. Len(ps) /\ e = [k \in DOMAIN e |-> e[k]]
  BY <1>4 DEF PartEvents
<1> HIDE DEF e, ps
<1>6. IsSeq(e) /\ Len(e) = Len(ps)
  BY <1>4, <1>5, IsOne
<1> QED
  BY <1>2, <1>6 DEF e, ps

LEMMA PartsAre ==
  ASSUME NEW at, NEW r, RecordShape(r)
  PROVE  /\ IsSeq(PartsOf(at, r)) /\ Len(PartsOf(at, r)) = PartCount(r) /\ PartCount(r) \in Nat
         /\ \A q \in 1 .. PartCount(r) : PartsOf(at, r)[q] = PartEvents(at, r, q)
<1> DEFINE w == Withdraws(at, r.withdrawn)
           a == Announces(at, r.nlri, Segments(r.attrs))
           m == MultiProtocol(at, r.attrs)
           n == Len(r.attrs)
           two == <<w, a>>
           p == PartsOf(at, r)
<1>1. n \in Nat /\ DOMAIN r.attrs = 1 .. n
  BY SeqShape DEF RecordShape
<1>2. DOMAIN m = 1 .. n /\ m = [k \in DOMAIN m |-> m[k]]
  BY <1>1 DEF MultiProtocol
<1>3. p = two \o m
  BY DEF PartsOf
<1>4. PartEvents(at, r, 1) = w
  <2>1. PartNlris(r, 1) = r.withdrawn /\ PartKind(r, 1) = "withdraw"
    BY DEF PartNlris, PartKind
  <2> QED
    BY <2>1 DEF PartEvents, EventOf, Withdraws
<1>5. PartEvents(at, r, 2) = a
  <2>1. PartNlris(r, 2) = r.nlri /\ PartKind(r, 2) = "announce"
    BY DEF PartNlris, PartKind
  <2> QED
    BY <2>1 DEF PartEvents, EventOf, Announces
<1>6. \A k \in 1 .. n : PartEvents(at, r, 2 + k) = m[k]
  <2> TAKE k \in 1 .. n
  <2>1. (2 + k) - 2 = k /\ 2 + k # 1 /\ 2 + k # 2 /\ 2 + k > 2
    BY <1>1
  <2>2. m[k] = CASE r.attrs[k].type = "reach" ->
                      Announces(at, r.attrs[k].value, Segments(r.attrs))
                 [] r.attrs[k].type = "unreach" -> Withdraws(at, r.attrs[k].value)
                 [] OTHER -> <<>>
    BY <1>1 DEF MultiProtocol
  <2> HIDE DEF m
  <2>3. CASE r.attrs[k].type = "reach"
    <3>1. PartNlris(r, 2 + k) = r.attrs[k].value /\ PartKind(r, 2 + k) = "announce"
      BY <2>1, <2>3 DEF PartNlris, PartKind
    <3>2. m[k] = Announces(at, r.attrs[k].value, Segments(r.attrs))
      BY <2>2, <2>3
    <3> QED
      BY <3>1, <3>2 DEF PartEvents, EventOf, Announces
  <2>4. CASE r.attrs[k].type = "unreach"
    <3>1. PartNlris(r, 2 + k) = r.attrs[k].value /\ PartKind(r, 2 + k) = "withdraw"
      BY <2>1, <2>4 DEF PartNlris, PartKind
    <3>2. m[k] = Withdraws(at, r.attrs[k].value)
      BY <2>2, <2>4
    <3> QED
      BY <3>1, <3>2 DEF PartEvents, EventOf, Withdraws
  <2>5. CASE r.attrs[k].type # "reach" /\ r.attrs[k].type # "unreach"
    <3>1. PartNlris(r, 2 + k) = <<>>
      BY <2>1, <2>5 DEF PartNlris
    <3>2. m[k] = <<>>
      BY <2>2, <2>5
    <3>3. PartEvents(at, r, 2 + k) = <<>>
      BY <3>1, NoPrefixes DEF PartEvents
    <3> QED
      BY <3>2, <3>3
  <2> QED
    BY <2>3, <2>4, <2>5
<1> HIDE DEF w, a, m, p, n
<1> DEFINE S == {w, a} \cup {m[k] : k \in 1 .. n}
<1>7. m \in Seq(S) /\ Len(m) = n
  <2>1. m \in [1 .. n -> S]
    BY <1>2
  <2> HIDE DEF S
  <2> QED
    BY <1>1, <2>1
<1>8. two \in Seq(S) /\ Len(two) = 2 /\ two[1] = w /\ two[2] = a
  <2>1. w \in S /\ a \in S
    OBVIOUS
  <2> HIDE DEF S
  <2> QED
    BY <2>1
<1> HIDE DEF S, two
<1>9. /\ p \in Seq(S) /\ Len(p) = 2 + n
      /\ \A i \in 1 .. 2 + n : p[i] = IF i <= 2 THEN two[i] ELSE m[i - 2]
  <2>1. /\ two \o m \in Seq(S) /\ Len(two \o m) = Len(two) + Len(m)
        /\ \A i \in 1 .. Len(two) + Len(m) :
             (two \o m)[i] = IF i <= Len(two) THEN two[i] ELSE m[i - Len(two)]
    BY <1>7, <1>8, ConcatProperties
  <2> QED
    BY <1>3, <1>7, <1>8, <2>1
<1>10. IsSeq(p)
  <2>1. 2 + n \in Nat /\ DOMAIN p = 1 .. 2 + n /\ p = [k \in DOMAIN p |-> p[k]]
    BY <1>1, <1>9, LenProperties
  <2> QED
    BY <2>1, IsOne
<1>11. \A q \in 1 .. 2 + n : p[q] = PartEvents(at, r, q)
  <2> TAKE q \in 1 .. 2 + n
  <2>1. CASE q = 1
    BY <1>1, <1>4, <1>8, <1>9, <2>1
  <2>2. CASE q = 2
    BY <1>1, <1>5, <1>8, <1>9, <2>2
  <2>3. CASE q # 1 /\ q # 2
    <3>1. q - 2 \in 1 .. n /\ 2 + (q - 2) = q /\ ~(q <= 2)
      BY <1>1, <2>3
    <3>2. p[q] = m[q - 2]
      BY <1>9, <3>1
    <3>3. PartEvents(at, r, 2 + (q - 2)) = m[q - 2]
      BY <1>6, <3>1
    <3> QED
      BY <3>1, <3>2, <3>3
  <2> QED
    BY <2>1, <2>2, <2>3
<1> QED
  BY <1>1, <1>9, <1>10, <1>11 DEF p, n, PartCount

(***************************************************************************)
(* The updates of one UPDATE: which list, and which NLRI of it, each comes *)
(* from.                                                                   *)
(***************************************************************************)
RecordSpots(at, r, part, nth) ==
  LET e == RecordToEvents(at, r)
  IN  /\ \A i \in 1 .. Len(e) :
           /\ part[i] \in 1 .. PartCount(r) /\ nth[i] \in DOMAIN PartNlris(r, part[i])
           /\ PartNlris(r, part[i])[nth[i]] # BadNlri
           /\ e[i] = EventOf(at, r, PartKind(r, part[i]), Cleared(PartNlris(r, part[i])[nth[i]]))
      /\ \A q \in 1 .. PartCount(r) : \A n \in DOMAIN PartNlris(r, q) :
           PartNlris(r, q)[n] # BadNlri => \E i \in 1 .. Len(e) : part[i] = q /\ nth[i] = n
      /\ \A i, j \in 1 .. Len(e) :
           i < j => part[i] < part[j] \/ (part[i] = part[j] /\ nth[i] < nth[j])

LEMMA RecordSources ==
  ASSUME NEW at, NEW r, RecordShape(r), r.kind = "update"
  PROVE  IsSeq(RecordToEvents(at, r)) /\ \E part, nth : RecordSpots(at, r, part, nth)
<1> DEFINE s == PartsOf(at, r)
           c == PartCount(r)
           e == RecordToEvents(at, r)
<1>1. IsSeq(s) /\ Len(s) = c /\ c \in Nat /\ \A q \in 1 .. c : s[q] = PartEvents(at, r, q)
  BY PartsAre
<1>2. \A q \in 1 .. c : /\ IsSeq(PartNlris(r, q)) /\ IsSeq(PartEvents(at, r, q))
                        /\ Len(PartEvents(at, r, q)) = Len(PrefixesIn(PartNlris(r, q)))
  BY PartShape
<1>3. e = FlattenSeq(s)
  BY DEF RecordToEvents, PartsOf
<1> HIDE DEF s, c, e
<1>4. DOMAIN s = 1 .. c
  BY <1>1, SeqShape
<1>5. PICK S : s \in Seq(Seq(S))
  <2>1. \A q \in DOMAIN s : IsSeq(s[q])
    BY <1>1, <1>2, <1>4
  <2> QED
    BY <1>1, <2>1, SeqOfSeqs
<1>6. IsSeq(e)
  <2>1. e \in Seq(S)
    <3>1. CASE s = <<>>
      BY <1>3, <3>1, FlattenNothing, EmptySeq
    <3>2. CASE s # <<>>
      BY <1>3, <1>5, <3>2, FlattenedType
    <3> QED
      BY <3>1, <3>2
  <2>2. Len(e) \in Nat /\ DOMAIN e = 1 .. Len(e) /\ e = [k \in DOMAIN e |-> e[k]]
    BY <2>1, LenProperties
  <2> QED
    BY <2>2, IsOne
<1>7. PICK row, col : Spots(s, row, col)
  BY <1>5, FlattenSpots
<1> DEFINE P(q) == PrefixesIn(PartNlris(r, q))
           src == [q \in 1 .. c |-> CHOOSE f : ReadFrom(PartNlris(r, q), f)]
<1>8. \A q \in 1 .. c : ReadFrom(PartNlris(r, q), src[q])
  BY <1>2, PrefixSources
<1>9. \A q \in 1 .. c : Len(s[q]) = Len(P(q)) /\ \A j \in 1 .. Len(P(q)) :
        /\ src[q][j] \in DOMAIN PartNlris(r, q) /\ PartNlris(r, q)[src[q][j]] # BadNlri
        /\ s[q][j] = EventOf(at, r, PartKind(r, q), Cleared(PartNlris(r, q)[src[q][j]]))
  <2> HIDE DEF src
  <2> TAKE q \in 1 .. c
  <2>1. Len(s[q]) = Len(P(q))
    BY <1>1, <1>2
  <2>2. DOMAIN P(q) = 1 .. Len(P(q))
    BY <1>8, SeqShape DEF ReadFrom
  <2>3. \A j \in 1 .. Len(P(q)) :
          /\ src[q][j] \in DOMAIN PartNlris(r, q) /\ PartNlris(r, q)[src[q][j]] # BadNlri
          /\ P(q)[j] = Cleared(PartNlris(r, q)[src[q][j]])
    BY <1>8 DEF ReadFrom
  <2>4. \A j \in 1 .. Len(P(q)) : s[q][j] = EventOf(at, r, PartKind(r, q), P(q)[j])
    BY <1>1, <2>2 DEF PartEvents
  <2> QED
    BY <2>1, <2>3, <2>4
<1> HIDE DEF src
<1> DEFINE n == Len(e)
           nth == [i \in 1 .. n |-> src[row[i]][col[i]]]
<1>10. \A i \in 1 .. n :
         /\ row[i] \in 1 .. c /\ col[i] \in 1 .. Len(P(row[i])) /\ e[i] = s[row[i]][col[i]]
         /\ nth[i] = src[row[i]][col[i]]
  BY <1>1, <1>3, <1>7, <1>9 DEF Spots
<1>11. \A i \in 1 .. n :
         /\ row[i] \in 1 .. c /\ nth[i] \in DOMAIN PartNlris(r, row[i])
         /\ PartNlris(r, row[i])[nth[i]] # BadNlri
         /\ e[i] = EventOf(at, r, PartKind(r, row[i]), Cleared(PartNlris(r, row[i])[nth[i]]))
  <2> HIDE DEF n, nth, P
  <2> QED
    BY <1>9, <1>10
<1>12. \A q \in 1 .. c : \A m \in DOMAIN PartNlris(r, q) :
         PartNlris(r, q)[m] # BadNlri => \E i \in 1 .. n : row[i] = q /\ nth[i] = m
  <2> SUFFICES ASSUME NEW q \in 1 .. c, NEW m \in DOMAIN PartNlris(r, q),
                      PartNlris(r, q)[m] # BadNlri
               PROVE  \E i \in 1 .. n : row[i] = q /\ nth[i] = m
    OBVIOUS
  <2>1. PICK j \in 1 .. Len(P(q)) : src[q][j] = m
    BY <1>8 DEF ReadFrom
  <2>2. j \in 1 .. Len(s[q]) /\ q \in 1 .. Len(s)
    BY <1>1, <1>9, <2>1
  <2>3. PICK i \in 1 .. n : row[i] = q /\ col[i] = j
    BY <1>3, <1>7, <2>2 DEF Spots
  <2> QED
    BY <1>10, <2>1, <2>3
<1>13. \A i, j \in 1 .. n : i < j => row[i] < row[j] \/ (row[i] = row[j] /\ nth[i] < nth[j])
  <2> SUFFICES ASSUME NEW i \in 1 .. n, NEW j \in 1 .. n, i < j, ~(row[i] < row[j])
               PROVE  row[i] = row[j] /\ nth[i] < nth[j]
    OBVIOUS
  <2>1. row[i] = row[j] /\ col[i] < col[j]
    BY <1>3, <1>7 DEF Spots
  <2>2. /\ row[i] \in 1 .. c /\ col[i] \in 1 .. Len(P(row[i])) /\ col[j] \in 1 .. Len(P(row[i]))
        /\ nth[i] = src[row[i]][col[i]] /\ nth[j] = src[row[i]][col[j]]
    <3> HIDE DEF n, nth, P
    <3> QED
      BY <1>10, <2>1
  <2>3. src[row[i]][col[i]] < src[row[i]][col[j]]
    BY <1>8, <2>1, <2>2 DEF ReadFrom
  <2> QED
    BY <2>1, <2>2, <2>3
<1>14. RecordSpots(at, r, row, nth)
  <2> HIDE DEF n, nth, P
  <2> QED
    BY <1>11, <1>12, <1>13 DEF RecordSpots, n, c, e
<1> QED
  BY <1>6, <1>14 DEF e

\* The updates of a dump: which UPDATE each comes from, and where in it.
DumpSpots(d, rec, part, nth) ==
  LET e == Decode(d)
  IN  /\ \A i \in 1 .. Len(e) :
           /\ rec[i] \in DOMAIN d /\ d[rec[i]].kind = "update"
           /\ part[i] \in 1 .. PartCount(d[rec[i]])
           /\ nth[i] \in DOMAIN PartNlris(d[rec[i]], part[i])
           /\ PartNlris(d[rec[i]], part[i])[nth[i]] # BadNlri
           /\ e[i] = EventOf(rec[i], d[rec[i]], PartKind(d[rec[i]], part[i]),
                             Cleared(PartNlris(d[rec[i]], part[i])[nth[i]]))
      /\ \A k \in DOMAIN d : d[k].kind = "update" =>
           \A q \in 1 .. PartCount(d[k]) : \A n \in DOMAIN PartNlris(d[k], q) :
             PartNlris(d[k], q)[n] # BadNlri =>
               \E i \in 1 .. Len(e) : rec[i] = k /\ part[i] = q /\ nth[i] = n
      /\ \A i, j \in 1 .. Len(e) : i < j =>
           \/ rec[i] < rec[j]
           \/ rec[i] = rec[j] /\ part[i] < part[j]
           \/ rec[i] = rec[j] /\ part[i] = part[j] /\ nth[i] < nth[j]

DumpShape(d) == IsSeq(d) /\ \A k \in DOMAIN d : RecordShape(d[k])

LEMMA DumpSources ==
  ASSUME NEW d, DumpShape(d)
  PROVE  IsSeq(Decode(d)) /\ \E rec, part, nth : DumpSpots(d, rec, part, nth)
<1> DEFINE s == [k \in DOMAIN d |-> RecordToEvents(k, d[k])]
           e == Decode(d)
           c == Len(d)
<1>1. c \in Nat /\ DOMAIN d = 1 .. c /\ \A k \in DOMAIN d : RecordShape(d[k])
  BY SeqShape DEF DumpShape
<1>2. \A k \in DOMAIN d : d[k].kind # "update" => s[k] = <<>> /\ Len(s[k]) = 0
  BY DEF RecordToEvents
<1>3. \A k \in DOMAIN d : IsSeq(s[k])
  <2> TAKE k \in DOMAIN d
  <2>1. CASE d[k].kind = "update"
    BY <1>1, <2>1, RecordSources
  <2>2. CASE d[k].kind # "update"
    BY <1>2, <2>2, NoPrefixes
  <2> QED
    BY <2>1, <2>2
<1>4. \A k \in DOMAIN d : s[k] = RecordToEvents(k, d[k])
  OBVIOUS
<1>5. DOMAIN s = 1 .. c /\ s = [k \in DOMAIN s |-> s[k]]
  BY <1>1
<1>6. e = FlattenSeq(s)
  BY DEF Decode
<1> HIDE DEF s, e, c
<1>7. IsSeq(s) /\ Len(s) = c
  BY <1>1, <1>5, IsOne
<1>8. PICK S : s \in Seq(Seq(S))
  BY <1>1, <1>3, <1>5, <1>7, SeqOfSeqs
<1>9. IsSeq(e)
  <2>1. e \in Seq(S)
    <3>1. CASE s = <<>>
      BY <1>6, <3>1, FlattenNothing, EmptySeq
    <3>2. CASE s # <<>>
      BY <1>6, <1>8, <3>2, FlattenedType
    <3> QED
      BY <3>1, <3>2
  <2>2. Len(e) \in Nat /\ DOMAIN e = 1 .. Len(e) /\ e = [k \in DOMAIN e |-> e[k]]
    BY <2>1, LenProperties
  <2> QED
    BY <2>2, IsOne
<1>10. PICK rec, col : Spots(s, rec, col)
  BY <1>8, FlattenSpots
<1> DEFINE parts == [k \in DOMAIN d |-> CHOOSE f : \E g : RecordSpots(k, d[k], f, g)]
           nths == [k \in DOMAIN d |-> CHOOSE g : RecordSpots(k, d[k], parts[k], g)]
<1>11. \A k \in DOMAIN d : d[k].kind = "update" => RecordSpots(k, d[k], parts[k], nths[k])
  <2> SUFFICES ASSUME NEW k \in DOMAIN d, d[k].kind = "update"
               PROVE  RecordSpots(k, d[k], parts[k], nths[k])
    OBVIOUS
  <2>1. \E f, g : RecordSpots(k, d[k], f, g)
    BY <1>1, RecordSources
  <2>2. \E g : RecordSpots(k, d[k], parts[k], g)
    BY <2>1
  <2> HIDE DEF parts
  <2> QED
    BY <2>2
<1> HIDE DEF parts, nths
<1> DEFINE n == Len(e)
           part == [i \in 1 .. n |-> parts[rec[i]][col[i]]]
           nth == [i \in 1 .. n |-> nths[rec[i]][col[i]]]
<1>12. \A i \in 1 .. n :
         /\ rec[i] \in DOMAIN d /\ col[i] \in 1 .. Len(s[rec[i]]) /\ e[i] = s[rec[i]][col[i]]
         /\ part[i] = parts[rec[i]][col[i]] /\ nth[i] = nths[rec[i]][col[i]]
         /\ d[rec[i]].kind = "update"
  <2> TAKE i \in 1 .. n
  <2>1. rec[i] \in DOMAIN d /\ col[i] \in 1 .. Len(s[rec[i]]) /\ e[i] = s[rec[i]][col[i]]
    BY <1>1, <1>6, <1>7, <1>10 DEF Spots
  <2>2. d[rec[i]].kind = "update"
    <3> SUFFICES ASSUME d[rec[i]].kind # "update" PROVE FALSE
      OBVIOUS
    <3>1. Len(s[rec[i]]) = 0
      BY <1>2, <2>1
    <3> QED
      BY <2>1, <3>1
  <2> QED
    BY <2>1, <2>2
<1> HIDE DEF n, part, nth
<1>13. \A i \in 1 .. n :
         /\ part[i] \in 1 .. PartCount(d[rec[i]])
         /\ nth[i] \in DOMAIN PartNlris(d[rec[i]], part[i])
         /\ PartNlris(d[rec[i]], part[i])[nth[i]] # BadNlri
         /\ e[i] = EventOf(rec[i], d[rec[i]], PartKind(d[rec[i]], part[i]),
                           Cleared(PartNlris(d[rec[i]], part[i])[nth[i]]))
  <2> TAKE i \in 1 .. n
  <2> DEFINE k == rec[i]
             j == col[i]
             r == d[k]
  <2>1. /\ k \in DOMAIN d /\ r.kind = "update" /\ s[k] = RecordToEvents(k, r)
        /\ j \in 1 .. Len(s[k]) /\ e[i] = s[k][j] /\ part[i] = parts[k][j] /\ nth[i] = nths[k][j]
    BY <1>4, <1>12
  <2>2. RecordSpots(k, r, parts[k], nths[k])
    BY <1>11, <2>1
  <2> HIDE DEF k, j, r
  <2>3. /\ parts[k][j] \in 1 .. PartCount(r) /\ nths[k][j] \in DOMAIN PartNlris(r, parts[k][j])
        /\ PartNlris(r, parts[k][j])[nths[k][j]] # BadNlri
        /\ s[k][j] = EventOf(k, r, PartKind(r, parts[k][j]),
                             Cleared(PartNlris(r, parts[k][j])[nths[k][j]]))
    BY <2>1, <2>2 DEF RecordSpots
  <2>4. /\ part[i] \in 1 .. PartCount(r) /\ nth[i] \in DOMAIN PartNlris(r, part[i])
        /\ PartNlris(r, part[i])[nth[i]] # BadNlri
        /\ e[i] = EventOf(k, r, PartKind(r, part[i]), Cleared(PartNlris(r, part[i])[nth[i]]))
    BY <2>1, <2>3
  <2> QED
    BY <2>4 DEF k, r
<1>14. \A k \in DOMAIN d : d[k].kind = "update" =>
         \A q \in 1 .. PartCount(d[k]) : \A m \in DOMAIN PartNlris(d[k], q) :
           PartNlris(d[k], q)[m] # BadNlri =>
             \E i \in 1 .. n : rec[i] = k /\ part[i] = q /\ nth[i] = m
  <2> SUFFICES ASSUME NEW k \in DOMAIN d, d[k].kind = "update", NEW q \in 1 .. PartCount(d[k]),
                      NEW m \in DOMAIN PartNlris(d[k], q), PartNlris(d[k], q)[m] # BadNlri
               PROVE  \E i \in 1 .. n : rec[i] = k /\ part[i] = q /\ nth[i] = m
    OBVIOUS
  <2>1. s[k] = RecordToEvents(k, d[k]) /\ RecordSpots(k, d[k], parts[k], nths[k])
    BY <1>4, <1>11
  <2>2. PICK j \in 1 .. Len(s[k]) : parts[k][j] = q /\ nths[k][j] = m
    BY <2>1 DEF RecordSpots
  <2>3. PICK i \in 1 .. n : rec[i] = k /\ col[i] = j
    <3>1. \A x \in 1 .. c : \A y \in 1 .. Len(s[x]) : \E i \in 1 .. n : rec[i] = x /\ col[i] = y
      BY <1>6, <1>7, <1>10 DEF Spots, n
    <3>2. k \in 1 .. c
      BY <1>1
    <3> QED
      BY <2>2, <3>1, <3>2
  <2> QED
    BY <1>12, <2>2, <2>3
<1>15. \A i, j \in 1 .. n : i < j =>
         \/ rec[i] < rec[j]
         \/ rec[i] = rec[j] /\ part[i] < part[j]
         \/ rec[i] = rec[j] /\ part[i] = part[j] /\ nth[i] < nth[j]
  <2> SUFFICES ASSUME NEW i \in 1 .. n, NEW j \in 1 .. n, i < j, ~(rec[i] < rec[j])
               PROVE  /\ rec[i] = rec[j]
                      /\ part[i] < part[j] \/ (part[i] = part[j] /\ nth[i] < nth[j])
    OBVIOUS
  <2>1. rec[i] = rec[j] /\ col[i] < col[j]
    BY <1>6, <1>10 DEF Spots, n
  <2> DEFINE k == rec[i]
             x == col[i]
             y == col[j]
  <2>2. /\ k \in DOMAIN d /\ d[k].kind = "update" /\ s[k] = RecordToEvents(k, d[k])
        /\ x \in 1 .. Len(s[k]) /\ y \in 1 .. Len(s[k]) /\ x < y
        /\ part[i] = parts[k][x] /\ part[j] = parts[k][y]
        /\ nth[i] = nths[k][x] /\ nth[j] = nths[k][y]
    BY <1>4, <1>12, <2>1
  <2> HIDE DEF k, x, y
  <2>3. RecordSpots(k, d[k], parts[k], nths[k])
    BY <1>11, <2>2
  <2>4. \/ parts[k][x] < parts[k][y]
        \/ parts[k][x] = parts[k][y] /\ nths[k][x] < nths[k][y]
    BY <2>2, <2>3 DEF RecordSpots
  <2> QED
    BY <2>1, <2>2, <2>4
<1>16. DumpSpots(d, rec, part, nth)
  BY <1>12, <1>13, <1>14, <1>15 DEF DumpSpots, n, e
<1> QED
  BY <1>9, <1>16 DEF e

-----------------------------------------------------------------------------
(* What the updates of a dump say                                          *)

LEMMA DumpHasShape ==
  ASSUME NEW d \in Dumps
  PROVE  DumpShape(d)
  BY DumpsAreSequences DEF DumpShape, RecordShape

LEMMA KindIsOne ==
  ASSUME NEW r, NEW q
  PROVE  PartKind(r, q) \in UpdateKind
  BY DEF PartKind, UpdateKind

LEMMA EventSays ==
  ASSUME NEW at, NEW r, NEW kind \in UpdateKind, NEW p
  PROVE  LET u == EventOf(at, r, kind, p)
         IN  u.at = at /\ u.kind = kind /\ u.prefix = p /\ u.id = 0
<1>1. CASE kind = "withdraw"
  BY <1>1 DEF EventOf
<1>2. CASE kind = "announce"
  BY <1>2 DEF EventOf
<1> QED
  BY <1>1, <1>2 DEF UpdateKind

\* Each update, and the place of the dump it comes from.
Placed(d, rec, part, nth) ==
  LET e == Decode(d)
  IN  /\ Len(e) \in Nat /\ DOMAIN e = 1 .. Len(e) /\ DOMAIN d \subseteq Nat
      /\ \A i \in 1 .. Len(e) :
           /\ e[i].at = rec[i] /\ e[i].kind = PartKind(d[rec[i]], part[i])
           /\ e[i].prefix = Cleared(PartNlris(d[rec[i]], part[i])[nth[i]])
           /\ nth[i] \in Nat /\ part[i] \in Nat /\ part[i] >= 1

LEMMA DumpPlaced ==
  ASSUME NEW d, DumpShape(d), NEW rec, NEW part, NEW nth, DumpSpots(d, rec, part, nth)
  PROVE  Placed(d, rec, part, nth)
<1> DEFINE e == Decode(d)
<1>1. Len(e) \in Nat /\ DOMAIN e = 1 .. Len(e) /\ DOMAIN d \subseteq Nat
  <2>1. IsSeq(e) /\ IsSeq(d)
    BY DumpSources DEF DumpShape
  <2>2. DOMAIN d = 1 .. Len(d) /\ Len(d) \in Nat
    BY <2>1, SeqShape
  <2> QED
    BY <2>1, <2>2, SeqShape
<1>2. \A i \in 1 .. Len(e) :
        /\ e[i].at = rec[i] /\ e[i].kind = PartKind(d[rec[i]], part[i])
        /\ e[i].prefix = Cleared(PartNlris(d[rec[i]], part[i])[nth[i]])
  <2> TAKE i \in 1 .. Len(e)
  <2> DEFINE r == d[rec[i]]
             p == Cleared(PartNlris(r, part[i])[nth[i]])
  <2>1. e[i] = EventOf(rec[i], r, PartKind(r, part[i]), p)
    BY DEF DumpSpots
  <2> HIDE DEF e, r, p
  <2>2. e[i].at = rec[i] /\ e[i].kind = PartKind(r, part[i]) /\ e[i].prefix = p
    BY <2>1, KindIsOne, EventSays
  <2> QED
    BY <2>2 DEF r, p
<1>3. \A i \in 1 .. Len(e) : nth[i] \in Nat /\ part[i] \in Nat /\ part[i] >= 1
  <2> TAKE i \in 1 .. Len(e)
  <2> DEFINE r == d[rec[i]]
             q == part[i]
  <2>1. /\ rec[i] \in DOMAIN d /\ q \in 1 .. PartCount(r) /\ nth[i] \in DOMAIN PartNlris(r, q)
    BY DEF DumpSpots
  <2>2. RecordShape(r)
    BY <2>1 DEF DumpShape
  <2> HIDE DEF r, q
  <2>3. IsSeq(PartNlris(r, q)) /\ PartCount(r) \in Nat
    BY <2>1, <2>2, PartShape, PartsAre
  <2>4. DOMAIN PartNlris(r, q) = 1 .. Len(PartNlris(r, q)) /\ Len(PartNlris(r, q)) \in Nat
    BY <2>3, SeqShape
  <2>5. nth[i] \in Nat /\ q \in Nat /\ q >= 1
    BY <2>1, <2>3, <2>4
  <2> QED
    BY <2>5 DEF q
<1> QED
  BY <1>1, <1>2, <1>3 DEF Placed

\* How a list of an UPDATE is named by what mentions a prefix.
PlaceOf(q) == IF q <= 2 THEN 0 ELSE q - 2

LEMMA MentionPlaced ==
  ASSUME NEW r, RecordShape(r), NEW q \in 1 .. PartCount(r), NEW n \in DOMAIN PartNlris(r, q),
         PartNlris(r, q)[n] # BadNlri
  PROVE  <<PlaceOf(q), n>> \in Mentions(r, PartKind(r, q), Cleared(PartNlris(r, q)[n]))
<1> DEFINE p == Cleared(PartNlris(r, q)[n])
           kind == PartKind(r, q)
           mp == IF kind = "announce" THEN "reach" ELSE "unreach"
<1>1. Len(r.attrs) \in Nat /\ DOMAIN r.attrs = 1 .. Len(r.attrs)
  BY SeqShape DEF RecordShape
<1>2. n \in Naming(PartNlris(r, q), p)
  BY DEF Naming
<1>3. CASE q = 1
  <2>1. PartNlris(r, q) = r.withdrawn /\ kind = "withdraw" /\ PlaceOf(q) = 0
    BY <1>3 DEF PartNlris, PartKind, PlaceOf
  <2> HIDE DEF p, kind
  <2>2. <<0, n>> \in {0} \X Naming(r.withdrawn, p)
    BY <1>2, <2>1
  <2> QED
    BY <2>1, <2>2 DEF Mentions, p, kind
<1>4. CASE q = 2
  <2>1. PartNlris(r, q) = r.nlri /\ kind = "announce" /\ PlaceOf(q) = 0
    BY <1>4 DEF PartNlris, PartKind, PlaceOf
  <2> HIDE DEF p, kind
  <2>2. <<0, n>> \in {0} \X Naming(r.nlri, p)
    BY <1>2, <2>1
  <2> QED
    BY <2>1, <2>2 DEF Mentions, p, kind
<1>5. CASE q # 1 /\ q # 2
  <2> DEFINE a == q - 2
  <2>1. a \in DOMAIN r.attrs /\ q > 2 /\ ~(q <= 2) /\ q \in Nat
    BY <1>1, <1>5 DEF PartCount
  <2>2. r.attrs[a].type \in {"reach", "unreach"}
    <3> SUFFICES ASSUME r.attrs[a].type \notin {"reach", "unreach"} PROVE FALSE
      OBVIOUS
    <3>1. PartNlris(r, q) = <<>>
      BY <1>5 DEF PartNlris
    <3> QED
      BY <3>1
  <2>3. PartNlris(r, q) = r.attrs[a].value
    BY <1>5, <2>2 DEF PartNlris
  <2>4. r.attrs[a].type = mp
    BY <1>5, <2>1, <2>2 DEF PartKind
  <2>5. PlaceOf(q) = a
    BY <2>1 DEF PlaceOf
  <2> HIDE DEF a, p, kind
  <2>6. <<a, n>> \in {a} \X Naming(r.attrs[a].value, p)
    BY <1>2, <2>3
  <2>7. a \in {b \in DOMAIN r.attrs : r.attrs[b].type = mp}
    BY <2>1, <2>4
  <2>8. <<a, n>> \in UNION {{b} \X Naming(r.attrs[b].value, p) :
                             b \in {c \in DOMAIN r.attrs : r.attrs[c].type = mp}}
    BY <2>6, <2>7
  <2>9. <<a, n>> \in Mentions(r, kind, p)
    BY <2>8 DEF Mentions
  <2> QED
    BY <2>5, <2>9 DEF p, kind
<1> QED
  BY <1>3, <1>4, <1>5

LEMMA MentionFound ==
  ASSUME NEW r, RecordShape(r), NEW kind \in UpdateKind, NEW p, NEW m \in Mentions(r, kind, p)
  PROVE  \E q \in 1 .. PartCount(r) : \E n \in DOMAIN PartNlris(r, q) :
           /\ m = <<PlaceOf(q), n>> /\ PartKind(r, q) = kind
           /\ PartNlris(r, q)[n] # BadNlri /\ Cleared(PartNlris(r, q)[n]) = p
<1> DEFINE own == IF kind = "announce" THEN r.nlri ELSE r.withdrawn
           mp == IF kind = "announce" THEN "reach" ELSE "unreach"
<1>1. Len(r.attrs) \in Nat /\ DOMAIN r.attrs = 1 .. Len(r.attrs)
  BY SeqShape DEF RecordShape
<1>2. \/ m \in {0} \X Naming(own, p)
      \/ \E a \in DOMAIN r.attrs :
           r.attrs[a].type = mp /\ m \in {a} \X Naming(r.attrs[a].value, p)
  BY DEF Mentions
<1>3. CASE m \in {0} \X Naming(own, p)
  <2>1. PICK n \in Naming(own, p) : m = <<0, n>>
    BY <1>3
  <2> DEFINE q == IF kind = "announce" THEN 2 ELSE 1
  <2>2. q \in 1 .. PartCount(r) /\ PartNlris(r, q) = own /\ PartKind(r, q) = kind /\ PlaceOf(q) = 0
    <3>1. q \in 1 .. PartCount(r) /\ PlaceOf(q) = 0
      BY <1>1 DEF PartCount, PlaceOf
    <3>2. PartNlris(r, q) = own /\ PartKind(r, q) = kind
      BY DEF PartNlris, PartKind, UpdateKind
    <3> QED
      BY <3>1, <3>2
  <2> HIDE DEF q, own
  <2> QED
    BY <2>1, <2>2 DEF Naming
<1>4. ASSUME NEW a \in DOMAIN r.attrs, r.attrs[a].type = mp,
             m \in {a} \X Naming(r.attrs[a].value, p)
      PROVE  \E q \in 1 .. PartCount(r) : \E n \in DOMAIN PartNlris(r, q) :
               /\ m = <<PlaceOf(q), n>> /\ PartKind(r, q) = kind
               /\ PartNlris(r, q)[n] # BadNlri /\ Cleared(PartNlris(r, q)[n]) = p
  <2>1. PICK n \in Naming(r.attrs[a].value, p) : m = <<a, n>>
    BY <1>4
  <2> DEFINE q == a + 2
  <2>2. q \in 1 .. PartCount(r) /\ q - 2 = a /\ q # 1 /\ q # 2 /\ q > 2 /\ PlaceOf(q) = a
    BY <1>1 DEF PartCount, PlaceOf
  <2> HIDE DEF q
  <2>3. PartNlris(r, q) = r.attrs[a].value
    BY <1>4, <2>2 DEF PartNlris
  <2>4. PartKind(r, q) = kind
    BY <1>4, <2>2 DEF PartKind, UpdateKind
  <2> QED
    BY <2>1, <2>2, <2>3, <2>4 DEF Naming
<1> QED
  BY <1>2, <1>3, <1>4

\* Two updates are in one place of the dump only when they are one.
LEMMA OnePlace ==
  ASSUME NEW d, NEW rec, NEW part, NEW nth, DumpSpots(d, rec, part, nth), DumpShape(d),
         NEW i \in 1 .. Len(Decode(d)), NEW j \in 1 .. Len(Decode(d)),
         rec[i] = rec[j], part[i] = part[j], nth[i] = nth[j]
  PROVE  i = j
<1> DEFINE n == Len(Decode(d))
<1>1. Placed(d, rec, part, nth)
  BY DumpPlaced
<1>2. \A a, b \in 1 .. n :
        rec[a] = rec[b] /\ part[a] = part[b] /\ nth[a] = nth[b] => ~(a < b)
  <2> SUFFICES ASSUME NEW a \in 1 .. n, NEW b \in 1 .. n, a < b,
                      rec[a] = rec[b], part[a] = part[b], nth[a] = nth[b]
               PROVE  FALSE
    OBVIOUS
  <2>1. \/ rec[a] < rec[b]
        \/ rec[a] = rec[b] /\ part[a] < part[b]
        \/ rec[a] = rec[b] /\ part[a] = part[b] /\ nth[a] < nth[b]
    BY DEF DumpSpots
  <2>2. rec[a] \in Nat /\ part[a] \in Nat /\ nth[a] \in Nat
    BY <1>1 DEF Placed, DumpSpots
  <2> QED
    BY <2>1, <2>2
<1>3. n \in Nat
  BY <1>1 DEF Placed
<1>4. ~(i < j) /\ ~(j < i)
  BY <1>2
<1> HIDE DEF n
<1> QED
  BY <1>3, <1>4 DEF n

LEMMA EachOnce ==
  ASSUME dump \in Dumps, decoded = Decode(dump)
  PROVE  EachNlriOnce
<1>1. DumpShape(dump)
  BY DumpHasShape
<1>2. PICK rec, part, nth : DumpSpots(dump, rec, part, nth)
  BY <1>1, DumpSources
<1>3. Placed(dump, rec, part, nth)
  BY <1>1, <1>2, DumpPlaced
<1> DEFINE n == Len(decoded)
<1>4. n \in Nat /\ DOMAIN decoded = 1 .. n
  BY <1>3 DEF Placed
<1>5. \A i \in 1 .. n : rec[i] \in Nat /\ rec[i] \in DOMAIN dump /\ decoded[i].at = rec[i]
  BY <1>2, <1>3 DEF Placed, DumpSpots
<1>6. \A i, j \in DOMAIN decoded : i < j => decoded[i].at <= decoded[j].at
  <2> SUFFICES ASSUME NEW i \in 1 .. n, NEW j \in 1 .. n, i < j
               PROVE  decoded[i].at <= decoded[j].at
    BY <1>4
  <2>1. rec[i] < rec[j] \/ rec[i] = rec[j]
    BY <1>2 DEF DumpSpots
  <2> QED
    BY <1>5, <2>1
<1>7. ASSUME NEW k \in DOMAIN dump, NEW p, NEW kind \in UpdateKind
      PROVE  Cardinality({i \in Updates(k) : decoded[i].kind = kind /\ decoded[i].prefix = p})
               = IF dump[k].kind = "update" THEN Cardinality(Mentions(dump[k], kind, p)) ELSE 0
  <2> DEFINE I == {i \in Updates(k) : decoded[i].kind = kind /\ decoded[i].prefix = p}
             r == dump[k]
             M == Mentions(r, kind, p)
  <2>1. \A i : i \in I <=> i \in 1 .. n /\ rec[i] = k /\ decoded[i].kind = kind /\ decoded[i].prefix = p
    BY <1>4, <1>5 DEF Updates
  <2>2. CASE r.kind # "update"
    <3>1. \A i \in I : FALSE
      BY <1>2, <2>1, <2>2 DEF DumpSpots
    <3>2. I = {}
      BY <3>1
    <3> HIDE DEF I
    <3>3. Cardinality(I) = 0
      BY <3>2, FS_EmptySet
    <3> QED
      BY <2>2, <3>3 DEF I
  <2>3. CASE r.kind = "update"
    <3>1. RecordShape(r)
      BY <1>1 DEF DumpShape
    <3> DEFINE g == [i \in I |-> <<PlaceOf(part[i]), nth[i]>>]
    <3>2. \A i \in I : /\ i \in 1 .. n /\ rec[i] = k
                       /\ part[i] \in 1 .. PartCount(r) /\ nth[i] \in DOMAIN PartNlris(r, part[i])
                       /\ PartNlris(r, part[i])[nth[i]] # BadNlri
                       /\ PartKind(r, part[i]) = kind
                       /\ Cleared(PartNlris(r, part[i])[nth[i]]) = p
      BY <1>2, <1>3, <2>1 DEF DumpSpots, Placed
    <3>3. g \in [I -> M]
      <4> SUFFICES ASSUME NEW i \in I PROVE <<PlaceOf(part[i]), nth[i]>> \in M
        OBVIOUS
      <4> HIDE DEF I, r
      <4> QED
        BY <3>1, <3>2, MentionPlaced
    <3>4. \A i, j \in I : g[i] = g[j] => i = j
      <4> SUFFICES ASSUME NEW i \in I, NEW j \in I, g[i] = g[j] PROVE i = j
        OBVIOUS
      <4>1. PlaceOf(part[i]) = PlaceOf(part[j]) /\ nth[i] = nth[j]
        OBVIOUS
      <4> HIDE DEF g, I, r
      <4>2. /\ i \in 1 .. n /\ j \in 1 .. n /\ rec[i] = rec[j]
            /\ PartKind(r, part[i]) = PartKind(r, part[j])
        BY <3>2
      <4>3. part[i] \in Nat /\ part[i] >= 1 /\ part[j] \in Nat /\ part[j] >= 1
        BY <1>3, <4>2 DEF Placed
      <4>4. part[i] = part[j]
        <5>1. PartKind(r, 1) = "withdraw" /\ PartKind(r, 2) = "announce"
          BY DEF PartKind
        <5>2. CASE part[i] <= 2 /\ part[j] <= 2
          <6>1. (part[i] = 1 \/ part[i] = 2) /\ (part[j] = 1 \/ part[j] = 2)
            BY <4>3, <5>2
          <6> QED
            BY <4>2, <5>1, <6>1
        <5>3. CASE ~(part[i] <= 2) \/ ~(part[j] <= 2)
          BY <4>1, <4>3, <5>3 DEF PlaceOf
        <5> QED
          BY <5>2, <5>3
      <4> QED
        BY <1>1, <1>2, <4>1, <4>2, <4>4, OnePlace
    <3>5. \A m \in M : \E i \in I : g[i] = m
      <4> SUFFICES ASSUME NEW m \in M PROVE \E i \in I : g[i] = m
        OBVIOUS
      <4> HIDE DEF I
      <4>0. PICK q \in 1 .. PartCount(r) : \E x \in DOMAIN PartNlris(r, q) :
                   /\ m = <<PlaceOf(q), x>> /\ PartKind(r, q) = kind
                   /\ PartNlris(r, q)[x] # BadNlri /\ Cleared(PartNlris(r, q)[x]) = p
        BY <3>1, MentionFound
      <4>1. PICK x \in DOMAIN PartNlris(r, q) :
                   /\ m = <<PlaceOf(q), x>> /\ PartKind(r, q) = kind
                   /\ PartNlris(r, q)[x] # BadNlri /\ Cleared(PartNlris(r, q)[x]) = p
        BY <4>0
      <4>2. PICK i \in 1 .. n : rec[i] = k /\ part[i] = q /\ nth[i] = x
        BY <1>2, <2>3, <4>1 DEF DumpSpots
      <4>3. decoded[i].kind = kind /\ decoded[i].prefix = p
        BY <1>3, <4>1, <4>2 DEF Placed
      <4>4. i \in I
        BY <2>1, <4>2, <4>3
      <4> QED
        BY <4>1, <4>2, <4>4
    <3>6. IsFiniteSet(I)
      <4>1. I \in SUBSET (1 .. n)
        BY <2>1
      <4>2. IsFiniteSet(1 .. n)
        BY <1>4, FS_Interval
      <4> HIDE DEF I, n
      <4> QED
        BY <4>1, <4>2, FS_Subset
    <3> HIDE DEF g, I, M
    <3>7. ExistsBijection(I, M)
      BY <3>3, <3>4, <3>5 DEF ExistsBijection, Bijection, Injection, Surjection, IsInjective
    <3>8. Cardinality(M) = Cardinality(I)
      BY <3>6, <3>7, FS_Bijection
    <3> QED
      BY <2>3, <3>8 DEF I, M
  <2> QED
    BY <2>2, <2>3
<1> QED
  BY <1>6, <1>7 DEF EachNlriOnce

LEMMA ReplacedEndsAnnounced ==
  ASSUME dump \in Dumps, decoded = Decode(dump)
  PROVE  ReplacedIsAnnounced
<1>1. DumpShape(dump)
  BY DumpHasShape
<1>2. PICK rec, part, nth : DumpSpots(dump, rec, part, nth)
  BY <1>1, DumpSources
<1>3. Placed(dump, rec, part, nth)
  BY <1>1, <1>2, DumpPlaced
<1> DEFINE n == Len(decoded)
<1>4. n \in Nat /\ DOMAIN decoded = 1 .. n
  BY <1>3 DEF Placed
<1> SUFFICES ASSUME NEW k \in DOMAIN dump, NEW h \in Updates(k),
                    Naming(dump[k].nlri, decoded[h].prefix) # {},
                    \A m \in Mentions(dump[k], "withdraw", decoded[h].prefix) : m[1] = 0
             PROVE  \E j \in Updates(k) :
                      /\ decoded[j].prefix = decoded[h].prefix /\ decoded[j].kind = "announce"
                      /\ \A m \in Updates(k) : decoded[m].prefix = decoded[h].prefix => m <= j
  BY DEF ReplacedIsAnnounced
<1> DEFINE r == dump[k]
           p == decoded[h].prefix
           J == {j \in Updates(k) : decoded[j].prefix = p}
<1>5. \A j : j \in J <=> j \in 1 .. n /\ rec[j] = k /\ decoded[j].prefix = p
  BY <1>3, <1>4 DEF Updates, Placed
<1>6. r.kind = "update" /\ RecordShape(r)
  <2>1. h \in 1 .. n /\ rec[h] = k
    BY <1>3, <1>4 DEF Updates, Placed
  <2> QED
    BY <1>1, <1>2, <2>1 DEF DumpSpots, DumpShape
<1>7. PICK x \in Naming(r.nlri, p) : TRUE
  OBVIOUS
<1>8. PICK a \in 1 .. n : rec[a] = k /\ part[a] = 2 /\ nth[a] = x
  <2>1. Len(r.attrs) \in Nat
    BY <1>6, SeqShape DEF RecordShape
  <2>2. 2 \in 1 .. PartCount(r) /\ PartNlris(r, 2) = r.nlri
    BY <2>1 DEF PartCount, PartNlris
  <2>3. x \in DOMAIN PartNlris(r, 2) /\ PartNlris(r, 2)[x] # BadNlri
    BY <1>7, <2>2 DEF Naming
  <2> QED
    BY <1>2, <1>6, <2>2, <2>3 DEF DumpSpots
<1>9. a \in J
  <2>1. decoded[a].prefix = Cleared(PartNlris(r, 2)[x])
    BY <1>3, <1>8 DEF Placed
  <2>2. PartNlris(r, 2) = r.nlri
    BY DEF PartNlris
  <2>3. decoded[a].prefix = p
    BY <1>7, <2>1, <2>2 DEF Naming
  <2> QED
    BY <1>5, <1>8, <2>3
<1> HIDE DEF n, J, p, r
<1>10. PICK j \in J : \A m \in J : m <= j
  <2> DEFINE T == {n - m : m \in J}
  <2>1. T \in SUBSET Nat /\ T # {}
    BY <1>4, <1>5, <1>9
  <2>2. PICK t \in T : \A u \in T : t <= u
    <3> HIDE DEF T
    <3> QED
      BY <2>1, FirstNat
  <2>3. PICK b \in J : t = n - b
    BY <2>2
  <2>4. \A m \in J : m <= b
    <3> TAKE m \in J
    <3>1. n - b <= n - m
      BY <2>2, <2>3
    <3> QED
      BY <1>4, <1>5, <3>1
  <2> QED
    BY <2>4
<1>11. j \in 1 .. n /\ rec[j] = k /\ decoded[j].prefix = p /\ a <= j
  BY <1>5, <1>9, <1>10
<1>12. decoded[j].kind = PartKind(r, part[j]) /\ part[j] \in Nat /\ part[j] >= 1
  BY <1>3, <1>11 DEF Placed, n, r
<1>13. PartKind(r, part[j]) = "announce"
  <2> SUFFICES ASSUME PartKind(r, part[j]) # "announce" PROVE FALSE
    OBVIOUS
  <2>1. PartKind(r, part[j]) = "withdraw" /\ part[j] # 2
    BY DEF PartKind
  <2>2. <<PlaceOf(part[j]), nth[j]>> \in Mentions(r, "withdraw", p)
    <3>1. /\ part[j] \in 1 .. PartCount(r) /\ nth[j] \in DOMAIN PartNlris(r, part[j])
          /\ PartNlris(r, part[j])[nth[j]] # BadNlri
      BY <1>2, <1>11 DEF DumpSpots, n, r
    <3>2. Cleared(PartNlris(r, part[j])[nth[j]]) = p
      BY <1>3, <1>11 DEF Placed, n, r
    <3> QED
      BY <1>6, <2>1, <3>1, <3>2, MentionPlaced
  <2>3. PlaceOf(part[j]) = 0
    <3>1. <<PlaceOf(part[j]), nth[j]>>[1] = 0
      BY <2>2 DEF p, r
    <3> QED
      BY <3>1
  <2>4. part[j] = 1
    BY <1>12, <2>1, <2>3 DEF PlaceOf
  <2>5. a # j
    BY <1>8, <2>4
  <2>6. a < j
    BY <1>4, <1>8, <1>11, <2>5
  <2>7. \/ rec[a] < rec[j]
        \/ rec[a] = rec[j] /\ part[a] < part[j]
        \/ rec[a] = rec[j] /\ part[a] = part[j] /\ nth[a] < nth[j]
    BY <1>2, <1>8, <1>11, <2>6 DEF DumpSpots, n
  <2>8. k \in Nat
    BY <1>3 DEF Placed
  <2> QED
    BY <1>8, <1>11, <2>4, <2>7, <2>8
<1>14. j \in Updates(k) /\ decoded[j].prefix = p /\ decoded[j].kind = "announce"
  BY <1>10, <1>12, <1>13 DEF J
<1>15. \A m \in Updates(k) : decoded[m].prefix = p => m <= j
  BY <1>10 DEF J
<1> QED
  BY <1>14, <1>15 DEF p

\* The hops a segment of a path counts for.
HopsOf(seg) == 1 .. IF seg.set /\ seg.as # <<>> THEN 1 ELSE Len(seg.as)

LEMMA SegmentsShape ==
  ASSUME dump \in Dumps, NEW k \in DOMAIN dump
  PROVE  LET segs == Segments(dump[k].attrs)
         IN  IsSeq(segs) /\ \A s \in DOMAIN segs : IsSeq(segs[s].as)
<1> DEFINE attrs == dump[k].attrs
           paths == {a \in DOMAIN attrs : attrs[a].type = "aspath"}
<1>1. /\ IsSeq(attrs)
      /\ \A a \in DOMAIN attrs : attrs[a].type = "aspath" =>
           IsSeq(attrs[a].value) /\ \A s \in DOMAIN attrs[a].value : IsSeq(attrs[a].value[s].as)
  BY DumpsAreSequences
<1>2. CASE paths = {}
  <2>1. Segments(attrs) = <<>>
    BY <1>2 DEF Segments
  <2>2. IsSeq(Segments(attrs))
    BY <2>1, NoPrefixes
  <2> QED
    BY <2>1, <2>2
<1>3. CASE paths # {}
  <2>1. paths \in SUBSET Nat
    BY <1>1, SeqShape
  <2>2. \E a \in paths : \A b \in paths : a <= b
    <3> HIDE DEF paths
    <3> QED
      BY <1>3, <2>1, FirstNat
  <2>3. Min(paths) \in paths
    <3> HIDE DEF paths
    <3> QED
      BY <2>2 DEF Min
  <2>4. Segments(attrs) = attrs[Min(paths)].value
    BY <1>3 DEF Segments
  <2> QED
    BY <1>1, <2>3, <2>4
<1> QED
  BY <1>2, <1>3

\* A flattened path: one hop for each AS of a sequence, one for a set.
LEMMA FlatHops ==
  ASSUME NEW segs, IsSeq(segs), \A s \in DOMAIN segs : IsSeq(segs[s].as)
  PROVE  LET ends == segs[Len(segs)]
             last == Flat(segs)[Len(Flat(segs))]
         IN  /\ Len(Flat(segs)) = Cardinality(UNION {{s} \X HopsOf(segs[s]) : s \in DOMAIN segs})
             /\ segs = <<>> => Flat(segs) = <<>>
             /\ segs # <<>> /\ ~ends.set /\ ends.as # <<>> =>
                  Flat(segs) # <<>> /\ last = ends.as[Len(ends.as)]
<1> DEFINE hop == [k \in DOMAIN segs |->
                    IF segs[k].set /\ segs[k].as # <<>> THEN <<segs[k].as[1]>> ELSE segs[k].as]
           path == Flat(segs)
           c == Len(segs)
           H == UNION {{s} \X HopsOf(segs[s]) : s \in DOMAIN segs}
<1>1. c \in Nat /\ DOMAIN segs = 1 .. c
  BY SeqShape
<1>2. path = FlattenSeq(hop)
  BY DEF Flat
<1>3. DOMAIN hop = 1 .. c /\ hop = [k \in DOMAIN hop |-> hop[k]]
  BY <1>1
<1>4. \A k \in 1 .. c : IsSeq(hop[k]) /\ HopsOf(segs[k]) = 1 .. Len(hop[k])
  <2> TAKE k \in 1 .. c
  <2>1. CASE segs[k].set /\ segs[k].as # <<>>
    <3>1. hop[k] = <<segs[k].as[1]>>
      BY <1>1, <2>1
    <3>2. IsSeq(hop[k]) /\ Len(hop[k]) = 1
      <4> DEFINE one == <<segs[k].as[1]>>
      <4>1. DOMAIN one = 1 .. 1 /\ one = [j \in DOMAIN one |-> one[j]]
        OBVIOUS
      <4> HIDE DEF one
      <4>2. IsSeq(one) /\ Len(one) = 1
        BY <4>1, IsOne
      <4> QED
        BY <3>1, <4>2 DEF one
    <3> QED
      BY <2>1, <3>2 DEF HopsOf
  <2>2. CASE ~(segs[k].set /\ segs[k].as # <<>>)
    BY <1>1, <2>2 DEF HopsOf
  <2> QED
    BY <2>1, <2>2
<1>5. \A k \in 1 .. c : segs[k].as # <<>> /\ ~segs[k].set => hop[k] = segs[k].as
  BY <1>1
<1>6. segs = <<>> => path = <<>>
  <2> SUFFICES ASSUME segs = <<>> PROVE path = <<>>
    OBVIOUS
  <2>1. hop = <<>>
    OBVIOUS
  <2> QED
    BY <1>2, <2>1, FlattenNothing
<1> HIDE DEF hop, path
<1>7. IsSeq(hop) /\ Len(hop) = c
  BY <1>1, <1>3, IsOne
<1>8. PICK S : hop \in Seq(Seq(S))
  BY <1>3, <1>4, <1>7, SeqOfSeqs
<1>9. PICK row, col : Spots(hop, row, col)
  BY <1>8, FlattenSpots
<1> DEFINE n == Len(path)
           g == [i \in 1 .. n |-> <<row[i], col[i]>>]
<1>10. /\ n \in Nat
       /\ \A i \in 1 .. n : /\ row[i] \in 1 .. c /\ col[i] \in 1 .. Len(hop[row[i]])
                            /\ path[i] = hop[row[i]][col[i]]
       /\ \A k \in 1 .. c : \A j \in 1 .. Len(hop[k]) : \E i \in 1 .. n : row[i] = k /\ col[i] = j
       /\ \A i, j \in 1 .. n : i < j => row[i] < row[j] \/ (row[i] = row[j] /\ col[i] < col[j])
  BY <1>2, <1>7, <1>9 DEF Spots
<1>11. \A k \in 1 .. c : Len(hop[k]) \in Nat
  BY <1>4, SeqShape
<1>12. \A m : m \in H <=> \E k \in 1 .. c : \E j \in 1 .. Len(hop[k]) : m = <<k, j>>
  <2>1. H = UNION {{s} \X (1 .. Len(hop[s])) : s \in 1 .. c}
    BY <1>1, <1>4
  <2> HIDE DEF H
  <2> QED
    BY <2>1
<1>13. g \in [1 .. n -> H]
  <2> SUFFICES ASSUME NEW i \in 1 .. n PROVE <<row[i], col[i]>> \in H
    OBVIOUS
  <2> HIDE DEF H, n
  <2> QED
    BY <1>10, <1>12
<1>14. \A i, j \in 1 .. n : g[i] = g[j] => i = j
  <2> SUFFICES ASSUME NEW i \in 1 .. n, NEW j \in 1 .. n, g[i] = g[j] PROVE i = j
    OBVIOUS
  <2>1. row[i] = row[j] /\ col[i] = col[j]
    OBVIOUS
  <2> HIDE DEF g, n
  <2>2. row[i] \in Nat /\ col[i] \in Nat
    BY <1>1, <1>10, <1>11
  <2>3. ~(i < j) /\ ~(j < i)
    BY <1>10, <2>1, <2>2
  <2> QED
    BY <1>10, <2>3
<1>15. \A m \in H : \E i \in 1 .. n : g[i] = m
  <2> TAKE m \in H
  <2> HIDE DEF H, n
  <2>1. PICK k \in 1 .. c : \E j \in 1 .. Len(hop[k]) : m = <<k, j>>
    BY <1>12
  <2>2. PICK j \in 1 .. Len(hop[k]) : m = <<k, j>>
    BY <2>1
  <2>3. PICK i \in 1 .. n : row[i] = k /\ col[i] = j
    BY <1>10
  <2> QED
    BY <2>2, <2>3
<1> HIDE DEF g, H
<1>16. Cardinality(H) = n
  <2>1. ExistsBijection(1 .. n, H)
    BY <1>13, <1>14, <1>15 DEF ExistsBijection, Bijection, Injection, Surjection, IsInjective
  <2> HIDE DEF n
  <2>2. IsFiniteSet(1 .. n) /\ Cardinality(1 .. n) = n
    BY <1>10, FS_Interval
  <2> QED
    BY <2>1, <2>2, FS_Bijection
<1>17. ASSUME segs # <<>>, ~segs[c].set, segs[c].as # <<>>
       PROVE  path # <<>> /\ path[n] = segs[c].as[Len(segs[c].as)]
  <2>1. c >= 1
    <3> SUFFICES ASSUME c = 0 PROVE FALSE
      BY <1>1
    <3> QED
      BY <1>1, <1>17
  <2> DEFINE l == Len(segs[c].as)
  <2>2. hop[c] = segs[c].as /\ c \in 1 .. c
    BY <1>1, <1>5, <1>17, <2>1
  <2>3. l \in Nat /\ DOMAIN segs[c].as = 1 .. l
    BY <1>1, <2>2, SeqShape
  <2>4. l >= 1
    <3> SUFFICES ASSUME l = 0 PROVE FALSE
      BY <2>3
    <3>1. IsSeq(segs[c].as)
      BY <1>1, <2>2
    <3>2. segs[c].as = <<>>
      BY <3>1, EmptySeq DEF IsSeq
    <3> QED
      BY <1>17, <3>2
  <2>5. Len(hop[c]) = l
    BY <2>2
  <2>6. PICK i \in 1 .. n : row[i] = c /\ col[i] = l
    <3>1. l \in 1 .. Len(hop[c])
      BY <2>3, <2>4, <2>5
    <3>2. \A k \in 1 .. c : \A j \in 1 .. Len(hop[k]) : \E i \in 1 .. n : row[i] = k /\ col[i] = j
      BY <1>10
    <3> HIDE DEF l, n
    <3> QED
      BY <2>2, <3>1, <3>2
  <2>7. i = n
    <3> SUFFICES ASSUME i < n PROVE FALSE
      BY <1>10, <2>6
    <3>1. n \in 1 .. n
      BY <1>10, <2>6
    <3>2. row[i] < row[n] \/ (row[i] = row[n] /\ col[i] < col[n])
      BY <1>10, <2>6, <3>1
    <3>3. row[n] \in 1 .. c /\ col[n] \in 1 .. Len(hop[row[n]])
      BY <1>10, <3>1
    <3>4. CASE row[i] < row[n]
      BY <1>1, <2>6, <3>3, <3>4
    <3>5. CASE row[i] = row[n] /\ col[i] < col[n]
      <4>1. col[n] \in 1 .. l
        BY <2>5, <2>6, <3>3, <3>5
      <4> QED
        BY <2>3, <2>6, <3>5, <4>1
    <3> QED
      BY <3>2, <3>4, <3>5
  <2>8. path[n] = hop[c][l]
    BY <1>10, <2>6, <2>7
  <2>9. path # <<>>
    <3>1. n # 0
      BY <1>10, <2>6
    <3> QED
      BY <3>1
  <2> QED
    BY <2>2, <2>8, <2>9
<1> QED
  BY <1>6, <1>16, <1>17 DEF path, n, H

LEMMA OriginsSequenced ==
  ASSUME dump \in Dumps, decoded = Decode(dump)
  PROVE  OriginsAreSequenced
<1>1. DumpShape(dump)
  BY DumpHasShape
<1>2. PICK rec, part, nth : DumpSpots(dump, rec, part, nth)
  BY <1>1, DumpSources
<1>3. Placed(dump, rec, part, nth)
  BY <1>1, <1>2, DumpPlaced
<1> SUFFICES ASSUME NEW k \in DOMAIN dump, NEW i \in Updates(k), decoded[i].kind = "announce"
             PROVE  LET segs == Segments(dump[k].attrs)
                        ends == segs[Len(segs)]
                    IN  /\ decoded[i].origin # NoAS => segs # <<>> /\ ~ends.set
                        /\ segs # <<>> /\ ~ends.set /\ ends.as # <<>> =>
                             decoded[i].origin = ends.as[Len(ends.as)]
                        /\ Len(decoded[i].path)
                             = Cardinality(UNION {{s} \X HopsOf(segs[s]) : s \in DOMAIN segs})
                        /\ decoded[i].hasASSet <=> \E s \in DOMAIN segs : segs[s].set
  BY DEF OriginsAreSequenced, HopsOf
<1> DEFINE segs == Segments(dump[k].attrs)
           ends == segs[Len(segs)]
           path == Flat(segs)
<1>4. i \in 1 .. Len(decoded) /\ rec[i] = k
  BY <1>3 DEF Updates, Placed
<1>5. PartKind(dump[k], part[i]) = "announce"
  BY <1>3, <1>4 DEF Placed
<1>6. \E p : decoded[i] = EventOf(k, dump[k], "announce", p)
  BY <1>2, <1>4, <1>5 DEF DumpSpots
<1>7. /\ decoded[i].path = path
      /\ decoded[i].hasASSet = HasASSet(segs)
      /\ decoded[i].origin = OriginAS(path, LastWasSet(segs))
  BY <1>6 DEF EventOf
<1>8. IsSeq(segs) /\ \A s \in DOMAIN segs : IsSeq(segs[s].as)
  BY SegmentsShape
<1> HIDE DEF segs
<1>9. /\ Len(path) = Cardinality(UNION {{s} \X HopsOf(segs[s]) : s \in DOMAIN segs})
      /\ segs = <<>> => path = <<>>
      /\ segs # <<>> /\ ~ends.set /\ ends.as # <<>> =>
           path # <<>> /\ path[Len(path)] = ends.as[Len(ends.as)]
  BY <1>8, FlatHops
<1>10. decoded[i].origin # NoAS => segs # <<>> /\ ~ends.set
  BY <1>7, <1>9 DEF OriginAS, LastWasSet
<1>11. segs # <<>> /\ ~ends.set /\ ends.as # <<>> => decoded[i].origin = ends.as[Len(ends.as)]
  BY <1>7, <1>9 DEF OriginAS, LastWasSet
<1>12. decoded[i].hasASSet <=> \E s \in DOMAIN segs : segs[s].set
  BY <1>7 DEF HasASSet
<1> HIDE DEF ends, path
<1>13. Len(decoded[i].path) = Cardinality(UNION {{s} \X HopsOf(segs[s]) : s \in DOMAIN segs})
  BY <1>7, <1>9
<1> QED
  BY <1>10, <1>11, <1>12, <1>13 DEF segs, ends

-----------------------------------------------------------------------------
(* The replay                                                              *)

Numbered(u, id) == [u EXCEPT !.id = id]

\* Every update of a dump is numbered zero until it is replayed.
LEMMA Unnumbered ==
  ASSUME NEW d \in Dumps
  PROVE  /\ Len(Decode(d)) \in Nat /\ (Decode(d) # <<>> => Len(Decode(d)) > 0)
         /\ \A i \in 1 .. Len(Decode(d)) : \A id :
              LET u == Numbered(Decode(d)[i], id)
              IN  u.id = id /\ Numbered(u, 0) = Decode(d)[i]
<1>1. DumpShape(d)
  BY DumpHasShape
<1>2. IsSeq(Decode(d))
  BY <1>1, DumpSources
<1>3. Len(Decode(d)) \in Nat
  BY <1>2, SeqShape
<1>4. Decode(d) # <<>> => Len(Decode(d)) > 0
  <2> SUFFICES ASSUME Len(Decode(d)) = 0 PROVE Decode(d) = <<>>
    BY <1>3
  <2> QED
    BY <1>2, EmptySeq DEF IsSeq
<1>5. PICK rec, part, nth : DumpSpots(d, rec, part, nth)
  BY <1>1, DumpSources
<1>6. ASSUME NEW i \in 1 .. Len(Decode(d)), NEW id
      PROVE  LET u == Numbered(Decode(d)[i], id)
             IN  u.id = id /\ Numbered(u, 0) = Decode(d)[i]
  <2>1. \E at, r, kind, p : kind \in UpdateKind /\ Decode(d)[i] = EventOf(at, r, kind, p)
    BY <1>5, KindIsOne DEF DumpSpots
  <2>2. PICK at, r, kind, p : kind \in UpdateKind /\ Decode(d)[i] = EventOf(at, r, kind, p)
    BY <2>1
  <2>3. \E path, set, origin :
          Decode(d)[i] = [id |-> 0, at |-> at, kind |-> kind, prefix |-> p,
                          path |-> path, hasASSet |-> set, origin |-> origin]
    BY <2>2 DEF EventOf, UpdateKind
  <2>4. PICK path, set, origin :
          Decode(d)[i] = [id |-> 0, at |-> at, kind |-> kind, prefix |-> p,
                          path |-> path, hasASSet |-> set, origin |-> origin]
    BY <2>3
  <2> DEFINE u == Numbered(Decode(d)[i], id)
  <2>5. u = [id |-> id, at |-> at, kind |-> kind, prefix |-> p,
             path |-> path, hasASSet |-> set, origin |-> origin]
    BY ONLY <2>4 DEF Numbered
  <2> HIDE DEF u
  <2>6. Numbered(u, 0) = [id |-> 0, at |-> at, kind |-> kind, prefix |-> p,
                          path |-> path, hasASSet |-> set, origin |-> origin]
    BY ONLY <2>5 DEF Numbered
  <2>7. u.id = id
    BY ONLY <2>5
  <2> QED
    BY <2>4, <2>6, <2>7 DEF u
<1> QED
  BY <1>3, <1>4, <1>6

(***************************************************************************)
(* What the replay stands at: after so many whole rounds of the updates of *)
(* its dump, and pos more.                                                 *)
(***************************************************************************)
ReplayInv ==
  /\ dump \in Dumps
  /\ replay \in {"closed", "failed"} => emitted = {} /\ pos = 0 /\ sent = 0
  /\ replay \in {"replaying", "ended"} =>
       /\ decoded = Decode(dump) /\ decoded # <<>>
       /\ pos \in 0 .. Len(decoded)
       /\ \E rounds \in Nat : sent = rounds * Len(decoded) + pos
  /\ replay \in {"closed", "failed", "replaying", "ended"}
  /\ \A u \in emitted :
       /\ u.id = sent
       /\ [u EXCEPT !.id = 0] = decoded[((sent - 1) % Len(decoded)) + 1]

LEMMA ReplayStarts ==
  MrtInit => ReplayInv
  BY DEF MrtInit, ReplayInv

LEMMA OpenKeeps ==
  ASSUME ReplayInv, OpenDump
  PROVE  ReplayInv'
<1>1. dump' \in Dumps /\ emitted' = {} /\ pos' = 0 /\ sent' = 0
  BY DEF ReplayInv, OpenDump
<1>2. CASE replay' = "failed"
  BY <1>1, <1>2 DEF ReplayInv
<1>3. CASE replay' = "replaying" /\ decoded' = Decode(dump) /\ Decode(dump) # <<>>
  <2>1. dump' = dump
    BY DEF OpenDump
  <2>2. decoded' = Decode(dump') /\ decoded' # <<>>
    BY <1>3, <2>1
  <2>3. Len(decoded') \in Nat
    BY <1>1, <2>2, Unnumbered
  <2>4. pos' \in 0 .. Len(decoded') /\ 0 \in Nat /\ sent' = 0 * Len(decoded') + pos'
    BY <1>1, <2>3
  <2> QED
    BY <1>1, <1>3, <2>2, <2>4 DEF ReplayInv
<1> QED
  BY <1>2, <1>3 DEF OpenDump

LEMMA NextKeeps ==
  ASSUME ReplayInv, ReplayNext
  PROVE  ReplayInv'
<1> DEFINE l == Len(decoded)
<1>1. /\ replay = "replaying" /\ pos < l /\ pos' = pos + 1 /\ sent' = sent + 1
      /\ emitted' = {[decoded[pos + 1] EXCEPT !.id = sent + 1]}
      /\ dump' = dump /\ replay' = replay /\ decoded' = decoded
  BY DEF ReplayNext
<1>2. dump \in Dumps /\ decoded = Decode(dump) /\ decoded # <<>> /\ pos \in 0 .. l
  BY <1>1 DEF ReplayInv
<1>3. PICK rounds \in Nat : sent = rounds * l + pos
  BY <1>1 DEF ReplayInv
<1>4. l \in Nat /\ l > 0
  BY <1>2, Unnumbered
<1>5. LET u == Numbered(decoded[pos + 1], sent + 1)
      IN  u.id = sent + 1 /\ Numbered(u, 0) = decoded[pos + 1]
  <2>1. pos + 1 \in 1 .. l
    BY <1>1, <1>2, <1>4
  <2>2. \A i \in 1 .. Len(decoded) : \A id :
          LET u == Numbered(decoded[i], id)
          IN  u.id = id /\ Numbered(u, 0) = decoded[i]
    BY <1>2, Unnumbered
  <2> QED
    BY <2>1, <2>2
<1> HIDE DEF l
<1>6. pos \in 0 .. l - 1 /\ (rounds * l + pos) % l = pos
  <2>1. pos \in 0 .. l - 1
    BY <1>1, <1>2, <1>4
  <2> QED
    BY ONLY <1>3, <1>4, <2>1
<1>7. sent \in Nat /\ (sent + 1) - 1 = sent
  <2>1. rounds * l \in Nat
    BY ONLY <1>3, <1>4
  <2> QED
    BY <1>3, <1>6, <2>1, <1>4
<1>8. ((sent' - 1) % l) + 1 = pos + 1
  BY <1>1, <1>3, <1>6, <1>7
<1>9. pos' \in 0 .. l
  BY <1>1, <1>4, <1>6
<1>10. sent' = rounds * l + pos'
  <2>1. rounds * l \in Nat
    BY ONLY <1>3, <1>4
  <2> QED
    BY <1>1, <1>3, <1>4, <1>6, <2>1
<1>11. \A u \in emitted' : u.id = sent' /\ [u EXCEPT !.id = 0] = decoded[((sent' - 1) % l) + 1]
  BY <1>1, <1>5, <1>8 DEF Numbered
<1> QED
  BY <1>1, <1>2, <1>3, <1>9, <1>10, <1>11 DEF ReplayInv, l

LEMMA RoundKeeps ==
  ASSUME ReplayInv, RoundOver
  PROVE  ReplayInv'
<1> DEFINE l == Len(decoded)
<1>1. /\ replay = "replaying" /\ pos = l
      /\ dump' = dump /\ decoded' = decoded /\ sent' = sent /\ emitted' = emitted
  BY DEF RoundOver
<1>2. dump \in Dumps /\ decoded = Decode(dump) /\ decoded # <<>> /\ pos \in 0 .. l
  BY <1>1 DEF ReplayInv
<1>3. PICK rounds \in Nat : sent = rounds * l + pos
  BY <1>1 DEF ReplayInv
<1>4. l \in Nat
  BY <1>2, Unnumbered
<1>5. \A u \in emitted : u.id = sent /\ [u EXCEPT !.id = 0] = decoded[((sent - 1) % l) + 1]
  BY DEF ReplayInv
<1> HIDE DEF l
<1>6. CASE pos' = 0 /\ replay' = replay
  <2>1. rounds + 1 \in Nat /\ (rounds + 1) * l + 0 = rounds * l + l
    BY ONLY <1>3, <1>4
  <2>2. sent' = (rounds + 1) * l + pos'
    BY <1>1, <1>3, <1>6, <2>1
  <2>3. pos' \in 0 .. l
    BY <1>4, <1>6
  <2> QED
    BY <1>1, <1>2, <1>5, <1>6, <2>1, <2>2, <2>3 DEF ReplayInv, l
<1>7. CASE replay' = "ended" /\ pos' = pos
  BY <1>1, <1>2, <1>3, <1>5, <1>7 DEF ReplayInv, l
<1> QED
  BY <1>6, <1>7 DEF RoundOver

LEMMA ReplayStutters ==
  ASSUME ReplayInv, UNCHANGED mrtVars
  PROVE  ReplayInv'
  BY DEF ReplayInv, mrtVars

LEMMA ReplayShows ==
  ASSUME ReplayInv
  PROVE  ReplayIsTheDump
<1>1. ASSUME replay \in {"replaying", "ended"}
      PROVE  EachNlriOnce /\ ReplacedIsAnnounced /\ OriginsAreSequenced
  <2>1. dump \in Dumps /\ decoded = Decode(dump)
    BY <1>1 DEF ReplayInv
  <2> QED
    BY <2>1, EachOnce, ReplacedEndsAnnounced, OriginsSequenced
<1> QED
  BY <1>1 DEF ReplayInv, ReplayIsTheDump

(***************************************************************************)
(* Whatever the dumps may hold, in every state of every replay: each       *)
(* prefix an UPDATE names is one update in the order of the dump, a        *)
(* replaced route ends announced, an origin is the last AS of a sequence,  *)
(* and each round repeats the updates while their numbers go on            *)
(* (parser.go: recordToEvents, originAS; replay.go: Events).               *)
(***************************************************************************)
THEOREM ReplayAlwaysTheDump == MrtSpec => []ReplayIsTheDump
<1>1. MrtInit => ReplayInv
  BY ReplayStarts
<1>2. ReplayInv /\ [MrtNext]_mrtVars => ReplayInv'
  BY OpenKeeps, NextKeeps, RoundKeeps, ReplayStutters DEF MrtNext
<1>3. ReplayInv => ReplayIsTheDump
  BY ReplayShows
<1> QED
  BY <1>1, <1>2, <1>3, PTL DEF MrtSpec

-----------------------------------------------------------------------------
(* The bytes of an RTR connection                                          *)

Bytes(ms) == [k \in DOMAIN ms |-> ms[k].bytes]

LEMMA BytesType ==
  ASSUME NEW ms \in Seq(Messages)
  PROVE  /\ Bytes(ms) \in Seq(Seq(Byte)) /\ Len(Bytes(ms)) = Len(ms)
         /\ \A k \in 1 .. Len(ms) : Bytes(ms)[k] = ms[k].bytes
<1>1. Len(ms) \in Nat /\ DOMAIN ms = 1 .. Len(ms) /\ \A k \in 1 .. Len(ms) : ms[k] \in Messages
  BY LenProperties
<1>2. \A k \in 1 .. Len(ms) : ms[k].bytes \in Seq(Byte)
  BY <1>1, RtrWireAssumption
<1>3. Bytes(ms) \in [1 .. Len(ms) -> Seq(Byte)]
  BY <1>1, <1>2 DEF Bytes
<1>4. Bytes(ms) \in Seq(Seq(Byte))
  BY <1>1, <1>3
<1>5. Len(Bytes(ms)) = Len(ms)
  BY <1>1, <1>3
<1> QED
  BY <1>1, <1>4, <1>5 DEF Bytes

LEMMA BytesAppend ==
  ASSUME NEW ms \in Seq(Messages), NEW m \in Messages
  PROVE  FlattenSeq(Bytes(Append(ms, m))) = FlattenSeq(Bytes(ms)) \o m.bytes
<1> DEFINE b == Bytes(ms)
           a == Bytes(Append(ms, m))
           x == m.bytes
<1>1. x \in Seq(Byte)
  BY RtrWireAssumption
<1>2. b \in Seq(Seq(Byte)) /\ Len(b) = Len(ms) /\ \A k \in 1 .. Len(ms) : b[k] = ms[k].bytes
  BY BytesType
<1>3. /\ Append(ms, m) \in Seq(Messages) /\ Len(Append(ms, m)) = Len(ms) + 1 /\ Len(ms) \in Nat
      /\ Append(ms, m)[Len(ms) + 1] = m
      /\ \A k \in 1 .. Len(ms) : Append(ms, m)[k] = ms[k]
  BY AppendProperties, LenProperties
<1>4. /\ a \in Seq(Seq(Byte)) /\ Len(a) = Len(ms) + 1
      /\ \A k \in 1 .. Len(ms) + 1 : a[k] = Append(ms, m)[k].bytes
  BY <1>3, BytesType
<1> HIDE DEF a, b, x
<1>5. a[Len(ms) + 1] = x /\ \A k \in 1 .. Len(ms) : a[k] = b[k]
  <2>1. Len(ms) + 1 \in 1 .. Len(ms) + 1 /\ \A k \in 1 .. Len(ms) : k \in 1 .. Len(ms) + 1
    BY <1>3
  <2> QED
    BY <1>2, <1>3, <1>4, <2>1 DEF x
<1>6. /\ Append(b, x) \in Seq(Seq(Byte)) /\ Len(Append(b, x)) = Len(b) + 1
      /\ Append(b, x)[Len(b) + 1] = x
      /\ \A k \in 1 .. Len(b) : Append(b, x)[k] = b[k]
  BY <1>1, <1>2, AppendProperties
<1>7. a = Append(b, x)
  <2>1. \A k \in 1 .. Len(a) : a[k] = Append(b, x)[k]
    BY <1>2, <1>3, <1>4, <1>5, <1>6
  <2>2. Len(a) = Len(Append(b, x))
    BY <1>2, <1>4, <1>6
  <2> QED
    BY <1>4, <1>6, <2>1, <2>2, SeqEqual
<1>8. FlattenSeq(Append(b, x)) = FlattenSeq(b) \o x
  BY <1>1, <1>2, FlattenAppend
<1> QED
  BY <1>7, <1>8 DEF a, b, x

LEMMA BytesHead ==
  ASSUME NEW ms \in Seq(Messages), ms # <<>>
  PROVE  /\ FlattenSeq(Bytes(ms)) = Head(ms).bytes \o FlattenSeq(Bytes(Tail(ms)))
         /\ Head(ms) \in Messages /\ Tail(ms) \in Seq(Messages)
<1> DEFINE b == Bytes(ms)
           t == Bytes(Tail(ms))
<1>1. /\ Head(ms) \in Messages /\ Tail(ms) \in Seq(Messages) /\ Len(Tail(ms)) = Len(ms) - 1
      /\ Head(ms) = ms[1] /\ Len(ms) \in Nat /\ Len(ms) >= 1
      /\ \A k \in 1 .. Len(ms) - 1 : Tail(ms)[k] = ms[k + 1]
  BY HeadTailProperties, EmptySeq, LenProperties
<1>2. b \in Seq(Seq(Byte)) /\ Len(b) = Len(ms) /\ \A k \in 1 .. Len(ms) : b[k] = ms[k].bytes
  BY BytesType
<1>3. /\ t \in Seq(Seq(Byte)) /\ Len(t) = Len(ms) - 1
      /\ \A k \in 1 .. Len(ms) - 1 : t[k] = Tail(ms)[k].bytes
  BY <1>1, BytesType
<1> HIDE DEF b, t
<1>4. b # <<>> /\ b[1] = Head(ms).bytes
  BY <1>1, <1>2, EmptySeq
<1>5. /\ Tail(b) \in Seq(Seq(Byte)) /\ Len(Tail(b)) = Len(b) - 1
      /\ \A k \in 1 .. Len(b) - 1 : Tail(b)[k] = b[k + 1]
  BY <1>2, <1>4, HeadTailProperties
<1>6. \A k \in 1 .. Len(t) : t[k] = Tail(b)[k]
  <2> TAKE k \in 1 .. Len(t)
  <2>1. k \in 1 .. Len(ms) - 1 /\ k + 1 \in 1 .. Len(ms)
    BY <1>1, <1>3
  <2>2. t[k] = Tail(ms)[k].bytes /\ Tail(ms)[k] = ms[k + 1]
    BY <1>1, <1>3, <2>1
  <2>3. Tail(b)[k] = b[k + 1] /\ b[k + 1] = ms[k + 1].bytes
    BY <1>2, <1>5, <2>1
  <2> QED
    BY <2>2, <2>3
<1>7. t = Tail(b)
  <2>1. Len(t) = Len(Tail(b))
    BY <1>2, <1>3, <1>5
  <2> QED
    BY <1>3, <1>5, <1>6, <2>1, SeqEqual
<1>8. FlattenSeq(b) = b[1] \o FlattenSeq(Tail(b))
  BY <1>2, <1>4, FlattenHead
<1> QED
  BY <1>1, <1>4, <1>7, <1>8 DEF b, t

(***************************************************************************)
(* A whole message at the head of a connection is read as if it were alone *)
(* there, and what follows it is what is left (codec.go: readPDU).         *)
(***************************************************************************)
LEMMA ReadAtHead ==
  ASSUME NEW b \in Seq(Byte), NEW rest \in Seq(Byte), Needed(b) = Len(b)
  PROVE  LET w == b \o rest
         IN  /\ Needed(w) = Len(b) /\ Decoded(w) = Decoded(b)
             /\ Len(w) >= Needed(w) /\ Part(w, Needed(w), Len(w) - Needed(w)) = rest
<1> DEFINE w == b \o rest
<1>1. /\ w \in Seq(Byte) /\ Len(w) = Len(b) + Len(rest) /\ Len(b) \in Nat /\ Len(rest) \in Nat
      /\ \A k \in 1 .. Len(b) : w[k] = b[k]
      /\ \A k \in 1 .. Len(rest) : w[Len(b) + k] = rest[k]
  BY ConcatProperties, LenProperties
<1>2. \A k \in 1 .. Len(b) : b[k] \in Byte
  BY ElementOfSeq
<1> HIDE DEF w
<1>3. Len(b) >= HeaderLen
  <2>1. CASE Len(b) < HeaderLen
    <3>1. Needed(b) = HeaderLen
      BY <2>1 DEF Needed
    <3> QED
      BY <3>1 DEF HeaderLen
  <2> QED
    BY <1>1, <2>1 DEF HeaderLen
<1>4. \A k \in 1 .. 8 : w[k] = b[k]
  BY <1>1, <1>3 DEF HeaderLen
<1>5. Length(w) = Length(b) /\ U16At(w, 2) = U16At(b, 2) /\ w[2] = b[2]
  BY <1>4 DEF Length, U32At, U16At
<1>6. LengthOK(w) <=> LengthOK(b)
  BY <1>5 DEF LengthOK
<1>7. Needed(w) = Needed(b)
  BY <1>1, <1>3, <1>5, <1>6 DEF Needed, HeaderLen
<1>8. Decoded(w) = Decoded(b)
  <2>1. CASE ~LengthOK(b)
    BY <1>6, <2>1 DEF Decoded
  <2>2. CASE LengthOK(b)
    <3>1. Length(b) = Len(b)
      BY <1>3, <2>2 DEF Needed, HeaderLen
    <3> DEFINE n == Len(b) - 8
    <3>2. n \in Nat
      BY <1>1, <1>3 DEF HeaderLen
    <3>3. Part(w, 8, n) = Part(b, 8, n)
      <4>1. 9 \in Int /\ 8 + n \in Int
        BY <3>2
      <4>2. \A k \in 9 .. 8 + n : k \in 1 .. Len(b)
        BY <1>1, <3>2
      <4>3. /\ SubSeq(b, 9, 8 + n) \in Seq(Byte) /\ Len(SubSeq(b, 9, 8 + n)) = n
            /\ \A k \in 1 .. n : SubSeq(b, 9, 8 + n)[k] = b[8 + k]
        <5>1. \A k \in 9 .. 8 + n : b[k] \in Byte
          BY <1>2, <4>2
        <5> HIDE DEF n
        <5>2. /\ SubSeq(b, 9, 8 + n) \in Seq(Byte)
              /\ Len(SubSeq(b, 9, 8 + n)) = IF 9 <= 8 + n THEN (8 + n) - 9 + 1 ELSE 0
              /\ \A k \in 1 .. (8 + n) - 9 + 1 : SubSeq(b, 9, 8 + n)[k] = b[9 + k - 1]
          BY <4>1, <5>1, SubSeqProperties
        <5>3. Len(SubSeq(b, 9, 8 + n)) = n
          BY <3>2, <5>2
        <5>4. \A k \in 1 .. n : k \in 1 .. (8 + n) - 9 + 1 /\ 9 + k - 1 = 8 + k
          BY <3>2
        <5> QED
          BY <5>2, <5>3, <5>4
      <4>4. /\ SubSeq(w, 9, 8 + n) \in Seq(Byte) /\ Len(SubSeq(w, 9, 8 + n)) = n
            /\ \A k \in 1 .. n : SubSeq(w, 9, 8 + n)[k] = w[8 + k]
        <5>1. \A k \in 9 .. 8 + n : w[k] \in Byte
          BY <1>1, <1>2, <4>2
        <5> HIDE DEF n
        <5>2. /\ SubSeq(w, 9, 8 + n) \in Seq(Byte)
              /\ Len(SubSeq(w, 9, 8 + n)) = IF 9 <= 8 + n THEN (8 + n) - 9 + 1 ELSE 0
              /\ \A k \in 1 .. (8 + n) - 9 + 1 : SubSeq(w, 9, 8 + n)[k] = w[9 + k - 1]
          BY <4>1, <5>1, SubSeqProperties
        <5>3. Len(SubSeq(w, 9, 8 + n)) = n
          BY <3>2, <5>2
        <5>4. \A k \in 1 .. n : k \in 1 .. (8 + n) - 9 + 1 /\ 9 + k - 1 = 8 + k
          BY <3>2
        <5> QED
          BY <5>2, <5>3, <5>4
      <4>5. \A k \in 1 .. n : w[8 + k] = b[8 + k]
        BY <1>1, <3>2
      <4> DEFINE p == SubSeq(b, 9, 8 + n)
                 q == SubSeq(w, 9, 8 + n)
      <4> HIDE DEF p, q
      <4>6. p \in Seq(Byte) /\ q \in Seq(Byte) /\ Len(p) = n /\ Len(q) = n
        BY <4>3, <4>4 DEF p, q
      <4>7. \A k \in 1 .. n : p[k] = q[k]
        BY <4>3, <4>4, <4>5 DEF p, q
      <4>8. p = q
        <5> HIDE DEF n
        <5> QED
          BY <4>6, <4>7, SeqEqual
      <4> QED
        BY <4>8 DEF p, q, Part
    <3> QED
      BY <1>5, <1>6, <2>2, <3>1, <3>3 DEF Decoded, HeaderLen
  <2> QED
    BY <2>1, <2>2
<1>9. Part(w, Len(b), Len(w) - Len(b)) = rest
  <2> DEFINE n == Len(b)
             m == Len(rest)
  <2>1. Len(w) - n = m
    BY <1>1
  <2>2. n \in Nat /\ m \in Nat /\ \A k \in 1 .. m : rest[k] \in Byte /\ w[n + k] = rest[k]
    BY <1>1, ElementOfSeq
  <2> HIDE DEF n, m
  <2>3. \A k \in n + 1 .. n + m : w[k] \in Byte
    <3> TAKE k \in n + 1 .. n + m
    <3>1. k - n \in 1 .. m /\ n + (k - n) = k
      BY <2>2
    <3> QED
      BY <2>2, <3>1
  <2> DEFINE q == SubSeq(w, n + 1, n + m)
  <2>4. /\ q \in Seq(Byte)
        /\ Len(q) = IF n + 1 <= n + m THEN (n + m) - (n + 1) + 1 ELSE 0
        /\ \A k \in 1 .. (n + m) - (n + 1) + 1 : q[k] = w[(n + 1) + k - 1]
    <3>1. n + 1 \in Int /\ n + m \in Int
      BY <2>2
    <3> QED
      BY <2>3, <3>1, SubSeqProperties
  <2> HIDE DEF q
  <2>5. Len(q) = m
    BY <2>2, <2>4
  <2>6. \A k \in 1 .. m : q[k] = rest[k]
    <3> TAKE k \in 1 .. m
    <3>1. k \in 1 .. (n + m) - (n + 1) + 1 /\ (n + 1) + k - 1 = n + k
      BY <2>2
    <3> QED
      BY <2>2, <2>4, <3>1
  <2>7. q = rest
    BY <2>4, <2>5, <2>6, SeqEqual DEF m
  <2> QED
    BY <2>1, <2>7 DEF Part, n, q
<1> QED
  BY <1>1, <1>7, <1>8, <1>9 DEF w

-----------------------------------------------------------------------------

WireInv ==
  /\ unread \in Seq(Messages) /\ aligned \in BOOLEAN
  /\ ReadsWhatWasSent

LEMMA WireInitInv == WireInit => WireInv
<1> SUFFICES ASSUME WireInit PROVE WireInv
  OBVIOUS
<1>1. unread = <<>> /\ wire = <<>> /\ aligned = TRUE /\ returned = {}
  BY DEF WireInit
<1>2. unread \in Seq(Messages)
  BY <1>1
<1>3. [k \in DOMAIN unread |-> unread[k].bytes] = <<>>
  BY <1>1
<1>4. ReadsWhatWasSent
  BY <1>1, <1>3, FlattenNothing DEF ReadsWhatWasSent
<1> QED
  BY <1>1, <1>2, <1>4 DEF WireInv

LEMMA HoldsWhatIsUnread ==
  ReadsWhatWasSent <=> /\ aligned => wire = FlattenSeq(Bytes(unread))
                       /\ \A r \in returned : r[1] = r[2]
  BY DEF ReadsWhatWasSent, Bytes

LEMMA SendStep ==
  ASSUME WireInv, NEW m \in Messages, PeerSends(m)
  PROVE  WireInv'
<1>1. unread \in Seq(Messages) /\ aligned \in BOOLEAN
  BY DEF WireInv
<1>2. /\ unread' = Append(unread, m) /\ wire' = wire \o m.bytes
      /\ aligned' = aligned /\ returned' = returned
  BY DEF PeerSends
<1>3. unread' \in Seq(Messages)
  BY <1>1, <1>2, AppendProperties
<1>4. /\ aligned => wire = FlattenSeq(Bytes(unread))
      /\ \A r \in returned : r[1] = r[2]
  BY HoldsWhatIsUnread DEF WireInv
<1>5. aligned => wire' = FlattenSeq(Bytes(Append(unread, m)))
  BY <1>1, <1>2, <1>4, BytesAppend
<1>6. ReadsWhatWasSent'
  BY <1>2, <1>4, <1>5 DEF ReadsWhatWasSent, Bytes
<1> QED
  BY <1>1, <1>2, <1>3, <1>6 DEF WireInv

LEMMA FlatBytesType ==
  ASSUME NEW ms \in Seq(Messages)
  PROVE  FlattenSeq(Bytes(ms)) \in Seq(Byte)
<1>1. Bytes(ms) \in Seq(Seq(Byte))
  BY BytesType
<1>2. CASE Bytes(ms) = <<>>
  BY <1>2, FlattenNothing, EmptySeq
<1>3. CASE Bytes(ms) # <<>>
  BY <1>1, <1>3, FlattenedType
<1> QED
  BY <1>2, <1>3

LEMMA ReadStep ==
  ASSUME WireInv, ReadPDU
  PROVE  WireInv'
<1>1. unread \in Seq(Messages) /\ aligned \in BOOLEAN
  BY DEF WireInv
<1>2. /\ Len(wire) >= Needed(wire) /\ aligned' = aligned
      /\ wire' = Part(wire, Needed(wire), Len(wire) - Needed(wire))
      /\ unread' = IF aligned THEN Tail(unread) ELSE unread
      /\ returned' = IF aligned THEN {<<Head(unread).means, Decoded(wire)>>} ELSE {}
  BY DEF ReadPDU, Returns
<1>3. CASE ~aligned
  <2>1. unread' = unread /\ returned' = {} /\ aligned' = FALSE
    BY <1>1, <1>2, <1>3
  <2> QED
    BY <1>1, <2>1 DEF WireInv, ReadsWhatWasSent
<1>4. CASE aligned
  <2>1. wire = FlattenSeq(Bytes(unread))
    BY <1>4, HoldsWhatIsUnread DEF WireInv
  <2>2. unread # <<>>
    <3> SUFFICES ASSUME unread = <<>> PROVE FALSE
      OBVIOUS
    <3>1. Bytes(unread) = <<>>
      BY DEF Bytes
    <3>2. wire = <<>> /\ Len(wire) = 0
      BY <2>1, <3>1, FlattenNothing
    <3> QED
      BY <1>2, <3>2 DEF Needed, HeaderLen, LengthOK
  <2> DEFINE b == Head(unread).bytes
             rest == FlattenSeq(Bytes(Tail(unread)))
  <2>3. wire = b \o rest /\ Head(unread) \in Messages /\ Tail(unread) \in Seq(Messages)
    BY <1>1, <2>1, <2>2, BytesHead
  <2>4. b \in Seq(Byte) /\ Needed(b) = Len(b) /\ Decoded(b) = Head(unread).means
    BY <2>3, RtrWireAssumption, MessagesAreWhole
  <2>5. rest \in Seq(Byte)
    BY <2>3, FlatBytesType
  <2> HIDE DEF b, rest
  <2>6. Decoded(wire) = Decoded(b) /\ Part(wire, Needed(wire), Len(wire) - Needed(wire)) = rest
    BY <2>3, <2>4, <2>5, ReadAtHead
  <2>7. /\ unread' = Tail(unread) /\ aligned' = TRUE /\ wire' = rest
        /\ returned' = {<<Head(unread).means, Decoded(b)>>}
    BY <1>2, <1>4, <2>6
  <2>8. wire' = FlattenSeq(Bytes(Tail(unread)))
    BY <2>7 DEF rest
  <2>9. ReadsWhatWasSent'
    <3>1. \A r \in returned' : r[1] = r[2]
      BY <2>4, <2>7
    <3> QED
      BY <2>7, <2>8, <3>1 DEF ReadsWhatWasSent, Bytes
  <2> QED
    BY <2>3, <2>7, <2>9 DEF WireInv
<1> QED
  BY <1>1, <1>3, <1>4

LEMMA TimeoutStep ==
  ASSUME WireInv, NEW k \in 0 .. Len(wire), ReadTimesOut(k)
  PROVE  WireInv'
<1>1. unread \in Seq(Messages) /\ aligned \in BOOLEAN
  BY DEF WireInv
<1>2. unread' = unread /\ returned' = returned
  BY DEF ReadTimesOut
<1>3. CASE ~synced
  <2>1. wire' = wire /\ aligned' = aligned
    BY <1>3 DEF ReadTimesOut
  <2> QED
    BY <1>2, <2>1 DEF WireInv, ReadsWhatWasSent
<1>4. CASE synced
  <2>1. wire' = Part(wire, k, Len(wire) - k) /\ aligned' = (aligned /\ k = 0)
    BY <1>4 DEF ReadTimesOut
  <2>2. CASE aligned /\ k = 0
    <3>1. wire = FlattenSeq(Bytes(unread))
      BY <2>2, HoldsWhatIsUnread DEF WireInv
    <3>2. wire \in Seq(Byte)
      BY <1>1, <3>1, FlatBytesType
    <3>3. Part(wire, 0, Len(wire) - 0) = wire
      <4>1. Len(wire) \in Nat
        BY <3>2, LenProperties
      <4>2. 0 + 1 = 1 /\ 0 + (Len(wire) - 0) = Len(wire)
        BY <4>1
      <4>3. SubSeq(wire, 1, Len(wire)) = wire
        BY <3>2, SubSeqFull
      <4> QED
        BY <4>2, <4>3 DEF Part
    <3>4. wire' = wire /\ aligned' = aligned
      BY <1>1, <2>1, <2>2, <3>3
    <3> QED
      BY <1>2, <3>4 DEF WireInv, ReadsWhatWasSent
  <2>3. CASE ~(aligned /\ k = 0)
    <3>1. aligned' = FALSE
      BY <1>1, <2>1, <2>3
    <3> QED
      BY <1>2, <3>1 DEF WireInv, ReadsWhatWasSent
  <2> QED
    BY <2>2, <2>3
<1> QED
  BY <1>3, <1>4

LEMMA WireStepInv == WireInv /\ [WireNext]_wireVars => WireInv'
<1> SUFFICES ASSUME WireInv, [WireNext]_wireVars PROVE WireInv'
  OBVIOUS
<1>1. CASE UNCHANGED wireVars
  BY <1>1 DEF wireVars, WireInv, ReadsWhatWasSent
<1>2. ASSUME NEW m \in Messages, PeerSends(m) PROVE WireInv'
  BY <1>2, SendStep
<1>3. CASE ReadPDU
  BY <1>3, ReadStep
<1>4. ASSUME NEW k \in 0 .. Len(wire), ReadTimesOut(k) PROVE WireInv'
  BY <1>4, TimeoutStep
<1>5. CASE WireEnded
  BY <1>1, <1>5 DEF WireEnded
<1> QED
  BY <1>1, <1>2, <1>3, <1>4, <1>5 DEF WireNext

(***************************************************************************)
(* Whatever messages a cache sends and wherever the read deadline passes,  *)
(* what is read is what was sent until a PDU is cut in two (codec.go:      *)
(* readPDU).                                                               *)
(***************************************************************************)
THEOREM WireAlwaysReadsWhatWasSent == WireSpec => []ReadsWhatWasSent
<1>1. WireInv => ReadsWhatWasSent
  BY DEF WireInv
<1> QED
  BY <1>1, WireInitInv, WireStepInv, PTL DEF WireSpec

-----------------------------------------------------------------------------
(* What is encoded reads back                                              *)

LEMMA BytesJoined ==
  ASSUME NEW s \in Seq(Byte), NEW t \in Seq(Byte)
  PROVE  /\ s \o t \in Seq(Byte) /\ Len(s \o t) = Len(s) + Len(t)
         /\ \A i \in 1 .. Len(s) : (s \o t)[i] = s[i]
         /\ \A i \in 1 .. Len(t) : (s \o t)[Len(s) + i] = t[i]
<1>1. /\ s \o t \in Seq(Byte) /\ Len(s \o t) = Len(s) + Len(t)
      /\ \A i \in 1 .. Len(s) + Len(t) : (s \o t)[i] = IF i <= Len(s) THEN s[i] ELSE t[i - Len(s)]
      /\ Len(s) \in Nat /\ Len(t) \in Nat
  BY ConcatProperties, LenProperties
<1>2. \A i \in 1 .. Len(s) : i \in 1 .. Len(s) + Len(t) /\ i <= Len(s)
  BY <1>1
<1>3. \A i \in 1 .. Len(t) :
        /\ Len(s) + i \in 1 .. Len(s) + Len(t) /\ ~(Len(s) + i <= Len(s))
        /\ (Len(s) + i) - Len(s) = i
  BY <1>1
<1> QED
  BY <1>1, <1>2, <1>3

LEMMA FourBytes ==
  ASSUME NEW n \in Nat, n < Huge
  PROVE  /\ U32(n) \in Seq(Byte) /\ Len(U32(n)) = 4
         /\ U32(n)[1] < 64
         /\ n = 256 * (256 * (256 * U32(n)[1] + U32(n)[2]) + U32(n)[3]) + U32(n)[4]
<1> DEFINE a == n \div (256 * 256 * 256)
           b == n \div (256 * 256)
           c == n \div 256
<1>1. c \in Nat /\ b = c \div 256 /\ a = b \div 256 /\ c < 64 * 256 * 256
  BY SMTT(40) DEF Huge
<1>2. U32(n) = <<a, b % 256, c % 256, n % 256>>
  BY SMTT(40) DEF U32
<1>3. n % 256 \in 0 .. 255 /\ n = 256 * c + (n % 256)
  BY SMTT(40)
<1> HIDE DEF a, b, c
<1>4. b \in Nat /\ b < 64 * 256 /\ c % 256 \in 0 .. 255 /\ c = 256 * b + (c % 256)
  BY <1>1, SMTT(40)
<1>5. a \in Nat /\ a < 64 /\ b % 256 \in 0 .. 255 /\ b = 256 * a + (b % 256)
  BY <1>1, <1>4, SMTT(40)
<1>6. U32(n) \in Seq(Byte) /\ Len(U32(n)) = 4
  BY <1>2, <1>3, <1>4, <1>5 DEF Byte
<1>7. U32(n)[1] = a /\ U32(n)[2] = b % 256 /\ U32(n)[3] = c % 256 /\ U32(n)[4] = n % 256
  BY <1>2
<1>8. n = 256 * (256 * (256 * a + (b % 256)) + (c % 256)) + (n % 256)
  <2> DEFINE x == b % 256
             y == c % 256
             z == n % 256
  <2>1. z \in Int /\ n = 256 * c + z
    BY <1>3
  <2>2. y \in Int /\ c = 256 * b + y
    BY <1>4
  <2>3. x \in Int /\ b = 256 * a + x
    BY <1>5
  <2> HIDE DEF x, y, z
  <2>4. n = 256 * (256 * (256 * a + x) + y) + z
    BY ONLY <2>1, <2>2, <2>3
  <2> QED
    BY <2>4 DEF x, y, z
<1> QED
  BY <1>5, <1>6, <1>7, <1>8

LEMMA ReadsNumber ==
  ASSUME NEW n \in Nat, n < Huge, NEW b, NEW k \in Nat,
         \A i \in 1 .. 4 : b[k + i] = U32(n)[i]
  PROVE  U32At(b, k) = n
<1>1. /\ b[k + 1] = U32(n)[1] /\ b[k + 2] = U32(n)[2]
      /\ b[k + 3] = U32(n)[3] /\ b[k + 4] = U32(n)[4]
  OBVIOUS
<1>2. ~(b[k + 1] >= 64)
  <2>1. U32(n)[1] < 64 /\ U32(n)[1] \in Byte
    BY FourBytes, ElementOfSeq
  <2> QED
    BY <1>1, <2>1 DEF Byte
<1> QED
  BY <1>1, <1>2, FourBytes DEF U32At

LEMMA HeaderShape ==
  ASSUME NEW type \in Byte, NEW session \in Nat, session < 256 * 256, NEW length \in Nat, length < Huge
  PROVE  LET h == PutHeader(type, session, length)
         IN  /\ h \in Seq(Byte) /\ Len(h) = 8 /\ h[2] = type
             /\ U16At(h, 2) = session /\ \A i \in 1 .. 4 : h[4 + i] = U32(length)[i]
<1> DEFINE l == U32(length)
           h == PutHeader(type, session, length)
           s == U16(session)
           x == <<ProtocolVersion, type>>
<1>1. l \in Seq(Byte) /\ Len(l) = 4
  BY FourBytes
<1>2. /\ s \in Seq(Byte) /\ Len(s) = 2 /\ 256 * s[1] + s[2] = session
      /\ x \in Seq(Byte) /\ Len(x) = 2 /\ x[2] = type
  <2>1. session \div 256 \in Byte /\ session % 256 \in Byte
        /\ 256 * (session \div 256) + (session % 256) = session
    BY SMTT(40) DEF Byte
  <2>2. s = <<session \div 256, session % 256>> /\ x = <<1, type>> /\ 1 \in Byte
    BY DEF U16, ProtocolVersion, Byte
  <2> HIDE DEF s, x
  <2>3. s \in Seq(Byte) /\ x \in Seq(Byte)
    BY <2>1, <2>2
  <2> QED
    BY <2>1, <2>2, <2>3
<1>3. h = (x \o s) \o l
  BY DEF PutHeader
<1> HIDE DEF l, s, x, h
<1>4. /\ x \o s \in Seq(Byte) /\ Len(x \o s) = 4 /\ (x \o s)[2] = type
      /\ (x \o s)[3] = s[1] /\ (x \o s)[4] = s[2]
  <2>1. /\ x \o s \in Seq(Byte) /\ Len(x \o s) = Len(x) + Len(s)
        /\ \A i \in 1 .. Len(x) : (x \o s)[i] = x[i]
        /\ \A i \in 1 .. Len(s) : (x \o s)[Len(x) + i] = s[i]
    BY <1>2, BytesJoined
  <2> QED
    BY <1>2, <2>1
<1>5. /\ h \in Seq(Byte) /\ Len(h) = 8 /\ h[2] = type /\ h[3] = s[1] /\ h[4] = s[2]
      /\ \A i \in 1 .. 4 : h[4 + i] = l[i]
  <2> DEFINE y == x \o s
  <2>1. y \in Seq(Byte) /\ Len(y) = 4 /\ h = y \o l
    BY <1>3, <1>4
  <2>2. y[2] = type /\ y[3] = s[1] /\ y[4] = s[2]
    BY <1>4
  <2> HIDE DEF y
  <2>3. /\ y \o l \in Seq(Byte) /\ Len(y \o l) = Len(y) + Len(l)
        /\ \A i \in 1 .. Len(y) : (y \o l)[i] = y[i]
        /\ \A i \in 1 .. Len(l) : (y \o l)[Len(y) + i] = l[i]
    BY <1>1, <2>1, BytesJoined
  <2> QED
    BY <1>1, <2>1, <2>2, <2>3
<1>6. U16At(h, 2) = session
  BY <1>2, <1>5 DEF U16At
<1> QED
  BY <1>5, <1>6 DEF h, l

(***************************************************************************)
(* However long its body, a PDU is taken off the connection to its last    *)
(* byte, and it is that body, type and session that are decoded (codec.go: *)
(* readHeader, readPDU, putHeader).                                        *)
(***************************************************************************)
THEOREM PduIsTakenWhole ==
  ASSUME NEW type \in Byte, NEW session \in Nat, session < 256 * 256, NEW body \in Seq(Byte),
         Len(body) <= MaxPduLen - HeaderLen
  PROVE  /\ Pdu(type, session, body) \in Seq(Byte)
         /\ Needed(Pdu(type, session, body)) = Len(Pdu(type, session, body))
         /\ Decoded(Pdu(type, session, body)) = DecodeBody(type, session, body)
<1> DEFINE n == 8 + Len(body)
           h == PutHeader(type, session, n)
           p == Pdu(type, session, body)
<1>1. Len(body) \in Nat /\ n \in Nat /\ n >= 8 /\ n <= MaxPduLen /\ n < Huge
  BY SMTT(40), LenProperties DEF MaxPduLen, HeaderLen, Huge
<1>2. p = h \o body
  BY DEF Pdu, HeaderLen
<1>3. /\ h \in Seq(Byte) /\ Len(h) = 8 /\ h[2] = type
      /\ U16At(h, 2) = session /\ \A i \in 1 .. 4 : h[4 + i] = U32(n)[i]
  BY <1>1, HeaderShape
<1> HIDE DEF h, p
<1>4. /\ p \in Seq(Byte) /\ Len(p) = n
      /\ \A i \in 1 .. 8 : p[i] = h[i]
      /\ \A i \in 1 .. Len(body) : p[8 + i] = body[i]
  <2>1. /\ h \o body \in Seq(Byte) /\ Len(h \o body) = Len(h) + Len(body)
        /\ \A i \in 1 .. Len(h) : (h \o body)[i] = h[i]
        /\ \A i \in 1 .. Len(body) : (h \o body)[Len(h) + i] = body[i]
    BY <1>3, BytesJoined
  <2> QED
    BY <1>2, <1>3, <2>1
<1>5. Length(p) = n
  <2>1. \A i \in 1 .. 4 : p[4 + i] = U32(n)[i]
    BY <1>3, <1>4
  <2> QED
    BY <1>1, <2>1, ReadsNumber DEF Length
<1> HIDE DEF n
<1>6. LengthOK(p)
  BY <1>1, <1>5 DEF LengthOK, HeaderLen
<1>7. Needed(p) = n
  BY <1>1, <1>4, <1>5, <1>6 DEF Needed, HeaderLen
<1>8. p[2] = type /\ U16At(p, 2) = session
  BY <1>3, <1>4 DEF U16At
<1>9. Part(p, 8, n - 8) = body
  <2>1. n - 8 = Len(body) /\ 8 + (n - 8) = n
    BY <1>1 DEF n
  <2>2. \A i \in 9 .. n : p[i] \in Byte
    BY <1>1, <1>4, ElementOfSeq
  <2> DEFINE q == SubSeq(p, 9, n)
  <2>3. /\ q \in Seq(Byte) /\ Len(q) = (IF 9 <= n THEN n - 9 + 1 ELSE 0)
        /\ \A i \in 1 .. n - 9 + 1 : q[i] = p[9 + i - 1]
    <3>1. 9 \in Int /\ n \in Int
      BY <1>1
    <3> QED
      BY <2>2, <3>1, SubSeqProperties
  <2> HIDE DEF q
  <2>4. Len(q) = Len(body)
    BY <1>1, <2>1, <2>3
  <2>5. \A i \in 1 .. Len(body) : q[i] = body[i]
    <3> TAKE i \in 1 .. Len(body)
    <3>1. i \in 1 .. n - 9 + 1 /\ 9 + i - 1 = 8 + i
      BY <1>1, <2>1
    <3> QED
      BY <1>4, <2>3, <3>1
  <2>6. q = body
    BY <2>3, <2>4, <2>5, SeqEqual
  <2>7. Part(p, 8, n - 8) = q
    <3>1. 8 + 1 = 9
      OBVIOUS
    <3> QED
      BY <2>1, <3>1 DEF Part, q
  <2> QED
    BY <2>6, <2>7
<1>10. Decoded(p) = DecodeBody(type, session, body)
  BY <1>5, <1>6, <1>8, <1>9 DEF Decoded, HeaderLen
<1> QED
  BY <1>4, <1>7, <1>10 DEF p

(***************************************************************************)
(* Every VRP a cache encodes is read back with its host bits cleared, and  *)
(* the rest of it as it was (codec.go: EncodePrefix, decodePrefix).  The   *)
(* numbers are those below 2^30: the model reads all the larger as one.    *)
(***************************************************************************)
THEOREM PrefixReadsBack ==
  ASSUME NEW announce \in BOOLEAN, NEW addr \in Seq(Byte), Len(addr) \in {4, 16},
         NEW len \in 0 .. 8 * Len(addr), NEW maxLen \in Byte, NEW asn \in Nat, asn < Huge
  PROVE  LET e == EncodePrefix(announce, addr, len, maxLen, asn)
         IN  /\ e \in Seq(Byte) /\ Needed(e) = Len(e)
             /\ Decoded(e) = [type |-> "prefix", announce |-> announce,
                              addr |-> MaskBytes(addr, len), len |-> len, maxLen |-> maxLen,
                              asn |-> asn]
<1> DEFINE x == <<IF announce THEN 1 ELSE 0, len, maxLen, 0>>
           n == Len(addr)
           u == U32(asn)
           body == (x \o addr) \o u
           type == IF n = 16 THEN Type.v6 ELSE Type.v4
<1>1. /\ x \in Seq(Byte) /\ Len(x) = 4 /\ x[1] = (IF announce THEN 1 ELSE 0)
      /\ x[2] = len /\ x[3] = maxLen
  <2>1. (IF announce THEN 1 ELSE 0) \in Byte /\ len \in Byte /\ 0 \in Byte
    <3>1. len \in Nat /\ len <= 255
      <4>1. CASE Len(addr) = 4
        BY <4>1
      <4>2. CASE Len(addr) = 16
        BY <4>2
      <4> QED
        BY <4>1, <4>2
    <3> QED
      BY <3>1 DEF Byte
  <2> DEFINE f == IF announce THEN 1 ELSE 0
  <2> HIDE DEF f
  <2>2. x \in Seq(Byte)
    BY <2>1 DEF f
  <2> QED
    BY <2>2
<1>2. u \in Seq(Byte) /\ Len(u) = 4
  BY FourBytes
<1>3. n = 4 \/ n = 16
  OBVIOUS
<1>4. EncodePrefix(announce, addr, len, maxLen, asn) = Pdu(type, 0, body)
  BY DEF EncodePrefix
<1>5. type = IF n = 16 THEN 6 ELSE 4
  BY DEF Type
<1> HIDE DEF x, u, type
<1> DEFINE y == x \o addr
<1>6. /\ y \in Seq(Byte) /\ Len(y) = 4 + n
      /\ \A i \in 1 .. 4 : y[i] = x[i]
      /\ \A i \in 1 .. n : y[4 + i] = addr[i]
  <2>1. /\ y \in Seq(Byte) /\ Len(y) = Len(x) + Len(addr)
        /\ \A i \in 1 .. Len(x) : y[i] = x[i]
        /\ \A i \in 1 .. Len(addr) : y[Len(x) + i] = addr[i]
    BY <1>1, BytesJoined
  <2> HIDE DEF y
  <2> QED
    BY <1>1, <2>1
<1> HIDE DEF y
<1>7. /\ body \in Seq(Byte) /\ Len(body) = 8 + n
      /\ \A i \in 1 .. 4 + n : body[i] = y[i]
      /\ \A i \in 1 .. 4 : body[4 + n + i] = u[i]
  <2>1. /\ y \o u \in Seq(Byte) /\ Len(y \o u) = Len(y) + Len(u)
        /\ \A i \in 1 .. Len(y) : (y \o u)[i] = y[i]
        /\ \A i \in 1 .. Len(u) : (y \o u)[Len(y) + i] = u[i]
    BY <1>2, <1>6, BytesJoined
  <2>2. body = y \o u
    BY DEF y
  <2>3. (4 + n) + 4 = 8 + n
    BY <1>3
  <2> HIDE DEF body, n
  <2> QED
    BY <1>2, <1>6, <2>1, <2>2, <2>3
<1> HIDE DEF body
<1>8. /\ body[1] = (IF announce THEN 1 ELSE 0) /\ body[2] = len /\ body[3] = maxLen
      /\ \A i \in 1 .. n : body[4 + i] = addr[i]
  <2>1. \A i \in 1 .. n : 4 + i \in 1 .. 4 + n
    BY <1>3
  <2>2. 1 \in 1 .. 4 + n /\ 2 \in 1 .. 4 + n /\ 3 \in 1 .. 4 + n
    BY <1>3
  <2> QED
    BY <1>1, <1>6, <1>7, <2>1, <2>2
<1>9. Part(body, 4, n) = addr
  <2> DEFINE q == SubSeq(body, 5, 4 + n)
  <2>1. \A i \in 5 .. 4 + n : body[i] \in Byte
    BY <1>3, <1>7, ElementOfSeq
  <2> HIDE DEF n
  <2>2. /\ q \in Seq(Byte) /\ Len(q) = (IF 5 <= 4 + n THEN (4 + n) - 5 + 1 ELSE 0)
        /\ \A i \in 1 .. (4 + n) - 5 + 1 : q[i] = body[5 + i - 1]
    <3>1. 5 \in Int /\ 4 + n \in Int
      BY <1>3
    <3> QED
      BY <2>1, <3>1, SubSeqProperties
  <2> HIDE DEF q
  <2>3. Len(q) = n
    BY <1>3, <2>2
  <2>4. \A i \in 1 .. n : q[i] = addr[i]
    <3> TAKE i \in 1 .. n
    <3>1. i \in 1 .. (4 + n) - 5 + 1 /\ 5 + i - 1 = 4 + i
      BY <1>3
    <3> QED
      BY <1>8, <2>2, <3>1
  <2>5. q = addr
    BY <2>2, <2>3, <2>4, SeqEqual DEF n
  <2>6. 4 + 1 = 5
    OBVIOUS
  <2> QED
    BY <2>5, <2>6 DEF Part, q
<1>10. U32At(body, 4 + n) = asn
  <2>1. 4 + n \in Nat
    BY <1>3
  <2>2. \A i \in 1 .. 4 : body[(4 + n) + i] = U32(asn)[i]
    BY <1>7 DEF u
  <2> HIDE DEF n
  <2> QED
    BY <2>1, <2>2, ReadsNumber
<1>11. DecodePrefix(body, n) =
         [type |-> "prefix", announce |-> announce, addr |-> MaskBytes(addr, len), len |-> len,
          maxLen |-> maxLen, asn |-> asn]
  <2>1. ~(Len(body) < 4 + n + 4) /\ ~(body[2] > 8 * n)
    BY <1>3, <1>7, <1>8
  <2>2. (body[1] % 2 = 1) = announce
    BY <1>8
  <2> HIDE DEF n
  <2> QED
    BY <1>8, <1>9, <1>10, <2>1, <2>2 DEF DecodePrefix
<1>12. DecodeBody(type, 0, body) = DecodePrefix(body, n)
  <2>1. CASE n = 4
    <3>1. type = 4
      BY <1>5, <2>1
    <3> HIDE DEF n
    <3> QED
      BY <2>1, <3>1 DEF DecodeBody, Type
  <2>2. CASE n = 16
    <3>1. type = 6
      BY <1>5, <2>2
    <3> HIDE DEF n
    <3> QED
      BY <2>2, <3>1 DEF DecodeBody, Type
  <2> QED
    BY <1>3, <2>1, <2>2
<1>13. type \in Byte /\ 0 < 256 * 256 /\ Len(body) <= MaxPduLen - HeaderLen
  <2>1. type \in Byte /\ Len(body) \in Nat /\ Len(body) <= 24
    <3> HIDE DEF n
    <3>1. type = 4 \/ type = 6
      BY <1>5
    <3>2. Len(body) = 12 \/ Len(body) = 24
      BY <1>3, <1>7
    <3>3. type \in Byte
      BY <3>1 DEF Byte
    <3>4. \A k \in {12, 24} : k \in Nat /\ k <= 24
      OBVIOUS
    <3>5. Len(body) \in {12, 24}
      BY <3>2
    <3> QED
      BY <3>3, <3>4, <3>5, Zenon
  <2> HIDE DEF n
  <2> QED
    BY <2>1, SMTT(40) DEF MaxPduLen, HeaderLen
<1>14. /\ Pdu(type, 0, body) \in Seq(Byte)
       /\ Needed(Pdu(type, 0, body)) = Len(Pdu(type, 0, body))
       /\ Decoded(Pdu(type, 0, body)) = DecodeBody(type, 0, body)
  BY <1>7, <1>13, PduIsTakenWhole
<1> HIDE DEF n
<1> QED
  BY <1>4, <1>11, <1>12, <1>14 DEF body

(***************************************************************************)
(* So is every End of Data, which carries the serial and the three timers  *)
(* of the protocol (codec.go: EncodeEndOfData, readPDU).                   *)
(***************************************************************************)
THEOREM EndOfDataReadsBack ==
  ASSUME NEW session \in Nat, session < 256 * 256, NEW serial \in Nat, serial < Huge,
         NEW refresh \in Nat, refresh < Huge, NEW retry \in Nat, retry < Huge,
         NEW expire \in Nat, expire < Huge
  PROVE  LET e == EncodeEndOfData(session, serial, refresh, retry, expire)
         IN  /\ e \in Seq(Byte) /\ Needed(e) = Len(e)
             /\ Decoded(e) = [type |-> "eod", session |-> session, serial |-> serial,
                              refresh |-> refresh, retry |-> retry, expire |-> expire]
<1> DEFINE a == U32(serial)
           b == U32(refresh)
           c == U32(retry)
           d == U32(expire)
           ab == a \o b
           abc == ab \o c
           body == abc \o d
<1>1. EncodeEndOfData(session, serial, refresh, retry, expire) = Pdu(7, session, body)
  BY DEF EncodeEndOfData, Type
<1>2. /\ a \in Seq(Byte) /\ b \in Seq(Byte) /\ c \in Seq(Byte) /\ d \in Seq(Byte)
      /\ Len(a) = 4 /\ Len(b) = 4 /\ Len(c) = 4 /\ Len(d) = 4
  BY FourBytes
<1> HIDE DEF a, b, c, d
<1>3. /\ ab \in Seq(Byte) /\ Len(ab) = Len(a) + Len(b)
      /\ \A i \in 1 .. Len(a) : ab[i] = a[i]
      /\ \A i \in 1 .. Len(b) : ab[Len(a) + i] = b[i]
  BY <1>2, BytesJoined
<1> HIDE DEF ab
<1>4. ab \in Seq(Byte) /\ Len(ab) = 8
  BY <1>2, <1>3
<1>5. /\ abc \in Seq(Byte) /\ Len(abc) = Len(ab) + Len(c)
      /\ \A i \in 1 .. Len(ab) : abc[i] = ab[i]
      /\ \A i \in 1 .. Len(c) : abc[Len(ab) + i] = c[i]
  BY <1>2, <1>4, BytesJoined
<1> HIDE DEF abc
<1>6. abc \in Seq(Byte) /\ Len(abc) = 12
  BY <1>2, <1>4, <1>5
<1>7. /\ body \in Seq(Byte) /\ Len(body) = Len(abc) + Len(d)
      /\ \A i \in 1 .. Len(abc) : body[i] = abc[i]
      /\ \A i \in 1 .. Len(d) : body[Len(abc) + i] = d[i]
  BY <1>2, <1>6, BytesJoined
<1> HIDE DEF body
<1>8. body \in Seq(Byte) /\ Len(body) = 16
  BY <1>2, <1>6, <1>7
<1>9. \A i \in 1 .. 4 : /\ body[0 + i] = a[i] /\ body[4 + i] = b[i]
                        /\ body[8 + i] = c[i] /\ body[12 + i] = d[i]
  <2>1. \A i \in 1 .. 4 : /\ body[i] = abc[i] /\ body[4 + i] = abc[4 + i]
                          /\ body[8 + i] = abc[8 + i] /\ body[12 + i] = d[i]
    BY <1>2, <1>6, <1>7
  <2>2. \A i \in 1 .. 4 : /\ abc[i] = ab[i] /\ abc[4 + i] = ab[4 + i] /\ abc[8 + i] = c[i]
    BY <1>2, <1>4, <1>5
  <2>3. \A i \in 1 .. 4 : ab[i] = a[i] /\ ab[4 + i] = b[i]
    BY <1>2, <1>3
  <2> QED
    BY <2>1, <2>2, <2>3
<1>10. /\ U32At(body, 0) = serial /\ U32At(body, 4) = refresh
       /\ U32At(body, 8) = retry /\ U32At(body, 12) = expire
  <2>1. /\ \A i \in 1 .. 4 : body[0 + i] = U32(serial)[i]
        /\ \A i \in 1 .. 4 : body[4 + i] = U32(refresh)[i]
        /\ \A i \in 1 .. 4 : body[8 + i] = U32(retry)[i]
        /\ \A i \in 1 .. 4 : body[12 + i] = U32(expire)[i]
    BY <1>9 DEF a, b, c, d
  <2> QED
    BY <2>1, ReadsNumber
<1>11. DecodeBody(7, session, body) =
         [type |-> "eod", session |-> session, serial |-> serial, refresh |-> refresh,
          retry |-> retry, expire |-> expire]
  BY <1>8, <1>10 DEF DecodeBody, Type
<1>12. 7 \in Byte /\ Len(body) <= MaxPduLen - HeaderLen
  <2>1. Len(body) <= MaxPduLen - HeaderLen
    BY <1>8, SMTT(40) DEF MaxPduLen, HeaderLen
  <2> QED
    BY <2>1 DEF Byte
<1>13. /\ Pdu(7, session, body) \in Seq(Byte)
       /\ Needed(Pdu(7, session, body)) = Len(Pdu(7, session, body))
       /\ Decoded(Pdu(7, session, body)) = DecodeBody(7, session, body)
  BY <1>8, <1>12, PduIsTakenWhole
<1> QED
  BY <1>1, <1>11, <1>13 DEF body, abc, ab

=============================================================================
