-------------------------- MODULE VerdictProofs ----------------------------
(***************************************************************************)
(* The two questions a verdict rests on, and whom it blames: the loop of   *)
(* the classifier decides the documented rule for paths of any length and  *)
(* any relationship store; blame falls where it can, prepending or not;    *)
(* and the VRP index answers what RFC 6811 says for addresses of any width *)
(* and any number of VRPs, IPv4-mapped announcements apart.                *)
(***************************************************************************)
EXTENDS Blame, RpkiTrie, FiniteSetTheorems, SequenceTheorems, WellFoundedInduction, TLAPS

-----------------------------------------------------------------------------
(* Least and greatest elements                                             *)

LEMMA HasSmallest ==
  ASSUME NEW S \in SUBSET Nat, S # {}
  PROVE  \E m \in S : \A n \in S : m <= n
<1> DEFINE R == OpToRel(<, Nat)
<1>1. IsWellFoundedOn(R, Nat)
  BY NatLessThanWellFounded
<1>2. \A m, n \in Nat : m < n => <<m, n>> \in R
  BY DEF OpToRel
<1> HIDE DEF R
<1>3. \E m \in S : \A n \in S : <<n, m>> \notin R
  BY <1>1, WFMin
<1>4. PICK m \in S : \A n \in S : <<n, m>> \notin R
  BY <1>3
<1>5. \A n \in S : ~(n < m)
  BY <1>2, <1>4
<1> QED
  BY <1>5

LEMMA HasLargest ==
  ASSUME NEW n \in Nat, NEW S \in SUBSET (0 .. n), S # {}
  PROVE  \E m \in S : \A k \in S : k <= m
<1> DEFINE T == {n - k : k \in S}
<1>1. T \in SUBSET Nat /\ T # {}
  <2>1. \A k \in S : n - k \in Nat
    OBVIOUS
  <2> QED
    BY <2>1
<1>2. PICK t \in T : \A u \in T : t <= u
  BY <1>1, HasSmallest
<1>3. PICK m \in S : t = n - m
  OBVIOUS
<1>4. \A k \in S : n - m <= n - k
  BY <1>2, <1>3
<1> QED
  BY <1>4

-----------------------------------------------------------------------------
(* Prepending                                                              *)

LEMMA StartsAreFinite ==
  ASSUME NEW path \in Seq(ASN)
  PROVE  /\ Len(path) \in Nat /\ Starts(path) \subseteq 1 .. Len(path)
         /\ \A S \in SUBSET Starts(path) : IsFiniteSet(S) /\ Cardinality(S) \in Nat
<1>1. Len(path) \in Nat /\ Starts(path) \subseteq 1 .. Len(path)
  BY LenProperties DEF Starts
<1>2. IsFiniteSet(1 .. Len(path))
  BY <1>1, FS_Interval
<1> QED
  BY <1>1, <1>2, FS_Subset, FS_CardinalityType

\* There is a k-th start for every k up to their number: the smallest position with
\* k starts up to it.
LEMMA KthStartExists ==
  ASSUME NEW path \in Seq(ASN), NEW k \in 1 .. Cardinality(Starts(path))
  PROVE  KthStart(path, k) \in Starts(path) /\ Rank(path, KthStart(path, k)) = k
<1> DEFINE Below(z) == {j \in Starts(path) : j <= z}
           S == {z \in 0 .. Len(path) : k <= Cardinality(Below(z))}
<1>1. /\ Len(path) \in Nat /\ Starts(path) \subseteq 1 .. Len(path)
      /\ \A z \in 0 .. Len(path) : IsFiniteSet(Below(z)) /\ Cardinality(Below(z)) \in Nat
  BY StartsAreFinite
<1>2. Below(Len(path)) = Starts(path)
  BY <1>1
<1>3. Len(path) \in S /\ S \in SUBSET Nat
  <2>1. Cardinality(Starts(path)) \in Nat
    BY StartsAreFinite
  <2>2. k \in Nat /\ k <= Cardinality(Starts(path))
    BY <2>1
  <2> HIDE DEF Below
  <2> QED
    BY <1>1, <1>2, <2>2
<1>4. PICK z \in S : \A j \in S : z <= j
  BY <1>3, HasSmallest
<1>5. z # 0
  <2>1. Below(0) = {}
    BY <1>1
  <2>2. Cardinality(Below(0)) = 0
    BY <2>1, FS_EmptySet
  <2>3. k <= Cardinality(Below(z)) /\ k >= 1
    BY <1>4
  <2> HIDE DEF Below, S
  <2> QED
    BY <2>2, <2>3
<1>6. z - 1 \in 0 .. Len(path) /\ z - 1 \notin S
  BY <1>4, <1>5, <1>1
<1>7. Cardinality(Below(z - 1)) < k /\ k <= Cardinality(Below(z))
  <2>1. k \in Nat /\ z \in 0 .. Len(path)
    BY StartsAreFinite
  <2> HIDE DEF Below
  <2> QED
    BY <1>1, <1>4, <1>6, <2>1
<1>8. z \in Starts(path)
  <2>1. z \notin Starts(path) => Below(z) = Below(z - 1)
    BY <1>1, <1>4, <1>5
  <2> QED
    BY <1>1, <1>6, <1>7, <2>1
<1>9. Below(z) = Below(z - 1) \cup {z} /\ z \notin Below(z - 1)
  BY <1>1, <1>4, <1>5, <1>8
<1>10. Cardinality(Below(z)) = Cardinality(Below(z - 1)) + 1
  BY <1>1, <1>6, <1>9, FS_AddElement
<1>11. Cardinality(Below(z)) = k
  <2>1. k \in Nat /\ z \in 0 .. Len(path)
    BY StartsAreFinite
  <2> HIDE DEF Below
  <2> QED
    BY <1>1, <1>6, <1>7, <1>10, <2>1
<1> QED
  BY <1>8, <1>11 DEF KthStart, Rank

LEMMA DedupeType ==
  ASSUME NEW path \in Seq(ASN)
  PROVE  /\ Dedupe(path) \in Seq(ASN) /\ Len(Dedupe(path)) \in Nat
         /\ Dedupe(path) # <<>> => Len(Dedupe(path)) >= 1
<1>1. Cardinality(Starts(path)) \in Nat
  BY StartsAreFinite
<1>2. \A k \in 1 .. Cardinality(Starts(path)) : path[KthStart(path, k)] \in ASN
  BY KthStartExists, StartsAreFinite, ElementOfSeq
<1>3. Dedupe(path) \in Seq(ASN)
  BY <1>1, <1>2, IsASeq DEF Dedupe
<1> QED
  BY <1>3, LenProperties, EmptySeq

-----------------------------------------------------------------------------
(* The shape                                                               *)

LEMMA LookupType ==
  ASSUME NEW edges, IsStore(edges), NEW a, NEW b
  PROVE  Lookup(edges, a, b) \in RelStatus
  BY DEF IsStore, Lookup, FromLo, Invert, RelStatus

\* A path has the documented shape if and only if no move of it is a violation.
LEMMA ShapeMeansNoViolation ==
  ASSUME NEW edges, IsStore(edges), NEW s, Len(s) \in Nat \ {0}
  PROVE  UpThenDown(edges, s) <=> \A j \in 2 .. Len(s) : ~Violates(edges, s, j)
<1>1. \A j \in 2 .. Len(s) : Move(edges, s, j) \in RelStatus
  BY LookupType DEF Move
<1>2. ASSUME UpThenDown(edges, s), NEW j \in 2 .. Len(s) PROVE ~Violates(edges, s, j)
  <2>1. PICK k \in 1 .. Len(s) :
          /\ \A m \in k + 1 .. Len(s) : Move(edges, s, m) \in {"provider"} \cup Skipped
          /\ \A m \in 2 .. k - 1      : Move(edges, s, m) \in {"customer"} \cup Skipped
    BY <1>2 DEF UpThenDown
  <2>2. CASE j < k
    <3>1. Move(edges, s, j) \in {"customer"} \cup Skipped
      BY <2>1, <2>2
    <3> QED
      BY <3>1 DEF Violates, Skipped
  <2>3. CASE ~(j < k)
    <3>1. \A m \in j + 1 .. Len(s) : Move(edges, s, m) \in {"provider"} \cup Skipped
      BY <2>1, <2>3
    <3> QED
      BY <3>1 DEF Violates, Descended, Skipped
  <2> QED
    BY <2>2, <2>3
<1>3. ASSUME \A j \in 2 .. Len(s) : ~Violates(edges, s, j) PROVE UpThenDown(edges, s)
  <2> DEFINE D == {j \in 2 .. Len(s) : Move(edges, s, j) \in {"peer", "customer"}}
  <2>1. CASE D = {}
    <3>1. /\ \A j \in 1 + 1 .. Len(s) : Move(edges, s, j) \in {"provider"} \cup Skipped
          /\ \A j \in 2 .. 1 - 1      : Move(edges, s, j) \in {"customer"} \cup Skipped
      BY <1>1, <2>1 DEF RelStatus, Skipped
    <3>2. 1 \in 1 .. Len(s)
      OBVIOUS
    <3> QED
      BY <3>1, <3>2 DEF UpThenDown
  <2>2. CASE D # {}
    <3>0. D \in SUBSET (0 .. Len(s))
      OBVIOUS
    <3>1. PICK k \in D : \A j \in D : j <= k
      BY <2>2, <3>0, HasLargest
    <3>2. \A j \in k + 1 .. Len(s) : Move(edges, s, j) \in {"provider"} \cup Skipped
      BY <1>1, <3>1 DEF RelStatus, Skipped
    <3>3. \A j \in 2 .. k - 1 : Move(edges, s, j) \in {"customer"} \cup Skipped
      <4> TAKE j \in 2 .. k - 1
      <4>1. j \in 2 .. Len(s) /\ k \in j + 1 .. Len(s)
        OBVIOUS
      <4>2. Descended(edges, s, j)
        BY <3>1, <4>1 DEF Descended
      <4> QED
        BY <1>1, <1>3, <4>1, <4>2 DEF Violates, RelStatus, Skipped
    <3> QED
      BY <3>1, <3>2, <3>3 DEF UpThenDown
  <2> QED
    BY <2>1, <2>2
<1> QED
  BY <1>2, <1>3

\* A violation within a suffix of the path is one of the path.
LEMMA SuffixViolations ==
  ASSUME NEW edges, NEW s \in Seq(ASN), NEW a \in 1 .. Len(s)
  PROVE  LET t == SubSeq(s, a, Len(s))
         IN  /\ Len(t) = Len(s) - a + 1
             /\ \A j \in 2 .. Len(t) : Violates(edges, t, j) <=> Violates(edges, s, a + j - 1)
<1> DEFINE t == SubSeq(s, a, Len(s))
<1>1. /\ Len(s) \in Nat /\ Len(t) = Len(s) - a + 1
      /\ \A j \in 1 .. Len(s) - a + 1 : t[j] = s[a + j - 1]
  BY LenProperties, SubSeqProperties
<1> HIDE DEF t
<1>2. \A j \in 2 .. Len(t) : Move(edges, t, j) = Move(edges, s, a + j - 1)
  <2> TAKE j \in 2 .. Len(t)
  <2>1. j \in 1 .. Len(s) - a + 1 /\ j - 1 \in 1 .. Len(s) - a + 1
        /\ a + (j - 1) - 1 = (a + j - 1) - 1
    BY <1>1
  <2>2. t[j] = s[a + j - 1] /\ t[j - 1] = s[(a + j - 1) - 1]
    BY <1>1, <2>1
  <2> QED
    BY <2>2 DEF Move
<1>3. ASSUME NEW j \in 2 .. Len(t)
      PROVE  Descended(edges, t, j) <=> Descended(edges, s, a + j - 1)
  <2>1. ASSUME Descended(edges, t, j) PROVE Descended(edges, s, a + j - 1)
    <3>1. PICK m \in j + 1 .. Len(t) : Move(edges, t, m) \in {"peer", "customer"}
      BY <2>1 DEF Descended
    <3>2. a + m - 1 \in (a + j - 1) + 1 .. Len(s) /\ m \in 2 .. Len(t)
      BY <1>1
    <3> QED
      BY <1>2, <3>1, <3>2 DEF Descended
  <2>2. ASSUME Descended(edges, s, a + j - 1) PROVE Descended(edges, t, j)
    <3>1. PICK m \in (a + j - 1) + 1 .. Len(s) : Move(edges, s, m) \in {"peer", "customer"}
      BY <2>2 DEF Descended
    <3>2. m - a + 1 \in j + 1 .. Len(t) /\ m - a + 1 \in 2 .. Len(t)
          /\ a + (m - a + 1) - 1 = m
      BY <1>1
    <3>3. Move(edges, t, m - a + 1) = Move(edges, s, m)
      BY <1>2, <3>2
    <3> QED
      BY <3>1, <3>2, <3>3 DEF Descended
  <2> QED
    BY <2>1, <2>2
<1> QED
  BY <1>1, <1>2, <1>3 DEF Violates, t

-----------------------------------------------------------------------------
(* The walk                                                                *)

(***************************************************************************)
(* While it runs, the walk has gone down exactly if a move behind it did,  *)
(* and has met no violation; it ends at the first one it meets, or at the  *)
(* collector's end.                                                        *)
(***************************************************************************)
Clean(n) == \A j \in n .. Len(seq) : ~Violates(in.edges, seq, j)

Walked ==
  /\ pc = "call" => seq = <<>> /\ i = 0 /\ off = 0 /\ phase = "up"
  /\ pc # "call" => seq = Dedupe(in.path)
  /\ pc = "walk" =>
       /\ 1 < Len(seq) /\ ~in.hasASSet /\ i >= 1 /\ off = 0
       /\ phase = "down" <=> Descended(in.edges, seq, i)
       /\ Clean(i + 1)
  /\ pc = "done" =>
       \/ off = 0 /\ (in.hasASSet \/ Clean(2))
       \/ /\ off \in 2 .. Len(seq) /\ ~in.hasASSet
          /\ Violates(in.edges, seq, off) /\ Clean(off + 1)

WalkInv == TypeOK /\ Walked

LEMMA WalkInit == Init => WalkInv
  BY EmptySeq DEF Init, WalkInv, TypeOK, Walked

LEMMA InputType ==
  ASSUME in \in Inputs
  PROVE  in.path \in Seq(ASN) /\ IsStore(in.edges)
  BY ValleyWalkAssumption

LEMMA CallStep ==
  ASSUME WalkInv, Call
  PROVE  WalkInv'
<1>1. /\ pc = "call" /\ seq' = Dedupe(in.path) /\ i' = Len(seq') /\ in' = in
      /\ pc' = IF Len(seq') <= 1 \/ in.hasASSet THEN "done" ELSE "walk"
      /\ phase' = "up" /\ off' = 0 /\ in \in Inputs
  BY DEF Call, WalkInv, Walked, TypeOK
<1>2. seq' \in Seq(ASN) /\ Len(seq') \in Nat
  BY <1>1, InputType, DedupeType
<1>3. TypeOK'
  BY <1>1, <1>2 DEF TypeOK
<1>4. CASE pc' = "done"
  <2>1. in.hasASSet \/ \A j \in 2 .. Len(seq') : FALSE
    BY <1>1, <1>2, <1>4
  <2> QED
    BY <1>1, <1>3, <1>4, <2>1 DEF WalkInv, Walked, Clean
<1>5. CASE pc' = "walk"
  <2>1. 1 < Len(seq') /\ ~in.hasASSet
    BY <1>1, <1>2, <1>5
  <2>2. \A j \in i' + 1 .. Len(seq') : FALSE
    BY <1>1, <1>2
  <2>3. Clean(i + 1)' /\ ~Descended(in.edges, seq, i)'
    BY <2>2 DEF Clean, Descended
  <2> QED
    BY <1>1, <1>2, <1>3, <1>5, <2>1, <2>3 DEF WalkInv, Walked
<1> QED
  BY <1>1, <1>4, <1>5

LEMMA IterationStep ==
  ASSUME WalkInv, Step
  PROVE  WalkInv'
<1> DEFINE down == Descended(in.edges, seq, i)
<1>1. /\ pc = "walk" /\ i \in 2 .. Len(seq) /\ i' = i - 1 /\ in' = in /\ seq' = seq
      /\ seq \in Seq(ASN) /\ Len(seq) \in Nat /\ in \in Inputs
      /\ off = 0 /\ 1 < Len(seq) /\ ~in.hasASSet /\ seq = Dedupe(in.path)
      /\ phase = "down" <=> down
      /\ phase \in {"up", "down"} /\ Clean(i + 1)
  BY LenProperties DEF Step, WalkInv, Walked, TypeOK
<1>2. Transparent \/ Climb \/ Across \/ Descend
  BY DEF Step
<1>3. Descended(in.edges, seq, i - 1) <=> Rel \in {"peer", "customer"} \/ down
  <2>1. (i - 1) + 1 .. Len(seq) = {i} \cup i + 1 .. Len(seq)
    BY <1>1
  <2> QED
    BY <2>1 DEF Descended, Rel
<1>4. Violates(in.edges, seq, i) <=> Rel \in {"provider", "peer"} /\ down
  BY DEF Violates, Rel
<1>5. ~Violates(in.edges, seq, i) => Clean(i)
  <2>1. i .. Len(seq) = {i} \cup i + 1 .. Len(seq)
    BY <1>1
  <2> QED
    BY <1>1, <2>1 DEF Clean
<1> HIDE DEF down
<1>6. CASE Violates(in.edges, seq, i)
  <2>1. pc' = "done" /\ off' = i /\ phase' \in {"up", "down"}
    BY <1>1, <1>2, <1>4, <1>6 DEF Transparent, Climb, Across, Descend
  <2> QED
    BY <1>1, <1>6, <2>1 DEF WalkInv, TypeOK, Walked, Clean
<1>7. CASE ~Violates(in.edges, seq, i)
  <2>1. /\ pc' = "walk" /\ off' = 0 /\ phase' \in {"up", "down"}
        /\ phase' = "down" <=> Rel \in {"peer", "customer"} \/ down
    BY <1>1, <1>2, <1>4, <1>7 DEF Transparent, Climb, Across, Descend
  <2>2. Clean(i) /\ (i - 1) + 1 = i
    BY <1>1, <1>5, <1>7
  <2>3. Clean(i + 1)'
    BY <1>1, <2>2 DEF Clean
  <2>4. phase' = "down" <=> Descended(in.edges, seq, i)'
    BY <1>1, <1>3, <2>1
  <2> QED
    BY <1>1, <2>1, <2>3, <2>4 DEF WalkInv, TypeOK, Walked
<1> QED
  BY <1>6, <1>7

LEMMA WalkStep == WalkInv /\ [Next]_vars => WalkInv'
<1> SUFFICES ASSUME WalkInv, [Next]_vars PROVE WalkInv'
  OBVIOUS
<1>1. CASE Finish
  BY <1>1 DEF Finish, WalkInv, TypeOK, Walked, Clean
<1>2. CASE UNCHANGED vars
  BY <1>2 DEF vars, WalkInv, TypeOK, Walked, Clean
<1> QED
  BY <1>1, <1>2, CallStep, IterationStep DEF Next, Returned

(***************************************************************************)
(* The indices of the walk stay on the path (classifier.go: findValley).   *)
(***************************************************************************)
THEOREM WalkTypeCorrect == Spec => []TypeOK
<1>1. WalkInv => TypeOK
  BY DEF WalkInv
<1> QED
  BY <1>1, WalkInit, WalkStep, PTL DEF Spec

-----------------------------------------------------------------------------
(* The verdict                                                             *)

\* The closed form finds the violation with none behind it, or none at all.
LEMMA FindValleyIs ==
  ASSUME NEW edges, NEW s, Len(s) \in Nat
  PROVE  /\ (\A j \in 2 .. Len(s) : ~Violates(edges, s, j)) => FindValley(edges, s) = 0
         /\ \A n \in 2 .. Len(s) :
              (/\ Violates(edges, s, n)
               /\ \A j \in n + 1 .. Len(s) : ~Violates(edges, s, j))
              => FindValley(edges, s) = n
<1> DEFINE bad == {j \in 2 .. Len(s) : Violates(edges, s, j)}
<1>1. FindValley(edges, s) = IF bad = {} THEN 0 ELSE CHOOSE j \in bad : \A k \in bad : k <= j
  BY DEF FindValley
<1>2. ASSUME NEW n \in 2 .. Len(s), Violates(edges, s, n),
             \A j \in n + 1 .. Len(s) : ~Violates(edges, s, j)
      PROVE  FindValley(edges, s) = n
  <2>1. n \in bad /\ \A k \in bad : k <= n
    BY <1>2
  <2>2. \A j \in bad : (\A k \in bad : k <= j) => j = n
    BY <2>1
  <2> HIDE DEF bad
  <2> QED
    BY <1>1, <2>1, <2>2
<1> QED
  BY <1>1, <1>2

(***************************************************************************)
(* The verdict is the documented rule, and the blamed AS is the first to   *)
(* break it (classifier.go: package comment, ClassifyPath, findValley).    *)
(***************************************************************************)
THEOREM VerdictIsTheRule == Spec => []LeakIffNotUpThenDown
<1>1. WalkInv => LeakIffNotUpThenDown
  <2> SUFFICES ASSUME WalkInv, pc = "done" PROVE LeakIffNotUpThenDown
    BY DEF LeakIffNotUpThenDown
  <2>1. /\ in \in Inputs /\ seq = Dedupe(in.path) /\ seq \in Seq(ASN) /\ Len(seq) \in Nat
        /\ IsStore(in.edges) /\ (seq # <<>> => Len(seq) \in Nat \ {0})
    BY InputType, LenProperties, EmptySeq DEF WalkInv, Walked, TypeOK
  <2>2. CASE off = 0
    <3>1. in.hasASSet \/ \A j \in 2 .. Len(seq) : ~Violates(in.edges, seq, j)
      BY <2>2 DEF WalkInv, Walked, Clean
    <3>2. ~ClassifyPath(in.edges, in.path, in.hasASSet).isLeak
      BY <2>1, <3>1, FindValleyIs DEF ClassifyPath
    <3>3. seq # <<>> => in.hasASSet \/ UpThenDown(in.edges, seq)
      BY <2>1, <3>1, ShapeMeansNoViolation
    <3> QED
      BY <2>2, <3>2, <3>3 DEF LeakIffNotUpThenDown, ClassifyPath
  <2>3. CASE off # 0
    <3>1. /\ off \in 2 .. Len(seq) /\ ~in.hasASSet
          /\ Violates(in.edges, seq, off)
          /\ \A j \in off + 1 .. Len(seq) : ~Violates(in.edges, seq, j)
      BY <2>3 DEF WalkInv, Walked, Clean
    <3>2. FindValley(in.edges, seq) = off
      BY <2>1, <3>1, FindValleyIs
    <3>3. LET v == ClassifyPath(in.edges, in.path, in.hasASSet)
          IN  v.isLeak /\ v.offHop = off - 1 /\ v.offender = seq[off]
      <4>1. off # 0 /\ ~(Len(seq) <= 1 \/ in.hasASSet)
        BY <2>1, <3>1
      <4> QED
        BY <2>1, <3>2, <4>1 DEF ClassifyPath
    <3>4. ~UpThenDown(in.edges, seq)
      BY <2>1, <3>1, ShapeMeansNoViolation
    <3>5. UpThenDown(in.edges, SubSeq(seq, off, Len(seq)))
      <4> DEFINE t == SubSeq(seq, off, Len(seq))
      <4>1. /\ Len(t) = Len(seq) - off + 1
            /\ \A j \in 2 .. Len(t) : Violates(in.edges, t, j) <=> Violates(in.edges, seq, off + j - 1)
        BY <2>1, <3>1, SuffixViolations
      <4> HIDE DEF t
      <4>2. \A j \in 2 .. Len(t) : off + j - 1 \in off + 1 .. Len(seq)
        BY <2>1, <3>1, <4>1
      <4>3. \A j \in 2 .. Len(t) : ~Violates(in.edges, t, j)
        BY <3>1, <4>1, <4>2
      <4>4. UpThenDown(in.edges, t)
        BY <2>1, <3>1, <4>1, <4>3, ShapeMeansNoViolation
      <4> QED
        BY <4>4 DEF t
    <3>6. ~UpThenDown(in.edges, SubSeq(seq, off - 1, Len(seq)))
      <4> DEFINE t == SubSeq(seq, off - 1, Len(seq))
      <4>0. off - 1 \in 1 .. Len(seq)
        BY <2>1, <3>1
      <4>1. /\ Len(t) = Len(seq) - (off - 1) + 1
            /\ \A j \in 2 .. Len(t) :
                 Violates(in.edges, t, j) <=> Violates(in.edges, seq, (off - 1) + j - 1)
        BY <2>1, <4>0, SuffixViolations
      <4> HIDE DEF t
      <4>2. 2 \in 2 .. Len(t) /\ (off - 1) + 2 - 1 = off
        BY <2>1, <3>1, <4>1
      <4>3. Violates(in.edges, t, 2)
        BY <3>1, <4>1, <4>2
      <4>4. ~UpThenDown(in.edges, t)
        BY <2>1, <3>1, <4>1, <4>2, <4>3, ShapeMeansNoViolation
      <4> QED
        BY <4>4 DEF t
    <3> QED
      BY <2>3, <3>1, <3>3, <3>4, <3>5, <3>6 DEF LeakIffNotUpThenDown
  <2> QED
    BY <2>2, <2>3
<1> QED
  BY <1>1, WalkInit, WalkStep, PTL DEF Spec

(***************************************************************************)
(* A path that is clean under a store is clean under every part of it      *)
(* (classifier.go: "no false leaks").                                      *)
(***************************************************************************)
THEOREM LessDataNeverAccuses == Spec => []MissingDataNeverAccuses
<1>1. WalkInv => MissingDataNeverAccuses
  <2> SUFFICES ASSUME WalkInv, pc = "done", off = 0, NEW P \in SUBSET DOMAIN in.edges
               PROVE  ~ClassifyPath(Only(in.edges, P), in.path, in.hasASSet).isLeak
    BY DEF MissingDataNeverAccuses
  <2> DEFINE less == Only(in.edges, P)
  <2>1. seq = Dedupe(in.path) /\ Len(seq) \in Nat
    BY LenProperties DEF WalkInv, Walked, TypeOK
  <2>2. in.hasASSet \/ \A j \in 2 .. Len(seq) : ~Violates(in.edges, seq, j)
    BY DEF WalkInv, Walked, Clean
  <2>3. \A a, b : Lookup(less, a, b) \in {"unknown", Lookup(in.edges, a, b)}
    BY DEF Lookup, Only
  <2> HIDE DEF less
  <2>4. \A j \in 2 .. Len(seq) : Violates(less, seq, j) => Violates(in.edges, seq, j)
    BY <2>1, <2>3 DEF Violates, Descended, Move
  <2>5. in.hasASSet \/ FindValley(less, seq) = 0
    BY <2>1, <2>2, <2>4, FindValleyIs
  <2> QED
    BY <2>1, <2>5 DEF ClassifyPath, less
<1> QED
  BY <1>1, WalkInit, WalkStep, PTL DEF Spec

-----------------------------------------------------------------------------
(* Blame                                                                   *)

\* What the classifier makes of an announcement, spelt out.
LEMMA ClassifiedAs ==
  ASSUME NEW edges, NEW known, NEW path, NEW set \in BOOLEAN
  PROVE  LET u    == Announcement(path, set)
             out  == Classify(edges, known, u)
             walk == ClassifyPath(edges, path, in.hasASSet)
             origin == OriginAS(path, in.hasASSet /\ set)
             refused == origin # NoAS /\ RovStatus(known, Announced, origin) = "invalid"
         IN  /\ refused => out.vf = "hijack" /\ out.offender = origin
             /\ ~refused /\ walk.isLeak => out.vf = "leak" /\ out.offender = walk.offender
             /\ ~refused /\ ~walk.isLeak =>
                  out.vf = (IF Len(path) > 1 /\ walk.known = {} THEN "unknown" ELSE "valid")
                  /\ out.offender = NoAS
<1> DEFINE u    == Announcement(path, set)
           out  == Classify(edges, known, u)
           walk == ClassifyPath(edges, path, in.hasASSet)
           origin == OriginAS(path, in.hasASSet /\ set)
           rpki == IF origin = NoAS THEN "notfound" ELSE RovStatus(known, Announced, origin)
           verdict == Resolve(u, walk, rpki)
<1>1. /\ u.kind = "announce" /\ u.path = path /\ u.hasASSet = in.hasASSet
      /\ u.origin = origin /\ u.prefix = Announced
  BY DEF Announcement
<1> HIDE DEF u, origin
<1>2. out.vf = verdict.vf /\ out.offender = verdict.offender
  BY <1>1 DEF Classify, Neutral
<1> HIDE DEF walk, out
<1>3. verdict = IF rpki = "invalid" THEN [vf |-> "hijack", offender |-> origin]
                ELSE IF walk.isLeak THEN [vf |-> "leak", offender |-> walk.offender]
                ELSE IF Len(path) > 1 /\ walk.known = {} THEN [vf |-> "unknown", offender |-> NoAS]
                ELSE [vf |-> "valid", offender |-> NoAS]
  BY <1>1 DEF Resolve
<1>4. rpki = "invalid" <=> origin # NoAS /\ RovStatus(known, Announced, origin) = "invalid"
  OBVIOUS
<1> HIDE DEF verdict, rpki
<1>5. /\ rpki = "invalid" => out.vf = "hijack" /\ out.offender = origin
      /\ rpki # "invalid" /\ walk.isLeak => out.vf = "leak" /\ out.offender = walk.offender
      /\ rpki # "invalid" /\ ~walk.isLeak =>
           out.vf = (IF Len(path) > 1 /\ walk.known = {} THEN "unknown" ELSE "valid")
           /\ out.offender = NoAS
  BY <1>2, <1>3
<1> QED
  BY <1>4, <1>5 DEF u, out, walk, origin

\* A leaker is a start of the path, neither the first nor the last of them.
LEMMA LeakerIs ==
  ASSUME NEW edges, NEW path \in Seq(ASN), NEW set, ClassifyPath(edges, path, set).isLeak
  PROVE  \E n \in 2 .. Cardinality(Starts(path)) - 1 :
           ClassifyPath(edges, path, set).offender = path[KthStart(path, n)]
<1> DEFINE s == Dedupe(path)
           c == Cardinality(Starts(path))
           bad == {j \in 2 .. Len(s) : Violates(edges, s, j)}
           found == IF Len(s) <= 1 \/ set THEN 0 ELSE FindValley(edges, s)
<1>1. c \in Nat
  BY StartsAreFinite
<1>2. Len(s) = c /\ \A n \in 1 .. c : s[n] = path[KthStart(path, n)]
  BY <1>1, DedupeType, LenProperties DEF Dedupe
<1> HIDE DEF s, c
<1>3. ClassifyPath(edges, path, set).isLeak = (found # 0)
      /\ (found # 0 => ClassifyPath(edges, path, set).offender = s[found])
  <2> HIDE DEF found
  <2> QED
    BY DEF ClassifyPath, s, found
<1>4. found # 0 /\ found = FindValley(edges, s)
  BY <1>3
<1>5. found \in bad
  <2>1. bad \in SUBSET (0 .. Len(s))
    BY <1>1, <1>2
  <2>2. bad # {}
    BY <1>4 DEF FindValley
  <2>3. \E m \in bad : \A k \in bad : k <= m
    <3> HIDE DEF bad
    <3> QED
      BY <1>1, <1>2, <2>1, <2>2, HasLargest
  <2> QED
    BY <1>4, <2>2, <2>3 DEF FindValley
<1>6. found \in 2 .. c - 1
  <2>1. \E j \in found + 1 .. Len(s) : TRUE
    BY <1>5 DEF Violates, Descended
  <2> HIDE DEF found
  <2> QED
    BY <1>1, <1>2, <1>5, <2>1
<1>7. ClassifyPath(edges, path, set).offender = path[KthStart(path, found)]
  <2>1. found \in 1 .. c
    BY <1>1, <1>6
  <2> HIDE DEF found
  <2> QED
    BY <1>2, <1>3, <1>4, <2>1
<1> HIDE DEF found
<1> QED
  BY <1>6, <1>7 DEF c

\* Such a start has other ASes on either side, unless the path loops.
LEMMA InnerStart ==
  ASSUME NEW path \in Seq(ASN), NEW n \in 2 .. Cardinality(Starts(path)) - 1
  PROVE  LET start == KthStart(path, n)
         IN  /\ start \in 2 .. Len(path) - 1 /\ Len(path) \in Nat
             /\ LoopFree(path) => path[start] # path[1] /\ path[start] # path[Len(path)]
<1> DEFINE c == Cardinality(Starts(path))
           start == KthStart(path, n)
<1>1. c \in Nat /\ Len(path) \in Nat /\ Starts(path) \subseteq 1 .. Len(path)
  BY StartsAreFinite
<1>2. start \in Starts(path) /\ Rank(path, start) = n
  BY <1>1, KthStartExists
<1>3. start # 1
  <2>1. ASSUME start = 1 PROVE {j \in Starts(path) : j <= start} = {1}
    BY <1>1, <1>2, <2>1
  <2>2. Cardinality({1}) = 1
    BY Zenon, FS_Singleton
  <2>3. start = 1 => Rank(path, start) = 1
    BY <2>1, <2>2 DEF Rank
  <2>4. n # 1
    BY <1>1
  <2> HIDE DEF start
  <2> QED
    BY <1>2, <2>3, <2>4
<1>4. \E m \in Starts(path) : m > start
  <2> SUFFICES ASSUME \A m \in Starts(path) : m <= start PROVE FALSE
    BY <1>1, <1>2
  <2>1. {j \in Starts(path) : j <= start} = Starts(path)
    OBVIOUS
  <2>2. n = c
    BY <1>2, <2>1 DEF Rank
  <2> QED
    BY <1>1, <2>2
<1>5. PICK m \in Starts(path) : m > start
  BY <1>4
<1> HIDE DEF c, start
<1>6. start \in 2 .. Len(path) - 1
  BY <1>1, <1>2, <1>3, <1>5
<1>7. path[start] # path[start - 1] /\ path[m] # path[m - 1]
  BY <1>1, <1>2, <1>3, <1>5 DEF Starts
<1>8. ASSUME LoopFree(path), path[start] = path[1] PROVE FALSE
  <2>1. 1 \in 1 .. Len(path) /\ start \in 1 .. Len(path) /\ start - 1 \in 1 .. start
    BY <1>1, <1>6
  <2>2. path[start - 1] = path[1]
    BY <1>8, <2>1 DEF LoopFree
  <2> QED
    BY <1>7, <1>8, <2>2
<1>9. ASSUME LoopFree(path), path[start] = path[Len(path)] PROVE FALSE
  <2>1. Len(path) \in 1 .. Len(path) /\ start \in 1 .. Len(path)
        /\ m \in start .. Len(path) /\ m - 1 \in start .. Len(path)
    BY <1>1, <1>2, <1>5, <1>6
  <2>2. path[m] = path[start] /\ path[m - 1] = path[start]
    BY <1>9, <2>1 DEF LoopFree
  <2> QED
    BY <1>7, <2>2
<1> QED
  BY <1>1, <1>6, <1>8, <1>9 DEF start

\* Different starts have different ranks.
LEMMA RanksDiffer ==
  ASSUME NEW path \in Seq(ASN), NEW m \in Starts(path), NEW j \in Starts(path),
         Rank(path, m) = Rank(path, j)
  PROVE  m = j
<1>1. ASSUME NEW x \in Starts(path), NEW y \in Starts(path), x < y
      PROVE  Rank(path, x) # Rank(path, y)
  <2> DEFINE S == {z \in Starts(path) : z <= x}
             T == {z \in Starts(path) : z <= y}
  <2>1. S \subseteq T /\ y \in T /\ y \notin S
    BY <1>1, StartsAreFinite
  <2>2. IsFiniteSet(T)
    BY StartsAreFinite
  <2> HIDE DEF S, T
  <2>3. Cardinality(S) # Cardinality(T)
    BY <2>1, <2>2, FS_Subset
  <2> QED
    BY <2>3 DEF S, T, Rank
<1>2. m \in Nat /\ j \in Nat
  BY StartsAreFinite
<1> QED
  BY <1>1, <1>2

\* One repetition less: the same starts, each as many places on.
LEMMA FewerRepetitions ==
  ASSUME NEW path \in Seq(ASN), NEW k \in 1 .. Len(path) - 1, path[k] = path[k + 1]
  PROVE  LET short == RemoveAt(path, k)
         IN  /\ short \in Seq(ASN) /\ Len(short) = Len(path) - 1 /\ Len(path) \in Nat
             /\ short[Len(short)] = path[Len(path)]
             /\ Dedupe(short) = Dedupe(path)
<1> DEFINE n == Len(path)
           a == SubSeq(path, 1, k - 1)
           b == SubSeq(path, k + 1, n)
           r == RemoveAt(path, k)
           Place(j) == IF j <= k THEN j ELSE j + 1
<1>1. n \in Nat /\ k \in 1 .. n - 1 /\ \A j \in 1 .. n : path[j] \in ASN
  BY LenProperties
<1>2. a \in Seq(ASN) /\ Len(a) = k - 1 /\ \A j \in 1 .. k - 1 : a[j] = path[j]
  <2>1. 1 \in Int /\ k - 1 \in Int /\ \A j \in 1 .. k - 1 : path[j] \in ASN
    BY <1>1
  <2>2. /\ a \in Seq(ASN) /\ Len(a) = IF 1 <= k - 1 THEN k - 1 - 1 + 1 ELSE 0
        /\ \A j \in 1 .. k - 1 - 1 + 1 : a[j] = path[1 + j - 1]
    BY <2>1, SubSeqProperties
  <2>3. k - 1 - 1 + 1 = k - 1 /\ \A j \in 1 .. k - 1 : 1 + j - 1 = j
    BY <1>1
  <2> HIDE DEF a
  <2> QED
    BY <1>1, <2>2, <2>3
<1>3. b \in Seq(ASN) /\ Len(b) = n - k /\ \A j \in 1 .. n - k : b[j] = path[k + j]
  <2>1. n \in Int /\ k + 1 \in Int /\ \A j \in k + 1 .. n : path[j] \in ASN
    BY <1>1
  <2>2. /\ b \in Seq(ASN) /\ Len(b) = IF k + 1 <= n THEN n - (k + 1) + 1 ELSE 0
        /\ \A j \in 1 .. n - (k + 1) + 1 : b[j] = path[k + 1 + j - 1]
    <3> HIDE DEF n
    <3> QED
      BY <2>1, SubSeqProperties
  <2>3. n - (k + 1) + 1 = n - k /\ k + 1 <= n /\ \A j \in 1 .. n - k : k + 1 + j - 1 = k + j
    BY <1>1
  <2> HIDE DEF b, n
  <2> QED
    BY <1>1, <2>2, <2>3
<1>4. r = a \o b
  BY DEF RemoveAt
<1> HIDE DEF a, b, r, n
<1>5. /\ r \in Seq(ASN) /\ Len(r) = n - 1
      /\ \A j \in 1 .. n - 1 : r[j] = IF j <= k - 1 THEN a[j] ELSE b[j - (k - 1)]
  <2>1. /\ r \in Seq(ASN) /\ Len(r) = Len(a) + Len(b)
        /\ \A j \in 1 .. Len(a) + Len(b) : r[j] = IF j <= Len(a) THEN a[j] ELSE b[j - Len(a)]
    BY <1>2, <1>3, <1>4, ConcatProperties
  <2>2. Len(a) + Len(b) = n - 1
    BY <1>1, <1>2, <1>3
  <2> QED
    BY <1>2, <2>1, <2>2
<1>6. ASSUME NEW j \in 1 .. n - 1
      PROVE  r[j] = path[Place(j)] /\ Place(j) \in 1 .. n
  <2>1. CASE j <= k - 1
    <3>1. j \in 1 .. k - 1 /\ j <= k /\ j \in 1 .. n
      BY <1>1, <2>1
    <3>2. r[j] = path[j]
      BY <1>2, <1>5, <2>1, <3>1
    <3> QED
      BY <3>1, <3>2
  <2>2. CASE j > k - 1
    <3>1. j - (k - 1) \in 1 .. n - k /\ ~(j <= k - 1) /\ k + (j - (k - 1)) = j + 1
      BY <1>1, <2>2
    <3>2. r[j] = path[j + 1]
      BY <1>3, <1>5, <3>1
    <3>3. j = k \/ j > k
      BY <1>1, <2>2
    <3> QED
      BY <1>1, <3>2, <3>3 DEF n
  <2> QED
    BY <1>1, <2>1, <2>2
<1>7. ASSUME NEW j \in 1 .. n - 1
      PROVE  j \in Starts(r) <=> Place(j) \in Starts(path)
  <2>1. j \in Starts(r) <=> (j = 1 \/ r[j] # r[j - 1])
    BY <1>1, <1>5 DEF Starts
  <2>2. Place(j) \in Starts(path) <=> (Place(j) = 1 \/ path[Place(j)] # path[Place(j) - 1])
    BY <1>6 DEF Starts, n
  <2>3. Place(j) = 1 <=> j = 1
    BY <1>1
  <2>4. ASSUME j # 1 PROVE path[Place(j) - 1] = r[j - 1]
    <3>1. j - 1 \in 1 .. n - 1
      BY <1>1, <2>4
    <3>2. r[j - 1] = path[Place(j - 1)]
      BY <1>6, <3>1
    <3>3. CASE j = k + 1
      <4>1. Place(j) - 1 = k + 1 /\ Place(j - 1) = k
        BY <1>1, <3>3
      <4> QED
        BY <3>2, <4>1
    <3>4. CASE j # k + 1
      <4>1. Place(j) - 1 = Place(j - 1)
        BY <1>1, <3>4
      <4> QED
        BY <3>2, <4>1
    <3> QED
      BY <3>3, <3>4
  <2> QED
    BY <1>6, <2>1, <2>2, <2>3, <2>4
<1>8. ASSUME NEW m \in Starts(path) PROVE \E j \in Starts(r) : Place(j) = m
  <2>1. m \in 1 .. n /\ m # k + 1
    <3>1. m \in 1 .. n /\ (m = 1 \/ path[m] # path[m - 1])
      BY DEF Starts, n
    <3>2. k + 1 - 1 = k /\ k + 1 # 1
      BY <1>1
    <3> QED
      BY <3>1, <3>2
  <2>2. \E j \in 1 .. n - 1 : Place(j) = m
    <3>1. CASE m <= k
      <4>1. m \in 1 .. n - 1 /\ Place(m) = m
        BY <1>1, <2>1, <3>1
      <4> QED
        BY <4>1
    <3>2. CASE m > k
      <4>1. m - 1 \in 1 .. n - 1 /\ Place(m - 1) = m
        BY <1>1, <2>1, <3>2
      <4> QED
        BY <4>1
    <3> QED
      BY <1>1, <2>1, <3>1, <3>2
  <2> QED
    BY <1>7, <2>2
<1>9. /\ Starts(r) \subseteq 1 .. n - 1 /\ Starts(path) \subseteq 1 .. n
      /\ \A S \in SUBSET Starts(r) : IsFiniteSet(S)
  BY <1>5, StartsAreFinite DEF n
<1>10. ASSUME NEW j \in Starts(r)
       PROVE  Rank(path, Place(j)) = Rank(r, j)
  <2> DEFINE S == {x \in Starts(r) : x <= j}
             T == {x \in Starts(path) : x <= Place(j)}
             f == [x \in S |-> Place(x)]
  <2>1. \A x, y \in 1 .. n - 1 : (x <= y <=> Place(x) <= Place(y)) /\ (Place(x) = Place(y) => x = y)
    BY <1>1
  <2>2. f \in [S -> T]
    BY <1>7, <1>9, <2>1
  <2>3. \A x, y \in S : f[x] = f[y] => x = y
    BY <1>9, <2>1
  <2>4. \A t \in T : \E x \in S : f[x] = t
    BY <1>8, <1>9, <2>1
  <2> HIDE DEF f, S, T
  <2>5. f \in Bijection(S, T)
    BY <2>2, <2>3, <2>4 DEF Bijection, Injection, Surjection, IsInjective
  <2>6. IsFiniteSet(S)
    BY <1>9 DEF S
  <2>7. Cardinality(T) = Cardinality(S)
    BY <2>5, <2>6, FS_Bijection DEF ExistsBijection
  <2> QED
    BY <2>7 DEF S, T, Rank
<1> DEFINE all == [j \in Starts(r) |-> Place(j)]
<1>11. Cardinality(Starts(path)) = Cardinality(Starts(r))
  <2>1. all \in [Starts(r) -> Starts(path)]
    BY <1>7, <1>9
  <2>2. \A x, y \in Starts(r) : all[x] = all[y] => x = y
    BY <1>1, <1>9
  <2>3. \A t \in Starts(path) : \E x \in Starts(r) : all[x] = t
    BY <1>8
  <2> HIDE DEF all
  <2>4. all \in Bijection(Starts(r), Starts(path))
    BY <2>1, <2>2, <2>3 DEF Bijection, Injection, Surjection, IsInjective
  <2> QED
    BY <1>9, <2>4, FS_Bijection DEF ExistsBijection
<1>12. ASSUME NEW m \in 1 .. Cardinality(Starts(r))
       PROVE  r[KthStart(r, m)] = path[KthStart(path, m)]
  <2>1. KthStart(r, m) \in Starts(r) /\ Rank(r, KthStart(r, m)) = m
    BY <1>5, KthStartExists
  <2>2. KthStart(path, m) \in Starts(path) /\ Rank(path, KthStart(path, m)) = m
    BY <1>11, KthStartExists
  <2>3. PICK j \in Starts(r) : Place(j) = KthStart(path, m)
    BY <1>8, <2>2
  <2>4. Rank(r, j) = m
    BY <1>10, <2>2, <2>3
  <2>5. j = KthStart(r, m)
    BY <1>5, <2>1, <2>4, RanksDiffer
  <2> QED
    BY <1>6, <1>9, <2>1, <2>3, <2>5
<1>13. Dedupe(r) = Dedupe(path)
  BY <1>11, <1>12 DEF Dedupe
<1>14. r[Len(r)] = path[n]
  <2>1. n - 1 \in 1 .. n - 1 /\ (n - 1 = k \/ n - 1 > k) /\ n - 1 + 1 = n
    BY <1>1
  <2>2. r[n - 1] = path[Place(n - 1)]
    BY <1>6, <2>1
  <2>3. path[Place(n - 1)] = path[n]
    BY <1>1, <2>1
  <2> QED
    BY <1>5, <2>2, <2>3
<1> QED
  BY <1>1, <1>5, <1>13, <1>14 DEF r, n

(***************************************************************************)
(* For every path, store and set of VRPs, blame falls where it can.        *)
(***************************************************************************)
THEOREM BlameAlwaysPlausible == Spec => []BlameIsPlausible
<1>1. TypeOK => BlameIsPlausible
  <2> SUFFICES ASSUME TypeOK, NEW known \in VrpSets, NEW set \in BOOLEAN
               PROVE  LET path == in.path
                          out  == Classify(in.edges, known, Announcement(path, set))
                      IN  /\ NoAS \notin ToSet(path) =>
                               (out.vf \in {"leak", "hijack"} <=> out.offender # NoAS)
                          /\ out.vf = "hijack" => out.offender = path[Len(path)]
                          /\ out.vf = "leak" /\ LoopFree(path) =>
                               /\ out.offender \in {path[k] : k \in 2 .. Len(path) - 1}
                               /\ out.offender \notin {path[1], path[Len(path)]}
    BY DEF BlameIsPlausible
  <2> DEFINE path == in.path
             out  == Classify(in.edges, known, Announcement(path, set))
             walk == ClassifyPath(in.edges, path, in.hasASSet)
             origin == OriginAS(path, in.hasASSet /\ set)
             refused == origin # NoAS /\ RovStatus(known, Announced, origin) = "invalid"
  <2>1. path \in Seq(ASN)
    BY InputType DEF TypeOK
  <2>2. /\ refused => out.vf = "hijack" /\ out.offender = origin
        /\ ~refused /\ walk.isLeak => out.vf = "leak" /\ out.offender = walk.offender
        /\ ~refused /\ ~walk.isLeak => out.vf \in {"unknown", "valid"} /\ out.offender = NoAS
    BY ClassifiedAs
  <2>3. origin # NoAS => origin = path[Len(path)]
    BY DEF OriginAS
  <2>4. ASSUME walk.isLeak
        PROVE  /\ \E k \in 2 .. Len(path) - 1 : walk.offender = path[k]
               /\ Len(path) \in Nat
               /\ LoopFree(path) => walk.offender # path[1] /\ walk.offender # path[Len(path)]
    <3>1. PICK n \in 2 .. Cardinality(Starts(path)) - 1 : walk.offender = path[KthStart(path, n)]
      BY <2>1, <2>4, LeakerIs
    <3> HIDE DEF walk
    <3> QED
      BY <2>1, <3>1, InnerStart
  <2>5. ASSUME NEW k \in 2 .. Len(path) - 1 PROVE path[k] \in ToSet(path)
    BY <2>1, LenProperties DEF ToSet
  <2> HIDE DEF path, out, walk, origin
  <2>6. refused \/ (~refused /\ walk.isLeak) \/ (~refused /\ ~walk.isLeak)
    BY Zenon
  <2> HIDE DEF refused
  <2>7. CASE refused
    <3>1. origin # NoAS
      BY <2>7 DEF refused
    <3> QED
      BY <2>2, <2>3, <2>7, <3>1 DEF out, path
  <2>8. CASE ~refused /\ walk.isLeak
    <3>1. out.vf = "leak" /\ out.offender = walk.offender
      BY <2>2, <2>8
    <3>2. /\ NoAS \notin ToSet(path) => out.offender # NoAS
          /\ out.offender \in {path[k] : k \in 2 .. Len(path) - 1}
          /\ LoopFree(path) => out.offender \notin {path[1], path[Len(path)]}
      BY <2>4, <2>5, <2>8, <3>1
    <3> QED
      BY <3>1, <3>2 DEF out, path
  <2>9. CASE ~refused /\ ~walk.isLeak
    BY <2>2, <2>9 DEF out, path
  <2> QED
    BY <2>6, <2>7, <2>8, <2>9
<1> QED
  BY <1>1, WalkTypeCorrect, PTL

(***************************************************************************)
(* For every path, store and set of VRPs, one repetition more or less      *)
(* changes nobody's blame.                                                 *)
(***************************************************************************)
THEOREM PrependingAlwaysKeepsTheBlame == Spec => []PrependingKeepsTheBlame
<1>1. TypeOK => PrependingKeepsTheBlame
  <2> SUFFICES ASSUME TypeOK, NEW known \in VrpSets, NEW set \in BOOLEAN,
                      NEW k \in 1 .. Len(in.path) - 1, in.path[k] = in.path[k + 1]
               PROVE  LET long  == Classify(in.edges, known, Announcement(in.path, set))
                          short == Classify(in.edges, known,
                                            Announcement(RemoveAt(in.path, k), set))
                      IN  /\ short.offender = long.offender
                          /\ short.vf # long.vf => {short.vf, long.vf} = {"valid", "unknown"}
    BY DEF PrependingKeepsTheBlame
  <2> DEFINE path == in.path
             cut == RemoveAt(path, k)
             long == Classify(in.edges, known, Announcement(path, set))
             short == Classify(in.edges, known, Announcement(cut, set))
             walk == ClassifyPath(in.edges, path, in.hasASSet)
             origin == OriginAS(path, in.hasASSet /\ set)
             refused == origin # NoAS /\ RovStatus(known, Announced, origin) = "invalid"
  <2>1. path \in Seq(ASN)
    BY InputType DEF TypeOK
  <2>2. /\ cut \in Seq(ASN) /\ Len(cut) = Len(path) - 1 /\ Len(path) \in Nat
        /\ cut[Len(cut)] = path[Len(path)] /\ Dedupe(cut) = Dedupe(path)
    BY <2>1, FewerRepetitions
  <2>3. ClassifyPath(in.edges, cut, in.hasASSet) = walk
    BY <2>2 DEF ClassifyPath
  <2>4. OriginAS(cut, in.hasASSet /\ set) = origin
    <3>1. cut # <<>> /\ path # <<>>
      <4>1. Len(cut) >= 1 /\ Len(path) >= 1
        BY <2>2
      <4> QED
        BY <4>1, <2>1, <2>2, EmptySeq
    <3> HIDE DEF cut, path
    <3> QED
      BY <2>2, <3>1 DEF OriginAS, path, cut
  <2>5. /\ refused => long.vf = "hijack" /\ long.offender = origin
        /\ ~refused /\ walk.isLeak => long.vf = "leak" /\ long.offender = walk.offender
        /\ ~refused /\ ~walk.isLeak =>
             long.vf \in {"unknown", "valid"} /\ long.offender = NoAS
    BY ClassifiedAs
  <2>6. /\ refused => short.vf = "hijack" /\ short.offender = origin
        /\ ~refused /\ walk.isLeak => short.vf = "leak" /\ short.offender = walk.offender
        /\ ~refused /\ ~walk.isLeak =>
             short.vf \in {"unknown", "valid"} /\ short.offender = NoAS
    <3> HIDE DEF cut, walk
    <3> QED
      BY <2>3, <2>4, ClassifiedAs
  <2> HIDE DEF path, long, short, cut, walk, origin
  <2>7. refused \/ (~refused /\ walk.isLeak) \/ (~refused /\ ~walk.isLeak)
    BY Zenon
  <2> HIDE DEF refused
  <2>8. short.offender = long.offender
        /\ (short.vf = long.vf \/ (short.vf \in {"unknown", "valid"} /\ long.vf \in {"unknown", "valid"}))
    BY <2>5, <2>6, <2>7
  <2>9. short.vf # long.vf => {short.vf, long.vf} = {"valid", "unknown"}
    BY <2>8
  <2> QED
    BY <2>8, <2>9 DEF short, long, cut, path
<1> QED
  BY <1>1, WalkTypeCorrect, PTL

-----------------------------------------------------------------------------
(* Beginnings of bit strings                                               *)

Bits == Seq({0, 1})

LEMMA Beginning ==
  ASSUME NEW q \in Bits, NEW d \in 0 .. Len(q)
  PROVE  /\ SubSeq(q, 1, d) \in Bits /\ Len(SubSeq(q, 1, d)) = d /\ Len(q) \in Nat
         /\ \A k \in 1 .. d : SubSeq(q, 1, d)[k] = q[k]
<1>1. Len(q) \in Nat
  BY LenProperties DEF Bits
<1>2. \A k \in 1 .. d : q[k] \in {0, 1}
  BY <1>1, ElementOfSeq DEF Bits
<1>3. /\ SubSeq(q, 1, d) \in Seq({0, 1})
      /\ Len(SubSeq(q, 1, d)) = IF 1 <= d THEN d - 1 + 1 ELSE 0
      /\ \A k \in 1 .. d - 1 + 1 : SubSeq(q, 1, d)[k] = q[1 + k - 1]
  BY <1>1, <1>2, SubSeqProperties
<1> QED
  BY <1>1, <1>3 DEF Bits

LEMMA BeginningOfBeginning ==
  ASSUME NEW q \in Bits, NEW d \in 0 .. Len(q), NEW e \in 0 .. d
  PROVE  SubSeq(SubSeq(q, 1, d), 1, e) = SubSeq(q, 1, e)
<1>1. Len(q) \in Nat /\ e \in 0 .. Len(q)
  BY Beginning
<1>2. SubSeq(q, 1, d) \in Bits /\ e \in 0 .. Len(SubSeq(q, 1, d))
  BY Beginning
<1>3. \A k \in 1 .. e : k \in 1 .. d
  BY <1>1
<1> QED
  BY <1>1, <1>2, <1>3, Beginning, SeqEqual DEF Bits

LEMMA WholeBeginning ==
  ASSUME NEW q \in Bits
  PROVE  SubSeq(q, 1, Len(q)) = q
<1>1. Len(q) \in Nat /\ Len(q) \in 0 .. Len(q)
  BY LenProperties DEF Bits
<1> QED
  BY <1>1, Beginning, SeqEqual DEF Bits

-----------------------------------------------------------------------------
(* The trie                                                                *)

\* A prefix of its family with whatever else a VRP carries.
WellFormedVRPs ==
  {v \in [fam : Family, bits : Bits, len : Nat, maxLen : Int, origin : Nat] :
     Len(v.bits) = Width[v.fam] /\ v.len <= Width[v.fam]}

(***************************************************************************)
(* A node holds exactly the VRPs of its prefix, and the nodes there are    *)
(* are those on the way to a VRP.  No VRP given is mapped: one that is     *)
(* would be longer than the maxLength it may have.                         *)
(***************************************************************************)
TrieInv ==
  /\ given \subseteq WellFormedVRPs
  /\ \A v \in given : InRange(v) /\ ~Mapped(v)
  /\ seen = {Key(v) : v \in given} /\ IsFiniteSet(seen) /\ size = Cardinality(seen)
  /\ DOMAIN vrps = nodes
  /\ \A n \in nodes : n[1] \in Family /\ Len(n[2]) <= Width[n[1]]
  /\ \A n \in nodes : vrps[n] = {k \in seen : n = <<k.fam, k.bits>>}
  /\ \A k \in seen : PathTo(k.fam, k.bits) \subseteq nodes
  /\ \A n \in nodes : \E k \in seen : n \in PathTo(k.fam, k.bits)

LEMMA TrieInvInit == TrieInit => TrieInv
  BY FS_EmptySet DEF TrieInit, NewBuilder, TrieInv

LEMMA KeyOf ==
  ASSUME NEW v \in WellFormedVRPs
  PROVE  /\ Key(v) \in [fam : Family, bits : Bits, len : Nat, maxLen : Int, origin : Nat]
         /\ Key(v).fam = v.fam /\ Key(v).bits = Masked(v) /\ Key(v).len = v.len
         /\ Key(v).maxLen = v.maxLen /\ Key(v).origin = v.origin
         /\ Masked(v) \in Bits /\ Len(Masked(v)) = v.len /\ v.len <= Width[v.fam]
         /\ v.fam \in Family /\ v.len \in 0 .. Len(v.bits) /\ v.bits \in Bits
<1>1. v.len \in 0 .. Len(v.bits) /\ v.bits \in Bits
  BY DEF WellFormedVRPs
<1>2. Masked(v) \in Bits /\ Len(Masked(v)) = v.len
  BY <1>1, Beginning DEF Masked
<1> QED
  BY <1>1, <1>2 DEF Key, WellFormedVRPs

LEMMA AddStep ==
  ASSUME TrieInv, NEW v \in WellFormedVRPs, InRange(v) => ~Mapped(v), Add(v)
  PROVE  TrieInv'
<1> DEFINE k == Key(v)
           at == <<v.fam, k.bits>>
<1>1. /\ k.fam = v.fam /\ k.bits = Masked(v) /\ k.bits \in Bits /\ Len(k.bits) = v.len
      /\ v.len <= Width[v.fam] /\ v.fam \in Family
  BY KeyOf
<1>0. InRange(v) /\ ~Mapped(v) /\ Unmap(v) = v
  BY DEF Add, Unmap
<1>2. /\ given' = given \cup {v} /\ given' \subseteq WellFormedVRPs
      /\ \A u \in given' : InRange(u) /\ ~Mapped(u)
  BY <1>0 DEF Add, TrieInv
<1>3. CASE k \in seen
  <2>1. UNCHANGED <<nodes, vrps, seen, size>>
    BY <1>3 DEF Add
  <2>2. seen = {Key(u) : u \in given'}
    BY <1>2, <1>3 DEF TrieInv
  <2> QED
    BY <1>2, <2>1, <2>2 DEF TrieInv
<1>4. CASE k \notin seen
  <2>1. /\ nodes' = nodes \cup PathTo(v.fam, k.bits)
        /\ vrps' = [n \in nodes' |->
                      (IF n \in nodes THEN vrps[n] ELSE {}) \cup (IF n = at THEN {k} ELSE {})]
        /\ seen' = seen \cup {k} /\ size' = size + 1
    BY <1>0, <1>1, <1>4 DEF Add, Insert
  <2>2. at \in PathTo(v.fam, k.bits)
    BY <1>1, WholeBeginning, Len(k.bits) \in 0 .. Len(k.bits) DEF PathTo
  <2>3. \A n \in PathTo(v.fam, k.bits) : n[1] \in Family /\ Len(n[2]) <= Width[n[1]]
    <3> TAKE n \in PathTo(v.fam, k.bits)
    <3>1. PICK d \in 0 .. Len(k.bits) : n = <<v.fam, SubSeq(k.bits, 1, d)>>
      BY DEF PathTo
    <3>2. Len(n[2]) = d /\ n[1] = v.fam
      BY <1>1, <3>1, Beginning
    <3>3. Width[v.fam] \in Nat /\ v.len \in Nat
      BY <1>1, RpkiTrieAssumption DEF WellFormedVRPs
    <3> QED
      BY <1>1, <3>2, <3>3
  <2>4. seen' = {Key(u) : u \in given'}
    BY <1>2, <2>1 DEF TrieInv
  <2>5. IsFiniteSet(seen') /\ size' = Cardinality(seen')
    BY <1>4, <2>1, FS_AddElement DEF TrieInv
  <2>6. \A n \in nodes' : vrps'[n] = {j \in seen' : n = <<j.fam, j.bits>>}
    <3> TAKE n \in nodes'
    <3> HIDE DEF k
    <3>1. k.fam = v.fam
      BY <1>1
    <3>2. CASE n \in nodes
      BY <2>1, <3>1, <3>2 DEF TrieInv
    <3>3. CASE n \notin nodes
      <4>1. \A j \in seen : n # <<j.fam, j.bits>>
        <5> TAKE j \in seen
        <5>1. j.bits \in Bits /\ PathTo(j.fam, j.bits) \subseteq nodes
          BY KeyOf DEF TrieInv
        <5>2. Len(j.bits) \in 0 .. Len(j.bits)
          BY <5>1, LenProperties DEF Bits
        <5>3. <<j.fam, j.bits>> \in PathTo(j.fam, j.bits)
          BY <5>1, <5>2, WholeBeginning DEF PathTo
        <5> QED
          BY <3>3, <5>1, <5>3
      <4> QED
        BY <2>1, <3>1, <3>3, <4>1
    <3> QED
      BY <3>2, <3>3
  <2>7. \A j \in seen' : PathTo(j.fam, j.bits) \subseteq nodes'
    BY <1>1, <2>1 DEF TrieInv
  <2>9. \A n \in nodes' : \E j \in seen' : n \in PathTo(j.fam, j.bits)
    BY <1>1, <2>1 DEF TrieInv
  <2>8. DOMAIN vrps' = nodes' /\ \A n \in nodes' : n[1] \in Family /\ Len(n[2]) <= Width[n[1]]
    BY <2>1, <2>3 DEF TrieInv
  <2> QED
    BY <1>2, <2>4, <2>5, <2>6, <2>7, <2>8, <2>9 DEF TrieInv
<1> QED
  BY <1>3, <1>4

\* An address without the host bits of a prefix is mapped only if the prefix ends
\* behind the marker, whose last bit is 1.
LEMMA Cleared ==
  ASSUME NEW f \in Family, NEW bits \in [1 .. Width[f] -> {0, 1}], NEW len \in 0 .. Width[f]
  PROVE  LET b == [k \in DOMAIN bits |-> IF k <= len THEN bits[k] ELSE 0]
         IN  /\ b \in Bits /\ Len(b) = Width[f] /\ Width[f] \in Nat
             /\ f = "v6" /\ SubSeq(b, 1, Len(Marker)) = Marker =>
                  Len(Marker) <= len /\ Width["v4"] < len
<1> DEFINE b == [k \in DOMAIN bits |-> IF k <= len THEN bits[k] ELSE 0]
<1>1. Width[f] \in Nat /\ b \in [1 .. Width[f] -> {0, 1}]
  BY RpkiTrieAssumption
<1>2. \A k \in 1 .. Width[f] : b[k] = 1 => k <= len
  OBVIOUS
<1> HIDE DEF b
<1>3. b \in Bits /\ Len(b) = Width[f]
  BY <1>1, IsASeq, LenProperties DEF Bits
<1>4. ASSUME f = "v6", SubSeq(b, 1, Len(Marker)) = Marker
      PROVE  Len(Marker) <= len /\ Width["v4"] < len
  <2>1. /\ Marker \in Seq({0, 1}) /\ Len(Marker) \in Nat /\ Width["v4"] \in Nat
        /\ Len(Marker) + Width["v4"] = Width["v6"]
        /\ Width["v4"] < Len(Marker) /\ Marker[Len(Marker)] = 1
    BY RpkiTrieAssumption, LenProperties DEF Family
  <2>2. Len(Marker) \in 1 .. Len(Marker) /\ Len(Marker) \in 0 .. Len(b)
    BY <1>3, <1>4, <2>1
  <2>3. SubSeq(b, 1, Len(Marker))[Len(Marker)] = b[Len(Marker)]
    BY <1>3, <2>2, Beginning
  <2>4. b[Len(Marker)] = 1 /\ Len(Marker) \in 1 .. Width[f]
    BY <1>3, <1>4, <2>1, <2>2, <2>3
  <2> QED
    BY <1>2, <2>1, <2>4
<1> QED
  BY <1>1, <1>3, <1>4 DEF b

\* What the callers hand in is well formed, and its maxLength may be anything.
LEMMA HandedIn ==
  ASSUME NEW e \in Entries
  PROVE  /\ HostBitsCleared(e) \in WellFormedVRPs
         /\ HostBitsCleared(e).maxLen = e.maxLen /\ e.maxLen \in Int /\ e.len \in Int
         /\ \A m \in Int : LET v == [HostBitsCleared(e) EXCEPT !.maxLen = m]
                           IN  v \in WellFormedVRPs /\ (InRange(v) => ~Mapped(v))
         /\ InRange(HostBitsCleared(e)) => ~Mapped(HostBitsCleared(e))
<1>1. PICK f \in Family :
        e \in [fam : {f}, bits : [1 .. Width[f] -> {0, 1}], len : 0 .. Width[f],
               maxLen : {Absent} \cup 0 .. Width[f] + 1, origin : Origin]
  BY DEF Entries
<1>2. Width[f] \in Nat /\ e.maxLen \in Int /\ e.origin \in Nat /\ e.len \in 0 .. Width[f]
  <2>1. Width[f] \in Nat /\ Origin \subseteq Nat
    BY RpkiTrieAssumption
  <2>2. e.maxLen \in {Absent} \cup 0 .. Width[f] + 1 /\ e.origin \in Origin /\ e.len \in 0 .. Width[f]
    BY <1>1
  <2>3. Absent \in Int
    BY DEF Absent
  <2>4. e.maxLen \in Int
    BY <2>1, <2>2, <2>3
  <2>5. e.origin \in Nat
    BY <2>1, <2>2
  <2> QED
    BY <2>1, <2>2, <2>4, <2>5
<1> DEFINE b == [k \in DOMAIN e.bits |-> IF k <= e.len THEN e.bits[k] ELSE 0]
<1>3. /\ b \in Bits /\ Len(b) = Width[f]
      /\ f = "v6" /\ SubSeq(b, 1, Len(Marker)) = Marker => Width["v4"] < e.len
  <2>1. e.bits \in [1 .. Width[f] -> {0, 1}]
    BY <1>1
  <2> QED
    BY <1>2, <2>1, Cleared
<1>4. HostBitsCleared(e) = [fam |-> f, bits |-> b, len |-> e.len, maxLen |-> e.maxLen,
                            origin |-> e.origin]
  BY <1>1 DEF HostBitsCleared
<1> HIDE DEF b
<1>5. ASSUME NEW m \in Int
      PROVE  LET v == [HostBitsCleared(e) EXCEPT !.maxLen = m]
             IN  v \in WellFormedVRPs /\ (InRange(v) => ~Mapped(v))
  <2> DEFINE v == [HostBitsCleared(e) EXCEPT !.maxLen = m]
  <2>1. v = [fam |-> f, bits |-> b, len |-> e.len, maxLen |-> m, origin |-> e.origin]
    BY <1>4
  <2>2. v \in WellFormedVRPs
    BY <1>2, <1>3, <2>1 DEF WellFormedVRPs
  <2>3. Mapped(v) => f = "v6" /\ Width["v4"] < e.len /\ Unmap(v).fam = "v4"
    BY <1>3, <2>1 DEF Mapped, Unmap
  <2>4. InRange(v) => e.len <= m /\ m <= Width[Unmap(v).fam]
    BY <2>1 DEF InRange
  <2>5. Width["v4"] \in Nat
    BY RpkiTrieAssumption DEF Family
  <2> HIDE DEF v
  <2>6. InRange(v) => ~Mapped(v)
    BY <1>2, <2>3, <2>4, <2>5
  <2> QED
    BY <2>2, <2>6 DEF v
<1>6. HostBitsCleared(e) = [HostBitsCleared(e) EXCEPT !.maxLen = e.maxLen]
  BY <1>4
<1> QED
  BY <1>2, <1>4, <1>5, <1>6

LEMMA TrieInvStep == TrieInv /\ [TrieNext]_trieVars => TrieInv'
<1> SUFFICES ASSUME TrieInv, [TrieNext]_trieVars PROVE TrieInv'
  OBVIOUS
<1>1. ASSUME UNCHANGED <<nodes, vrps, seen, size, given>> PROVE TrieInv'
  BY <1>1 DEF TrieInv
<1>2. ASSUME NEW e \in Entries, LoadEntry(e) PROVE TrieInv'
  <2> DEFINE m == IF e.maxLen = Absent THEN e.len ELSE e.maxLen
             v == [HostBitsCleared(e) EXCEPT !.maxLen = IF @ = Absent THEN e.len ELSE @]
  <2>1. v \in WellFormedVRPs /\ (InRange(v) => ~Mapped(v))
    <3>1. HostBitsCleared(e) \in WellFormedVRPs /\ HostBitsCleared(e).maxLen = e.maxLen
      BY HandedIn
    <3>2. v = [HostBitsCleared(e) EXCEPT !.maxLen = m]
      BY <3>1
    <3>3. m \in Int
      BY HandedIn
    <3> QED
      BY <3>2, <3>3, HandedIn
  <2>2. Add(v) \/ Refuse(v)
    BY <1>2 DEF LoadEntry
  <2> HIDE DEF v
  <2> QED
    BY <1>1, <2>1, <2>2, AddStep DEF Refuse
<1>3. ASSUME NEW e \in Entries, CommitVRP(e) PROVE TrieInv'
  BY <1>1, <1>3, HandedIn, AddStep DEF CommitVRP, Refuse
<1> QED
  BY <1>1, <1>2, <1>3 DEF TrieNext, UnparsableEntry, TrieEnded, trieVars

-----------------------------------------------------------------------------
(* The answer                                                              *)

LEMMA TrieKeepsEachOnce == TrieInv => EachOnce
  BY DEF TrieInv, EachOnce

\* What is looked up, mapped or not.
LEMMA LookedUp ==
  ASSUME NEW p \in Announceable
  PROVE  LET u == Unmap(p)
         IN  /\ u.bits \in Bits /\ u.fam \in Family /\ Len(u.bits) = Width[u.fam]
             /\ u.len = p.len /\ p.len \in Nat
             /\ ~Mapped(p) => u = p /\ p.len <= Width[u.fam]
             /\ Mapped(p) => u.fam = "v4" /\ Width["v4"] < p.len
<1>1. PICK f \in Family :
        \E e \in [fam : {f}, bits : [1 .. Width[f] -> {0, 1}], len : 0 .. Width[f]] :
          p = HostBitsCleared(e)
  BY DEF Announceable, AnyPrefix
<1>2. PICK e \in [fam : {f}, bits : [1 .. Width[f] -> {0, 1}], len : 0 .. Width[f]] :
        p = HostBitsCleared(e)
  BY <1>1
<1> DEFINE b == [k \in DOMAIN e.bits |-> IF k <= e.len THEN e.bits[k] ELSE 0]
<1>3. p = [fam |-> f, bits |-> b, len |-> e.len]
  BY <1>2 DEF HostBitsCleared
<1>4. /\ b \in Bits /\ Len(b) = Width[f] /\ Width[f] \in Nat /\ e.len \in 0 .. Width[f]
      /\ f = "v6" /\ SubSeq(b, 1, Len(Marker)) = Marker => Width["v4"] < e.len
  BY <1>2, Cleared
<1> HIDE DEF b
<1>5. CASE ~Mapped(p)
  BY <1>3, <1>4, <1>5 DEF Unmap
<1>6. CASE Mapped(p)
  <2>1. f = "v6" /\ Width["v4"] < e.len
    BY <1>3, <1>4, <1>6 DEF Mapped
  <2> DEFINE rest == SubSeq(b, Len(Marker) + 1, Width["v6"])
  <2>2. Unmap(p) = [fam |-> "v4", bits |-> rest, len |-> e.len]
    BY <1>3, <1>6 DEF Unmap
  <2>3. /\ Len(Marker) \in Nat /\ Width["v4"] \in Nat /\ Width["v6"] \in Nat
        /\ Len(Marker) + Width["v4"] = Width["v6"]
    BY RpkiTrieAssumption, LenProperties DEF Family
  <2>4. \A k \in Len(Marker) + 1 .. Width["v6"] : b[k] \in {0, 1}
    BY <1>4, <2>1, <2>3, ElementOfSeq DEF Bits
  <2>5. /\ rest \in Bits
        /\ Len(rest) = IF Len(Marker) + 1 <= Width["v6"]
                       THEN Width["v6"] - (Len(Marker) + 1) + 1 ELSE 0
    BY <2>3, <2>4, SubSeqProperties DEF Bits
  <2> HIDE DEF rest
  <2>6. Len(rest) = Width["v4"]
    BY <2>3, <2>5
  <2> QED
    BY <1>3, <1>4, <1>6, <2>1, <2>2, <2>5, <2>6 DEF Family
<1> QED
  BY <1>5, <1>6

\* How far the walk goes, and what it walks along.
Reach(u) == IF u.len <= Width[u.fam] THEN u.len ELSE Width[u.fam]

LEMMA Walking ==
  ASSUME NEW p \in Announceable
  PROVE  LET u == Unmap(p)
         IN  /\ Reach(u) \in 0 .. Len(u.bits) /\ Reach(u) \in Nat /\ Reach(u) <= u.len
             /\ \A d \in 0 .. u.len : d <= Width[u.fam] => d \in 0 .. Reach(u)
             /\ \A d \in 0 .. Reach(u) :
                  /\ SubSeq(u.bits, 1, d) \in Bits /\ Len(SubSeq(u.bits, 1, d)) = d
             /\ Descent(p) =
                  {n \in {<<u.fam, SubSeq(u.bits, 1, d)>> : d \in 0 .. Reach(u)} :
                     \A d \in 0 .. Len(n[2]) : <<u.fam, SubSeq(n[2], 1, d)>> \in nodes}
<1> DEFINE u == Unmap(p)
<1>1. /\ u.bits \in Bits /\ u.fam \in Family /\ Len(u.bits) = Width[u.fam]
      /\ u.len \in Nat /\ Width[u.fam] \in Nat
  BY LookedUp, RpkiTrieAssumption
<1> HIDE DEF u
<1>2. Reach(u) \in 0 .. Len(u.bits) /\ Reach(u) \in Nat /\ Reach(u) <= u.len
  BY <1>1 DEF Reach
<1>3. \A d \in 0 .. u.len : d <= Width[u.fam] => d \in 0 .. Reach(u)
  BY <1>1 DEF Reach
<1>4. \A d \in 0 .. Reach(u) :
        SubSeq(u.bits, 1, d) \in Bits /\ Len(SubSeq(u.bits, 1, d)) = d
  BY <1>1, <1>2, Beginning
<1> DEFINE walked == SubSeq(u.bits, 1, Reach(u))
<1>5. /\ Len(walked) = Reach(u)
      /\ \A d \in 0 .. Reach(u) : SubSeq(walked, 1, d) = SubSeq(u.bits, 1, d)
  BY <1>1, <1>2, <1>4, BeginningOfBeginning
<1>6. Descent(p) = {n \in PathTo(u.fam, walked) :
                      \A d \in 0 .. Len(n[2]) : <<u.fam, SubSeq(n[2], 1, d)>> \in nodes}
  BY DEF Descent, Reach, u
<1>7. PathTo(u.fam, walked) = {<<u.fam, SubSeq(u.bits, 1, d)>> : d \in 0 .. Reach(u)}
  BY <1>5 DEF PathTo
<1> QED
  BY <1>2, <1>3, <1>4, <1>6, <1>7 DEF u

\* The VRPs on the way down the bits looked up are those that cover them.
LEMMA DescentFindsCovering ==
  ASSUME TrieInv, NEW p \in Announceable
  PROVE  UNION {vrps[n] : n \in Descent(p)} =
           {Key(v) : v \in {w \in given : Covers(w, Unmap(p))}}
<1> DEFINE u == Unmap(p)
<1>1. /\ Reach(u) \in 0 .. Len(u.bits) /\ Reach(u) \in Nat /\ Reach(u) <= u.len
      /\ \A d \in 0 .. u.len : d <= Width[u.fam] => d \in 0 .. Reach(u)
      /\ \A d \in 0 .. Reach(u) :
           SubSeq(u.bits, 1, d) \in Bits /\ Len(SubSeq(u.bits, 1, d)) = d
      /\ Descent(p) = {n \in {<<u.fam, SubSeq(u.bits, 1, d)>> : d \in 0 .. Reach(u)} :
                         \A d \in 0 .. Len(n[2]) : <<u.fam, SubSeq(n[2], 1, d)>> \in nodes}
  BY Walking
<1>0. u.bits \in Bits /\ Len(u.bits) = Width[u.fam] /\ u.len \in Nat /\ u.fam \in Family
  BY LookedUp
<1> HIDE DEF u
<1>3. ASSUME NEW n \in Descent(p), NEW k \in vrps[n]
      PROVE  \E v \in given : Covers(v, u) /\ k = Key(v)
  <2>1. PICK d \in 0 .. Reach(u) : n = <<u.fam, SubSeq(u.bits, 1, d)>>
    BY <1>1
  <2>2. Len(n[2]) = d /\ n[2] \in Bits /\ d \in 0 .. d
    BY <1>1, <2>1
  <2>3. <<u.fam, SubSeq(n[2], 1, d)>> \in nodes
    BY <1>1, <2>2
  <2>4. n \in nodes
    BY <2>1, <2>2, <2>3, WholeBeginning
  <2>5. k \in seen /\ n = <<k.fam, k.bits>>
    BY <2>4 DEF TrieInv
  <2>6. PICK v \in given : k = Key(v) /\ v \in WellFormedVRPs
    BY <2>5 DEF TrieInv
  <2>7. v.fam = u.fam /\ Masked(v) = SubSeq(u.bits, 1, d) /\ v.len = d
    BY <2>1, <2>2, <2>5, <2>6, KeyOf
  <2>8. d <= u.len
    BY <1>0, <1>1
  <2> QED
    BY <2>6, <2>7, <2>8 DEF Covers
<1>4. ASSUME NEW v \in given, Covers(v, u)
      PROVE  \E n \in Descent(p) : Key(v) \in vrps[n]
  <2>1. /\ Key(v).fam = v.fam /\ Key(v).bits = Masked(v) /\ Masked(v) \in Bits
        /\ Len(Masked(v)) = v.len /\ Key(v) \in seen
        /\ PathTo(v.fam, Masked(v)) \subseteq nodes
    BY KeyOf DEF TrieInv
  <2>2. v.fam = u.fam /\ v.len <= u.len /\ Masked(v) = SubSeq(u.bits, 1, v.len)
        /\ v.len \in Nat /\ v.len <= Width[u.fam]
    BY <1>4 DEF Covers, TrieInv, WellFormedVRPs
  <2>3. v.len \in 0 .. Reach(u)
    BY <1>0, <1>1, <2>2
  <2> DEFINE n == <<u.fam, Masked(v)>>
  <2>4. \A d \in 0 .. Len(n[2]) : <<u.fam, SubSeq(n[2], 1, d)>> \in nodes
    BY <2>1, <2>2 DEF PathTo
  <2>5. n \in nodes
    BY <2>1, <2>2, <2>4, WholeBeginning, Len(Masked(v)) \in 0 .. Len(Masked(v))
  <2>6. n \in Descent(p)
    BY <1>1, <2>2, <2>3, <2>4
  <2>7. Key(v) \in vrps[n]
    BY <2>1, <2>2, <2>5 DEF TrieInv
  <2> QED
    BY <2>6, <2>7
<1>5. UNION {vrps[n] : n \in Descent(p)} \subseteq {Key(v) : v \in {w \in given : Covers(w, u)}}
  BY <1>3
<1>6. {Key(v) : v \in {w \in given : Covers(w, u)}} \subseteq UNION {vrps[n] : n \in Descent(p)}
  BY <1>4
<1> QED
  BY <1>5, <1>6 DEF u

\* The walk goes out of range over a VRP for the whole address, and over nothing else.
LEMMA OverrunsOverHostVRP ==
  ASSUME TrieInv, NEW p \in Announceable, Mapped(p)
  PROVE  Overruns(p) <=> \E v \in given : Covers(v, Unmap(p)) /\ v.len = Width["v4"]
<1> DEFINE u == Unmap(p)
           n == <<u.fam, u.bits>>
<1>0. /\ u.bits \in Bits /\ Len(u.bits) = Width["v4"] /\ u.fam = "v4" /\ u.len \in Nat
      /\ Width["v4"] < u.len /\ Width["v4"] \in Nat
  BY LookedUp, RpkiTrieAssumption DEF Family
<1>1. /\ Descent(p) = {m \in {<<u.fam, SubSeq(u.bits, 1, d)>> : d \in 0 .. Reach(u)} :
                         \A d \in 0 .. Len(m[2]) : <<u.fam, SubSeq(m[2], 1, d)>> \in nodes}
      /\ Overruns(p) <=> u.len > Width[u.fam] /\ n \in Descent(p)
  BY Walking DEF Overruns
<1> HIDE DEF u
<1>2. Reach(u) = Width["v4"] /\ SubSeq(u.bits, 1, Width["v4"]) = u.bits
  BY <1>0, WholeBeginning DEF Reach
<1>3. ASSUME Overruns(p) PROVE \E v \in given : Covers(v, u) /\ v.len = Width["v4"]
  <2>0. n[2] = u.bits /\ Width["v4"] \in 0 .. Len(n[2])
    BY <1>0
  <2>1. <<u.fam, SubSeq(n[2], 1, Width["v4"])>> \in nodes
    <3>1. n \in Descent(p)
      BY <1>1, <1>3
    <3> HIDE DEF n
    <3> QED
      BY <1>1, <2>0, <3>1
  <2>2. n \in nodes
    BY <1>2, <2>0, <2>1
  <2>3. PICK k \in seen : n \in PathTo(k.fam, k.bits)
    BY <2>2 DEF TrieInv
  <2>4. PICK v \in given : k = Key(v) /\ v \in WellFormedVRPs
    BY DEF TrieInv
  <2>5. PICK d \in 0 .. Len(k.bits) : n = <<k.fam, SubSeq(k.bits, 1, d)>>
    BY <2>3 DEF PathTo
  <2>6. /\ k.fam = v.fam /\ k.bits = Masked(v) /\ k.bits \in Bits /\ Len(k.bits) = v.len
        /\ v.len <= Width[v.fam] /\ v.len \in Nat
    BY <2>4, KeyOf DEF WellFormedVRPs
  <2>7. v.fam = "v4" /\ u.bits = SubSeq(k.bits, 1, d) /\ Len(SubSeq(k.bits, 1, d)) = d
    BY <1>0, <2>5, <2>6, Beginning
  <2>8. d = Width["v4"] /\ v.len = Width["v4"]
    BY <1>0, <2>6, <2>7
  <2>9. Masked(v) = u.bits
    BY <2>6, <2>7, <2>8, WholeBeginning
  <2>10. Masked(v) = SubSeq(u.bits, 1, v.len) /\ v.len <= u.len
    BY <1>0, <1>2, <2>8, <2>9
  <2> QED
    BY <1>0, <2>4, <2>7, <2>8, <2>10 DEF Covers
<1>4. ASSUME NEW v \in given, Covers(v, u), v.len = Width["v4"] PROVE Overruns(p)
  <2>1. v.fam = u.fam /\ Masked(v) = u.bits
    BY <1>2, <1>4 DEF Covers
  <2>2. PathTo(u.fam, u.bits) \subseteq nodes
    BY <2>1, KeyOf DEF TrieInv
  <2>3. \A d \in 0 .. Len(n[2]) : <<u.fam, SubSeq(n[2], 1, d)>> \in nodes
    BY <2>2 DEF PathTo
  <2>4. n \in {<<u.fam, SubSeq(u.bits, 1, d)>> : d \in 0 .. Reach(u)}
    BY <1>0, <1>2
  <2> QED
    BY <1>0, <1>1, <2>3, <2>4
<1> QED
  BY <1>3, <1>4 DEF u

LEMMA AnswersUnmapped == TrieInv => AnswersRfc6811
<1> SUFFICES ASSUME TrieInv, NEW p \in Announceable, NEW o \in Origin \cup {NoAS}, ~Mapped(p)
             PROVE  Validate(p, o) = RovStatus(given, p, o)
  BY DEF AnswersRfc6811
<1> DEFINE covering == {w \in given : Covers(w, p)}
           found == {Key(v) : v \in covering}
<1>0. Unmap(p) = p /\ ~Overruns(p)
  <2>1. Unmap(p) = p /\ p.len <= Width[p.fam] /\ p.len \in Nat /\ Width[p.fam] \in Nat
    BY LookedUp, RpkiTrieAssumption
  <2> QED
    BY <2>1 DEF Overruns
<1>1. Validate(p, o) = Verdict(found, p, o)
  BY <1>0, DescentFindsCovering DEF Validate
<1>2. \A v \in covering : Matches(Key(v), p, o) <=> Matches(v, p, o)
  BY KeyOf DEF Matches, TrieInv
<1>3. (\E k \in found : Matches(k, p, o)) <=> (\E v \in covering : Matches(v, p, o))
  BY <1>2
<1>4. found # {} <=> covering # {}
  OBVIOUS
<1> HIDE DEF found, covering
<1>5. Verdict(found, p, o) = Verdict(covering, p, o)
  BY <1>3, <1>4 DEF Verdict
<1> QED
  BY <1>1, <1>5 DEF RovStatus, covering

LEMMA AnswersMapped == TrieInv => MappedAnswers
<1> SUFFICES ASSUME TrieInv, NEW p \in Announceable, NEW o \in Origin \cup {NoAS}, Mapped(p)
             PROVE  LET above == {v \in given : Covers(v, Unmap(p))}
                    IN  Validate(p, o) = IF \E v \in above : v.len = Width["v4"] THEN "panic"
                                         ELSE IF above # {} THEN "invalid" ELSE "notfound"
  BY DEF MappedAnswers, TrieInv
<1> DEFINE above == {v \in given : Covers(v, Unmap(p))}
           found == {Key(v) : v \in above}
<1>1. Overruns(p) <=> \E v \in above : v.len = Width["v4"]
  BY OverrunsOverHostVRP
<1>2. ~Overruns(p) => Validate(p, o) = Verdict(found, p, o)
  BY DescentFindsCovering DEF Validate
<1>3. \A v \in above : ~Matches(Key(v), p, o)
  <2> TAKE v \in above
  <2>1. v.fam = "v4" /\ InRange(v) /\ ~Mapped(v) /\ v \in WellFormedVRPs
    BY LookedUp DEF Covers, TrieInv
  <2>2. v.maxLen <= Width["v4"] /\ Key(v).maxLen = v.maxLen
    BY <2>1, KeyOf DEF InRange, Unmap
  <2>3. /\ Width["v4"] < p.len /\ p.len \in Nat /\ Width["v4"] \in Nat
        /\ v.maxLen \in Int
    BY <2>1, LookedUp, RpkiTrieAssumption DEF Family, WellFormedVRPs
  <2> QED
    BY <2>2, <2>3 DEF Matches
<1>4. (found # {} <=> above # {}) /\ ~(\E k \in found : Matches(k, p, o))
  BY <1>3
<1>5. Validate(p, o) = "panic" <=> Overruns(p)
  BY <1>2, <1>4 DEF Validate, Verdict
<1> HIDE DEF found, above
<1>6. Verdict(found, p, o) = IF above # {} THEN "invalid" ELSE "notfound"
  BY <1>4 DEF Verdict
<1>7. Validate(p, o) = IF \E v \in above : v.len = Width["v4"] THEN "panic"
                       ELSE IF above # {} THEN "invalid" ELSE "notfound"
  BY <1>1, <1>2, <1>5, <1>6
<1> QED
  BY <1>7 DEF above

(***************************************************************************)
(* For addresses of any width and any number of VRPs, the trie answers     *)
(* what RFC 6811 says of what it was given, an announcement that is        *)
(* IPv4-mapped apart; that one is never "valid", and gets "invalid" or a   *)
(* panic over IPv4 VRPs that do not cover it (store.go: Add, Validate,     *)
(* Unmap; jsonload.go: LoadVRPsJSON; client.go: commit).                   *)
(***************************************************************************)
THEOREM TrieAnswers == TrieSpec => []ValidateAnswers
<1>1. TrieInv => ValidateAnswers
  BY TrieKeepsEachOnce, AnswersUnmapped, AnswersMapped DEF ValidateAnswers
<1> QED
  BY <1>1, TrieInvInit, TrieInvStep, PTL DEF TrieSpec

=============================================================================
