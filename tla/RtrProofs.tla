----------------------------- MODULE RtrProofs ------------------------------
(***************************************************************************)
(* While no poll or notify overtakes an answer, the classifier only ever   *)
(* sees the cache's own tables, for any set of VRPs, any number of tables, *)
(* restarts and failures.                                                  *)
(***************************************************************************)
EXTENDS Rtr, FiniteSetTheorems, SequenceTheorems, TLAPS

Change == [type : {"prefix"}, vrp : Vrp, announce : BOOLEAN]

Response == [type |-> "response", session |-> cSession]
Eod(s) == [type |-> "eod", session |-> cSession, serial |-> s]

(***************************************************************************)
(* The invariant: what is on its way between the two, and what that means  *)
(* for the table that the client is putting together.                      *)
(***************************************************************************)
UpToDate ==
  /\ sessionID = cSession /\ hasSerial /\ serial \in DOMAIN tables
  /\ current = tables[serial] /\ live = current \cap WellFormed

Base == IF fullSync THEN {} ELSE current

\* What the client has yet to read: the PDUs sent and those to be sent.
Coming == toClient \o answer

Idle == Quiet /\ UpToDate

Asked ==
  /\ answer = <<>> /\ toClient = <<>>
  /\ \/ toCache = <<ResetQuery>> /\ fullSync
     \/ toCache = <<SerialQuery>> /\ ~fullSync /\ UpToDate

\* The whole answer is to be read: it will make the table of its serial.
Answered ==
  /\ toCache = <<>>
  /\ \E changes \in Seq(Change), s \in DOMAIN tables :
       /\ Coming = <<Response>> \o (changes \o <<Eod(s)>>)
       /\ After(Base, changes) = tables[s]

\* The rest of the answer, with what was read of it, will.
Reading ==
  /\ toCache = <<>>
  /\ \E rest \in Seq(Change), s \in DOMAIN tables :
       /\ Coming = rest \o <<Eod(s)>>
       /\ pending \in Seq(Change) /\ After(Base, pending \o rest) = tables[s]

Notified ==
  toCache = <<>> /\ answer = <<>> /\ toClient = <<[type |-> "notify"]>> /\ UpToDate

Refused == toCache = <<>> /\ Coming = <<[type |-> "cacheReset"]>>

Failed ==
  /\ toCache = <<>> /\ answer = <<>>
  /\ \E f \in BOOLEAN : toClient = <<[type |-> "error", fatal |-> f]>>

Inv ==
  /\ ~Overlap
  /\ tables \in Seq(SUBSET Vrp) /\ tables # <<>>
  /\ \A s \in DOMAIN tables : tables[s] \in ever
  /\ LiveWasATable
  /\ run # "connected" => Quiet
  /\ run = "connected" =>
       Idle \/ Asked \/ Answered \/ Reading \/ Notified \/ Refused \/ Failed

-----------------------------------------------------------------------------
(* Queues                                                                  *)

LEMMA FrontOf ==
  ASSUME NEW S, NEW x \in S, NEW q \in Seq(S)
  PROVE  /\ <<x>> \o q \in Seq(S) /\ <<x>> \o q # <<>>
         /\ Head(<<x>> \o q) = x /\ Tail(<<x>> \o q) = q
<1>1. <<x>> \in Seq(S) /\ Len(<<x>>) = 1 /\ <<x>>[1] = x
  OBVIOUS
<1>2. /\ <<x>> \o q \in Seq(S) /\ Len(<<x>> \o q) = 1 + Len(q) /\ Len(q) \in Nat
      /\ \A k \in 1 .. 1 + Len(q) : (<<x>> \o q)[k] = IF k <= 1 THEN <<x>>[k] ELSE q[k - 1]
  BY <1>1, ConcatProperties, LenProperties
<1>3. <<x>> \o q # <<>>
  BY <1>2, EmptySeq
<1> DEFINE c == <<x>> \o q
<1>4. c \in Seq(S) /\ c # <<>> /\ Len(c) = 1 + Len(q) /\ c[1] = x
      /\ \A k \in 1 .. Len(q) : c[k + 1] = q[k]
  BY <1>1, <1>2, <1>3
<1> HIDE DEF c
<1>5. /\ Tail(c) \in Seq(S) /\ Len(Tail(c)) = Len(q) /\ Head(c) = x
      /\ \A k \in 1 .. Len(Tail(c)) : Tail(c)[k] = c[k + 1]
  BY <1>2, <1>4, HeadTailProperties
<1>6. Tail(c) = q
  BY <1>4, <1>5, SeqEqual
<1> QED
  BY <1>4, <1>5, <1>6 DEF c

\* What is read moves from the queue to what was read.
LEMMA ReadOn ==
  ASSUME NEW S, NEW p \in Seq(S), NEW q \in Seq(S), q # <<>>
  PROVE  /\ Head(q) \in S /\ Tail(q) \in Seq(S) /\ Append(p, Head(q)) \in Seq(S)
         /\ Append(p, Head(q)) \o Tail(q) = p \o q
         /\ q = <<Head(q)>> \o Tail(q)
<1>1. /\ Head(q) \in S /\ Tail(q) \in Seq(S) /\ Head(q) = q[1]
      /\ Len(q) \in Nat \ {0} /\ Len(Tail(q)) = Len(q) - 1 /\ Len(p) \in Nat
      /\ \A k \in 1 .. Len(q) - 1 : Tail(q)[k] = q[k + 1]
  BY HeadTailProperties, LenProperties, EmptySeq
<1>2. /\ Append(p, Head(q)) \in Seq(S) /\ Len(Append(p, Head(q))) = Len(p) + 1
      /\ Append(p, Head(q))[Len(p) + 1] = q[1]
      /\ \A k \in 1 .. Len(p) : Append(p, Head(q))[k] = p[k]
  BY <1>1, AppendProperties
<1> DEFINE a == Append(p, Head(q))
           l == a \o Tail(q)
           r == p \o q
<1> HIDE DEF a
<1>3. /\ l \in Seq(S) /\ Len(l) = (Len(p) + 1) + (Len(q) - 1)
      /\ \A k \in 1 .. Len(p) + Len(q) :
           l[k] = IF k <= Len(p) + 1 THEN a[k] ELSE Tail(q)[k - (Len(p) + 1)]
  BY <1>1, <1>2, ConcatProperties DEF a
<1>4. /\ r \in Seq(S) /\ Len(r) = Len(p) + Len(q)
      /\ \A k \in 1 .. Len(p) + Len(q) : r[k] = IF k <= Len(p) THEN p[k] ELSE q[k - Len(p)]
  BY <1>1, ConcatProperties
<1>5. \A k \in 1 .. Len(p) + Len(q) : l[k] = r[k]
  <2> TAKE k \in 1 .. Len(p) + Len(q)
  <2> HIDE DEF l, r
  <2>1. CASE k <= Len(p)
    BY <1>1, <1>2, <1>3, <1>4, <2>1 DEF a
  <2>2. CASE k = Len(p) + 1
    BY <1>1, <1>2, <1>3, <1>4, <2>2 DEF a
  <2>3. CASE k > Len(p) + 1
    <3>1. k - (Len(p) + 1) \in 1 .. Len(q) - 1 /\ (k - (Len(p) + 1)) + 1 = k - Len(p)
      BY <1>1, <2>3
    <3> QED
      BY <1>1, <1>3, <1>4, <2>3, <3>1
  <2> QED
    BY <1>1, <2>1, <2>2, <2>3
<1>6. l = r
  <2> HIDE DEF l, r
  <2> QED
    BY <1>1, <1>3, <1>4, <1>5, SeqEqual
<1>7. q = <<Head(q)>> \o Tail(q)
  <2> DEFINE c == <<Head(q)>> \o Tail(q)
  <2>1. <<Head(q)>> \in Seq(S) /\ Len(<<Head(q)>>) = 1 /\ <<Head(q)>>[1] = q[1]
    BY <1>1
  <2>2. /\ c \in Seq(S) /\ Len(c) = 1 + (Len(q) - 1)
        /\ \A k \in 1 .. 1 + (Len(q) - 1) :
             c[k] = IF k <= 1 THEN <<Head(q)>>[k] ELSE Tail(q)[k - 1]
    BY <1>1, <2>1, ConcatProperties
  <2> HIDE DEF c
  <2>3. \A k \in 1 .. Len(q) : q[k] = c[k]
    BY <1>1, <2>1, <2>2
  <2>4. q = c
    BY <1>1, <2>2, <2>3, SeqEqual
  <2> QED
    BY <2>4 DEF c
<1> QED
  BY <1>1, <1>2, <1>6, <1>7 DEF a

-----------------------------------------------------------------------------
(* Answers                                                                 *)

LEMMA SetToSeqIs ==
  ASSUME NEW S, IsFiniteSet(S)
  PROVE  /\ Cardinality(S) \in Nat /\ SetToSeq(S) \in [1 .. Cardinality(S) -> S]
         /\ \A j, k \in 1 .. Cardinality(S) : SetToSeq(S)[j] = SetToSeq(S)[k] => j = k
         /\ \A x \in S : \E k \in 1 .. Cardinality(S) : SetToSeq(S)[k] = x
<1> DEFINE D == 1 .. Cardinality(S)
           f == SetToSeq(S)
<1>1. Cardinality(S) \in Nat /\ ExistsBijection(D, S) /\ IsFiniteSet(D) /\ Cardinality(D) = Cardinality(S)
  BY FS_CardinalityType, FS_Interval
<1>2. \E g \in [D -> S] : IsInjective(g)
  BY <1>1 DEF ExistsBijection, Bijection, Injection
<1>3. f \in [D -> S] /\ IsInjective(f)
  BY <1>2 DEF SetToSeq
<1>4. f \in Injection(D, S)
  BY <1>3 DEF Injection
<1>5. f \in Surjection(D, S)
  BY <1>1, <1>4, FS_Injection
<1> QED
  BY <1>1, <1>3, <1>5 DEF IsInjective, Surjection

LEMMA ChangesAre ==
  ASSUME NEW S \in SUBSET Vrp, NEW b \in BOOLEAN
  PROVE  /\ Changes(S, b) \in Seq(Change)
         /\ \A k \in 1 .. Len(Changes(S, b)) :
              Changes(S, b)[k].vrp \in S /\ Changes(S, b)[k].announce = b
         /\ \A j, k \in 1 .. Len(Changes(S, b)) :
              Changes(S, b)[j].vrp = Changes(S, b)[k].vrp => j = k
         /\ \A v \in S : \E k \in 1 .. Len(Changes(S, b)) : Changes(S, b)[k].vrp = v
<1> DEFINE n == Cardinality(S)
           f == SetToSeq(S)
           c == Changes(S, b)
<1>1. IsFiniteSet(S)
  BY RtrAssumption, FS_Subset
<1>2. /\ n \in Nat /\ f \in [1 .. n -> S]
      /\ \A j, k \in 1 .. n : f[j] = f[k] => j = k
      /\ \A x \in S : \E k \in 1 .. n : f[k] = x
  BY <1>1, SetToSeqIs
<1>3. c = [k \in 1 .. n |-> [type |-> "prefix", vrp |-> f[k], announce |-> b]]
  BY <1>2 DEF Changes
<1>4. \A k \in 1 .. n : [type |-> "prefix", vrp |-> f[k], announce |-> b] \in Change
  BY <1>2 DEF Change
<1> HIDE DEF f, n
<1>5. c \in Seq(Change) /\ Len(c) = n
  BY <1>2, <1>3, <1>4, IsASeq, LenProperties
<1> QED
  BY <1>2, <1>3, <1>5

LEMMA AfterFullTable ==
  ASSUME NEW T \in SUBSET Vrp
  PROVE  After({}, Changes(T, TRUE)) = T
<1> DEFINE c == Changes(T, TRUE)
<1>1. /\ c \in Seq(Change) /\ DOMAIN c = 1 .. Len(c) /\ Len(c) \in Nat
      /\ \A k \in 1 .. Len(c) : c[k].vrp \in T /\ c[k].announce = TRUE
      /\ \A j, k \in 1 .. Len(c) : c[j].vrp = c[k].vrp => j = k
      /\ \A v \in T : \E k \in 1 .. Len(c) : c[k].vrp = v
  <2>1. TRUE \in BOOLEAN
    OBVIOUS
  <2>2. c \in Seq(Change)
    BY <2>1, ChangesAre
  <2> QED
    BY <2>1, <2>2, ChangesAre, LenProperties
<1> HIDE DEF c
<1>2. After({}, c) \subseteq T
  BY <1>1 DEF After
<1>3. T \subseteq After({}, c)
  <2> SUFFICES ASSUME NEW v \in T PROVE v \in After({}, c)
    OBVIOUS
  <2>1. PICK k \in 1 .. Len(c) : c[k].vrp = v
    BY <1>1
  <2>2. \A m \in k + 1 .. Len(c) : c[m].vrp # v
    BY <1>1, <2>1
  <2> QED
    BY <1>1, <2>1, <2>2 DEF After
<1> QED
  BY <1>2, <1>3 DEF c

LEMMA AfterDifference ==
  ASSUME NEW T \in SUBSET Vrp, NEW O \in SUBSET Vrp
  PROVE  /\ Changes(T \ O, TRUE) \o Changes(O \ T, FALSE) \in Seq(Change)
         /\ After(O, Changes(T \ O, TRUE) \o Changes(O \ T, FALSE)) = T
<1> DEFINE a == Changes(T \ O, TRUE)
           w == Changes(O \ T, FALSE)
           c == a \o w
<1>1. /\ a \in Seq(Change) /\ Len(a) \in Nat
      /\ \A k \in 1 .. Len(a) : a[k].vrp \in T \ O /\ a[k].announce = TRUE
      /\ \A j, k \in 1 .. Len(a) : a[j].vrp = a[k].vrp => j = k
      /\ \A v \in T \ O : \E k \in 1 .. Len(a) : a[k].vrp = v
  <2>1. T \ O \in SUBSET Vrp /\ TRUE \in BOOLEAN
    OBVIOUS
  <2>2. a \in Seq(Change)
    BY <2>1, ChangesAre
  <2> QED
    BY <2>1, <2>2, ChangesAre, LenProperties
<1>2. /\ w \in Seq(Change) /\ Len(w) \in Nat
      /\ \A k \in 1 .. Len(w) : w[k].vrp \in O \ T /\ w[k].announce = FALSE
      /\ \A v \in O \ T : \E k \in 1 .. Len(w) : w[k].vrp = v
  BY ChangesAre, LenProperties
<1> HIDE DEF a, w
<1>3. /\ c \in Seq(Change) /\ Len(c) = Len(a) + Len(w) /\ DOMAIN c = 1 .. Len(a) + Len(w)
      /\ \A k \in 1 .. Len(a) + Len(w) : c[k] = IF k <= Len(a) THEN a[k] ELSE w[k - Len(a)]
  BY <1>1, <1>2, ConcatProperties, LenProperties
<1> HIDE DEF c
<1>4. \A k \in 1 .. Len(c) :
        \/ k <= Len(a) /\ c[k].vrp \in T \ O /\ c[k].announce = TRUE
        \/ k > Len(a) /\ c[k].vrp \in O \ T /\ c[k].announce = FALSE
  <2> TAKE k \in 1 .. Len(c)
  <2>1. CASE k <= Len(a)
    BY <1>1, <1>2, <1>3, <2>1
  <2>2. CASE k > Len(a)
    <3>1. k - Len(a) \in 1 .. Len(w) /\ c[k] = w[k - Len(a)]
      BY <1>1, <1>2, <1>3, <2>2
    <3> QED
      BY <1>2, <2>2, <3>1
  <2>3. k <= Len(a) \/ k > Len(a)
    BY <1>1, <1>2, <1>3
  <2> QED
    BY <2>1, <2>2, <2>3
<1>5. ASSUME NEW v \in T \cap O PROVE v \in After(O, c)
  BY <1>3, <1>4 DEF After
<1>6. ASSUME NEW v \in T \ O PROVE v \in After(O, c)
  <2>1. PICK k \in 1 .. Len(a) : a[k].vrp = v
    BY <1>1
  <2>2. k \in DOMAIN c /\ c[k].vrp = v /\ c[k].announce
    BY <1>1, <1>2, <1>3, <2>1
  <2>3. ASSUME NEW m \in k + 1 .. Len(c) PROVE c[m].vrp # v
    <3>1. m \in 1 .. Len(c)
      BY <1>1, <1>2, <1>3
    <3>2. CASE m <= Len(a)
      BY <1>1, <1>2, <1>3, <2>1, <3>2
    <3>3. CASE ~(m <= Len(a))
      BY <1>1, <1>3, <1>4, <3>1, <3>3
    <3> QED
      BY <3>2, <3>3
  <2> QED
    BY <2>2, <2>3 DEF After
<1>7. ASSUME NEW v \in After(O, c) PROVE v \in T
  <2>1. CASE \E k \in DOMAIN c : c[k].vrp = v /\ c[k].announce
    BY <1>3, <1>4, <2>1
  <2>2. CASE v \in O /\ \A k \in DOMAIN c : c[k].vrp # v
    <3>1. ASSUME v \notin T PROVE FALSE
      <4>1. PICK k \in 1 .. Len(w) : w[k].vrp = v
        BY <1>2, <2>2, <3>1
      <4>2. Len(a) + k \in DOMAIN c /\ c[Len(a) + k] = w[k]
        BY <1>1, <1>2, <1>3
      <4> QED
        BY <2>2, <4>1, <4>2
    <3> QED
      BY <3>1
  <2> QED
    BY <2>1, <2>2 DEF After
<1>8. After(O, c) = T
  BY <1>5, <1>6, <1>7
<1> QED
  BY <1>3, <1>8 DEF c, a, w

-----------------------------------------------------------------------------
(* Types, whether or not answers are overtaken                             *)

Query == {ResetQuery} \cup [type : {"serial"}, session : Nat, serial : Nat]

PDU ==
  Change \cup [type : {"response"}, session : 0 .. cSession]
         \cup [type : {"eod"}, session : 0 .. cSession, serial : 0 .. MaxSerial]
         \cup {[type |-> "notify"], [type |-> "cacheReset"]}
         \cup [type : {"error"}, fatal : BOOLEAN]

CacheTypes ==
  /\ cSession \in 1 .. MaxRestarts + 1
  /\ tables \in Seq(SUBSET Vrp) /\ Len(tables) \in 1 .. MaxSerial
  /\ told \in 1 .. Len(tables)

QueueTypes ==
  /\ toCache \in Seq(Query) /\ answer \in Seq(PDU) /\ toClient \in Seq(PDU)
  /\ run \in {"dial", "connected", "backoff", "stopped"}
  /\ run # "connected" => Quiet

ClientTypes ==
  /\ backoff \in Nat
  /\ sessionID \in 0 .. cSession /\ serial \in 0 .. MaxSerial
  /\ {hasSerial, fullSync} \subseteq BOOLEAN
  /\ current \subseteq Vrp /\ live \subseteq WellFormed
  /\ pending \in Seq(Change)
  /\ failures \in 0 .. MaxFailures

Types == CacheTypes /\ QueueTypes /\ ClientTypes

LEMMA AnswersAre ==
  ASSUME Types, NEW q \in Query, NEW a \in Answers(q)
  PROVE  a \in Seq(PDU)
<1>1. /\ Table \in SUBSET Vrp /\ Len(tables) \in 0 .. MaxSerial
      /\ \A s \in DOMAIN tables : tables[s] \in SUBSET Vrp
  BY LenProperties, ElementOfSeq, RtrAssumption DEF Types, CacheTypes, Table
<1>2. ASSUME NEW changes \in Seq(Change) PROVE Answer(changes) \in Seq(PDU)
  <2>1. changes \in Seq(PDU)
    BY SeqMonotonic DEF PDU
  <2>2. /\ [type |-> "response", session |-> cSession] \in PDU
        /\ [type |-> "eod", session |-> cSession, serial |-> Len(tables)] \in PDU
    BY <1>1 DEF Types, CacheTypes, PDU
  <2> HIDE DEF PDU
  <2>3. /\ <<[type |-> "response", session |-> cSession]>> \in Seq(PDU)
        /\ <<[type |-> "eod", session |-> cSession, serial |-> Len(tables)]>> \in Seq(PDU)
    BY <2>2
  <2> QED
    BY <2>1, <2>3, ConcatProperties DEF Answer
<1>3. <<[type |-> "cacheReset"]>> \in Seq(PDU)
  BY DEF PDU
<1>4. Changes(Table, TRUE) \in Seq(Change)
  BY <1>1, ChangesAre
<1>5. \A s \in DOMAIN tables :
        Changes(Table \ tables[s], TRUE) \o Changes(tables[s] \ Table, FALSE) \in Seq(Change)
  BY <1>1, AfterDifference
<1> QED
  BY <1>2, <1>3, <1>4, <1>5 DEF Answers

THEOREM TypesHold == Spec => []Types
<1>1. Init => Types
  <2> SUFFICES ASSUME Init PROVE Types
    OBVIOUS
  <2>1. PICK t \in SUBSET Vrp : tables = <<t>>
    BY DEF Init
  <2>2. tables \in Seq(SUBSET Vrp) /\ Len(tables) = 1
    BY <2>1
  <2>3. CacheTypes
    BY <2>2, RtrAssumption DEF Init, CacheTypes
  <2>4. QueueTypes
    BY DEF Init, QueueTypes, Quiet
  <2>5. ClientTypes
    <3>1. cSession = 1 /\ pending \in Seq(Change) /\ backoff \in Nat /\ MaxFailures \in Nat
          /\ MaxSerial \in Nat
      BY RtrAssumption DEF Init
    <3>2. {hasSerial, fullSync} \subseteq BOOLEAN /\ current \subseteq Vrp /\ live \subseteq WellFormed
      BY DEF Init
    <3>3. sessionID \in 0 .. cSession /\ serial \in 0 .. MaxSerial /\ failures \in 0 .. MaxFailures
      BY <3>1 DEF Init
    <3> QED
      BY <3>1, <3>2, <3>3 DEF ClientTypes
  <2> QED
    BY <2>3, <2>4, <2>5 DEF Types
<1>2. Types /\ [Next]_vars => Types'
  <2> SUFFICES ASSUME Types, [Next]_vars PROVE Types'
    OBVIOUS
  <2> USE DEF Types
  <2>0. ASSUME cSession' = cSession PROVE PDU' = PDU
    BY <2>0 DEF PDU
  <2>1. ASSUME NEW t \in SUBSET Vrp, CacheUpdates(t) PROVE Types'
    <3>1. /\ tables' \in Seq(SUBSET Vrp) /\ Len(tables') = Len(tables) + 1
      BY <2>1, AppendProperties DEF CacheUpdates, CacheTypes
    <3>2. CacheTypes'
      BY <2>1, <3>1, RtrAssumption DEF CacheUpdates, CacheTypes
    <3>3. QueueTypes'
      BY <2>0, <2>1 DEF CacheUpdates, QueueTypes, Quiet
    <3>4. ClientTypes'
      BY <2>1 DEF CacheUpdates, ClientTypes, clientVars
    <3> QED
      BY <3>2, <3>3, <3>4
  <2>2. ASSUME NEW t \in SUBSET Vrp, CacheRestarts(t) PROVE Types'
    <3>1. tables' \in Seq(SUBSET Vrp) /\ Len(tables') = 1 /\ told' = 1
      BY <2>2 DEF CacheRestarts
    <3>2. CacheTypes'
      BY <2>2, <3>1, RtrAssumption DEF CacheRestarts, CacheTypes
    <3>3. ClientTypes'
      BY <2>2, RtrAssumption DEF CacheRestarts, CacheTypes, ClientTypes, clientVars
    <3>4. QueueTypes'
      BY <2>2 DEF CacheRestarts, QueueTypes, SessionEnds, Quiet
    <3> QED
      BY <3>2, <3>3, <3>4
  <2>3. ASSUME UNCHANGED <<cSession, tables, told>>, ClientTypes',
               toCache' \in Seq(Query), answer' \in Seq(PDU), toClient' \in Seq(PDU),
               run' = "connected" \/ (run' = run /\ (run # "connected" => Quiet'))
        PROVE  Types'
    BY <2>0, <2>3 DEF CacheTypes, QueueTypes
  <2>4. CASE CacheNotifies
    <3>1. [type |-> "notify"] \in PDU
      BY DEF PDU
    <3>2. toClient' \in Seq(PDU) /\ toCache' \in Seq(Query) /\ run' = "connected" /\ ClientTypes'
      BY <2>4, <3>1, AppendProperties DEF CacheNotifies, QueueTypes, ClientTypes, clientVars
    <3> QED
      BY <2>0, <2>4, <3>2, LenProperties DEF CacheNotifies, CacheTypes, QueueTypes
  <2>5. CASE CacheAnswers \/ CacheSends \/ \E fatal \in BOOLEAN : CacheFails(fatal)
    <3>1. run = "connected" /\ run' = run /\ UNCHANGED <<cSession, tables, told>>
      BY <2>5 DEF CacheAnswers, CacheSends, CacheFails, QueueTypes, Quiet, cacheVars
    <3>2. CASE CacheAnswers
      <4>1. Head(toCache) \in Query /\ Tail(toCache) \in Seq(Query)
        BY <3>2, HeadTailProperties DEF CacheAnswers, QueueTypes
      <4>2. answer' \in Seq(PDU) /\ toClient' \in Seq(PDU) /\ toCache' \in Seq(Query)
        BY <3>2, <4>1, AnswersAre DEF CacheAnswers, QueueTypes
      <4>3. ClientTypes'
        BY <3>2 DEF CacheAnswers, cacheVars, clientVars, ClientTypes
      <4> QED
        BY <2>3, <3>1, <4>2, <4>3
    <3>3. CASE CacheSends
      <4>1. answer' \in Seq(PDU) /\ toClient' \in Seq(PDU) /\ toCache' \in Seq(Query)
        BY <3>3, HeadTailProperties, AppendProperties DEF CacheSends, QueueTypes
      <4>2. ClientTypes'
        BY <3>3 DEF CacheSends, cacheVars, clientVars, ClientTypes
      <4> QED
        BY <2>3, <3>1, <4>1, <4>2
    <3>4. ASSUME NEW fatal \in BOOLEAN, CacheFails(fatal) PROVE Types'
      <4>1. [type |-> "error", fatal |-> fatal] \in PDU
        BY DEF PDU
      <4>2. answer' \in Seq(PDU) /\ toClient' \in Seq(PDU) /\ toCache' \in Seq(Query)
        BY <3>4, <4>1, HeadTailProperties, AppendProperties DEF CacheFails, QueueTypes
      <4>3. ClientTypes'
        BY <3>4, RtrAssumption DEF CacheFails, cacheVars, clientVars, ClientTypes
      <4> QED
        BY <2>3, <3>1, <4>2, <4>3
    <3> QED
      BY <2>5, <3>2, <3>3, <3>4
  <2>6. CASE Dial
    <3>1. <<ResetQuery>> \in Seq(Query) /\ <<>> \in Seq(Change)
      BY DEF Query
    <3> QED
      BY <2>3, <2>6, <3>1 DEF Dial, cacheVars, clientVars, QueueTypes, ClientTypes
  <2>7. ASSUME NEW next \in {"dial", "connected", "backoff", "stopped"}, SessionEnds(next),
               UNCHANGED <<cSession, tables, told>>, ClientTypes'
        PROVE  Types'
    BY <2>7 DEF SessionEnds, CacheTypes, QueueTypes, Quiet
  <2>8. CASE ConnectionFails \/ FirstAnswerTimesOut \/ Cancel \/ ReadErrorReport
    <3>1. ClientTypes' /\ UNCHANGED <<cSession, tables, told>>
      BY <2>8, RtrAssumption
         DEF ConnectionFails, FirstAnswerTimesOut, Cancel, ReadErrorReport, cacheVars,
             clientVars, ClientTypes
    <3>2. SessionEnds("backoff") \/ SessionEnds("stopped")
      BY <2>8 DEF ConnectionFails, FirstAnswerTimesOut, Cancel, ReadErrorReport
    <3> QED
      BY <2>7, <3>1, <3>2
  <2>9. CASE Retry
    BY <2>0, <2>9 DEF Retry, cacheVars, clientVars, CacheTypes, QueueTypes, ClientTypes, Quiet
  <2>10. SerialQuery \in Query /\ ResetQuery \in Query /\ <<>> \in Seq(Change)
    BY DEF SerialQuery, Query, ClientTypes, CacheTypes
  <2>11. CASE Poll
    <3>1. toCache' \in Seq(Query)
      BY <2>10, <2>11, AppendProperties DEF Poll, QueueTypes
    <3> QED
      BY <2>3, <2>10, <2>11, <3>1 DEF Poll, cacheVars, clientVars, QueueTypes, ClientTypes
  <2>12. CASE Read
    <3>1. toClient # <<>> /\ run = "connected"
      BY <2>12 DEF Read, ReadCacheResponse, ReadPrefix, ReadEndOfData, ReadSerialNotify,
                   ReadCacheReset, ReadErrorReport, Reads
    <3>2. Head(toClient) \in PDU /\ Tail(toClient) \in Seq(PDU)
      BY <3>1, HeadTailProperties DEF QueueTypes
    <3>3. CASE ReadCacheResponse
      <4>1. sessionID' \in 0 .. cSession
        BY <3>2, <3>3 DEF ReadCacheResponse, Reads, PDU, Change
      <4> QED
        BY <2>3, <2>10, <3>1, <3>2, <3>3, <4>1
           DEF ReadCacheResponse, cacheVars, QueueTypes, ClientTypes
    <3>4. CASE ReadPrefix
      <4>1. Head(toClient) \in Change
        BY <3>2, <3>4 DEF ReadPrefix, Reads, PDU
      <4>2. pending' \in Seq(Change)
        BY <3>4, <4>1, AppendProperties DEF ReadPrefix, ClientTypes
      <4> QED
        BY <2>3, <3>1, <3>2, <3>4, <4>2
           DEF ReadPrefix, cacheVars, clientVars, QueueTypes, ClientTypes
    <3>5. CASE ReadEndOfData
      <4>1. sessionID' \in 0 .. cSession /\ serial' \in 0 .. MaxSerial
        BY <3>2, <3>5 DEF ReadEndOfData, Reads, PDU, Change
      <4>2. current' \subseteq Vrp /\ live' \subseteq WellFormed
        BY <3>5 DEF ReadEndOfData, Commit, After
      <4> QED
        BY <2>3, <2>10, <3>1, <3>2, <3>5, <4>1, <4>2
           DEF ReadEndOfData, cacheVars, QueueTypes, ClientTypes
    <3>6. CASE ReadSerialNotify \/ ReadCacheReset
      <4>1. toCache' \in Seq(Query) /\ toClient' = Tail(toClient) /\ answer' = answer
        <5>1. Append(toCache, SerialQuery) \in Seq(Query) /\ Append(toCache, ResetQuery) \in Seq(Query)
          BY <2>10, AppendProperties DEF QueueTypes
        <5> QED
          BY <3>6, <5>1 DEF ReadSerialNotify, ReadCacheReset
      <4>2. ClientTypes' /\ UNCHANGED <<cSession, tables, told>> /\ run' = run
        BY <2>10, <3>6
           DEF ReadSerialNotify, ReadCacheReset, cacheVars, clientVars, ClientTypes
      <4> QED
        BY <2>3, <3>1, <3>2, <4>1, <4>2 DEF QueueTypes
    <3> QED
      BY <2>8, <2>12, <3>3, <3>4, <3>5, <3>6 DEF Read
  <2>13. CASE UNCHANGED vars
    BY <2>0, <2>13 DEF vars, CacheTypes, QueueTypes, ClientTypes, Quiet
  <2> QED
    BY <2>1, <2>2, <2>4, <2>5, <2>6, <2>8, <2>9, <2>11, <2>12, <2>13 DEF Next, Stopped
<1> QED
  BY <1>1, <1>2, PTL DEF Spec

(***************************************************************************)
(* The type invariant (client.go: Client, Run, session).                   *)
(***************************************************************************)
THEOREM TypeCorrect == Spec => []TypeOK
<1>1. Types => TypeOK
  <2> SUFFICES ASSUME Types PROVE TypeOK
    OBVIOUS
  <2>1. \A k \in DOMAIN toCache : toCache[k] \in Query
    BY ElementOfSeq, LenProperties DEF Types, QueueTypes
  <2>2. \A q \in {answer, toClient} : \A k \in DOMAIN q : q[k] \in PDU
    BY ElementOfSeq, LenProperties DEF Types, QueueTypes
  <2>3. \A k \in DOMAIN pending : pending[k] \in Change
    BY ElementOfSeq, LenProperties DEF Types, ClientTypes
  <2>4. \A k \in DOMAIN toCache : toCache[k].type \in {"reset", "serial"}
    BY <2>1 DEF Query, ResetQuery
  <2>5. \A q \in {answer, toClient} : \A k \in DOMAIN q :
          q[k].type \in {"response", "prefix", "eod", "notify", "cacheReset", "error"}
    BY <2>2 DEF PDU, Change
  <2>6. \A k \in DOMAIN pending : pending[k].vrp \in Vrp
    BY <2>3 DEF Change
  <2> QED
    BY <2>4, <2>5, <2>6 DEF Types, CacheTypes, QueueTypes, ClientTypes, TypeOK
<1> QED
  BY <1>1, TypesHold, PTL

-----------------------------------------------------------------------------
(* The invariant                                                           *)

LEMMA OneInQueue ==
  ASSUME NEW x
  PROVE  /\ Head(<<x>>) = x /\ Tail(<<x>>) = <<>> /\ <<x>> # <<>>
         /\ Append(<<>>, x) = <<x>>
OBVIOUS

LEMMA AnsweredHead ==
  ASSUME NEW changes \in Seq(Change), NEW s
  PROVE  LET q == <<Response>> \o (changes \o <<Eod(s)>>)
         IN  q # <<>> /\ Head(q) = Response /\ Tail(q) = changes \o <<Eod(s)>>
<1> DEFINE S == Change \cup {Response, Eod(s)}
<1>1. <<Eod(s)>> \in Seq(S) /\ Response \in S
  OBVIOUS
<1>2. changes \in Seq(S)
  BY SeqMonotonic
<1>3. changes \o <<Eod(s)>> \in Seq(S)
  BY <1>1, <1>2, ConcatProperties
<1> HIDE DEF S
<1> QED
  BY <1>1, <1>3, FrontOf

LEMMA ReadingHead ==
  ASSUME NEW rest \in Seq(Change), NEW s
  PROVE  LET q == rest \o <<Eod(s)>>
         IN  /\ q # <<>>
             /\ rest = <<>> => q = <<Eod(s)>>
             /\ rest # <<>> =>
                  /\ Head(q) = Head(rest) /\ Head(rest) \in Change
                  /\ Tail(rest) \in Seq(Change) /\ Tail(q) = Tail(rest) \o <<Eod(s)>>
<1> DEFINE S == Change \cup {Eod(s)}
           e == <<Eod(s)>>
<1>1. e \in Seq(S) /\ e # <<>>
  OBVIOUS
<1>2. rest \in Seq(S)
  BY SeqMonotonic
<1> HIDE DEF S, e
<1>3. CASE rest = <<>>
  <2>1. rest \o e = e
    BY <1>1, <1>3, ConcatEmptySeq
  <2> QED
    BY <1>1, <1>3, <2>1 DEF e
<1>4. CASE rest # <<>>
  <2>1. /\ Head(rest) \in Change /\ Tail(rest) \in Seq(Change)
        /\ rest = <<Head(rest)>> \o Tail(rest)
    BY <1>4, ReadOn
  <2>2. Head(rest) \in S /\ Tail(rest) \in Seq(S)
    BY <1>2, <1>4, ReadOn
  <2>3. <<Head(rest)>> \in Seq(S)
    BY <2>2
  <2>4. rest \o e = <<Head(rest)>> \o (Tail(rest) \o e)
    BY <1>1, <2>1, <2>2, <2>3, ConcatAssociative
  <2>5. Tail(rest) \o e \in Seq(S)
    BY <1>1, <2>2, ConcatProperties
  <2>6. /\ rest \o e # <<>> /\ Head(rest \o e) = Head(rest)
        /\ Tail(rest \o e) = Tail(rest) \o e
    BY <2>2, <2>4, <2>5, FrontOf
  <2> QED
    BY <1>4, <2>1, <2>6 DEF e
<1> QED
  BY <1>3, <1>4

LEMMA AnswerIs ==
  ASSUME NEW changes \in Seq(Change)
  PROVE  Answer(changes) = <<Response>> \o (changes \o <<Eod(Len(tables))>>)
<1> DEFINE e == Eod(Len(tables))
           S == Change \cup {Response, e}
<1>1. <<e>> \in Seq(S) /\ <<Response>> \in Seq(S)
  OBVIOUS
<1>2. changes \in Seq(S)
  BY SeqMonotonic
<1> HIDE DEF S, e
<1>3. (<<Response>> \o changes) \o <<e>> = <<Response>> \o (changes \o <<e>>)
  BY <1>1, <1>2, ConcatAssociative
<1> QED
  BY <1>3 DEF Answer, Response, e, Eod

\* Sending and reading on what is coming.
LEMMA ComingIs ==
  ASSUME Types
  PROVE  /\ answer = <<>> => Coming = toClient
         /\ toClient = <<>> => Coming = answer
         /\ answer # <<>> => Append(toClient, Head(answer)) \o Tail(answer) = Coming
         /\ toClient # <<>> =>
              /\ Head(Coming) = Head(toClient) /\ Coming # <<>>
              /\ Tail(Coming) = Tail(toClient) \o answer
              /\ Tail(Coming) = <<>> => Tail(toClient) = <<>> /\ answer = <<>>
<1>1. toClient \in Seq(PDU) /\ answer \in Seq(PDU)
  BY DEF Types, QueueTypes
<1> HIDE DEF PDU
<1>2. (answer = <<>> => Coming = toClient) /\ (toClient = <<>> => Coming = answer)
  BY <1>1, ConcatEmptySeq DEF Coming
<1>3. answer # <<>> => Append(toClient, Head(answer)) \o Tail(answer) = Coming
  BY <1>1, ReadOn DEF Coming
<1>4. ASSUME toClient # <<>>
      PROVE  /\ Head(Coming) = Head(toClient) /\ Coming # <<>>
             /\ Tail(Coming) = Tail(toClient) \o answer
             /\ Tail(Coming) = <<>> => Tail(toClient) = <<>> /\ answer = <<>>
  <2>1. /\ Head(toClient) \in PDU /\ Tail(toClient) \in Seq(PDU)
        /\ toClient = <<Head(toClient)>> \o Tail(toClient)
    BY <1>1, <1>4, ReadOn
  <2>2. <<Head(toClient)>> \in Seq(PDU)
    BY <2>1
  <2>3. Coming = <<Head(toClient)>> \o (Tail(toClient) \o answer)
    BY <1>1, <2>1, <2>2, ConcatAssociative DEF Coming
  <2>4. Tail(toClient) \o answer \in Seq(PDU)
        /\ Len(Tail(toClient) \o answer) = Len(Tail(toClient)) + Len(answer)
    BY <1>1, <2>1, ConcatProperties
  <2>5. Tail(Coming) = Tail(toClient) \o answer /\ Head(Coming) = Head(toClient) /\ Coming # <<>>
    BY <2>1, <2>3, <2>4, FrontOf
  <2>6. Tail(Coming) = <<>> => Tail(toClient) = <<>> /\ answer = <<>>
    <3>1. Len(Tail(toClient)) \in Nat /\ Len(answer) \in Nat
      BY <1>1, <2>1, LenProperties
    <3>2. Tail(Coming) = <<>> => Len(Tail(toClient)) + Len(answer) = 0
      BY <2>4, <2>5, EmptySeq
    <3>3. Tail(Coming) = <<>> => Len(Tail(toClient)) = 0 /\ Len(answer) = 0
      <4>1. \A m, n \in Nat : m + n = 0 => m = 0 /\ n = 0
        OBVIOUS
      <4> QED
        BY <3>1, <3>2, <4>1, Zenon
    <3> QED
      BY <1>1, <2>1, <3>3, EmptySeq
  <2> QED
    BY <2>5, <2>6
<1> QED
  BY <1>2, <1>3, <1>4

LEMMA QuietIsIdle ==
  ASSUME Inv, Types, run = "connected", Quiet
  PROVE  UpToDate
<1>0. Coming = <<>>
  BY ComingIs DEF Quiet
<1>1. ~Answered
  BY <1>0, AnsweredHead DEF Answered
<1>2. ~Reading
  BY <1>0, ReadingHead DEF Reading
<1>3. ~Asked /\ ~Notified /\ ~Refused /\ ~Failed
  BY <1>0, OneInQueue DEF Asked, Notified, Refused, Failed, Quiet
<1> QED
  BY <1>1, <1>2, <1>3 DEF Inv, Idle

LEMMA AskedWhenQuestion ==
  ASSUME Inv, toCache # <<>>
  PROVE  run = "connected" /\ Asked
BY DEF Inv, Quiet, Idle, Answered, Reading, Notified, Refused, Failed

-----------------------------------------------------------------------------

THEOREM Inductive == Spec /\ ~Overlap => []Inv
<1>1. Init /\ ~Overlap => Inv
  <2> SUFFICES ASSUME Init, ~Overlap PROVE Inv
    OBVIOUS
  <2>1. PICK t \in SUBSET Vrp : tables = <<t>> /\ ever = {t}
    BY DEF Init
  <2>2. tables \in Seq(SUBSET Vrp) /\ tables # <<>> /\ DOMAIN tables = {1} /\ tables[1] = t
    BY <2>1
  <2> QED
    BY <2>1, <2>2 DEF Init, Inv, LiveWasATable, Quiet
<1>2. Inv /\ Types /\ Types' /\ [Next]_vars => Inv'
  <2> SUFFICES ASSUME Inv, Types, Types', [Next]_vars PROVE Inv'
    OBVIOUS
  <2> DEFINE Store == tables \in Seq(SUBSET Vrp) /\ tables # <<>>
                      /\ \A s \in DOMAIN tables : tables[s] \in ever
             Phase == Idle \/ Asked \/ Answered \/ Reading \/ Notified \/ Refused \/ Failed
  <2>0. Store /\ LiveWasATable /\ ~Overlap
    BY DEF Inv
  <2>1. ASSUME NEW t \in SUBSET Vrp, CacheUpdates(t) PROVE Inv'
    <3>1. /\ tables' \in Seq(SUBSET Vrp) /\ tables' # <<>>
          /\ DOMAIN tables \subseteq DOMAIN tables'
          /\ \A s \in DOMAIN tables : tables'[s] = tables[s]
          /\ \A s \in DOMAIN tables' : s \in DOMAIN tables \/ tables'[s] = t
      BY <2>0, <2>1, AppendProperties, LenProperties, EmptySeq DEF CacheUpdates
    <3>2. Store'
      BY <2>0, <2>1, <3>1 DEF CacheUpdates
    <3>3. LiveWasATable'
      BY <2>0, <2>1 DEF CacheUpdates, LiveWasATable
    <3>4. UpToDate => UpToDate'
      BY <2>1, <3>1 DEF CacheUpdates, UpToDate, clientVars
    <3>5. run' = run /\ Quiet' = Quiet /\ Coming' = Coming
      BY <2>1 DEF CacheUpdates, Quiet, Coming
    <3>6. Idle \/ Asked \/ Notified \/ Refused \/ Failed =>
          (Idle \/ Asked \/ Notified \/ Refused \/ Failed)'
      BY <2>1, <3>4, <3>5 DEF CacheUpdates, clientVars, Idle, Asked, Notified, Refused, Failed,
                        ResetQuery, SerialQuery
    <3>7. Answered => Answered'
      BY <2>1, <3>1, <3>5 DEF CacheUpdates, clientVars, Answered, Base, Response, Eod
    <3>8. Reading => Reading'
      BY <2>1, <3>1, <3>5 DEF CacheUpdates, clientVars, Reading, Base, Eod
    <3> QED
      BY <2>0, <3>2, <3>3, <3>5, <3>6, <3>7, <3>8 DEF Inv
  <2>2. ASSUME NEW t \in SUBSET Vrp, CacheRestarts(t) PROVE Inv'
    <3>1. /\ tables' \in Seq(SUBSET Vrp) /\ tables' # <<>> /\ DOMAIN tables' = {1}
          /\ tables'[1] = t /\ ever' = ever \cup {t}
      BY <2>2 DEF CacheRestarts
    <3>2. LiveWasATable'
      BY <2>0, <2>2 DEF CacheRestarts, LiveWasATable
    <3>3. run' # "connected" /\ Quiet'
      BY <2>2 DEF CacheRestarts, SessionEnds, Quiet
    <3> QED
      BY <2>0, <3>1, <3>2, <3>3 DEF Inv
  <2>3. ASSUME CacheNotifies PROVE Inv'
    <3>1. run = "connected" /\ Quiet /\ UpToDate
      BY <2>0, <2>3, QuietIsIdle DEF CacheNotifies
    <3>2. toCache' = <<>> /\ answer' = <<>> /\ toClient' = <<[type |-> "notify"]>>
      BY <2>3, <3>1, OneInQueue DEF CacheNotifies, Quiet
    <3>3. UpToDate' /\ Store' /\ LiveWasATable' /\ run' = run
      BY <2>0, <2>3, <3>1 DEF CacheNotifies, UpToDate, clientVars, LiveWasATable
    <3> QED
      BY <2>0, <3>1, <3>2, <3>3 DEF Inv, Notified
  <2>4. ASSUME CacheAnswers PROVE Inv'
    <3>1. run = "connected" /\ Asked
      BY <2>4, AskedWhenQuestion DEF CacheAnswers
    <3>2. /\ toCache' = <<>> /\ answer' \in Answers(Head(toCache)) /\ Coming' = answer'
      <4>1. toCache' = <<>> /\ answer' \in Answers(Head(toCache)) /\ toClient' = <<>>
        BY <2>4, <3>1, OneInQueue DEF CacheAnswers, Asked
      <4>2. answer' \in Seq(PDU')
        BY DEF Types, QueueTypes
      <4> HIDE DEF PDU
      <4>3. <<>> \o answer' = answer'
        BY <4>2, ConcatEmptySeq
      <4> QED
        BY <4>1, <4>3 DEF Coming
    <3>3. Store' /\ LiveWasATable' /\ run' = run
      BY <2>0, <2>4 DEF CacheAnswers, cacheVars, LiveWasATable
    <3>4. /\ Len(tables) \in DOMAIN tables /\ Table = tables[Len(tables)]
          /\ Table \in SUBSET Vrp
      BY <2>0, LenProperties, EmptySeq, ElementOfSeq DEF Table
    <3>5. UpToDate' = UpToDate /\ Base' = Base /\ cSession' = cSession /\ tables' = tables
      BY <2>4 DEF CacheAnswers, cacheVars, clientVars, UpToDate, Base
    <3>6. ASSUME NEW changes \in Seq(Change), After(Base, changes) = Table,
                 answer' = Answer(changes)
          PROVE  Answered'
      <4>1. answer' = <<Response>> \o (changes \o <<Eod(Len(tables))>>)
        BY <3>6, AnswerIs
      <4> QED
        BY <3>2, <3>4, <3>5, <3>6, <4>1 DEF Answered, Response, Eod
    <3>7. CASE Head(toCache) = ResetQuery /\ fullSync
      <4>1. answer' = Answer(Changes(Table, TRUE))
        <5>1. Head(toCache).type = "reset"
          BY <3>7 DEF ResetQuery
        <5> QED
          BY <3>2, <5>1 DEF Answers
      <4>2. Changes(Table, TRUE) \in Seq(Change) /\ After(Base, Changes(Table, TRUE)) = Table
        BY <3>4, <3>7, ChangesAre, AfterFullTable DEF Base
      <4> QED
        BY <2>0, <3>1, <3>3, <3>6, <4>1, <4>2 DEF Inv
    <3>8. CASE Head(toCache) = SerialQuery /\ ~fullSync /\ UpToDate
      <4> DEFINE changes == Changes(Table \ current, TRUE) \o Changes(current \ Table, FALSE)
      <4>1. CASE answer' = <<[type |-> "cacheReset"]>>
        BY <2>0, <3>1, <3>2, <3>3, <4>1 DEF Inv, Refused
      <4>2. answer' = <<[type |-> "cacheReset"]>> \/ answer' = Answer(changes)
        <5>1. /\ Head(toCache).type # "reset" /\ Head(toCache).serial = serial
              /\ tables[serial] = current
          BY <3>8 DEF SerialQuery, UpToDate
        <5> QED
          BY <3>2, <5>1 DEF Answers
      <4>3. current \in SUBSET Vrp /\ Base = current
        BY <2>0, <3>8, ElementOfSeq, LenProperties DEF UpToDate, Base
      <4>4. changes \in Seq(Change) /\ After(Base, changes) = Table
        BY <3>4, <4>3, AfterDifference
      <4> HIDE DEF changes
      <4> QED
        BY <2>0, <3>1, <3>3, <3>6, <4>1, <4>2, <4>4 DEF Inv
    <3> QED
      BY <3>1, <3>7, <3>8, OneInQueue DEF Asked
  <2>13. ASSUME CacheSends PROVE Inv'
    <3>1. Coming' = Coming /\ toCache' = toCache /\ answer # <<>>
      BY <2>13, ComingIs DEF CacheSends, Coming
    <3>2. run = "connected" /\ (Answered \/ Reading \/ Refused)
      BY <3>1 DEF Inv, Quiet, Idle, Asked, Notified, Failed
    <3>3. Store' /\ LiveWasATable' /\ run' = run /\ tables' = tables
      BY <2>0, <2>13 DEF CacheSends, cacheVars, LiveWasATable
    <3>4. (Answered => Answered') /\ (Reading => Reading') /\ (Refused => Refused')
      BY <2>13, <3>1
         DEF CacheSends, cacheVars, clientVars, Answered, Reading, Refused, Base, Response, Eod
    <3> QED
      BY <2>0, <3>2, <3>3, <3>4 DEF Inv
  <2>5. ASSUME NEW fatal \in BOOLEAN, CacheFails(fatal) PROVE Inv'
    <3>1. run = "connected" /\ Asked
      BY <2>5, AskedWhenQuestion DEF CacheFails
    <3>2. toCache' = <<>> /\ answer' = <<>> /\ toClient' = <<[type |-> "error", fatal |-> fatal]>>
      BY <2>5, <3>1, OneInQueue DEF CacheFails, Asked
    <3>3. Store' /\ LiveWasATable' /\ run' = run
      BY <2>0, <2>5 DEF CacheFails, cacheVars, LiveWasATable
    <3> QED
      BY <2>0, <3>1, <3>2, <3>3 DEF Inv, Failed
  <2>6. CASE Dial
    <3>1. /\ toCache' = <<ResetQuery>>' /\ answer' = <<>> /\ toClient' = <<>> /\ fullSync'
      BY <2>6 DEF Dial, Inv, Quiet, ResetQuery
    <3>2. Store' /\ LiveWasATable' /\ run' = "connected"
      BY <2>0, <2>6 DEF Dial, cacheVars, LiveWasATable
    <3> QED
      BY <2>0, <3>1, <3>2 DEF Inv, Asked
  <2>7. ASSUME \E next : next # "connected" /\ SessionEnds(next),
               UNCHANGED <<tables, live, ever>>
        PROVE  Inv'
    BY <2>0, <2>7 DEF Inv, SessionEnds, Quiet, LiveWasATable
  <2>8. CASE ConnectionFails \/ FirstAnswerTimesOut \/ Cancel \/ ReadErrorReport
    BY <2>7, <2>8 DEF ConnectionFails, FirstAnswerTimesOut, Cancel, ReadErrorReport, cacheVars
  <2>9. CASE Retry
    BY <2>0, <2>9 DEF Retry, Inv, Quiet, LiveWasATable, cacheVars
  <2>10. CASE Poll
    <3>1. run = "connected" /\ Quiet /\ UpToDate
      BY <2>0, <2>10, QuietIsIdle DEF Poll
    <3>2. answer' = <<>> /\ toClient' = <<>> /\ toCache' = <<SerialQuery>>' /\ ~fullSync'
      BY <2>10, <3>1, OneInQueue DEF Poll, Quiet, clientVars, SerialQuery
    <3>3. UpToDate' /\ Store' /\ LiveWasATable' /\ run' = run
      BY <2>0, <2>10, <3>1 DEF Poll, UpToDate, cacheVars, clientVars, LiveWasATable
    <3> QED
      BY <2>0, <3>1, <3>2, <3>3 DEF Inv, Asked
  <2>11. CASE Read
    <3>1. run = "connected" /\ toClient # <<>> /\ ~Idle /\ ~Asked
      BY <2>11 DEF Read, ReadCacheResponse, ReadPrefix, ReadEndOfData, ReadSerialNotify,
                   ReadCacheReset, ReadErrorReport, Reads, Quiet, Idle, Asked
    <3>0. /\ Head(toClient) = Head(Coming) /\ Tail(Coming) = Tail(toClient) \o answer
          /\ Tail(Coming) = <<>> => Tail(toClient) = <<>> /\ answer = <<>>
      BY <3>1, ComingIs
    <3>7. toClient' = Tail(toClient) /\ answer' = answer => Coming' = Tail(Coming)
      BY <3>0 DEF Coming
    <3>2. CASE Answered
      <4>1. PICK changes \in Seq(Change), s \in DOMAIN tables :
              /\ Coming = <<Response>> \o (changes \o <<Eod(s)>>)
              /\ After(Base, changes) = tables[s]
        BY <3>2 DEF Answered
      <4>2. Head(toClient) = Response /\ Tail(Coming) = changes \o <<Eod(s)>>
        BY <3>0, <4>1, AnsweredHead
      <4>3. ReadCacheResponse
        BY <2>11, <4>2 DEF Read, ReadPrefix, ReadEndOfData, ReadSerialNotify,
                           ReadCacheReset, ReadErrorReport, Reads, Response
      <4>4. /\ toCache' = <<>> /\ Coming' = changes \o <<Eod(s)>>'
            /\ Base' = Base /\ pending' = <<>> /\ tables' = tables
        BY <3>2, <3>7, <4>2, <4>3 DEF ReadCacheResponse, cacheVars, Answered, Base, Eod
      <4>5. <<>> \o changes = changes
        BY ConcatEmptySeq
      <4>6. Reading'
        <5>1. After(Base', pending' \o changes) = tables'[s] /\ s \in DOMAIN tables'
              /\ pending' \in Seq(Change)
          BY <4>1, <4>4, <4>5
        <5> QED
          BY <4>4, <5>1 DEF Reading
      <4>7. Store' /\ LiveWasATable' /\ run' = run
        BY <2>0, <4>3 DEF ReadCacheResponse, cacheVars, LiveWasATable
      <4> QED
        BY <2>0, <3>1, <4>6, <4>7 DEF Inv
    <3>3. CASE Reading
      <4>1. PICK rest \in Seq(Change), s \in DOMAIN tables :
              /\ Coming = rest \o <<Eod(s)>>
              /\ pending \in Seq(Change) /\ After(Base, pending \o rest) = tables[s]
        BY <3>3 DEF Reading
      <4>2. CASE rest = <<>>
        <5>1. /\ Head(toClient) = Eod(s) /\ Tail(toClient) = <<>> /\ answer = <<>>
              /\ pending \o rest = pending
          BY <3>0, <4>1, <4>2, ReadingHead, OneInQueue, ConcatEmptySeq
        <5>2. ReadEndOfData
          BY <2>11, <5>1 DEF Read, ReadPrefix, ReadCacheResponse, ReadSerialNotify,
                             ReadCacheReset, ReadErrorReport, Reads, Eod
        <5>3. current' = tables[s] /\ live' = current' \cap WellFormed
          BY <4>1, <5>1, <5>2 DEF ReadEndOfData, Commit, Base
        <5>4. /\ toCache' = <<>> /\ answer' = <<>> /\ toClient' = <<>> /\ tables' = tables /\ ever' = ever
              /\ sessionID' = cSession' /\ serial' = s /\ hasSerial' /\ run' = run
          BY <3>3, <5>1, <5>2 DEF ReadEndOfData, Reading, cacheVars, Eod
        <5>5. Idle'
          BY <4>1, <5>3, <5>4 DEF Quiet, Idle, UpToDate
        <5>6. Store' /\ LiveWasATable'
          BY <2>0, <5>3, <5>4 DEF LiveWasATable
        <5> QED
          BY <2>0, <3>1, <5>4, <5>5, <5>6 DEF Inv
      <4>3. CASE rest # <<>>
        <5>1. /\ Head(toClient) = Head(rest) /\ Head(rest) \in Change
              /\ Tail(rest) \in Seq(Change) /\ Tail(Coming) = Tail(rest) \o <<Eod(s)>>
          BY <3>0, <4>1, <4>3, ReadingHead
        <5>2. ReadPrefix
          BY <2>11, <5>1 DEF Read, ReadCacheResponse, ReadEndOfData, ReadSerialNotify,
                             ReadCacheReset, ReadErrorReport, Reads, Change
        <5>3. /\ toCache' = <<>> /\ Coming' = Tail(rest) \o <<Eod(s)>>'
              /\ pending' = Append(pending, Head(rest))
              /\ Base' = Base /\ tables' = tables
          BY <3>3, <3>7, <5>1, <5>2 DEF ReadPrefix, Reading, cacheVars, clientVars, Base, Eod
        <5>4. pending' \in Seq(Change) /\ pending' \o Tail(rest) = pending \o rest
          BY <4>1, <4>3, <5>3, ReadOn
        <5>5. Reading'
          BY <4>1, <5>1, <5>3, <5>4 DEF Reading
        <5>6. Store' /\ LiveWasATable' /\ run' = run
          BY <2>0, <5>2 DEF ReadPrefix, cacheVars, LiveWasATable
        <5> QED
          BY <2>0, <3>1, <5>5, <5>6 DEF Inv
      <4> QED
        BY <4>2, <4>3
    <3>4. CASE Notified
      <4>1. Head(toClient).type = "notify" /\ Tail(toClient) = <<>> /\ toCache = <<>>
        BY <3>4, OneInQueue DEF Notified
      <4>2. ReadSerialNotify
        BY <2>11, <4>1 DEF Read, ReadPrefix, ReadCacheResponse, ReadEndOfData,
                           ReadCacheReset, ReadErrorReport, Reads
      <4>3. /\ answer' = <<>> /\ toClient' = <<>> /\ toCache' = <<SerialQuery>>' /\ ~fullSync'
        BY <3>4, <4>1, <4>2, OneInQueue DEF Notified, ReadSerialNotify, clientVars, SerialQuery
      <4>4. UpToDate' /\ Store' /\ LiveWasATable' /\ run' = run
        BY <2>0, <3>4, <4>2 DEF Notified, ReadSerialNotify, UpToDate, cacheVars, clientVars,
                                LiveWasATable
      <4> QED
        BY <2>0, <3>1, <4>3, <4>4 DEF Inv, Asked
    <3>5. CASE Refused
      <4>1. /\ Head(toClient).type = "cacheReset" /\ Tail(toClient) = <<>> /\ answer = <<>>
            /\ toCache = <<>>
        BY <3>0, <3>5, OneInQueue DEF Refused
      <4>2. ReadCacheReset
        BY <2>11, <4>1 DEF Read, ReadPrefix, ReadCacheResponse, ReadEndOfData,
                           ReadSerialNotify, ReadErrorReport, Reads
      <4>3. answer' = <<>> /\ toClient' = <<>> /\ toCache' = <<ResetQuery>>' /\ fullSync'
        BY <4>1, <4>2, OneInQueue DEF ReadCacheReset, ResetQuery
      <4>4. Store' /\ LiveWasATable' /\ run' = run
        BY <2>0, <4>2 DEF ReadCacheReset, cacheVars, LiveWasATable
      <4> QED
        BY <2>0, <3>1, <4>3, <4>4 DEF Inv, Asked
    <3>6. CASE Failed
      <4>1. Head(toClient).type = "error"
        BY <3>6, OneInQueue DEF Failed
      <4>2. ReadErrorReport
        BY <2>11, <4>1 DEF Read, ReadPrefix, ReadCacheResponse, ReadEndOfData,
                           ReadSerialNotify, ReadCacheReset, Reads
      <4> QED
        BY <2>8, <4>2
    <3> QED
      BY <3>1, <3>2, <3>3, <3>4, <3>5, <3>6 DEF Inv
  <2>12. CASE UNCHANGED vars
    BY <2>12 DEF vars, Inv, LiveWasATable, Quiet, Coming, Idle, Asked, Answered, Reading, Notified,
                 Refused, Failed, UpToDate, Base, ResetQuery, SerialQuery, Response, Eod
  <2> QED
    BY <2>1, <2>2, <2>3, <2>4, <2>5, <2>6, <2>8, <2>9, <2>10, <2>11, <2>12, <2>13
       DEF Next, Stopped
<1> QED
  BY <1>1, <1>2, TypesHold, PTL DEF Spec

(***************************************************************************)
(* The classifier only ever sees the cache's own tables (client.go:        *)
(* commit), as long as no poll or notify overtakes an answer.              *)
(***************************************************************************)
THEOREM LiveAlwaysATable == Spec /\ ~Overlap => []LiveWasATable
<1>1. Inv => LiveWasATable
  BY DEF Inv
<1> QED
  BY <1>1, Inductive, PTL

(***************************************************************************)
(* With nothing in flight the client holds the table it would ask from     *)
(* next, and it is live (client.go: session, commit).                      *)
(***************************************************************************)
THEOREM AlwaysSynced == Spec /\ ~Overlap => []Synced
<1>1. Inv /\ Types => Synced
  BY QuietIsIdle DEF Synced, UpToDate
<1> QED
  BY <1>1, Inductive, TypesHold, PTL

-----------------------------------------------------------------------------

(***************************************************************************)
(* The backoff stays between the first one and twice the cap (client.go:   *)
(* Run).                                                                   *)
(***************************************************************************)
THEOREM BackoffAlwaysBounded == Spec => [](backoff \in Nat /\ BackoffBounded)
<1> DEFINE B == backoff \in Nat /\ BackoffBounded
<1>1. Init => B
  BY RtrAssumption DEF Init, BackoffBounded
<1>2. B /\ [Next]_vars => B'
  <2> SUFFICES ASSUME B, [Next]_vars PROVE B'
    OBVIOUS
  <2>1. CASE Retry
    BY <2>1, RtrAssumption DEF Retry, BackoffBounded
  <2>2. CASE UNCHANGED backoff
    BY <2>2 DEF BackoffBounded
  <2> QED
    BY <2>1, <2>2
       DEF Next, vars, CacheUpdates, CacheRestarts, CacheNotifies, CacheAnswers, CacheSends, CacheFails,
           Dial, ConnectionFails, Cancel, Poll, FirstAnswerTimesOut, Read, ReadCacheResponse,
           ReadPrefix, ReadEndOfData, ReadSerialNotify, ReadCacheReset, ReadErrorReport, Stopped
<1> QED
  BY <1>1, <1>2, PTL DEF Spec

=============================================================================
