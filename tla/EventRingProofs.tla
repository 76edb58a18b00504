-------------------------- MODULE EventRingProofs --------------------------
(***************************************************************************)
(* The event ring implements the bounded log, for every capacity.          *)
(***************************************************************************)
EXTENDS EventRing, TLAPS

-----------------------------------------------------------------------------

\* The capacity used is at least 1, whatever was requested.
LEMMA CapPositive ==
  ASSUME RingParameters
  PROVE  Cap \in Nat \ {0}
BY DEF Cap, RingParameters

\* Modular arithmetic over at most two turns of the ring, by the definition of %.
LEMMA ModWithinThreeTurns ==
  ASSUME NEW c \in Nat \ {0}, NEW n \in 0 .. 3 * c - 1
  PROVE  n % c = IF n < c THEN n ELSE IF n < 2 * c THEN n - c ELSE n - 2 * c
<1>1. CASE n < c
  BY <1>1
<1>2. CASE c <= n /\ n < 2 * c
  BY <1>2
<1>3. CASE 2 * c <= n
  BY <1>3
<1> QED
  BY <1>1, <1>2, <1>3

\* Where the i-th newest event lives when the next write goes to h, without the %.
LEMMA ReadBackwards ==
  ASSUME NEW c \in Nat \ {0}, NEW h \in 0 .. c - 1, NEW i \in 0 .. c - 1
  PROVE  (h - 1 - i + 2 * c) % c = IF i < h THEN h - 1 - i ELSE h - 1 - i + c
<1> DEFINE n == h - 1 - i + 2 * c
<1>1. n \in 0 .. 3 * c - 1
  OBVIOUS
<1>2. n % c = IF n < c THEN n ELSE IF n < 2 * c THEN n - c ELSE n - 2 * c
  BY <1>1, ModWithinThreeTurns
<1>3. ~(n < c) /\ (n < 2 * c <=> ~(i < h))
  OBVIOUS
<1> QED
  BY <1>2, <1>3

\* The write index after a push, without the %.
LEMMA Advance ==
  ASSUME NEW c \in Nat \ {0}, NEW h \in 0 .. c - 1
  PROVE  (h + 1) % c = IF h + 1 = c THEN 0 ELSE h + 1
<1>1. h + 1 \in 0 .. 3 * c - 1
  OBVIOUS
<1>2. CASE h + 1 = c
  BY <1>1, <1>2
<1>3. CASE h + 1 < c
  BY <1>1, <1>3
<1> QED
  BY <1>2, <1>3

(***************************************************************************)
(* Type correctness: head stays a slot index and size a fill level, so no  *)
(* access of push or recent is out of range (ring.go).                     *)
(***************************************************************************)
THEOREM RingTypeCorrect ==
  ASSUME RingParameters
  PROVE  Spec => []TypeOK
<1>1. Init => TypeOK
  BY CapPositive DEF Init, TypeOK
<1>2. TypeOK /\ [Next]_ringVars => TypeOK'
  <2> SUFFICES ASSUME TypeOK, [Next]_ringVars PROVE TypeOK'
    OBVIOUS
  <2>1. CASE UNCHANGED ringVars
    BY <2>1 DEF TypeOK, ringVars
  <2>2. ASSUME NEW ev \in Event, Push(ev) PROVE TypeOK'
    BY <2>2, CapPositive, Advance DEF Push, TypeOK
  <2> QED
    BY <2>1, <2>2 DEF Next
<1> QED
  BY <1>1, <1>2, PTL DEF Spec

-----------------------------------------------------------------------------

\* What a reader of the whole ring gets.
LEMMA RecentShape ==
  ASSUME RingParameters, TypeOK
  PROVE  /\ Recent(0) = [i \in 1 .. size |-> buf[Slot(i - 1)]]
         /\ Len(Recent(0)) = size
<1>1. size \in Nat
  BY CapPositive DEF TypeOK
<1>2. Recent(0) = [i \in 1 .. size |-> buf[Slot(i - 1)]]
  BY <1>1 DEF Recent
<1>3. \A i \in 1 .. size : buf[Slot(i - 1)] \in Event \cup {NoEvent}
  <2> SUFFICES ASSUME NEW i \in 1 .. size PROVE Slot(i - 1) \in 0 .. Cap - 1
    BY DEF TypeOK
  <2>1. i - 1 \in 0 .. Cap - 1
    BY CapPositive DEF TypeOK
  <2> QED
    BY <2>1, ReadBackwards, CapPositive DEF Slot, TypeOK
<1> QED
  BY <1>1, <1>2, <1>3

\* One push, seen through Recent, is one push on the bounded log.
LEMMA PushRefines ==
  ASSUME RingParameters, TypeOK, TypeOK', NEW ev \in Event, Push(ev)
  PROVE  Log!Push(ev)
<1> DEFINE n == IF size < Cap THEN size + 1 ELSE Cap
<1>1. Cap \in Nat \ {0} /\ head \in 0 .. Cap - 1 /\ size \in 0 .. Cap
  BY CapPositive DEF TypeOK
<1>2. size' = n
  BY <1>1 DEF Push
<1>3. Recent(0)' = [i \in 1 .. n |-> (buf')[Slot(i - 1)']]
  BY <1>1, <1>2 DEF Recent
<1>4. (buf')[Slot(0)'] = ev
  <2>1. head' = IF head + 1 = Cap THEN 0 ELSE head + 1
    BY <1>1, Advance DEF Push
  <2>2. head' \in 0 .. Cap - 1 /\ 0 \in 0 .. Cap - 1
    BY <1>1, <2>1
  <2>3. Slot(0)' = IF 0 < head' THEN head' - 1 - 0 ELSE head' - 1 - 0 + Cap
    BY <1>1, <2>2, ReadBackwards DEF Slot
  <2>4. Slot(0)' = head
    BY <1>1, <2>1, <2>3
  <2> QED
    BY <1>1, <2>4 DEF Push, TypeOK
<1>5. ASSUME NEW i \in 2 .. n
      PROVE  (buf')[Slot(i - 1)'] = Recent(0)[i - 1]
  <2>1. i - 1 \in 1 .. size /\ i - 1 \in 1 .. Cap - 1 /\ i - 2 \in 0 .. Cap - 1
    BY <1>1
  <2>2. head' = IF head + 1 = Cap THEN 0 ELSE head + 1
    BY <1>1, Advance DEF Push
  <2>3. head' \in 0 .. Cap - 1
    BY <1>1, <2>2
  <2>4. Slot(i - 1)' = IF i - 1 < head' THEN head' - 1 - (i - 1)
                                        ELSE head' - 1 - (i - 1) + Cap
    <3> DEFINE h == head'
               j == i - 1
    <3>1. Slot(i - 1)' = (h - 1 - j + 2 * Cap) % Cap
      BY DEF Slot
    <3>2. h \in 0 .. Cap - 1 /\ j \in 0 .. Cap - 1
      BY <1>1, <2>1, <2>3
    <3> HIDE DEF h, j
    <3>3. (h - 1 - j + 2 * Cap) % Cap = IF j < h THEN h - 1 - j ELSE h - 1 - j + Cap
      BY <1>1, <3>2, ReadBackwards
    <3> QED
      BY <3>1, <3>3 DEF h, j
  <2>6. Slot(i - 2) = IF i - 2 < head THEN head - 1 - (i - 2)
                                      ELSE head - 1 - (i - 2) + Cap
    BY <1>1, <2>1, ReadBackwards DEF Slot
  <2>7. Slot(i - 1)' = Slot(i - 2) /\ Slot(i - 2) # head /\ Slot(i - 2) \in 0 .. Cap - 1
    BY <1>1, <2>1, <2>2, <2>4, <2>6
  <2>5. (buf')[Slot(i - 1)'] = buf[Slot(i - 2)]
    BY <2>7 DEF Push, TypeOK
  <2> QED
    BY <2>1, <2>5, RecentShape
<1>6. Recent(0)' = [i \in 1 .. n |-> IF i = 1 THEN ev ELSE Recent(0)[i - 1]]
  <2>1. \A i \in 1 .. n : (buf')[Slot(i - 1)'] = IF i = 1 THEN ev ELSE Recent(0)[i - 1]
    BY <1>1, <1>4, <1>5
  <2> QED
    BY <1>3, <2>1
<1>7. Len(Recent(0)) = size
  BY RecentShape
<1> QED
  BY <1>1, <1>6, <1>7 DEF Log!Push

(***************************************************************************)
(* The refinement: every behaviour of the ring is, through Recent, a       *)
(* behaviour of the bounded log of the newest events (ring.go).            *)
(***************************************************************************)
THEOREM RingImplementsLog ==
  ASSUME RingParameters
  PROVE  Spec => RingIsRecentLog
<1>1. Init => Log!Init
  <2> SUFFICES ASSUME Init PROVE Recent(0) = <<>>
    BY DEF Log!Init
  <2> QED
    BY DEF Init, Recent
<1>2. TypeOK /\ TypeOK' /\ [Next]_ringVars => [Log!Next]_(Recent(0))
  <2> SUFFICES ASSUME TypeOK, TypeOK', [Next]_ringVars
               PROVE  [Log!Next]_(Recent(0))
    OBVIOUS
  <2>1. CASE UNCHANGED ringVars
    BY <2>1 DEF ringVars, Recent, Slot
  <2>2. ASSUME NEW ev \in Event, Push(ev) PROVE Log!Next
    BY <2>2, PushRefines DEF Log!Next
  <2> QED
    BY <2>1, <2>2 DEF Next
<1> QED
  BY <1>1, <1>2, RingTypeCorrect, PTL DEF Spec, RingIsRecentLog, Log!Spec

=============================================================================
