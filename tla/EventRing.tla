----------------------------- MODULE EventRing -----------------------------
(***************************************************************************)
(* The fixed-capacity ring of recent events (topology/ring.go): an array   *)
(* written at head, read backwards from head with modular arithmetic.      *)
(***************************************************************************)
EXTENDS Integers, Sequences, FiniteSets

CONSTANTS
  Capacity, (* the requested ring size; newEventRing raises it to 1 *)
  Event,    (* what is pushed                                        *)
  NoEvent   (* the zero value an unwritten slot holds                *)

\* What the constants of an instance have to satisfy.
RingParameters == Capacity \in Int /\ NoEvent \notin Event

VARIABLES buf, head, size

ringVars == <<buf, head, size>>

Cap == IF Capacity < 1 THEN 1 ELSE Capacity

-----------------------------------------------------------------------------

Init ==
  /\ buf = [i \in 0 .. Cap - 1 |-> NoEvent]
  /\ head = 0
  /\ size = 0

\* Mutated Push: the fill level keeps growing once the ring has wrapped.
PushOverfull(ev) ==
  /\ buf' = [buf EXCEPT ![head] = ev]
  /\ head' = (head + 1) % Cap
  /\ size' = size + 1

Push(ev) ==
  /\ buf' = [buf EXCEPT ![head] = ev]
  /\ head' = (head + 1) % Cap
  /\ size' = IF size < Cap THEN size + 1 ELSE size

Next == \E ev \in Event : Push(ev)

Spec == Init /\ [][Next]_ringVars

-----------------------------------------------------------------------------
(* Reads: none of them changes the ring.                                   *)

\* Mutated Slot: reads the slot the next event will be written to.
SlotOffByOne(i) == (head - i + 2 * Cap) % Cap

\* The slot of the i-th newest event, i = 0 being the newest.
Slot(i) == (head - 1 - i + 2 * Cap) % Cap

\* The newest events first, at most limit of them; limit <= 0 asks for all.
Recent(limit) ==
  LET n == IF limit <= 0 \/ limit > size THEN size ELSE limit
  IN  [i \in 1 .. n |-> buf[Slot(i - 1)]]

PathHasEdge(path, from, to) ==
  \E i \in 1 .. Len(path) - 1 : path[i] = from /\ path[i + 1] = to

\* The newest limit events whose path traverses from -> to, newest first.
ByEdge(from, to, limit) ==
  LET all    == Recent(0)
      hits   == {i \in 1 .. size : PathHasEdge(all[i].path, from, to)}
      Nth(k) == CHOOSE i \in hits : Cardinality({j \in hits : j < i}) = k - 1
  IN  [k \in 1 .. IF limit < Cardinality(hits) THEN limit ELSE Cardinality(hits) |-> all[Nth(k)]]

-----------------------------------------------------------------------------

\* Type invariant: slots below the fill level hold events, the rest are unwritten.
TypeOK ==
  /\ buf \in [0 .. Cap - 1 -> Event \cup {NoEvent}]
  /\ head \in 0 .. Cap - 1
  /\ size \in 0 .. Cap

Log == INSTANCE RecentLog WITH recent <- Recent(0), Cap <- Cap

(***************************************************************************)
(* Read backwards from head, the ring is the bounded log of the newest     *)
(* events, newest first, before and after it wraps (ring.go: push, recent).*)
(***************************************************************************)
RingIsRecentLog == Log!Spec

=============================================================================
