----------------------------- MODULE HubProofs -----------------------------
(***************************************************************************)
(* What the hub guarantees for any number of clients, buffer sizes, frames *)
(* and threshold: types and capacities, no panic, frames in order.         *)
(***************************************************************************)
EXTENDS Hub, FiniteSetTheorems, SequenceTheorems, TLAPS

(***************************************************************************)
(* Who owns a client's channel.  Only a registered client's channel may be *)
(* closed, and closing it takes it off the register in the same step; one  *)
(* that has not registered yet is open; and the hub serves only registered *)
(* clients, each once a frame.                                             *)
(***************************************************************************)
Ownership ==
  /\ \A c \in closed : c \notin clients
  /\ \A c \in Clients : handler[c] \in {"none", "snapshot", "register"} =>
                          c \notin clients /\ c \notin closed
  /\ hubPc \in {"drop", "enqueue"} => target \in clients /\ target \notin todo
  /\ todo \subseteq clients
  /\ hubPc \in {"select", "done"} => todo = {}

Control ==
  /\ panicked \in BOOLEAN
  /\ clients \subseteq Clients
  /\ handler \in [Clients -> {"none", "snapshot", "register", "read", "unregister", "gone"}]
  /\ closed \subseteq Clients

ControlInv == Control /\ Ownership /\ NoPanic

LEMMA ControlInit == Init => ControlInv
<1> SUFFICES ASSUME Init PROVE ControlInv
  OBVIOUS
<1>1. Control
  BY DEF Init, Control
<1>2. Ownership
  BY DEF Init, Ownership
<1> QED
  BY <1>1, <1>2 DEF Init, ControlInv, NoPanic

LEMMA ControlStep == ControlInv /\ [Next]_vars => ControlInv'
<1> SUFFICES ASSUME ControlInv, [Next]_vars PROVE ControlInv'
  OBVIOUS
<1> USE DEF ControlInv, Control, Ownership, NoPanic, hubVars, connVars, aux, hubAndPump,
            hubAndHandler
<1>1. CASE Cancel
  BY <1>1 DEF Cancel
<1>2. CASE Broadcast
  BY <1>2 DEF Broadcast
<1>3. CASE TakeFrame
  BY <1>3 DEF TakeFrame
<1>4. ASSUME NEW c \in Clients, Offer(c) PROVE ControlInv'
  BY <1>4 DEF Offer, Offering, Room, Enqueue, SendsTo
<1>5. CASE DropOldest
  BY <1>5 DEF DropOldest
<1>6. CASE EnqueueNewest
  BY <1>6 DEF EnqueueNewest, Room, Enqueue, SendsTo
<1>7. CASE FrameDone
  BY <1>7 DEF FrameDone
<1>8. CASE HubStops
  BY <1>8 DEF HubStops, CloseAll
<1>9. ASSUME NEW c \in Clients, Register(c) PROVE ControlInv'
  BY <1>9 DEF Register
<1>10. ASSUME NEW c \in Clients, Unregister(c) PROVE ControlInv'
  BY <1>10 DEF Unregister, CloseAll
<1>11. ASSUME NEW c \in Clients, Accept(c) \/ PeerLeaves(c) \/ HandlerStep(c) PROVE ControlInv'
  BY <1>11 DEF Accept, PeerLeaves, HandlerStep, SnapshotWritten, HandlerGivesUp,
           ReadFails, LeaveDeadHub
<1>12. ASSUME NEW c \in Clients, TakeNext(c) PROVE ControlInv'
  BY <1>12 DEF TakeNext
<1>13. ASSUME NEW c \in Clients, WriteSucceeds(c) PROVE ControlInv'
  BY <1>13 DEF WriteSucceeds
<1>14. ASSUME NEW c \in Clients, PumpEnds(c) PROVE ControlInv'
  BY <1>14 DEF PumpEnds
<1>15. CASE UNCHANGED vars
  BY <1>15 DEF vars
<1> QED
  BY <1>1, <1>2, <1>3, <1>4, <1>5, <1>6, <1>7, <1>8, <1>9, <1>10, <1>11, <1>12, <1>13, <1>14, <1>15
  DEF Next, HubStep, PumpStep, Terminated

(***************************************************************************)
(* No channel is closed twice or sent on after it was closed (hub.go: Run, *)
(* sendToClient, Handler).                                                 *)
(***************************************************************************)
THEOREM NeverPanics == Spec => []NoPanic
<1>1. ControlInv => NoPanic
  BY DEF ControlInv
<1> QED
  BY <1>1, ControlInit, ControlStep, PTL DEF Spec

-----------------------------------------------------------------------------
(* Types and capacities                                                    *)

(***************************************************************************)
(* A frame the hub is handing out is a frame, and a client is owed at least*)
(* what is in its buffer, and one more while its newest frame is not in.   *)
(***************************************************************************)
Buffers ==
  /\ produced \in 0 .. MaxFrames
  /\ broadcast \in Seq(Frames) /\ Len(broadcast) <= BroadcastBuf
  /\ hubPc \in {"select", "next", "drop", "enqueue", "done"}
  /\ msg \in 0 .. MaxFrames
  /\ hubPc \in {"next", "drop", "enqueue"} => msg \in Frames
  /\ send \in [Clients -> Seq(Frames)]
  /\ \A c \in Clients : Len(send[c]) <= SendBuf
  /\ owed \in [Clients -> Nat] /\ \A c \in Clients : Len(send[c]) <= owed[c]
  /\ hubPc \in {"drop", "enqueue"} => Len(send[target]) < owed[target]
  /\ inHand \in [Clients -> 0 .. MaxFrames] /\ wire \in [Clients -> 0 .. MaxFrames]
  /\ offered \in [Clients -> 0 .. MaxFrames]

LEMMA BuffersInit == Init => Buffers
  BY HubAssumption DEF Init, Buffers, Frames

LEMMA BuffersStep == ControlInv /\ Buffers /\ [Next]_vars => Buffers'
<1> SUFFICES ASSUME ControlInv, Buffers, [Next]_vars PROVE Buffers'
  OBVIOUS
<1> USE HubAssumption
    DEF ControlInv, Control, Ownership, Buffers, Frames, hubVars, connVars, aux, hubAndPump,
        hubAndHandler
<1>1. CASE Cancel
  BY <1>1 DEF Cancel
<1>2. CASE Broadcast
  <2>1. produced' \in Frames
    BY <1>2 DEF Broadcast
  <2>2. /\ Append(broadcast, produced') \in Seq(Frames)
        /\ Len(Append(broadcast, produced')) = Len(broadcast) + 1
    BY <2>1
  <2>3. broadcast' \in Seq(Frames) /\ Len(broadcast') <= BroadcastBuf
    <3>1. CASE Len(broadcast) < BroadcastBuf
      BY <1>2, <2>2, <3>1 DEF Broadcast
    <3>2. CASE ~(Len(broadcast) < BroadcastBuf)
      BY <1>2, <3>2 DEF Broadcast
    <3> QED
      BY <3>1, <3>2
  <2> QED
    BY <1>2, <2>1, <2>3 DEF Broadcast
<1>3. CASE TakeFrame
  BY <1>3 DEF TakeFrame
<1>4. ASSUME NEW c \in Clients, Offer(c) PROVE Buffers'
  <2>1. CASE Room(c)
    <3>1. send' = [send EXCEPT ![c] = Append(@, msg)] /\ owed' = [owed EXCEPT ![c] = @ + 1]
      BY <1>4, <2>1 DEF Offer, Offering, Enqueue
    <3>2. Append(send[c], msg) \in Seq(Frames) /\ Len(Append(send[c], msg)) = Len(send[c]) + 1
      BY <1>4 DEF Offer, Offering
    <3> QED
      BY SMTT(30), <1>4, <2>1, <3>1, <3>2 DEF Offer, Offering, Room
  <2>2. CASE ~Room(c)
    BY <1>4, <2>2 DEF Offer, Offering
  <2> QED
    BY <2>1, <2>2
<1>5. CASE DropOldest
  <2>1. \/ send' = send
        \/ (send[target] # <<>> /\ send' = [send EXCEPT ![target] = Tail(@)])
    BY <1>5 DEF DropOldest
  <2>2. send[target] # <<>> =>
          Tail(send[target]) \in Seq(Frames) /\ Len(Tail(send[target])) = Len(send[target]) - 1
    <3>1. send[target] \in Seq(Frames)
      BY <1>5 DEF DropOldest
    <3> QED
      BY <3>1, HeadTailProperties
  <2>3. send' \in [Clients -> Seq(Frames)] /\ \A c \in Clients : Len(send'[c]) <= Len(send[c])
    BY <1>5, <2>1, <2>2 DEF DropOldest
  <2> QED
    BY <1>5, <2>3 DEF DropOldest
<1>6. CASE EnqueueNewest
  <2>1. CASE Room(target)
    <3>1. send' = [send EXCEPT ![target] = Append(@, msg)]
      BY <1>6, <2>1 DEF EnqueueNewest, Enqueue
    <3>2. /\ Append(send[target], msg) \in Seq(Frames)
          /\ Len(Append(send[target], msg)) = Len(send[target]) + 1
      BY <1>6 DEF EnqueueNewest
    <3> QED
      BY <1>6, <2>1, <3>1, <3>2 DEF EnqueueNewest, Room
  <2>2. CASE ~Room(target)
    BY <1>6, <2>2 DEF EnqueueNewest
  <2> QED
    BY <2>1, <2>2
<1>7. CASE FrameDone
  BY <1>7 DEF FrameDone
<1>8. CASE HubStops
  BY <1>8 DEF HubStops, CloseAll
<1>9. ASSUME NEW c \in Clients, Register(c) PROVE Buffers'
  BY <1>9 DEF Register
<1>10. ASSUME NEW c \in Clients, Unregister(c) PROVE Buffers'
  BY <1>10 DEF Unregister, CloseAll
<1>11. ASSUME NEW c \in Clients, Accept(c) \/ PeerLeaves(c) \/ HandlerStep(c) PROVE Buffers'
  BY <1>11 DEF Accept, PeerLeaves, HandlerStep, SnapshotWritten, HandlerGivesUp,
           ReadFails, LeaveDeadHub
<1>12. ASSUME NEW c \in Clients, TakeNext(c) PROVE Buffers'
  <2>1. /\ Head(send[c]) \in Frames /\ Tail(send[c]) \in Seq(Frames)
        /\ Len(Tail(send[c])) = Len(send[c]) - 1
    BY <1>12 DEF TakeNext
  <2>2. send' = [send EXCEPT ![c] = Tail(@)] /\ owed' = [owed EXCEPT ![c] = @ - 1]
    BY <1>12 DEF TakeNext
  <2>3. owed' \in [Clients -> Nat] /\ \A d \in Clients : Len(send'[d]) <= owed'[d]
    BY <2>1, <2>2
  <2>4. hubPc' \in {"drop", "enqueue"} => Len(send'[target']) < owed'[target']
    BY <1>12, <2>1, <2>2 DEF TakeNext
  <2>5. send' \in [Clients -> Seq(Frames)] /\ \A d \in Clients : Len(send'[d]) <= SendBuf
    BY SMTT(30), <2>1, <2>2
  <2>6. inHand' \in [Clients -> 0 .. MaxFrames]
    BY <1>12, <2>1 DEF TakeNext
  <2>7. UNCHANGED <<broadcast, hubPc, msg, produced, wire, offered>>
    BY <1>12 DEF TakeNext
  <2> QED
    BY <2>3, <2>4, <2>5, <2>6, <2>7
<1>13. ASSUME NEW c \in Clients, WriteSucceeds(c) PROVE Buffers'
  BY <1>13 DEF WriteSucceeds
<1>14. ASSUME NEW c \in Clients, PumpEnds(c) PROVE Buffers'
  BY <1>14 DEF PumpEnds
<1>15. CASE UNCHANGED vars
  BY <1>15 DEF vars
<1> QED
  BY <1>1, <1>2, <1>3, <1>4, <1>5, <1>6, <1>7, <1>8, <1>9, <1>10, <1>11, <1>12, <1>13, <1>14, <1>15
  DEF Next, HubStep, PumpStep, Terminated

\* The rest of the types; the register is published truly until the hub has stopped.
Published ==
  /\ cancelled \in BOOLEAN
  /\ target \in Clients \cup {NoClient}
  /\ hubPc # "done" => count = Cardinality(clients)
  /\ count \in 0 .. Cardinality(Clients)
  /\ writer \in [Clients -> {"off", "idle", "writing", "gone"}]
  /\ open \subseteq Clients
  /\ dropped \in [Clients -> Nat]

LEMMA Counting ==
  ASSUME NEW S \in SUBSET Clients, NEW c \in Clients
  PROVE  /\ Cardinality(S) \in 0 .. Cardinality(Clients)
         /\ c \notin S => Cardinality(S \cup {c}) = Cardinality(S) + 1
         /\ c \in S => Cardinality(S \ {c}) = Cardinality(S) - 1
<1>1. IsFiniteSet(Clients) /\ IsFiniteSet(S)
  BY HubAssumption, FS_Subset
<1>2. Cardinality(S) \in 0 .. Cardinality(Clients)
  BY <1>1, FS_Subset, FS_CardinalityType
<1> QED
  BY <1>1, <1>2, FS_AddElement, FS_RemoveElement

LEMMA PublishedInit == Init => Published
<1> SUFFICES ASSUME Init PROVE Published
  OBVIOUS
<1>1. Cardinality({}) = 0 /\ Cardinality(Clients) \in Nat
  BY HubAssumption, FS_EmptySet, FS_CardinalityType
<1>2. cancelled \in BOOLEAN
  BY DEF Init
<1> QED
  BY <1>1, <1>2 DEF Init, Published

LEMMA PublishedStep == ControlInv /\ Published /\ [Next]_vars => Published'
<1> SUFFICES ASSUME ControlInv, Published, [Next]_vars PROVE Published'
  OBVIOUS
<1> USE HubAssumption
    DEF ControlInv, Control, Ownership, Published, hubVars, connVars, aux, hubAndPump,
        hubAndHandler
<1>1. CASE Cancel
  BY <1>1 DEF Cancel
<1>2. CASE Broadcast
  BY <1>2 DEF Broadcast
<1>3. CASE TakeFrame
  BY <1>3 DEF TakeFrame
<1>4. ASSUME NEW c \in Clients, Offer(c) PROVE Published'
  BY <1>4 DEF Offer, Offering, Room, Enqueue, SendsTo
<1>5. CASE DropOldest
  BY <1>5 DEF DropOldest
<1>6. CASE EnqueueNewest
  <2>1. target \in Clients /\ target \in clients
    BY <1>6 DEF EnqueueNewest
  <2>2. \/ clients' = clients /\ count' = count
        \/ clients' = clients \ {target} /\ count' = count - 1
    <3>1. CASE dropped[target] + 1 > DropThreshold
      BY <1>6, <3>1 DEF EnqueueNewest
    <3>2. CASE ~(dropped[target] + 1 > DropThreshold)
      BY <1>6, <3>2 DEF EnqueueNewest
    <3> QED
      BY <3>1, <3>2
  <2>3. count' = Cardinality(clients') /\ count' \in 0 .. Cardinality(Clients)
    BY <1>6, <2>1, <2>2, Counting
    DEF EnqueueNewest
  <2>4. dropped' \in [Clients -> Nat] /\ target' = NoClient
    BY <1>6, <2>1 DEF EnqueueNewest
  <2> QED
    BY <1>6, <2>3, <2>4 DEF EnqueueNewest
<1>7. CASE FrameDone
  BY <1>7 DEF FrameDone
<1>8. CASE HubStops
  BY <1>8 DEF HubStops, CloseAll
<1>9. ASSUME NEW c \in Clients, Register(c) PROVE Published'
  <2>1. c \notin clients /\ clients' = clients \cup {c} /\ count' = count + 1
    BY <1>9 DEF Register
  <2>2. clients' \subseteq Clients
    BY <2>1
  <2>3. count' = Cardinality(clients') /\ count' \in 0 .. Cardinality(Clients)
    <3>1. Cardinality(clients \cup {c}) = Cardinality(clients) + 1
      BY <2>1, Counting
    <3>2. Cardinality(clients') \in 0 .. Cardinality(Clients)
      BY <2>2, Counting
    <3> QED
      BY <1>9, <2>1, <3>1, <3>2 DEF Register
  <2> QED
    BY <1>9, <2>3 DEF Register
<1>10. ASSUME NEW c \in Clients, Unregister(c) PROVE Published'
  <2>1. \/ clients' = clients /\ count' = count
        \/ c \in clients /\ clients' = clients \ {c} /\ count' = count - 1
    <3>1. CASE c \in clients
      BY <1>10, <3>1 DEF Unregister
    <3>2. CASE c \notin clients
      BY <1>10, <3>2 DEF Unregister
    <3> QED
      BY <3>1, <3>2
  <2>2. clients' \subseteq Clients
    BY <2>1
  <2>3. count' = Cardinality(clients') /\ count' \in 0 .. Cardinality(Clients)
    <3>1. c \in clients => Cardinality(clients \ {c}) = Cardinality(clients) - 1
      BY Counting
    <3>2. Cardinality(clients') \in 0 .. Cardinality(Clients)
      BY <2>2, Counting
    <3> QED
      BY <1>10, <2>1, <3>1, <3>2 DEF Unregister
  <2> QED
    BY <1>10, <2>3 DEF Unregister
<1>11. ASSUME NEW c \in Clients, Accept(c) \/ PeerLeaves(c) \/ HandlerStep(c) PROVE Published'
  BY <1>11 DEF Accept, PeerLeaves, HandlerStep, SnapshotWritten, HandlerGivesUp,
           ReadFails, LeaveDeadHub
<1>12. ASSUME NEW c \in Clients, TakeNext(c) PROVE Published'
  BY <1>12 DEF TakeNext
<1>13. ASSUME NEW c \in Clients, WriteSucceeds(c) PROVE Published'
  BY <1>13 DEF WriteSucceeds
<1>14. ASSUME NEW c \in Clients, PumpEnds(c) PROVE Published'
  BY <1>14 DEF PumpEnds
<1>15. CASE UNCHANGED vars
  BY <1>15 DEF vars
<1> QED
  BY <1>1, <1>2, <1>3, <1>4, <1>5, <1>6, <1>7, <1>8, <1>9, <1>10, <1>11, <1>12, <1>13, <1>14, <1>15
  DEF Next, HubStep, PumpStep, Terminated

(***************************************************************************)
(* Buffers stay within their capacities and the published count is that of *)
(* the register, whoever removes a client first (hub.go: Run, Clients).    *)
(***************************************************************************)
THEOREM TypeCorrect == Spec => []TypeOK
<1>1. ControlInv /\ Buffers /\ Published => TypeOK
  BY DEF ControlInv, Control, Ownership, NoPanic, Buffers, Published, TypeOK, Frames
<1>2. Init => ControlInv /\ Buffers /\ Published
  BY ControlInit, BuffersInit, PublishedInit
<1>3. ControlInv /\ Buffers /\ Published /\ [Next]_vars
        => ControlInv' /\ Buffers' /\ Published'
  BY ControlStep, BuffersStep, PublishedStep
<1> QED
  BY <1>1, <1>2, <1>3, PTL DEF Spec

-----------------------------------------------------------------------------
(* Order                                                                   *)

(***************************************************************************)
(* Frames wait in order in the backlog, behind the one being handed out,   *)
(* and that one is newer than whatever a client still to be served was     *)
(* meant to get; what is on its way to a client is in order and no newer   *)
(* than that.                                                              *)
(***************************************************************************)
Backlog ==
  /\ \A k \in 1 .. Len(broadcast) :
       /\ broadcast[k] <= produced /\ msg < broadcast[k]
       /\ \A j \in 1 .. k - 1 : broadcast[j] < broadcast[k]
       /\ \A c \in Clients : offered[c] < broadcast[k]
  /\ msg <= produced
  /\ \A c \in Clients :
       /\ offered[c] <= produced
       /\ hubPc \in {"next", "drop", "enqueue"} => offered[c] <= msg
       /\ c \in todo => offered[c] < msg
  /\ hubPc \in {"drop", "enqueue"} => offered[target] = msg

Ascending(w, h, q, newest) ==
  /\ w <= newest /\ h <= newest
  /\ h # 0 => w < h
  /\ \A k \in 1 .. Len(q) :
       /\ q[k] <= newest /\ w < q[k] /\ h < q[k]
       /\ \A j \in 1 .. k - 1 : q[j] < q[k]

InOrder(c, newest) == Ascending(wire[c], inHand[c], send[c], newest)

Lines ==
  /\ \A c \in Clients : InOrder(c, offered[c])
  /\ hubPc \in {"drop", "enqueue"} => InOrder(target, msg - 1)

Order == Backlog /\ Lines

LEMMA OrderInit == Init => Order
  BY DEF Init, Order, Backlog, Lines, InOrder, Ascending

\* The oldest frame is taken or dropped, the frame in hand written or given up, a
\* newer frame appended.
LEMMA FramesOfSeq ==
  ASSUME NEW q \in Seq(Frames)
  PROVE  Len(q) \in Nat /\ \A k \in 1 .. Len(q) : q[k] \in Nat \ {0}
<1>1. \A k \in 1 .. Len(q) : q[k] \in Frames
  BY ElementOfSeq
<1>2. \A f \in Frames : f \in Nat \ {0}
  BY HubAssumption DEF Frames
<1> QED
  BY <1>1, <1>2, LenProperties

LEMMA AscendingTail ==
  ASSUME NEW w \in Nat, NEW h \in Nat, NEW q \in Seq(Frames), NEW n \in Nat,
         Ascending(w, h, q, n), q # <<>>
  PROVE  Ascending(w, h, Tail(q), n) /\ Ascending(w, Head(q), Tail(q), n)
<1>1. Len(Tail(q)) = Len(q) - 1 /\ \A k \in 1 .. Len(q) - 1 : Tail(q)[k] = q[k + 1]
  BY HeadTailProperties
<1>2. Len(q) \in Nat \ {0} /\ Head(q) = q[1] /\ \A k \in 1 .. Len(q) : q[k] \in Nat \ {0}
  BY EmptySeq, FramesOfSeq
<1> QED
  BY <1>1, <1>2 DEF Ascending

LEMMA AscendingWritten ==
  ASSUME NEW w \in Nat, NEW h \in Nat, NEW q \in Seq(Frames), NEW n \in Nat,
         Ascending(w, h, q, n)
  PROVE  Ascending(h, 0, q, n) /\ Ascending(w, 0, q, n)
<1>1. \A k \in 1 .. Len(q) : q[k] \in Nat \ {0}
  BY FramesOfSeq
<1> QED
  BY <1>1 DEF Ascending

LEMMA AscendingAppended ==
  ASSUME NEW w \in Nat, NEW h \in Nat, NEW q \in Seq(Frames), NEW n \in Nat, NEW m \in Frames,
         Ascending(w, h, q, n), n < m
  PROVE  Ascending(w, h, Append(q, m), m)
<1>1. Len(q) \in Nat /\ \A k \in 1 .. Len(q) : q[k] \in Nat
  BY FramesOfSeq
<1>2. /\ Len(Append(q, m)) = Len(q) + 1 /\ Append(q, m)[Len(q) + 1] = m
      /\ \A k \in 1 .. Len(q) : Append(q, m)[k] = q[k]
  BY AppendProperties
<1> QED
  BY <1>1, <1>2 DEF Ascending, Frames

LEMMA AscendingWeaker ==
  ASSUME NEW w \in Nat, NEW h \in Nat, NEW q \in Seq(Frames), NEW n \in Nat, NEW m \in Nat,
         Ascending(w, h, q, n), n <= m
  PROVE  Ascending(w, h, q, m)
<1>1. \A k \in 1 .. Len(q) : q[k] \in Nat
  BY FramesOfSeq
<1> QED
  BY <1>1 DEF Ascending

LEMMA BacklogStep == ControlInv /\ Buffers /\ Order /\ [Next]_vars => Backlog'
<1> SUFFICES ASSUME ControlInv, Buffers, Order, [Next]_vars PROVE Backlog'
  OBVIOUS
<1> USE HubAssumption
    DEF ControlInv, Control, Ownership, Buffers, Order, Backlog, Frames, hubVars, connVars, aux,
        hubAndPump, hubAndHandler
<1>1. CASE Cancel
  BY <1>1 DEF Cancel
<1>2. CASE Broadcast
  BY SMTT(30), <1>2 DEF Broadcast
<1>3. CASE TakeFrame
  BY SMTT(30), <1>3 DEF TakeFrame
<1>4. ASSUME NEW c \in Clients, Offer(c) PROVE Backlog'
  <2>1. /\ hubPc = "next" /\ c \in todo /\ todo' = todo \ {c}
        /\ offered' = [offered EXCEPT ![c] = msg]
        /\ UNCHANGED <<produced, broadcast, msg>>
    BY <1>4 DEF Offer, Offering
  <2>2. hubPc' \in {"drop", "enqueue"} => target' = c
    <3>1. CASE Room(c)
      BY <1>4, <2>1, <3>1 DEF Offer
    <3>2. CASE ~Room(c)
      BY <1>4, <3>2 DEF Offer
    <3> QED
      BY <3>1, <3>2
  <2>3. hubPc' \in {"next", "drop"}
    BY <1>4, <2>1 DEF Offer
  <2>4. \A d \in Clients : offered'[d] = IF d = c THEN msg ELSE offered[d]
    BY <2>1
  <2>5. \A k \in 1 .. Len(broadcast) : \A d \in Clients : offered'[d] < broadcast[k]
    BY <2>4
  <2>6. \A d \in Clients : offered'[d] <= msg /\ (d \in todo' => offered'[d] < msg)
    BY <2>1, <2>4
  <2>7. hubPc' \in {"drop", "enqueue"} => offered'[target'] = msg
    BY <2>2, <2>4
  <2> QED
    BY <2>1, <2>3, <2>5, <2>6, <2>7
<1>5. CASE DropOldest
  BY <1>5 DEF DropOldest
<1>6. CASE EnqueueNewest
  BY <1>6 DEF EnqueueNewest, Room, Enqueue, SendsTo
<1>7. CASE FrameDone
  <2>1. /\ hubPc' = "select" /\ msg' = 0 /\ todo' = {}
        /\ UNCHANGED <<produced, broadcast, offered>>
    BY <1>7 DEF FrameDone
  <2>2. \A k \in 1 .. Len(broadcast) : broadcast[k] \in Nat \ {0}
    BY FramesOfSeq
  <2>3. /\ \A k \in 1 .. Len(broadcast) : 0 < broadcast[k]
        /\ produced \in Nat
    BY <2>2
  <2> QED
    BY SMTT(30), <2>1, <2>3
<1>8. CASE HubStops
  BY <1>8 DEF HubStops, CloseAll
<1>9. ASSUME NEW c \in Clients, Register(c) PROVE Backlog'
  BY <1>9 DEF Register
<1>10. ASSUME NEW c \in Clients, Unregister(c) PROVE Backlog'
  BY <1>10 DEF Unregister, CloseAll
<1>11. ASSUME NEW c \in Clients, Accept(c) \/ PeerLeaves(c) \/ HandlerStep(c) PROVE Backlog'
  <2>1. UNCHANGED <<produced, broadcast, hubPc, target, msg, todo, offered>>
    BY <1>11 DEF Accept, PeerLeaves, HandlerStep, SnapshotWritten, HandlerGivesUp,
                 ReadFails, LeaveDeadHub
  <2> QED
    BY <2>1
<1>12. ASSUME NEW c \in Clients, TakeNext(c) PROVE Backlog'
  BY <1>12 DEF TakeNext
<1>13. ASSUME NEW c \in Clients, WriteSucceeds(c) PROVE Backlog'
  BY <1>13 DEF WriteSucceeds
<1>14. ASSUME NEW c \in Clients, PumpEnds(c) PROVE Backlog'
  BY <1>14 DEF PumpEnds
<1>15. CASE UNCHANGED vars
  BY <1>15 DEF vars
<1> QED
  BY <1>1, <1>2, <1>3, <1>4, <1>5, <1>6, <1>7, <1>8, <1>9, <1>10, <1>11, <1>12, <1>13, <1>14, <1>15
  DEF Next, HubStep, PumpStep, Terminated

LEMMA LinesStep == ControlInv /\ Buffers /\ Order /\ [Next]_vars => Lines'
<1> SUFFICES ASSUME ControlInv, Buffers, Order, [Next]_vars PROVE Lines'
  OBVIOUS
<1>0. /\ \A c \in Clients : /\ wire[c] \in Nat /\ inHand[c] \in Nat /\ offered[c] \in Nat
                            /\ send[c] \in Seq(Frames)
      /\ hubPc \in {"drop", "enqueue"} => target \in Clients /\ msg - 1 \in Nat
  BY HubAssumption DEF ControlInv, Control, Ownership, Buffers, Frames
<1> USE <1>0
    DEF ControlInv, Control, Ownership, Buffers, Order, Lines, hubVars, connVars, aux, hubAndPump,
        hubAndHandler
<1>1. CASE Cancel
  BY <1>1 DEF Cancel, InOrder
<1>2. CASE Broadcast
  BY <1>2 DEF Broadcast, InOrder
<1>3. CASE TakeFrame
  BY <1>3 DEF TakeFrame, InOrder
<1>4. ASSUME NEW c \in Clients, Offer(c) PROVE Lines'
  <2>1. /\ c \in Clients /\ msg \in Frames /\ offered[c] < msg /\ msg - 1 \in Nat
        /\ offered' = [offered EXCEPT ![c] = msg] /\ UNCHANGED <<wire, inHand, msg>>
    BY <1>4, HubAssumption DEF Offer, Offering, Order, Backlog, Frames
  <2>2. \A d \in Clients \ {c} : InOrder(d, offered[d])'
    BY <1>4, <2>1 DEF Offer, Offering, Enqueue, InOrder
  <2>3. InOrder(c, offered[c])
    OBVIOUS
  <2>4. CASE Room(c)
    <3>1. send'[c] = Append(send[c], msg) /\ hubPc' = "next"
      BY <1>4, <2>4 DEF Offer, Offering, Enqueue
    <3>2. InOrder(c, offered[c])'
      BY <2>1, <2>3, <3>1, AscendingAppended DEF InOrder
    <3> QED
      BY <2>2, <3>1, <3>2
  <2>5. CASE ~Room(c)
    <3>1. send' = send /\ target' = c
      BY <1>4, <2>5 DEF Offer, Offering
    <3>2. InOrder(c, msg - 1)' /\ InOrder(c, offered[c])'
      BY <2>1, <2>3, <3>1, AscendingWeaker DEF InOrder, Frames
    <3> QED
      BY <2>2, <3>1, <3>2
  <2> QED
    BY <2>4, <2>5
<1>5. CASE DropOldest
  <2>1. /\ target \in Clients /\ msg - 1 \in Nat /\ hubPc = "drop"
        /\ UNCHANGED <<wire, inHand, offered, msg, target>>
    BY <1>5, HubAssumption DEF DropOldest, Frames
  <2>2. \A d \in Clients \ {target} : InOrder(d, offered[d])'
    BY <1>5, <2>1 DEF DropOldest, InOrder
  <2>3. CASE send[target] = <<>>
    BY <1>5, <2>1, <2>3 DEF DropOldest, InOrder
  <2>4. CASE send[target] # <<>>
    <3>1. send'[target] = Tail(send[target])
      BY <1>5, <2>1, <2>4 DEF DropOldest
    <3>2. InOrder(target, offered[target])' /\ InOrder(target, msg - 1)'
      BY <2>1, <2>4, <3>1, AscendingTail DEF InOrder
    <3> QED
      BY <2>1, <2>2, <3>2
  <2> QED
    BY <2>3, <2>4
<1>6. CASE EnqueueNewest
  <2>1. /\ target \in Clients /\ msg \in Frames /\ msg - 1 \in Nat /\ offered[target] = msg
        /\ InOrder(target, msg - 1) /\ hubPc' = "next"
        /\ UNCHANGED <<wire, inHand, offered, msg>>
    BY <1>6, HubAssumption DEF EnqueueNewest, Order, Backlog, Frames
  <2>2. \A d \in Clients \ {target} : InOrder(d, offered[d])'
    BY <1>6, <2>1 DEF EnqueueNewest, Enqueue, InOrder
  <2>3. CASE Room(target)
    <3>1. send'[target] = Append(send[target], msg)
      BY <1>6, <2>1, <2>3 DEF EnqueueNewest, Enqueue
    <3>2. msg - 1 < msg
      BY HubAssumption, <2>1 DEF Frames
    <3>3. Ascending(wire[target], inHand[target], Append(send[target], msg), msg)
      BY <2>1, <3>2, AscendingAppended DEF InOrder
    <3> QED
      BY <2>1, <2>2, <3>1, <3>3 DEF InOrder
  <2>4. CASE ~Room(target)
    BY <1>6, <2>1, <2>4 DEF EnqueueNewest, InOrder
  <2> QED
    BY <2>3, <2>4
<1>7. CASE FrameDone
  BY <1>7 DEF FrameDone, InOrder
<1>8. CASE HubStops
  BY <1>8 DEF HubStops, InOrder
<1>9. ASSUME NEW c \in Clients, Register(c) PROVE Lines'
  BY <1>9 DEF Register, InOrder
<1>10. ASSUME NEW c \in Clients, Unregister(c) PROVE Lines'
  BY <1>10 DEF Unregister, InOrder
<1>11. ASSUME NEW c \in Clients, Accept(c) \/ PeerLeaves(c) \/ HandlerStep(c) PROVE Lines'
  <2>1. UNCHANGED <<hubPc, target, msg, wire, inHand, send, offered>>
    BY <1>11 DEF Accept, PeerLeaves, HandlerStep, SnapshotWritten, HandlerGivesUp,
                 ReadFails, LeaveDeadHub
  <2> QED
    BY <2>1 DEF InOrder
<1>12. ASSUME NEW c \in Clients, TakeNext(c) PROVE Lines'
  <2>1. /\ inHand'[c] = Head(send[c]) /\ send'[c] = Tail(send[c]) /\ send[c] # <<>>
        /\ UNCHANGED <<hubPc, target, msg, wire, offered>>
    BY <1>12 DEF TakeNext
  <2>2. \A d \in Clients \ {c} : inHand'[d] = inHand[d] /\ send'[d] = send[d]
    BY <1>12 DEF TakeNext
  <2>3. \A n \in Nat : InOrder(c, n) => Ascending(wire[c], Head(send[c]), Tail(send[c]), n)
    BY <2>1, AscendingTail DEF InOrder
  <2> QED
    BY ZenonT(60), <2>1, <2>2, <2>3 DEF InOrder
<1>13. ASSUME NEW c \in Clients, WriteSucceeds(c) PROVE Lines'
  <2>1. /\ wire'[c] = inHand[c] /\ inHand'[c] = 0
        /\ UNCHANGED <<hubPc, target, msg, send, offered>>
    BY <1>13 DEF WriteSucceeds
  <2>2. \A d \in Clients \ {c} : inHand'[d] = inHand[d] /\ wire'[d] = wire[d]
    BY <1>13 DEF WriteSucceeds
  <2>3. \A n \in Nat : InOrder(c, n) => Ascending(inHand[c], 0, send[c], n)
    BY AscendingWritten DEF InOrder
  <2> QED
    BY <2>1, <2>2, <2>3 DEF InOrder
<1>14. ASSUME NEW c \in Clients, PumpEnds(c) PROVE Lines'
  <2>1. inHand'[c] = 0 /\ UNCHANGED <<hubPc, target, msg, send, wire, offered>>
    BY <1>14 DEF PumpEnds
  <2>2. \A d \in Clients \ {c} : inHand'[d] = inHand[d]
    BY <1>14 DEF PumpEnds
  <2>3. \A n \in Nat : InOrder(c, n) => Ascending(wire[c], 0, send[c], n)
    BY AscendingWritten DEF InOrder
  <2> QED
    BY <2>1, <2>2, <2>3 DEF InOrder
<1>15. CASE UNCHANGED vars
  BY <1>15 DEF vars, InOrder
<1> QED
  BY <1>1, <1>2, <1>3, <1>4, <1>5, <1>6, <1>7, <1>8, <1>9, <1>10, <1>11, <1>12, <1>13, <1>14, <1>15
  DEF Next, HubStep, PumpStep, Terminated

(***************************************************************************)
(* Each client sees frames at most once and in the order they were         *)
(* broadcast, however the pump races the hub that drops the oldest         *)
(* (hub.go: sendToClient; client.go: writePump).                           *)
(***************************************************************************)
THEOREM FramesAlwaysIncrease == Spec => []FramesIncrease
<1>1. ControlInv /\ Buffers /\ Order => FramesIncrease
  <2> SUFFICES ASSUME Buffers, Order, NEW c \in Clients,
                      NEW j \in DOMAIN Line(c), NEW k \in DOMAIN Line(c),
                      j < k, Line(c)[k] # 0
               PROVE  Line(c)[j] < Line(c)[k]
    BY DEF FramesIncrease
  <2>1. /\ wire[c] \in Nat /\ inHand[c] \in Nat /\ send[c] \in Seq(Nat)
        /\ <<wire[c], inHand[c]>> \in Seq(Nat)
    BY HubAssumption, SeqMonotonic, Frames \subseteq Nat DEF Buffers, Frames
  <2>2. /\ Len(Line(c)) = 2 + Len(send[c]) /\ DOMAIN Line(c) = 1 .. Len(Line(c))
        /\ \A n \in 1 .. 2 + Len(send[c]) :
             Line(c)[n] = IF n <= 2 THEN <<wire[c], inHand[c]>>[n] ELSE send[c][n - 2]
    BY <2>1, ConcatProperties, LenProperties DEF Line
  <2>3. Ascending(wire[c], inHand[c], send[c], offered[c])
    BY DEF Order, Lines, InOrder
  <2>4. Line(c)[1] = wire[c] /\ Line(c)[2] = inHand[c] /\ Len(send[c]) \in Nat
    BY <2>1, <2>2, LenProperties
  <2>5. \A n \in Nat : n \in 3 .. 2 + Len(send[c]) =>
          /\ n - 2 \in 1 .. Len(send[c])
          /\ Line(c)[n] = send[c][n - 2]
    BY <2>2, <2>4
  <2>6. CASE k = 2
    BY <2>2, <2>3, <2>4, <2>6 DEF Ascending
  <2>7. CASE k > 2 /\ j > 2
    BY <2>2, <2>3, <2>4, <2>5, <2>7 DEF Ascending
  <2>8. CASE k > 2 /\ j <= 2
    <3>1. j = 1 \/ j = 2
      BY <2>2, <2>4, <2>8
    <3> QED
      BY <3>1, <2>2, <2>3, <2>4, <2>5, <2>8 DEF Ascending
  <2> QED
    BY <2>2, <2>4, <2>6, <2>7, <2>8
<1>2. Init => ControlInv /\ Buffers /\ Order
  BY ControlInit, BuffersInit, OrderInit
<1>3. ControlInv /\ Buffers /\ Order /\ [Next]_vars => ControlInv' /\ Buffers' /\ Order'
  BY ControlStep, BuffersStep, BacklogStep, LinesStep DEF Order
<1> QED
  BY <1>1, <1>2, <1>3, PTL DEF Spec

-----------------------------------------------------------------------------
(* Drop-oldest                                                             *)

(***************************************************************************)
(* Nothing was ever meant for a client that has not registered; a pump     *)
(* that writes has a frame in hand; the hub serves one client at a time.   *)
(***************************************************************************)
Untouched(c) ==
  /\ offered[c] = 0 /\ owed[c] = 0 /\ send[c] = <<>> /\ inHand[c] = 0 /\ wire[c] = 0
  /\ writer[c] = "off"

Pumps ==
  /\ dropped \in [Clients -> Nat]
  /\ writer \in [Clients -> {"off", "idle", "writing", "gone"}]
  /\ \A c \in Clients :
       /\ handler[c] \in {"none", "snapshot", "register"} => Untouched(c)
       /\ writer[c] = "writing" => inHand[c] # 0
  /\ hubPc \notin {"drop", "enqueue"} => target = NoClient

(***************************************************************************)
(* A registered client that the hub is not serving gets the newest frame   *)
(* as long as its pump lives, and its misses are counted.  While the hub   *)
(* makes room it has one miss more than was counted, and another once the  *)
(* oldest is out; then there is room, for nobody else puts frames in.      *)
(***************************************************************************)
Served(c) == c \in clients /\ target # c

Kept(c) == (writer[c] # "gone" => Newest(c) = offered[c]) /\ Missed(c) <= dropped[c]

MakingRoom ==
  /\ hubPc = "drop" => Missed(target) <= dropped[target] + 1
  /\ hubPc = "enqueue" => Missed(target) <= dropped[target] + 2 /\ Room(target)

Counted == (\A c \in Clients : Served(c) => Kept(c)) /\ MakingRoom

LEMMA DroppingInit == Init => Pumps /\ Counted
<1> SUFFICES ASSUME Init PROVE Pumps /\ Counted
  OBVIOUS
<1>1. Pumps /\ MakingRoom
  BY DEF Init, Pumps, MakingRoom, Untouched
<1>2. \A c \in Clients : ~Served(c)
  BY DEF Init, Served
<1> QED
  BY <1>1, <1>2 DEF Counted

LEMMA PumpsStep == ControlInv /\ Buffers /\ Pumps /\ [Next]_vars => Pumps'
<1> SUFFICES ASSUME ControlInv, Buffers, Pumps, [Next]_vars PROVE Pumps'
  OBVIOUS
<1> USE HubAssumption
    DEF ControlInv, Control, Ownership, Pumps, Untouched, hubVars, connVars, aux, hubAndPump,
        hubAndHandler
<1>1. CASE Cancel
  BY <1>1 DEF Cancel
<1>2. CASE Broadcast
  BY <1>2 DEF Broadcast
<1>3. CASE TakeFrame
  BY <1>3 DEF TakeFrame
<1>4. ASSUME NEW c \in Clients, Offer(c) PROVE Pumps'
  <2>1. handler[c] \notin {"none", "snapshot", "register"}
    BY <1>4 DEF Offer, Offering
  <2>2. /\ \A d \in Clients \ {c} : /\ send'[d] = send[d] /\ owed'[d] = owed[d]
                                    /\ offered'[d] = offered[d]
        /\ UNCHANGED <<dropped, writer, handler, inHand, wire>>
    BY <1>4 DEF Offer, Offering, Enqueue, Buffers
  <2>3. hubPc = "next" /\ (hubPc' \notin {"drop", "enqueue"} => target' = target)
    BY <1>4 DEF Offer, Offering
  <2> QED
    BY <2>1, <2>2, <2>3
<1>5. CASE DropOldest
  <2>1. handler[target] \notin {"none", "snapshot", "register"}
    BY <1>5 DEF DropOldest
  <2> QED
    BY <1>5, <2>1 DEF DropOldest
<1>6. CASE EnqueueNewest
  <2>1. handler[target] \notin {"none", "snapshot", "register"}
    BY <1>6 DEF EnqueueNewest
  <2>2. /\ \A d \in Clients \ {target} : send'[d] = send[d]
        /\ UNCHANGED <<offered, owed, writer, handler, inHand, wire>>
        /\ dropped' \in [Clients -> Nat] /\ target' = NoClient
    BY SMTT(60), <1>6 DEF EnqueueNewest, Enqueue, Buffers
  <2> QED
    BY <2>1, <2>2
<1>7. CASE FrameDone
  BY <1>7 DEF FrameDone
<1>8. CASE HubStops
  BY <1>8 DEF HubStops, CloseAll
<1>9. ASSUME NEW c \in Clients, Register(c) PROVE Pumps'
  BY <1>9 DEF Register
<1>10. ASSUME NEW c \in Clients, Unregister(c) PROVE Pumps'
  BY <1>10 DEF Unregister, CloseAll
<1>11. ASSUME NEW c \in Clients, Accept(c) \/ PeerLeaves(c) \/ HandlerStep(c) PROVE Pumps'
  BY <1>11 DEF Accept, PeerLeaves, HandlerStep, SnapshotWritten, HandlerGivesUp,
           ReadFails, LeaveDeadHub
<1>12. ASSUME NEW c \in Clients, TakeNext(c) PROVE Pumps'
  <2>1. inHand'[c] # 0
    BY <1>12, FramesOfSeq, EmptySeq DEF TakeNext, Buffers
  <2> QED
    BY <1>12, <2>1 DEF TakeNext
<1>13. ASSUME NEW c \in Clients, WriteSucceeds(c) PROVE Pumps'
  BY <1>13 DEF WriteSucceeds
<1>14. ASSUME NEW c \in Clients, PumpEnds(c) PROVE Pumps'
  <2>1. handler[c] \notin {"none", "snapshot", "register"}
    BY <1>14 DEF PumpEnds
  <2> QED
    BY <1>14, <2>1 DEF PumpEnds
<1>15. CASE UNCHANGED vars
  BY <1>15 DEF vars
<1> QED
  BY <1>1, <1>2, <1>3, <1>4, <1>5, <1>6, <1>7, <1>8, <1>9, <1>10, <1>11, <1>12, <1>13, <1>14, <1>15
  DEF Next, HubStep, PumpStep, Terminated

\* What is the newest frame, and how many were missed, when a frame goes in, the oldest
\* is taken by the pump or dropped by the hub, and a frame is written.
LEMMA NewestAppended ==
  ASSUME NEW q \in Seq(Frames), NEW m \in Frames
  PROVE  /\ Append(q, m) # <<>> /\ Len(Append(q, m)) = Len(q) + 1
         /\ Append(q, m)[Len(Append(q, m))] = m
  BY AppendProperties, EmptySeq

LEMMA NewestLeft ==
  ASSUME NEW q \in Seq(Frames), q # <<>>
  PROVE  /\ Len(Tail(q)) = Len(q) - 1
         /\ Tail(q) = <<>> => q[Len(q)] = Head(q)
         /\ Tail(q) # <<>> => Tail(q)[Len(Tail(q))] = q[Len(q)]
<1>1. /\ Tail(q) \in Seq(Frames) /\ Len(Tail(q)) = Len(q) - 1 /\ Head(q) = q[1]
      /\ \A k \in 1 .. Len(q) - 1 : Tail(q)[k] = q[k + 1]
  BY HeadTailProperties
<1>2. Len(q) \in Nat /\ Len(q) > 0
  BY EmptySeq, LenProperties
<1>3. Tail(q) = <<>> <=> Len(q) = 1
  <2>1. Tail(q) = <<>> <=> Len(Tail(q)) = 0
    BY <1>1, EmptySeq
  <2> QED
    BY <1>1, <1>2, <2>1
<1>4. CASE Len(q) = 1
  BY <1>1, <1>3, <1>4
<1>5. CASE Len(q) # 1
  <2>1. Len(Tail(q)) \in 1 .. Len(q) - 1 /\ Len(Tail(q)) + 1 = Len(q)
    BY <1>1, <1>2, <1>5
  <2> QED
    BY <1>1, <1>3, <1>5, <2>1
<1> QED
  BY <1>4, <1>5

\* A step that leaves client c's frames alone.
SameFor(c) ==
  /\ send'[c] = send[c] /\ inHand'[c] = inHand[c] /\ wire'[c] = wire[c]
  /\ offered'[c] = offered[c] /\ owed'[c] = owed[c] /\ dropped'[c] = dropped[c]
  /\ writer'[c] # "gone" => writer[c] # "gone"

LEMMA SameForStep ==
  ASSUME NEW c \in Clients, SameFor(c)
  PROVE  Missed(c)' = Missed(c) /\ (Kept(c) => Kept(c)')
  BY DEF SameFor, Newest, Missed, Kept

LEMMA CountedStep == ControlInv /\ Buffers /\ Order /\ Pumps /\ Counted /\ [Next]_vars => Counted'
<1> SUFFICES ASSUME ControlInv, Buffers, Order, Pumps, Counted, [Next]_vars
             PROVE  Counted'
  OBVIOUS
<1>0. /\ \A c \in Clients : /\ owed[c] \in Nat /\ dropped[c] \in Nat /\ send[c] \in Seq(Frames)
                            /\ Len(send[c]) \in Nat /\ Len(send[c]) <= SendBuf
      /\ SendBuf \in Nat \ {0}
      /\ hubPc \in {"drop", "enqueue"} => target \in Clients
  BY HubAssumption, LenProperties DEF Buffers, Pumps, ControlInv, Control, Ownership
<1>1. MakingRoom /\ \A c \in Clients : Served(c) => Kept(c)
  BY DEF Counted
\* Steps that leave every client's frames, and the one being served, alone.
<1>2. ASSUME \A c \in Clients : SameFor(c) /\ (Served(c)' => Served(c)),
             hubPc' \in {"drop", "enqueue"} => hubPc' = hubPc /\ target' = target
      PROVE  Counted'
  <2>1. \A c \in Clients : Served(c)' => Kept(c)'
    BY <1>1, <1>2, SameForStep
  <2>2. hubPc' \in {"drop", "enqueue"} =>
          /\ target \in Clients /\ target' = target /\ hubPc' = hubPc
          /\ Missed(target)' = Missed(target) /\ (Room(target)' <=> Room(target))
          /\ dropped'[target'] = dropped[target]
    BY <1>0, <1>2, SameForStep DEF SameFor, Room
  <2> QED
    BY <1>1, <2>1, <2>2 DEF MakingRoom, Counted
<1>4. CASE Cancel
  BY <1>2, <1>4 DEF Cancel, SameFor, Served, hubVars, connVars, aux
<1>5. CASE Broadcast
  BY <1>2, <1>5 DEF Broadcast, SameFor, Served, hubVars, connVars, aux
<1>6. CASE TakeFrame
  BY <1>2, <1>6 DEF TakeFrame, SameFor, Served, connVars, aux
<1>7. CASE FrameDone
  BY <1>2, <1>7 DEF FrameDone, SameFor, Served, connVars, aux
<1>8. CASE HubStops
  BY <1>2, <1>8 DEF HubStops, SameFor, Served, connVars, aux
<1>9. ASSUME NEW c \in Clients, Unregister(c) PROVE Counted'
  BY <1>2, <1>9 DEF Unregister, CloseAll, SameFor, Served, aux
<1>10. ASSUME NEW c \in Clients, Accept(c) \/ PeerLeaves(c) \/ HandlerStep(c) PROVE Counted'
  BY <1>2, <1>10
  DEF Accept, PeerLeaves, HandlerStep, SnapshotWritten, HandlerGivesUp, ReadFails, LeaveDeadHub,
      SameFor, Served, hubAndPump, hubVars, aux
<1>11. CASE UNCHANGED vars
  BY <1>2, <1>11 DEF vars, SameFor, Served, hubVars, connVars, aux
\* A client joins: nothing was ever meant for it.
<1>12. ASSUME NEW c \in Clients, Register(c) PROVE Counted'
  <2>1. hubPc = "select" /\ hubPc' = "select" /\ target' = target /\ clients' = clients \cup {c}
    BY <1>12 DEF Register
  <2>2. ASSUME NEW d \in Clients, d # c, Served(d)' PROVE Kept(d)'
    <3>1. SameFor(d) /\ Served(d)
      BY <1>12, <2>1, <2>2 DEF Register, SameFor, Served, aux, Pumps
    <3> QED
      BY <1>1, <3>1, SameForStep
  <2>3. Kept(c)'
    <3>1. Untouched(c) /\ UNCHANGED <<offered, owed, send, inHand, wire, dropped>>
      BY <1>12 DEF Register, Pumps, aux
    <3>2. Len(send[c]) = 0
      BY <3>1 DEF Untouched
    <3> QED
      BY <1>0, <3>1, <3>2 DEF Untouched, Newest, Missed, Kept
  <2> QED
    BY <2>1, <2>2, <2>3 DEF Counted, MakingRoom
<1>13. ASSUME NEW c \in Clients, Offer(c) PROVE Counted'
  <2>1. /\ hubPc = "next" /\ c \in clients /\ msg \in Frames /\ target = NoClient /\ NoClient # c
        /\ offered'[c] = msg /\ owed'[c] = owed[c] + 1
        /\ UNCHANGED <<inHand, wire, writer, dropped, clients>>
    BY <1>13, HubAssumption DEF Offer, Offering, connVars, Buffers, Pumps, ControlInv, Ownership
  <2>2. ASSUME NEW d \in Clients, d # c, Served(d)' PROVE Kept(d)'
    <3>1. SameFor(d)
      BY <1>13, <2>1, <2>2 DEF Offer, Offering, Enqueue, SameFor, Buffers
    <3>2. target' \in {NoClient, c} /\ Served(d)
      BY <1>13, <2>1, <2>2, HubAssumption DEF Offer, Served
    <3> QED
      BY <1>1, <3>1, <3>2, SameForStep
  <2>3. Served(c) /\ Kept(c)
    BY <1>1, <2>1 DEF Served
  <2>4. CASE Room(c)
    <3>1. send'[c] = Append(send[c], msg) /\ hubPc' = "next"
      BY <1>13, <2>1, <2>4 DEF Offer, Offering, Enqueue, Buffers
    <3>2. /\ send'[c] # <<>> /\ send'[c][Len(send'[c])] = msg
          /\ Len(send'[c]) = Len(send[c]) + 1
      BY <1>0, <2>1, <3>1, NewestAppended
    <3>3. Newest(c)' = offered'[c]
      BY <2>1, <3>2 DEF Newest
    <3>4. Missed(c)' = Missed(c)
      <4>1. owed'[c] = owed[c] + 1 /\ Len(send'[c]) = Len(send[c]) + 1
        BY <2>1, <3>2
      <4> QED
        BY <1>0, <4>1 DEF Missed
    <3> QED
      BY <2>1, <2>2, <2>3, <3>1, <3>3, <3>4 DEF Counted, MakingRoom, Kept
  <2>5. CASE ~Room(c)
    <3>1. hubPc' = "drop" /\ target' = c /\ send' = send
      BY <1>13, <2>5 DEF Offer
    <3>2. Missed(c)' <= dropped'[c] + 1
      BY <1>0, <2>1, <2>3, <3>1 DEF Missed, Kept
    <3> QED
      BY <2>2, <3>1, <3>2 DEF Counted, MakingRoom, Served
  <2> QED
    BY <2>4, <2>5
\* The oldest frame is thrown away, unless the pump has just emptied the buffer.
<1>14. CASE DropOldest
  <2>1. /\ hubPc = "drop" /\ hubPc' = "enqueue" /\ target' = target /\ target \in Clients
        /\ UNCHANGED <<inHand, wire, writer, dropped, clients, offered, owed>>
    BY <1>0, <1>14 DEF DropOldest, connVars, aux
  <2>2. ASSUME NEW d \in Clients, Served(d)' PROVE Kept(d)'
    <3>1. d # target /\ Served(d)
      BY <2>1, <2>2 DEF Served
    <3>2. SameFor(d)
      BY <1>14, <2>1, <3>1 DEF DropOldest, SameFor, Buffers
    <3> QED
      BY <1>1, <3>1, <3>2, SameForStep
  <2>3. Missed(target) <= dropped[target] + 1
    BY <1>1, <2>1 DEF MakingRoom
  <2>4. CASE send[target] = <<>>
    <3>1. send'[target] = <<>> /\ Len(send'[target]) = 0 /\ Len(send[target]) = 0
      BY <1>14, <2>1, <2>4 DEF DropOldest, Buffers
    <3> QED
      BY <1>0, <2>1, <2>2, <2>3, <3>1 DEF Counted, MakingRoom, Missed, Room
  <2>5. CASE send[target] # <<>>
    <3>1. send'[target] = Tail(send[target])
      BY <1>14, <2>1, <2>5 DEF DropOldest, Buffers
    <3>2. Len(send'[target]) = Len(send[target]) - 1
      BY <1>0, <2>1, <2>5, <3>1, NewestLeft
    <3>3. Missed(target)' <= dropped'[target] + 2 /\ Room(target)'
      BY SMTT(60), <1>0, <2>1, <2>3, <3>2 DEF Missed, Room
    <3> QED
      BY <2>1, <2>2, <3>3 DEF Counted, MakingRoom
  <2> QED
    BY <2>4, <2>5
\* The newest goes in, and the drop is counted.
<1>15. CASE EnqueueNewest
  <2>0. PICK c \in Clients : c = target
    BY <1>0, <1>15 DEF EnqueueNewest
  <2>1. /\ hubPc = "enqueue" /\ hubPc' = "next"
        /\ UNCHANGED <<inHand, wire, writer, offered, owed>>
        /\ dropped'[c] = dropped[c] + 1 /\ clients' \subseteq clients
    BY <2>0, <1>15 DEF EnqueueNewest, connVars, aux, Pumps
  <2>2. ASSUME NEW d \in Clients, d # c, Served(d)' PROVE Kept(d)'
    <3>1. SameFor(d) /\ Served(d)
      BY <1>15, <2>0, <2>1, <2>2 DEF EnqueueNewest, Enqueue, SameFor, Buffers, Pumps, Served
    <3> QED
      BY <1>1, <3>1, SameForStep
  <2>3. Missed(c) <= dropped[c] + 2 /\ Room(c)
    BY <1>1, <2>0, <2>1 DEF MakingRoom
  <2>4. msg \in Frames /\ offered[c] = msg
    BY <2>0, <2>1 DEF Buffers, Order, Backlog
  <2>5. send'[c] = Append(send[c], msg)
    BY <1>15, <2>0, <2>3 DEF EnqueueNewest, Enqueue, Buffers
  <2>6. /\ send'[c] # <<>> /\ send'[c][Len(send'[c])] = msg
        /\ Len(send'[c]) = Len(send[c]) + 1
    BY <1>0, <2>4, <2>5, NewestAppended
  <2>7. Newest(c)' = offered'[c]
    BY <2>1, <2>4, <2>6 DEF Newest
  <2>8. Missed(c)' <= dropped'[c]
    BY <1>0, <2>1, <2>3, <2>6 DEF Missed
  <2> QED
    BY <2>1, <2>2, <2>7, <2>8 DEF Counted, MakingRoom, Kept
\* The pump takes the oldest frame, writes it, or gives up.
<1>16. ASSUME NEW c \in Clients, TakeNext(c) PROVE Counted'
  <2>1. /\ UNCHANGED <<hubPc, target, clients, dropped, wire, offered>>
        /\ writer[c] = "idle" /\ send[c] # <<>>
        /\ inHand'[c] = Head(send[c]) /\ send'[c] = Tail(send[c]) /\ owed'[c] = owed[c] - 1
    BY <1>16 DEF TakeNext, hubAndHandler, hubVars, Buffers
  <2>2. ASSUME NEW d \in Clients, d # c PROVE SameFor(d)
    BY <1>16, <2>1, <2>2 DEF TakeNext, SameFor
  <2>3. Len(send'[c]) = Len(send[c]) - 1
    BY <1>0, <2>1, NewestLeft
  <2>4. Missed(c)' = Missed(c) /\ (Room(c) => Room(c)')
    BY SMTT(60), <1>0, <2>1, <2>3 DEF Missed, Room
  <2>5. Newest(c)' = Newest(c)
    <3>1. send[c][Len(send[c])] = Newest(c)
      BY <2>1 DEF Newest
    <3>2. Head(send[c]) # 0
      BY <1>0, <2>1, FramesOfSeq, EmptySeq
    <3> QED
      BY <1>0, <2>1, <3>1, <3>2, NewestLeft DEF Newest
  <2>6. \A d \in Clients : Missed(d)' = Missed(d) /\ (Room(d) => Room(d)')
    BY <2>2, <2>4, SameForStep DEF SameFor, Room
  <2>7. \A d \in Clients : Kept(d) => Kept(d)'
    BY <2>1, <2>2, <2>4, <2>5, SameForStep DEF Kept
  <2>8. MakingRoom'
    BY <1>0, <1>1, <2>1, <2>6 DEF MakingRoom
  <2> QED
    BY <1>1, <2>1, <2>7, <2>8 DEF Counted, Served
<1>17. ASSUME NEW c \in Clients, WriteSucceeds(c) PROVE Counted'
  <2>1. /\ UNCHANGED <<hubPc, target, clients, dropped, send, offered, owed>>
        /\ writer[c] = "writing" /\ inHand'[c] = 0 /\ wire'[c] = inHand[c]
    BY <1>17 DEF WriteSucceeds, hubAndHandler, hubVars, aux, Buffers
  <2>2. ASSUME NEW d \in Clients, d # c PROVE SameFor(d)
    BY <1>17, <2>1, <2>2 DEF WriteSucceeds, SameFor
  <2>3. Newest(c)' = Newest(c) /\ Missed(c)' = Missed(c)
    BY <2>1 DEF Newest, Missed, Pumps
  <2>4. \A d \in Clients : Kept(d) => Kept(d)'
    BY <2>1, <2>2, <2>3, SameForStep DEF Kept
  <2>5. MakingRoom'
    BY <1>1, <2>1 DEF MakingRoom, Missed, Room
  <2> QED
    BY <1>1, <2>1, <2>4, <2>5 DEF Counted, Served
<1>18. ASSUME NEW c \in Clients, PumpEnds(c) PROVE Counted'
  <2>1. /\ UNCHANGED <<hubPc, target, clients, dropped, send, offered, owed, wire>>
        /\ writer'[c] = "gone"
    BY <1>18 DEF PumpEnds, hubAndHandler, hubVars, aux, Pumps
  <2>2. ASSUME NEW d \in Clients, d # c PROVE SameFor(d)
    BY <1>18, <2>1, <2>2 DEF PumpEnds, SameFor
  <2>3. \A d \in Clients : Kept(d) => Kept(d)'
    BY <2>1, <2>2, SameForStep DEF Kept, Missed
  <2>4. MakingRoom'
    BY <1>1, <2>1 DEF MakingRoom, Missed, Room
  <2> QED
    BY <1>1, <2>1, <2>3, <2>4 DEF Counted, Served
<1> QED
  BY <1>4, <1>5, <1>6, <1>7, <1>8, <1>9, <1>10, <1>11, <1>12, <1>13, <1>14, <1>15, <1>16, <1>17,
     <1>18
  DEF Next, HubStep, PumpStep, Terminated

(***************************************************************************)
(* However the pump races the hub, the newest frame meant for a client is  *)
(* the last it will get and what it misses is counted against it (hub.go:  *)
(* sendToClient).                                                          *)
(***************************************************************************)
THEOREM OldestAlwaysLostAndCounted == Spec => []OldestLostAndCounted
<1> DEFINE Inv == ControlInv /\ Buffers /\ Order /\ Pumps /\ Counted
<1>1. Inv => OldestLostAndCounted
  BY DEF Counted, Kept, Served, OldestLostAndCounted, Settled
<1>2. Init => Inv
  BY ControlInit, BuffersInit, OrderInit, DroppingInit
<1>3. Inv /\ [Next]_vars => Inv'
  BY ControlStep, BuffersStep, BacklogStep, LinesStep, PumpsStep, CountedStep DEF Order
<1> QED
  BY <1>1, <1>2, <1>3, PTL DEF Spec

=============================================================================
