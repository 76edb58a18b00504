-------------------------------- MODULE Hub --------------------------------
(***************************************************************************)
(* The WebSocket hub (wshub/hub.go, client.go): one goroutine owns the set *)
(* of clients and feeds each one's bounded buffer; every connection has a  *)
(* handler (snapshot, registration, then the read pump) and a write pump   *)
(* that empties the buffer onto the wire.                                  *)
(*                                                                         *)
(* sendToClient's three selects are three steps, because the write pump    *)
(* receives from the same channel between them.  Frames are numbered in    *)
(* the order they are broadcast.                                           *)
(***************************************************************************)
EXTENDS Integers, Sequences, FiniteSets

CONSTANTS
  Clients,       (* connections, each made once                       *)
  NoClient,
  SendBuf,       (* clientSendBuf                                     *)
  BroadcastBuf,  (* hubBroadcastBuf                                   *)
  DropThreshold, (* clientDropThreshold                               *)
  MaxFrames      (* bound on the frames broadcast                     *)

ASSUME HubAssumption ==
  /\ SendBuf \in Nat \ {0} /\ BroadcastBuf \in Nat \ {0}
  /\ DropThreshold \in Nat /\ MaxFrames \in Nat
  /\ NoClient \notin Clients /\ IsFiniteSet(Clients)

VARIABLES
  cancelled,
  produced, broadcast, (* frames made so far; the hub's backlog              *)
  hubPc,     (* "select", "next", "drop", "enqueue", "done"                  *)
  target, msg, todo,   (* sendToClient's arguments; clients still to be fed  *)
  clients, count,      (* the registered clients and the published count     *)
  handler,   (* client -> "none", "snapshot", "register", "read", "unregister", "gone" *)
  open,      (* the clients whose connection is open                         *)
  send, closed, dropped,
  writer, inHand, wire,(* write pump, the frame it is writing, the last it wrote *)
  panicked,            (* a send on, or a close of, a closed channel         *)
  offered, owed        (* auxiliary: the last frame meant for a client; how  *)
                       (* many its pump has not taken                        *)

hubVars == <<hubPc, target, msg, todo, clients, count>>
connVars == <<handler, open, writer, inHand, wire>>
aux == <<offered, owed>>
vars == <<cancelled, produced, broadcast, hubVars, connVars, send, closed, dropped,
          panicked, aux>>

Init ==
  /\ cancelled = FALSE
  /\ produced = 0 /\ broadcast = <<>>
  /\ hubPc = "select" /\ target = NoClient /\ msg = 0 /\ todo = {}
  /\ clients = {} /\ count = 0
  /\ handler = [c \in Clients |-> "none"]
  /\ open = {}
  /\ send = [c \in Clients |-> <<>>]
  /\ closed = {}
  /\ dropped = [c \in Clients |-> 0]
  /\ writer = [c \in Clients |-> "off"]
  /\ inHand = [c \in Clients |-> 0]
  /\ wire = [c \in Clients |-> 0]
  /\ panicked = FALSE
  /\ offered = [c \in Clients |-> 0] /\ owed = [c \in Clients |-> 0]

Cancel ==
  /\ ~cancelled /\ cancelled' = TRUE
  /\ UNCHANGED <<produced, broadcast, hubVars, connVars, send, closed, dropped, panicked, aux>>

\* Broadcast, called by the forwarder: a full backlog drops the frame.
Broadcast ==
  /\ produced < MaxFrames
  /\ produced' = produced + 1
  /\ broadcast' = IF Len(broadcast) < BroadcastBuf
                  THEN Append(broadcast, produced') ELSE broadcast
  /\ UNCHANGED <<cancelled, hubVars, connVars, send, closed, dropped, panicked, aux>>

-----------------------------------------------------------------------------
(* The hub's goroutine                                                     *)

\* close(c.send) for every client of S; closing twice panics.
CloseAll(S) ==
  /\ closed' = closed \cup S
  /\ panicked' = (panicked \/ S \cap closed # {})

\* A client joins.
Register(c) ==
  /\ hubPc = "select" /\ handler[c] = "register"
  /\ clients' = clients \cup {c}
  /\ count' = count + 1
  /\ handler' = [handler EXCEPT ![c] = "read"]
  /\ writer' = [writer EXCEPT ![c] = "idle"]
  /\ UNCHANGED <<cancelled, produced, broadcast, hubPc, target, msg, todo, open, send, closed,
                 dropped, inHand, wire, panicked, aux>>

\* Mutated Unregister: the client is not looked up first.
UnregisterBlindly(c) ==
  /\ hubPc = "select" /\ handler[c] = "unregister"
  /\ clients' = clients \ {c} /\ count' = count - 1 /\ CloseAll({c})
  /\ handler' = [handler EXCEPT ![c] = "gone"]
  /\ UNCHANGED <<cancelled, produced, broadcast, hubPc, target, msg, todo, open, send,
                 dropped, writer, inHand, wire, aux>>

\* A client leaves, unless it was already thrown out.
Unregister(c) ==
  /\ hubPc = "select" /\ handler[c] = "unregister"
  /\ IF c \in clients
     THEN clients' = clients \ {c} /\ count' = count - 1 /\ CloseAll({c})
     ELSE UNCHANGED <<clients, count, closed, panicked>>
  /\ handler' = [handler EXCEPT ![c] = "gone"]
  /\ UNCHANGED <<cancelled, produced, broadcast, hubPc, target, msg, todo, open, send,
                 dropped, writer, inHand, wire, aux>>

\* The next frame of the backlog goes to every client, in some order.
TakeFrame ==
  /\ hubPc = "select" /\ broadcast # <<>>
  /\ msg' = Head(broadcast) /\ broadcast' = Tail(broadcast)
  /\ todo' = clients
  /\ hubPc' = "next"
  /\ UNCHANGED <<cancelled, produced, target, clients, count, connVars, send, closed,
                 dropped, panicked, aux>>

\* Every client has been served.
FrameDone ==
  /\ hubPc = "next" /\ todo = {}
  /\ hubPc' = "select" /\ msg' = 0
  /\ UNCHANGED <<cancelled, produced, broadcast, target, todo, clients, count, connVars,
                 send, closed, dropped, panicked, aux>>

Room(c) == Len(send[c]) < SendBuf

Enqueue(c) == send' = [send EXCEPT ![c] = Append(@, msg)]

\* A send on a closed channel panics, whether there is room or not.
SendsTo(c) == panicked' = (panicked \/ c \in closed)

Offering(c) ==
  /\ hubPc = "next" /\ c \in todo
  /\ todo' = todo \ {c}
  /\ offered' = [offered EXCEPT ![c] = msg]
  /\ owed' = [owed EXCEPT ![c] = @ + 1]
  /\ UNCHANGED <<cancelled, produced, broadcast, msg, clients, count, connVars, closed,
                 dropped>>

\* Mutated Offer: a full buffer is waited for.
OfferBlocking(c) ==
  /\ Offering(c) /\ SendsTo(c)
  /\ Room(c) /\ Enqueue(c) /\ UNCHANGED <<hubPc, target>>

\* Mutated Offer: no return after the frame went in.
OfferFallingThrough(c) ==
  /\ Offering(c) /\ SendsTo(c)
  /\ IF Room(c) THEN Enqueue(c) ELSE UNCHANGED send
  /\ hubPc' = "drop" /\ target' = c

\* sendToClient's first select: the frame goes in if there is room.
Offer(c) ==
  /\ Offering(c) /\ SendsTo(c)
  /\ IF Room(c)
     THEN Enqueue(c) /\ UNCHANGED <<hubPc, target>>
     ELSE hubPc' = "drop" /\ target' = c /\ UNCHANGED send

\* Mutated DropOldest: nothing is taken out, so the newest frame finds no room.
DropNothing ==
  /\ hubPc = "drop" /\ hubPc' = "enqueue"
  /\ UNCHANGED <<cancelled, produced, broadcast, target, msg, todo, clients, count, connVars,
                 send, closed, dropped, panicked, aux>>

\* The second: the oldest queued frame goes, if the pump has not just taken it.
DropOldest ==
  /\ hubPc = "drop" /\ hubPc' = "enqueue"
  /\ send' = [send EXCEPT ![target] = IF @ = <<>> THEN @ ELSE Tail(@)]
  /\ UNCHANGED <<cancelled, produced, broadcast, target, msg, todo, clients, count, connVars,
                 closed, dropped, panicked, aux>>

\* The third: the newest frame goes in, one more drop is counted, and a client
\* over the threshold is thrown out.
EnqueueNewest ==
  /\ hubPc = "enqueue" /\ hubPc' = "next"
  /\ target' = NoClient
  /\ IF Room(target) THEN Enqueue(target) ELSE UNCHANGED send
  /\ SendsTo(target)
  /\ dropped' = [dropped EXCEPT ![target] = @ + 1]
  /\ IF dropped[target] + 1 > DropThreshold
     THEN /\ clients' = clients \ {target} /\ count' = count - 1
          /\ closed' = closed \cup {target}
     ELSE UNCHANGED <<clients, count, closed>>
  /\ UNCHANGED <<cancelled, produced, broadcast, msg, todo, connVars, aux>>

\* Mutated HubStops: the clients' channels stay open.
HubStopsLeavingClients ==
  /\ hubPc = "select" /\ cancelled
  /\ hubPc' = "done"
  /\ UNCHANGED <<cancelled, produced, broadcast, target, msg, todo, clients, count, connVars,
                 send, closed, dropped, panicked, aux>>

\* The context is cancelled; the published count keeps its last value.
HubStops ==
  /\ hubPc = "select" /\ cancelled
  /\ CloseAll(clients)
  /\ clients' = {}
  /\ hubPc' = "done"
  /\ UNCHANGED <<cancelled, produced, broadcast, target, msg, todo, count, connVars,
                 send, dropped, aux>>

-----------------------------------------------------------------------------
(* A connection's handler, and its peer                                    *)

hubAndPump == <<cancelled, produced, broadcast, hubVars, send, closed, dropped,
                writer, inHand, wire, panicked, aux>>

\* The upgrade succeeds; the snapshot is written before anything else.
Accept(c) ==
  /\ handler[c] = "none"
  /\ handler' = [handler EXCEPT ![c] = "snapshot"]
  /\ open' = open \cup {c}
  /\ UNCHANGED hubAndPump

\* The snapshot is on the wire, and the handler asks to be registered ...
SnapshotWritten(c) ==
  /\ handler[c] = "snapshot" /\ c \in open
  /\ handler' = [handler EXCEPT ![c] = "register"]
  /\ UNCHANGED <<open, hubAndPump>>

\* ... or it failed or timed out, or the hub is gone: CloseNow.
HandlerGivesUp(c) ==
  /\ \/ handler[c] = "snapshot"
     \/ handler[c] = "register" /\ hubPc = "done"
  /\ handler' = [handler EXCEPT ![c] = "gone"]
  /\ open' = open \ {c}
  /\ UNCHANGED hubAndPump

\* The read pump sees the connection closed, by the peer or by the write pump.
ReadFails(c) ==
  /\ handler[c] = "read" /\ c \notin open
  /\ handler' = [handler EXCEPT ![c] = "unregister"]
  /\ UNCHANGED <<open, hubAndPump>>

\* Nobody is left to unregister with.
LeaveDeadHub(c) ==
  /\ handler[c] = "unregister" /\ hubPc = "done"
  /\ handler' = [handler EXCEPT ![c] = "gone"]
  /\ UNCHANGED <<open, hubAndPump>>

\* The browser goes away.
PeerLeaves(c) ==
  /\ c \in open
  /\ open' = open \ {c}
  /\ UNCHANGED <<handler, hubAndPump>>

-----------------------------------------------------------------------------
(* A connection's write pump                                               *)

hubAndHandler == <<cancelled, produced, broadcast, hubVars, handler, closed, dropped,
                   panicked>>

\* The pump takes the next frame, also from a channel that has been closed.
TakeNext(c) ==
  /\ writer[c] = "idle" /\ send[c] # <<>>
  /\ inHand' = [inHand EXCEPT ![c] = Head(send[c])]
  /\ send' = [send EXCEPT ![c] = Tail(@)]
  /\ writer' = [writer EXCEPT ![c] = "writing"]
  /\ owed' = [owed EXCEPT ![c] = @ - 1]
  /\ UNCHANGED <<hubAndHandler, open, wire, offered>>

WriteSucceeds(c) ==
  /\ writer[c] = "writing" /\ c \in open
  /\ wire' = [wire EXCEPT ![c] = inHand[c]]
  /\ inHand' = [inHand EXCEPT ![c] = 0]
  /\ writer' = [writer EXCEPT ![c] = "idle"]
  /\ UNCHANGED <<hubAndHandler, open, send, aux>>

\* A write fails or times out, or the channel is closed and empty: CloseNow.
PumpEnds(c) ==
  /\ \/ writer[c] = "writing"
     \/ writer[c] = "idle" /\ send[c] = <<>> /\ c \in closed
  /\ writer' = [writer EXCEPT ![c] = "gone"]
  /\ inHand' = [inHand EXCEPT ![c] = 0]
  /\ open' = open \ {c}
  /\ UNCHANGED <<hubAndHandler, send, wire, aux>>

-----------------------------------------------------------------------------

HubStep ==
  \/ TakeFrame \/ \E c \in Clients : Offer(c)
  \/ DropOldest \/ EnqueueNewest \/ FrameDone \/ HubStops

HandlerStep(c) ==
  \/ SnapshotWritten(c) \/ HandlerGivesUp(c) \/ ReadFails(c) \/ LeaveDeadHub(c)

PumpStep(c) == TakeNext(c) \/ WriteSucceeds(c) \/ PumpEnds(c)

Terminated ==
  /\ hubPc = "done" /\ produced = MaxFrames
  /\ \A c \in Clients : handler[c] = "gone" /\ writer[c] \in {"off", "gone"}
  /\ UNCHANGED vars

Next ==
  \/ Cancel \/ Broadcast \/ HubStep
  \/ \E c \in Clients : \/ Register(c) \/ Unregister(c)
                       \/ Accept(c) \/ PeerLeaves(c)
                       \/ HandlerStep(c) \/ PumpStep(c)
  \/ Terminated

\* The hub's goroutine runs, and takes a case of its select that stays ready.
HubFairness ==
  /\ WF_vars(HubStep)
  /\ WF_vars(HubStops)
  /\ \A c \in Clients : WF_vars(Register(c)) /\ WF_vars(Unregister(c))

\* Handlers and pumps run, and every write ends by its deadline.
ConnFairness == \A c \in Clients : WF_vars(HandlerStep(c)) /\ WF_vars(PumpStep(c))

\* Only the hub's own fairness: a peer may stall for ever.
Spec == Init /\ [][Next]_vars /\ HubFairness

-----------------------------------------------------------------------------

Frames == 1 .. MaxFrames

\* Type invariant: buffers within their capacities; the published count is the number
\* of registered clients until the hub has stopped, whoever removes a client first.
TypeOK ==
  /\ {cancelled, panicked} \subseteq BOOLEAN /\ produced \in 0 .. MaxFrames
  /\ broadcast \in Seq(Frames) /\ Len(broadcast) <= BroadcastBuf
  /\ hubPc \in {"select", "next", "drop", "enqueue", "done"}
  /\ target \in Clients \cup {NoClient} /\ msg \in 0 .. MaxFrames
  /\ todo \subseteq Clients /\ clients \subseteq Clients
  /\ count \in 0 .. Cardinality(Clients)
  /\ hubPc # "done" => count = Cardinality(clients)
  /\ handler \in [Clients -> {"none", "snapshot", "register", "read", "unregister", "gone"}]
  /\ writer \in [Clients -> {"off", "idle", "writing", "gone"}]
  /\ open \subseteq Clients /\ closed \subseteq Clients
  /\ dropped \in [Clients -> Nat] /\ inHand \in [Clients -> 0 .. MaxFrames]
  /\ wire \in [Clients -> 0 .. MaxFrames] /\ offered \in [Clients -> 0 .. MaxFrames]
  /\ owed \in [Clients -> Nat]
  /\ send \in [Clients -> Seq(Frames)] /\ \A c \in Clients : Len(send[c]) <= SendBuf

\* The last frame that has reached client c, and what is on its way to it; 0 is none.
Line(c) == <<wire[c], inHand[c]>> \o send[c]

\* The last frame client c gets if nothing more is sent to it.
Newest(c) == IF send[c] # <<>> THEN send[c][Len(send[c])]
             ELSE IF inHand[c] # 0 THEN inHand[c] ELSE wire[c]

\* How many of the frames meant for it are gone.
Missed(c) == owed[c] - Len(send[c])

\* The hub is not in the middle of serving c, and c's pump is alive.
Settled(c) == target # c /\ c \in clients /\ writer[c] # "gone"

(***************************************************************************)
(* No channel is closed twice or sent on after it was closed, in whatever  *)
(* order a slow client is thrown out, its peer leaves, its handler         *)
(* unregisters and the hub shuts down (hub.go: Run, sendToClient).         *)
(***************************************************************************)
NoPanic == ~panicked

(***************************************************************************)
(* A client sees frames at most once and in the order they were broadcast, *)
(* although the oldest are dropped while the pump takes them out           *)
(* (hub.go: sendToClient; client.go: writePump).                           *)
(***************************************************************************)
FramesIncrease ==
  \A c \in Clients : LET d == Line(c)
                     IN  \A j, k \in DOMAIN d : j < k /\ d[k] # 0 => d[j] < d[k]

(***************************************************************************)
(* Drop-oldest: however the pump races the hub, the newest frame meant for *)
(* a client is among those it gets, and what it misses has been counted    *)
(* against it, so that no client can miss frames for ever (hub.go:         *)
(* sendToClient "enqueue the newest").                                     *)
(***************************************************************************)
OldestLostAndCounted ==
  \A c \in Clients : Settled(c) => Newest(c) = offered[c] /\ Missed(c) <= dropped[c]

(***************************************************************************)
(* One slow browser can never stall the pipeline: the hub gets through     *)
(* every frame even if no peer ever reads again (hub.go: package comment). *)
(***************************************************************************)
HubKeepsUp == hubPc # "select" ~> hubPc \in {"select", "done"}

(***************************************************************************)
(* A client that is thrown out, or whose hub shuts down, is disconnected   *)
(* and its handler ends, provided that handlers and pumps run and every    *)
(* write ends by its deadline (hub.go: Run, Handler; client.go).           *)
(***************************************************************************)
ClosedClientsLeave ==
  ConnFairness => \A c \in Clients :
    c \in closed \/ (cancelled /\ handler[c] # "none") ~> handler[c] = "gone"

===============================================================================
