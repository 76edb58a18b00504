------------------------------ MODULE Browser ------------------------------
(***************************************************************************)
(* From the actor to the screen: one browser (frontend/src: useWebSocket,  *)
(* useTopologyStore, graphStore, useStreamStore) that is given a snapshot  *)
(* when it connects and frames from its registration on.  The snapshot is  *)
(* taken from the actor while older events are still queued on their way   *)
(* to the hub, and registration comes later still; full queues drop.       *)
(*                                                                         *)
(* The queues are those of Pipeline and Hub, without the goroutines that   *)
(* move them.  Colours, positions and animation clocks are left out.       *)
(***************************************************************************)
EXTENDS TopologyViews, TopologyHistory

CONSTANTS
  BroadcastBuf, (* capacity of the actor's broadcast channel       *)
  BacklogBuf,   (* capacity of the hub's broadcast channel         *)
  SendBuf,      (* capacity of the client's buffer                 *)
  SnapshotEvents, RailSize, (* snapshotEventsLimit, MAX_EVENTS     *)
  MaxConnects   (* bound on the connections of a run               *)

ASSUME BrowserAssumption ==
  /\ BroadcastBuf \in Nat \ {0} /\ BacklogBuf \in Nat \ {0} /\ SendBuf \in Nat \ {0}
  /\ SnapshotEvents \in Nat /\ RailSize \in Nat /\ MaxConnects \in Nat

VARIABLES
  bcast, backlog, send, (* events; frames for all clients; frames for this one  *)
  conn,          (* "closed", "snapshot", "registered"                          *)
  snap,          (* the snapshot on its way, as a set of at most one            *)
  vNodes, vLinks,(* the drawn graph: AS -> node, <<from, to>> -> link           *)
  rail,          (* the ids of the listed events                                *)
  connects,
  base, got      (* auxiliary: events in the snapshot shown; frames shown since *)

server == <<nodes, edges, rib, buf, head, size, stats, log>>
view == <<vNodes, vLinks, rail, base, got>>
allVars == <<server, bcast, backlog, send, conn, snap, view, connects>>

BrowserInit ==
  /\ Init
  /\ bcast = <<>> /\ backlog = <<>> /\ send = <<>>
  /\ conn = "closed" /\ snap = {} /\ connects = 0
  /\ vNodes = [a \in {} |-> 0] /\ vLinks = [e \in {} |-> 0] /\ rail = <<>>
  /\ base = 0 /\ got = <<>>

-----------------------------------------------------------------------------
(* The server                                                              *)

\* apply and broadcast; a full channel drops the broadcast.
ServerApplies(u) ==
  /\ Len(log) < MaxEvents
  /\ Apply(Numbered(u))
  /\ bcast' = IF Len(bcast) < BroadcastBuf THEN Append(bcast, Numbered(u)) ELSE bcast
  /\ UNCHANGED <<backlog, send, conn, snap, view, connects>>

\* The sidebar cards of the stats frame.
Cards ==
  [a \in {TopOrigins[k] : k \in DOMAIN TopOrigins} |->
     [prefixes |-> Cardinality(nodes[a].prefixes), rpki |-> nodes[a].worst]]

Queued(frame) ==
  backlog' = IF Len(backlog) < BacklogBuf THEN Append(backlog, frame) ELSE backlog

ForwardEvent ==
  /\ bcast # <<>>
  /\ Queued([type |-> "event", ev |-> Head(bcast)])
  /\ bcast' = Tail(bcast)
  /\ UNCHANGED <<server, send, conn, snap, view, connects>>

\* The ticker: the counters overtake the events still in the broadcast channel.
ForwardStats ==
  /\ Queued([type |-> "stats", cards |-> Cards])
  /\ UNCHANGED <<server, bcast, send, conn, snap, view, connects>>

\* The hub serves the registered clients; the oldest frame of a full buffer goes.
FanOut ==
  /\ backlog # <<>> /\ backlog' = Tail(backlog)
  /\ send' = IF conn # "registered" THEN send
             ELSE IF Len(send) < SendBuf THEN Append(send, Head(backlog))
             ELSE Append(Tail(send), Head(backlog))
  /\ UNCHANGED <<server, bcast, conn, snap, view, connects>>

-----------------------------------------------------------------------------
(* The connection                                                          *)

\* rpkiFromCounts.
FromCounts(c) ==
  IF c["invalid"] > 0 THEN "invalid" ELSE IF c["valid"] > 0 THEN "valid" ELSE "notfound"

\* buildTopology, the newest events and the cards, as the browser reads them.
Snapshot ==
  [nodes |-> [a \in DOMAIN nodes |-> [prefixes |-> Cardinality(nodes[a].prefixes),
                                      rpki |-> FromCounts(nodes[a].rpki)]],
   edges |-> [e \in DOMAIN edges |->
                [rel |-> edges[e].rel, status |-> edges[e].status, count |-> edges[e].count,
                 leaks |-> edges[e].leaks, hijacks |-> edges[e].hijacks]],
   events |-> [k \in DOMAIN Ring!Recent(SnapshotEvents) |-> Ring!Recent(SnapshotEvents)[k].id],
   cards |-> Cards, at |-> Len(log)]

\* The upgrade: the snapshot is taken and written at once, before registration.
Connect ==
  /\ conn = "closed" /\ connects < MaxConnects
  /\ conn' = "snapshot" /\ snap' = {Snapshot} /\ connects' = connects + 1
  /\ UNCHANGED <<server, bcast, backlog, send, view>>

Register ==
  /\ conn = "snapshot" /\ conn' = "registered"
  /\ UNCHANGED <<server, bcast, backlog, send, snap, view, connects>>

\* What is on the wire is lost; the page keeps what it draws and tries again.
ConnectionLost ==
  /\ conn # "closed" /\ conn' = "closed"
  /\ snap' = {} /\ send' = <<>>
  /\ UNCHANGED <<server, bcast, backlog, view, connects>>

-----------------------------------------------------------------------------
(* The page                                                                *)

\* applyStats: a card's AS is drawn if need be, and takes the card's values.
WithCards(g, cards) ==
  [a \in DOMAIN g \cup DOMAIN cards |-> IF a \in DOMAIN cards THEN cards[a] ELSE g[a]]

Listed(ids) == SubSeq(ids, 1, IF Len(ids) > RailSize THEN RailSize ELSE Len(ids))

\* The snapshot replaces what was drawn: reset, applyTopology, applyStats, setEvents.
ShowSnapshot ==
  \E s \in snap :
    /\ vNodes' = WithCards(s.nodes, s.cards)
    /\ vLinks' = s.edges
    /\ rail' = Listed(s.events)
    /\ base' = s.at /\ got' = <<>>
    /\ snap' = {}
    /\ UNCHANGED <<server, bcast, backlog, send, conn, connects>>

OnPath(ev) == {ev.path[k] : k \in DOMAIN ev.path}

\* A known origin is the last AS of the path (mrt/parser.go, synth/generator.go).
ASSUME OriginAssumption == \A u \in Update : u.origin \in OnPath(u) \cup {NoAS}

\* applyEvent, on the nodes: every AS of the path, the origin with its latest verdict.
DrawNodes(ev) ==
  vNodes' = [a \in DOMAIN vNodes \cup OnPath(ev) |->
               LET n == IF a \in DOMAIN vNodes THEN vNodes[a]
                        ELSE [prefixes |-> 1, rpki |-> "notfound"]
               IN  IF a = ev.origin THEN [n EXCEPT !.rpki = ev.rpki] ELSE n]

\* Mutated DrawnAgain: the worst status stays.
DrawnWorst(l, n, e, ev) ==
  [l EXCEPT !.count = @ + n,
            !.leaks = IF ev.vf = "leak" THEN @ + n ELSE @,
            !.hijacks = IF ev.vf = "hijack" THEN @ + n ELSE @,
            !.status = IF Severity(ev.vf) > Severity(@) THEN ev.vf ELSE @,
            !.rel = IF @ = "unknown" THEN RelForHop(ev.hops, e) ELSE @]

\* A link the path crosses n times; a relationship not known so far may be learnt.
DrawnAgain(l, n, e, ev) ==
  [l EXCEPT !.count = @ + n,
            !.leaks = IF ev.vf = "leak" THEN @ + n ELSE @,
            !.hijacks = IF ev.vf = "hijack" THEN @ + n ELSE @,
            !.status = ev.vf,
            !.rel = IF @ = "unknown" THEN RelForHop(ev.hops, e) ELSE @]

NewLink(e, ev) ==
  [rel |-> RelForHop(ev.hops, e), status |-> ev.vf, count |-> 0, leaks |-> 0, hijacks |-> 0]

\* Mutated DrawLinks: a link is counted once per event.
DrawLinksOnce(ev) ==
  vLinks' = [e \in DOMAIN vLinks \cup EdgesOf(ev.path) |->
               LET l == IF e \in DOMAIN vLinks THEN vLinks[e] ELSE NewLink(e, ev)
               IN  IF e \in EdgesOf(ev.path) THEN DrawnAgain(l, 1, e, ev) ELSE l]

\* applyEvent, on the links.
DrawLinks(ev) ==
  vLinks' = [e \in DOMAIN vLinks \cup EdgesOf(ev.path) |->
               LET l == IF e \in DOMAIN vLinks THEN vLinks[e] ELSE NewLink(e, ev)
               IN  IF e \in EdgesOf(ev.path)
                   THEN DrawnAgain(l, Cardinality(Crosses(ev.path, e)), e, ev)
                   ELSE l]

\* The next frame, once the snapshot is shown; a withdraw only enters the rail.
ShowEvent ==
  /\ snap = {} /\ send # <<>> /\ Head(send).type = "event"
  /\ LET ev == Head(send).ev
     IN  /\ IF ev.kind = "announce" THEN DrawNodes(ev) /\ DrawLinks(ev)
                                    ELSE UNCHANGED <<vNodes, vLinks>>
         /\ rail' = Listed(<<ev.id>> \o rail)
         /\ got' = Append(got, ev.id)
  /\ send' = Tail(send)
  /\ UNCHANGED <<server, bcast, backlog, conn, snap, base, connects>>

ShowStats ==
  /\ snap = {} /\ send # <<>> /\ Head(send).type = "stats"
  /\ vNodes' = WithCards(vNodes, Head(send).cards)
  /\ send' = Tail(send)
  /\ UNCHANGED <<server, bcast, backlog, conn, snap, vLinks, rail, base, got, connects>>

-----------------------------------------------------------------------------

BrowserNext ==
  \/ \E u \in Update : ServerApplies(u)
  \/ ForwardEvent \/ ForwardStats \/ FanOut
  \/ Connect \/ Register \/ ConnectionLost
  \/ ShowSnapshot \/ ShowEvent \/ ShowStats

BrowserSpec == BrowserInit /\ [][BrowserNext]_allVars

-----------------------------------------------------------------------------

\* The events behind what is drawn, in the order they came: snapshot, then frames.
Behind == [k \in 1 .. base |-> k] \o got

Shown == [k \in DOMAIN Behind |-> log[Behind[k]]]

(***************************************************************************)
(* What is drawn is what came: every link is the summary of the snapshot's *)
(* events and of the frames shown since, in that order, and its            *)
(* relationship is the one the server has; nothing is left over from an    *)
(* earlier connection (graphStore.ts: applyEvent, applyTopology;           *)
(* useWebSocket.ts: dispatchFrame).                                        *)
(***************************************************************************)
ViewIsSnapshotPlusFrames ==
  /\ DOMAIN vLinks = UNION {EdgesOf(Shown[k].path) : k \in Announcements(Shown)}
  /\ \A e \in DOMAIN vLinks :
       /\ CountsCrossings(vLinks[e], e, Shown)
       /\ vLinks[e].status = Shown[Latest(CrossedBy(Shown, e))].vf
       /\ vLinks[e].rel = edges[e].rel

\* The frames shown reach from somewhere in the snapshot to the present without a gap.
NothingMissed ==
  LET first == IF got = <<>> THEN base + 1 ELSE got[1]
  IN  /\ first <= base + 1
      /\ got = [k \in 1 .. Len(log) - first + 1 |-> first + k - 1]

(***************************************************************************)
(* A page that has missed nothing draws the server's graph: the same       *)
(* links, with the same relationship and status, and every node, although  *)
(* frames older than the snapshot may have set a link back for a while     *)
(* (hub.go: Handler; aggregator.go: broadcast; graphStore.ts).             *)
(***************************************************************************)
CaughtUpAgrees ==
  NothingMissed =>
    /\ DOMAIN vLinks = DOMAIN edges /\ DOMAIN nodes \subseteq DOMAIN vNodes
    /\ \A e \in DOMAIN edges : /\ vLinks[e].status = edges[e].status
                               /\ vLinks[e].rel = edges[e].rel
                               /\ vLinks[e].count >= edges[e].count

(***************************************************************************)
(* What useStreamStore.ts:9 says of the rail's events: "newest first".  No *)
(* event is listed above a newer one; the same event twice running is not  *)
(* held against the order.                                                 *)
(***************************************************************************)
RailNewestFirst == \A j, k \in DOMAIN rail : j < k => rail[j] >= rail[k]

=============================================================================
