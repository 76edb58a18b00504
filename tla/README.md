# bgpulse in TLA+

bgpulse takes a stream of BGP updates (a synthetic one, or a replayed MRT dump),
classifies each update against AS relationships and RPKI data, folds the result
into a live graph and streams both to browsers. These modules model the path of
an update from the generator to the drawing on the page, with the goroutines and
queues it passes, the process around them from its flags to its exit code, and
the page's connection; check all of it with TLC on small instances, and prove
most of its safety for every instance.

Run from this directory: `tlc -config MCTopology.cfg MCTopology` checks a
module, `tlapm TopologyProofs.tla` its proofs.

## The system and its parts

```
 synth.Generator ─┐                                               ┌── hub ── client ── browser
                  ├─> pipeline ─> classified ─> aggregator ─> broadcast ─> forwarder ─> hub backlog
 mrt.Replay  ─────┘   (classifier)              (one goroutine)     ^                    per-client buffers
 CAIDA file, VRP file, RTR cache ──> stores     REST, snapshots ────┘ (request/reply)
```

| part | state | operations | what makes it correct |
|---|---|---|---|
| relationship store `relationships/` | one relationship per unordered pair, neighbour sets | `Add`, `ParseCAIDA`, `Build`, `Lookup` | a lookup says what the rows said, from both ends; a load fails over a malformed line or a contradiction |
| VRP store `rpki/` | a binary trie per address family | `Add`, `Build`, `Validate` | the descent answers what RFC 6811 says (not of an IPv4-mapped prefix) |
| valley-free and combined classifier `valleyfree/`, `classify/` | none between calls | `ClassifyPath`, `Classify` | a leak if and only if the path is not up-then-down; the culprit can have done it |
| synthetic generator `synth/` | topology, adjacency maps, blocks, recent announcements | `BuildDefault`, `Next` | the classifier makes of each update what the generator meant |
| MRT parser and replay `mrt/` | the decoded dump, position, number of updates sent | decode, open, replay in rounds | one update per prefix named, in order; a hidden origin stays hidden |
| graph, ring, counters `topology/` | nodes with their throughput series, edges, RIB, event ring, stats | `apply`, `tick`, views | the two ownership indexes agree; edges, counters and views are the summary of the history |
| pipeline and aggregator `pipeline/`, `topology/aggregator.go`, `server/` | three channels, five kinds of goroutines | receive, send, apply, request, forward, stop | nothing lost or reordered; every call returns; everything stops |
| WebSocket hub `wshub/` | registered clients, their buffers and drop counters | register, unregister, fan out, disconnect | no panic; frames in order; a stalled client stalls nobody |
| RTR client `rtr/`, `rpki/live.go` | session, serial, VRP set, live store; the bytes unread | dial, query, read, commit, back off; encode, cut, decode | the live store is always one of the cache's tables, in the end the last; what is read is what was sent |
| process `cmd/`, `config/`, `server/` | files, stages running, first error, HTTP server | load, build, start, listen, shut down, exit, restart | the exit code tells why; a cancelled process ends |
| REST handlers `api/` | none between calls | `handleEvents`, `handleASN`, `handleEdge` | limits are kept, answers are views of the graph |
| browser `frontend/src` | drawn graph, event rail; sockets, timers, status | snapshot, event and stats frames; mount, unmount, open, close, retry | the page draws snapshot plus frames; one connection at a time, made again after every loss |
| JSON forms, flag parsing, canvas | | | not modelled, see below |

The parts share no memory apart from two atomically published values (the live
VRP store, the hub's client count); everything else goes through channels. The
hard behaviour is there: full queues that block (classified), drop the newest
(broadcast, hub backlog) or drop the oldest (client buffers); a reader of a
channel that calls the channel's writer (the forwarder calls `Stats`); clients
that are removed by three parties; an aggregator that stops while others call
it; a snapshot that is taken while older events are still queued; six stages
of which the first error decides an exit code; callbacks of a socket that come
after its effect is gone; a read deadline in the middle of a PDU; and two or
three records of the same fact kept under different conditions (RIB and prefix
sets, global and per-AS counters, adjacency maps and relationship store).
`PROJECT.json` lists these hazards at their lines, with the properties that
would catch each one going wrong.

## Modules

| module | models | state and actions |
|---|---|---|
| `Bgp` | `bgp/types.go` | the vocabulary: statuses, `Invert`, `Severity` |
| `RelStore`, `RelBuilder` | `relationships/` | `edges`, `neighbors`; a row is accepted or refused, a line is `Unreadable`, `Build` seals |
| `Rov`, `RpkiTrie` | `rpki/` | origin validation over a set, and the trie that must agree with it, filled from a JSON export (`LoadVRPsJSON`) or by an RTR commit; `Unmap` takes an IPv4-mapped prefix to the IPv4 trie and keeps its length |
| `ValleyFree`, `ValleyWalk` | `valleyfree/classifier.go` | the verdict in closed form, and the loop step by step |
| `Classify` | `classify/classify.go` | the precedence of the verdicts |
| `Blame` | `classify/classify.go` over `ValleyWalk` | whom the classifier blames for what the walk was given |
| `Synth` | `synth/` | draw the topology, hand over its links, allocate blocks; then one `Next` as several steps, one per loop of `validPath` |
| `Mrt` | `mrt/parser.go`, `reader.go`, `replay.go` | records into updates, as the concatenation of what each list of NLRIs yields; open a dump, send the next update, begin another round |
| `Series` | `topology/series.go` | the ring of counters in an origin's node, turned on by event time |
| `EventRing`, `RecentLog` | `topology/ring.go` | the ring, and the bounded log it promises |
| `Topology`, `OriginTable` | `topology/apply.go`, `graph.go`, `stats.go` | one action per kind of event, each the whole of `apply`; and the table of owners it implements |
| `TopologyHistory` | | the graph as the summary of every update applied to it |
| `TopologyViews` | `topology/views.go` | the answers to readers; a list in some order is given by the rank of its elements |
| `Pipeline` | `pipeline/`, `aggregator.go`, `server.go` | the goroutines and their channels; an event is a number |
| `Hub` | `wshub/` | hub goroutine, handlers, read and write pumps, peers |
| `Rtr` | `rtr/client.go`, `rpki/live.go` | client, connection, and a cache that follows RFC 8210, settles an answer (`answer`) and sends it one PDU at a time |
| `RtrWire` | `rtr/codec.go`, `pdu.go` | the connection as bytes: the encoders, `readPDU` (`Needed`, how much it takes; `Decoded`, what it returns), the deadline |
| `Server` | `cmd/bgpulse`, `config/config.go`, `server/server.go`, `sources.go` | one start of the process as `step`, the errgroup as `running`, `err`, `cancelled`; the files change under it; restarts |
| `Rest` | `api/rest.go` | `parseLimit` and the handlers that take parameters, over `TopologyViews` |
| `ViewsHistory` | | what is answered and shown, as the summary of every update applied |
| `Browser` | `frontend/src/lib/graphStore.ts`, `hooks/` | the server's graph (`Topology`), the queues, and one page |
| `Page` | `hooks/useWebSocket.ts` | per effect a socket, a timer, a backoff; the status shown |
| `Site` | | `Server` and `Page` together: sockets open while the server serves, and close with it |
| `EventRingProofs`, `TopologyProofs`, `SourcesProofs`, `VerdictProofs`, `PipelineProofs`, `HubProofs`, `RtrProofs`, `SiteProofs` | | the theorems |
| `MC…` | | the instances TLC checks |

`Topology` instantiates `EventRing` and extends `Series`; `TopologyViews` extends `Topology`, `Rest` extends it;
`ViewsHistory` extends `Rest` and `TopologyHistory`, `MCTopology` extends that;
`Browser` extends `TopologyViews` and `TopologyHistory` and feeds the graph through the two queues and the
client buffer; `Synth` extends `RelBuilder` and `Classify`, so generated updates
meet the classifier built from the same topology; `Mrt` extends `Classify`; `MCTopology` and `MCBrowser`
classify their updates with `Classify`. `EventRing` implements `RecentLog` and
`Topology` implements `OriginTable`. `Site` composes `Server` with `Page`; the
stages of `Server` only start, return and fail, what they do in between being
`Pipeline`, `Hub` and `Rtr`. `Rtr` takes whole PDUs, `RtrWire` says where they
come from.

`Pipeline` treats the graph as the list of events it has applied, because the
aggregator's goroutine applies one event in one step of its select; what that
step does is `Topology`. In the same way `Browser` keeps the queues of
`Pipeline` and `Hub` and leaves out the goroutines that move them, and a stats
frame is taken and queued in one step (in the code an event may be applied in
between, which makes a card's values older but adds no order of frames).

A definition named `…` with a comment that begins with "Mutated" is a plausible
bug in the definition that follows it; nothing refers to it. Replacing that
definition by it makes the property named with it in `PROJECT.json` fail.

## What the runs show

| run | question | size |
|---|---|---|
| `sources` | does the store say what the rows said, does the classifier make of generated updates what the generator meant, is a replay what the dump says, and are the PDUs read the ones sent | 3 ASes and 5 accepted rows, any REL code from -1 to 2, a malformed line anywhere; every topology over 3 tier-1, 2 transit, 2 stub ASes, 5 updates; 2 records, 12 replayed updates; 2 PDUs, cut by the deadline at any byte |
| `classify` | does the loop decide the documented rule, is the blame possible, and does the trie answer what RFC 6811 says | every path of up to 5 hops over 3 ASes with every store; a 5-AS chain with every choice of links; addresses of 1 bit (v4) and 3 bits (v6, two of them mapped), 2 VRPs, every announcement |
| `topology` | are graph, ring, counters, views and REST answers the summary of the history | every history of 4 out of 10 updates |
| `topology_status` | is an edge's status the worst seen recently | the same |
| `pipeline` | order, loss, freshness of answers, calls returning, shutting down | 3 events through channels of capacity 1, a reader and the forwarder, a cancellation at any point |
| `pipeline_end` | do calls get running counters while nothing is shut down | the same |
| `hub` | panics, order, counted losses, a hub that is never stalled, clients that leave | 2 clients, 3 frames, buffers of 1, threshold 1 |
| `rtr` | is the live store a table of the cache, in the end its last, and are retries paced | 3 VRPs, 2 serials, one restart, one failure, backoff 2 and cap 3 |
| `rtr_overlap` | the same with notifies during an answer | 2 VRPs, 3 serials, notifies at any time and no polls |
| `browser` | is the page what it was sent, and caught up the server's graph | 3 events, 2 connections, queues of 2, 1 and 1 |
| `browser_rail` | is the rail newest first | the same |
| `site` | does the exit code tell why, does a cancelled process end, does a page keep one connection, show its state and come back | 19 configurations, files good, bad or missing and one change of them, 2 starts; 2 mounts, 1 lost connection |

A run that holds several families (`sources`, `classify`) picks one of them in
its initial state and leaves the variables of the others alone.

Why these bounds are enough to meet the interesting cases:

* `sources`: five rows over three pairs give duplicates from both ends and every
  contradiction. Three tier-1 ASes are needed for a second peer link, two
  transit ASes for peering below tier 1, two stubs for a hijack and a sibling
  link. The slots (a leak every 2, a hijack every 3) leave updates without a
  scenario before and after both; one remembered announcement is enough for a
  withdraw. The records hold IPv4 and multiprotocol parts in either order, AS_SETs
  in every place of a path, two AS_PATHs, host bits and an NLRI that is no prefix;
  twelve updates are several rounds of most dumps. The PDUs (`Messages`) are one
  of every encoder, bodies too long and too short, lengths below a header and
  above the maximum, and error reports whose inner lengths fit or do not; two of
  them (`MaxPdus`) put each one before and behind each other.
* `classify`: a violation needs two moves that matter; five hops leave room for
  prepending and a skipped hop between them and for a path that visits an AS
  again. In the trie, length 0, the full width and intermediate lengths exist in
  the three-bit family, as do host bits below a mask, an out-of-range maxLength
  and a mapped VRP; the marker of the mapped addresses (two bits) is longer than
  an IPv4 address (one bit), as ::ffff: is, so a mapped announcement can meet a
  VRP of its whole IPv4 address or stop above it. Two VRPs can lie one above the
  other, beside each other, or match and cover.
* `topology`: four events let a prefix move, move back and be withdrawn twice,
  overfill a ring of two and the three samples of an edge. The ten updates carry
  timestamps that advance a series of three buckets by one, by several, past its
  whole length, and backwards. Limits are tried absent, junk, zero, negative, in
  range and beyond.
* `pipeline`, `hub`, `browser`: three events over buffers of one fill every
  queue in front of a slow reader and still leave one to be dropped or blocked.
* `rtr`: a restart reuses serials and a failure may fall into any message of
  an answer, sent or not yet sent. `rtr_overlap` needs a third table, in which
  the VRP of the second is gone again, and no poll (`MaxQueries` is 0).
* `site`: one change of a file (`MaxChanges`) falls between Load's check and
  the opening in New; a file that no flag names is no state, so it is always
  "missing". Two starts (`MaxStarts`) restart a process under an open page, two
  mounts (`MaxEffects`) are StrictMode's, and one lost connection (`MaxLosses`)
  besides those the server closes. Pages are opened (`Visited`) in demo mode and
  with a live cache, one configuration of each set of stages.

### Fairness

Safety runs need none. `Pipeline`: every goroutine that can proceed eventually
does, and a select in which a case stays ready eventually takes it (Go's select
chooses uniformly among ready cases, and each stage's loop comes back to it);
calls, ticks and the cancellation need never happen. `Hub`: fairness of the
hub's goroutine only, so that a peer may stall for ever while `HubKeepsUp`
holds; `ClosedClientsLeave` states as its own premise that handlers and pumps
run and that a write ends by its deadline (`writeTimeout`). `Rtr`: the client's
goroutine runs, its timers fire, the cache answers; updates, notifies, failures
and restarts need never happen and are bounded. `Server`: every goroutine that
can go on does and blocking calls return; signals, failures and the end of a
source need not happen. `Page`: timers fire, attempts to connect to a server
that accepts are answered and close events delivered; mounts, unmounts and
losses need not happen. `Reconnects` has as its premise that the server stays
up.

### Where code and documentation disagree

Four runs end in a counterexample, each against a sentence of the repository:

* `topology_status`: `graph.go:48` calls an edge's status the "worst status seen
  recently"; it is the latest one.
* `pipeline_end`: when a dump that does not loop has been replayed, the
  aggregator returns and every view is empty from then on, while the server goes
  on serving; `aggregator.go:165` promises the running counters.
* `rtr_overlap`: a Serial Notify is read between the Cache Response of an answer
  and its End of Data (`client.go:143`). The client asks again from the serial it
  still has, 1; the rest of the first answer, a VRP and End of Data 2, is still
  coming and is committed. By then the VRP is gone from the cache's third table,
  the answer to the second query is the difference from 1 to 3, in which the VRP
  does not occur, and so it stays live. The passing run assumes one query in
  flight (`Overlap = FALSE`).
* `browser_rail`: an event still queued when the snapshot was taken is put first
  when its frame comes, above newer ones that the snapshot listed: a snapshot of
  2 and 1, then the frame of 1. `useStreamStore.ts:9` says newest first. (That
  the event is then listed twice is not what is held against it: the property
  allows equal neighbours.)

Noticed on the way, without a run of their own: an IPv4-mapped announcement,
which a dump may hold (`mrt/parser.go:152`), is looked up in the IPv4 trie with
its IPv6 length (`rpki/store.go:54`), comes out invalid over IPv4 VRPs that do
not cover it, where RFC 6811 says notfound, and makes `bitAt` index out of range
if there is a VRP for exactly that IPv4 address, while a mapped VRP is refused
by every load (`MappedAnswers` in `RpkiTrie` says what is answered, so that the
run and the theorem hold of it too); a path of one prepended AS is
called unknown rather than valid (`classify.go:67`, visible in the last line of
`PrependingKeepsTheBlame`); a read deadline that passes in the middle of a PDU
leaves a client that has a serial reading at the wrong place (`codec.go:39`,
`aligned` in `RtrWire`); the close event of a socket that a newer effect
replaced marks the connection closed while the new one is open
(`useWebSocket.ts:66`, `overruled` in `Page`); `Run` may return before requests
in flight have been drained, since `ListenAndServe` returns as soon as
`Shutdown` has begun (`HttpReturns` in `Server`); a limit that is no number is
refused for events and ignored for an edge (`rest.go`, `HandleEvents` and
`HandleEdge`); an RTR address silently takes the place of a named VRP file, and
demo mode of every named file (`Source` and `Load` in `Server`); the backoff of the RTR client goes from 16 s to 32 s
past its cap of 30 s and is never set back after a session that worked
(`rtr/client.go:83`; the model does the same); the hub's drop counter is never
reset, so a client that keeps catching up is disconnected all the same
(`hub.go:97`, in the model likewise); "clients re-sync via snapshot"
(`hub.go:109`) happens only when a client reconnects, which is why
`CaughtUpAgrees` is about a page that missed nothing; in the browser a node's
colour is its latest verdict after an event and its worst after a snapshot; an
UPDATE's IPv4 withdrawals come before its announcements, so a replaced route
ends announced, while MP_REACH and MP_UNREACH are taken in the order they come
in (`mrt/parser.go:53`), so that an MP_UNREACH takes back even a prefix of the
UPDATE's own announcements: `ReplacedIsAnnounced` was once stated without that
exception, and its proof would not go through; and a looping replay keeps its
original timestamps (`mrt/replay.go:71`), so from the second round on every
event is late for its series and counts in the one bucket it stopped at.

## What is proved

`EventRingProofs`, for every capacity and every set of events:

* `RingTypeCorrect`: head and size stay in range and the filled slots hold events.
* `RingImplementsLog`: read backwards, the ring implements `RecentLog`. The
  argument: what `%` gives within three turns of the ring (`ModWithinThreeTurns`),
  hence where a backward read lands (`ReadBackwards`) and where head goes
  (`Advance`); then a push maps to a push, in the two cases of a ring with room
  and a full one.

`TopologyProofs`, for every set of ASes, prefixes, classified updates and every
bound, from `TopologyAssumption` (0 is no AS; the bounds are naturals; updates
are what the classifier puts out) and `SeriesAssumption` (at least one bucket, of
some width):

* `TypeCorrect`, `IndexesAgree`, `EdgesAlwaysClosed`: the invariants `TypeOK`
  (the throughput series included, for any number and width of its buckets),
  `RibPrefixesAgree` and `EdgesClosed`. They are proved together as `GraphInv`,
  because none is inductive alone. A new owner is only taken off the previous
  one's set because the RIB names every AS whose set has the prefix, so the
  agreement must hold before an announcement or a withdraw to hold after it; and
  the type of an edge is needed for its tallies to be bounded by its count.
  One lemma per action says what it does to the nodes, one what it does to the
  edges, one per action that it keeps `GraphInv`.
* `GraphImplementsOriginTable`: every step of the graph is a step or a stutter of
  the table of owners: an announcement that looks at one AS only takes the prefix
  from all of them.
* `ActorKeepsRecentLog`: the ring inside the actor implements `RecentLog`,
  because every step of the actor is a push or leaves the ring alone.
* `OwnerAlwaysFromTheLastWord`, `CountersAlwaysTheHistory`,
  `EdgesAlwaysTheHistory`: what `apply` adds up event by event is what
  `TopologyHistory` says of the whole history, a set of positions or of pairs
  (position, hop) whose cardinality grows by what the event adds (`Tally`,
  `CrossingsExtended`). The counters need besides (`CountersInv`) that an origin
  with a verdict is on the graph, so that a new node starts from nothing. An
  edge's samples are described from their end: how many crossings came after the
  event sampled; appending and cutting preserves that for any `MaxSamples`,
  though one event may fill several slots. The edge's relationship is read only
  once, which `HistoryAssumption` makes harmless: every update is annotated
  against the one store (`RelOf`), a hop for each step of its path.
* `PageAlwaysSnapshotPlusFrames`, `CaughtUpAlwaysAgrees`: the page of `Browser`
  against its server, for queues of any size and any number of connections.
  Inductive is `BrowserInv`: the graph is its history and its nodes are the ASes
  seen in it; an event queued anywhere is the history's, at the place it carries
  (`QueueIsTold`, kept while the history goes on); a snapshot on its way sums up
  a prefix of the history; the drawn links sum up the events shown, in the order
  they were shown. That a page which missed nothing agrees follows without
  another induction: each event was shown for the last time at `Pos(i)`, which
  ascends with `i`, so the last crossing shown is the history's last, and a link
  counts at least the crossings of the history (`ShownAtLeastOnce`, an
  injection). `OriginAssumption`, a known origin is on its path, is what makes
  the page know every node.
* `ViewsAlwaysTheHistory`: what is answered and shown is what happened, from
  `ViewsAssumption` besides (ASes are numbers, which the cards are sorted by;
  withdraws carry no path; the store has one relationship for both directions of
  an adjacency, as `Lookup` answers). Inductive is `ViewsInv`: the graph, its
  edges and its nodes are the history (`ServerInv`); the ring read backwards is
  its end, each update under its number (`RecentInv`); the counters are its
  (`CountersInv`); and so is every series (`SeriesInv`). Three arguments rest on
  it:
  * What a handler lists has ranks. A finite set in a strict order has an element
    of every rank (`Ranks`, a bijection with 1..n), which places the cards
    (`OriginsAreOrdered`) and the events of an edge (`NthPosition`), so that the
    k-th one listed has k - 1 of the newer before it, wherever the list is cut.
  * An AS answers 200 exactly if some announcement put it on the graph. One that
    is alone on its path is drawn only if it is the origin (`Appears`,
    `EndpointsAreNotAlone`): hidden behind an AS_SET it is on no edge and no node.
  * A point of a sparkline counts a stretch of time. Turning the ring on by n
    moves every point n places (`TurnedShows`, two `%` less than three turns
    apart), and the stretches with it (`OldTimes`); the new event falls into the
    last one (`NewTime`, `CurrentBucket`). `SeriesIs` adds to the property where
    the series stands: the latest announcement so far (`Peak`) is in the current
    bucket. That is what makes a late event count there and not where its
    timestamp says.

`SourcesProofs`, for every set of ASes, every file, and every size of the
generator's tiers, its slots and its memory, from `RelStoreAssumption` and
`SynthAssumption` (two tier-1 ASes, a transit and a stub at least; no AS in two
tiers, none of them 0, which the number ranges in `topology.go`, `assignASNs`,
guarantee; the moduli and the memory are not 0):

* `StoreSaysWhatRowsSaid`, with `TypeCorrect`. Inductive is `BuilderInv`: the
  pairs stored are those of the accepted rows, each with its row's relationship
  as seen from the lower AS, and an AS's neighbour set is the other ends of its
  pairs. That `Degree`, the size of a neighbour set, is the number of pairs an
  AS is an end of needs a bijection between the two. That a row which is refused
  contradicts itself or an accepted one (`Reason`) is read off the pair they
  share; a malformed line or a broken reader fails the load without such a row.
* `AdjacencyAlwaysTheStore`: the generator's maps and the classifier's store,
  filled by two pieces of code from the same links, stay the same relation.
  Inductive is `SynthInv`: links still to come are never written from the
  provider's end.
* `StreamAlwaysWhatItSays`: the classifier says of every generated update what
  the generator meant, whatever the topology drawn. Inductive is `StreamInv`:
  `StageInv` (what is drawn and linked so far; `Transit[1]` will buy from the two
  tier-1 ASes its leak is told between, `BuysFrom`), `RouteInv` (the path under
  construction has no loop, climbs until its apex and descends after it, and a
  hijacker is not the victim's owner) and the property itself.

* `ReplayAlwaysTheDump`: for every set of dumps, of any records with any lists
  of NLRIs and attributes, from `DumpsAreSequences` (that a dump, a list of
  NLRIs, a list of attributes and an AS_PATH are finite sequences, which slices
  are). The updates are a flattened sequence of flattened sequences. What
  replaces the induction is `FlattenSpots`: every element of a flattened sequence
  is one element of one of its sequences, each of them is there, and in that
  order. Twice applied it gives every update its place (`DumpSpots`: which
  record, which list, which NLRI), and the three parts of the property follow:
  the updates of a record for one prefix and the places that name it are in
  bijection (`EachOnce`), the last of them is the announcement unless an
  MP_UNREACH names the prefix (`ReplacedEndsAnnounced`), and the hops of a path
  are in bijection with those of its segments (`FlatHops`). Inductive is
  `ReplayInv`: so many whole rounds have been sent, and `pos` more.
* `WireAlwaysReadsWhatWasSent`: for every set of messages and number of PDUs,
  from `MessagesAreWhole`: a connection that holds one message and no more has
  what `readPDU` takes off it, and decodes it as what it means. Inductive is
  `WireInv`: while no deadline has cut a PDU in two, the bytes are the messages
  not read yet, one after the other. That a PDU is taken off whole although more
  bytes follow is `ReadAtHead`: how many bytes are taken, and what is decoded,
  depends on no byte after them.
* `PduIsTakenWhole`, `PrefixReadsBack`, `EndOfDataReadsBack` show that the
  encoders keep `MessagesAreWhole`: whatever the body up to the 1 MiB guard,
  every VRP of either family and every End of Data is decoded as what was
  encoded, with the host bits cleared, for the numbers below 2^30 (the model
  takes the larger ones, which TLC's integers cannot hold, as one).

`VerdictProofs`, for paths of any length, every relationship store, and tries
of any width:

* `VerdictIsTheRule`: the walk accuses exactly the paths that are not climbs,
  then at most one peer link, then descents. Inductive is `WalkInv`: the phase
  is "down" exactly if a move behind the walk was a peer's or a descent, and no
  hop behind it violates. The rule speaks of some peak and the walk of the first
  violation; the least and the greatest element of a set of positions
  (`NatLessThanWellFounded`) take one to the other.
* `LessDataNeverAccuses`: with fewer relationships no clean path is accused.
* `BlameAlwaysPlausible`, `PrependingAlwaysKeepsTheBlame`: for any VRPs as well,
  a leaker stands strictly between origin and collector and a hijacker is the
  origin; and taking one repetition out of a path moves no blame. The proofs
  follow the deduplicated path: `Place` maps its hops to the path's. "Blamed
  exactly when accused" is said of paths without AS 0, the classifier's word for
  nobody.
* `TrieAnswers`: a lookup answers what RFC 6811 says of any announcement that is
  not IPv4-mapped, and of one that is what `MappedAnswers` says. Inductive is
  `TrieInv`: a node holds exactly the VRPs of its prefix, every node above a VRP's
  node exists, so that the descent cannot stop short of one, and no other node
  does, so that it runs past the last bit of an address over a VRP for that
  address only. From `RpkiTrieAssumption`: a mapped address is the marker and an
  IPv4 address, the marker is longer than that and ends in 1, which is why a
  mapped VRP is always out of range (`Cleared`).

`PipelineProofs`, for every stream, capacity and number of callers, from
`PipelineAssumption`:

* `NothingIsLost`: inductive is `Flow`: the graph's events, the channel's and
  the one in the classifier's hand are consecutive numbers, up to what was sent.
* `AnswersAlwaysFresh`: inductive is `Calls`: a call waits for a reply that is
  not there yet or in time, and the aggregator never ends while it serves one.
* `FramesAlwaysInOrder`: inductive is `Outgoing`, on top of `Calls`: the events
  waiting to be broadcast ascend, behind every one forwarded and within what is
  applied; and when the forwarder asks for counters, all it forwarded is in the
  graph already.
* `TypeCorrect`: the channels' capacities.

`HubProofs`, for any number of clients, frames and sizes:

* `NeverPanics`: inductive is the ownership of a client's channel: only a
  registered client's channel is closed, in the step that takes it off the
  register, and the hub serves only clients that are on it.
* `FramesAlwaysIncrease`: what was written, the frame in the pump's hand, the
  buffer and the frame the hub is about to enqueue ascend, while the hub drops
  the oldest and the pump takes it.
* `OldestAlwaysLostAndCounted`: the newest frame offered to a client is the last
  it gets, and what it misses is in its drop counter. Inductive is `Counted`:
  between the hub's two selects (`MakingRoom`) one miss more than counted is
  allowed before the oldest is out and another one after, and then there is room,
  whatever the pump took meanwhile, because only the hub puts frames in.
* `TypeCorrect`: capacities and the published count.

`RtrProofs`, for any finite set of VRPs and any numbers of tables, restarts and
failures, from `RtrAssumption`:

* `LiveAlwaysATable` and `AlwaysSynced`, with `~Overlap` as a premise: with it
  `rtr_overlap` refutes `Synced`, so the theorems say precisely what the
  overtaken answer costs. Inductive is `Inv`, a case distinction over what the
  two queues and the part of the answer not yet sent hold: nothing, one query, an
  answer, its rest, a notify, a refusal or an error report. What is on the
  connection and what is still to be sent are one sequence to it (`Coming`), so
  that sending a PDU changes nothing. In the middle of an answer, what was read followed by what
  is still to be read makes the table of the serial that ends it; and with
  nothing in flight the client's table is that of its serial.
* `BackoffAlwaysBounded` and `TypeCorrect`, without that premise.

`SiteProofs`, for any configurations, numbers of starts, changes, mounts and
losses, from `ServerAssumption`, `PageAssumption` and `SiteAssumption`:

* `ExitAlwaysTellsWhy`: inductive is `ServerInv`: what has been built at each
  step, and that nothing is cancelled but by a signal or by a failure that is
  then the first error.
* `AlwaysSingleConnection`, `StatusAlwaysTrue`: inductive together with the
  types of the page.

The assumptions are the `ASSUME`s of the modules; TLC evaluates each of them in
the run of its module.

Checked by TLC only: all liveness (`CallsReturn`, `DrainsOrStops`, `HubKeepsUp`,
`ClosedClientsLeave`, `Converges`, `StopsWhenCancelled`, `Reconnects`), which
is out of the proof system's reach. Every safety property of the passing runs
is stated by a theorem.

## Left out

* Wall-clock times, names, colours, positions, wording; the moving average of the event
  rate (that each event enters it once is modelled, the arithmetic is not).
* The byte-level decoding of MRT (a library's), next hops and communities.
* The REST handlers without parameters beyond their calls, JSON forms and the
  middleware, the parsing of each flag's value, static files, names of ASes, the
  canvas and the panels: formatting without state that outlives a call.
* A cache that does not follow RFC 8210, and in `RtrWire` a connection that is
  closed: what `Rtr` does with a failed read does not depend on the bytes.

## What could come next

The liveness of the stages as variants, a number that falls with every step of
the argument, which could be proved as safety; and the names and times of nodes.
