------------------------------- MODULE Synth -------------------------------
(***************************************************************************)
(* Demo mode's source (internal/synth): a tiered topology is drawn, its    *)
(* links are handed to the relationship builder and to the adjacency maps  *)
(* the paths are drawn from, its address blocks get their ROAs, and then   *)
(* updates are generated one by one, a leak and a hijack at their slots.   *)
(*                                                                         *)
(* The seeded generator's draws are choices.  The blocks are disjoint, so  *)
(* one is named by its owner and a number; every VRP is for a whole block. *)
(***************************************************************************)
EXTENDS RelBuilder, Classify, SequencesExt

CONSTANTS
  Tier1, Transit, Stubs,    (* sequences of ASes                               *)
  SiblingEvery,             (* every so many stubs, one with its successor     *)
  RoaSkipEvery,             (* every so many blocks, one without a ROA         *)
  LeakEvery, HijackEvery,   (* the slots of the scenarios, 0 for never         *)
  MaxClimb, MaxDescend,     (* bounds on the two arms of a path                *)
  RecentCap, MinRecentForWd,(* announcements remembered; needed for a withdraw *)
  MaxSeq                    (* bound on the updates of a run                   *)

ASSUME SynthAssumption ==
  /\ {Tier1, Transit, Stubs} \subseteq Seq(ASN)
  /\ Len(Tier1) >= 2 /\ Transit # <<>> /\ Stubs # <<>>
  /\ IsInjective(Tier1 \o Transit \o Stubs) /\ NoAS \notin ToSet(Tier1 \o Transit \o Stubs)
  /\ {SiblingEvery, RoaSkipEvery, MaxClimb, RecentCap} \subseteq Nat \ {0}
  /\ {LeakEvery, HijackEvery, MaxDescend, MinRecentForWd, MaxSeq} \subseteq Nat

VARIABLES
  phase,     (* "draw", "link", then the generator's: "next", "climb", "apex",  *)
             (* "down", "emit"; "file" when there is a file and no generator    *)
  todo,      (* the links drawn and not yet handed over                         *)
  providersOf, customersOf, peersOf, (* AS -> the ASes a path may go on to      *)
  blocks,    (* the address blocks, in the order they were allocated            *)
  seq,       (* updates started                                                 *)
  recent,    (* the announcements that may be withdrawn                         *)
  prop,      (* the path under construction, from the origin on                 *)
  victim,    (* the block the last update hijacks, as a set of at most one      *)
  ev         (* the last update, as a set of at most one                        *)

adjacency == <<providersOf, customersOf, peersOf>>
storeVars == <<edges, neighbors, status, rows, refused, unreadable>>
genVars == <<seq, recent, prop, victim, ev>>
synthVars == <<storeVars, phase, todo, adjacency, blocks, genVars>>

NothingDrawn ==
  /\ todo = <<>>
  /\ providersOf = [a \in ASN |-> {}] /\ customersOf = [a \in ASN |-> {}]
  /\ peersOf = [a \in ASN |-> {}]
  /\ blocks = <<>>
  /\ seq = 0 /\ recent = <<>> /\ prop = <<>> /\ victim = {} /\ ev = {}

SynthInit == Init /\ NothingDrawn /\ phase = "draw"

-----------------------------------------------------------------------------
(* The topology: linkTier1, linkTransit, linkStubs                         *)

Upstream(customers, upstreams) ==
  UNION {{<<customers[k], p, "provider">> : p \in upstreams[k]} : k \in DOMAIN customers}

Mesh(ases, joined) ==
  {<<ases[j[1]], ases[j[2]], "peer">> : j \in joined}

Joinable(ases) == {j \in (DOMAIN ases) \X (DOMAIN ases) : j[1] < j[2]}

\* One or two different ASes of the tier above.
OneOrTwo(tier) == {U \in SUBSET ToSet(tier) : Cardinality(U) \in {1, 2}}

\* Every SiblingEvery-th stub and its successor.
Siblings ==
  {<<Stubs[k], Stubs[k + 1], "sibling">> :
     k \in {i \in 1 .. Len(Stubs) - 1 : (i - 1) % SiblingEvery = 0}}

\* The first transit AS buys from the first two of tier 1, so that it can leak.
TransitUpstreams ==
  {U \in [DOMAIN Transit -> OneOrTwo(Tier1)] : U[1] = {Tier1[1], Tier1[2]}}

\* No two links name the same pair: their order within a loop changes nothing.
Draw ==
  /\ phase = "draw" /\ phase' = "link"
  /\ \E up \in TransitUpstreams, stubUp \in [DOMAIN Stubs -> OneOrTwo(Transit)],
        joined \in SUBSET Joinable(Transit) :
       todo' = SetToSeq(Mesh(Tier1, Joinable(Tier1))) \o SetToSeq(Upstream(Transit, up))
               \o SetToSeq(Mesh(Transit, joined)) \o SetToSeq(Upstream(Stubs, stubUp))
               \o SetToSeq(Siblings)
  /\ UNCHANGED <<storeVars, adjacency, blocks, genVars>>

\* Mutated Adjoin: the customer learns of its provider, not the other way round.
AdjoinOneWay(a, c, rel) ==
  /\ providersOf' = IF rel = "provider" THEN [providersOf EXCEPT ![a] = @ \cup {c}]
                    ELSE providersOf
  /\ peersOf' = IF rel = "peer" THEN [peersOf EXCEPT ![a] = @ \cup {c}, ![c] = @ \cup {a}]
                ELSE peersOf
  /\ UNCHANGED customersOf

\* The adjacency maps, from both ends; siblings carry no paths.
Adjoin(a, c, rel) ==
  LET buys(x, y) == \/ rel = "provider" /\ <<x, y>> = <<a, c>>
                    \/ rel = "customer" /\ <<x, y>> = <<c, a>>
      peer(x, y) == rel = "peer" /\ <<x, y>> \in {<<a, c>>, <<c, a>>}
  IN  /\ providersOf' = [x \in ASN |-> providersOf[x] \cup {y \in ASN : buys(x, y)}]
      /\ customersOf' = [y \in ASN |-> customersOf[y] \cup {x \in ASN : buys(x, y)}]
      /\ peersOf' = [x \in ASN |-> peersOf[x] \cup {y \in ASN : peer(x, y)}]

\* edge: a link the builder refuses is left out altogether.
Edge ==
  /\ phase = "link" /\ todo # <<>>
  /\ LET l == Head(todo)
     IN  IF l[1] = l[2] \/ Conflicts(l[1], l[2], l[3])
         THEN UNCHANGED <<storeVars, adjacency>>
         ELSE Accept(l[1], l[2], l[3]) /\ Adjoin(l[1], l[2], l[3])
  /\ todo' = Tail(todo)
  /\ UNCHANGED <<phase, blocks, genVars>>

Block(owner, n) == [fam |-> "v4", bits |-> <<owner, n>>, len |-> 2]

Owner(block) == block.bits[1]

\* allocatePrefixes, then the builder seals the store; some stubs have two blocks.
Allocate ==
  /\ phase = "link" /\ todo = <<>>
  /\ \E two \in SUBSET ToSet(Stubs) :
       blocks' = [k \in DOMAIN (Tier1 \o Transit) |-> Block((Tier1 \o Transit)[k], 1)]
                 \o FlattenSeq([k \in DOMAIN Stubs |->
                      <<Block(Stubs[k], 1)>>
                      \o IF Stubs[k] \in two THEN <<Block(Stubs[k], 2)>> ELSE <<>>])
  /\ status' = "sealed" /\ phase' = "next"
  /\ UNCHANGED <<edges, neighbors, rows, refused, unreadable, todo, adjacency, genVars>>

\* The blocks with a ROA.
RoaPrefixes ==
  {blocks[k] : k \in {i \in DOMAIN blocks : (i - 1) % RoaSkipEvery # RoaSkipEvery - 1}}

\* buildVRP: one exact VRP for each of them.
VRPs ==
  {[fam |-> p.fam, bits |-> p.bits, len |-> p.len, maxLen |-> p.len, origin |-> Owner(p)] :
     p \in RoaPrefixes}

-----------------------------------------------------------------------------
(* The generator: Next                                                     *)

LeakDue == LeakEvery > 0 /\ (seq + 1) % LeakEvery = 0

HijackDue == ~LeakDue /\ HijackEvery > 0 /\ (seq + 1) % HijackEvery = 0

\* The beginning of every Next.
Begin == phase = "next" /\ seq < MaxSeq /\ seq' = seq + 1

\* announce: origin and neighbour are the two ends of the path.
Announcement(id, block, wire) ==
  [id |-> id, at |-> id, kind |-> "announce", prefix |-> block, path |-> wire,
   hasASSet |-> FALSE, origin |-> wire[Len(wire)]]

\* remember: only the newest RecentCap stay.
Remember(block, peerAS) ==
  LET all == Append(recent, [prefix |-> block, peerAS |-> peerAS])
  IN  recent' = SubSeq(all, 1 + (IF Len(all) > RecentCap THEN Len(all) - RecentCap ELSE 0),
                       Len(all))

Owned(a) == {p \in ToSet(blocks) : Owner(p) = a}

\* makeLeak: the first transit AS carries a tier-1's route to the next tier-1.
MakeLeak ==
  /\ Begin /\ LeakDue
  /\ \E p \in Owned(Tier1[1]) :
       /\ ev' = {Announcement(seq', p, <<Tier1[2], Transit[1], Tier1[1]>>)}
       /\ Remember(p, Tier1[2])
  /\ victim' = {}
  /\ UNCHANGED <<storeVars, phase, todo, adjacency, blocks, prop>>

StartPath(origin) == phase' = "climb" /\ prop' = <<origin>> /\ ev' = {}

\* makeHijack: a stub that does not own the block; the tries may fail to draw one.
MakeHijack ==
  /\ Begin /\ HijackDue
  /\ \/ \E p \in RoaPrefixes, s \in ToSet(Stubs) :
          s # Owner(p) /\ StartPath(s) /\ victim' = {p}
     \/ /\ \E p \in RoaPrefixes : Owner(p) \in ToSet(Stubs)
        /\ \E a \in {Owner(p) : p \in ToSet(blocks)} : StartPath(a)
        /\ victim' = {}
  /\ UNCHANGED <<storeVars, todo, adjacency, blocks, recent>>

\* makeWithdraw, in some of the slots without a scenario.
MakeWithdraw ==
  /\ Begin /\ ~LeakDue /\ ~HijackDue
  /\ Len(recent) >= MinRecentForWd
  /\ \E k \in DOMAIN recent :
       /\ ev' = {[id |-> seq', at |-> seq', kind |-> "withdraw", prefix |-> recent[k].prefix,
                  path |-> <<>>, hasASSet |-> FALSE, origin |-> NoAS]}
       /\ recent' = RemoveAt(recent, k)
  /\ victim' = {}
  /\ UNCHANGED <<storeVars, phase, todo, adjacency, blocks, prop>>

\* makeAnnounce, in the others.
MakeAnnounce ==
  /\ Begin /\ ~LeakDue /\ ~HijackDue
  /\ \E a \in {Owner(p) : p \in ToSet(blocks)} : StartPath(a)
  /\ victim' = {}
  /\ UNCHANGED <<storeVars, todo, adjacency, blocks, recent>>

-----------------------------------------------------------------------------
(* validPath                                                               *)

Here == prop[Len(prop)]

GoTo(a) == prop' = Append(prop, a)

pathFixed == <<storeVars, todo, adjacency, blocks, seq, recent, victim, ev>>

\* Up to a provider, until tier 1 or the limit is reached; a repeated AS ends the climb.
Climb ==
  /\ phase = "climb"
  /\ IF Len(prop) >= MaxClimb \/ providersOf[Here] = {}
     THEN phase' = "apex" /\ UNCHANGED prop
     ELSE \E a \in providersOf[Here] :
            IF a \in ToSet(prop)
            THEN phase' = "apex" /\ UNCHANGED prop
            ELSE /\ GoTo(a)
                 /\ phase' = IF a \in ToSet(Tier1) THEN "apex" ELSE "climb"
  /\ UNCHANGED pathFixed

\* Mutated CrossPeer: peer links are followed as long as the draws last.
CrossPeers ==
  /\ phase = "apex"
  /\ \/ \E a \in peersOf[Here] \ ToSet(prop) : GoTo(a) /\ UNCHANGED phase
     \/ phase' = "down" /\ UNCHANGED prop
  /\ UNCHANGED pathFixed

\* Across one peer link, or not.
CrossPeer ==
  /\ phase = "apex" /\ phase' = "down"
  /\ \/ \E a \in peersOf[Here] \ ToSet(prop) : GoTo(a)
     \/ UNCHANGED prop
  /\ UNCHANGED pathFixed

\* Down to customers, not at all or as far as MaxDescend allows.
Descend ==
  /\ phase = "down"
  /\ \/ phase' = "emit" /\ UNCHANGED prop
     \/ \E down \in UNION {[1 .. n -> ASN] : n \in 1 .. MaxDescend} :
          LET all == prop \o down
          IN  /\ \A k \in DOMAIN down :
                   /\ down[k] \in customersOf[all[Len(prop) + k - 1]]
                   /\ down[k] \notin ToSet(SubSeq(all, 1, Len(prop) + k - 1))
              /\ \/ Len(down) = MaxDescend
                 \/ customersOf[Last(down)] = {}
                 \/ customersOf[Last(down)] \cap ToSet(all) # {}
              /\ prop' = all /\ phase' = "emit"
  /\ UNCHANGED pathFixed

\* The path is turned around; the block is the victim's or one the origin owns.
Emit ==
  /\ phase = "emit" /\ phase' = "next"
  /\ \E p \in IF victim # {} THEN victim ELSE Owned(prop[1]) :
       /\ ev' = {Announcement(seq, p, Reverse(prop))}
       /\ Remember(p, Here)
  /\ prop' = <<>> /\ UNCHANGED <<storeVars, todo, adjacency, blocks, seq, victim>>

SynthNext ==
  \/ Draw \/ Edge \/ Allocate
  \/ MakeLeak \/ MakeHijack \/ MakeWithdraw \/ MakeAnnounce
  \/ Climb \/ CrossPeer \/ Descend \/ Emit

SynthSpec == SynthInit /\ [][SynthNext]_synthVars

-----------------------------------------------------------------------------

(***************************************************************************)
(* The maps the paths are drawn from and the store the classifier looks    *)
(* them up in never disagree, while the topology grows and afterwards: a   *)
(* path can only go on to an AS the store knows as a provider, a customer  *)
(* or a peer, and no such AS is left out; and nothing is in the maps       *)
(* twice, as a customer and as a peer (topology.go: edge, linkTransit,     *)
(* linkStubs).                                                             *)
(***************************************************************************)
AdjacencyIsTheStore ==
  phase # "file" => \A a \in ASN :
    /\ providersOf[a] = {b \in ASN \ {a} : Lookup(edges, a, b) = "provider"}
    /\ customersOf[a] = {b \in ASN \ {a} : Lookup(edges, a, b) = "customer"}
    /\ peersOf[a] = {b \in ASN \ {a} : Lookup(edges, a, b) = "peer"}

(***************************************************************************)
(* Whatever topology was drawn, the classifier built from it makes of      *)
(* every update what the generator meant: the leak is a leak of the first  *)
(* transit AS, a hijack is the hijack of a stub that does not own the      *)
(* block, and everything else is a loop-free route of the owner's that no  *)
(* classifier holds anything against (scenarios.go: makeLeak, makeHijack,  *)
(* validPath "valley-free by construction").                               *)
(***************************************************************************)
StreamIsWhatItSays ==
  \A u \in {x \in ev : x.kind = "announce"} :
    LET out == Classify(edges, VRPs, u)
        leakSlot == LeakEvery > 0 /\ seq % LeakEvery = 0
    IN  IF leakSlot
        THEN out.vf = "leak" /\ out.offender = Transit[1] /\ out.rpki # "invalid"
        ELSE /\ IsInjective(u.path)
             /\ IF victim # {}
                THEN /\ out.vf = "hijack" /\ out.offender \in ToSet(Stubs)
                     /\ out.offender # Owner(u.prefix)
                ELSE out.vf = "valid" /\ u.origin = Owner(u.prefix)

=============================================================================
