----------------------------- MODULE MCSources -----------------------------
(***************************************************************************)
(* Where stores and updates come from (server/sources.go: buildSources):   *)
(* a small CAIDA file over three ASes, in every order and from either end; *)
(* or demo mode's topology, every one that can be drawn over three tier-1, *)
(* two transit and two stub ASes, with the updates that are generated from *)
(* it; or a dump of two MRT records, replayed; or the bytes of an RTR      *)
(* connection.  A behaviour is one of the four.                            *)
(***************************************************************************)
EXTENDS Synth, Mrt, RtrWire

Tier1ASes == <<1, 2, 3>>
TransitASes == <<4, 5>>
StubASes == <<6, 7>>

FileInit == Init /\ NothingDrawn /\ phase = "file"

FileNext ==
  phase = "file" /\ Next /\ UNCHANGED <<phase, todo, adjacency, blocks, genVars>>

Done == phase = "next" /\ seq = MaxSeq /\ UNCHANGED synthVars

-----------------------------------------------------------------------------
(* The records: host bits, an NLRI that is no prefix, sets in every place, *)
(* an update that replaces a route, two AS_PATH attributes.                *)

P == [fam |-> "v4", bits |-> <<1, 0>>, len |-> 1]
PWithHostBit == [P EXCEPT !.bits = <<1, 1>>]
Q == [fam |-> "v4", bits |-> <<0, 1>>, len |-> 2]
V6 == [fam |-> "v6", bits |-> <<1>>, len |-> 1]

Sequence(as) == [set |-> FALSE, as |-> as]
Set(as) == [set |-> TRUE, as |-> as]

Paths ==
  {<<>>, <<Sequence(<<3, 1>>)>>, <<Sequence(<<3, 1>>), Set(<<2, 4>>)>>,
   <<Set(<<2, 4>>), Sequence(<<1>>)>>, <<Sequence(<<3>>), Set(<<>>)>>}

Attr(type, value) == [type |-> type, value |-> value]

AttrLists ==
  {<<>>, <<Attr("reach", <<V6, BadNlri>>)>>}
  \cup {<<Attr("aspath", p)>> \o mp :
          p \in Paths, mp \in {<<>>, <<Attr("unreach", <<V6>>), Attr("reach", <<V6>>)>>}}
  \cup {<<Attr("reach", <<V6>>), Attr("aspath", p), Attr("aspath", <<Sequence(<<5>>)>>)>> :
          p \in Paths}

Bodies ==
  [withdrawn : {<<>>, <<P>>, <<Q, BadNlri>>}, nlri : {<<>>, <<PWithHostBit, Q>>, <<BadNlri>>},
   attrs : AttrLists]

Record(kind, body) ==
  [kind |-> kind, withdrawn |-> body.withdrawn, nlri |-> body.nlri, attrs |-> body.attrs]

Whole == [withdrawn |-> <<P>>, nlri |-> <<PWithHostBit, Q>>,
          attrs |-> <<Attr("aspath", <<Sequence(<<3, 1>>)>>)>>]

AllDumps ==
  {<<Record("update", b), Record(kind, Whole)>> :
     b \in Bodies, kind \in {"update", "other", "malformed", "broken"}}

-----------------------------------------------------------------------------
(* RTR messages: every encoder's; bodies longer and shorter than they need *)
(* be; lengths and types that are none; error reports whose inner lengths  *)
(* fit or do not.                                                          *)

Addr6 == [k \in 1 .. 16 |-> 240 + (k % 8)]

Prefix(addr, len, asn) ==
  [bytes |-> EncodePrefix(TRUE, addr, len, 32, asn),
   means |-> [type |-> "prefix", announce |-> TRUE, addr |-> MaskBytes(addr, len), len |-> len,
              maxLen |-> 32, asn |-> asn]]

Refused(bytes) == [bytes |-> bytes, means |-> DecodeFailed]

Report(body, text) ==
  [bytes |-> Pdu(Type.error, 4, body), means |-> [type |-> "error", code |-> 4, text |-> text]]

RtrMessages ==
  {Prefix(<<10, 255, 7, 1>>, len, 65551) : len \in {0, 9, 32}}
  \cup {Prefix(Addr6, 65, 16909060)}
  \cup
  {[bytes |-> EncodeEndOfData(258, 16909060, 3600, 600, 7200),
    means |-> [type |-> "eod", session |-> 258, serial |-> 16909060, refresh |-> 3600,
               retry |-> 600, expire |-> 7200]],
   [bytes |-> Pdu(Type.serialQuery, 258, U32(7)),
    means |-> [type |-> "serialQuery", session |-> 258, serial |-> 7]],
   [bytes |-> Pdu(Type.notify, 7, U32(65536) \o <<1>>),
    means |-> [type |-> "notify", session |-> 7, serial |-> 65536]],
   [bytes |-> Pdu(Type.resetQuery, 0, <<>>), means |-> [type |-> "resetQuery"]],
   [bytes |-> Pdu(Type.response, 258, <<1, 7>>), means |-> [type |-> "response", session |-> 258]],
   [bytes |-> Pdu(Type.cacheReset, 0, <<>>), means |-> [type |-> "cacheReset"]],
   [bytes |-> Pdu(Type.routerKey, 0, Pdu(Type.cacheReset, 0, <<>>)),
    means |-> [type |-> "routerKey"]]}
  \cup
  {Refused(Pdu(Type.notify, 7, <<0, 0, 1>>)), Refused(Pdu(Type.eod, 7, U32(1))),
   Refused(Pdu(Type.v6, 0, <<1, 8, 8, 0>> \o U32(1) \o U32(2))),
   Refused(EncodePrefix(TRUE, U32(0), 33, 33, 1)), Refused(Pdu(5, 0, <<>>)),
   Refused(PutHeader(Type.cacheReset, 0, 7)), Refused(PutHeader(Type.cacheReset, 0, 2 ^ 20 + 1))}
  \cup
  {Report(<<9, 9>>, <<>>), Report(U32(1) \o <<9>> \o U32(2) \o <<65, 66>>, <<65, 66>>),
   Report(<<255, 255, 255, 255>> \o U32(0), <<>>), Report(U32(0) \o U32(3) \o <<65, 66>>, <<>>)}

-----------------------------------------------------------------------------

NoDump == MrtInit /\ ~loop /\ dump = CHOOSE d \in Dumps : TRUE

NoWire == WireInit /\ ~synced

NoStore == Init /\ NothingDrawn

DumpNext == phase = "dump" /\ MrtNext /\ UNCHANGED synthVars

Replayed ==
  phase = "dump" /\ (replay \in {"ended", "failed"} \/ sent = MaxSent) /\ UNCHANGED synthVars
  /\ UNCHANGED mrtVars

SourcesVars == <<synthVars, mrtVars, wireVars>>

SourcesInit ==
  \/ (FileInit \/ SynthInit) /\ NoDump /\ NoWire
  \/ NoStore /\ phase = "dump" /\ MrtInit /\ NoWire
  \/ NoStore /\ phase = "rtr" /\ NoDump /\ WireInit

SourcesNext ==
  \/ (FileNext \/ SynthNext \/ Done) /\ UNCHANGED <<mrtVars, wireVars>>
  \/ (DumpNext \/ Replayed) /\ UNCHANGED wireVars
  \/ phase = "rtr" /\ WireNext /\ UNCHANGED <<synthVars, mrtVars>>

SourcesSpec == SourcesInit /\ [][SourcesNext]_SourcesVars
=============================================================================
