-------------------------------- MODULE Mrt --------------------------------
(***************************************************************************)
(* The other source: a dump of MRT records is decoded into updates, one    *)
(* per prefix, which are then replayed, once or for ever (mrt/parser.go,   *)
(* reader.go, replay.go).                                                  *)
(*                                                                         *)
(* A record is [kind, withdrawn, nlri, attrs]; its timestamp is taken to   *)
(* be its position in the dump.  kind is "update", "other" (anything that  *)
(* is not a BGP UPDATE), "malformed" (not decodable, skipped) or "broken"  *)
(* (ends the scan with an error).  An attribute is [type, value]: the      *)
(* segments of an AS_PATH, each [set, as], or the NLRIs of MP_REACH and    *)
(* MP_UNREACH.  Next hops, communities and peers are left out.             *)
(***************************************************************************)
EXTENDS Classify, SequencesExt

CONSTANTS
  Dumps,   (* the sequences of records that may be read       *)
  BadNlri, (* an NLRI whose text is no prefix, as a VPN's     *)
  MaxSent  (* bound on the updates replayed                   *)

ASSUME MrtAssumption == MaxSent \in Nat

IsSeq(s) == s \in Seq({s[k] : k \in DOMAIN s})

ASSUME DumpsAreSequences ==
  \A d \in Dumps :
    /\ IsSeq(d)
    /\ \A k \in DOMAIN d :
         /\ IsSeq(d[k].withdrawn) /\ IsSeq(d[k].nlri) /\ IsSeq(d[k].attrs)
         /\ \A a \in DOMAIN d[k].attrs : LET value == d[k].attrs[a].value IN
              /\ IsSeq(value)
              /\ d[k].attrs[a].type = "aspath" => \A s \in DOMAIN value : IsSeq(value[s].as)

VARIABLES
  dump, loop,
  replay,  (* "closed", "replaying", "ended", "failed"        *)
  decoded, (* the updates of the dump                         *)
  pos,     (* those already sent in this round                *)
  sent,    (* those sent in all rounds                        *)
  emitted  (* the last one sent, as a set of at most one      *)

mrtVars == <<dump, loop, replay, decoded, pos, sent, emitted>>

MrtInit ==
  /\ dump \in Dumps /\ loop \in BOOLEAN
  /\ replay = "closed" /\ decoded = <<>>
  /\ pos = 0 /\ sent = 0 /\ emitted = {}

-----------------------------------------------------------------------------
(* One record                                                              *)

\* nlriPrefix, on a list: what cannot be parsed is left out, host bits are masked.
Cleared(nlri) == [nlri EXCEPT !.bits = Masked(nlri)]

PrefixesIn(nlris) ==
  FlattenSeq([k \in DOMAIN nlris |-> IF nlris[k] = BadNlri THEN <<>> ELSE <<Cleared(nlris[k])>>])

\* The segments of the first AS_PATH attribute, if there is one.
Segments(attrs) ==
  LET paths == {k \in DOMAIN attrs : attrs[k].type = "aspath"}
  IN  IF paths = {} THEN <<>> ELSE attrs[Min(paths)].value

\* extractASPath: an AS_SET is one opaque hop, its first member.
Flat(segs) ==
  FlattenSeq([k \in DOMAIN segs |->
                IF segs[k].set /\ segs[k].as # <<>> THEN <<segs[k].as[1]>> ELSE segs[k].as])

LastWasSet(segs) == segs # <<>> /\ segs[Len(segs)].set

HasASSet(segs) == \E k \in DOMAIN segs : segs[k].set

\* withdrawEvent and announceEvent, for a list of NLRIs.
Withdraws(at, nlris) ==
  [k \in DOMAIN PrefixesIn(nlris) |->
     [id |-> 0, at |-> at, kind |-> "withdraw", prefix |-> PrefixesIn(nlris)[k],
      path |-> <<>>, hasASSet |-> FALSE, origin |-> NoAS]]

Announces(at, nlris, segs) ==
  [k \in DOMAIN PrefixesIn(nlris) |->
     [id |-> 0, at |-> at, kind |-> "announce", prefix |-> PrefixesIn(nlris)[k],
      path |-> Flat(segs), hasASSet |-> HasASSet(segs),
      origin |-> OriginAS(Flat(segs), LastWasSet(segs))]]

\* The multiprotocol attributes, in the order they come in.
MultiProtocol(at, attrs) ==
  [k \in DOMAIN attrs |->
    CASE attrs[k].type = "reach"   -> Announces(at, attrs[k].value, Segments(attrs))
      [] attrs[k].type = "unreach" -> Withdraws(at, attrs[k].value)
      [] OTHER                     -> <<>>]

\* Mutated RecordToEvents: the announcements come first.
RecordToEventsAnnouncing(at, r) ==
  IF r.kind # "update" THEN <<>>
  ELSE FlattenSeq(<<Announces(at, r.nlri, Segments(r.attrs)), Withdraws(at, r.withdrawn)>>
                  \o MultiProtocol(at, r.attrs))

\* recordToEvents.
RecordToEvents(at, r) ==
  IF r.kind # "update" THEN <<>>
  ELSE FlattenSeq(<<Withdraws(at, r.withdrawn), Announces(at, r.nlri, Segments(r.attrs))>>
                  \o MultiProtocol(at, r.attrs))

-----------------------------------------------------------------------------
(* The dump                                                                *)

\* DecodeStream.
Decode(records) ==
  FlattenSeq([k \in DOMAIN records |-> RecordToEvents(k, records[k])])

\* NewReplaySource: a scan that fails, or finds no update at all, opens nothing.
OpenDump ==
  /\ replay = "closed"
  /\ IF (\E k \in DOMAIN dump : dump[k].kind = "broken") \/ Decode(dump) = <<>>
     THEN replay' = "failed" /\ UNCHANGED decoded
     ELSE replay' = "replaying" /\ decoded' = Decode(dump)
  /\ UNCHANGED <<dump, loop, pos, sent, emitted>>

\* The next update, numbered on from the last.
ReplayNext ==
  /\ replay = "replaying" /\ pos < Len(decoded) /\ sent < MaxSent
  /\ pos' = pos + 1 /\ sent' = sent + 1
  /\ emitted' = {[decoded[pos'] EXCEPT !.id = sent']}
  /\ UNCHANGED <<dump, loop, replay, decoded>>

\* The end of a round.
RoundOver ==
  /\ replay = "replaying" /\ pos = Len(decoded)
  /\ IF loop THEN pos' = 0 /\ UNCHANGED replay ELSE replay' = "ended" /\ UNCHANGED pos
  /\ UNCHANGED <<dump, loop, decoded, sent, emitted>>

MrtNext == OpenDump \/ ReplayNext \/ RoundOver

MrtSpec == MrtInit /\ [][MrtNext]_mrtVars

-----------------------------------------------------------------------------

\* The places of a list of NLRIs that name a prefix.
Naming(nlris, p) == {n \in DOMAIN nlris : nlris[n] # BadNlri /\ Cleared(nlris[n]) = p}

\* Where an UPDATE announces or withdraws a prefix: in its own list, 0, or in an attribute.
Mentions(r, kind, p) ==
  LET own == IF kind = "announce" THEN r.nlri ELSE r.withdrawn
      mp  == IF kind = "announce" THEN "reach" ELSE "unreach"
  IN  {0} \X Naming(own, p)
        \cup UNION {{a} \X Naming(r.attrs[a].value, p) :
                     a \in {b \in DOMAIN r.attrs : r.attrs[b].type = mp}}

Updates(k) == {i \in DOMAIN decoded : decoded[i].at = k}

PrefixesNamed ==
  {Cleared(n) : n \in UNION {
     Range(dump[k].withdrawn) \cup Range(dump[k].nlri)
       \cup UNION {Range(dump[k].attrs[a].value) :
                    a \in {b \in DOMAIN dump[k].attrs : dump[k].attrs[b].type # "aspath"}} :
     k \in DOMAIN dump} \ {BadNlri}}

\* Every prefix an UPDATE names yields one update of its own, in the order of the dump.
EachNlriOnce ==
  /\ \A i, j \in DOMAIN decoded : i < j => decoded[i].at <= decoded[j].at
  /\ \A k \in DOMAIN dump, p \in PrefixesNamed, kind \in UpdateKind :
       Cardinality({i \in Updates(k) : decoded[i].kind = kind /\ decoded[i].prefix = p})
         = IF dump[k].kind = "update" THEN Cardinality(Mentions(dump[k], kind, p)) ELSE 0

\* A prefix that one UPDATE takes back and announces anew is announced in the end,
\* unless an MP_UNREACH, which is read later, takes it back again.
ReplacedIsAnnounced ==
  \A k \in DOMAIN dump : \A i \in Updates(k) :
    LET p == decoded[i].prefix
    IN  /\ Naming(dump[k].nlri, p) # {}
        /\ \A m \in Mentions(dump[k], "withdraw", p) : m[1] = 0
        => \E j \in Updates(k) :
             /\ decoded[j].prefix = p /\ decoded[j].kind = "announce"
             /\ \A m \in Updates(k) : decoded[m].prefix = p => m <= j

\* An origin is only ever the last AS of a sequence that ends the path, and an
\* AS_SET counts as one hop.
OriginsAreSequenced ==
  \A k \in DOMAIN dump : \A i \in {j \in Updates(k) : decoded[j].kind = "announce"} :
    LET segs == Segments(dump[k].attrs)
        ends == segs[Len(segs)]
        Hops(s) == 1 .. IF segs[s].set /\ segs[s].as # <<>> THEN 1 ELSE Len(segs[s].as)
    IN  /\ decoded[i].origin # NoAS =>
             segs # <<>> /\ ~ends.set
        /\ segs # <<>> /\ ~ends.set /\ ends.as # <<>> =>
             decoded[i].origin = ends.as[Len(ends.as)]
        /\ Len(decoded[i].path) = Cardinality(UNION {{s} \X Hops(s) : s \in DOMAIN segs})
        /\ decoded[i].hasASSet <=> \E s \in DOMAIN segs : segs[s].set

(***************************************************************************)
(* What is replayed is what the dump says: each prefix of each UPDATE in   *)
(* order, a replaced route ends announced, a hidden origin stays hidden;   *)
(* and rounds repeat the same updates while their numbers go on (parser.go:*)
(* recordToEvents, extractASPath, originAS; replay.go: Events "assigns     *)
(* monotonic IDs").                                                        *)
(***************************************************************************)
ReplayIsTheDump ==
  /\ replay \in {"replaying", "ended"} =>
       EachNlriOnce /\ ReplacedIsAnnounced /\ OriginsAreSequenced
  /\ \A u \in emitted :
       /\ u.id = sent
       /\ [u EXCEPT !.id = 0] = decoded[((sent - 1) % Len(decoded)) + 1]

=============================================================================
