------------------------------ MODULE RpkiTrie ------------------------------
(***************************************************************************)
(* The VRP index (rpki/store.go): one binary trie per address family.  A   *)
(* node is named by the bits that lead to it and holds the VRPs of exactly *)
(* that prefix.  A node's ancestors exist, so Validate may stop at the     *)
(* first missing child.  It is built from the entries of a JSON export     *)
(* (rpki/jsonload.go), the first bad one of which fails the load, or from  *)
(* the VRPs of an RTR session (rtr/client.go: commit), which skips them.   *)
(* An IPv6 address that begins with Marker is an IPv4-mapped one; both Add *)
(* and Validate unmap it and use the IPv4 trie, but keep the length of the *)
(* IPv6 prefix.                                                            *)
(***************************************************************************)
EXTENDS Rov, FiniteSets

CONSTANTS
  Width,   (* family -> number of address bits (32 and 128) *)
  Marker,  (* the first bits of a mapped address: ::ffff:   *)
  Origin,  (* the origins VRPs and announcements carry      *)
  MaxVRPs  (* bound on the VRPs handed to one builder       *)

Family == {"v4", "v6"}

ASSUME RpkiTrieAssumption ==
  /\ Width \in [Family -> Nat]
  /\ Marker \in Seq({0, 1}) /\ Len(Marker) + Width["v4"] = Width["v6"]
  /\ Width["v4"] < Len(Marker) /\ Marker[Len(Marker)] = 1
  /\ Origin \subseteq Nat
  /\ MaxVRPs \in Nat

VARIABLES
  caller, (* "json" or "commit"; "failed" once the load has failed   *)
  nodes,  (* the trie nodes allocated, as <<family, bits>>           *)
  vrps,   (* node -> the VRPs stored there                           *)
  seen,   (* the builder's duplicate keys: masked VRPs               *)
  size,
  given   (* auxiliary: the VRPs handed to Add and not refused       *)

trieVars == <<caller, nodes, vrps, seen, size, given>>

\* A prefix without its host bits, as netip.Prefix.Masked returns it.
HostBitsCleared(e) ==
  [e EXCEPT !.bits = [k \in DOMAIN @ |-> IF k <= e.len THEN @[k] ELSE 0]]

AnyPrefix ==
  UNION {[fam : {f}, bits : [1 .. Width[f] -> {0, 1}], len : 0 .. Width[f]] : f \in Family}

\* The generator and nlriPrefix mask what is announced.
Announceable == {HostBitsCleared(p) : p \in AnyPrefix}

\* netip.Addr.Unmap, which leaves the length of the prefix as it is.
Mapped(p) == p.fam = "v6" /\ SubSeq(p.bits, 1, Len(Marker)) = Marker

Unmap(p) ==
  IF Mapped(p)
  THEN [p EXCEPT !.fam = "v4", !.bits = SubSeq(@, Len(Marker) + 1, Width["v6"])]
  ELSE p

Absent == -1 \* no maxLength in a JSON entry

\* What may be handed in: maxLength is a byte and may be out of range.
Entries ==
  UNION {[fam : {f}, bits : [1 .. Width[f] -> {0, 1}], len : 0 .. Width[f],
          maxLen : {Absent} \cup 0 .. Width[f] + 1, origin : Origin] : f \in Family}

NewBuilder == nodes = {} /\ vrps = [n \in {} |-> {}] /\ seen = {} /\ size = 0 /\ given = {}

TrieInit == caller \in {"json", "commit"} /\ NewBuilder

-----------------------------------------------------------------------------

\* The masked VRP, which is also its duplicate key.
Key(v) == [v EXCEPT !.bits = Masked(v)]

\* The nodes from the root to a prefix of the given bits.
PathTo(fam, bits) == {<<fam, SubSeq(bits, 1, d)>> : d \in 0 .. Len(bits)}

\* A mapped prefix is longer than any maxLength it may have.
InRange(v) == v.len <= v.maxLen /\ v.maxLen <= Width[Unmap(v).fam]

Insert(v) ==
  LET k == Key(v)
      at == <<Unmap(v).fam, Masked(Unmap(v))>>
  IN  /\ nodes' = nodes \cup PathTo(at[1], at[2])
      /\ vrps' = [n \in nodes' |->
                    (IF n \in nodes THEN vrps[n] ELSE {}) \cup (IF n = at THEN {k} ELSE {})]
      /\ seen' = seen \cup {k}
      /\ size' = size + 1

\* Builder.Add on an acceptable VRP: an exact duplicate is ignored.
Add(v) ==
  /\ InRange(v) /\ Cardinality(given) < MaxVRPs
  /\ IF Key(v) \in seen
     THEN UNCHANGED <<nodes, vrps, seen, size>>
     ELSE Insert(v)
  /\ given' = given \cup {v}
  /\ UNCHANGED caller

\* Builder.Add's error: nothing is stored.
Refuse(v) == ~InRange(v) /\ UNCHANGED <<nodes, vrps, seen, size, given>>

\* LoadVRPsJSON, one entry: without a maxLength it is as long as its prefix.
\* Both callers clear the host bits first.
LoadEntry(e) ==
  LET v == [HostBitsCleared(e) EXCEPT !.maxLen = IF @ = Absent THEN e.len ELSE @]
  IN  caller = "json" /\ (Add(v) \/ (Refuse(v) /\ caller' = "failed"))

\* A prefix or an ASN that does not parse fails the load as well.
UnparsableEntry ==
  /\ caller = "json" /\ caller' = "failed"
  /\ UNCHANGED <<nodes, vrps, seen, size, given>>

\* commit, one VRP of the session's set.
CommitVRP(e) ==
  /\ caller = "commit" /\ e.maxLen # Absent
  /\ LET v == HostBitsCleared(e) IN Add(v) \/ (Refuse(v) /\ UNCHANGED caller)

TrieEnded == caller = "failed" /\ UNCHANGED trieVars

TrieNext ==
  \/ \E e \in Entries : LoadEntry(e) \/ CommitVRP(e)
  \/ UnparsableEntry \/ TrieEnded

TrieSpec == TrieInit /\ [][TrieNext]_trieVars

-----------------------------------------------------------------------------

\* Mutated Descent: the walk goes on below the announced prefix length.
DescentToLeaf(p) ==
  {n \in nodes : n[1] = Unmap(p).fam /\ n[2] = SubSeq(Unmap(p).bits, 1, Len(n[2]))}

\* The nodes Validate visits: down the announced bits while children exist, to the
\* announced length or, of an unmapped address, to its last bit.
Descent(p) ==
  LET u == Unmap(p)
      walked == SubSeq(u.bits, 1, IF u.len <= Width[u.fam] THEN u.len ELSE Width[u.fam])
  IN  {n \in PathTo(u.fam, walked) :
         \A d \in 0 .. Len(n[2]) : <<u.fam, SubSeq(n[2], 1, d)>> \in nodes}

\* The walk stands at the node of a whole address and has not gone as far as the
\* prefix length: bitAt's index is out of range.
Overruns(p) ==
  LET u == Unmap(p) IN u.len > Width[u.fam] /\ <<u.fam, u.bits>> \in Descent(p)

\* VRPStore.Validate.
Validate(p, origin) ==
  IF Overruns(p) THEN "panic" ELSE Verdict(UNION {vrps[n] : n \in Descent(p)}, p, origin)

-----------------------------------------------------------------------------

\* Each VRP is stored once, in one node, and size counts them.
EachOnce ==
  /\ DOMAIN vrps = nodes
  /\ \A n \in nodes : n[1] \in Family /\ Len(n[2]) <= Width[n[1]] /\ vrps[n] \subseteq seen
  /\ \A m, n \in nodes : vrps[m] \cap vrps[n] # {} => m = n
  /\ seen = {Key(v) : v \in given}
  /\ size = Cardinality(seen)

(***************************************************************************)
(* The trie answers what RFC 6811 says of the VRPs it was given, for every *)
(* announcement that is not IPv4-mapped: the descent misses no covering    *)
(* VRP and finds none that does not cover, whatever was inserted and in    *)
(* whichever order, host bits, mapped and out-of-range entries included;   *)
(* duplicates are stored and counted once (store.go: Validate, Add, Size;  *)
(* jsonload.go: LoadVRPsJSON).                                             *)
(***************************************************************************)
AnswersRfc6811 ==
  \A p \in Announceable, o \in Origin \cup {NoAS} :
    ~Mapped(p) => Validate(p, o) = RovStatus(given, p, o)

(***************************************************************************)
(* An IPv4-mapped announcement is answered from the IPv4 VRPs on the way   *)
(* to its IPv4 address, which do not cover it: "invalid" if there are any, *)
(* a panic if one is for that address alone, "notfound" otherwise.  It is  *)
(* never "valid", whoever announces it, and no mapped VRP is ever stored   *)
(* (store.go:54, :108: Unmap).                                             *)
(***************************************************************************)
MappedAnswers ==
  /\ \A v \in given : ~Mapped(v)
  /\ \A p \in Announceable, o \in Origin \cup {NoAS} :
       Mapped(p) =>
         LET above == {v \in given : Covers(v, Unmap(p))}
         IN  Validate(p, o) = IF \E v \in above : v.len = Width["v4"] THEN "panic"
                              ELSE IF above # {} THEN "invalid" ELSE "notfound"

(***************************************************************************)
(* What Validate answers is RFC 6811's answer, mapped announcements apart, *)
(* of which it is said what they get instead; and the index holds what it  *)
(* was given, each VRP once.                                               *)
(***************************************************************************)
ValidateAnswers == EachOnce /\ (given # {} => AnswersRfc6811 /\ MappedAnswers)

=============================================================================
