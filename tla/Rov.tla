-------------------------------- MODULE Rov --------------------------------
(***************************************************************************)
(* Route origin validation over a plain set of VRPs: what RFC 6811 asks,   *)
(* without an index.  A prefix is [fam, bits, len], where bits holds the   *)
(* whole address of the family's width; only the first len of them count.  *)
(* A VRP adds maxLen and origin.                                           *)
(***************************************************************************)
EXTENDS Integers, Sequences, Bgp

\* The bits of a prefix that are not masked away.
Masked(p) == SubSeq(p.bits, 1, p.len)

Covers(vrp, p) ==
  /\ vrp.fam = p.fam
  /\ vrp.len <= p.len
  /\ Masked(vrp) = SubSeq(p.bits, 1, vrp.len)

\* A covering VRP authorises the origin up to its maxLength; AS 0 authorises nobody.
Matches(vrp, p, origin) ==
  p.len <= vrp.maxLen /\ origin # NoAS /\ vrp.origin = origin

Verdict(covering, p, origin) ==
  IF \E v \in covering : Matches(v, p, origin) THEN "valid"
  ELSE IF covering # {} THEN "invalid" ELSE "notfound"

RovStatus(vrps, p, origin) == Verdict({v \in vrps : Covers(v, p)}, p, origin)

=============================================================================
