----------------------------- MODULE MCBrowser -----------------------------
(***************************************************************************)
(* One page and two connections, under a few updates classified by the     *)
(* real classifier: a plain route, a leak, a path that crosses a link      *)
(* twice, a lone AS, a withdraw.                                           *)
(***************************************************************************)
EXTENDS Browser

C == INSTANCE Classify

\* 2 and 3 provide 1, and are peers.
Store0 == [p \in {<<1, 2>>, <<1, 3>>, <<2, 3>>} |-> IF p = <<2, 3>> THEN "peer" ELSE "provider"]

P == [fam |-> "v4", bits |-> <<1>>, len |-> 1]

VRPs == {[fam |-> "v4", bits |-> <<1>>, len |-> 1, maxLen |-> 1, origin |-> 1]}

Ann(path) ==
  [id |-> 0, at |-> 0, kind |-> "announce", prefix |-> P, path |-> path, hasASSet |-> FALSE,
   origin |-> C!OriginAS(path, FALSE)]

Wdr ==
  [id |-> 0, at |-> 0, kind |-> "withdraw", prefix |-> P, path |-> <<>>, hasASSet |-> FALSE,
   origin |-> NoAS]

Raw == {Ann(<<2, 1>>), Ann(<<3, 1, 2>>), Ann(<<1, 2, 1, 2>>), Ann(<<1>>), Wdr}

Updates == {C!Classify(Store0, VRPs, u) : u \in Raw}

Blocks == {P}

StoreRel == [e \in ASN \X ASN |-> C!Lookup(Store0, e[1], e[2])]
=============================================================================
