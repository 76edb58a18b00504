----------------------------- MODULE MCClassify -----------------------------
(***************************************************************************)
(* The walk over two families of paths and what the classifier makes of    *)
(* it: every path of up to MaxLen ASes over three ASes (prepending and     *)
(* revisits included) with every store; and the straight path through all  *)
(* of ASN with every choice of its adjacencies.  Or the VRP index, built   *)
(* from up to MaxVRPs VRPs.  A behaviour is one of the two.                *)
(***************************************************************************)
EXTENDS Blame, RpkiTrie

CONSTANTS MaxLen, Small

SmallPaths == UNION {[1 .. n -> Small] : n \in 0 .. MaxLen}

SmallPairs == {p \in Pair : p[1] \in Small /\ p[2] \in Small}

ChainPairs == {p \in Pair : p[2] = p[1] + 1}

Known == RelStatus \ {"unknown"}

AllInputs ==
  [path : SmallPaths, edges : UNION {[P -> Known] : P \in SUBSET SmallPairs},
   hasASSet : BOOLEAN]
  \cup
  [path : {[k \in ASN |-> k]}, edges : UNION {[P -> Known] : P \in SUBSET ChainPairs},
   hasASSet : {FALSE}]

-----------------------------------------------------------------------------
(* The combined verdict, against a handful of VRP sets                     *)

Block == [fam |-> "v4", bits |-> <<1>>, len |-> 1]

Vrp(len, maxLen, origin) ==
  [fam |-> "v4", bits |-> <<1>>, len |-> len, maxLen |-> maxLen, origin |-> origin]

\* None; authorising 1 only; 1 up to a shorter length; one VRP each for 2 and 3.
AllVrpSets == {{}, {Vrp(1, 1, 1)}, {Vrp(0, 0, 1)}, {Vrp(0, 1, 2), Vrp(1, 1, 3)}}

-----------------------------------------------------------------------------

Widths == [f \in Family |-> IF f = "v4" THEN 1 ELSE 3]

\* The addresses 010 and 011 are the mapped ones.
MappedMarker == <<0, 1>>

\* A behaviour of one family leaves the other's variables where they started.
NoTrie == caller = "none" /\ NewBuilder

NoWalk == in = [path |-> <<>>, edges |-> [p \in {} |-> "peer"], hasASSet |-> FALSE]

VerdictInit == Init /\ (NoTrie \/ (NoWalk /\ TrieInit))

VerdictNext ==
  \/ caller = "none" /\ Next /\ UNCHANGED trieVars
  \/ TrieNext /\ UNCHANGED vars

VerdictSpec == VerdictInit /\ [][VerdictNext]_<<vars, trieVars>>
=============================================================================
