---------------------------- MODULE OriginTable ----------------------------
(***************************************************************************)
(* What the aggregator promises about prefixes: each AS owns a set of      *)
(* them, no prefix has two owners, an announcement moves a prefix to its   *)
(* origin and a withdraw takes it from whoever has it.  Nothing is said    *)
(* about how the previous owner is found.                                  *)
(***************************************************************************)
CONSTANTS ASN, Prefix

VARIABLE owns \* AS -> the prefixes it currently originates

Init == owns = [a \in ASN |-> {}]

Originate(p, origin) ==
  owns' = [a \in ASN |-> IF a = origin THEN owns[a] \cup {p} ELSE owns[a] \ {p}]

Release(p) == owns' = [a \in ASN |-> owns[a] \ {p}]

Next == \E p \in Prefix : Release(p) \/ \E a \in ASN : Originate(p, a)

Spec == Init /\ [][Next]_owns

=============================================================================
