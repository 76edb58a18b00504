----------------------------- MODULE RecentLog -----------------------------
(***************************************************************************)
(* What the event ring promises its readers: the last Cap events pushed,   *)
(* newest first.  Nothing about slots, indices or wrap-around.             *)
(***************************************************************************)
EXTENDS Integers, Sequences

CONSTANTS Cap, Event

VARIABLE recent

Init == recent = <<>>

\* The new event goes to the front; at the capacity the oldest is forgotten.
Push(ev) ==
  recent' = [i \in 1 .. (IF Len(recent) < Cap THEN Len(recent) + 1 ELSE Cap) |->
               IF i = 1 THEN ev ELSE recent[i - 1]]

Next == \E ev \in Event : Push(ev)

Spec == Init /\ [][Next]_recent

=============================================================================
