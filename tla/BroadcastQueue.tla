--------------------------- MODULE BroadcastQueue ---------------------------
(***************************************************************************)
(* What a broadcast queue of bounded length promises: one writer, several  *)
(* readers, messages numbered in the order they were written, and every    *)
(* reader gets every message once and in that order.                       *)
(***************************************************************************)
EXTENDS Naturals

CONSTANTS Readers, Capacity

VARIABLES sent, got   \* messages written; per reader, the last one it got

Init == sent = 0 /\ got = [r \in Readers |-> 0]

Write ==
  /\ \A r \in Readers : sent - got[r] < Capacity
  /\ sent' = sent + 1
  /\ UNCHANGED got

Read(r) ==
  /\ got[r] < sent
  /\ got' = [got EXCEPT ![r] = @ + 1]
  /\ UNCHANGED sent

Next == Write \/ \E r \in Readers : Read(r)

Spec == Init /\ [][Next]_<<sent, got>>
=============================================================================
