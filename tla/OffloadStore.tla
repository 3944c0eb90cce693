----------------------------- MODULE OffloadStore -----------------------------
(***************************************************************************)
(* What a KV offloading manager promises (kv_offload/abstract.py): a block *)
(* is absent, being stored, or ready; a transfer that reads or writes a    *)
(* block keeps it, and only ready blocks nobody reads are ever evicted.    *)
(***************************************************************************)
EXTENDS Integers, FiniteSets

CONSTANTS Hashes, Capacity
VARIABLES status, readers

Evictable == {h \in Hashes : status[h] = "ready" /\ readers[h] = 0}
Held(s) == {h \in Hashes : s[h] # "absent"}

Init ==
  /\ status = [h \in Hashes |-> "absent"]
  /\ readers = [h \in Hashes |-> 0]

PrepareLoad ==
  \E H \in SUBSET {h \in Hashes : status[h] = "ready"} :
    readers' = [h \in Hashes |-> IF h \in H THEN readers[h] + 1 ELSE readers[h]]
  /\ UNCHANGED status

CompleteLoad ==
  \E H \in SUBSET {h \in Hashes : readers[h] > 0} :
    readers' = [h \in Hashes |-> IF h \in H THEN readers[h] - 1 ELSE readers[h]]
  /\ UNCHANGED status

\* Evicts blocks and reserves others, or evicts only.
PrepareStore ==
  \E E \in SUBSET Evictable, N \in SUBSET {h \in Hashes : status[h] = "absent"} :
    /\ status' = [h \in Hashes |-> IF h \in N THEN "storing" ELSE IF h \in E THEN "absent" ELSE status[h]]
    /\ Cardinality(Held(status')) <= Capacity
    /\ UNCHANGED readers

CompleteStore ==
  \E H \in SUBSET {h \in Hashes : status[h] = "storing"}, outcome \in {"ready", "absent"} :
    status' = [h \in Hashes |-> IF h \in H THEN outcome ELSE status[h]]
  /\ UNCHANGED readers

Next == PrepareLoad \/ CompleteLoad \/ PrepareStore \/ CompleteStore
Step == Next \/ UNCHANGED <<status, readers>>   \* what an implementation's step may do

Spec == Init /\ [][Next]_<<status, readers>>
=============================================================================
