--------------------------- MODULE FreeBlockOrder ---------------------------
(***************************************************************************)
(* What the free list promises the block pool: a queue of distinct blocks  *)
(* that hands out the longest-free block first, lets a block that is hit   *)
(* again leave from the middle, and takes blocks back at its end in the    *)
(* order given.  KVCacheManager uses the free list as such a queue.        *)
(***************************************************************************)
EXTENDS Naturals, Sequences, FiniteSets, Functions

CONSTANT Blocks

VARIABLES
  queue,
  popped    \* the blocks of the last allocation, in order

\* The lists of the blocks of S, each once.
Orders(S) == Bijection(1..Cardinality(S), S)

Init == queue \in Orders(Blocks) /\ popped = <<>>

Take(n) ==
  /\ popped' = SubSeq(queue, 1, n)
  /\ queue' = SubSeq(queue, n + 1, Len(queue))

Leave(i) ==
  /\ queue' = SubSeq(queue, 1, i - 1) \o SubSeq(queue, i + 1, Len(queue))
  /\ UNCHANGED popped

Append_n(bs) ==
  /\ IsInjective(queue \o bs)
  /\ queue' = queue \o bs
  /\ UNCHANGED popped

Next ==
  \/ \E n \in 1..Len(queue) : Take(n)
  \/ \E i \in 1..Len(queue) : Leave(i)
  \/ \E S \in SUBSET Blocks : \E bs \in Orders(S) : Append_n(bs)

Spec == Init /\ [][Next]_<<queue, popped>>
=============================================================================
