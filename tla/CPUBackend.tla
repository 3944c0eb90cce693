------------------------------ MODULE CPUBackend ------------------------------
(***************************************************************************)
(* The CPU blocks behind an offloading manager (kv_offload/backends/       *)
(* cpu.py), as operators on a record of                                    *)
(*   num_allocated_blocks         ids handed out at least once             *)
(*   allocated_blocks_free_list   ids given back, reused last in first out *)
(***************************************************************************)
EXTENDS Integers, Sequences, SequencesExt, FiniteSetsExt

CONSTANT num_blocks

NewBackend == [num_allocated_blocks |-> 0, allocated_blocks_free_list |-> <<>>]

get_num_free_blocks(b) == Len(b.allocated_blocks_free_list) + num_blocks - b.num_allocated_blocks

FreshIds(b, n) == [i \in 1..n |-> b.num_allocated_blocks + i - 1]

\* Fresh ids first, then the ones freed last.
allocate_blocks(b, n) ==
  LET fresh == Min({n, num_blocks - b.num_allocated_blocks})
      kept == Len(b.allocated_blocks_free_list) - (n - fresh)
  IN  [ids |-> FreshIds(b, fresh)
               \o Reverse(SubSeq(b.allocated_blocks_free_list, kept + 1, Len(b.allocated_blocks_free_list))),
       backend |-> [num_allocated_blocks |-> b.num_allocated_blocks + fresh,
                    allocated_blocks_free_list |-> SubSeq(b.allocated_blocks_free_list, 1, kept)]]

\* A block that is not given back.
free_allMutant(b, ids) == b
\* free, for each of a sequence of blocks.
free_all(b, ids) == [b EXCEPT !.allocated_blocks_free_list = @ \o ids]
=============================================================================
