----------------------------- MODULE InputBatch -----------------------------
(***************************************************************************)
(* The persistent batch of the worker and its block table                  *)
(* (vllm/v1/worker/gpu_input_batch.py, block_table.py), as functions of    *)
(* the batch:                                                              *)
(*   ids    _req_ids: the request of every row, NoReq in a removed row     *)
(*   table  the block table: MaxRows rows of BlocksPerRow block ids        *)
(*   nblk   num_blocks_per_row                                             *)
(* A row's entries past nblk are whatever earlier occupants left there.    *)
(***************************************************************************)
EXTENDS Integers, Sequences, SequencesExt, FiniteSetsExt

CONSTANTS MaxRows, BlocksPerRow, NoReq

EmptyBatch ==
  [ids   |-> <<>>,
   table |-> [i \in 1 .. MaxRows |-> [c \in 0 .. BlocksPerRow - 1 |-> 0]],
   nblk  |-> [i \in 1 .. MaxRows |-> 0]]

InBatch(batch, r) == r \in ToSet(batch.ids)
RowOf(batch, r) == CHOOSE i \in 1 .. Len(batch.ids) : batch.ids[i] = r

(* Block table: append_row, add_row, move_row. *)
Overwrite(row, from, new) ==
  [c \in DOMAIN row |->
     IF from <= c /\ c < from + Len(new) THEN new[c - from + 1] ELSE row[c]]
AppendRow(batch, i, new) ==
  [batch EXCEPT !.table[i] = Overwrite(@, batch.nblk[i], new),
                !.nblk[i] = @ + Len(new)]
(* Mutant of PutRow: the previous occupant's blocks are not cleared first. *)
PutRowMutant(batch, i, new) == AppendRow(batch, i, new)
PutRow(batch, i, new) == AppendRow([batch EXCEPT !.nblk[i] = 0], i, new)
MoveRow(batch, src, tgt) ==
  PutRow(batch, tgt, [k \in 1 .. batch.nblk[src] |-> batch.table[src][k - 1]])

RemoveRequests(batch, gone) ==
  [batch EXCEPT !.ids = [i \in DOMAIN @ |-> IF @[i] \in gone THEN NoReq ELSE @[i]]]

(* add_request: the smallest removed row, else a new one at the end. *)
AddToBatch(batch, r, blocks) ==
  LET empty == {i \in DOMAIN batch.ids : batch.ids[i] = NoReq}
      i == IF empty = {} THEN Len(batch.ids) + 1 ELSE Min(empty)
  IN  PutRow([batch EXCEPT !.ids = IF empty = {} THEN Append(@, r)
                                   ELSE [@ EXCEPT ![i] = r]], i, blocks)

(* condense: as long as a removed row lies below an occupied one, the last   *)
(* occupied row moves into the first removed one.                            *)
Condense(batch) ==
  LET occupied == {i \in DOMAIN batch.ids : batch.ids[i] # NoReq}
      n == Cardinality(occupied)
      holes == SetToSortSeq((1 .. n) \ occupied, <)
      last == SetToSortSeq({i \in occupied : i > n}, >)
      Slide(b, k) ==
        MoveRow([b EXCEPT !.ids[holes[k]] = b.ids[last[k]]], last[k], holes[k])
      moved == FoldLeft(Slide, batch, [k \in 1 .. Len(holes) |-> k])
  IN  [moved EXCEPT !.ids = SubSeq(@, 1, n)]
=============================================================================
