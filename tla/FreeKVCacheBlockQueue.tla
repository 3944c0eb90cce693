------------------------ MODULE FreeKVCacheBlockQueue ------------------------
(***************************************************************************)
(* The free list of the block pool as kv_cache_utils.py builds it: a       *)
(* doubly linked list threaded through the blocks between a fake head and  *)
(* a fake tail, with a count kept beside it, and the four operations of    *)
(* BlockPool that change it.  A loop's iteration is a step.                *)
(***************************************************************************)
EXTENDS Integers, Sequences, Functions

CONSTANTS
  NumBlocks,
  MaxRef       \* bound: references to a block, and frees of the null block

ASSUME PoolAssumption == NumBlocks \in Nat \ {0} /\ MaxRef \in Nat

Blocks == 0..NumBlocks - 1
FakeHead == -1
FakeTail == NumBlocks
None == -2
Nodes == FakeHead..FakeTail

VARIABLES
  next, prev,        \* next_free_block, prev_free_block
  num_free_blocks,
  ref_cnt,
  null_block,
  pc,                \* "init", "idle", or the loop in progress
  curr,              \* popleft_n's curr_block, append_n's last_block
  ret,               \* the blocks popped by the allocation
  todo,              \* the blocks the loop has still to handle
  count              \* popleft_n: iterations left; append_n: blocks linked

vars == <<next, prev, num_free_blocks, ref_cnt, null_block, pc, curr, ret, todo, count>>

\* __init__ links the blocks in the order of their ids.
Init ==
  /\ next = [x \in Nodes |-> IF x = FakeTail THEN None ELSE x + 1]
  /\ prev = [x \in Nodes |-> IF x = FakeHead THEN None ELSE x - 1]
  /\ num_free_blocks = NumBlocks
  /\ ref_cnt = [b \in Blocks |-> 0]
  /\ null_block = None
  /\ pc = "init"
  /\ curr = None /\ ret = <<>> /\ todo = <<>> /\ count = 0

\* The next block keeps its link to the block that left.
UnlinkMutant(b) ==
  /\ next' = [next EXCEPT ![prev[b]] = next[b], ![b] = None]
  /\ prev' = [prev EXCEPT ![b] = None]
Unlink(b) ==
  /\ next' = [next EXCEPT ![prev[b]] = next[b], ![b] = None]
  /\ prev' = [prev EXCEPT ![next[b]] = prev[b], ![b] = None]

\* The pool's constructor takes the null block.
popleft ==
  /\ pc = "init" /\ pc' = "idle"
  /\ Unlink(next[FakeHead])
  /\ null_block' = next[FakeHead]
  /\ num_free_blocks' = num_free_blocks - 1
  /\ ret' = <<next[FakeHead]>>
  /\ UNCHANGED <<ref_cnt, curr, todo, count>>

(***************************************************************************)
(* get_new_blocks: popleft_n, then a reference to every block.             *)
(***************************************************************************)
get_new_blocks(n) ==
  /\ pc = "idle" /\ pc' = "pop"
  /\ n > 0 /\ n <= num_free_blocks
  /\ num_free_blocks' = num_free_blocks - n
  /\ curr' = next[FakeHead] /\ ret' = <<>> /\ count' = n
  /\ UNCHANGED <<next, prev, ref_cnt, null_block, todo>>

PopOne ==
  /\ pc = "pop" /\ count > 0
  /\ ret' = Append(ret, curr)
  /\ curr' = next[curr]
  /\ next' = [next EXCEPT ![curr] = None]
  /\ prev' = [prev EXCEPT ![curr] = None]
  /\ count' = count - 1
  /\ UNCHANGED <<num_free_blocks, ref_cnt, null_block, pc, todo>>

PopDone ==
  /\ pc = "pop" /\ count = 0 /\ pc' = "idle"
  /\ next' = [next EXCEPT ![FakeHead] = curr]
  /\ prev' = [prev EXCEPT ![curr] = FakeHead]
  /\ ref_cnt' = [b \in Blocks |-> IF b \in Range(ret) THEN ref_cnt[b] + 1 ELSE ref_cnt[b]]
  /\ curr' = None
  /\ UNCHANGED <<num_free_blocks, null_block, ret, todo, count>>

(***************************************************************************)
(* touch: the blocks of a prefix hit.                                      *)
(***************************************************************************)
touch(blocks) ==
  /\ pc = "idle" /\ pc' = "touch"
  /\ \A i \in DOMAIN blocks : ref_cnt[blocks[i]] < MaxRef
  /\ todo' = blocks
  /\ UNCHANGED <<next, prev, num_free_blocks, ref_cnt, null_block, curr, ret, count>>

TouchOne ==
  /\ pc = "touch" /\ todo # <<>>
  /\ LET b == todo[1] IN
     /\ IF ref_cnt[b] = 0 /\ b # null_block
        THEN Unlink(b) /\ num_free_blocks' = num_free_blocks - 1
        ELSE UNCHANGED <<next, prev, num_free_blocks>>
     /\ ref_cnt' = [ref_cnt EXCEPT ![b] = @ + 1]
  /\ todo' = Tail(todo)
  /\ UNCHANGED <<null_block, pc, curr, ret, count>>

TouchDone ==
  /\ pc = "touch" /\ todo = <<>> /\ pc' = "idle"
  /\ UNCHANGED <<next, prev, num_free_blocks, ref_cnt, null_block, curr, ret, todo, count>>

(***************************************************************************)
(* free_blocks: a reference less each, then append_n of those without one. *)
(***************************************************************************)
ToQueue(b, refs) == refs[b] = 0 /\ b # null_block

free_blocks(blocks) ==
  /\ pc = "idle"
  /\ \A i \in DOMAIN blocks :
       IF blocks[i] = null_block THEN ref_cnt[null_block] > -MaxRef ELSE ref_cnt[blocks[i]] > 0
  /\ ref_cnt' = [b \in Blocks |-> IF b \in Range(blocks) THEN ref_cnt[b] - 1 ELSE ref_cnt[b]]
  /\ IF \E i \in DOMAIN blocks : ToQueue(blocks[i], ref_cnt')
     THEN pc' = "append" /\ curr' = prev[FakeTail] /\ todo' = blocks
     ELSE UNCHANGED <<pc, curr, todo>>
  /\ UNCHANGED <<next, prev, num_free_blocks, null_block, ret, count>>

AppendOne ==
  /\ pc = "append" /\ todo # <<>>
  /\ IF ToQueue(todo[1], ref_cnt)
     THEN /\ prev' = [prev EXCEPT ![todo[1]] = curr]
          /\ next' = [next EXCEPT ![curr] = todo[1]]
          /\ curr' = todo[1]
          /\ count' = count + 1
     ELSE UNCHANGED <<next, prev, curr, count>>
  /\ todo' = Tail(todo)
  /\ UNCHANGED <<num_free_blocks, ref_cnt, null_block, pc, ret>>

\* The fake tail keeps its link to the old last block.
AppendDoneMutant ==
  /\ pc = "append" /\ todo = <<>> /\ pc' = "idle"
  /\ next' = [next EXCEPT ![curr] = FakeTail]
  /\ num_free_blocks' = num_free_blocks + count
  /\ curr' = None /\ count' = 0
  /\ UNCHANGED <<prev, ref_cnt, null_block, ret, todo>>
AppendDone ==
  /\ pc = "append" /\ todo = <<>> /\ pc' = "idle"
  /\ next' = [next EXCEPT ![curr] = FakeTail]
  /\ prev' = [prev EXCEPT ![FakeTail] = curr]
  /\ num_free_blocks' = num_free_blocks + count
  /\ curr' = None /\ count' = 0
  /\ UNCHANGED <<ref_cnt, null_block, ret, todo>>

\* A request's blocks: distinct, in any order.
Lists == {bs \in UNION {[1..n -> Blocks] : n \in 0..NumBlocks} :
            \A i, j \in DOMAIN bs : bs[i] = bs[j] => i = j}

Next ==
  \/ popleft
  \/ \E n \in 1..NumBlocks : get_new_blocks(n)
  \/ \E bs \in Lists : touch(bs) \/ free_blocks(bs)
  \/ PopOne \/ PopDone \/ TouchOne \/ TouchDone \/ AppendOne \/ AppendDone

Spec == Init /\ [][Next]_vars

(***************************************************************************)
(* Properties.                                                             *)
(***************************************************************************)
IsFree(b) == ref_cnt[b] = 0 /\ b # null_block

\* The k-th node of the list that holds s between the fake ends.
Node(s, n, k) == IF k = 0 THEN FakeHead ELSE IF k = n + 1 THEN FakeTail ELSE s[k]

\* The links are those of the list of s, and every other block has none.
Linked(s, n) ==
  /\ \A i, j \in 1..n : s[i] = s[j] => i = j
  /\ \A k \in 0..n : next[Node(s, n, k)] = Node(s, n, k + 1)
  /\ \A k \in 0..n : prev[Node(s, n, k + 1)] = Node(s, n, k)
  /\ \A b \in Blocks : (\A k \in 1..n : s[k] # b) => next[b] = None /\ prev[b] = None

\* Between the pool's operations the links, read in either direction, thread
\* exactly the blocks that nobody references, the null block apart, each once,
\* and num_free_blocks counts them.
FreeListSound ==
  pc = "idle" =>
    /\ num_free_blocks >= 0
    /\ \E s \in [1..num_free_blocks -> Blocks] :
         /\ Linked(s, num_free_blocks)
         /\ \A b \in Blocks : IsFree(b) <=> \E k \in 1..num_free_blocks : s[k] = b

\* None of the errors "indicating a bug in the caller's logic" is raised: a block
\* to pop is a real one, a popped block has no reference, a block to remove or to
\* leave the list has both its links.
NoCallerBug ==
  /\ pc = "pop" /\ count > 0 => curr \in Blocks /\ ref_cnt[curr] = 0 /\ next[curr] # None
  /\ pc = "touch" /\ todo # <<>> /\ IsFree(todo[1]) => prev[todo[1]] # None /\ next[todo[1]] # None
  /\ pc = "append" => curr # None

\* The free list is sound between the operations and meets none of the errors
\* during them.
PoolSound == FreeListSound /\ NoCallerBug

\* get_all_free_blocks, from a node on.
Walk(links, start) ==
  LET walk[k \in 0..NumBlocks] ==
        [b \in Nodes \cup {None} |->
           IF k = 0 \/ b \notin Blocks THEN <<>> ELSE <<b>> \o walk[k - 1][links[b]]]
  IN  walk[NumBlocks][start]

\* What the pool's users take the list for.  The blocks of an operation under way
\* have left when popleft_n starts, and have joined when append_n ends.
Listed ==
  CASE pc = "pop" -> SubSeq(Walk(next, curr), count + 1, Len(Walk(next, curr)))
    [] pc = "append" -> SubSeq(Walk(next, next[FakeHead]), 1, num_free_blocks)
    [] OTHER -> Walk(next, next[FakeHead])
Allocated == IF pc = "pop" THEN ret \o SubSeq(Walk(next, curr), 1, count) ELSE ret

Order == INSTANCE FreeBlockOrder WITH queue <- Listed, popped <- Allocated

\* The linked list is the queue KVCacheManager takes it for.
IsQueue == Order!Spec
=============================================================================
