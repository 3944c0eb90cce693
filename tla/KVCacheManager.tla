--------------------------- MODULE KVCacheManager ---------------------------
(***************************************************************************)
(* The KV-cache manager with prefix caching: vllm/v1/core/                 *)
(* kv_cache_manager.py, single_type_kv_cache_manager.py (full attention,   *)
(* one group) and block_pool.py, as functions of the manager's state.      *)
(*                                                                         *)
(* The state is a record:                                                  *)
(*   free     the free block queue, next block to hand out first           *)
(*   ref      ref_cnt of every block                                       *)
(*   hash     block_hash of every block, NoHash when it is not cached      *)
(*   cache    the cached blocks in the order they entered the hash map     *)
(*   blocks   req_to_blocks                                                *)
(*   ncached  num_cached_block, 0 for a request that holds no block        *)
(* A block hash stands for the whole prefix up to the end of its block: it *)
(* is the content of the block's last position.                            *)
(***************************************************************************)
EXTENDS Integers, Sequences, SequencesExt, FiniteSetsExt

CONSTANTS
  Requests,
  NumBlocks,      \* blocks besides the null block, which has id 0
  BlockSize,
  MaxModelLen,
  EnableCaching,
  SharedLen       \* length of the prompt prefix all requests have in common

Blocks == 1 .. NumBlocks
NullBlock == 0

(* What is at position p of request r once it has been computed: requests    *)
(* with the same tokens up to p have the same KV there.                      *)
Content(r, p) == IF p < SharedLen THEN <<"shared", p>> ELSE <<r, p>>
NoHash == <<"none", 0>>
BlockHash(r, i) == Content(r, (i + 1) * BlockSize - 1)

CDiv(a, b) == (a + b - 1) \div b
AtMost(a, b) == IF a <= b THEN a ELSE b
AtLeast(a, b) == IF a >= b THEN a ELSE b

EmptyPool ==
  [free    |-> [i \in 1 .. NumBlocks |-> i],
   ref     |-> [b \in Blocks |-> 0],
   hash    |-> [b \in Blocks |-> NoHash],
   cache   |-> <<>>,
   blocks  |-> [r \in Requests |-> <<>>],
   ncached |-> [r \in Requests |-> 0]]

-----------------------------------------------------------------------------
(* Block pool *)

IsCached(pool, h) == \E b \in ToSet(pool.cache) : pool.hash[b] = h
(* get_one_block: the oldest block with this hash. *)
CachedBlock(pool, h) == SelectSeq(pool.cache, LAMBDA b : pool.hash[b] = h)[1]

(* touch: the hit blocks gain an owner and leave the free queue. *)
Touch(pool, hits) ==
  [pool EXCEPT
     !.free = SelectSeq(@, LAMBDA b : b \notin ToSet(hits)),
     !.ref = [b \in Blocks |-> IF b \in ToSet(hits) THEN @[b] + 1 ELSE @[b]]]

(* get_new_blocks: take n blocks from the head, evicting what they cached. *)
TakeNew(pool, r, n) ==
  LET new == SubSeq(pool.free, 1, n)
  IN  [pool EXCEPT
         !.free = SubSeq(@, n + 1, Len(@)),
         !.ref = [b \in Blocks |-> IF b \in ToSet(new) THEN 1 ELSE @[b]],
         !.hash = [b \in Blocks |-> IF b \in ToSet(new) THEN NoHash ELSE @[b]],
         !.cache = SelectSeq(@, LAMBDA b : b \notin ToSet(new)),
         !.blocks[r] = @ \o new]

(* Mutant of Free: every block of the request is queued, shared or not. *)
FreeMutant(pool, r) ==
  LET mine == ToSet(pool.blocks[r])
  IN  [pool EXCEPT
         !.ref = [b \in Blocks |-> IF b \in mine THEN @[b] - 1 ELSE @[b]],
         !.free = @ \o Reverse(pool.blocks[r]),
         !.blocks[r] = <<>>,
         !.ncached[r] = 0]

(* free: the request's blocks lose an owner; those left without one join the *)
(* free queue, the tail of the request first.                                *)
Free(pool, r) ==
  LET mine == ToSet(pool.blocks[r])
      ref == [b \in Blocks |-> IF b \in mine THEN pool.ref[b] - 1 ELSE pool.ref[b]]
  IN  [pool EXCEPT
         !.ref = ref,
         !.free = @ \o SelectSeq(Reverse(pool.blocks[r]), LAMBDA b : ref[b] = 0),
         !.blocks[r] = <<>>,
         !.ncached[r] = 0]

(* reset_prefix_cache: only when no request holds a block. *)
DropHashes(pool) ==
  IF Len(pool.free) # NumBlocks THEN pool
  ELSE [pool EXCEPT !.hash = [b \in Blocks |-> NoHash], !.cache = <<>>]

-----------------------------------------------------------------------------
(* KV-cache manager *)

(* get_computed_blocks: the longest cached prefix that leaves at least one   *)
(* of the request's tokens to compute.                                       *)
ComputedBlocks(pool, r, numTokens) ==
  LET limit == IF EnableCaching THEN (numTokens - 1) \div BlockSize ELSE 0
      n == Max({i \in 0 .. limit :
                  \A j \in 0 .. i - 1 : IsCached(pool, BlockHash(r, j))})
  IN  [i \in 1 .. n |-> CachedBlock(pool, BlockHash(r, i - 1))]

(* cache_blocks: the full blocks of the first n tokens that are not cached. *)
CacheBlocks(pool, r, n) ==
  LET full == n \div BlockSize
      new == SubSeq(pool.blocks[r], pool.ncached[r] + 1, full)
      IndexOf(b) == CHOOSE i \in 1 .. full : pool.blocks[r][i] = b
  IN  IF ~EnableCaching \/ pool.ncached[r] >= full THEN pool
      ELSE [pool EXCEPT
              !.hash = [b \in Blocks |->
                          IF b \in ToSet(new) THEN BlockHash(r, IndexOf(b) - 1) ELSE @[b]],
              !.cache = @ \o new,
              !.ncached[r] = full]

(* The blocks allocate_slots leaves a request with, and what that costs. *)
NeedBlocks(computed, new, lookahead) ==
  CDiv(AtMost(computed + new + lookahead, MaxModelLen), BlockSize)
CanAllocate(pool, r, computed, hits, new, lookahead) ==
  LET held == Len(hits) + Len(pool.blocks[r])
      evictable == Cardinality({b \in ToSet(hits) : pool.ref[b] = 0})
  IN  AtLeast(NeedBlocks(computed, new, lookahead) - held, 0) + evictable
        <= Len(pool.free)

(* Mutant of AllocateSlots: draft tokens are cached too. *)
AllocateSlotsMutant(pool, r, computed, hits, new, lookahead, numTokens) ==
  LET touched == [Touch(pool, hits) EXCEPT
                    !.blocks[r] = @ \o hits,
                    !.ncached[r] = @ + Len(hits)]
      more == AtLeast(NeedBlocks(computed, new, lookahead)
                        - Len(touched.blocks[r]), 0)
  IN  CacheBlocks(TakeNew(touched, r, more), r, computed + new)

(* allocate_slots when it succeeds; computed includes the hits. *)
AllocateSlots(pool, r, computed, hits, new, lookahead, numTokens) ==
  LET touched == [Touch(pool, hits) EXCEPT
                    !.blocks[r] = @ \o hits,
                    !.ncached[r] = @ + Len(hits)]
      more == AtLeast(NeedBlocks(computed, new, lookahead)
                        - Len(touched.blocks[r]), 0)
  IN  CacheBlocks(TakeNew(touched, r, more), r, AtMost(computed + new, numTokens))

-----------------------------------------------------------------------------
(* What the manager's state always satisfies *)

Holders(pool, b) == {r \in Requests : b \in ToSet(pool.blocks[r])}

(* A block is free exactly when nobody holds it, is in the queue once, and   *)
(* its reference count is the number of requests that hold it; no request    *)
(* holds a block twice, and the hash map holds exactly the hashed blocks.    *)
Accounting(pool) ==
  /\ \A b \in Blocks : pool.ref[b] = Cardinality(Holders(pool, b))
  /\ ToSet(pool.free) = {b \in Blocks : pool.ref[b] = 0}
  /\ IsInjective(pool.free)
  /\ \A r \in Requests : IsInjective(pool.blocks[r])
  /\ ToSet(pool.cache) = {b \in Blocks : pool.hash[b] # NoHash}
  /\ IsInjective(pool.cache)

(* Two requests hold the same block only as the same cached prefix block. *)
SharedOnlyCached(pool) ==
  \A r \in Requests : \A i \in 1 .. Len(pool.blocks[r]) :
    Cardinality(Holders(pool, pool.blocks[r][i])) > 1
      => pool.hash[pool.blocks[r][i]] = BlockHash(r, i - 1)
=============================================================================
