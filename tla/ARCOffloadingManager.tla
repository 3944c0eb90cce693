------------------------ MODULE ARCOffloadingManager ------------------------
(***************************************************************************)
(* The ARC offloading manager (kv_offload/arc_manager.py) over the CPU     *)
(* backend, called by the same clients as the LRU one.                     *)
(*                                                                         *)
(* target_t1_size is kept in twelfths: the quotients of ghost list sizes   *)
(* that touch adds to it are exact while the lists have at most four.      *)
(***************************************************************************)
EXTENDS CPUBackend

CONSTANTS
  Hashes, Clients,
  Chain,          \* Chain[c]: the client's block hashes, in order
  TouchesUnready, \* clients touch blocks whose store is under way
  MaxFailures     \* bound: stores that fail

VARIABLES
  t1, t2,         \* cached blocks, seen once and seen again, the oldest first
  b1, b2,         \* hashes evicted from t1 and from t2, the oldest first
  target_t1_size,
  ref_cnt,        \* -1: not ready
  block_id, backend,
  announced,      \* the blocks a reader of the events takes to be stored
  loading, storing,
  raised,         \* a KeyError left the manager
  failures

lists == <<t1, t2, b1, b2, target_t1_size>>
vars == <<lists, ref_cnt, block_id, backend, announced, loading, storing, raised, failures>>

Twelfths == 12

Init ==
  /\ t1 = <<>> /\ t2 = <<>> /\ b1 = <<>> /\ b2 = <<>> /\ target_t1_size = 0
  /\ ref_cnt = [h \in Hashes |-> -1] /\ block_id = [h \in Hashes |-> -1]
  /\ backend = NewBackend /\ announced = {}
  /\ loading = [c \in Clients |-> {}] /\ storing = [c \in Clients |-> {}]
  /\ raised = FALSE /\ failures = 0

Cached == ToSet(t1) \cup ToSet(t2)
Ready(h) == h \in Cached /\ ref_cnt[h] >= 0

Without(q, H) == SelectSeq(q, LAMBDA g : g \notin H)
MoveToEnd(q, h) == Append(Without(q, {h}), h)

\* The step a hit on a ghost list of length `of` moves the target by.
Delta(other, of) == Max({Twelfths, (Twelfths * other) \div of})

(***************************************************************************)
(* touch: a fold over the hashes, the last first.  A block in t1 is popped *)
(* before it is looked at; when it is not ready, move_to_end of a key that *)
(* is gone raises.                                                         *)
(***************************************************************************)
Touch(l, h) ==
  CASE l.raised -> l
    [] ~l.raised /\ h \in ToSet(l.t1) ->
         IF ref_cnt[h] >= 0
         THEN [l EXCEPT !.t1 = Without(@, {h}), !.t2 = Append(@, h)]
         ELSE [l EXCEPT !.t1 = Without(@, {h}), !.raised = TRUE]
    [] ~l.raised /\ h \in ToSet(l.t2) -> [l EXCEPT !.t2 = MoveToEnd(@, h)]
    [] ~l.raised /\ h \in ToSet(l.b1) ->
         [l EXCEPT !.b1 = MoveToEnd(@, h),
                   !.target = Min({@ + Delta(Len(l.b2), Len(l.b1)), Twelfths * num_blocks})]
    [] ~l.raised /\ h \in ToSet(l.b2) ->
         [l EXCEPT !.b2 = MoveToEnd(@, h),
                   !.target = Max({@ - Delta(Len(l.b1), Len(l.b2)), 0})]
    [] OTHER -> l

touch(c) ==
  /\ ~raised
  /\ TouchesUnready \/ \A h \in ToSet(Chain[c]) : h \in ToSet(t1) => Ready(h)
  /\ LET l == FoldLeft(Touch, [t1 |-> t1, t2 |-> t2, b1 |-> b1, b2 |-> b2,
                               target |-> target_t1_size, raised |-> FALSE], Reverse(Chain[c]))
     IN  /\ t1' = l.t1 /\ t2' = l.t2 /\ b1' = l.b1 /\ b2' = l.b2
         /\ target_t1_size' = l.target /\ raised' = l.raised
  /\ UNCHANGED <<ref_cnt, block_id, backend, announced, loading, storing, failures>>

\* The length of the run of ready blocks at the head of a sequence of hashes.
lookup(hs) == CHOOSE n \in 0..Len(hs) :
  (\A i \in 1..n : Ready(hs[i])) /\ (n < Len(hs) => ~Ready(hs[n + 1]))

prepare_load(c, i) ==
  LET rest == SubSeq(Chain[c], i, Len(Chain[c]))
      hit == ToSet(SubSeq(rest, 1, lookup(rest)))
  IN  /\ ~raised /\ loading[c] = {} /\ hit # {}
      /\ ref_cnt' = [h \in Hashes |-> IF h \in hit THEN ref_cnt[h] + 1 ELSE ref_cnt[h]]
      /\ loading' = [loading EXCEPT ![c] = hit]
      /\ UNCHANGED <<lists, block_id, backend, announced, storing, raised, failures>>

complete_load(c) ==
  /\ ~raised /\ loading[c] # {}
  /\ ref_cnt' = [h \in Hashes |-> IF h \in loading[c] THEN ref_cnt[h] - 1 ELSE ref_cnt[h]]
  /\ loading' = [loading EXCEPT ![c] = {}]
  /\ UNCHANGED <<lists, block_id, backend, announced, storing, raised, failures>>

(***************************************************************************)
(* prepare_store.  Blocks are evicted one at a time, each from t1 or from  *)
(* t2; when none is left to evict the call gives up and keeps what it has  *)
(* evicted so far, without an event.                                       *)
(***************************************************************************)
Unused(q) == SelectSeq(q, LAMBDA h : ref_cnt[h] = 0)

EvictOne(l, n) ==
  LET recent == IF Len(l.t1) >= l.target \div Twelfths THEN Unused(l.t1) ELSE <<>>
      frequent == Unused(l.t2)
  IN  IF l.ok /\ recent # <<>>
      THEN [l EXCEPT !.t1 = Without(@, {recent[1]}), !.b1 = MoveToEnd(@, recent[1]), !.gone = Append(@, recent[1])]
      ELSE IF l.ok /\ frequent # <<>>
      THEN [l EXCEPT !.t2 = Without(@, {frequent[1]}), !.b2 = MoveToEnd(@, frequent[1]), !.gone = Append(@, frequent[1])]
      ELSE [l EXCEPT !.ok = FALSE]

\* A ghost list cut to the capacity.
Newest(q) == SubSeq(q, Max({1, Len(q) - num_blocks + 1}), Len(q))

prepare_store(c, i, j) ==
  LET new == SelectSeq(SubSeq(Chain[c], i, j), LAMBDA h : h \notin Cached)
      short == Max({0, Len(new) - get_num_free_blocks(backend)})
      l == FoldLeft(EvictOne, [t1 |-> t1, t2 |-> t2, b1 |-> b1, b2 |-> b2, target |-> target_t1_size,
                               gone |-> <<>>, ok |-> TRUE], [k \in 1..short |-> k])
      freed == free_all(backend, [k \in 1..Len(l.gone) |-> block_id[l.gone[k]]])
      got == allocate_blocks(freed, Len(new))
      place == [h \in ToSet(new) |-> got.ids[CHOOSE k \in 1..Len(new) : new[k] = h]]
  IN  /\ ~raised /\ storing[c] = {} /\ new # <<>>
      /\ t2' = l.t2
      /\ IF l.ok
         THEN /\ t1' = l.t1 \o new
              /\ b1' = Without(Newest(l.b1), ToSet(new)) /\ b2' = Without(Newest(l.b2), ToSet(new))
              /\ ref_cnt' = [h \in Hashes |-> IF h \in ToSet(l.gone) \cup ToSet(new) THEN -1 ELSE ref_cnt[h]]
              /\ block_id' = [h \in Hashes |-> IF h \in ToSet(new) THEN place[h]
                                               ELSE IF h \in ToSet(l.gone) THEN -1 ELSE block_id[h]]
              /\ backend' = got.backend /\ announced' = announced \ ToSet(l.gone)
              /\ storing' = [storing EXCEPT ![c] = ToSet(new)]
         ELSE /\ l.gone # <<>>
              /\ t1' = l.t1 /\ b1' = l.b1 /\ b2' = l.b2
              /\ ref_cnt' = [h \in Hashes |-> IF h \in ToSet(l.gone) THEN -1 ELSE ref_cnt[h]]
              /\ block_id' = [h \in Hashes |-> IF h \in ToSet(l.gone) THEN -1 ELSE block_id[h]]
              /\ backend' = freed
              /\ UNCHANGED <<announced, storing>>
      /\ UNCHANGED <<target_t1_size, loading, raised, failures>>

complete_store(c, success) ==
  /\ ~raised /\ storing[c] # {}
  /\ failures < MaxFailures \/ success
  /\ failures' = IF success THEN failures ELSE failures + 1
  /\ LET done == {h \in storing[c] \cap Cached : ref_cnt[h] = -1} IN
     IF success
     THEN /\ ref_cnt' = [h \in Hashes |-> IF h \in done THEN 0 ELSE ref_cnt[h]]
          /\ announced' = announced \cup done
          /\ UNCHANGED <<t1, t2, block_id, backend>>
     ELSE \E order \in SetToSeqs(done) :
          /\ t1' = Without(t1, storing[c]) /\ t2' = Without(t2, storing[c])
          /\ backend' = free_all(backend, [k \in 1..Len(order) |-> block_id[order[k]]])
          /\ block_id' = [h \in Hashes |-> IF h \in done THEN -1 ELSE block_id[h]]
          /\ UNCHANGED <<ref_cnt, announced>>
  /\ storing' = [storing EXCEPT ![c] = {}]
  /\ UNCHANGED <<b1, b2, target_t1_size, loading, raised>>

Next ==
  \E c \in Clients :
    \/ touch(c) \/ complete_load(c)
    \/ \E i \in 1..Len(Chain[c]) : prepare_load(c, i)
    \/ \E i, j \in 1..Len(Chain[c]) : prepare_store(c, i, j)
    \/ \E success \in BOOLEAN : complete_store(c, success)

Spec == Init /\ [][Next]_vars

TypeOK ==
  /\ Cached \cup ToSet(b1) \cup ToSet(b2) \subseteq Hashes
  /\ ref_cnt \in [Hashes -> -1..Cardinality(Clients)]
  /\ block_id \in [Hashes -> -1..num_blocks - 1]
  /\ target_t1_size \in 0..Twelfths * num_blocks
  /\ Len(b1) <= 4 /\ Len(b2) <= 4

\* Every CPU block handed out belongs to exactly one cached block or is on the free
\* list once, also after a prepare_store that gave up half way.
SlotsSound ==
  LET free == backend.allocated_blocks_free_list
      used == {block_id[h] : h \in Cached}
  IN  /\ IsInjective(free) /\ Cardinality(used) = Cardinality(Cached)
      /\ used \cap ToSet(free) = {}
      /\ used \cup ToSet(free) = 0..backend.num_allocated_blocks - 1

\* A hash is in at most one of the four lists, once.
ListsDisjoint == IsInjective(t1 \o t2 \o b1 \o b2)

\* After a store was prepared the ghost lists hold at most as many hashes as the cache
\* has blocks.
GhostsBounded == [][storing' # storing /\ (\E c \in Clients : storing[c] = {} /\ storing'[c] # {})
                    => Len(b1') <= num_blocks /\ Len(b2') <= num_blocks]_vars

\* The manager keeps the contract of OffloadStore.
Store == INSTANCE OffloadStore WITH
  Capacity <- num_blocks,
  status <- [h \in Hashes |-> IF h \notin Cached THEN "absent" ELSE IF Ready(h) THEN "ready" ELSE "storing"],
  readers <- [h \in Hashes |-> IF Ready(h) THEN ref_cnt[h] ELSE 0]
KeepsContract == Store!Spec

\* The events tell the truth: their reader takes for stored exactly the ready blocks.
EventsTrue == announced = {h \in Cached : Ready(h)}

\* touch does not count a block that was just prepared to be stored as seen again: it
\* returns, and the block stays cached until its store is complete.
TouchKeepsStored == ~raised /\ \A c \in Clients : storing[c] \subseteq Cached
=============================================================================
