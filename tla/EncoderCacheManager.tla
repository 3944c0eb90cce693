------------------------- MODULE EncoderCacheManager -------------------------
(***************************************************************************)
(* The scheduler's book of encoder outputs (encoder_cache_manager.py), as  *)
(* operators on a record:                                                  *)
(*   cached     the items on the book                                      *)
(*   refs       for each item, the requests that reference it              *)
(*   freeable   cached items without a reference, the oldest first         *)
(*   freed      items evicted and not yet reported to the worker           *)
(*   num_free_slots, num_freeable_slots                                    *)
(***************************************************************************)
EXTENDS Integers, Sequences, SequencesExt, FiniteSetsExt

CONSTANTS
  Requests,
  Items,        \* the multimodal items, by hash
  Size,         \* Size[h]: num_encoder_embeds of item h
  cache_size,
  Inputs        \* Inputs[r]: the request's mm_features, by position

NewManager ==
  [cached |-> {}, refs |-> [h \in Items |-> {}], freeable |-> <<>>, freed |-> {},
   num_free_slots |-> cache_size, num_freeable_slots |-> cache_size]

\* A hit takes no reference.
HitUnreferenced(m, r, h) == m
\* check_and_update_cache for an item on the book.
Hit(m, r, h) ==
  [m EXCEPT
     !.refs[h] = @ \cup {r},
     !.freeable = SelectSeq(@, LAMBDA x : x # h),
     !.num_freeable_slots = IF m.refs[h] = {} THEN @ - Size[h] ELSE @]

TotalSize(S) == MapThenSumSet(LAMBDA h : Size[h], S)

\* The shortest run of the oldest freeable items that makes room for n.
Victims(m, n) ==
  LET k == CHOOSE k \in 0..Len(m.freeable) :
             /\ m.num_free_slots + TotalSize(ToSet(SubSeq(m.freeable, 1, k))) >= n
             /\ \A j \in 0..k - 1 : m.num_free_slots + TotalSize(ToSet(SubSeq(m.freeable, 1, j))) < n
  IN  SubSeq(m.freeable, 1, k)

\* An eviction the worker is not told of.
EvictMutant(m, gone) ==
  [m EXCEPT
     !.cached = @ \ ToSet(gone),
     !.freeable = SubSeq(@, Len(gone) + 1, Len(@)),
     !.num_free_slots = @ + TotalSize(ToSet(gone))]
Evict(m, gone) ==
  [m EXCEPT
     !.cached = @ \ ToSet(gone),
     !.freeable = SubSeq(@, Len(gone) + 1, Len(@)),
     !.freed = @ \cup ToSet(gone),
     !.num_free_slots = @ + TotalSize(ToSet(gone))]

\* can_allocate: its answer, and the book after the evictions it made.
can_allocate(m, h, encoder_compute_budget, num_embeds_to_schedule) ==
  LET n == Size[h] + num_embeds_to_schedule
      ok == /\ Size[h] <= encoder_compute_budget
            /\ n <= m.num_free_slots \/ n <= m.num_freeable_slots
  IN  [ok |-> ok,
       book |-> IF ok /\ n > m.num_free_slots THEN Evict(m, Victims(m, n)) ELSE m]

allocate(m, r, h) ==
  [m EXCEPT
     !.cached = @ \cup {h},
     !.refs[h] = @ \cup {r},
     !.num_free_slots = @ - Size[h],
     !.num_freeable_slots = @ - Size[h]]

free_encoder_input(m, r, h) ==
  IF h \notin m.cached \/ m.refs[h] = {} THEN m
  ELSE LET left == m.refs[h] \ {r} IN
       [m EXCEPT
          !.refs[h] = left,
          !.freeable = IF left = {} THEN Append(@, h) ELSE @,
          !.num_freeable_slots = IF left = {} THEN @ + Size[h] ELSE @]

free(m, r) == FoldLeft(LAMBDA b, x : free_encoder_input(b, r, x.hash), m, Inputs[r])

\* The book balances: every slot is free or a cached item's, the freeable items are
\* the cached ones nobody references, and the two counters count them.
BookBalances(m) ==
  /\ m.num_free_slots >= 0
  /\ m.num_free_slots + TotalSize(m.cached) = cache_size
  /\ ToSet(m.freeable) = {h \in m.cached : m.refs[h] = {}}
  /\ IsInjective(m.freeable)
  /\ m.num_freeable_slots = m.num_free_slots + TotalSize(ToSet(m.freeable))
=============================================================================
