------------------------ MODULE LRUOffloadingManager ------------------------
(***************************************************************************)
(* The LRU offloading manager (kv_offload/lru_manager.py) over the CPU     *)
(* backend, called by clients that each own a chain of block hashes and    *)
(* have at most one load and one store under way.                          *)
(***************************************************************************)
EXTENDS CPUBackend

CONSTANTS
  Hashes, Clients,
  Chain,        \* Chain[c]: the client's block hashes, in order
  MaxFailures   \* bound: stores that fail

VARIABLES
  blocks,       \* the OrderedDict's keys, the least recently used first
  ref_cnt,      \* -1: not ready
  block_id,
  backend,
  announced,    \* the blocks a reader of the events takes to be stored
  loading, storing,   \* the clients' transfers
  kept,         \* the last prepare_store still holds every block it was given
  failures

client == <<loading, storing>>
vars == <<blocks, ref_cnt, block_id, backend, announced, client, kept, failures>>

Init ==
  /\ blocks = <<>> /\ ref_cnt = [h \in Hashes |-> -1] /\ block_id = [h \in Hashes |-> -1]
  /\ backend = NewBackend /\ announced = {}
  /\ loading = [c \in Clients |-> {}] /\ storing = [c \in Clients |-> {}]
  /\ kept = TRUE /\ failures = 0

Cached == ToSet(blocks)
Ready(h) == h \in Cached /\ ref_cnt[h] >= 0

MoveToEnd(q, h) == Append(SelectSeq(q, LAMBDA g : g # h), h)

touch(c) ==
  /\ blocks' = FoldLeft(LAMBDA q, h : IF h \in Cached THEN MoveToEnd(q, h) ELSE q,
                        blocks, Reverse(Chain[c]))
  /\ UNCHANGED <<ref_cnt, block_id, backend, announced, client, kept, failures>>

\* The length of the run of ready blocks at the head of a sequence of hashes.
lookup(hs) == CHOOSE n \in 0..Len(hs) :
  (\A i \in 1..n : Ready(hs[i])) /\ (n < Len(hs) => ~Ready(hs[n + 1]))

prepare_load(c, i) ==
  LET rest == SubSeq(Chain[c], i, Len(Chain[c]))
      hit == ToSet(SubSeq(rest, 1, lookup(rest)))
  IN  /\ loading[c] = {} /\ hit # {}
      /\ ref_cnt' = [h \in Hashes |-> IF h \in hit THEN ref_cnt[h] + 1 ELSE ref_cnt[h]]
      /\ loading' = [loading EXCEPT ![c] = hit]
      /\ UNCHANGED <<blocks, block_id, backend, announced, storing, kept, failures>>

complete_load(c) ==
  /\ loading[c] # {}
  /\ ref_cnt' = [h \in Hashes |-> IF h \in loading[c] THEN ref_cnt[h] - 1 ELSE ref_cnt[h]]
  /\ loading' = [loading EXCEPT ![c] = {}]
  /\ UNCHANGED <<blocks, block_id, backend, announced, storing, kept, failures>>

\* A block being written can be chosen.
EvictableMutant == SelectSeq(blocks, LAMBDA h : ref_cnt[h] <= 0)
Evictable == SelectSeq(blocks, LAMBDA h : ref_cnt[h] = 0)

\* What the reader of the events makes of the blocks reported stored and removed.
take_events(stored, removed) == (announced \ removed) \cup stored

\* The call returns None, and changes nothing, when too few blocks can be evicted.
prepare_store(c, i, j) ==
  LET hs == SubSeq(Chain[c], i, j)
      new == SelectSeq(hs, LAMBDA h : h \notin Cached)
      short == Max({0, Len(new) - get_num_free_blocks(backend)})
      gone == SubSeq(Evictable, 1, short)
      got == allocate_blocks(free_all(backend, [k \in 1..Len(gone) |-> block_id[gone[k]]]), Len(new))
      place == [h \in ToSet(new) |-> got.ids[CHOOSE k \in 1..Len(new) : new[k] = h]]
  IN  /\ storing[c] = {} /\ i <= j /\ new # <<>>
      /\ short <= Len(Evictable)
      /\ blocks' = SelectSeq(blocks, LAMBDA h : h \notin ToSet(gone)) \o new
      /\ ref_cnt' = [h \in Hashes |-> IF h \in ToSet(gone) \cup ToSet(new) THEN -1 ELSE ref_cnt[h]]
      /\ block_id' = [h \in Hashes |-> IF h \in ToSet(new) THEN place[h]
                                       ELSE IF h \in ToSet(gone) THEN -1 ELSE block_id[h]]
      /\ backend' = got.backend
      /\ announced' = take_events({}, ToSet(gone))
      /\ storing' = [storing EXCEPT ![c] = ToSet(new)]
      /\ kept' = (ToSet(hs) \subseteq ToSet(blocks'))
      /\ UNCHANGED <<loading, failures>>

\* A store that was not written leaves no trace.
complete_store(c, success) ==
  /\ storing[c] # {}
  /\ failures < MaxFailures \/ success
  /\ failures' = IF success THEN failures ELSE failures + 1
  /\ LET done == {h \in storing[c] : ref_cnt[h] = -1} IN
     IF success
     THEN /\ ref_cnt' = [h \in Hashes |-> IF h \in done THEN 0 ELSE ref_cnt[h]]
          /\ announced' = take_events(done, {})
          /\ UNCHANGED <<blocks, block_id, backend>>
     ELSE \E order \in SetToSeqs(done) :
          /\ blocks' = SelectSeq(blocks, LAMBDA h : h \notin done)
          /\ backend' = free_all(backend, [k \in 1..Len(order) |-> block_id[order[k]]])
          /\ block_id' = [h \in Hashes |-> IF h \in done THEN -1 ELSE block_id[h]]
          /\ UNCHANGED <<ref_cnt, announced>>
  /\ storing' = [storing EXCEPT ![c] = {}]
  /\ UNCHANGED <<loading, kept>>

Next ==
  \E c \in Clients :
    \/ touch(c) \/ complete_load(c)
    \/ \E i \in 1..Len(Chain[c]) : prepare_load(c, i)
    \/ \E i, j \in 1..Len(Chain[c]) : prepare_store(c, i, j)
    \/ \E success \in BOOLEAN : complete_store(c, success)

Spec == Init /\ [][Next]_vars

TypeOK ==
  /\ IsInjective(blocks) /\ Cached \subseteq Hashes
  /\ ref_cnt \in [Hashes -> -1..Cardinality(Clients)]
  /\ block_id \in [Hashes -> -1..num_blocks - 1]

\* Every CPU block handed out belongs to exactly one cached block or is on the free
\* list once: whatever is stored, evicted or fails, no two blocks share memory and
\* none is lost.
SlotsSound ==
  LET free == backend.allocated_blocks_free_list
      used == {block_id[h] : h \in Cached}
  IN  /\ IsInjective(free) /\ Cardinality(used) = Cardinality(Cached)
      /\ used \cap ToSet(free) = {}
      /\ used \cup ToSet(free) = 0..backend.num_allocated_blocks - 1

\* The events tell the truth: their reader takes for stored exactly the ready blocks.
EventsTrue == announced = {h \in Cached : Ready(h)}

\* The manager keeps the contract of OffloadStore.
Store == INSTANCE OffloadStore WITH
  Capacity <- num_blocks,
  status <- [h \in Hashes |-> IF h \notin Cached THEN "absent" ELSE IF Ready(h) THEN "ready" ELSE "storing"],
  readers <- [h \in Hashes |-> IF Ready(h) THEN ref_cnt[h] ELSE 0]
KeepsContract == Store!Spec

\* prepare_store protects the blocks it is given: after it every one of them is held.
GivenKept == kept
=============================================================================
