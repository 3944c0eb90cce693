----------------------------- MODULE VarlenTopk -----------------------------
(***************************************************************************)
(* The radix selection of varlen_topk on one row of its batch              *)
(* (vllm/v1/spec_decode/sparse_attn/attn_overrider/utils/varlen_topk.py),  *)
(* which picks the tokens the Vegas overrider's draft attends to.          *)
(*                                                                         *)
(* A call takes one of two paths.  The single-block kernel does every pass *)
(* in one block, between __syncthreads, with counters in shared memory.    *)
(* The multi-block path is a sequence of kernels on one stream, each with  *)
(* several blocks per row, and keeps its counters in a workspace that      *)
(* survives the call.  Between two barriers, or inside one kernel, threads *)
(* and blocks run in any order: the model adds the slices of a histogram   *)
(* and filters the elements of the row in every order.                     *)
(***************************************************************************)
EXTENDS Integers, FiniteSets

CONSTANTS
  BitsPerPass, NumPasses,   \* the digits of a metric's bit pattern
  MaxLen, MaxK,
  BlocksPerRow,             \* multiblock_rows
  MaxCalls                  \* bound on the calls explored

Width == BitsPerPass * NumPasses
Patterns == 0 .. 2 ^ Width - 1
NumBuckets == 2 ^ BitsPerPass
Buckets == 0 .. NumBuckets - 1

(* A floating-point pattern is a sign bit and a magnitude. *)
SignBit == 2 ^ (Width - 1)
Value(b) == IF b >= SignBit THEN SignBit - b ELSE b

(* cub's TwiddleIn makes unsigned order the numeric order, and the kernel    *)
(* inverts it, so that the largest metric has the smallest key.              *)
TwiddleIn(b) == IF b >= SignBit THEN 2 ^ Width - 1 - b ELSE b + SignBit
twiddle_inMutant(b) == 2 ^ Width - 1 - b      \* the sign is not treated apart
twiddle_in(b) == 2 ^ Width - 1 - TwiddleIn(b)

calc_start_bit(p) == Width - (p + 1) * BitsPerPass
calc_bucket(key, p) == (key \div 2 ^ calc_start_bit(p)) % NumBuckets
High(key, p) == key - (key % 2 ^ calc_start_bit(p))  \* (key >> bit) << bit

VARIABLES
  calls,            \* calls started
  req,              \* the call's valid_len, k and metrics
  row, saved,       \* the output row, and its content before the call
  path, pc, pass,
  todo,             \* the blocks or elements still to do in this phase
  k, kth,           \* counter.k / remaining_ks, kth_value_bits / kth_bits
  hist, out_cnt, out_back_cnt

counters == <<k, kth, hist, out_cnt, out_back_cnt>>
vars == <<calls, req, row, saved, path, pc, pass, todo, counters>>

Contract == INSTANCE TopKSelect
  WITH Metrics <- Patterns, row <- IF pc = "idle" THEN row ELSE saved

Empty == [i \in Buckets |-> 0]
Key(i) == twiddle_in(req.metric[i])

Init ==
  /\ calls = 0 /\ req = Contract!Idle
  /\ row = [c \in Contract!Columns |-> Contract!Stale] /\ saved = row
  /\ path = "single" /\ pc = "idle" /\ pass = 0 /\ todo = {}
  /\ k = 0 /\ kth = 0 /\ hist = Empty /\ out_cnt = 0 /\ out_back_cnt = 0

-----------------------------------------------------------------------------
(* A row with no more elements than k keeps them all, in order. *)
Trivial(r) == r.k # 0 /\ r.len <= r.k
AllOf(r) == [c \in Contract!Columns |-> IF c < r.len THEN c ELSE row[c]]

Started(r, p) ==
  /\ pc = "idle" /\ calls < MaxCalls
  /\ calls' = calls + 1 /\ req' = r /\ path' = p /\ saved' = row /\ pass' = 0

(* SingleBlockKernel up to its first pass; it returns early on a k of 0 and  *)
(* on a trivial row.                                                         *)
LaunchSingle ==
  \E r \in Contract!Requests :
    /\ Started(r, "single")
    /\ row' = IF Trivial(r) THEN AllOf(r) ELSE row
    /\ IF r.k = 0 \/ Trivial(r)
       THEN pc' = "done" /\ todo' = {} /\ UNCHANGED counters
       ELSE /\ pc' = "histogram" /\ todo' = {0}
            /\ k' = r.k /\ kth' = 0 /\ hist' = Empty
            /\ out_cnt' = 0 /\ out_back_cnt' = 0

(* launch_multi_block: the workspace is zeroed, remaining_ks copied and      *)
(* HandleTrivialKernel run; the passes then run for every row.               *)
LaunchMulti ==
  \E r \in Contract!Requests :
    /\ Started(r, "multi")
    /\ row' = IF Trivial(r) THEN AllOf(r) ELSE row
    /\ pc' = "histogram" /\ todo' = 0 .. BlocksPerRow - 1
    /\ k' = r.k /\ kth' = 0 /\ hist' = Empty
    /\ out_cnt' = 0 /\ out_back_cnt' = 0

(* The elements a block scans: the whole row, or its slice of it. *)
Least(a, b) == IF a <= b THEN a ELSE b
ElemsPerBlock == (req.len + BlocksPerRow - 1) \div BlocksPerRow
Slice(b) ==
  IF path = "single" THEN 0 .. req.len - 1
  ELSE b * ElemsPerBlock .. Least((b + 1) * ElemsPerBlock, req.len) - 1

(* An element counts in pass 0, and later while its digits so far are the    *)
(* k-th key's.                                                               *)
Counted(i) == pass = 0 \/ High(Key(i), pass - 1) = kth
InBucket(is, v) ==
  {i \in is : Counted(i) /\ calc_bucket(Key(i), pass) = v}

Histogram ==
  /\ pc = "histogram"
  /\ \E b \in todo :
       /\ hist' = [v \in Buckets |-> hist[v] + Cardinality(InBucket(Slice(b), v))]
       /\ todo' = todo \ {b}
  /\ pc' = IF todo' = {} THEN "choose" ELSE pc
  /\ UNCHANGED <<calls, req, row, saved, path, pass, k, kth, out_cnt, out_back_cnt>>

(* The inclusive prefix sums of the histogram. *)
Scan[v \in -1 .. NumBuckets - 1] == IF v = -1 THEN 0 ELSE Scan[v - 1] + hist[v]

(* choose_bucket, and MultiBlockChooseBucketKernel: the bucket of the k-th   *)
(* element (none on a trivial row with k past its length).  The single-block *)
(* path stops as soon as the whole bucket is wanted, the other never.        *)
Chosen == {v \in Buckets : Scan[v - 1] < k /\ k <= Scan[v]}
Stops ==
  \/ pass = NumPasses - 1
  \/ path = "single" /\ \E v \in Chosen : hist[v] = k - Scan[v - 1]

Choose ==
  /\ pc = "choose"
  /\ IF Chosen = {} THEN UNCHANGED <<k, kth>>
     ELSE \E v \in Chosen : /\ k' = k - Scan[v - 1]
                            /\ kth' = kth + v * 2 ^ calc_start_bit(pass)
  /\ hist' = Empty
  /\ IF ~Stops
     THEN /\ pc' = "histogram" /\ pass' = pass + 1
          /\ todo' = IF path = "single" THEN {0} ELSE 0 .. BlocksPerRow - 1
     ELSE IF req.k = 0 \/ Trivial(req)
     THEN pc' = "done" /\ todo' = {} /\ UNCHANGED pass
     ELSE pc' = "filter" /\ todo' = 0 .. req.len - 1 /\ UNCHANGED pass
  /\ UNCHANGED <<calls, req, row, saved, path, out_cnt, out_back_cnt>>

(* last_filter, and MultiBlockFilterKernel, on one element: a better key     *)
(* takes the next entry from the front, an equal one from the back while     *)
(* elements of that key are still wanted.                                    *)
Filter ==
  /\ pc = "filter"
  /\ \E i \in todo :
       /\ IF High(Key(i), pass) < kth
          THEN /\ row' = [row EXCEPT ![out_cnt] = i]
               /\ out_cnt' = out_cnt + 1 /\ UNCHANGED out_back_cnt
          ELSE IF High(Key(i), pass) = kth
          THEN /\ out_back_cnt' = out_back_cnt + 1 /\ UNCHANGED out_cnt
               /\ row' = IF out_back_cnt < k
                         THEN [row EXCEPT ![req.k - 1 - out_back_cnt] = i]
                         ELSE row
          ELSE UNCHANGED <<row, out_cnt, out_back_cnt>>
       /\ todo' = todo \ {i}
  /\ pc' = IF todo' = {} THEN "done" ELSE pc
  /\ UNCHANGED <<calls, req, saved, path, pass, k, kth, hist>>

Return ==
  /\ pc = "done"
  /\ pc' = "idle" /\ req' = Contract!Idle
  /\ UNCHANGED <<calls, row, saved, path, pass, todo, counters>>

Next == LaunchSingle \/ LaunchMulti \/ Histogram \/ Choose \/ Filter \/ Return
Spec == Init /\ [][Next]_vars

-----------------------------------------------------------------------------
(* Shared counters stay in range, and the row holds indices or what was      *)
(* there before.                                                             *)
TypeOK ==
  /\ pc \in {"idle", "histogram", "choose", "filter", "done"}
  /\ path \in {"single", "multi"} /\ pass \in 0 .. NumPasses - 1
  /\ row \in [Contract!Columns -> -1 .. MaxLen - 1]
  /\ k \in 0 .. MaxK /\ kth \in Patterns /\ hist \in [Buckets -> 0 .. MaxLen]
  /\ out_cnt \in 0 .. MaxLen /\ out_back_cnt \in 0 .. MaxLen

(* choose_bucket narrows to the k-th element and loses nothing: in every     *)
(* pass of a row that needs a selection, the elements already known to be    *)
(* better than the k-th key and the ones still wanted of it add up to k, and *)
(* the candidates are enough.                                                *)
KthBracketed ==
  (req.k \in 1 .. req.len - 1 /\ pc \in {"histogram", "choose", "filter"}) =>
    LET p == IF pc = "filter" THEN pass ELSE pass - 1
        High1(i) == IF p = -1 THEN 0 ELSE High(Key(i), p)
        Better == {i \in 0 .. req.len - 1 : High1(i) < kth}
        Equal  == {i \in 0 .. req.len - 1 : High1(i) = kth}
    IN  Cardinality(Better) + k = req.k /\ 1 <= k /\ k <= Cardinality(Equal)

(* last_filter fills the row from both ends with two atomic counters; the    *)
(* ends never meet, so no entry is written twice or outside [0, k).          *)
EndsNeverMeet == pc = "filter" => out_cnt + Least(out_back_cnt, k) <= req.k

(* Both paths, whatever the order of blocks and threads and whatever the     *)
(* previous call left in the workspace, keep the contract of varlen_topk.    *)
SelectsTopK == Contract!Spec
=============================================================================
