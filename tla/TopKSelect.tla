----------------------------- MODULE TopKSelect -----------------------------
(***************************************************************************)
(* What a row of varlen_topk promises its caller                           *)
(* (vllm/v1/spec_decode/sparse_attn/attn_overrider/utils/varlen_topk.py):  *)
(* the first min(k, valid_len) entries of the output row are distinct      *)
(* indices of the largest metrics, in any order and with any choice among  *)
(* equal metrics, and no other entry of the row is touched.                *)
(***************************************************************************)
EXTENDS Integers

CONSTANTS MaxLen, MaxK,
          Metrics,       \* the bit patterns a metric may have
          Value(_)       \* the number a bit pattern stands for

VARIABLES req, row

Idle == [len |-> -1, k |-> 0, metric |-> <<>>]
Stale == -1              \* an entry no call has written
Columns == 0 .. MaxK - 1
Requests == UNION {[len : {n}, k : 0 .. MaxK, metric : [0 .. n - 1 -> Metrics]] :
                   n \in 0 .. MaxLen}

Filled(r) == 0 .. (IF r.k <= r.len THEN r.k ELSE r.len) - 1

(* out holds a best choice of r's indices, and outside it what old held. *)
Selects(r, old, out) ==
  /\ \A c \in Filled(r) : out[c] \in 0 .. r.len - 1
  /\ \A c, d \in Filled(r) : out[c] = out[d] => c = d
  /\ \A c \in Filled(r), i \in 0 .. r.len - 1 :
       Value(r.metric[i]) > Value(r.metric[out[c]]) =>
         \E d \in Filled(r) : out[d] = i
  /\ \A c \in Columns \ Filled(r) : out[c] = old[c]

Init == req = Idle /\ row = [c \in Columns |-> Stale]

Call == req = Idle /\ req' \in Requests /\ UNCHANGED row

Return ==
  /\ req # Idle /\ req' = Idle
  /\ DOMAIN row' = Columns /\ Selects(req, row, row')

Next == Call \/ Return
Step == Next \/ UNCHANGED <<req, row>>      \* what an implementation's step may do
Spec == Init /\ [][Next]_<<req, row>>
=============================================================================
