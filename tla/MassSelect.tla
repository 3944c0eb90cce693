----------------------------- MODULE MassSelect -----------------------------
(***************************************************************************)
(* The fused selection kernel (sparse_attn/longspec/kernels/mass_select.py)*)
(* on one row: a radix select that stops where the reserved and the        *)
(* heaviest candidates hold a share theta of the attention mass, a clamp   *)
(* of the count, a second radix select when the clamp moved it, and a      *)
(* compaction whose threads race on two counters.                          *)
(*                                                                         *)
(* A metric value is a natural number of NumPasses digits in base Base     *)
(* (two bytes of a bf16 in the code).  Sums are exact and scaled by        *)
(* ThetaDen; the fp32 sums of the code depend on the order of atomic adds, *)
(* which is modelled by up to Slack more or less missing mass per pass.    *)
(* The block's barriers are taken to work: SelectBarriers models them.     *)
(***************************************************************************)
EXTENDS Integers, FiniteSetsExt, Functions

CONSTANTS
  Base, NumPasses,
  MaxLen, Width,        \* metric.size(1), out_idx.size(1)
  Sink, Recent,
  ThetaNum, ThetaDen,
  Slack,
  Lens, Floors, Caps    \* valid_lens, cfg.min_tokens and the caps to try

VARIABLES
  pc, P, row, k_min, k_max,                       \* the input
  pass, kth, resolved,                            \* kth_bits, start_bit
  k_star, k, num_kth_needed, count_before, need, select_all, remaining,
  todo,                                           \* candidates not yet compacted
  out_cnt, out_back_cnt, out, used

input == <<P, row, k_min, k_max>>
threshold == <<kth, resolved, num_kth_needed, count_before>>
result == <<todo, out_cnt, out_back_cnt, out, used>>
vars == <<pc, input, pass, threshold, k_star, k, need, select_all, remaining, result>>

MaxKey == Base ^ NumPasses - 1
Buckets == 0 .. Base - 1
Columns == 0 .. Width - 1
Empty == -1

SmallerOf(a, b) == IF a <= b THEN a ELSE b
LargerOf(a, b) == IF a >= b THEN a ELSE b

s_eff == SmallerOf(Sink, P)
r_eff == SmallerOf(Recent, P - s_eff)
c1 == P - r_eff
Candidates == s_eff .. c1 - 1
n_cand == Cardinality(Candidates)
room == Width - s_eff - r_eff

Total(S) == ThetaDen * SumFunctionOnSet(row, S)
Reserved == (0 .. P - 1) \ Candidates

(* twiddle: the largest value has the smallest key. *)
Key(i) == MaxKey - row[i]
Prefix(i, digits) == Key(i) \div Base ^ (NumPasses - digits)

Init ==
  /\ pc = "start"
  /\ P \in Lens
  /\ \E floor \in Floors, cap \in Caps :       \* as _begin_verify sets them
       /\ floor <= cap
       /\ k_min = SmallerOf(floor, P)
       /\ k_max = SmallerOf(cap, P)
  /\ row \in [0 .. P - 1 -> 0 .. MaxKey]
  /\ pass = 0 /\ kth = 0 /\ resolved = NumPasses
  /\ k_star = 0 /\ k = 0 /\ num_kth_needed = 0 /\ count_before = 0
  /\ need = 0 /\ select_all = FALSE /\ remaining = 0
  /\ todo = {} /\ out_cnt = 0 /\ out_back_cnt = 0
  /\ out = [c \in Columns |-> Empty]
  /\ used = Empty

EmptyRow ==
  /\ pc = "start" /\ P <= 0
  /\ used' = 0
  /\ pc' = "done"
  /\ UNCHANGED <<input, pass, threshold, k_star, k, need, select_all, remaining, todo,
                 out_cnt, out_back_cnt, out>>

(* Mutant of Begin: the mass of the reserved ranges is not taken off. *)
BeginMutant ==
  /\ pc = "start" /\ P > 0
  /\ need' = ThetaNum * SumFunction(row)
  /\ pc' = IF n_cand = 0 \/ need' <= 0 THEN "clamp" ELSE "mass"
  /\ UNCHANGED <<input, pass, threshold, k_star, k, select_all, remaining, result>>
Begin ==
  /\ pc = "start" /\ P > 0
  /\ need' = ThetaNum * SumFunction(row) - Total(Reserved)
  /\ LET nothing == n_cand = 0 \/ SumFunction(row) <= 0 \/ need' <= 0
         all == ~nothing /\ ThetaNum >= ThetaDen
     IN  /\ select_all' = all
         /\ pc' = IF nothing \/ all THEN "clamp" ELSE "mass"
  /\ UNCHANGED <<input, pass, threshold, k_star, k, remaining, result>>

-----------------------------------------------------------------------------
(* The radix passes *)

Under == {i \in Candidates : Prefix(i, pass) = kth}
Bucket(b) == {i \in Under : Prefix(i, pass + 1) % Base = b}
Below(b) == UNION {Bucket(c) : c \in 0 .. b - 1}
LastPass == pass = NumPasses - 1

(* choose_by_mass: the first bucket where the cumulative mass crosses. *)
Crossing(missing) ==
  {b \in Buckets : Bucket(b) # {} /\ Total(Below(b) \union Bucket(b)) >= missing}
(* Of the tied candidates at the threshold, as many as the mass still needs. *)
TiesNeeded(missing, ties) ==
  LET v == ThetaDen * (MaxKey - kth')
      j == IF v > 0 THEN (missing + v - 1) \div v ELSE ties
  IN  IF j < 1 THEN 1 ELSE SmallerOf(j, ties)

MassPass ==
  /\ pc = "mass"
  /\ \E e \in {-Slack, 0, Slack} :
       LET missing == need + e
           b == Min(Crossing(missing))
           ties == Cardinality(Bucket(b))
       IN  \/ /\ Crossing(missing) # {}
              /\ kth' = kth * Base + b
              /\ resolved' = pass + 1
              /\ count_before' = count_before + Cardinality(Below(b))
              /\ need' = missing - Total(Below(b))
              /\ num_kth_needed' = IF LastPass THEN TiesNeeded(need', ties)
                                   ELSE num_kth_needed
              /\ k_star' = IF LastPass THEN count_before' + num_kth_needed' ELSE k_star
              /\ pass' = IF LastPass THEN 0 ELSE pass + 1
              /\ pc' = IF LastPass THEN "clamp" ELSE "mass"
              /\ UNCHANGED select_all
           \/ /\ Crossing(missing) = {}      \* no crossing: take everything left
              /\ select_all' = (pass = 0)
              /\ num_kth_needed' = IF pass = 0 THEN num_kth_needed ELSE Cardinality(Under)
              /\ k_star' = IF pass = 0 THEN k_star ELSE count_before + num_kth_needed'
              /\ resolved' = IF pass = 0 THEN resolved ELSE pass
              /\ pass' = 0
              /\ pc' = "clamp"
              /\ UNCHANGED <<kth, count_before, need>>
  /\ UNCHANGED <<input, k, remaining, result>>

ClampedCount(n) ==
  LargerOf(SmallerOf(SmallerOf(SmallerOf(LargerOf(n, k_min), k_max), n_cand), room), 0)

Clamp ==
  /\ pc = "clamp"
  /\ LET star == IF select_all THEN n_cand ELSE k_star
         moved == ClampedCount(star) # star
     IN  /\ k_star' = star
         /\ k' = ClampedCount(star)
         /\ remaining' = k'
         /\ pc' = IF moved THEN "count" ELSE "write"
         /\ IF moved
            THEN /\ kth' = 0 /\ count_before' = 0 /\ num_kth_needed' = 0
                 /\ select_all' = FALSE
            ELSE UNCHANGED <<kth, count_before, num_kth_needed, select_all>>
  /\ UNCHANGED <<input, pass, resolved, need, result>>

(* choose_by_count: the bucket that holds the remaining-th candidate; early  *)
(* exit when it is needed whole.  With k = 0 no bucket matches.              *)
Holding ==
  {b \in Buckets : /\ Cardinality(Below(b)) < remaining
                   /\ Cardinality(Below(b) \union Bucket(b)) >= remaining}
(* Mutant of StillNeeded: as if nothing were left of the first bucket. *)
StillNeededMutant(b) == remaining
StillNeeded(b) == remaining - Cardinality(Below(b))
CountPass ==
  /\ pc = "count"
  /\ \/ \E b \in Holding :
          LET full == Cardinality(Bucket(b)) = StillNeeded(b)
          IN  /\ kth' = kth * Base + b
              /\ resolved' = pass + 1
              /\ count_before' = count_before + Cardinality(Below(b))
              /\ num_kth_needed' = StillNeeded(b)
              /\ remaining' = StillNeeded(b)
              /\ pass' = IF full \/ LastPass THEN 0 ELSE pass + 1
              /\ pc' = IF full \/ LastPass THEN "write" ELSE "count"
     \/ /\ Holding = {}
        /\ pass' = IF LastPass THEN 0 ELSE pass + 1
        /\ pc' = IF LastPass THEN "write" ELSE "count"
        /\ UNCHANGED <<threshold, remaining>>
  /\ UNCHANGED <<input, k_star, k, need, select_all, result>>

-----------------------------------------------------------------------------
(* Writing the table row *)

(* The reserved indices follow the k selected ones. *)
WithReserved(o) ==
  [c \in Columns |->
     IF k <= c /\ c < k + s_eff THEN c - k
     ELSE IF k + s_eff <= c /\ c < k + s_eff + r_eff THEN c1 + c - k - s_eff
     ELSE o[c]]

(* select_all copies the candidates in order; nothing to select copies none; *)
(* otherwise the threads of the block go through the candidates.             *)
BeginWrite ==
  /\ pc = "write"
  /\ IF select_all /\ k = n_cand
     THEN /\ out' = WithReserved([c \in Columns |->
                                    IF c < n_cand THEN s_eff + c ELSE out[c]])
          /\ todo' = {}
     ELSE /\ out' = WithReserved(out)
          /\ todo' = IF k > 0 THEN Candidates ELSE {}
  /\ used' = k + s_eff + r_eff
  /\ pc' = "compact"
  /\ UNCHANGED <<input, pass, threshold, k_star, k, need, select_all, remaining, out_cnt,
                 out_back_cnt>>

(* compact, one candidate: better than the threshold goes to the front, tied *)
(* with it to the back as long as ties are needed, in whatever order the     *)
(* threads reach the atomic counters.                                        *)
CompactOne(i) ==
  /\ pc = "compact" /\ i \in todo
  /\ todo' = todo \ {i}
  /\ \/ /\ Prefix(i, resolved) < kth
        /\ out' = [out EXCEPT ![out_cnt] = i]
        /\ out_cnt' = out_cnt + 1
        /\ UNCHANGED out_back_cnt
     \/ /\ Prefix(i, resolved) = kth
        /\ out_back_cnt' = out_back_cnt + 1
        /\ out' = IF out_back_cnt < num_kth_needed
                  THEN [out EXCEPT ![k - 1 - out_back_cnt] = i] ELSE out
        /\ UNCHANGED out_cnt
     \/ /\ Prefix(i, resolved) > kth
        /\ UNCHANGED <<out, out_cnt, out_back_cnt>>
  /\ UNCHANGED <<pc, input, pass, threshold, k_star, k, need, select_all, remaining, used>>

Finish ==
  /\ pc = "compact" /\ todo = {}
  /\ pc' = "done"
  /\ UNCHANGED <<input, pass, threshold, k_star, k, need, select_all, remaining, result>>

Next ==
  \/ EmptyRow \/ Begin \/ MassPass \/ Clamp \/ CountPass \/ BeginWrite \/ Finish
  \/ \E i \in todo : CompactOne(i)

Spec == Init /\ [][Next]_vars

-----------------------------------------------------------------------------
(* Properties *)

(* The reference of the kernel's test: the fewest heaviest candidates that,  *)
(* with the reserved ranges, hold the missing mass, or all of them.          *)
Heaviest(n, S) ==
  /\ Cardinality(S) = n
  /\ \A i \in S, j \in Candidates \ S : row[i] >= row[j]
ReferenceCount(missing) ==
  LET enough == {n \in 0 .. n_cand : \E S \in SUBSET Candidates :
                   Heaviest(n, S) /\ Total(S) >= missing}
  IN  IF SumFunction(row) <= 0 \/ missing <= 0 THEN 0
      ELSE IF enough = {} THEN n_cand ELSE Min(enough)
Target == ThetaNum * SumFunction(row) - Total(Reserved)
Selected == {out[c] : c \in 0 .. used - 1}

(* The count the kernel settles on is the reference count, clamped, up to    *)
(* the rounding of the sums (Slack in every pass, either way).  k_min and  *)
(* k_max only move it when it is outside of them.                            *)
CountMatchesReference ==
  pc = "done" /\ P > 0 /\ ThetaNum < ThetaDen =>
    LET slack == IF Target > 0 THEN NumPasses * Slack ELSE 0
        low == ReferenceCount(Target - slack)
        high == ReferenceCount(Target + slack)
    IN  /\ k >= SmallerOf(LargerOf(low, k_min), SmallerOf(k_max, n_cand))
        /\ k <= LargerOf(high, k_min)
        /\ k <= k_max

(* Whatever path found the threshold and in whatever order the threads ran,  *)
(* the table row lists exactly `used` distinct tokens: the reserved ones and *)
(* k candidates none of which is lighter than a candidate left out.          *)
RowIsHeaviest ==
  pc = "done" /\ P > 0 =>
    /\ used = k + Cardinality(Reserved)
    /\ Cardinality(Selected) = used
    /\ Reserved \subseteq Selected
    /\ Heaviest(k, Selected \ Reserved)

(* At no point of the compaction does the kernel write past the first `used` *)
(* columns, and used is at most the cap plus the reserved ranges: the draft  *)
(* appends its tail behind it in the width the overrider sized for that.     *)
StaysInRow ==
  used # Empty =>
    /\ \A c \in Columns : c >= used => out[c] = Empty
    /\ used <= k_max + Sink + Recent

(* theta >= 1 selects every candidate, up to the cap (the module's           *)
(* docstring, and reference_k of its test).                                  *)
ThetaOneSelectsAll ==
  pc = "done" /\ P > 0 /\ ThetaNum >= ThetaDen => k = ClampedCount(n_cand)
=============================================================================
