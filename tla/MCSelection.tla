----------------------------- MODULE MCSelection -----------------------------
(* What a draft attends over and the kernels that choose it, one scenario    *)
(* for each model: those of MCDraftOverriders, and "mass", mass_select on    *)
(* rows of up to five values of two binary digits; "block", the barriers of  *)
(* its block with three threads; "topk", varlen_topk on two calls with rows  *)
(* of up to three patterns of two bits.  The variables a scenario's model    *)
(* lacks keep the value Unused.                                              *)
EXTENDS MCDraftOverriders

CONSTANTS t0, t1, t2,
          EarlyEnds      \* may the mass scan end before its last pass

VARIABLES
  stage, pass, kth, k, row, todo, out_cnt, out_back_cnt,
  P, k_min, k_max, resolved, k_star, num_kth_needed, count_before, need, select_all,
  remaining, out, used,
  counting, done, cnt, bucket,
  calls, req, saved, path, hist

common == <<kth, k, row, todo, out_cnt, out_back_cnt>>
massOnly == <<P, k_min, k_max, resolved, k_star, num_kth_needed, count_before, need,
              select_all, remaining, out, used>>
blockOnly == <<counting, done, cnt, bucket>>
topkOnly == <<calls, req, saved, path, hist>>
kernels == <<stage, pass, common, massOnly, blockOnly, topkOnly>>
mcvars == <<scenario, drafts, kernels>>

Mass == INSTANCE MassSelect WITH
  Base <- 2, NumPasses <- 2, MaxLen <- 5, Width <- 5, Sink <- 1, Recent <- 1,
  ThetaNum <- 7, ThetaDen <- 8, Slack <- 2,
  Lens <- {0, 1, 2, 5}, Floors <- {0, 2}, Caps <- {2, 3},
  pc <- stage
Block == INSTANCE SelectBarriers WITH
  Threads <- {t0, t1, t2}, Leader <- t0, NumPasses <- 2, pc <- stage
Topk == INSTANCE VarlenTopk WITH
  BitsPerPass <- 1, NumPasses <- 2, MaxLen <- 3, MaxK <- 3, BlocksPerRow <- 2, MaxCalls <- 2,
  pc <- stage

NoMass ==
  /\ P = Unused /\ k_min = Unused /\ k_max = Unused /\ resolved = Unused
  /\ k_star = Unused /\ num_kth_needed = Unused /\ count_before = Unused
  /\ need = Unused /\ select_all = Unused /\ remaining = Unused
  /\ out = Unused /\ used = Unused
NoBlock == counting = Unused /\ done = Unused /\ cnt = Unused /\ bucket = Unused
NoTopk ==
  calls = Unused /\ req = Unused /\ saved = Unused /\ path = Unused /\ hist = Unused
NoCommon ==
  /\ kth = Unused /\ k = Unused /\ row = Unused /\ todo = Unused
  /\ out_cnt = Unused /\ out_back_cnt = Unused

NoKernels ==
  stage = Unused /\ pass = Unused /\ NoMass /\ NoBlock /\ NoTopk /\ NoCommon

MCInit ==
  /\ scenario \in Scenarios
  /\ \/ DraftsInit /\ NoKernels
     \/ In("mass") /\ Mass!Init /\ NoDrafts /\ NoBlock /\ NoTopk
     \/ In("block") /\ Block!Init /\ NoDrafts /\ NoMass /\ NoTopk /\ NoCommon
     \/ In("topk") /\ Topk!Init /\ NoDrafts /\ NoMass /\ NoBlock

(* The kernel has returned, the last call has, or the drafts are over. *)
Ended ==
  /\ \/ In("mass") /\ stage = "done"
     \/ In("topk") /\ stage = "idle" /\ calls = 2
     \/ DraftsEnded
  /\ UNCHANGED mcvars

MCNext ==
  \/ DraftsNext /\ UNCHANGED <<scenario, kernels>>
  \/ In("mass") /\ Mass!Next /\ UNCHANGED <<scenario, drafts, blockOnly, topkOnly>>
  \/ In("block") /\ Block!Next /\ UNCHANGED <<scenario, drafts, common, massOnly, topkOnly>>
  \/ In("topk") /\ Topk!Next /\ UNCHANGED <<scenario, drafts, massOnly, blockOnly>>
  \/ Ended

MCSpec == MCInit /\ [][MCNext]_mcvars

-----------------------------------------------------------------------------
(* The count mass_select settles on is the reference count of its test,      *)
(* clamped, up to the rounding of the sums.                                  *)
CountMatchesReference == In("mass") => Mass!CountMatchesReference

(* The row mass_select writes lists the reserved tokens and k candidates     *)
(* none of which is lighter than one left out, each once, and no thread      *)
(* writes past the columns the kernel reports as used.                       *)
RowIsHeaviest == In("mass") => Mass!RowIsHeaviest /\ Mass!StaysInRow

(* Whenever thread 0 chooses a bucket, the histogram is whole.               *)
HistogramWhole == In("block") => Block!HistogramWhole

(* The block's threads stay in step: the histogram is whole when it is read, *)
(* and the block meets in one barrier at a time and leaves together.         *)
BlockInStep == In("block") => Block!BlockInStep

(* Both paths of varlen_topk implement TopKSelect: every step of the kernel  *)
(* is a call, a return with a best choice in the row, or invisible; in every *)
(* pass the elements better than the k-th key and the ones still wanted of   *)
(* it add up to k, and the two ends of the row never meet.                   *)
SelectsTopK ==
  /\ In("topk") => Topk!Contract!Init
  /\ [][In("topk") => Topk!Contract!Step]_mcvars
  /\ [](In("topk") => Topk!EndsNeverMeet /\ Topk!KthBracketed)
=============================================================================
