--------------------------- MODULE SelectBarriers ---------------------------
(***************************************************************************)
(* The threads of one block of SelectKernel                                *)
(* (sparse_attn/longspec/kernels/mass_select.py), step by step between its *)
(* __syncthreads(), on the state they share: st.done and the histogram.    *)
(* Which bucket is chosen is abstracted to whether it ends the scan.  Each *)
(* thread has one candidate to count, in any of the buckets, and one       *)
(* bucket to zero, which has the thread's name.                            *)
(***************************************************************************)
EXTENDS Naturals, FiniteSets

CONSTANTS
  Threads, Leader,    \* Leader, one of Threads: threadIdx.x == 0
  NumPasses,
  EarlyEnds           \* may the mass scan end before its last pass

VARIABLES
  pc,         \* per thread, the next step
  pass,       \* per thread, the loop variable
  counting,   \* per thread: in the second loop, by count
  done,       \* st.done
  cnt,        \* the histogram: per bucket, the candidates counted
  bucket      \* per thread, where its candidate belongs

vars == <<pc, pass, counting, done, cnt, bucket>>

Init ==
  /\ pc = [t \in Threads |-> "init"]
  /\ pass = [t \in Threads |-> 0]
  /\ counting = [t \in Threads |-> FALSE]
  /\ done = FALSE
  /\ cnt = [t \in Threads |-> 0]
  /\ bucket \in [Threads -> Threads]

Goto(t, to) == pc' = [pc EXCEPT ![t] = to]

(* Thread 0 resets the state; done when there is nothing to scan for. *)
InitState(t) ==
  /\ pc[t] = "init"
  /\ done' \in IF t = Leader THEN {FALSE, EarlyEnds} ELSE {done}
  /\ Goto(t, "init_sync")
  /\ UNCHANGED <<pass, counting, cnt, bucket>>

(* for (pass < num_passes && !st.done), of both loops. *)
LoopTest(t) ==
  /\ pc[t] = "loop"
  /\ Goto(t, IF pass[t] < NumPasses /\ ~done THEN "zero"
             ELSE IF counting[t] THEN "exit" ELSE "clamp")
  /\ UNCHANGED <<pass, counting, done, cnt, bucket>>

(* Mutant of Zero: no __syncthreads() after zeroing. *)
ZeroMutant(t) ==
  /\ pc[t] = "zero"
  /\ cnt' = [cnt EXCEPT ![t] = 0]
  /\ Goto(t, "count")
  /\ UNCHANGED <<pass, counting, done, bucket>>
Zero(t) ==
  /\ pc[t] = "zero"
  /\ cnt' = [cnt EXCEPT ![t] = 0]
  /\ Goto(t, "zero_sync")
  /\ UNCHANGED <<pass, counting, done, bucket>>

Count(t) ==
  /\ pc[t] = "count"
  /\ cnt' = [cnt EXCEPT ![bucket[t]] = @ + 1]
  /\ Goto(t, "count_sync")
  /\ UNCHANGED <<pass, counting, done, bucket>>

(* choose_by_mass or choose_by_count, by thread 0. *)
MayBeDone(t) ==
  IF counting[t] THEN BOOLEAN
  ELSE IF pass[t] = NumPasses - 1 THEN {TRUE} ELSE {FALSE, EarlyEnds}
Choose(t) ==
  /\ pc[t] = "choose"
  /\ done' \in IF t = Leader THEN MayBeDone(t) ELSE {done}
  /\ Goto(t, "choose_sync")
  /\ UNCHANGED <<pass, counting, cnt, bucket>>

(* Thread 0 clamps the count; not done if that moved it. *)
Clamp(t) ==
  /\ pc[t] = "clamp"
  /\ done' \in IF t = Leader THEN BOOLEAN ELSE {done}
  /\ Goto(t, "clamp_sync")
  /\ UNCHANGED <<pass, counting, cnt, bucket>>

CountTest(t) ==
  /\ pc[t] = "count_test"
  /\ IF done
     THEN /\ Goto(t, "exit")
          /\ UNCHANGED <<pass, counting>>
     ELSE /\ pass' = [pass EXCEPT ![t] = 0]
          /\ counting' = [counting EXCEPT ![t] = TRUE]
          /\ Goto(t, "remaining_sync")
  /\ UNCHANGED <<done, cnt, bucket>>

(* __syncthreads(): one counting barrier, whichever call the threads are at; *)
(* a thread that has left the kernel is not waited for.                      *)
AfterSync ==
  [init_sync |-> "loop", zero_sync |-> "count", count_sync |-> "choose",
   choose_sync |-> "loop", clamp_sync |-> "count_test", remaining_sync |-> "loop"]
Barrier ==
  LET waiting == {t \in Threads : pc[t] \in DOMAIN AfterSync}
  IN  /\ waiting # {} /\ waiting = {t \in Threads : pc[t] # "exit"}
      /\ pc' = [t \in Threads |-> IF t \in waiting THEN AfterSync[pc[t]] ELSE pc[t]]
      /\ pass' = [t \in Threads |->
                    IF pc[t] = "choose_sync" THEN pass[t] + 1 ELSE pass[t]]
      /\ UNCHANGED <<counting, done, cnt, bucket>>

Ended == (\A t \in Threads : pc[t] = "exit") /\ UNCHANGED vars

Next ==
  \/ \E t \in Threads : \/ InitState(t) \/ LoopTest(t) \/ Zero(t) \/ Count(t)
                        \/ Choose(t) \/ Clamp(t) \/ CountTest(t)
  \/ Barrier
  \/ Ended

Spec == Init /\ [][Next]_vars

-----------------------------------------------------------------------------
(* Whenever thread 0 picks a bucket, the histogram it reads has every        *)
(* candidate of every thread exactly once: the zeroing, the counting and the *)
(* choice of one pass never overlap with those of another.                   *)
HistogramWhole ==
  pc[Leader] = "choose" =>
    \A b \in Threads : cnt[b] = Cardinality({t \in Threads : bucket[t] = b})

(* The block never meets in a barrier from two different places of the       *)
(* kernel, nor without a thread that has left it already: the threads agree  *)
(* on the loop and the pass they are in, and leave the kernel together.      *)
BarriersAgree ==
  (\A t \in Threads : pc[t] \in DOMAIN AfterSync \union {"exit"}) =>
    \A t, u \in Threads : pc[t] = pc[u] /\ pass[t] = pass[u] /\ counting[t] = counting[u]

(* The threads stay in step.                                                 *)
BlockInStep == HistogramWhole /\ BarriersAgree
=============================================================================
