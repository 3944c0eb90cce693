-------------------------- MODULE CudagraphDispatch --------------------------
(***************************************************************************)
(* CUDA graph keys of the model runner and of the sparse-attention drafter:*)
(* how the graph mode is resolved, which batch sizes get a key, which are  *)
(* captured at start-up and which a batch is padded to and replays once    *)
(* the capture window has closed.  The drafter runs the runner's own inner *)
(* model, so both share the piecewise wrappers and their captured entries, *)
(* but each has a dispatcher of its own, and the two are initialised from  *)
(* different capture sizes: the drafter's before the sizes are rounded to  *)
(* a multiple of the verify length, the runner's after.                    *)
(*                                                                         *)
(* LoRA and sequence parallelism are left out, and one data-parallel rank  *)
(* is modelled.                                                            *)
(***************************************************************************)
EXTENDS Integers, FiniteSets, FiniteSetsExt

CONSTANTS
  SizeChoices,   \* candidate sets of cudagraph_capture_sizes
  SeqChoices,    \* candidate values of max_num_seqs
  LenChoices,    \* candidate values of uniform_decode_query_len, 1 + num_spec
  MaxNumTokens   \* max_num_batched_tokens, a bound on every batch

Supports == {"ALWAYS", "UNIFORM_BATCH", "UNIFORM_SINGLE_TOKEN_DECODE", "NEVER"}
Modes == {"NONE", "PIECEWISE", "FULL", "FULL_DECODE_ONLY", "FULL_AND_PIECEWISE"}

VARIABLES
  phase,          \* "config", "resolved", "drafter", "adjusted", "keys", "serving", "raised"
  mode,           \* compilation_config.cudagraph_mode
  capture_sizes,  \* compilation_config.cudagraph_capture_sizes
  qlen,           \* uniform_decode_query_len
  max_num_seqs,
  drafter,        \* the drafter's CudagraphDispatcher
  runner,         \* the runner's CudagraphDispatcher
  captured,       \* [piecewise |-> sizes, full |-> descriptors] the wrappers hold
  forward         \* the last forward pass and what became of it

vars == <<phase, mode, capture_sizes, qlen, max_num_seqs, drafter, runner, captured, forward>>

separate_routine(m) == m \in {"FULL_DECODE_ONLY", "FULL_AND_PIECEWISE"}

decode_mode(m) == IF separate_routine(m) THEN "FULL" ELSE m

mixed_mode(m) ==
  CASE m = "FULL_DECODE_ONLY" -> "NONE"
    [] m = "FULL_AND_PIECEWISE" -> "PIECEWISE"
    [] OTHER -> m

has_mode(m, x) == x \in {decode_mode(m), mixed_mode(m)}

(***************************************************************************)
(* Mode resolution.  piecewise says that attention is a splitting op, so   *)
(* that the model is compiled in pieces.                                   *)
(***************************************************************************)
ForMixed(m, support, piecewise) ==
  IF mixed_mode(m) = "FULL" /\ support # "ALWAYS"
  THEN IF piecewise THEN "FULL_AND_PIECEWISE" ELSE "FULL_DECODE_ONLY"
  ELSE m

WithoutFull(piecewise) == IF piecewise THEN "PIECEWISE" ELSE "NONE"

ForDecode(m, support, piecewise, len) ==
  IF decode_mode(m) = "FULL"
     /\ \/ support = "NEVER"
        \/ len > 1 /\ support = "UNIFORM_SINGLE_TOKEN_DECODE"
  THEN WithoutFull(piecewise)
  ELSE m

resolve_cudagraph_mode(m, support, piecewise, len) ==
  ForDecode(ForMixed(m, support, piecewise), support, piecewise, len)

MaxSize == IF capture_sizes = {} THEN 0 ELSE Max(capture_sizes)

NoGraphs == [mode |-> "NONE", piecewise |-> {}, full |-> {}, padded |-> [n \in {0} |-> 0]]

NoForward == [who |-> "none", result |-> "none", tokens |-> 0, reqs |-> 0, size |-> 0, size_reqs |-> 0]

Init ==
  /\ phase = "config"
  /\ mode \in Modes
  /\ capture_sizes \in SizeChoices
  /\ qlen \in LenChoices
  /\ max_num_seqs \in SeqChoices
  /\ drafter = NoGraphs
  /\ runner = NoGraphs
  /\ captured = [piecewise |-> {}, full |-> {}]
  /\ forward = NoForward

Resolve(support, piecewise) ==
  /\ phase = "config"
  /\ has_mode(mode, "PIECEWISE") => piecewise
  /\ IF mixed_mode(mode) = "FULL" /\ support = "NEVER"
     THEN phase' = "raised" /\ UNCHANGED mode
     ELSE /\ phase' = "resolved"
          /\ mode' = resolve_cudagraph_mode(mode, support, piecewise, qlen)
  /\ UNCHANGED <<capture_sizes, qlen, max_num_seqs, drafter, runner, captured, forward>>

(***************************************************************************)
(* CudagraphDispatcher.  A piecewise key is its size; a full key also has  *)
(* the number of requests, 0 for the relaxed descriptor of a mixed batch.  *)
(***************************************************************************)
bs_to_padded_graph_size(sizes) ==
  [n \in 0..Max(sizes) |-> IF n = 0 THEN 0 ELSE Min({s \in sizes : s >= n})]

FullDesc(size, len) == [size |-> size, reqs |-> size \div len]
RelaxedDesc(size) == [size |-> size, reqs |-> 0]

initialize_cudagraph_keys(m, len, sizes, seqs) ==
  IF m = "NONE" THEN NoGraphs
  ELSE [mode |-> m,
        piecewise |-> IF mixed_mode(m) = "PIECEWISE" THEN sizes ELSE {},
        full |-> IF mixed_mode(m) = "FULL" THEN {RelaxedDesc(s) : s \in sizes}
                 ELSE IF separate_routine(m)
                 THEN {FullDesc(s, len) : s \in {x \in sizes : x >= len /\ x <= len * seqs}}
                 ELSE {},
        padded |-> bs_to_padded_graph_size(sizes)]

Eager(n) == [mode |-> "NONE", size |-> n, reqs |-> 0]

\* The padded descriptor of a uniform batch divides the size by the verify
\* length, and asserts that nothing is left over.
Divides(d, n, uniform, len) ==
  (uniform /\ has_mode(d.mode, "FULL")) => d.padded[n] % len = 0

\* max_size is the one now in the configuration, not the one d was built from.
dispatch(d, n, uniform, disable_full, len, max_size) ==
  IF d.mode = "NONE" \/ n > max_size THEN Eager(n)
  ELSE LET size == d.padded[n]
           desc == FullDesc(size, len)
           full == ~disable_full
       IN  CASE full /\ uniform /\ has_mode(d.mode, "FULL") /\ desc \in d.full ->
                  [mode |-> "FULL", size |-> size, reqs |-> desc.reqs]
             [] full /\ RelaxedDesc(size) \in d.full -> [mode |-> "FULL", size |-> size, reqs |-> 0]
             [] size \in d.piecewise -> [mode |-> "PIECEWISE", size |-> size, reqs |-> 0]
             [] OTHER -> Eager(n)

(***************************************************************************)
(* Start-up.                                                               *)
(***************************************************************************)
\* The drafter runs one token per request: keys above the padded batch go.
Trimmed(keys, seqs) ==
  LET above == {k \in keys : k >= seqs}
  IN  IF above = {} THEN keys ELSE {k \in keys : k <= Min(above)}

InitDrafterKeys ==
  /\ phase = "resolved"
  /\ phase' = "drafter"
  /\ LET m == IF has_mode(mode, "PIECEWISE") THEN "PIECEWISE" ELSE "NONE"
         d == initialize_cudagraph_keys(m, 1, capture_sizes, max_num_seqs)
     IN  drafter' = [d EXCEPT !.piecewise = Trimmed(d.piecewise, max_num_seqs)]
  /\ UNCHANGED <<mode, capture_sizes, qlen, max_num_seqs, runner, captured, forward>>

round_up(n, k) == ((n + k - 1) \div k) * k

\* Rounded sizes above the old maximum are dropped; a single one may be added.
Rounded(sizes, k) ==
  LET kept == {r \in {round_up(s, k) : s \in sizes} : r <= Max(sizes)}
  IN  IF kept = {} /\ k <= Max(sizes) THEN {k} ELSE kept

AdjustSizes ==
  /\ phase = "drafter"
  /\ IF decode_mode(mode) = "FULL" /\ separate_routine(mode) /\ qlen > 1 /\ capture_sizes # {}
     THEN LET r == Rounded(capture_sizes, qlen)
          IN  IF r = {} THEN phase' = "raised" /\ UNCHANGED capture_sizes
              ELSE phase' = "adjusted" /\ capture_sizes' = r
     ELSE phase' = "adjusted" /\ UNCHANGED capture_sizes
  /\ UNCHANGED <<mode, qlen, max_num_seqs, drafter, runner, captured, forward>>

InitRunnerKeys ==
  /\ phase = "adjusted"
  /\ phase' = "keys"
  /\ runner' = initialize_cudagraph_keys(mode, qlen, capture_sizes, max_num_seqs)
  /\ UNCHANGED <<mode, capture_sizes, qlen, max_num_seqs, drafter, captured, forward>>

\* What the drafter's dummy runs of the given sizes capture.
DummyRuns(sizes) ==
  {s \in {dispatch(drafter, n, TRUE, FALSE, qlen, MaxSize).size : n \in sizes} :
     \E n \in sizes : dispatch(drafter, n, TRUE, FALSE, qlen, MaxSize)
                        = [mode |-> "PIECEWISE", size |-> s, reqs |-> 0]}

capture_modelMutant ==
  /\ phase = "keys"
  /\ phase' = "serving"
  /\ captured' = IF mode = "NONE" THEN captured
                 ELSE [piecewise |-> runner.piecewise \cup DummyRuns(drafter.piecewise),
                       full |-> runner.full]
  /\ UNCHANGED <<mode, capture_sizes, qlen, max_num_seqs, drafter, runner, forward>>

\* Every capture run of the runner, piecewise first and then full, also runs
\* the drafter at its number of tokens; the drafter's own keys come last.
capture_model ==
  /\ phase = "keys"
  /\ phase' = "serving"
  /\ captured' = IF mode = "NONE" THEN captured
                 ELSE [piecewise |-> runner.piecewise
                                       \cup DummyRuns(runner.piecewise \cup {d.size : d \in runner.full})
                                       \cup DummyRuns(drafter.piecewise),
                       full |-> runner.full]
  /\ UNCHANGED <<mode, capture_sizes, qlen, max_num_seqs, drafter, runner, forward>>

(***************************************************************************)
(* Serving.  A wrapper that meets a descriptor it has not captured tries   *)
(* to capture it, which raises once the window is closed.                  *)
(***************************************************************************)
Outcome(d) ==
  CASE d.mode = "NONE" -> "eager"
    [] d.mode = "PIECEWISE" -> IF d.size \in captured.piecewise THEN "replay" ELSE "uncaptured"
    [] d.mode = "FULL" -> IF [size |-> d.size, reqs |-> d.reqs] \in captured.full
                          THEN "replay" ELSE "uncaptured"

Propose(n) ==
  /\ phase = "serving"
  /\ LET d == dispatch(drafter, n, TRUE, FALSE, qlen, MaxSize)
     IN  forward' = [who |-> "drafter", result |-> Outcome(d), tokens |-> n, reqs |-> n,
                     size |-> d.size, size_reqs |-> d.reqs]
  /\ UNCHANGED <<mode, phase, capture_sizes, qlen, max_num_seqs, drafter, runner, captured>>

\* A runner batch of reqs requests and n tokens; cascade rules full graphs out.
Verify(n, reqs, uniform, cascade) ==
  /\ phase = "serving"
  /\ n >= reqs
  /\ uniform => n = qlen * reqs
  /\ (n = qlen * reqs /\ 1 \in {qlen, reqs}) => uniform
  /\ IF runner.mode # "NONE" /\ n <= MaxSize /\ ~Divides(runner, n, uniform, qlen)
     THEN forward' = [who |-> "runner", result |-> "assertion", tokens |-> n, reqs |-> reqs,
                      size |-> runner.padded[n], size_reqs |-> 0]
     ELSE LET d == dispatch(runner, n, uniform, cascade, qlen, MaxSize)
          IN  forward' = [who |-> "runner", result |-> Outcome(d), tokens |-> n, reqs |-> reqs,
                          size |-> d.size, size_reqs |-> d.reqs]
  /\ UNCHANGED <<mode, phase, capture_sizes, qlen, max_num_seqs, drafter, runner, captured>>

Next ==
  \/ \E support \in Supports, piecewise \in BOOLEAN : Resolve(support, piecewise)
  \/ InitDrafterKeys
  \/ AdjustSizes
  \/ InitRunnerKeys
  \/ capture_model
  \/ \E n \in 1..max_num_seqs : Propose(n)
  \/ \E n \in 1..MaxNumTokens, reqs \in 1..max_num_seqs, uniform, cascade \in BOOLEAN :
       Verify(n, reqs, uniform, cascade)

Spec == Init /\ [][Next]_vars

(***************************************************************************)
(* Properties.                                                             *)
(***************************************************************************)

\* Once the capture window is closed no forward pass is dispatched to a graph
\* that was never captured: the runner's capture runs and the drafter's own
\* together cover every size dispatch can pad a batch to, although the two key
\* sets and the live maximum come from different capture sizes.
NoLateCapture == forward.result # "uncaptured"

\* A replayed graph has room for the batch: at least its tokens, and for a full
\* graph of a uniform batch at least its requests and no more than the buffers
\* of max_num_seqs rows hold.
GraphCoversBatch ==
  forward.result = "replay" =>
    /\ forward.size >= forward.tokens
    /\ forward.size_reqs > 0 => /\ forward.size_reqs >= forward.reqs
                                /\ forward.size_reqs <= max_num_seqs
                                /\ forward.size = forward.size_reqs * qlen

\* Trimming the drafter's keys to the padded batch costs it no graph: a draft
\* batch no larger than the largest capture size always replays one.
DraftReplays ==
  (forward.who = "drafter" /\ drafter.mode = "PIECEWISE" /\ forward.tokens <= MaxSize)
    => forward.result = "replay"

\* "The key set is what the capture pass captures and dispatch replays, and it
\* must hold exactly the reachable sizes" (proposer.initialize_cudagraph_keys).
KeysAreReachable ==
  phase = "serving" =>
    \A k \in drafter.piecewise :
      \E n \in 1..max_num_seqs :
        dispatch(drafter, n, TRUE, FALSE, qlen, MaxSize) = [mode |-> "PIECEWISE", size |-> k, reqs |-> 0]

\* _create_padded_batch_descriptor asserts that the padded size of a uniform
\* decode batch is a multiple of the verify length.
PaddedSizeDivides == forward.result # "assertion"
=============================================================================
