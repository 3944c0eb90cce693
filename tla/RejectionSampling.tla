------------------------- MODULE RejectionSampling -------------------------
(***************************************************************************)
(* How likely each token is at one drafted position of a sampling request: *)
(* the draft sampled by the proposer, the test of                          *)
(* rejection_random_sample_kernel and the token that                       *)
(* sample_recovered_tokens_kernel puts in place of a rejected draft, with  *)
(* exact rational probabilities.                                           *)
(*                                                                         *)
(* A distribution is a function of integer weights.  A penalty shifts the  *)
(* logits of the tokens already in the output; here it halves their odds.  *)
(* Temperature, top-k and top-p are applied alike to both models by both   *)
(* samplers and are part of the weights.                                   *)
(***************************************************************************)
EXTENDS Integers, FiniteSets, FiniteSetsExt

CONSTANTS
  Vocab,           \* token ids, from 0
  Total,           \* the models' weights add up to this
  Scale,           \* a common multiple of 1 .. Total
  Penalties        \* whether the request has presence penalties

Sum(w) == MapThenSumSet(LAMBDA t : w[t], Vocab)
Larger(a, b) == IF a >= b THEN a ELSE b
Smaller(a, b) == IF a <= b THEN a ELSE b
Dists == {w \in [Vocab -> 0 .. Total] : Sum(w) = Total}
None == [t \in Vocab |-> -1]

VARIABLES
  target, draft,   \* the two models' distributions at this position
  seen,            \* the tokens the penalties apply to
  draft_probs,     \* FALSE for a proposer without probabilities (ngram)
  out              \* the weight of each emitted token

vars == <<target, draft, seen, draft_probs, out>>

Init ==
  /\ target \in Dists /\ draft \in Dists
  /\ seen \in IF Penalties THEN SUBSET Vocab ELSE {{}}
  /\ draft_probs \in BOOLEAN
  /\ ~draft_probs => \E t \in Vocab : draft[t] = Total   \* proposes one token
  /\ out = None

-----------------------------------------------------------------------------
apply_penalties(w) == [t \in Vocab |-> IF t \in seen THEN w[t] ELSE 2 * w[t]]

target_probs == apply_penalties(target)
(* What the proposer's sampler draws the draft from. *)
Proposed == IF draft_probs THEN apply_penalties(draft) ELSE draft
(* What get_draft_probs recomputes from the saved hidden states. *)
compute_probs == draft

(* Accept t when target_prob / draft_prob >= uniform: the probability of that,
   in units of 1 / (Scale * Sum(target_probs)). *)
Accept(t) ==
  IF compute_probs[t] = 0 THEN 0
  ELSE Smaller(Sum(target_probs) * compute_probs[t], target_probs[t] * Total)
         * (Scale \div compute_probs[t])
Unit == Scale * Sum(target_probs)

(* The weights the recovered token is drawn by, after draft d: argmax over
   prob / exponential noise draws by prob, and takes token 0 if all are 0. *)
ResidualMutant(d) == target_probs
Residual(d) ==
  LET prob == [t \in Vocab |->
        IF draft_probs
        THEN Larger(target_probs[t] * Total - compute_probs[t] * Sum(target_probs), 0)
        ELSE IF t = d THEN 0 ELSE target_probs[t]]
  IN  IF Sum(prob) = 0 THEN [t \in Vocab |-> IF t = 0 THEN 1 ELSE 0] ELSE prob

(* All residuals of one state have the same sum but for draft_probs = FALSE,
   where only one draft is possible. *)
Drafts == {t \in Vocab : Proposed[t] > 0}
Verify ==
  /\ out = None
  /\ LET d0 == CHOOSE d \in Drafts : TRUE
         rejected == Sum([d \in Vocab |-> Proposed[d] * (Unit - Accept(d))])
     IN  out' = [t \in Vocab |->
                   Proposed[t] * Accept(t) * Sum(Residual(d0)) + rejected * Residual(d0)[t]]
  /\ UNCHANGED <<target, draft, seen, draft_probs>>

Next == Verify
Spec == Init /\ [][Next]_vars
-----------------------------------------------------------------------------
(* A verified position emits every token exactly as often as sampling from
   the target model would, whatever the draft model's distribution is. *)
EmitsTarget ==
  out # None => \A t \in Vocab : out[t] * Sum(target_probs) = target_probs[t] * Sum(out)
=============================================================================
