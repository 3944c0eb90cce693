---------------------------- MODULE MCSpecDecode ----------------------------
(* Three scenarios of speculative decoding.  "depth", this module's own       *)
(* constants: two requests with two draft tokens, a stop token and a          *)
(* preemption.  "rows": three requests with one draft token.  "odds": one     *)
(* position of a sampling request, with all distributions over three tokens   *)
(* in sixths.  The target model of the first two depends on the whole         *)
(* context: a weighted parity decides its first choice and now and then rules *)
(* the other token out.  The variables of the other scenarios stay as they    *)
(* start.                                                                     *)
EXTENDS SpecDecodeStep

CONSTANTS Scenarios,
          Penalties      \* whether the sampling request has penalties

Weighted(s) == MapThenSumSet(LAMBDA i : i * s[i], DOMAIN s) + Len(s)
ParityArgmax(s) == Weighted(s) % 2
ParitySupport(s) == IF Weighted(s) % 3 = 0 THEN {ParityArgmax(s)} ELSE Vocab
DepthPrompt == <<<<1, 0>>, <<1>>>>
DepthMaxTokens == <<4, 9>>    \* the first request ends below the model's length

VARIABLES scenario,
          text1, computed1, kv1, drafter1, num_tokens_no_spec1, preempted1,
          target, draft, seen, draft_probs, out

rows == <<text1, computed1, kv1, drafter1, num_tokens_no_spec1, preempted1>>
odds == <<target, draft, seen, draft_probs, out>>
mcvars == <<scenario, vars, rows, odds>>

Rows == INSTANCE SpecDecodeStep WITH
  Reqs <- 1 .. 3, Prompt <- <<<<0, 1>>, <<1>>, <<0>>>>, Greedy <- {1, 2}, Eos <- 7,
  NumSpec <- 1, MaxModelLen <- 5, MaxTokens <- <<9, 9, 2>>, MaxPreemptions <- 0,
  text <- text1, computed <- computed1, kv <- kv1, drafter <- drafter1,
  num_tokens_no_spec <- num_tokens_no_spec1, preempted <- preempted1
Odds == INSTANCE RejectionSampling WITH Vocab <- 0 .. 2, Total <- 6, Scale <- 60

In(s) == scenario = s

NoOdds ==
  /\ target = Odds!None /\ draft = Odds!None /\ seen = {}
  /\ draft_probs = FALSE /\ out = Odds!None
MCInit ==
  /\ scenario \in Scenarios /\ Init /\ Rows!Init
  /\ IF In("odds") THEN Odds!Init ELSE NoOdds

Finished ==
  \/ In("depth") /\ Unfinished = {}
  \/ In("rows") /\ Rows!Unfinished = {}
  \/ In("odds") /\ out # Odds!None

MCNext ==
  \/ In("depth") /\ Next /\ UNCHANGED <<scenario, rows, odds>>
  \/ In("rows") /\ Rows!Step /\ UNCHANGED <<scenario, vars, odds>>
  \/ In("odds") /\ Odds!Next /\ UNCHANGED <<scenario, vars, rows>>
  \/ Finished /\ UNCHANGED mcvars

(* The engine core steps as long as a request is unfinished.                  *)
MCFairSpec ==
  /\ MCInit /\ [][MCNext]_mcvars
  /\ WF_vars(In("depth") /\ Step) /\ WF_rows(In("rows") /\ Rows!Step)

-----------------------------------------------------------------------------
(* With three rows to a batch, too, speculation implements plain decoding,    *)
(* computed KV is exact, the drafter agrees with the scheduler; in both       *)
(* scenarios the runner's appends fit and every request is served to its      *)
(* stop.                                                                      *)
BatchesServed ==
  /\ Rows!Lossless /\ [](Rows!ComputedIsExact /\ Rows!DrafterAgrees)
  /\ [](AppendsFit /\ Rows!AppendsFit)
  /\ <>(Finished \/ In("odds"))

(* A verified position of a sampling request emits every token as often as    *)
(* the target model would.                                                    *)
EmitsTarget == In("odds") => Odds!EmitsTarget
=============================================================================
