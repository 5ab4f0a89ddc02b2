---------------------------- MODULE InferenceRouter ----------------------------
(***************************************************************************)
(* The inference router (ai/router.py), its policy table (ai/policy.py) and *)
(* the provider's HTTP plumbing (ai/providers/_http.py).                   *)
(*                                                                         *)
(* A call walks the chain of models its task's policy names.  A model whose *)
(* provider is not configured or cannot be reached is passed over; an       *)
(* answer the provider refuses ends the call.  A call may stream: then each *)
(* delta has reached the consumer when the next one is awaited, and a       *)
(* stream that breaks is passed over like a model that never answered.      *)
(***************************************************************************)
EXTENDS Integers, Sequences, FiniteSets

CONSTANTS
  Run,        \* the callers: one call at a time each
  MaxDeltas   \* bound: deltas of one stream that are told apart

ASSUME DeltasAssumption == MaxDeltas \in Nat \ {0}

VARIABLES
  providers,  \* the providers build_inference_router made
  call        \* the call of each caller

TextTask == {"routine_generation", "extraction", "classification", "metadata",
             "structured_generation", "semantic_task",
             "interview_content_generation", "ordinary_evaluation", "analysis",
             "deep_evaluation", "complex_reasoning", "adaptive_reasoning",
             "system_design", "final_synthesis", "difficult_followup"}

\* MODEL_REGISTRY.
Model == {"deepseek-v4-flash", "bge-m3", "qwen3-reranker"}
Provider == [m \in Model |-> IF m = "deepseek-v4-flash" THEN "deepseek" ELSE "omlx"]
Capability == [m \in Model |->
  CASE m = "deepseek-v4-flash" -> "generate"
    [] m = "bge-m3" -> "embed"
    [] m = "qwen3-reranker" -> "rerank"]

\* TASK_POLICIES: the primary model and the fallbacks after it (there are none).
Chain(task) ==
  CASE task \in TextTask -> <<"deepseek-v4-flash">>
    [] task = "embedding" -> <<"bge-m3">>
    [] task = "reranking" -> <<"qwen3-reranker">>

-----------------------------------------------------------------------------
(* What one HTTP exchange comes to.                                        *)

Status == {200, 400, 401, 403, 404, 408, 409, 422, 429, 500, 503}
ChatBody == {"chat", "no_choices", "no_message"}
EmbeddingBody == {"vectors", "no_vectors", "no_data", "bad_item"}
RerankBody == {"scores", "no_results", "bad_item"}
Exchange(bodies) ==
  (Status \X (bodies \cup {"not_json", "not_object"})) \cup {<<"timeout">>, <<"transport">>}

Unavailable == "provider_unavailable"
Refused == {"provider_auth", "provider_request"}
AIErrors == Refused \cup {Unavailable, "provider_not_configured"}

\* _raise_for_provider_status, request_json and the parser of the bodies it takes.
Outcome(x, parsed) ==
  CASE x \in {<<"timeout">>, <<"transport">>} -> Unavailable
    [] x[1] \in {401, 403} -> "provider_auth"
    [] x[1] \in {408, 409, 429} \cup (500 .. 599) -> Unavailable
    [] x[1] \in 400 .. 499 -> "provider_request"
    [] x[1] = 200 /\ x[2] \notin parsed -> "provider_request"
    [] OTHER -> "ok"

Outcomes == {Outcome(x, {"chat"}) : x \in Exchange(ChatBody)}

\* embed and rerank know one model and no fallback; without oMLX they raise.
\* An embedding list without a vector is a valid answer.
EmbedOutcomes ==
  {"provider_not_configured"} \cup
  {IF x = <<200, "no_vectors">> THEN "no_vectors" ELSE Outcome(x, {"vectors", "no_vectors"}) :
     x \in Exchange(EmbeddingBody)}
RerankOutcomes ==
  {"provider_not_configured"} \cup {Outcome(x, {"scores"}) : x \in Exchange(RerankBody)}

-----------------------------------------------------------------------------
Ended == {"answered", "failed"}

NoCall == [task |-> "none", stream |-> FALSE, step |-> "idle", at |-> 0,
           deltas |-> 0, decision |-> 0, error |-> "none"]

ModelOf(task, i) == Chain(task)[i]

\* The call goes on at position i of its chain: models without a configured
\* provider are passed over, a model that cannot generate is an error.
Proceed(c, i) ==
  LET usable == {j \in i .. Len(Chain(c.task)) :
                   \/ Capability[ModelOf(c.task, j)] # "generate"
                   \/ Provider[ModelOf(c.task, j)] \in providers}
      j == CHOOSE k \in usable : \A m \in usable : k <= m IN
  CASE usable = {} -> [c EXCEPT !.step = "failed", !.error = Unavailable]
    [] usable # {} /\ Capability[ModelOf(c.task, j)] # "generate" ->
         [c EXCEPT !.step = "failed", !.error = "provider_not_configured"]
    [] OTHER -> [c EXCEPT !.step = "asking", !.at = j]

Ask(task, stream) == Proceed([NoCall EXCEPT !.task = task, !.stream = stream], 1)

Set(r, c) == call' = [call EXCEPT ![r] = c]

\* The oMLX provider serves retrieval only: its absence is retrieval's affair.
RouterInit ==
  /\ providers \in SUBSET {"deepseek"}
  /\ call = [r \in Run |-> NoCall]

\* A connection failure goes on in the chain; any other failure is raised.
PassOver(c, outcome) ==
  IF outcome = Unavailable THEN Proceed(c, c.at + 1)
                           ELSE [c EXCEPT !.step = "failed", !.error = outcome]

\* What may come back next, as the call it leaves behind.
\* generate, and the status line of a stream.
Responded(c) ==
  {CASE outcome # "ok" -> PassOver(c, outcome)
     [] outcome = "ok" /\ c.stream -> [c EXCEPT !.step = "streaming", !.deltas = 0]
     [] OTHER -> [c EXCEPT !.step = "answered", !.decision = c.at] :
   outcome \in Outcomes}

\* The first delta carries the decision.
Delta(c) == [c EXCEPT !.deltas = @ + 1, !.decision = IF @ = 0 THEN c.at ELSE @]

\* [DONE], or the end of the body without it.
EndOfStream(c) ==
  [c EXCEPT !.step = "answered", !.decision = IF @ = 0 THEN c.at ELSE @]

\* Mutant: only [DONE] ends a stream, and it is not sent.
Streamed_AwaitsDone(c) ==
  (IF c.deltas < MaxDeltas THEN {Delta(c)} ELSE {}) 

\* stream_chat is broken off by a timeout or a transport failure.
Broken(c) == PassOver(c, Unavailable)

\* A stream goes on, ends, or breaks.
Streamed(c) ==
  (IF c.deltas < MaxDeltas THEN {Delta(c)} ELSE {}) \cup {EndOfStream(c), Broken(c)}

Answers(c) ==
  CASE c.step = "asking" -> Responded(c)
    [] c.step = "streaming" -> Streamed(c)
    [] OTHER -> {}
=============================================================================
